SPECIFICATION Spec
CONSTANTS
  Geometries <- MCGeometries
  Drives = {0, 128}
  ReturnAddress = 37000
  Lbas <- MCLbas
  Counts = {1, 9}
  Errors = {4}
INVARIANT RetryAfterReset
CHECK_DEADLOCK FALSE
