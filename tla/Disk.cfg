SPECIFICATION FairSpec
CONSTANTS
  Geometries <- MCGeometries
  Drives = {0, 128}
  ReturnAddress = 37000
  Lbas <- MCLbas
  Counts = {1, 9}
  Errors = {4, 6}
INVARIANTS TypeOK SuccessMeansData Drive0RetryAfterReset
PROPERTY IsBlockDevice
CHECK_DEADLOCK FALSE
