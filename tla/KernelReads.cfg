SPECIFICATION Spec
CONSTANTS
  WORD = 16
  StubAddress <- MCStubAddress
  ImagePages = {0, 1}
  StackPage = 0
  ArgumentPages = {0}
  MasterMasks <- MCMasterMasks
  SlaveMasks <- MCSlaveMasks
  ScanCodes <- MCLetter
  MaxKeys = 2
  MaxNoise = 0
INVARIANT TypedAlways
CHECK_DEADLOCK FALSE
