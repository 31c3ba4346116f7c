SPECIFICATION FairSpec
CONSTANTS
  WORD = 16
  StubAddress <- MCStubAddress
  ImagePages = {0, 1}
  StackPage = 0
  ArgumentPages = {0, 1}
  MasterMasks <- MCMasterMasks
  SlaveMasks <- MCSlaveMasks
  ScanCodes <- MCShifts
  MaxKeys = 3
  MaxNoise = 2
INVARIANTS TypeOK EoiBalanced VectorsRemapped DeliveryRight TypedRight DeafOnlyIfEarly
PROPERTIES ConsoleExclusive KeysHandled MainArrives
CHECK_DEADLOCK FALSE
