SPECIFICATION FairSpec
CONSTANTS
  Volumes <- MCVolumes
  SECTOR_SIZE = 4
  DirEntrySize = 2
  MAX_FILE_HANDLES = 2
  BASE = 2
  EXT = 1
  MAX_PATH_SIZE = 8
  Residues = {"NUL", "x"}
  MaxFailures = 1
  Paths <- MCPaths
  ReadSizes = {3, 9}
  MaxOpens = 3
INVARIANTS TypeOK ReadCorrect BufferCoherent NoHandleLeak OpenCorrectFresh
PROPERTY CallsReturn
CHECK_DEADLOCK FALSE
