SPECIFICATION Spec
CONSTANTS
  Volumes <- MCVolumes
  SECTOR_SIZE = 4
  DirEntrySize = 2
  MAX_FILE_HANDLES = 2
  BASE = 2
  EXT = 1
  MAX_PATH_SIZE = 8
  Residues = {"NUL", "x"}
  MaxFailures = 0
  Paths <- MCPaths
  ReadSizes = {3, 9}
  MaxOpens = 3
INVARIANT OpenCorrect
CHECK_DEADLOCK FALSE
