SPECIFICATION Spec
CONSTANTS
  Volumes <- MCVolumes
  SECTOR_SIZE = 4
  DirEntrySize = 2
  MAX_FILE_HANDLES = 2
  BASE = 2
  EXT = 1
  MAX_PATH_SIZE = 8
  Residues = {"NUL", "x"}
  MaxFailures = 2
  Kernel <- MCKernel
  MEMORY_LOAD_SIZE = 16
  MAX_E820_REGIONS = 2
  MaxBlocks = 4
  BlockSizes = {20, 24}
  UpperCr0 <- MCUpperCr0
INVARIANT NoDivideError
CHECK_DEADLOCK FALSE
