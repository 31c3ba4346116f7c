SPECIFICATION FairSpec
CONSTANTS
  Geometries <- MCGeometries
  Drives = {0, 128}
  bdb_sectors_per_track = 18
  bdb_heads = 2
  StageSectors = 17
  MaxKeys = 2
INVARIANTS TypeOK RetryAfterReset A20Open HandshakeClean
PROPERTIES LoadIsBlockDevice BootEnds
CHECK_DEADLOCK FALSE
