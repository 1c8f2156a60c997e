SPECIFICATION Spec
CONSTANTS
  f = f
  g = g
  Blocks = 6
  Metadata = {0}
  EXT2_FIRST_NONRESERVED_INO = 2
  Inodes = 4
  Name = {f, g}
  Room = 2
  Direct = 1
  PerBlock = 1
  BLK_SIZE = 2
  Restarts = 1
CHECK_DEADLOCK FALSE
SYMMETRY Names
INVARIANTS
  DiskIsSafe
  PoolIsWhole
PROPERTY FilesKeepTheirBlocks
