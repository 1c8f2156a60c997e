SPECIFICATION Spec
CONSTANTS
  PT_ENTRIES = 8
  PD_ENTRIES = 7
  METADATA_ADDR = 9
  LOW_DATA_START_ADDR = 16
  Limit = 28
  framebuffer = 32
  FbSizes = {0, 4, 12}
  Device = 48
  Low = 2
  Blocks = {1, 2}
  Depth = 4
INVARIANTS HeldAreMapped TlbIsFresh StopsForAReason
PROPERTY OnlyRequestedPagesChange
CHECK_DEADLOCK FALSE
