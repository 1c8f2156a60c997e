SPECIFICATION FairSpec
CONSTANTS
  Slots = 2
  Lba <- Sectors
  Value <- Bits
  MaxSectors = 2
INVARIANTS TrueMeansDone
PROPERTIES  EveryCallReturns
CHECK_DEADLOCK FALSE
