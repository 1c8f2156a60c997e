SPECIFICATION FairSpec
CONSTANTS
  Lba <- Sectors
  Value <- Bits
  MaxSectors = 2
  Timeout = 3
  Answer = 1
  Word = 2
  Delays = {1}
INVARIANT CallsDoWhatTheyReturn
PROPERTIES EveryCallReturns DelayWaitsBeforeWrap
