SPECIFICATION Spec
CONSTANTS
  LOW_DATA_START_ADDR = 3
  Reserved = 2
  Frames = 5
  LastSlot = 4
  Blocks = {1, 2}
INVARIANTS
  SoundAndCounted
 
CHECK_DEADLOCK FALSE
