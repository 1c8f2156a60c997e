SPECIFICATION Spec
CONSTANTS
  KEYBOARD_BUFFER_SIZE = 3
  Key <- Keys
  Wire = 2
INVARIANTS
  DecoderFollowsKeys
PROPERTIES
  ImplementsFifo
