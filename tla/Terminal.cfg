SPECIFICATION TerminalSpec
CONSTANTS
  INPUTS_TO_SAVE = 3
  INPUT_MAX_SIZE = 2
  Letter <- Keys
  Saves = 4
  Prompt <- Sign
  Unwritten <- Garbage
  Outputs <- Texts
  screen_width = 8
  font_width = 2
  screen_row_num = 2
INVARIANTS NewestInputsAreHeld  
