SPECIFICATION FileSpec
CONSTANTS
  BlockSize = 2
  Direct = 2
  PerBlock = 2
  Imported <- Files
  Inputs <- Typed
  Writes = 3
INVARIANTS WritesKeepOrReplace CatPrintsUpToIndirect
