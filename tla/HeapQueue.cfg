SPECIFICATION KernelSpec
CONSTANTS
  idle = idle
  p1 = p1
  p2 = p2
  p3 = p3
  Idle = idle
  Proc <- Four
  Context <- Four
  HEAP_START = 32
  HEAP_SIZE = 64
  HeaderSize = 12
  NodeSize = 8
  Node <- Address
  null <- nullptr
  Sizes = {2, 20}
  MaxBlocks = 2
INVARIANTS
  
  QueueIsWhole
  NodesHaveOneOwner
PROPERTY ImplementsReadyQueue
SYMMETRY Alike
CHECK_DEADLOCK FALSE
