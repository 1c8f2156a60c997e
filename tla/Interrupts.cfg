SPECIFICATION FairKernelSpec
CONSTANTS
  Line = {14}
  idle = idle
  reaper = reaper
  a = a
  b = b
  NoProc = NoProc
  Idle = idle
  Reaper = reaper
  Proc <- TwoAddresses
  TIME_QUANTUM = 1
  Priority = {1, 2}
INVARIANTS
  OnlyLiveAreSchedulable
  ExecutesOnOwnedStack
  ReapedOnce
  OnePlaceInTheRound
PROPERTIES
  OnlyItsSwitchLoses
  ImplementsLifecycle
  QueuedGetsTheCpu
  ZombieIsReaped
  EveryInterruptIsHandled
