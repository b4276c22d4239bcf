CONSTANTS
  idle = idle
  main = main
  thread = thread
  init = init
  console = console
  Tasks <- FourTasks
  Idle <- idle
  Priority <- MixedSlices
  Locks <- OneLock
  KernelThreads <- KThreads
  Main <- main
  BootQueue <- Queue
  NoTask = NoTask
  NoLock = NoLock
  MaxRepeat = 2
SPECIFICATION FairSpec
INVARIANTS
  TypeOK
  IInv
  NoPanic
  MutualExclusion
  ListsExact
  HolderKnown
  NoLostWakeup
PROPERTIES
  DispatchWhenQuiet
  NoOvertaking
  ImplementsLockSpec
