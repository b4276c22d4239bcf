CONSTANTS
  idle = idle
  main = main
  p = p
  Tasks <- Three
  Idle <- idle
  Priority <- ShortSlices
  KernelThreads <- KThreads
  First <- Runs
  BootQueue <- Queue
  MaxCommands = 2
  ReadSectors <- OneOrTwo
  WriteSectors <- OneOrTwo
  SlowDrive = TRUE
  TimeLimit = 3
SPECIFICATION FairSpec
INVARIANTS
  TypeOK
  DataMoved
  AnswerAwaited
PROPERTIES
  PostedForCommand
  AnswerArrives
\* The kernel stops when busy_wait fails.
CHECK_DEADLOCK FALSE
