CONSTANTS
  idle = idle
  main = main
  p = p
  Tasks <- OneProcess
  Idle <- idle
  Priority <- ShortSlices
  KernelThreads <- KThreads
  First <- Runs
  BootQueue <- Queue
  MaxCommands = 1
  ReadSectors <- One
  WriteSectors <- One
  SlowDrive = TRUE
  TimeLimit = 3
SPECIFICATION FairSpec
PROPERTIES
  NapEnds
\* The kernel stops when busy_wait fails.
CHECK_DEADLOCK FALSE
