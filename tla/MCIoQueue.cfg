CONSTANTS
  idle = idle
  r1 = r1
  r2 = r2
  a = a
  b = b
  Tasks <- TwoReaders
  Idle <- idle
  Priority <- LongSlices
  First <- r1
  BootQueue <- Queue
  Keys <- TwoKeys
  NoKey = NoKey
  NoTask = NoTask
  BufSize = 4
SPECIFICATION FairSpec
INVARIANTS
  TypeOK
  SleeperRecorded
  LockPassedOn
PROPERTIES
  ImplementsKeyQueue
  ReadReturns
