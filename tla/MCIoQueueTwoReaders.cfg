CONSTANTS
  idle = idle
  r1 = r1
  r2 = r2
  a = a
  b = b
  Tasks <- TwoReaders
  Idle <- idle
  Priority <- ShortSlices
  First <- r1
  BootQueue <- Queue
  Keys <- TwoKeys
  NoKey = NoKey
  NoTask = NoTask
  BufSize = 3
SPECIFICATION Spec
INVARIANTS
  SleepsOnlyWhenEmpty
