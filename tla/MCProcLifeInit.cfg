CONSTANTS
  idle = idle
  main = main
  init = init
  p1 = p1
  p2 = p2
  p3 = p3
  Tasks <- ThreeSlots
  Idle <- idle
  Priority <- ShortSlices
  Main <- main
  Init <- init
  MaxPid = 7
  KernelPages = 84
  MaxForks = 3
SPECIFICATION FairSpec
PROPERTIES
  InitCollects
