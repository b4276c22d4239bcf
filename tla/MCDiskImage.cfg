CONSTANTS
  n1 = n1
  n2 = n2
  n3 = n3
  Names <- ThreeNames
  NumInodes = 4
  NumBlocks = 3
  Direct = 2
  InodeNoSize = 256
  PerBlock = 3
  MaxCuts = 1
  NULL = NULL
SPECIFICATION Spec
SYMMETRY Renamings
INVARIANTS
  TypeOK
  CrashSafe
  EmptyIsOneBlock
  NothingLost
CHECK_DEADLOCK FALSE
