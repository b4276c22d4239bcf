SPECIFICATION SequentialSpec
CONSTANTS
  Bytes = {1, 2}
  BLOCK_SIZE = 2
  Direct = 2
  Blocks140 = 4
  NumBlocks = 6
  MaxCall = 3
  Wrap = 64
  Slots = {1, 2}
  NumPages = 3
  Frames = 4
  PG_SIZE = 7
  ArenaSize = 1
  BlockSizes <- TwoClasses
  RequestSizes = {3, 9}
  Segments <- Programs
  Fingers = 3
  MaxWire = 2
  Letters = {"n"}
  MAX_PATH_LEN = 8
  MAX_ARG_NR = 2
INVARIANTS
  TypesOK
  BlocksReady
  HeapSound
  KeysAsHeld
  CommandAsTyped
PROPERTIES
  ImplementsByteFile
CHECK_DEADLOCK FALSE
