SPECIFICATION HeapSpec
CONSTANTS
  Slots = {1, 2}
  NumPages = 3
  Frames = 4
  PG_SIZE = 7
  ArenaSize = 1
  BlockSizes <- TwoClasses
  RequestSizes = {3, 9}
  Segments = {}
INVARIANT ListsAvailable
CHECK_DEADLOCK FALSE
