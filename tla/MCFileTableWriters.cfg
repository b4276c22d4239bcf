CONSTANTS
  p = p
  q = q
  boot = boot
  file = file
  Processes <- Two
  First <- p
  Files <- TwoFiles
  BootFile <- boot
  Deleted = deleted
  MAX_FILE_OPEN = 4
  MAX_FILES_OPEN_PER_PROC = 2
  MaxInodes = 3
  MaxCount = 2
  NULL = NULL
SPECIFICATION Spec
INVARIANT SingleWriter
CHECK_DEADLOCK FALSE
