CONSTANTS
  FileSize = 5
  BUFSIZE = 2
SPECIFICATION Spec
INVARIANTS CopiesTheSource
CHECK_DEADLOCK FALSE
