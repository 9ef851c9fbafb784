CONSTANTS
  Script <- GetGet
  CcTls = "No"
  Replies <- Usual
  ServerMay = {"earlyData"}
  LiteralsPooled = TRUE
  MaxChunks = 1
SPECIFICATION Spec
INVARIANTS FileDeviceIsFree
CHECK_DEADLOCK FALSE
