CONSTANTS
  Script <- StopMidway
  CcTls = "Implicit"
  Replies <- Any
  ServerMay = {"earlyData", "earlyReply", "abort", "abrupt", "drop", "readFails"}
  LiteralsPooled = FALSE
  MaxChunks = 1
SPECIFICATION Spec
INVARIANTS TypeOK ChannelIsFronts AwaitsItsReply
CHECK_DEADLOCK FALSE
