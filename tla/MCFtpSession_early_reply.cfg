CONSTANTS
  Script <- OnePut
  CcTls = "No"
  Replies <- Usual
  ServerMay = {"earlyReply"}
  LiteralsPooled = TRUE
  MaxChunks = 1
SPECIFICATION Spec
INVARIANTS UploadComplete
CHECK_DEADLOCK FALSE
