CONSTANTS
  Script <- ListGetPut
  CcTls = "Yes"
  Replies <- Usual
  ServerMay = {}
  LiteralsPooled = TRUE
  MaxChunks = 3
SPECIFICATION FairSpec
INVARIANTS HoldsFrontsDevices NoRetiredChannelListed StoredIsReceived NoFault UploadComplete AsksItsProtection
PROPERTIES NullIsLast RefusedSendsNoMore SessionEnds
CHECK_DEADLOCK FALSE
