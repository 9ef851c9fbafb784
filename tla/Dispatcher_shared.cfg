CONSTANTS
  MaxDevices = 3
  AppDevices = 2
  Writers = {"accepted"}
SPECIFICATION FairSpec
INVARIANTS TypeOK HandledStaysListed
PROPERTIES NoCompletionLost MarkedIsDropped JoinReturns
CHECK_DEADLOCK FALSE
