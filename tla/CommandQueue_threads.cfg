CONSTANTS
  c1 = c1
  c2 = c2
  Callers = {c1, c2}
  Worker = Worker
  NoThread = NoThread
  Tls = TRUE
  LoginOutcomes = {"accepted", "refused", "unheard"}
  MaxCalls = 1
SPECIFICATION FairSpec
INVARIANTS IInv TypeOK WireIsFront PasvHasItsTransfer SkipStaysInCall
PROPERTIES ServesInOrder FlagIsReleased
CHECK_DEADLOCK FALSE
