CONSTANTS
  c1 = c1
  c2 = c2
  Callers = {c1, c2}
  Worker = Worker
  NoThread = NoThread
  Tls = FALSE
  LoginOutcomes = {"accepted"}
  MaxCalls = 1
SPECIFICATION FairSpec
PROPERTIES QuitIsSent
CHECK_DEADLOCK FALSE
