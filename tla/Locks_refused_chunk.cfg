CONSTANTS
  a1 = a1
  Apps = {a1}
  Worker = Worker
  Nobody = Nobody
  Tls = {}
  RefusesIn = {"RETR"}
  MayHappen = {}
SPECIFICATION Spec
INVARIANTS NoSelfLock
CHECK_DEADLOCK FALSE
