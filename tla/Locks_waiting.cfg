CONSTANTS
  a1 = a1
  Apps = {a1}
  Worker = Worker
  Nobody = Nobody
  Tls = {"cc","dc"}
  RefusesIn = {"STOR","RETR"}
  MayHappen = {"Stop", "failedWrite", "failedRead", "earlyData"}
SPECIFICATION Spec
INVARIANTS TypeOK DeadlocksHaveCauses CallbacksMayCall
CHECK_DEADLOCK FALSE
