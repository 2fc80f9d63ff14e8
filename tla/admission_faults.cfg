CONSTANTS
  f1 = f1
  f2 = f2
  Nobody = Nobody
  Frontends = {f1, f2}
  MaxAttempts = 2
  Faults = {"kill", "crash", "refuse"}
SPECIFICATION FairSpec
CHECK_DEADLOCK FALSE
INVARIANTS OneBroker NobodyLeftBehind
PROPERTIES AdmissionEnds IdleBrokerLeaves
