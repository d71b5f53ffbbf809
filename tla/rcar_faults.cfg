SPECIFICATION FairSpec
CONSTANTS
  c1 = c1
  Clients = {c1}
  RcarMaxAttempt = 2
  GetMaxAttempt = 3
  Faults = {"lost", "refused", "evidence", "expire", "kbsRestart", "missing"}
  MaxSessions = 6
  MaxOps = 2
INVARIANTS HandshakesAreSound NoNeedlessFailure
PROPERTIES OperationsEnd
CHECK_DEADLOCK FALSE
