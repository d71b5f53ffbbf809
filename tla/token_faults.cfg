SPECIFICATION HubFairSpec
CONSTANTS
  c1 = c1
  c2 = c2
  c3 = c3
  c4 = c4
  c5 = c5
  h1 = h1
  Clients = {c1, c2, c3, c4, c5}
  Hubs = {h1}
  RcarMaxAttempt = 1
  GetMaxAttempt = 2
  Faults = {"expire", "lost"}
  HubFaults = {"timeout", "lost", "aaDown", "missing"}
  MaxSessions = 5
  MaxOps = 1
  MaxGets = 2
INVARIANTS TokenCertifiesKey HubNoNeedlessFailure
PROPERTIES GetsEnd
CHECK_DEADLOCK FALSE
