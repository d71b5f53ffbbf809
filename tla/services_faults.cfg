SPECIFICATION ServicesSpec
CONSTANTS
  h1 = h1  h2 = h2
  Handlers = {h1, h2}
  Requests <- MCRequests
  Connected = {"aa", "cdh"}
  Faults = {"down", "refused", "timeout", "gone"}
  MaxRequests = 3
  NoHandler = NoHandler
  p1 = p1  p2 = p2  k1 = k1  k2 = k2
  Pulls = {p1, p2}
  Credentials = {k1, k2}
  HubFaults = {"fetch", "hubDown", "agentDown", "build", "pull", "timeout", "cancel"}
  MaxPulls = 3
  NoPull = NoPull
INVARIANTS CarriedOutOnce NoNeedlessFailure PulledIsMeasured ServesWithKeys
PROPERTIES RequestsEnd PullsEnd
CHECK_DEADLOCK FALSE
