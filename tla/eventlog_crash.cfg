SPECIFICATION FairSpec
CONSTANTS
  c1 = c1  c2 = c2  a = a  b = b 
  pcrA = pcrA  ccmr1 = ccmr1
  Clients = {c1, c2}
  Events = {a, b}
  Pcrs = {pcrA}
  Ccmrs = {ccmr1}
  Cut <- CutToA
  Ccmr <- OneCcmr
  InitPcr = pcrA
  RequestPcrs = {pcrA}
  Faults = {"crash", "readFail", "walFail", "extendFail", "cleanFail"}
  MaxCalls = 3
  NoClient = NoClient
  NoEvent = NoEvent
INVARIANTS ExtendIsAtomic WalProtects RecoveryDecides
PROPERTIES ServesAgain ImplementsMeasuredLog
