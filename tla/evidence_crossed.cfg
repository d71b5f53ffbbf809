SPECIFICATION FewSpec
CONSTANTS
  q1 = q1  q2 = q2
  Machines <- MCMachines
  Requests = {q1, q2}
  ReportDatas <- MCReportDatas
  Digests <- MCDigests
  Indices = {0, 8, 264}
  InitPcr = 17
  MaxExtends = 2
INVARIANTS EvidenceIsOfRequest
CHECK_DEADLOCK FALSE
