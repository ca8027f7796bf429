SPECIFICATION FairSpec
CONSTANTS
  c1 = c1  c2 = c2  r1 = r1  r2 = r2  p1 = p1  p2 = p2
  Caller = {c1, c2}
  Run = {r1, r2}
  Process = {p1, p2}
  Host <- MCHost
  Doc = {1, 2, 3}
  Batches <- MCBatches
  Null = Null
  MaxDocuments = 1
  Budget = 3
  MaxFaults = 1
INVARIANTS LimitHolds ReadyExact
PROPERTIES GoneIsGone Settles
CHECK_DEADLOCK FALSE
