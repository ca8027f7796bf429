CONSTANTS
  Null = Null
  p1 = p1  p2 = p2  x1 = x1  x2 = x2  short = short  long = long  k1 = k1
  Proc = {p1, p2}
  Resource = {x1}
  Service = {long}
  Key = {}
  Duration <- MCDuration
  Before <- MCBefore
  After <- MCAfter
  Teams <- Either
  Start = {3, 4, 6}
  TTL = 1
  Opening = {"confirmed"}
  Targets = {"cancelled"}
  Allowed <- Everyone
  Budget <- FewEach
  MaxClock = 1
SPECIFICATION FairSpec
INVARIANTS NoOverlap
PROPERTIES Exclusive Answered HoldsEnd
