CONSTANTS
  Null = Null
  p1 = p1  p2 = p2  x1 = x1  x2 = x2  short = short  long = long  k1 = k1
  Proc = {p1, p2}
  Resource = {x1, x2}
  Service = {short}
  Key = {k1}
  Duration <- MCDuration
  Before <- MCBefore
  After <- MCAfter
  Teams <- Both
  Start = {3, 4}
  TTL = 1
  Opening = {"confirmed"}
  Targets = {"completed", "cancelled"}
  Allowed <- FrontDesk
  Budget <- TwoEach
  MaxClock = 1
SPECIFICATION Spec
INVARIANTS NoDoubleBooking OneBookingPerKey Backed NoStray
PROPERTIES NoGap
