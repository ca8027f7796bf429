CONSTANTS
  w1 = w1  w2 = w2  None = None
  Request = {w1, w2}
  Paid <- PaidTiers
  Ceiling = 1
  Budget = 3
SPECIFICATION Spec
PROPERTY Converges
CHECK_DEADLOCK FALSE
