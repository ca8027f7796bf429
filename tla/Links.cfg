CONSTANTS
  None = None
  here = here  there = there  w1 = w1  w2 = w2
  Link = {1, 2, 3}
  Tenant = {here, there}
  Home <- HomeOf
  Worker = {w1, w2}
  Message = {m1}
  m1 = m1
  MaxSessions = 2
  MaxStirs = 3
SPECIFICATION Spec
INVARIANTS TenantsApart Reconciled OneVoice
SYMMETRY Workers
CHECK_DEADLOCK FALSE
