CONSTANTS
  Null = Null
  w1 = w1  w2 = w2  d1 = d1  a1 = a1  a2 = a2
  Worker = {w1, w2}
  Desk = {d1}
  Appt = {a1, a2}
  Phone = {a1}
  Lead = 2
  Limit = 1
  Start = {1, 3}
  Targets = {"cancelled"}
  MaxClock = 2
  MaxEdits = 1
  MaxFaults = 1
SPECIFICATION FairSpec
INVARIANTS MarkMeansTold Paid
PROPERTIES Reminded
CHECK_DEADLOCK FALSE
