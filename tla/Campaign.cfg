CONSTANTS
  Null = Null
  w1 = w1  w2 = w2  d1 = d1  h1 = h1
  Worker = {w1, w2}
  Desk = {d1}
  Hook = {h1}
  Contact = {1, 2}
  Listed = {1}
  Ops = {"start", "pause", "complete", "retry", "add"}
  Receipts = {"delivered", "failed"}
  Budget = 2
  MaxNews = 2
  MaxFaults = 1
SPECIFICATION FairSpec
INVARIANTS MessagedOnce NobodyForgotten NotInflated
PROPERTIES Worked
CHECK_DEADLOCK FALSE
