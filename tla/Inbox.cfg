CONSTANTS
  Null = Null
  s1 = s1  s2 = s2  h1 = h1  h2 = h2  r1 = r1  d1 = d1  t1 = t1  m1 = m1  m2 = m2
  Sweeper = {s1, s2}
  Hook = {h1}
  Replier = {r1}
  Desk = {d1}
  Thread = {t1}
  Msg = {m1, m2}
  On <- OneThread
  Typed = {m2}
  Ops = {"send", "edit", "takeover", "handback"}
  MaxFollowUps = 1
  Overlap = FALSE
  Budget = 1
  MaxFaults = 1
SPECIFICATION FairSpec
INVARIANTS LadderBounded AnsweredOnce
PROPERTIES NeverUnwanted LadderEnds
CHECK_DEADLOCK FALSE
