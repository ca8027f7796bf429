CONSTANTS
  w1 = w1  w2 = w2  s1 = s1
  Worker = {w1, w2}
  Session = {s1}
  Kinds = {"chatbot", "agent", "booking", "stream", "bookingStream", "publicBooking", "relay", "greeting"}
  Quota = 2
  MaxCost = 1
  MaxDays = 1
  Budget = 2
  MaxFaults = 1
SYMMETRY Symmetry
SPECIFICATION Spec
INVARIANTS QuotaBounded TurnsAreWhole
CHECK_DEADLOCK FALSE
