CONSTANTS
  None = None
  r1 = r1  r2 = r2  checkup = checkup  cleaning = cleaning  phone = phone
  k1 = k1  k2 = k2  a1 = a1  a2 = a2
  Run = {r1, r2}
  Service = {checkup, cleaning}
  Time = {1, 2}
  Contact = {phone}
  Ask <- Asks
  Window = {{1, 2}}
  Token = {k1}
  Appointment = {a1, a2}
  Seats = 2
  MaxOffered = 2
  OfferTTL = 0
  HoldTTL = 1
  MaxSteps = 3
  Horizon = 1
  MaxTurns = 2
  MaxStirs = 2
SPECIFICATION ReceptionSpec
SYMMETRY Symmetries
INVARIANTS AskedOnceBookedOnce HeldForService
CHECK_DEADLOCK FALSE
