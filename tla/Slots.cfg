CONSTANTS
  None = None
  branch = branch  doctor = doctor  nurse = nurse  visitor = visitor
  Branch = branch
  Resource = {doctor, nurse, visitor}
  Service <- Services
  Rule <- Rules
  Block <- Blocks
  Request <- Requests
  Start = {8}
  Leaver = {doctor}
  Preference = {None, nurse}
  Zone <- Zones
  DayLength = 6
  WeekLength = 2
  MaxQuery = 12
  HoldTTL = 1
  Horizon = 1
  MaxRules = 3
  MaxBlocks = 1
  MaxClaims = 2
SPECIFICATION Spec
INVARIANTS TypeOK OfferedRight OfferedIsHeld
PROPERTY ClaimsAreSound
CHECK_DEADLOCK FALSE
