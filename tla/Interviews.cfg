CONSTANTS
  t1 = t1  t2 = t2
  Tab = {t1, t2}
  LastIndex = 2
  MaxRequests = 5
  MaxCrashes = 1
SYMMETRY Symmetry
SPECIFICATION InterviewSpec
INVARIANTS InterviewTypeOK NothingSkipped ReportComplete FinishedIsFinalized
CHECK_DEADLOCK FALSE
