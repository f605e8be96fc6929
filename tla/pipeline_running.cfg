SPECIFICATION Spec
CONSTANTS
  a1 = a1
  a2 = a2
  r1 = r1
  r2 = r2
  c1 = c1
  c2 = c2
  w1 = w1
  w2 = w2
  None = None
  Analyses = {a1}
  Reports = {r1}
  AnalysisOf <- OneReport
  Callers = {c1}
  Workers = {w1}
  Ops = {"create"}
  LostAcks = FALSE
  MaxRequests = 1
  MaxCrashes = 0
  MaxFaults = 0
CHECK_DEADLOCK FALSE
INVARIANT RunningIsBusy
