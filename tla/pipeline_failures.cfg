SPECIFICATION Spec
CONSTANTS
  a1 = a1
  a2 = a2
  r1 = r1
  r2 = r2
  c1 = c1
  c2 = c2
  w1 = w1
  w2 = w2
  None = None
  Analyses = {a1}
  Reports = {r1, r2}
  AnalysisOf <- BothOfOne
  Callers = {c1, c2}
  Workers = {w1}
  Ops = {"create", "regenerate", "rerun", "delete"}
  LostAcks = TRUE
  MaxRequests = 3
  MaxCrashes = 1
  MaxFaults = 1
CHECK_DEADLOCK FALSE
SYMMETRY Symmetry
INVARIANTS
  TypeOK
  FinishedHasTry
PROPERTIES
  FinishedStays
  LedgerKept
