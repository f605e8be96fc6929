SPECIFICATION Spec
CONSTANTS
  t1 = t1
  t2 = t2
  c1 = c1
  c2 = c2
  f = f
  g = g
  bad = bad
  None = None
  Empty = Empty
  Types = {t1, t2}
  Callers = {c1, c2}
  Publishers = {c1}
  Flows = {f, g, bad}
  Valid = {f, g}
  MaxRequests = 6
  MaxFailures = 1
CHECK_DEADLOCK FALSE
SYMMETRY Symmetry
INVARIANTS
  TypeOK
  PublishedRunnable
  NeverStuck
PROPERTY CurrentSnapshotStays
