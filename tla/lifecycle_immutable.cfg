SPECIFICATION Spec
CONSTANTS
  t1 = t1
  t2 = t2
  c1 = c1
  c2 = c2
  f = f
  g = g
  bad = bad
  None = None
  Empty = Empty
  Types = {t1}
  Callers = {c1, c2}
  Publishers = {c1}
  Flows = {f, g}
  Valid = {f, g}
  MaxRequests = 4
  MaxFailures = 0
CHECK_DEADLOCK FALSE
PROPERTY PublishedImmutable
