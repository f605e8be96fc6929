SPECIFICATION FairSpec
CONSTANTS
  s = s
  m = m
  a = a
  t = t
  Nodes = {s, m, a, t}
  Insertion <- BackToFront
  Graphs <- Flows
CHECK_DEADLOCK FALSE
INVARIANTS
  TypeOK
  InputsFirst
  EachNodeOnce
  ExactCascade
  ResultHonest
PROPERTY RunEnds
