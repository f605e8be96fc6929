SPECIFICATION FairSpec
CONSTANTS
  s = s
  x = x
  y = y
  t = t
  ghost = ghost
  None = None
  Ids = {s, x, y, t, ghost}
  Catalogue <- Assets
  Policy <- Categorized
  Flows <- Drafts
CHECK_DEADLOCK FALSE
INVARIANTS
  TypeOK
  CycleFound
  UnreachedExplained
  TerminalPaths
  PublishedRuns
PROPERTY PublishEnds
