SPECIFICATION Spec
CONSTANTS
  Editors = {"editor"}
  Callers = {c1, c2}
  Seeds <- OneOrTwo
  NewRows = {}
  NewCatalogRows = {}
  Changes <- Renames
  CatalogChanges = {}
  Integrable = {}
  Lower <- NamesLower
  Dashed <- NamesDashed
  MaxEdits = 1
  Slugs = {"insta"}
  NewConnections <- Creations
  Scopes = {"organization", "user", "system", "other"}
  Bodies <- ApiBodies
  SlugOrder <- RowSlugs
  MaxTrips = 2
  MaxVisits = 4
CHECK_DEADLOCK FALSE
SYMMETRY Symmetry
INVARIANTS
  TypeOK
  RoundTripSound
  TokensBelong
  LeftoverExplained
