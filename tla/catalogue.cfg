SPECIFICATION Spec
CONSTANTS
  e1 = e1
  e2 = e2
  Editors = {e1, e2}
  Seeds <- TwoSources
  NewRows <- Rows
  NewCatalogRows <- CatalogRows
  Changes <- RowChanges
  CatalogChanges <- KeyChanges
  Integrable = {1}
  Lower <- NamesLower
  Dashed <- NamesDashed
  MaxEdits = 3
  Builders <- OneBuilder
  NewDefinitions <- Definitions
  DefinitionChanges <- ArchiveOrType
  AssetChanges <- Plain
  NewNodeTypes <- OtherTypes
  NodeTypeChanges <- Moves
  CategoryChanges <- Renames
  Contract <- Contracts
  BadPorts = {"none"}
  Flows <- DraftFlows
  Types <- OneType
  NewRefs <- Attached
  TypeChanges <- TypeUpdates
  MaxAnalyses = 1
CHECK_DEADLOCK FALSE
SYMMETRY Symmetry
INVARIANTS
  ProviderUnique
  ReferencesExplained
PROPERTIES
  EditsKept
