SPECIFICATION NodeSpec
CONSTANTS
  nInput = nInput
  nSource = nSource
  nSecond = nSecond
  nTransform = nTransform
  nSchema = nSchema
  nAi = nAi
  nTerminal = nTerminal
  Nodes = {nInput, nSource, nSecond, nTransform, nSchema, nAi, nTerminal}
  Insertion <- InOrder
  Label <- Labels
  Designs <- Flows
  Graphs <- FlowGraphs
CHECK_DEADLOCK FALSE
INVARIANTS
  NodeTypeOK
  FieldsReachReport
  SourceFailureExplained
  LogoRight
PROPERTIES
  FlowSpec
  OutputsKept
