SPECIFICATION CompositionSpec
CONSTANTS
  NestFlows = {"r", "m"}
  RootFlow = "r"
  NoFlow = "tool"
  Bodies <- OneDecision
  Outputs = {"a"}
  BlankOutputs = {}
  MaxNesting = 2
  MaxDecisions = 1
  MaxNestRuns = 3
  MaxNestEdits = 0
PROPERTY
  BudgetIsPerRun
CHECK_DEADLOCK FALSE
