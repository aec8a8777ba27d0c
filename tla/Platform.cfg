SPECIFICATION Spec
CONSTANTS
  NestFlows = {"r", "m", "k"}
  RootFlow = "r"
  NoFlow = "tool"
  Bodies <- NestBodies
  Outputs = {"a", "empty"}
  BlankOutputs = {"empty"}
  MaxNesting = 2
  MaxDecisions = 1
  MaxNestRuns = 3
  MaxNestEdits = 1
  RemoteTools = {1, 2, 3}
  RemoteName <- RemoteNames
  CleanName <- CleanNames
  RemoteSchemas = {"s1", "s2", "broken"}
  HintSet <- Hints
  ClientPolicies <- Policies
  MaxRemoteEdits = 1
  MaxDiscoveries = 2
  Apps = {"a1", "b1"}
  AppInfo <- AppTable
  ServerConfigs <- Configs
  Callers = {"u", "v"}
  ServerCalls = {1, 2, 3}
  MaxCalls = 1
  WindowTicks = 2
  MaxTracked = 1
  MaxTicks = 2
  MaxServerWork = 3
  KeepSets = {{1}, {1, 2}, {2, 3}}
  ServiceTools = {"p", "q"}
  MinOccurrences = 2
  MinLength = 2
  MaxTraces = 3
  ScoreNum = 1
  ScoreDen = 2
  MaxPending = 2
  AutoApprove = TRUE
  LlmFlows = {"f"}
  Loops = {1, 2}
  MaxSteps = 4
  MaxActs = 2
  PTools <- PromptTools
  PCost <- PromptCost
  TemplateCost = 1
  Asks <- AskTable
  Completions <- CompletionTable
  MaxProposals = 1
  MaxRepairs = 1
  MaxRetries = 1
  MaxLlmCalls = 3
  MaxAsks = 2
  Writers = {"w1", "w2"}
  TraceIds = {"t1", "t2", "t3"}
  StoreKeys <- KeyTable
  SafeName <- Cleaned
  LogCap = 2
  MaxStoreOps = 3
  TraceLines <- LineTable
  VerbOf <- Verbs
  SecretKeys = {"key"}
  MaxLines = 4
  MaxWidth = 2
  FieldType <- FieldTypes
  ToolTable <- ToolSchemas
  InputSchema <- FlowInput
  OptionalInput = {"q"}
  OutputSchema <- FlowOutput
  SubFlowOutput <- SubOutput
  StepChoices <- StepTable
  MaxFlowSteps = 3
  SubFlowDeclared = {"x", "d", "m"}
  NormalName <- Normal
  Synonyms <- SynonymsOf
  MaxChain = 3
  UserTexts <- Texts
  UserServers <- Servers
  FlowDirs <- Dirs
  ReservedNames = {"read"}
  Batches <- BatchTable
  MaxCommands = 3
  Calls <- CallTable
  MaxSink = 2
  FuzzKeys = {1, 2}
  BaseInputs <- RichInputs
  FuzzOptions <- OptionTable
  MaxShrinkRounds = 3
  MaxCases = 2
  AttestOutputs = {"a", "b"}
  MaxAttestRuns = 2
  MaxRepeats = 3
  FxKind <- FxTools
  FxInside <- FxWraps
  FxKeys <- FxCalls
  MaxFxCalls = 2
  MaxSessions = 2
INVARIANTS
  ComposedRunIsSound
  AdoptionIsGuarded
  ServedIsCleared
  PromotionIsGoverned
  ProposalsAreGrounded
  StoresAreConsistent
  DraftsReplay
  CompiledFlowsResolve
  AdviceIsSafe
  EditsAreSafe
  EvidenceIsTrue
CHECK_DEADLOCK FALSE
