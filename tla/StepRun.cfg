SPECIFICATION FairSpec
CONSTANTS
  Tool <- Tools
  Effect <- Effects
  NeedsApproval = {"pay"}
  UnsafeRetry = {"pay"}
  DryFn = {"pay"}
  Cacheable = {"look"}
  Streaming = {"look"}
  Timed = {"pay"}
  Value = {"v", "w"}
  Sid <- Sids
  Primary <- Primaries
  Candidates <- Choices
  OnError <- Policies
  Fallback <- Fallbacks
  Retries <- RetryMax
  Accepts <- Contracts
  Executor <- Executors
  MaxSteps = 2
  MaxHash = 2
  MaxChunks = 1
INVARIANTS
  UnsafeInvokedOnce
  LateResultIsDiscarded
  CacheIsSound
  ContractKept
  EventsBracketed
PROPERTIES
  NothingRunsUnapproved
  RefinesStepPromise
  EveryStepEnds
CHECK_DEADLOCK FALSE
