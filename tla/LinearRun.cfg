SPECIFICATION FairSpec
CONSTANTS
  N = 2
  Key = {"a", "b", "c"}
  In <- TwoIn
  Out <- TwoOut
  FallbackOut <- TwoFallback
  Mapped <- TwoMapped
  OnError <- TwoOnError
  Policy = "error"
  Dynamic = {"c"}
  InputReq = {"c"}
  OutputReq = {"b"}
  CtxReq = {"a"}
  DeleteOnSuccess = FALSE
  Hash = {"h1", "h2"}
  Missing = "missing"
  Version = {"v1", "v2"}
  MaxResumes = 2
  MaxEdits = 2
INVARIANTS
  LogTellsTheRun
  ContextMatchesLog
  SnapshotSound
  NoMixedSchemas
PROPERTIES
  RefinesDurableRun
  EveryCallEnds
CHECK_DEADLOCK FALSE
