SPECIFICATION Spec
CONSTANTS
  N = 5
  Depth = 3
  First <- JoinFirst
  Deps <- JoinDeps
  Targets <- JoinTargets
  HasDefault <- JoinDefault
  Capability = {}
  KernelBacked = FALSE
  Key = {"x", "y", "z"}
  In <- JoinIn
  Out <- JoinOut
  FallbackOut <- JoinFallback
  Mapped <- JoinMapped
  OnError <- JoinOnError
  Policy = "warn"
  Dynamic = {}
  InputReq = {"x"}
  OutputReq = {"y"}
  CtxReq = {"z"}
  DeleteOnSuccess = TRUE
  MaxResumes = 2
PROPERTIES
  RoutesHonoured
CHECK_DEADLOCK FALSE
