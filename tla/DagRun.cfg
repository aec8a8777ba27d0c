SPECIFICATION FairSpec
CONSTANTS
  N = 5
  Depth = 3
  First <- MeshFirst
  Deps <- MeshDeps
  Targets <- MeshTargets
  HasDefault <- MeshDefault
  Capability = {5}
  KernelBacked = TRUE
  Key = {"w", "x", "y", "z"}
  In <- MeshIn
  Out <- MeshOut
  FallbackOut <- MeshFallback
  Mapped <- MeshMapped
  OnError <- MeshOnError
  Policy = "error"
  Dynamic = {}
  InputReq = {"z"}
  OutputReq = {"x"}
  CtxReq = {"w"}
  DeleteOnSuccess = FALSE
  MaxResumes = 3
INVARIANTS
  LogFollowsOrder
  ContextMatchesLog
  SnapshotSound
  SkippedIffRuledOut
  SiblingsDisjoint
PROPERTIES
  DispatchedInTurn
  EveryCallEnds
CHECK_DEADLOCK FALSE
