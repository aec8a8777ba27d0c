SPECIFICATION Spec
CONSTANTS
  N = 4
  Depth = 2
  First <- Levels
  Capability = {4}
  Composed = {2}
  SyncSteps = {1, 2}
  Key = {"x", "y"}
  Out <- Writes
  Bound = 2
INVARIANTS
  NothingOutlivesStream
CHECK_DEADLOCK FALSE
