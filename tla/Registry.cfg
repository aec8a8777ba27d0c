SPECIFICATION FairSpec
CONSTANTS
  V = 3
  Rank <- Ranks
  Own = {1}
  F = 2
  Hash = {"h1", "h2"}
  Reverts = FALSE
  MaxEdits = 4
  MaxStarts = 2
  MaxCalls = 3
  MaxWork = 4
  Serial = TRUE
INVARIANTS
  LatestIsHighest
PROPERTIES
  RestartKeepsLatest
  NoSilentDrift
  Converges
CHECK_DEADLOCK FALSE
