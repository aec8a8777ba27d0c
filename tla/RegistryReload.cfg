SPECIFICATION FairSpec
CONSTANTS
  V = 1
  Rank <- OneRank
  Own = {}
  F = 2
  Hash = {"h1"}
  Reverts = TRUE
  MaxEdits = 5
  MaxStarts = 1
  MaxCalls = 0
  MaxWork = 5
  Serial = TRUE
PROPERTIES
  Converges
CHECK_DEADLOCK FALSE
