\* A tool call in the first turn, a compaction in the second.
CONSTANTS
  Overlap = FALSE
  MaxSends = 2
  MaxCalls = 2
  MaxInterjects = 0
  MaxCrashes = 0
  MaxTurns = 3
  MaxPtlRetries = 0
  KeepPairs = 1
  KeepRecent = 3
SPECIFICATION Spec
CHECK_DEADLOCK FALSE
INVARIANT
  ResultsFollowUses
