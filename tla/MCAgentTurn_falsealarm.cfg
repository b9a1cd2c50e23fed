\* Two tool calls one after the other, a compaction, a restart.
CONSTANTS
  Overlap = FALSE
  MaxSends = 2
  MaxCalls = 2
  MaxInterjects = 0
  MaxCrashes = 1
  MaxTurns = 3
  MaxPtlRetries = 0
  KeepPairs = 1
  KeepRecent = 3
SPECIFICATION Spec
CHECK_DEADLOCK FALSE
INVARIANT
  OnlyInterruptedReported
