\* Two turns of one agent at once, as ManagedAgentRuntime lets them be.
CONSTANTS
  Overlap = TRUE
  MaxSends = 2
  MaxCalls = 1
  MaxInterjects = 1
  MaxCrashes = 1
  MaxTurns = 2
  MaxPtlRetries = 0
  KeepPairs = 1
  KeepRecent = 3
SPECIFICATION Spec
CHECK_DEADLOCK FALSE
INVARIANTS
  ConversationIsPaired
  SleepersHearInterjects
  RestsWhenDone
