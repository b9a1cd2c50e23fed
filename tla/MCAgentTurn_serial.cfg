\* A host that waits for each turn: two turns, two tool calls that may run in
\* parallel, an interject, a restart, and a retry after a prompt too long.
CONSTANTS
  Overlap = FALSE
  MaxSends = 2
  MaxCalls = 2
  MaxInterjects = 1
  MaxCrashes = 1
  MaxTurns = 2
  MaxPtlRetries = 1
  KeepPairs = 1
  KeepRecent = 5
SPECIFICATION Spec
CHECK_DEADLOCK FALSE
INVARIANTS
  InterruptedCallsSurface
  InterjectsSurface
PROPERTY
  TurnsEnd
