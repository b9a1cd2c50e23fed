\* The instance of the host, as far as events are appended behind a torn line.
CONSTANTS
  Savers = {s1}
  MaxEvents = 4
  MaxSaves = 2
  MaxCrashes = 1
  MaxCalls = 2
  LinesPerEvent = 2
  Sessions = {x1, x2}
  OneSession = x1
  Appenders = {p1, p2}
  OneAppender = p1
  Everything = Everything
  MaxStreamed = 3
  MaxDrops = 1
  Guarded = {g1, g2, g3, g4, g5}
  Listed = {g1, g2, g3, g4}
  Parallel = 2
  Bridge = TRUE
  GuardTimeout = TRUE
  BrokerTimeout = TRUE
  MaxConsecutive = 2
  MaxTotal = 3
  NumProviders = 3
  MaxRetries = 3
  Turns = {u1, u2}
  ObservedSessions = {x1}
  MaxQueries = 2
  MaxAsked = 2
  MaxTools = 1
  Tasks = {k1}
  Members = {m1, m2}
  Posts = {w1}
  Requests = 2
  MaxStarts = 2
  Servers = {v1, v2}
  Shared = {v2}
  ManagerCalls = {r1, r2}
  MaxClients = 2
  Callers = {c1, c2}
  MaxContainers = 3
  MaxProcesses = 2
  Workspace = workspace
  Web = web
  Laptop = laptop
  Phone = phone
  Tool = tool
  Shell = shell
  Fetch = fetch
  Order <- BuiltinOrder
  Added <- AddedHands
  RuntimeTools <- ToolHands
  Capability <- CapabilityNames
  Offers <- Offered
  Env <- Environment
  Refused <- Denied
  Denylists <- Lists
  Selections = {b1, b2}
  MaxMounts = 2
  MaxChanges = 4
SPECIFICATION HostSpec
INVARIANTS
  HeardIsReadable
CHECK_DEADLOCK FALSE
