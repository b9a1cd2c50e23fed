\* Two workers that share a disk with two failures or requests, or one with
\* four, one agent and two operators; two schedulers
\* and two wakes, whose claim bound exceeds the faults by more than one, so that
\* it never blocks a retry; one machine with one MCP server and two operators
\* that configure it; three tasks and two executors.
CONSTANTS
  Agents = {a1}
  Workers = {w1, w2}
  Operators = {o1, o2}
  Slots = {1}
  NoWorker = NoWorker
  Capacity = 1
  MaxTokens = 7
  MaxEvents = 4
  Spare = w2
  FewEvents = 2
  Schedulers = {p, q}
  Single = p
  Wakes = {k1, k2}
  NoWake = NoWake
  MaxClaims = 4
  MaxFaults = 2
  Servers = {m1}
  Connections = {c1, c2}
  Configurers = {o1, o2}
  MachineTokens = 6
  MachineEvents = 3
  Tasks = {t1, t2, t3}
  Executors = {e1, e2}
  NoTask = NoTask
SPECIFICATION PlaneSpec
INVARIANTS
  TypesOK
  LeasedToMembers
  ClaimsBuyDeliveries
  ExecutedOnce
PROPERTIES
  RoutesFollowLeases
  RoutingConverges
  MembershipConverges
  DeliveredWhileClaimed
  EveryWakeSettles
  MachineConverges
  TasksAreRun
CHECK_DEADLOCK FALSE
