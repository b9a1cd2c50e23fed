\* Two agents, two workers and two leases over three instants, or three wakes over
\* four instants.
CONSTANTS
  Agents = {a1, a2}
  Holders = {h1}
  Workers = {w1, w2}
  NoWorker = NoWorker
  LeaseIds = {l1, l2}
  WakeIds = {k1, k2, k3}
  Ttls = {2}
  Capacities = {1}
  DueTimes = {0, 1}
  Limits = {1, 2}
  StaleAges = {1, 2}
  NoRequeue = NoRequeue
  Lookaheads = {0}
  MaxTime = 3
  LeaseTime = 2
SPECIFICATION ApartSpec
SYMMETRY Symmetry
INVARIANTS
  DisjointTerms
PROPERTIES
  LeaseEndsForCause
  CapacityRespected
  ImplementsLeaseService
  SettledWakesAreFinal
  ClaimsAreSpaced
