\* The wakes operator route looks far past the clock.
CONSTANTS
  Agents = {a1, a2}
  Holders = {h1}
  Workers = {w1}
  NoWorker = NoWorker
  LeaseIds = {l1, l2, l3}
  WakeIds = {}
  Ttls = {2}
  Capacities = {1}
  DueTimes = {0}
  Limits = {1}
  StaleAges = {1}
  NoRequeue = NoRequeue
  Lookaheads = {0, 5}
  MaxTime = 3
  LeaseTime = 3
SPECIFICATION Spec
SYMMETRY Symmetry
PROPERTIES
  LeaseEndsForCause
