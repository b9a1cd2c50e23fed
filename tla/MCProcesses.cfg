\* Four overlapping calls of the store, from two processes that may crash at any
\* time; two hosts that await each call and three leases, so that the agent changes
\* host twice, or one host with two calls in flight and two leases.
CONSTANTS
  p = p
  q = q
  t1 = t1
  t2 = t2
  u1 = u1
  u2 = u2
  leaseRow = leaseRow
  wakeRow = wakeRow
  Processes = {p, q}
  NoProcess = NoProcess
  Rows = {leaseRow, wakeRow}
  Txns = {t1, t2, u1, u2}
  ProcessOf <- TwoCallsEach
  Touches <- SharedRows
  OneHost = s1
  OneSlot = c1
  Supervisors = {s1, s2}
  Slots = {c1, c2}
  MaxLeases = 3
  MaxOverlapping = 2
SPECIFICATION ProcessesSpec
INVARIANTS
  TornDownBeforeGone
  TwoBrainsForCause
  NoLeaseLeaked
PROPERTIES
  ImplementsAtomicStore
  StaleBrainStops
