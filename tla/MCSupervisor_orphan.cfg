\* One host, two calls in flight: a stop, a restart beside it, and an eviction.
CONSTANTS
  Supervisors = {s1}
  Slots = {c1, c2}
  MaxLeases = 3
SPECIFICATION Spec
INVARIANTS
  OneRuntimePerHost
