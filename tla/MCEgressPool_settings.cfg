CONSTANTS
  d = d  p = p  p2 = p2  q = q  b = b
  Hosts = {h1}
  Routes = {d, p}
  Direct = d
  IdOf <- MCIdOf
  Broken = {}
  Tasks = {t1, t2}
  Checkers = {c1}
  Patchers = {u1}
  Ips = {i1}
  Latencies = {1}
  MaxConcurrency = 2
  MaxFailures = 1
  StoredAtStart <- OneEach
  None = None
SYMMETRY Symmetry
SPECIFICATION Spec
INVARIANTS TypeOK NoIdleSlot WaiterHasWaker QueueHoldsWaiting
PROPERTIES DirectStaysInUse GrantWithinLimit
