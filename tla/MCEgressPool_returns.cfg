CONSTANTS
  d = d  p = p  p2 = p2  q = q  b = b
  Hosts = {h1}
  Routes = {d}
  Direct = d
  IdOf <- MCIdOf
  Broken = {}
  Tasks = {t1, t2, t3}
  Checkers = {c1, c2}
  Patchers = {}
  Ips = {i1}
  Latencies = {1}
  MaxConcurrency = 1
  MaxFailures = 1
  StoredAtStart <- OneEachMaybeDirect
  None = None
SPECIFICATION FairSpec
PROPERTIES AcquireReturns CheckReturns
INVARIANTS WaitsForRunningBatch
PROPERTIES NoOvertaking
