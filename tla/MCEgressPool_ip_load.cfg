CONSTANTS
  d = d  p = p  p2 = p2  q = q  b = b
  Hosts = {h1}
  Routes = {d, p, q}
  Direct = d
  IdOf <- MCIdOf
  Broken = {}
  Tasks = {t1, t2}
  Checkers = {c1}
  Patchers = {}
  Ips = {i1, i2}
  Latencies = {1, 2}
  MaxConcurrency = 1
  MaxFailures = 3
  StoredAtStart <- OneEach
  None = None
SYMMETRY Symmetry
SPECIFICATION Spec
PROPERTIES IpLoadBound
