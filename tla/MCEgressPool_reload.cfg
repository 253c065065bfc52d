CONSTANTS
  d = d  p = p  p2 = p2  q = q  b = b
  Hosts = {h1}
  Routes = {d, p, p2}
  Direct = d
  IdOf <- MCIdOf
  Broken = {}
  Tasks = {t1}
  Checkers = {c1}
  Patchers = {u1}
  Ips = {i1, i2}
  Latencies = {1}
  MaxConcurrency = 1
  MaxFailures = 2
  StoredAtStart <- OneEach
  None = None
SYMMETRY Symmetry
SPECIFICATION Spec
INVARIANTS SlotAccounting SettingsSurviveReload ActiveIsCurrent OneRoutePerIp
