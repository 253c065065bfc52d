CONSTANTS
  Migrator = m
  Procs = {m, s1}
  Keys = {k1, k2}
  Passphrases = {w1}
  Objects = {o1, o2}
  Versions <- MCVersions
  Options <- SomeFlags
  Faults = {"cut"}
  Attempts = 2
  MaxRuns = 2
  Plain = Plain  None = None  Torn = Torn
SYMMETRY Symmetry
SPECIFICATION Spec
INVARIANTS TypeOK ReadyHasKey StoredOpens CleanRunMeansCopied
PROPERTIES WritesOnlyMissing
