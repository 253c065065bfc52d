CONSTANTS
  u1 = u1  u2 = u2
  Urls = {u1, u2}
  Clients = {c1, c2}
  Workers = {w1, w2}
  Batches <- Again
  Fills = {f1, f2, f3}
  Retries = 0
  Formats = {TRUE, FALSE}
  AtomicWrites = FALSE
  LateWrites = FALSE
  Redirects = TRUE
  Refreshes = FALSE
  AgingErrors = FALSE
  ReadErrors = FALSE
  Losable = {}
  Crashes = TRUE
  None = None  Torn = Torn  Whole = Whole
SYMMETRY Symmetry
SPECIFICATION Spec
INVARIANTS PointersWhole ServesWhole OneFill ReadyMatchesIndex
