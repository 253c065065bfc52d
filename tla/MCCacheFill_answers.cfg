CONSTANTS
  u1 = u1  u2 = u2
  Urls = {u1}
  Clients = {c1}
  Workers = {w1, w2}
  Batches <- Repeated
  Fills = {f1, f2, f3}
  Retries = 0
  Formats = {TRUE, FALSE}
  AtomicWrites = TRUE
  LateWrites = TRUE
  Redirects = FALSE
  Refreshes = TRUE
  AgingErrors = TRUE
  ReadErrors = TRUE
  Losable = {}
  Crashes = TRUE
  None = None  Torn = Torn  Whole = Whole
SYMMETRY Symmetry
SPECIFICATION Spec
INVARIANTS TypeOK ProcessingHasFill PollNotInVain PointersWhole ReadyIsIndexed
