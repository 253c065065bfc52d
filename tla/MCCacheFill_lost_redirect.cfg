CONSTANTS
  u1 = u1  u2 = u2
  Urls = {u1}
  Clients = {c1}
  Workers = {}
  Batches <- NoBatch
  Fills = {f1, f2}
  Retries = 0
  Formats = {TRUE, FALSE}
  AtomicWrites = TRUE
  LateWrites = FALSE
  Redirects = TRUE
  Refreshes = FALSE
  AgingErrors = FALSE
  ReadErrors = FALSE
  Losable = {"source", "processed"}
  Crashes = FALSE
  None = None  Torn = Torn  Whole = Whole
SYMMETRY Symmetry
SPECIFICATION Spec
INVARIANTS RedirectToStored
