CONSTANTS
  u1 = u1  u2 = u2
  Urls = {u1}
  Clients = {c1, c2}
  Workers = {w1}
  Batches <- Twice
  Fills = {f1, f2}
  Retries = 1
  Formats = {FALSE}
  AtomicWrites = TRUE
  LateWrites = FALSE
  Redirects = FALSE
  Refreshes = TRUE
  AgingErrors = TRUE
  ReadErrors = FALSE
  Losable = {"source"}
  Crashes = FALSE
  None = None  Torn = Torn  Whole = Whole
SPECIFICATION LiveSpec
PROPERTIES VisitsAnswered FillsEnd
