CONSTANTS
  MaxCards = 3
  Limit = 1
  MaxPollRetry = 1
  MaxStorageRetries = 0
  Encrypted = TRUE
  SavedAtStart = {"bad"}
  Forgets = TRUE
  Asks = {a1, a2}
  None = None  Known = Known
SPECIFICATION Spec
PROPERTIES UnlockOpensAll
