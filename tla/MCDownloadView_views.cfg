CONSTANTS
  N = 2
  BatchSize = 1
  Sessions = 2
  Loops = {l1, l2}
  Expiries = 1
  Failures = 1
SPECIFICATION FairSpec
INVARIANTS PendingHasLoop FreshAfterRetry
PROPERTIES LeftViewsStop ItemEnds
CHECK_DEADLOCK FALSE
