SPECIFICATION FairSpec
CONSTANTS
  r1 = r1
  r2 = r2
  r3 = r3
  None = None
  Runs = {r1, r2, r3}
  Expire = 3
  Margin = 1
INVARIANTS OverlapOnlyIfFreed
PROPERTIES LockFreed
\* Once every run is done and the key is gone, nothing is left to do.
CHECK_DEADLOCK FALSE
