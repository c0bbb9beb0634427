SPECIFICATION FairSpec
CONSTANTS
  Calls = {c1, c2}
  Root = root
  Kids = {k1, k2}
  None = None
  Cap = 3
  Sizes = {2}
  Retries = 1
  MaxInflight = 2
  MaxRestarts = 1
CHECK_DEADLOCK FALSE
INVARIANTS OrphansStop
PROPERTIES SpendingAccounted 
