SPECIFICATION FairSpec
CONSTANTS
  Owners = {o1, o2}
  Candidates = {c1, c2}
  None = None
  MaxInterruptions = 3
CHECK_DEADLOCK FALSE
INVARIANTS HiddenOpenedOnce DisclosureOfResult
PROPERTIES StartedTestEnds
