SPECIFICATION FairSpec
CONSTANTS
  Hosts = {h1, h2}
  Root = root
  Children = {}
  None = None
  StopReasons = {"operator_stop"}
  FinishOutcomes = {}
  StopOnSuccess = FALSE
  MaxFailures = 1
  MaxEvaluations = 1
  MaxSequence = 1
  MaxRecoveries = 0
  MaxCrashes = 1
CHECK_DEADLOCK FALSE
PROPERTIES StopDrains 
