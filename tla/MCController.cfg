SPECIFICATION Spec
CONSTANTS
  Hosts = {h1, h2}
  Root = root
  Children = {c1}
  None = None
  StopReasons = {"infrastructure_blocked"}
  FinishOutcomes = {"success"}
  StopOnSuccess = TRUE
  MaxFailures = 1
  MaxEvaluations = 2
  MaxSequence = 1
  MaxRecoveries = 1
  MaxCrashes = 0
SYMMETRY Symmetry
CHECK_DEADLOCK FALSE
INVARIANTS ClosedHasNoWork 
PROPERTIES AdmittedWhileOpen ExplicitFinishFinal
