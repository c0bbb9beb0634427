CONSTANTS
  Clients = {c1, c2}
  Jobs = {j1}
  Requests = {r1}
  NoRequest = NoRequest
  None = None
  Costs = {1}
  MaxEvaluations = 1
  MaxCrashes = 2
SPECIFICATION FairSpec
INVARIANTS SettledOnce JobFileTruthful ResultsHaveEvidence
PROPERTIES EveryJobSettles
