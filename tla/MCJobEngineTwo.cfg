CONSTANTS
  Clients = {c1}
  Jobs = {j1, j2}
  Requests = {r1}
  NoRequest = NoRequest
  None = None
  Costs = {1, 2}
  MaxEvaluations = 2
  MaxCrashes = 0
SPECIFICATION Spec
SYMMETRY Symmetry
INVARIANTS   HostNotOvercommitted
