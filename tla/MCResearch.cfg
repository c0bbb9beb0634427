SPECIFICATION Spec
CHECK_DEADLOCK FALSE
CONSTANTS
  Procs = {agent, owner}
  Public = {agent}
  None = None
  Hypotheses = {h1}
  Codes = {recipe, other}
  Recipe = recipe
  Builds = {b1, b2}
  MaxEvaluations = 1
  MaxOperations = 2
  MaxEdits = 1
  MaxDamages = 1
  MaxCrashes = 1
  MaxResults = 1
  MaxDisturbances = 2
  p1 = p1
  p2 = p2
  l1 = l1
  l2 = l2
  a1 = a1
  a2 = a2
  a3 = a3
  c1 = c1
  c2 = c2
  c3 = c3
  here = here
  there = there
  A = A
  B = B
  Readers = {p1, p2}
  Lessons = {l1, l2}
  Results = {a1, a2, a3, c1, c2, c3}
  Candidates = {A, B}
  Contexts = {here, there}
  Measured <- MCMeasured
  Proposals <- MCProposals
  MaxLessons = 1
  MaxVersions = 3
  MaxSpoils = 1
  MaxDrifts = 1
SYMMETRY Symmetry
INVARIANTS RegisteredIsSound ChargedOnce SupportIsRepeated HeldIsCurrent
PROPERTIES BaselinesStayHidden
