SPECIFICATION ScoringSpec
CONSTANTS
  Objects = {t1, d1}
  HeldOut = {d1}
  Fixtures = {f1}
  Payloads = {a, b}
  Junk = Junk
  None = None
  Cards <- MCCards
  Manifests <- MCManifests
  Trials = 7
  ScreenTrials = 3
  MaxChanges = 1
  Flaws <- MCFlaws
  Inserts = 6
  Merges = 2
  Metrics = 1
CHECK_DEADLOCK FALSE
INVARIANTS CodecVerdictRight CodecAsRegistered StoreVerdictRight LedgerExplainsStore
