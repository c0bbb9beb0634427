CONSTANTS
  title = title
  episode = episode
  entity = entity
  Tokens = {t1, t2}
  Rows <- MCRows
  Parents <- MCParents
  Initial = {}
  Procs = {p1, p2}
  NoProc = NoProc
  Absent = Absent
  Partial = Partial
  MaxGeneration = 3
SPECIFICATION FairSpec
INVARIANTS NeverUnopenable FilesInOrder
PROPERTIES KeepsPromise Recovers
