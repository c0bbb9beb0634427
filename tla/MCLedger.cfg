CONSTANTS
  Procs = {p1, p2}
  NoOne = NoOne
  MaxEvents = 5
SPECIFICATION Spec
SYMMETRY Symmetry
INVARIANTS NeverCorrupt NoLostUpdate AckedDurable
