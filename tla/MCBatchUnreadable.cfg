\* A resume of a run killed after an earlier target failed.
SPECIFICATION Spec
CONSTANTS
  u = u
  v = v
  p = p
  q = q
  List <- TwoFiles
  N = 2
  Versions = {u, v}
  Profiles = {p, q}
  MaxRuns = 3
  MaxKills = 1
  MaxEdits = 1
  MaxLost = 0
INVARIANTS
  JournalReadable
SYMMETRY Interchangeable
CHECK_DEADLOCK FALSE
