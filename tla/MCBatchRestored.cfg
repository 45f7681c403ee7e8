\* A file replaced and restored between killed resumes.
SPECIFICATION Spec
CONSTANTS
  u = u
  v = v
  p = p
  q = q
  List <- OneFile
  N = 3
  Versions = {u, v}
  Profiles = {p}
  MaxRuns = 4
  MaxKills = 2
  MaxEdits = 2
  MaxLost = 0
PROPERTIES
  KillsOnlyRedo
SYMMETRY Interchangeable
CHECK_DEADLOCK FALSE
