\* Multi-target runs, killed, resumed and replaced under.
SPECIFICATION Spec
CONSTANTS
  u = u
  v = v
  p = p
  q = q
  List <- TwoFiles
  N = 2
  Versions = {u, v}
  Profiles = {p, q}
  MaxRuns = 3
  MaxKills = 1
  MaxEdits = 1
  MaxLost = 1
INVARIANTS
  DigestsSeen
PROPERTIES
  SkipVouches
  ResumeSkipsOnlySeen
SYMMETRY Interchangeable
CHECK_DEADLOCK FALSE
