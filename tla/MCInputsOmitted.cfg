\* An entry the flush admits, with more members than the cap.
SPECIFICATION Scans
CONSTANTS
  InputNames = {"deep"}
  r = r
  z1 = z1
  z2 = z2
  g1 = g1
  g2 = g2
  e1 = e1
  e2 = e2
  Media = 14
  BlockSize = 4
  Overlap = 2
  Starts = {0, 3, 14}
  Kinds = {"raw", "range", "stdin"}
  Bad = {8}
  Flaky = {2, 14}
  Stored <- Entry
  Stream = 6
  Cut = 5
  MaxEdits = 1
INVARIANTS
  RetryRecovers
