\* A volume with blocks of 1 KiB.
SPECIFICATION Sources
CONSTANTS
  Blocks = 3
  Versions = {"u", "v"}
  Short = "u"
  Members <- Keys
  Kind <- KeyKind
  StartOf <- Starts
  LenOf <- Lens
  ParentOf <- Parents
  Inherited <- Others
  MaxRuns = 3
  MaxEdits = 1
  Commits = {"c1", "c2"}
  FilePaths = {"f", "g"}
  MaxLines = 9
  HunkStarts = {1, 5}
  HunkLens = {0, 2}
  Top = "r"
  Mode <- Kinds
  Child <- Children
  LinkTo <- Links
  FollowSymlinks = TRUE
  Depths = {0, 2}
  Own = {"o"}
  Shut = {"x"}
  Breaks = {"c"}
  Hits <- Trail
  Baseline = {"fb"}
  Salvaged = {"fc"}
  Count = 3
  FatNames = {"a", "b", "c"}
  Parts <- LongParts
  Checksum <- Checksums
  FatSizes <- FileSizes
  MaxSlots = 5
  FatMax = 3
  ExtBlocks = 4
  PerGroup = 2
  Inodes = {1, 2}
  ExtNames = {"x", "y"}
  ExtSizes = {3}
  ExtMax = 3
  Records = 3
  NtfsClusters = 2
  NtfsMax = 3
INVARIANTS
  LiveIsNotFree
CHECK_DEADLOCK FALSE
