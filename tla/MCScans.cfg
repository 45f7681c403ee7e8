\* Each component on its instance.
SPECIFICATION Scans
CONSTANTS
  Blocks = 4
  Versions = {"u", "v"}
  Layouts <- Lists
  MaxRuns = 3
  MaxKills = 2
  MaxEdits = 1
  Pipe = {0, 2, 5, 6, 7}
  Chunk = 3
  Cap = 5
  Hits = {1, 4, 5}
  Texts <- MatchTexts
  Letter = {"y"}
  Zero = "0"
  Needle <- NeedleBytes
  Object <- ObjectBytes
  Header <- HeaderBytes
  Key <- KeyBytes
  Token <- TokenBytes
  Words <- WordList
  MaxSpan = 3
  Block = 4
  Starts = {0, 3}
INVARIANTS
  ListCovered
  ProofsFollowRanges
  FoundOnce
  ReportsTrue
  WholePipeScanned
  DeliveryMatchesOutcome
CHECK_DEADLOCK FALSE
