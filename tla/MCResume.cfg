\* A scan killed or cancelled at any point, and retried: every run returns.
SPECIFICATION ResumeSpec
CONSTANTS
  r = r
  z1 = z1
  z2 = z2
  g1 = g1
  g2 = g2
  e1 = e1
  e2 = e2
  Root = r
  Targets <- TreeTargets
  NBlocks <- TreeBlocks
  Source <- TreeSource
  Kind <- TreeKind
  FoundAt <- TreeFoundAt
  Extent <- TreeExtent
  Bad <- None
  Cut <- None
  Unopenable = {}
  TooBig = {}
  Ragged = {}
  MaxDepth = 3
  QueueCap = 1
  PoolSize = 2
  ChanCap = 1
  PubCap = 1
  CkptEvery = 1
  Journaled = TRUE
  Journals <- Fresh
  MaxKills = 1
INVARIANTS
  TypeOK
  FirstEOFIsLast
  AckNeverStrands
  AdmittedSendFits
  BlocksConserved
  CompleteMeansRead
  FrontierProven
  ErrorKeepsRefusedReachable
  NothingLostAcrossRuns
PROPERTIES
  ScanReturns
  GoroutinesEnd
  DrainProceeds
  RetriesConverge
