------------------------------ MODULE MCInputs ------------------------------
(***************************************************************************)
(* One scan of any of the inputs: Pipeline instantiated for each of them,  *)
(* where a block is read whole or not at all; and ReadLoop, the reading of *)
(* the cells of blocks. One of them runs while the other rests.            *)
(***************************************************************************)
EXTENDS ScanInputs, ReadLoop

CONSTANT InputNames   \* the inputs of the run

VARIABLES
  input,    \* the input, or "cells" for ReadLoop
  scanTargets, zipQ, gzipQ, walletQ, pool,
  rpc, stack, pos, digestLen, since, rootErr,
  zpc, zHand, zTodo, zNew, zSlot, openedZ, pending, published,
  gpc, gHand, gTodo, gNew, gSlot, openedG,
  wpc, wHand,
  acked, rootDone, final, signaled,
  outstanding, refused, deferredSkipped, covered, poisoned,
  mpc, outcome, canceled,
  run, journal, lastFiled,
  admitted, delivered

Input(targets, blocks, source, kinds, foundAt, extent) ==
  [targets |-> targets, blocks |-> blocks, source |-> source, kind |-> kinds,
   foundAt |-> foundAt, extent |-> extent,
   bad |-> Sound(targets), cut |-> Sound(targets), unopenable |-> {}, tooBig |-> {},
   ragged |-> {}, maxDepth |-> 3, cap |-> 2, journaled |-> TRUE,
   journals |-> {Unfiled}]

Orphan == Input(OrphanTargets, OrphanBlocks, OrphanSource, OrphanKind, OrphanFoundAt, OrphanExtent)

Inputs ==
  [tree |->     \* fresh or resumed
     [Input(TreeTargets, TreeBlocks, TreeSource, TreeKind, TreeFoundAt, TreeExtent)
        EXCEPT !.journals = TreeJournals],
   torn |->     \* without a journal
     [Input(TornTargets, TornBlocks, TornSource, TornKind, TornFoundAt, TornExtent)
        EXCEPT !.journaled = FALSE],
   orphan |->   \* flushed past the cap
     [Orphan EXCEPT !.cap = 1],
   deep |->     \* members of an entry, past the cap
     [Input(DeepTargets, DeepBlocks, DeepSource, DeepKind, DeepFoundAt, DeepExtent)
        EXCEPT !.cap = 1],
   broken |->
     [Orphan EXCEPT !.cut = BrokenCut],
   faulty |->
     [Input(FaultyTargets, FaultyBlocks, FaultySource, FaultyKind, FaultyFoundAt, FaultyExtent)
        EXCEPT !.bad = FaultyBad, !.cut = FaultyCut, !.ragged = FaultyRagged,
               !.unopenable = FaultyUnopenable, !.tooBig = FaultyTooBig, !.maxDepth = 1]]

P(x) == INSTANCE PipelineProps WITH
  Root <- r, Targets <- Inputs[x].targets, NBlocks <- Inputs[x].blocks,
  Source <- Inputs[x].source, Kind <- Inputs[x].kind, FoundAt <- Inputs[x].foundAt,
  Extent <- Inputs[x].extent, Bad <- Inputs[x].bad, Cut <- Inputs[x].cut,
  Unopenable <- Inputs[x].unopenable, TooBig <- Inputs[x].tooBig, Ragged <- Inputs[x].ragged,
  MaxDepth <- Inputs[x].maxDepth, QueueCap <- 1, PoolSize <- 2,
  ChanCap <- Inputs[x].cap, PubCap <- Inputs[x].cap, CkptEvery <- 1,
  Journaled <- Inputs[x].journaled, Journals <- Inputs[x].journals

ofPipeline ==
  <<scanTargets, zipQ, gzipQ, walletQ, pool, rpc, stack, pos, digestLen, since, rootErr,
    zpc, zHand, zTodo, zNew, zSlot, openedZ, pending, published,
    gpc, gHand, gTodo, gNew, gSlot, openedG, wpc, wHand, acked, rootDone, final, signaled,
    outstanding, refused, deferredSkipped, covered, poisoned, mpc, outcome, canceled,
    run, journal, lastFiled, admitted, delivered>>
allVars == <<input, vars, ofPipeline>>

Is(x) == input = x /\ UNCHANGED <<input, vars>>

NextScan == \E x \in InputNames :
  \/ Is(x) /\ P(x)!Reader
  \/ Is(x) /\ P(x)!Zip
  \/ Is(x) /\ P(x)!Gzip
  \/ Is(x) /\ P(x)!Wallet
  \/ Is(x) /\ P(x)!Main
  \/ Is(x) /\ P(x)!Cancel
  \/ Is(x) /\ P(x)!Returned

-----------------------------------------------------------------------------

\* Media of 14 cells in blocks of 4 with an overlap of 2, so that the last block
\* is short; cell 8 is bad, cells 2 and 14 may be; a stored entry lies in cells 6
\* to 11, and a gzip stream of 6 cells breaks off after 5.
Entry == [base |-> 5, size |-> 6]

OfCells == input = "cells" /\ UNCHANGED <<input, ofPipeline>>

NextCells ==
  \/ OfCells /\ OpenTarget
  \/ OfCells /\ ReadBlock
  \/ OfCells /\ ReadEntry
  \/ OfCells /\ NextTarget
  \/ OfCells /\ Cancel
  \/ OfCells /\ Record
  \/ OfCells /\ Refuse
  \/ OfCells /\ Edit

\* The program is over, or has panicked.
Ended ==
  /\ OfCells
  /\ log # <<>> \/ pc = "panicked"
  /\ UNCHANGED vars

-----------------------------------------------------------------------------

OneRuns ==
  \/ \E x \in InputNames : input = x /\ P(x)!Init /\ Init /\ start = 0 /\ kind = "raw"
  \/ input = "cells" /\ Init /\ P("orphan")!Init

Step == NextScan \/ NextCells \/ Ended
Scans == OneRuns /\ [][Step]_allVars

-----------------------------------------------------------------------------

\* "drainFrontier pins resume to the last skip-free proven point so a retry
\* re-covers the omitted bytes instead of skipping them forever" (runPipeline).
RetryRecovers == \A x \in InputNames : input = x => P(x)!RetryRecovers

\* Without a journal a stored member is read through its archive or through its
\* local header, not through both (flushZipCandidates).
NoDoubleScan == input = "torn" => P("torn")!NoDoubleScan

\* The pipeline implements ScanContract: what is due is reported once and in
\* order, and all of it before a scan is complete. Bound: not over the tree.
ContractInputs == InputNames \ {"tree"}
KeepsContract ==
  /\ \A x \in ContractInputs : input = x => P(x)!Contract!ContractInit
  /\ [][\A x \in ContractInputs : input = x => P(x)!ContractStep]_allVars
=============================================================================
