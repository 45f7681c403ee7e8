----------------------------- MODULE ScanInputs -----------------------------
(***************************************************************************)
(* Small inputs for model checking a scan: a root file r, members z1 and   *)
(* z2 of zip archives, gzip streams g1 and g2, entries e1 and e2.          *)
(***************************************************************************)
EXTENDS Naturals, TLC

CONSTANTS r, z1, z2, g1, g2, e1, e2

Span(lo, hi) == [lo |-> lo, hi |-> hi]
Sound(targets) == [t \in targets |-> {}]

\* No journal (NoJournal of Pipeline).
Unfiled == [at |-> 0, proven |-> 0, bank |-> {}]

\* Tree: block 1 completes an archive with members z1 and z2, block 2 holds a
\* gzip stream; z1 holds another gzip stream, and z2 an entry whose archive
\* has no directory.
TreeTargets == {r, z1, z2, g1, g2, e1}
TreeBlocks  == [t \in TreeTargets |-> IF t = r THEN 2 ELSE 1]
TreeSource  == (z1 :> r) @@ (z2 :> r) @@ (g1 :> r) @@ (g2 :> z1) @@ (e1 :> z2)
TreeKind    == (z1 :> "zip") @@ (z2 :> "zip") @@ (g1 :> "gzip") @@ (g2 :> "gzip") @@ (e1 :> "entry")
TreeFoundAt == (z1 :> 1) @@ (z2 :> 1) @@ (g1 :> 2) @@ (g2 :> 1) @@ (e1 :> 1)
TreeExtent  == [m \in TreeTargets \ {r} |-> IF m = g1 THEN Span(2, 2) ELSE Span(1, 1)]

\* Journals an earlier run may have left for Tree: one killed after a point
\* filed at the end of block 1 or of block 2, one that failed with z1 banked, and
\* one started at an explicit offset, whose proof misses the first bytes.
TreeJournals == {Unfiled,
                 [at |-> 1, proven |-> 1, bank |-> {z1, z2, g2, e1}],
                 [at |-> 2, proven |-> 2, bank |-> {z1, z2, g1, g2, e1}],
                 [at |-> 0, proven |-> 2, bank |-> {z1, g2}],
                 [at |-> 2, proven |-> 0, bank |-> {z1, g2}]}

\* Torn: the local header of a member of z1's archive, e1, lies in block 1 and
\* the archive's directory in block 2; a gzip stream g1 lies in block 1 too.
TornTargets == {r, z1, g1, e1}
TornBlocks  == [t \in TornTargets |-> IF t = r THEN 2 ELSE 1]
TornSource  == [m \in TornTargets \ {r} |-> r]
TornKind    == (z1 :> "zip") @@ (g1 :> "gzip") @@ (e1 :> "entry")
TornFoundAt == (z1 :> 2) @@ (g1 :> 1) @@ (e1 :> 1)
TornExtent  == (z1 :> Span(1, 2)) @@ (g1 :> Span(1, 1)) @@ (e1 :> Span(1, 1))

\* Orphan: entries e1 and e2 in block 1 whose archives have no directory, and
\* an intact archive in block 2.
OrphanTargets == {r, z1, e1, e2}
OrphanBlocks  == [t \in OrphanTargets |-> IF t = r THEN 2 ELSE 1]
OrphanSource  == [m \in OrphanTargets \ {r} |-> r]
OrphanKind    == (z1 :> "zip") @@ (e1 :> "entry") @@ (e2 :> "entry")
OrphanFoundAt == (z1 :> 2) @@ (e1 :> 1) @@ (e2 :> 1)
OrphanExtent  == (z1 :> Span(2, 2)) @@ (e1 :> Span(0, 0)) @@ (e2 :> Span(1, 1))

\* Broken: the same, but the root itself breaks off at block 2.
BrokenCut == [t \in OrphanTargets |-> IF t = r THEN {2} ELSE {}]

\* Deep: an entry e1 in block 1 whose archive has no directory, and which is
\* itself an archive with members z1 and z2; two more blocks follow.
DeepTargets == {r, e1, z1, z2}
DeepBlocks  == [t \in DeepTargets |-> IF t = r THEN 3 ELSE 1]
DeepSource  == (e1 :> r) @@ (z1 :> e1) @@ (z2 :> e1)
DeepKind    == (e1 :> "entry") @@ (z1 :> "zip") @@ (z2 :> "zip")
DeepFoundAt == [m \in DeepTargets \ {r} |-> 1]
DeepExtent  == (e1 :> Span(1, 1)) @@ (z1 :> Span(0, 0)) @@ (z2 :> Span(1, 1))

\* Faulty: block 2 of r is a bad sector; z1 is over the inflation cap, z2 does
\* not open; e2 is an entry without a directory whose stream breaks off at its
\* block 2, and the gzip stream g2 and archive member e1 in it lie too deep for
\* MaxDepth 1; g1 is another gzip stream.  r ends in a short block.
FaultyTargets    == {r, z1, z2, e2, g1, g2, e1}
FaultyBlocks     == [t \in FaultyTargets |-> IF t = r THEN 3 ELSE IF t = e2 THEN 2 ELSE 1]
FaultySource     == (z1 :> r) @@ (z2 :> r) @@ (e2 :> r) @@ (g1 :> r) @@ (g2 :> e2) @@ (e1 :> e2)
FaultyKind       == (z1 :> "zip") @@ (z2 :> "zip") @@ (e2 :> "entry") @@ (g1 :> "gzip")
                    @@ (g2 :> "gzip") @@ (e1 :> "zip")
FaultyFoundAt    == (z1 :> 1) @@ (z2 :> 1) @@ (e2 :> 3) @@ (g1 :> 3) @@ (g2 :> 1) @@ (e1 :> 1)
FaultyExtent     == [m \in FaultyTargets \ {r} |-> IF FaultyFoundAt[m] = 3 THEN Span(3, 3) ELSE Span(1, 1)]
FaultyBad        == [t \in FaultyTargets |-> IF t = r THEN {2} ELSE {}]
FaultyCut        == [t \in FaultyTargets |-> IF t = e2 THEN {2} ELSE {}]
FaultyRagged     == {r}
FaultyUnopenable == {z2}
FaultyTooBig     == {z1}
=============================================================================
