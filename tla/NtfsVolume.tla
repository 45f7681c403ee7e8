----------------------------- MODULE NtfsVolume ------------------------------
(* The file records of an NTFS volume in use, and the entries the reader of *)
(* detector/fsntfs.go makes of them.  A file has a base record and, when it *)
(* is in pieces, an extension record that refers to it.  The driver that    *)
(* writes the records is external.                                          *)
EXTENDS Extents, FiniteSets

CONSTANTS
  Records,       \* records of the table, 1 .. Records
  NtfsClusters,  \* clusters of the volume
  NtfsMax        \* bound: files made

ASSUME NtfsAssumption == Records \in Nat /\ NtfsClusters \in Nat

VARIABLES
  mft,      \* number -> Blank, or [inUse, base, file, runs]; base 0: its own
  ntfsMade  \* history: [base, ext, runs, live]; ext 0 when there is none

ntfsVars == <<mft, ntfsMade>>

Numbers == 1 .. Records
Blank == [inUse |-> FALSE, base |-> 0, file |-> 0, runs |-> <<>>]
NoBase  == [inUse |-> FALSE, files |-> <<>>, runs |-> <<>>, there |-> FALSE]

-----------------------------------------------------------------------------
(* The reader.                                                              *)

(* readMFTRecord refuses what was never a record.                           *)
readMFTRecord(n) == [ok |-> mft[n] # Blank, rec |-> mft[n]]

\* Faulty: an extension replaces the runs found before it.
MergeExtensionOver(acc, rec) ==
  [acc EXCEPT ![rec.base] =
     [there |-> TRUE, files |-> @.files,
      inUse |-> IF @.there THEN @.inUse ELSE rec.inUse, runs |-> rec.runs]]

(* An extension gives its runs to the base it names, which it brings into   *)
(* being if need be; a base record joins what is there already.             *)
MergeExtension(acc, rec) ==
  [acc EXCEPT ![rec.base] =
     [there |-> TRUE, files |-> @.files,
      inUse |-> IF @.there THEN @.inUse ELSE rec.inUse, runs |-> @.runs \o rec.runs]]
\* Faulty: a base record drops what its extensions brought before it.
MergeBaseOver(acc, n, rec) ==
  [acc EXCEPT ![n] =
     [there |-> TRUE, files |-> Append(@.files, rec.file),
      inUse |-> rec.inUse /\ (@.there => @.inUse), runs |-> rec.runs]]

MergeBase(acc, n, rec) ==
  [acc EXCEPT ![n] =
     [there |-> TRUE, files |-> Append(@.files, rec.file),
      inUse |-> rec.inUse /\ (@.there => @.inUse), runs |-> @.runs \o rec.runs]]

Take(acc, n) ==
  LET r == readMFTRecord(n) IN
  IF ~r.ok THEN acc
  ELSE IF r.rec.base \notin {0, n} THEN MergeExtension(acc, r.rec)
  ELSE MergeBase(acc, n, r.rec)
bases ==
  LET after[n \in 0 .. Records] ==
        IF n = 0 THEN [m \in Numbers |-> NoBase] ELSE Take(after[n - 1], n)
  IN  after[Records]

ntfsExtents(runs) == mergeExtents([i \in DOMAIN runs |-> FSExtent(runs[i], 1)])

(* Entries: the bases that have a name.                                     *)
NtfsEntries ==
  {[num |-> n, file |-> bases[n].files[1], deleted |-> ~bases[n].inUse,
    extents |-> ntfsExtents(bases[n].runs)] : n \in {m \in Numbers : bases[m].files # <<>>}}

-----------------------------------------------------------------------------
(* The driver: it takes any record that is not in use, and a deletion only  *)
(* clears the flag of the file's records.                                   *)

UnusedRecords == {n \in Numbers : ~mft[n].inUse}
NtfsFree == (1 .. NtfsClusters) \ UNION {ToSet(ntfsMade[i].runs) : i \in {j \in DOMAIN ntfsMade : ntfsMade[j].live}}
Row(base, file, c) == [inUse |-> TRUE, base |-> base, file |-> file, runs |-> <<c>>]

NtfsCreate ==
  /\ Len(ntfsMade) < NtfsMax
  /\ LET id == Len(ntfsMade) + 1 IN
     \E b \in UnusedRecords, c \in NtfsFree :
       /\ mft' = [mft EXCEPT ![b] = Row(0, id, c)]
       /\ ntfsMade' = Append(ntfsMade, [base |-> b, ext |-> 0, runs |-> <<c>>, live |-> TRUE])

(* A file grows by a cluster that its base record has no room for.          *)
Grow ==
  \E id \in DOMAIN ntfsMade : \E e \in UnusedRecords, c \in NtfsFree :
    /\ ntfsMade[id].live /\ ntfsMade[id].ext = 0
    /\ mft' = [mft EXCEPT ![e] = Row(ntfsMade[id].base, id, c)]
    /\ ntfsMade' = [ntfsMade EXCEPT ![id].ext = e, ![id].runs = Append(@, c)]

NtfsDelete ==
  \E id \in DOMAIN ntfsMade :
    /\ ntfsMade[id].live
    /\ mft' = [n \in Numbers |-> IF n \in {ntfsMade[id].base, ntfsMade[id].ext}
                                 THEN [mft[n] EXCEPT !.inUse = FALSE] ELSE mft[n]]
    /\ ntfsMade' = [ntfsMade EXCEPT ![id].live = FALSE]

NtfsInit == mft = [n \in Numbers |-> Blank] /\ ntfsMade = <<>>
NtfsNext == NtfsCreate \/ Grow \/ NtfsDelete
NtfsSpec == NtfsInit /\ [][NtfsNext]_ntfsVars

-----------------------------------------------------------------------------

NtfsKept(id) == \A n \in {ntfsMade[id].base, ntfsMade[id].ext} \ {0} : mft[n].file = id
Stale(n) == \E m \in Numbers : mft[m].base = n /\ mft[m].file # mft[n].file
NtfsContent(id) == ToSet(ntfsMade[id].runs)

(* A file is listed under its base record as live or deleted as it is, with *)
(* exactly its clusters, for as long as no other file took one of its       *)
(* records; unless its base record is one that the extension of an earlier  *)
(* file still names.                                                        *)
FilesExact ==
  \A id \in DOMAIN ntfsMade : NtfsKept(id) /\ ~Stale(ntfsMade[id].base) =>
    \E e \in NtfsEntries : /\ e.num = ntfsMade[id].base /\ e.file = id
                       /\ e.deleted = ~ntfsMade[id].live /\ Bytes(e.extents) = NtfsContent(id)

(* Nothing of a deleted file that its records still hold is left out,       *)
(* whatever was made since.                                                 *)
DeletedWhole ==
  \A id \in DOMAIN ntfsMade : NtfsKept(id) /\ ~ntfsMade[id].live =>
    \E e \in NtfsEntries : e.num = ntfsMade[id].base /\ e.deleted /\ NtfsContent(id) \subseteq Bytes(e.extents)

(* "Deleted reports metadata that no longer links the file" (fs.go): a live *)
(* file is never listed as deleted.                                         *)
LiveStaysLive ==
  \A id \in DOMAIN ntfsMade : ntfsMade[id].live =>
    \A e \in NtfsEntries : e.num = ntfsMade[id].base => ~e.deleted
==============================================================================
