------------------------------ MODULE FatVolume ------------------------------
(* A FAT volume in use, and what the reader of detector/fsfat.go makes of   *)
(* it at any moment: its files, live and deleted, with their names and byte *)
(* ranges, and its free ranges.  The driver that writes the volume is not   *)
(* part of this repository; the reader is a set of operators over the disk. *)
EXTENDS Extents, FiniteSets

CONSTANTS
  Count,     \* data clusters, numbered from 2
  FatNames,  \* names files are given
  Parts,     \* name -> slots its long form takes; 0 when the short form does
  Checksum,  \* name -> the checksum of its short form, kept in those slots
  FatSizes,  \* name -> sizes its file is given, in half clusters
  MaxSlots,  \* slots of a directory
  FatMax     \* bound: files and directories made

ASSUME FatAssumption ==
  /\ Count \in Nat /\ MaxSlots \in Nat
  /\ Parts \in [FatNames -> Nat] /\ FatSizes \in [FatNames -> SUBSET Nat]

VARIABLES
  fit,     \* the driver takes the "first" free slots that suffice, or "any"
  fat,     \* cluster -> 0, the next cluster or EOC
  dir,     \* Root or a directory's cluster -> its slots up to the end mark
  fatMade  \* history: [name, kind, clusters, size, state], in the order made

fatVars == <<fit, fat, dir, fatMade>>

Clusters == 2 .. Count + 1
EOC  == Count + 2
Root == 1
Ids  == DOMAIN fatMade

(* Slots.  A deletion stamps the first byte, 0xE5, over the sequence number *)
(* of a name slot: the reader then finds number 5 there, and the last flag. *)
LongSlot(id, name, i, last) ==
  [kind |-> "long", stamped |-> FALSE, of |-> id, text |-> <<name, i>>, seq |-> i, last |-> last,
   sum |-> Checksum[name]]
ShortSlot(id, kind, first, size) ==
  [kind |-> kind, stamped |-> FALSE, of |-> id, first |-> first, size |-> size]
Label == [kind |-> "label", stamped |-> FALSE, of |-> 0]

Seq5(p)  == IF p.stamped THEN 5 ELSE p.seq
Last5(p) == p.stamped \/ p.last

-----------------------------------------------------------------------------
(* The reader.                                                              *)

\* Faulty: clusters are taken to follow one another.
chainContiguous(start, max) ==
  SelectSeq([i \in 1 .. max |-> start + i - 1], LAMBDA c : c \in Clusters)

(* chain: stops at an entry that names no cluster, at a loop, at max.       *)
NextLink(out, start) ==
  LET c == IF out = <<>> THEN start ELSE fat[out[Len(out)]]
  IN  IF c \in Clusters \ ToSet(out) THEN Append(out, c) ELSE out
chain(start, max) ==
  LET out[n \in 0 .. max] == IF n = 0 THEN <<>> ELSE NextLink(out[n - 1], start)
  IN  out[max]

clustAbs(c) == 2 * c

\* Faulty: the last cluster is scanned to its end.
extentsUncut(first, size) ==
  LET cs == chain(first, (size + 1) \div 2)
  IN  mergeExtents([i \in DOMAIN cs |-> FSExtent(clustAbs(cs[i]), 2)])

(* The ranges of a file: the last cluster up to the size, if it is reached. *)
fatExtents(first, size) ==
  LET cs == chain(first, (size + 1) \div 2)
  IN  mergeExtents([i \in DOMAIN cs |->
        FSExtent(clustAbs(cs[i]), Smaller(2, size - 2 * (i - 1)))])

(* Name slots come in the order n .. 1; the result is the text, or <<>>.    *)
Text(parts) == Reverse([i \in DOMAIN parts |-> parts[i].text])

assembleLFN(parts) ==
  IF /\ parts # <<>> /\ Last5(parts[1])
     /\ \A i \in DOMAIN parts : Seq5(parts[i]) = Len(parts) - i + 1
  THEN Text(parts) ELSE <<>>

sumsAgree(parts) == \A i \in DOMAIN parts : parts[i].sum = parts[1].sum

assembleDeletedLFN(parts) ==
  IF parts = <<>> \/ ~sumsAgree(parts) THEN <<>>
  ELSE IF assembleLFN(parts) # <<>> THEN assembleLFN(parts)
  ELSE IF /\ \E i \in DOMAIN parts : parts[i].stamped
          /\ \A i \in DOMAIN parts : ~parts[i].stamped =>
               parts[i].seq = Len(parts) - i + 1 /\ parts[i].last = (i = 1)
       THEN Text(parts) ELSE <<>>

(* One directory: the name slots gather until the slot they are for.        *)
Listed(lfn, s) ==
  [kind |-> s.kind, of |-> s.of, deleted |-> s.stamped, first |-> s.first,
   long |-> IF s.stamped THEN assembleDeletedLFN(lfn) ELSE assembleLFN(lfn),
   extents |-> IF s.kind = "file" /\ s.size > 0 /\ s.first >= 2
               THEN fatExtents(s.first, s.size) ELSE <<>>]
ListSlot(acc, s) ==
  CASE s.kind = "long"  -> [acc EXCEPT !.lfn = Append(@, s)]
    [] s.kind = "label" -> [acc EXCEPT !.lfn = <<>>]
    [] OTHER            -> [lfn |-> <<>>, out |-> acc.out \cup {Listed(acc.lfn, s)}]
Listing(slots) ==
  LET read[n \in 0 .. Len(slots)] ==
        IF n = 0 THEN [lfn |-> <<>>, out |-> {}] ELSE ListSlot(read[n - 1], slots[n])
  IN  read[Len(slots)].out

(* Entries: live directories are entered, each once; files are listed.      *)
Entered(listed) == {e.first : e \in {d \in listed : d.kind = "dir" /\ ~d.deleted}}
FatEntries ==
  LET top == Listing(dir[Root])
  IN  {e \in top \cup UNION {Listing(dir[c]) : c \in Entered(top)} : e.kind = "file"}

(* Unallocated: runs of clusters whose entry is zero.                       *)
FatUnallocated == FreeRuns(Count + 2, {c \in Clusters : fat[c] = 0})

(* flattenDeletedRanges: what a scan of deleted files reads, entry by entry *)
(* and each range under its file's label; "" stands for the short name.     *)
deletedRanges ==
  UNION {{[of |-> e.of, label |-> e.long, range |-> e.extents[i]] : i \in DOMAIN e.extents} :
           e \in {d \in FatEntries : d.deleted}}

-----------------------------------------------------------------------------
(* The driver.                                                              *)

FatFree == {c \in Clusters : fat[c] = 0}
Usable(s) == s.stamped
Live(id) == fatMade[id].state = "live"

(* Where n slots go in a directory: over deleted slots, or past the end.    *)
Places(slots, n) ==
  {i \in 1 .. Len(slots) + 1 :
     /\ i + n - 1 <= MaxSlots
     /\ \A j \in i .. Smaller(i + n - 1, Len(slots)) : Usable(slots[j])}
Chosen(slots, n) ==
  LET ps == Places(slots, n)
  IN  IF fit = "any" THEN ps ELSE {i \in ps : \A j \in ps : i <= j}

Put(slots, i, new) ==
  [j \in 1 .. Greater(Len(slots), i + Len(new) - 1) |->
     IF j \in i .. i + Len(new) - 1 THEN new[j - i + 1] ELSE slots[j]]

Linked(cs) == [c \in Clusters |->
  IF \E i \in DOMAIN cs : cs[i] = c
  THEN LET i == CHOOSE j \in DOMAIN cs : cs[j] = c
       IN  IF i = Len(cs) THEN EOC ELSE cs[i + 1]
  ELSE fat[c]]

FatArrangements(n) == {cs \in [1 .. n -> FatFree] : IsInjective(cs)}
LiveDirs == {fatMade[id].clusters[1] : id \in {i \in Ids : Live(i) /\ fatMade[i].kind = "dir"}}

Make(d, name, kind, size, cs) ==
  LET id   == Len(fatMade) + 1
      n    == Parts[name]
      new  == Append([i \in 1 .. n |-> LongSlot(id, name, n - i + 1, i = 1)],
                     ShortSlot(id, kind, IF cs = <<>> THEN 0 ELSE cs[1], size))
  IN  /\ \E i \in Chosen(dir[d], n + 1) :
           dir' = [c \in DOMAIN dir |->
                     IF c = d THEN Put(dir[d], i, new)
                     ELSE IF kind = "dir" /\ c = cs[1] THEN <<>> ELSE dir[c]]
      /\ fat' = Linked(cs)
      /\ fatMade' = Append(fatMade, [name |-> name, kind |-> kind, clusters |-> cs, size |-> size,
                               state |-> "live"])
      /\ UNCHANGED fit

(* A file of a name not in use, over free clusters in whatever order.       *)
FatCreate ==
  /\ Len(fatMade) < FatMax
  /\ \E d \in {Root} \cup LiveDirs, name \in FatNames : \E size \in FatSizes[name] :
     \E cs \in FatArrangements((size + 1) \div 2) :
       /\ \A id \in Ids : Live(id) => fatMade[id].name # name
       /\ Make(d, name, "file", size, cs)

(* A directory, within the root and of a short name: a bound of the model.  *)
Mkdir ==
  /\ Len(fatMade) < FatMax
  /\ \E name \in {n \in FatNames : Parts[n] = 0}, c \in FatFree :
       /\ \A id \in Ids : Live(id) => fatMade[id].name # name
       /\ Make(Root, name, "dir", 0, <<c>>)

(* A deletion stamps the slots and frees the clusters; a volume pulled out  *)
(* in between keeps them.                                                   *)
Stamp(id) == [c \in DOMAIN dir |-> [j \in DOMAIN dir[c] |->
               IF dir[c][j].of = id THEN [dir[c][j] EXCEPT !.stamped = TRUE] ELSE dir[c][j]]]
Freed(id) == [c \in Clusters |-> IF c \in ToSet(fatMade[id].clusters) THEN 0 ELSE fat[c]]
Empty(id) == fatMade[id].kind = "dir" =>
               \A j \in DOMAIN dir[fatMade[id].clusters[1]] : dir[fatMade[id].clusters[1]][j].stamped

FatDelete ==
  \E id \in Ids :
    /\ Live(id) /\ Empty(id)
    /\ dir' = Stamp(id)
    /\ \/ fat' = Freed(id) /\ fatMade' = [fatMade EXCEPT ![id].state = "deleted"]
       \/ UNCHANGED fat /\ fatMade' = [fatMade EXCEPT ![id].state = "lost"]
    /\ UNCHANGED fit

FatInit ==
  /\ fit \in {"first", "any"}
  /\ fat = [c \in Clusters |-> 0]
  /\ dir = [c \in {Root} \cup Clusters |-> IF c = Root THEN <<Label>> ELSE <<>>]
  /\ fatMade = <<>>

FatNext == FatCreate \/ Mkdir \/ FatDelete
FatSpec == FatInit /\ [][FatNext]_fatVars

-----------------------------------------------------------------------------

FatContent(id) ==
  UNION {{2 * fatMade[id].clusters[i] + k : k \in {j \in 0 .. 1 : 2 * (i - 1) + j < fatMade[id].size}} :
           i \in DOMAIN fatMade[id].clusters}
Whole(name) == [i \in 1 .. Parts[name] |-> <<name, i>>]

(* Every live file is listed once, and as exactly its bytes, however it is  *)
(* fragmented and wherever its directory lies (Entries, chain,              *)
(* mergeExtents); with a driver that takes the first slots that suffice,    *)
(* under its whole name.                                                    *)
LiveExact ==
  \A id \in Ids : Live(id) /\ fatMade[id].kind = "file" =>
    LET es == {e \in FatEntries : e.of = id} IN
    /\ Cardinality(es) = 1
    /\ \A e \in es : /\ ~e.deleted /\ Bytes(e.extents) = FatContent(id)
                     /\ fit = "first" => e.long = Whole(fatMade[id].name)

(* The free ranges and the clusters of files and directories that are there *)
(* or were never freed share nothing and leave nothing out (Unallocated):   *)
(* what is not scanned as unallocated is in use.                            *)
UnallocatedExact ==
  LET held == UNION {ToSet(fatMade[id].clusters) : id \in {i \in Ids : fatMade[i].state # "deleted"}}
  IN  Bytes(FatUnallocated) = UNION {{2 * c, 2 * c + 1} : c \in Clusters \ held}

(* A deleted file is scanned from its first byte and for nothing that was   *)
(* not its own, until a later file takes its first cluster; and as a whole  *)
(* when its clusters were never freed.                                      *)
Retaken(id) == \E j \in Ids : j > id /\ fatMade[id].clusters[1] \in ToSet(fatMade[j].clusters)
DeletedHonest ==
  \A e \in FatEntries :
    LET id == e.of
        u  == UNION {d.range.start .. End(d.range) - 1 : d \in {x \in deletedRanges : x.of = id}}
    IN  e.deleted /\ fatMade[id].size > 0 /\ ~Retaken(id) =>
          /\ u \subseteq FatContent(id) /\ 2 * fatMade[id].clusters[1] \in u
          /\ fatMade[id].state = "lost" => u = FatContent(id)

(* A long name is never put together from two names; with a driver          *)
(* that takes the first slots that suffice it is the beginning of the name  *)
(* of the very file it is reported for.                                     *)
NamesUnmixed ==
  \A e \in FatEntries : e.long # <<>> =>
    /\ \A i, j \in DOMAIN e.long : e.long[i][1] = e.long[j][1]
    /\ fit = "first" => IsPrefix(e.long, Whole(fatMade[e.of].name))

(* "refused rather than truncated" (assembleDeletedLFN): the long name of a *)
(* deleted file is a whole one.                                             *)
NoHalfName ==
  \A e \in FatEntries : e.deleted => e.long \in {<<>>} \cup {Whole(n) : n \in FatNames}
=============================================================================
