------------------------------ MODULE ExtVolume ------------------------------
(* An ext volume in use, and what the reader of detector/fsext.go makes of  *)
(* it: inodes and their blocks, the names of the root directory with what   *)
(* unlinking leaves of them, and the block bitmaps of the groups.  Blocks   *)
(* are of two bytes.  The driver that writes the volume is external.        *)
EXTENDS Extents, FiniteSets

CONSTANTS
  ExtBlocks,  \* blocks of the volume
  PerGroup,   \* blocks of a group
  Inodes,     \* inode numbers of files
  ExtNames,
  ExtSizes,   \* sizes in bytes
  ExtMax      \* bound: files made

ASSUME ExtAssumption ==
  /\ ExtBlocks \in Nat /\ PerGroup \in Nat \ {0} /\ ExtSizes \subseteq Nat
  /\ Inodes \subseteq Nat \ {0}

VARIABLES
  first,  \* s_first_data_block: 1 with blocks of 1 KiB, else 0
  used,   \* blocks marked in the bitmaps
  inode,  \* number -> [links, size, blocks], or NoInode
  root,   \* the directory: [ino, name, hidden] in the order of their places
  owner,  \* history: inode -> the file that has or had it last
  extMade

extVars == <<first, used, inode, root, owner, extMade>>

NoInode == [links |-> 0, size |-> 0, blocks |-> <<>>, mode |-> FALSE]
NoOwner == [name |-> "", blocks |-> <<>>, size |-> 0, held |-> {}]

-----------------------------------------------------------------------------
(* The reader.                                                              *)

(* readInode: the row of a deleted file decodes like any other; blocks past *)
(* the size are left out.                                                   *)
readInode(n) ==
  [ok |-> inode[n].mode, links |-> inode[n].links, size |-> inode[n].size,
   blocks |-> SubSeq(inode[n].blocks, 1, Smaller(Len(inode[n].blocks), (inode[n].size + 1) \div 2))]

\* Faulty: entries from the slack come before those in use.
namesSlackFirst(n) ==
  LET of(h) == SelectSeq(root, LAMBDA d : d.ino = n /\ d.hidden = h)
      all   == of(TRUE) \o of(FALSE)
  IN  [i \in DOMAIN all |-> all[i].name]

(* dirEntries, slackEntries: entries in their places, and what is left of   *)
(* an unlinked one: with its inode, if that can be read, or its name alone. *)
names(n) ==
  LET after[k \in 0 .. Len(root)] ==
        IF k = 0 THEN <<>>
        ELSE IF root[k].ino = n /\ (root[k].hidden => readInode(n).ok)
             THEN Append(after[k - 1], root[k].name) ELSE after[k - 1]
  IN  after[Len(root)]
residual == {root[i].name : i \in {j \in DOMAIN root : root[j].ino = 0}}

\* Faulty: the last block is scanned to its end.
TrimmedNot(es, size) == es

(* The ranges are merged, and then cut down to the size in their order.     *)
Cut(acc, e) ==
  IF acc.want = 0 THEN acc
  ELSE LET n == Smaller(e.len, acc.want)
       IN  [want |-> acc.want - n, out |-> Append(acc.out, FSExtent(e.start, n))]
Trimmed(es, size) ==
  LET cut[k \in 0 .. Len(es)] ==
        IF k = 0 THEN [want |-> size, out |-> <<>>] ELSE Cut(cut[k - 1], es[k])
  IN  cut[Len(es)].out

extExtents(in) ==
  LET all == mergeExtents([i \in DOMAIN in.blocks |-> FSExtent(2 * in.blocks[i], 2)])
  IN  IF in.size < 2 * Len(in.blocks) THEN Trimmed(all, in.size) ELSE all

ExtEntries ==
  {[num |-> n, names |-> names(n), deleted |-> readInode(n).links = 0,
    extents |-> extExtents(readInode(n))] : n \in {m \in Inodes : readInode(m).ok}}

(* Unallocated: bit i of group g stands for block g * PerGroup + i here.    *)
\* Faulty: bits count from 1.
bitOffByOne(g, i) == LET b == first + g * PerGroup + i + 1 IN b >= ExtBlocks \/ b \in used

bit(g, i) == LET b == first + g * PerGroup + i IN b >= ExtBlocks \/ b \in used
ExtUnallocated ==
  FreeRuns(ExtBlocks, {b \in 0 .. ExtBlocks - 1 : ~bit(b \div PerGroup, b % PerGroup)})

-----------------------------------------------------------------------------
(* The driver.                                                              *)

InUse(n) == inode[n].links > 0
ExtFree == (first .. ExtBlocks - 1) \ used
Vacant(d) == d.hidden \/ d.ino = 0
ExtArrangements(k) == {bs \in [1 .. k -> ExtFree] : IsInjective(bs)}

(* A new entry goes to the first place that is not taken.                   *)
Placed(d) ==
  IF \E i \in DOMAIN root : Vacant(root[i])
  THEN LET at == CHOOSE i \in DOMAIN root : Vacant(root[i]) /\ \A j \in 1 .. i - 1 : ~Vacant(root[j])
       IN  [root EXCEPT ![at] = d]
  ELSE Append(root, d)

ExtCreate ==
  /\ extMade < ExtMax /\ extMade' = extMade + 1
  /\ \E n \in Inodes, name \in ExtNames, size \in ExtSizes : \E bs \in ExtArrangements((size + 1) \div 2) :
       /\ ~InUse(n) /\ \A i \in DOMAIN root : ~Vacant(root[i]) => root[i].name # name
       /\ inode' = [inode EXCEPT ![n] = [links |-> 1, size |-> size, blocks |-> bs, mode |-> TRUE]]
       /\ root' = Placed([ino |-> n, name |-> name, hidden |-> FALSE])
       /\ used' = used \cup ToSet(bs)
       /\ owner' = [owner EXCEPT ![n] = [name |-> name, blocks |-> bs, size |-> size,
                                         held |-> @.held \cup {name}]]
  /\ UNCHANGED first

(* Unlinking hides the entry in the one before it, or clears its inode; the *)
(* row keeps its block pointers or loses them.                              *)
Unlink ==
  /\ \E n \in {m \in Inodes : InUse(m)} : \E i \in DOMAIN root :
       /\ root[i].ino = n /\ ~root[i].hidden
       /\ root' \in {[root EXCEPT ![i].hidden = TRUE], [root EXCEPT ![i].ino = 0]}
       /\ inode' \in {[inode EXCEPT ![n].links = 0],
                      [inode EXCEPT ![n] = [NoInode EXCEPT !.mode = TRUE]]}
       /\ used' = used \ ToSet(inode[n].blocks)
  /\ UNCHANGED <<first, owner, extMade>>

ExtInit ==
  /\ first \in {0, 1} /\ used = {} /\ root = <<>> /\ extMade = 0
  /\ inode = [n \in Inodes |-> NoInode] /\ owner = [n \in Inodes |-> NoOwner]

ExtNext == ExtCreate \/ Unlink
ExtSpec == ExtInit /\ [][ExtNext]_extVars

-----------------------------------------------------------------------------

ExtContent(n) == {b \in 0 .. 2 * ExtBlocks : \E i \in DOMAIN owner[n].blocks :
                 /\ b \div 2 = owner[n].blocks[i]
                 /\ 2 * (i - 1) + (b % 2) < owner[n].size}
Ascending(bs) == \A i, j \in DOMAIN bs : i < j => bs[i] < bs[j]

(* A file, live or deleted, whose row still holds its blocks is scanned as  *)
(* exactly its bytes, if its blocks ascend (readInode, Entries).            *)
AscendingExact ==
  \A e \in ExtEntries : inode[e.num].blocks # <<>> /\ Ascending(inode[e.num].blocks) =>
    Bytes(e.extents) = ExtContent(e.num)

(* Without a first data block the free ranges are exactly the blocks that   *)
(* no file holds, over the bounds of the groups (Unallocated).              *)
ExtUnused == UNION {{2 * b, 2 * b + 1} : b \in ExtFree}
FreeRangesExact == first = 0 => Bytes(ExtUnallocated) = ExtUnused

(* A live file is reported under its own name, whatever stale entries still *)
(* refer to its inode; any other name is that of a file that had the inode; *)
(* and an entry that lost its inode gives no name to any content.           *)
EntriesOwn ==
  \A e \in ExtEntries :
    /\ ToSet(e.names) \subseteq owner[e.num].held
    /\ ~e.deleted => e.names # <<>> /\ e.names[1] = owner[e.num].name

(* "Trim the final extent to the file size" (Entries): no byte of the file  *)
(* is cut off.                                                              *)
ContentWhole ==
  \A e \in ExtEntries : inode[e.num].blocks # <<>> => ExtContent(e.num) \subseteq Bytes(e.extents)

(* "Unallocated returns free-block byte ranges from the block bitmaps": no  *)
(* byte of a live file is in one, of a volume of 1 KiB blocks either, which *)
(* the reader accepts.                                                      *)
LiveIsNotFree ==
  \A n \in Inodes : InUse(n) => ExtContent(n) \cap Bytes(ExtUnallocated) = {}
==============================================================================
