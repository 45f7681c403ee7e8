------------------------------- MODULE Batch -------------------------------
(* A checkpointed multi-target run (main.go runMultiTarget) over the        *)
(* manifest of detector/batch.go, journaled by detector/checkpoint.go.      *)
(* One process runs at a time; it may be killed between any two steps, and  *)
(* resumed. A journal write is a rename of a staged file: it happens or,    *)
(* when the disk refuses it, the older journal stays. The pipeline is the   *)
(* four steps a target goes through: adopt the journal's claim, read a      *)
(* block, file a frontier, end. What a block holds is a version, so a hash  *)
(* of a span is the sequence of its versions.                               *)
EXTENDS Naturals, Sequences, FiniteSets

CONSTANTS
  List,        \* the targets in order: a sequence of files
  N,           \* blocks in a file
  Versions,    \* what a block may hold
  Profiles,    \* the run options a journal binds (BatchRun)
  MaxRuns,     \* bound: processes started
  MaxKills,    \* bound: processes killed
  MaxEdits,    \* bound: files replaced between scans
  MaxLost      \* bound: journal writes the disk refuses

ASSUME ListAssumption == List \in Seq(STRING) /\ Len(List) > 0
ASSUME VersionsAssumption == "none" \notin Versions
ASSUME SizeAssumption == N \in Nat \ {0}

Files == {List[i] : i \in DOMAIN List}
Entries == DOMAIN List
Missing == 0               \* the stat of a file that is not there
Stamps == 1..2             \* size and mtime, which a copy may restore
None == <<"none">>         \* no digest, no proof

VARIABLES
  disk,      \* file -> [bytes, stat, ident]; ident adds the inode and ctime
  journal,   \* the checkpoint file: [run, entries], or NoJournal
  man,       \* the manifest in memory, or NoJournal when nothing runs
  pc,        \* where the process is
  at,        \* the target it is at
  resume,    \* -resume was given
  scan,      \* the pipeline over that target
  seen,      \* history: <<file, block, version, profile>> delivered
  runs, kills, edits, lost

vars == <<disk, journal, man, pc, at, resume, scan, seen, runs, kills, edits, lost>>
budget == <<runs, kills, edits, lost>>

NoJournal == [run |-> "none", entries |-> <<>>]
NoScan == [start |-> 0, pos |-> 0, hashed |-> <<>>, seed |-> 0,
           filed |-> 0, ident |-> Missing, flight |-> {}, err |-> FALSE]

-----------------------------------------------------------------------------
(* The journal.                                                             *)

(* ReadCheckpoint: geometry and states are well formed in every journal the *)
(* program writes; what it can refuse is a second active entry.             *)
Active(j) == {i \in DOMAIN j.entries : j.entries[i].state = "active"}
\* Faulty: a journal with several active entries is accepted.
ReadableAny(j) == j # NoJournal

Readable(j) == j # NoJournal /\ Cardinality(Active(j)) <= 1

NewBatchManifest(p) ==
  [run |-> p,
   entries |-> [i \in Entries |->
     [stat |-> disk[List[i]].stat, ident |-> disk[List[i]].ident,
      state |-> "pending", offset |-> 0, digest |-> None, proof |-> None]]]

(* writeCheckpointData: staged and renamed, or warned about.                *)
Persist(j) ==
  \/ journal' = j /\ UNCHANGED lost
  \/ lost < MaxLost /\ lost' = lost + 1 /\ UNCHANGED journal

rewindOffset(o) == IF o = 0 THEN 0 ELSE o - 1

BatchIdentityMatches(e, f) == e.stat # Missing /\ e.stat = disk[f].stat
CheapTierReject(ident, f) == disk[f].ident = Missing \/ ident # disk[f].ident
\* Faulty: a complete entry is skipped on its metadata alone.
VerifyBatchDigestByStat(f, digest) == disk[f].stat # Missing

VerifyBatchDigest(f, digest) == disk[f].stat # Missing /\ disk[f].bytes = digest
verifySpan(f, proof) == SubSeq(disk[f].bytes, 1, Len(proof)) = proof

-----------------------------------------------------------------------------
(* Starting: openBatchManifest.                                             *)

StartFresh(p, r) ==
  /\ man' = NewBatchManifest(p)
  /\ Persist(man')
  /\ pc' = "entry" /\ at' = 1 /\ resume' = r

StartMatched(p) ==
  /\ Readable(journal) /\ journal.run = p
  /\ man' = journal
  /\ pc' = "entry" /\ at' = 1 /\ resume' = TRUE
  /\ UNCHANGED <<journal, lost>>

(* A resume of a journal that cannot be read, or of another run, exits.     *)
StartRun ==
  /\ pc = "off" /\ runs < MaxRuns
  /\ runs' = runs + 1
  /\ \E p \in Profiles :
       \/ StartFresh(p, FALSE)
       \/ journal = NoJournal /\ StartFresh(p, TRUE)
       \/ StartMatched(p)
  /\ UNCHANGED <<disk, scan, seen, kills, edits>>

-----------------------------------------------------------------------------
(* One target: batchEntryStart.                                             *)

file == List[at]
entry == man.entries[at]

MaySkip ==
  /\ resume /\ entry.state = "complete" /\ entry.digest # None
  /\ BatchIdentityMatches(entry, file)
  /\ VerifyBatchDigest(file, entry.digest)

(* The next target, or the end of the run.                                  *)
Advance ==
  IF at < Len(List) THEN pc' = "entry" /\ at' = at + 1
                    ELSE pc' = "off" /\ at' = 1

Forget(m) == IF at < Len(List) THEN man' = m /\ UNCHANGED resume
                               ELSE man' = NoJournal /\ resume' = FALSE

SkipEntry ==
  /\ pc = "entry" /\ MaySkip
  /\ Advance
  /\ Forget(man)
  /\ UNCHANGED <<disk, journal, scan, seen, budget>>

EntryOffset ==
  IF /\ resume /\ entry.state \in {"active", "failed"} /\ entry.offset > 0
     /\ ~CheapTierReject(entry.ident, file)
  THEN rewindOffset(entry.offset)
  ELSE 0

Activated ==
  LET cleared == IF resume /\ entry.state = "complete"
                 THEN [entry EXCEPT !.offset = 0, !.proof = None] ELSE entry
  IN  [cleared EXCEPT !.state = "active", !.digest = None,
                      !.stat = disk[file].stat, !.ident = disk[file].ident]

ActivateEntry ==
  /\ pc = "entry" /\ ~MaySkip
  /\ man' = [man EXCEPT !.entries[at] = Activated]
  /\ Persist(man')
  /\ scan' = [NoScan EXCEPT !.start = EntryOffset]
  /\ pc' = "adopt"
  /\ UNCHANGED <<disk, at, resume, seen, runs, kills, edits>>

-----------------------------------------------------------------------------
(* The pipeline over one target.                                            *)

(* ScanWithOptions stats the target first.                                  *)
ScanMissing ==
  /\ pc = "adopt" /\ disk[file].stat = Missing
  /\ scan' = [scan EXCEPT !.err = TRUE]
  /\ pc' = "outcome"
  /\ UNCHANGED <<disk, journal, man, at, resume, seen, budget>>

(* loadResumeClaim, claimForEntry: the journal's active entry, when it is   *)
(* this target's and the run continues its point with a long enough proof.  *)
Claim(e) ==
  /\ scan.start \in {e.offset, rewindOffset(e.offset)}
  /\ e.proof # None /\ Len(e.proof) >= e.offset

HasClaim ==
  /\ Readable(journal)
  /\ \E i \in Active(journal) : List[i] = file /\ Claim(journal.entries[i])

claimed == journal.entries[CHOOSE i \in Active(journal) : TRUE]

(* adoptResume: metadata may only reject; the bytes themselves authorize.   *)
Adopt ==
  /\ pc = "adopt" /\ disk[file].stat # Missing
  /\ scan' =
       IF /\ HasClaim
          /\ ~CheapTierReject(claimed.ident, file)
          /\ verifySpan(file, claimed.proof)
       THEN [scan EXCEPT !.pos = scan.start, !.hashed = claimed.proof,
                         !.seed = Len(claimed.proof), !.ident = disk[file].ident]
       ELSE [scan EXCEPT !.start = 0, !.pos = 0, !.ident = disk[file].ident]
  /\ pc' = "scan"
  /\ UNCHANGED <<disk, journal, man, at, resume, seen, budget>>

ReadBlock ==
  /\ pc = "scan" /\ scan.pos < N
  /\ LET b == scan.pos + 1
         held == disk[file].bytes[b]
     IN  scan' = [scan EXCEPT
           !.pos = b,
           !.hashed = IF b > scan.seed THEN Append(@, held) ELSE @,
           !.flight = @ \cup {<<file, b, held, man.run>>}]
  /\ UNCHANGED <<disk, journal, man, pc, at, resume, seen, budget>>

(* writeFrontier under a batch: a copy of the manifest whose every active   *)
(* entry takes the point. The manifest itself is not touched.               *)
Frontier(offset, digest) ==
  [man EXCEPT !.entries = [i \in Entries |->
    LET e == man.entries[i] IN
    IF e.state # "active" THEN e
    ELSE [e EXCEPT !.offset = offset, !.ident = scan.ident, !.proof = scan.hashed,
                   !.digest = IF digest = None THEN @ ELSE digest]]]

(* A drain proves every block before the point delivered, then files it.    *)
FileFrontier ==
  /\ pc = "scan" /\ scan.pos < N /\ scan.filed < scan.pos
  /\ seen' = seen \cup scan.flight
  /\ Persist(Frontier(scan.pos, None))
  /\ scan' = [scan EXCEPT !.filed = scan.pos, !.flight = {}]
  /\ UNCHANGED <<disk, man, pc, at, resume, runs, kills, edits>>

\* Faulty: an error files how far the reader got.
frozenOffsetRead == scan.pos

frozenOffset == IF scan.filed > scan.start THEN scan.filed ELSE scan.start

(* The error return files the frozen point, or the run start when a late    *)
(* refusal poisoned every point; blocks in flight were not delivered.       *)
ScanFails ==
  /\ pc = "scan"
  /\ \E o \in {frozenOffset, scan.start} : Persist(Frontier(o, None))
  /\ scan' = [scan EXCEPT !.flight = {}, !.err = TRUE]
  /\ pc' = "outcome"
  /\ UNCHANGED <<disk, man, at, resume, seen, runs, kills, edits>>

RunDigest == IF scan.start = 0 \/ scan.seed > 0 THEN scan.hashed ELSE None

ScanEnds ==
  /\ pc = "scan" /\ scan.pos = N
  /\ seen' = seen \cup scan.flight
  /\ Persist(Frontier(N, RunDigest))
  /\ scan' = [scan EXCEPT !.flight = {}]
  /\ pc' = "outcome"
  /\ UNCHANGED <<disk, man, at, resume, runs, kills, edits>>

-----------------------------------------------------------------------------
(* The outcome: runMultiTarget adopts what the detector filed. The offset,  *)
(* the digest and the identity come back into the manifest; the proof does  *)
(* not.                                                                     *)

AdoptFiled(e, t) ==
  [e EXCEPT !.offset = IF scan.err /\ t.offset > @ THEN t.offset ELSE @,
            !.digest = IF ~scan.err /\ t.digest # None THEN t.digest ELSE @,
            !.ident = t.ident]

Adopted ==
  LET mine == {i \in Active(journal) : List[i] = file}
  IN  IF Readable(journal) /\ mine # {}
      THEN AdoptFiled(entry, journal.entries[CHOOSE i \in mine : TRUE])
      ELSE entry

Settled(e) ==
  IF scan.err THEN [e EXCEPT !.state = "failed"]
              ELSE [e EXCEPT !.state = "complete", !.offset = IF e.stat = Missing THEN 0 ELSE N]

RecordOutcome ==
  /\ pc = "outcome"
  /\ LET m == [man EXCEPT !.entries[at] = Settled(Adopted)]
     IN  Persist(m) /\ Advance /\ Forget(m)
  /\ scan' = NoScan
  /\ UNCHANGED <<disk, seen, runs, kills, edits>>

-----------------------------------------------------------------------------
(* The surroundings.                                                        *)

Kill ==
  /\ pc # "off" /\ kills < MaxKills
  /\ kills' = kills + 1
  /\ pc' = "off" /\ man' = NoJournal /\ at' = 1 /\ resume' = FALSE /\ scan' = NoScan
  /\ UNCHANGED <<disk, journal, seen, runs, edits, lost>>

(* A target is replaced, possibly with its old size and mtime but never with*)
(* its old inode change time, or removed: while no process runs (writers    *)
(* are to be quiet during a scan that is to be skipped later, batch.go).    *)
Edit ==
  /\ pc = "off" /\ edits < MaxEdits
  /\ edits' = edits + 1
  /\ \E f \in Files :
       \/ disk' = [disk EXCEPT ![f].stat = Missing, ![f].ident = Missing]
       \/ \E b \in 1..N, v \in Versions, t \in Stamps :
            disk' = [disk EXCEPT ![f] =
              [bytes |-> [@.bytes EXCEPT ![b] = v], stat |-> t, ident |-> edits + 2]]
  /\ UNCHANGED <<journal, man, pc, at, resume, scan, seen, runs, kills, lost>>

Init ==
  /\ \E v \in Versions : disk = [f \in Files |->
       [bytes |-> [b \in 1..N |-> v], stat |-> 1, ident |-> 1]]
  /\ journal = NoJournal /\ man = NoJournal
  /\ pc = "off" /\ at = 1 /\ resume = FALSE /\ scan = NoScan
  /\ seen = {} /\ runs = 0 /\ kills = 0 /\ edits = 0 /\ lost = 0

Next ==
  \/ StartRun \/ SkipEntry \/ ActivateEntry
  \/ ScanMissing \/ Adopt \/ ReadBlock \/ FileFrontier \/ ScanFails \/ ScanEnds
  \/ RecordOutcome \/ Kill \/ Edit

Spec == Init /\ [][Next]_vars

-----------------------------------------------------------------------------

BytesSeen(f, bytes, p) == \A b \in DOMAIN bytes : <<f, b, bytes[b], p>> \in seen

(* How much trouble the journal withstands. A second replacement may bring  *)
(* back bytes that a stale proof still pins (KillsOnlyRedo); a second       *)
(* refused write may leave an older journal, of another run or of another   *)
(* entry of the same file, for RecordOutcome to adopt from.                 *)
Trusted == lost < 2 /\ edits < 2

(* A digest in a journal that can be read pins bytes that were all          *)
(* delivered under that journal's options (writeFrontier, runMultiTarget):  *)
(* a later skip rests on nothing else. A write fills every active entry, so *)
(* the reader's refusal of two of them is part of what keeps this.          *)
DigestsSeen ==
  Trusted /\ Readable(journal) => \A i \in DOMAIN journal.entries :
    LET e == journal.entries[i]
    IN  e.digest # None => BytesSeen(List[i], e.digest, journal.run)

(* A pipeline that starts past byte 0 leaves out only bytes delivered       *)
(* before under the same options, in the versions the file holds now.       *)
SkipsOnlySeen ==
  pc = "adopt" /\ pc' = "scan" =>
    BytesSeen(file, SubSeq(disk[file].bytes, 1, scan'.start), man.run)

(* A resume never skips what no run delivered, however often runs were      *)
(* killed or failed (batchEntryStart, claimForEntry, adoptResume), while    *)
(* the journal is trusted.                                                  *)
ResumeSkipsOnlySeen == [][Trusted => SkipsOnlySeen]_vars

(* "so a kill can only redo, never skip, unproven work" (main.go,           *)
(* batchEntryStart), with no bound on what is replaced under the journal.   *)
KillsOnlyRedo == [][SkipsOnlySeen]_vars

(* A skipped target holds, at that moment, only bytes delivered before      *)
(* under the same run options, whatever was killed, replaced, restored or   *)
(* not journaled since (runMultiTarget's skip of a complete entry).         *)
SkipVouches ==
  [][Trusted /\ pc = "entry" /\ pc' # "adopt" /\ kills' = kills =>
       BytesSeen(file, disk[file].bytes, man.run)]_vars

(* "known states, at most one active" (checkpoint.go, validateBatchTargets):*)
(* a journal this program writes is one it can read back.                   *)
JournalReadable == journal # NoJournal => Readable(journal)

=============================================================================
