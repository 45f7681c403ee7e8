-------------------------------- MODULE Walk --------------------------------
(* A sweep of a directory tree (detector/walk.go) that carves what it finds *)
(* (detector/carve.go) and keeps silent about the findings of a reviewed    *)
(* baseline (detector/baseline.go).  The recursion is a stack of directory  *)
(* frames; the pipeline over one file is the sequence of its hits, carved   *)
(* one after the other before the sweep hears of them.                      *)
EXTENDS Naturals, Sequences, FiniteSets

CONSTANTS
  Top,         \* the path swept
  Mode,        \* path -> "dir", "file", "link" or "special"
  Child,       \* directory -> the sequence of its entries, as ReadDir sorts them
  LinkTo,      \* link -> the path it evaluates to, or a path of no Mode
  FollowSymlinks,   \* whether links are followed
  Depths,      \* what MaxDepth may be; 0 is unlimited
  Own,         \* the carve directory, what is in it, and the case log
  Shut,        \* directories and files that cannot be opened
  Breaks,      \* files whose scan ends in an error
  Hits,        \* file -> the sequence of fingerprints of its hits
  Baseline,    \* fingerprints of the reviewed sweep
  Salvaged     \* fingerprints whose carve yields database pages

Paths == DOMAIN Mode
Dirs  == {p \in Paths : Mode[p] = "dir"}
Plain == {p \in Paths : Mode[p] = "file"}
None  == <<>>

(* Directories make no circle: of any set of them, one is an entry of none   *)
(* in the set. Only a link leads back.                                      *)
ASSUME DirAssumption ==
  /\ Top \in Paths /\ \A d \in Dirs : Child[d] \in Seq(Paths)
  /\ \A S \in (SUBSET Dirs) \ {{}} :
       \E d \in S : \A p \in S : \A i \in DOMAIN Child[p] : Child[p][i] # d

ASSUME SizesAssumption == IsFiniteSet(Paths) /\ Depths \subseteq Nat

VARIABLES
  maxDepth,  \* MaxDepth of this sweep
  pc,        \* "start", "sweep", "scan", "done", "stopped" or "refused"
  stack,     \* directories being read: [dir, next, depth]
  visited,   \* directories a link may not lead to again
  job,       \* the file being scanned, or None
  seqBase,   \* carve numbers used up, as the sweep counts them
  stats,     \* files, detections, suppressed, skipped, failed
  canceled,
  bin, salvage, sidecar,   \* carve directory: number -> hit
  told,      \* hits reported: [hit, no], no = 0 when the carve failed
  scanned,   \* history: files whose scan ran
  cycles     \* history: directories a link to which was refused

sweepVars == <<maxDepth, pc, stack, visited, job, seqBase, stats, canceled, bin, salvage, sidecar,
               told, scanned, cycles>>
carves == <<bin, salvage, sidecar>>
count  == <<job, seqBase, told, scanned>>
fixed  == <<canceled, maxDepth>>

NoStats == [files |-> 0, detections |-> 0, suppressed |-> 0, skipped |-> 0, failed |-> 0]

Bump(field) == stats' = [stats EXCEPT ![field] = @ + 1]

IsOwnOutput(p) == p \in Own

-----------------------------------------------------------------------------
(* scanFile and recurse, as what the caller does next.                      *)

(* An unopenable file lands in Failed without counting as scanned.          *)
ScanFile(f) ==
  IF f \in Shut
  THEN /\ Bump("failed") /\ pc' = "sweep"
       /\ UNCHANGED <<job, scanned>>
  ELSE /\ Bump("files")
       /\ pc' = "scan"
       /\ job' = [file |-> f, hit |-> 1, seq |-> seqBase, n |-> 0, step |-> "bin", no |-> 0]
       /\ scanned' = scanned \cup {f}

(* The stack after the entry just taken, and then the directory d.          *)
Advanced == IF stack = <<>> THEN <<>> ELSE [stack EXCEPT ![Len(stack)].next = @ + 1]

Recurse(d, depth) ==
  IF d \in Shut
  THEN Bump("failed") /\ stack' = Advanced
  ELSE /\ stack' = Append(Advanced, [dir |-> d, next |-> 1, depth |-> depth])
       /\ UNCHANGED stats

-----------------------------------------------------------------------------
(* Walk: the root.                                                          *)

Resolved == IF Mode[Top] = "link" THEN LinkTo[Top] ELSE Top

Start ==
  /\ pc = "start"
  /\ IF Mode[Top] = "link" /\ (~FollowSymlinks \/ Resolved \notin Paths)
     THEN pc' = "refused" /\ UNCHANGED <<stack, visited, stats, job, scanned>>
     ELSE IF Resolved \notin Dirs
     THEN ScanFile(Resolved) /\ UNCHANGED <<stack, visited>>
     ELSE /\ pc' = "sweep"
          /\ visited' = IF FollowSymlinks THEN {Resolved} ELSE {}
          /\ Recurse(Resolved, 0)
          /\ UNCHANGED <<job, scanned>>
  /\ UNCHANGED <<seqBase, fixed, carves, told, cycles>>

-----------------------------------------------------------------------------
(* recurse: one entry of the directory being read.                          *)

frame == stack[Len(stack)]
child == Child[frame.dir][frame.next]
depth == frame.depth + 1

Reading == pc = "sweep" /\ ~canceled /\ stack # <<>>
AtEntry == Reading /\ frame.next <= Len(Child[frame.dir])
\* Faulty: the deepest level is refused.
TooDeepOffByOne == maxDepth > 0 /\ depth >= maxDepth

TooDeep == maxDepth > 0 /\ depth > maxDepth

SkipEntry ==
  /\ AtEntry
  /\ \/ TooDeep
     \/ IsOwnOutput(child)
     \/ Mode[child] = "special"
     \/ Mode[child] = "link" /\ ~FollowSymlinks
  /\ Bump("skipped") /\ stack' = Advanced
  /\ UNCHANGED <<pc, visited, fixed, carves, count, cycles>>

Enterable == AtEntry /\ ~TooDeep /\ ~IsOwnOutput(child)

EnterDir ==
  /\ Enterable /\ Mode[child] = "dir"
  /\ Recurse(child, depth)
  /\ UNCHANGED <<pc, visited, fixed, carves, count, cycles>>

EnterFile ==
  /\ Enterable /\ Mode[child] = "file"
  /\ ScanFile(child)
  /\ stack' = Advanced
  /\ UNCHANGED <<visited, seqBase, fixed, carves, told, cycles>>

(* followLink: the target decides, and a directory is entered once.         *)
target == LinkTo[child]

\* Faulty: a directory entered by a link may be entered by it again.
MarkedNot == visited

Marked == visited \cup {target}

FollowLink ==
  /\ Enterable /\ Mode[child] = "link" /\ FollowSymlinks
  /\ \/ /\ target \notin Paths
        /\ Bump("failed") /\ stack' = Advanced
        /\ UNCHANGED <<pc, visited, job, scanned, cycles>>
     \/ /\ target \in Paths
        /\ IsOwnOutput(target) \/ Mode[target] = "special"
        /\ Bump("skipped") /\ stack' = Advanced
        /\ UNCHANGED <<pc, visited, job, scanned, cycles>>
     \/ /\ target \in visited \ Own
        /\ Bump("failed") /\ stack' = Advanced
        /\ cycles' = cycles \cup {target}
        /\ UNCHANGED <<pc, visited, job, scanned>>
     \/ /\ target \in Dirs \ (visited \cup Own)
        /\ visited' = Marked
        /\ Recurse(target, depth)
        /\ UNCHANGED <<pc, job, scanned, cycles>>
     \/ /\ target \in Plain \ Own
        /\ ScanFile(target) /\ stack' = Advanced
        /\ UNCHANGED <<visited, cycles>>
  /\ UNCHANGED <<seqBase, fixed, carves, told>>

Return ==
  /\ Reading /\ frame.next > Len(Child[frame.dir])
  /\ stack' = SubSeq(stack, 1, Len(stack) - 1)
  /\ UNCHANGED <<pc, visited, stats, fixed, carves, count, cycles>>

Finish ==
  /\ pc = "sweep" /\ stack = <<>>
  /\ pc' = "done"
  /\ UNCHANGED <<stack, visited, stats, fixed, carves, count, cycles>>

-----------------------------------------------------------------------------
(* The pipeline over one file: carveDetection, then the sweep's callback.   *)

AtHit == pc = "scan" /\ job.hit <= Len(Hits[job.file])
hit   == <<job.file, job.hit>>
print == Hits[job.file][job.hit]
no    == job.seq + job.hit

(* commitTempFile: staged bytes replace the file of that name, or an error  *)
(* leaves the old file, or none at all.                                     *)
Commit(file, f) == f' = [i \in DOMAIN f \cup {file} |-> IF i = file THEN hit ELSE f[i]]
CommitFails(file, f) == f' = f \/ f' = [i \in DOMAIN f \ {file} |-> f[i]]
At(f, file) == IF file \in DOMAIN f THEN f[file] ELSE None

Step(step) == job' = [job EXCEPT !.step = step]

CarveBin ==
  /\ AtHit /\ job.step = "bin"
  /\ \/ /\ Commit(no, bin)
        /\ job' = [job EXCEPT !.step = "salvage", !.no = no]
     \/ CommitFails(no, bin) /\ job' = [job EXCEPT !.step = "tell", !.no = 0]
  /\ UNCHANGED <<pc, stack, visited, seqBase, stats, fixed, salvage, sidecar, told, scanned, cycles>>

CarveSalvage ==
  /\ AtHit /\ job.step = "salvage"
  /\ \/ print \in Salvaged /\ Commit(no, salvage)
     \/ UNCHANGED salvage
  /\ Step("sidecar")
  /\ UNCHANGED <<pc, stack, visited, seqBase, stats, fixed, bin, sidecar, told, scanned, cycles>>

CarveSidecar ==
  /\ AtHit /\ job.step = "sidecar"
  /\ Commit(no, sidecar) \/ CommitFails(no, sidecar)
  /\ Step("tell")
  /\ UNCHANGED <<pc, stack, visited, seqBase, stats, fixed, bin, salvage, told, scanned, cycles>>

(* A fingerprint of the baseline is counted and kept silent.                *)
Suppressed == print \in Baseline

Tell ==
  /\ AtHit /\ job.step = "tell"
  /\ IF Suppressed
     THEN /\ Bump("suppressed")
          /\ job' = [job EXCEPT !.hit = @ + 1, !.step = "bin"]
          /\ UNCHANGED told
     ELSE /\ told' = told \cup {[hit |-> hit, no |-> job.no]}
          /\ job' = [job EXCEPT !.hit = @ + 1, !.step = "bin", !.n = @ + 1]
          /\ UNCHANGED stats
  /\ UNCHANGED <<pc, stack, visited, seqBase, fixed, carves, scanned, cycles>>

\* Faulty: every file numbers its carves from the same base.
NextBaseSame == seqBase

(* The numbers the next file's carves start from.                           *)
NextBase == seqBase + job.n

(* The scan returns: all hits told, or cut short by the context; an error   *)
(* of this file alone is one failure among many.                            *)
EndScan ==
  /\ pc = "scan" /\ job.step = "bin"
  /\ job.hit > Len(Hits[job.file]) \/ canceled
  /\ seqBase' = NextBase
  /\ job' = None
  /\ LET s == [stats EXCEPT !.detections = @ + job.n] IN
       IF job.file \notin Breaks /\ job.hit > Len(Hits[job.file])
       THEN stats' = s /\ pc' = "sweep"
       ELSE IF canceled
       THEN stats' = s /\ pc' = "stopped"
       ELSE stats' = [s EXCEPT !.failed = @ + 1] /\ pc' = "sweep"
  /\ UNCHANGED <<stack, visited, fixed, carves, told, scanned, cycles>>

-----------------------------------------------------------------------------
(* The context: checked before every directory, entry and file.             *)

Cancel ==
  /\ ~canceled /\ pc \in {"sweep", "scan"}
  /\ canceled' = TRUE
  /\ UNCHANGED <<maxDepth, pc, stack, visited, stats, carves, count, cycles>>

Stop ==
  /\ pc = "sweep" /\ canceled /\ stack # <<>>
  /\ \/ frame.next <= Len(Child[frame.dir]) /\ pc' = "stopped" /\ UNCHANGED stack
     \/ /\ frame.next > Len(Child[frame.dir])
        /\ stack' = SubSeq(stack, 1, Len(stack) - 1) /\ UNCHANGED pc
  /\ UNCHANGED <<visited, stats, fixed, carves, count, cycles>>

SweepInit ==
  /\ maxDepth \in Depths
  /\ pc = "start" /\ stack = <<>> /\ visited = {} /\ job = None
  /\ seqBase = 0 /\ stats = NoStats /\ canceled = FALSE
  /\ bin = <<>> /\ salvage = <<>> /\ sidecar = <<>>
  /\ told = {} /\ scanned = {} /\ cycles = {}

Sweep == Start \/ SkipEntry \/ EnterDir \/ EnterFile \/ FollowLink \/ Return \/ Finish \/ Stop
Pipeline == CarveBin \/ CarveSalvage \/ CarveSidecar \/ Tell \/ EndScan
SweepNext == Sweep \/ Pipeline \/ Cancel

SweepSpec == SweepInit /\ [][SweepNext]_sweepVars

-----------------------------------------------------------------------------
(* What the policy says is in the tree: files, by the directories and links *)
(* that lead to them within the depth, and not through what is refused.     *)

Below(dirs) == (UNION {{Child[x][i] : i \in DOMAIN Child[x]} : x \in dirs}) \ Own
Meant(dirs) == {IF Mode[p] = "link" THEN LinkTo[p] ELSE p :
                  p \in {q \in Below(dirs) : Mode[q] # "link" \/ FollowSymlinks}} \ Own
Levels == IF maxDepth > 0 THEN maxDepth ELSE Cardinality(Paths)
Level[d \in 0 .. Levels - 1] ==   \* directories whose entries are at depth d + 1
  IF d = 0 THEN {Resolved}
  ELSE (Meant(Level[d - 1]) \cap Dirs) \ (Shut \cup IF maxDepth > 0 THEN cycles ELSE {})
Descended == UNION {Level[d] : d \in 0 .. Levels - 1}
LedTo == Meant(Descended) \cap Plain

(* A sweep that ends has scanned every file its policy leads to, or could   *)
(* not open it: a revisited or looping link hides nothing but the directory *)
(* whose refusal is counted as a failure.                                   *)
SweepCovers ==
  pc = "done" /\ Resolved \in Dirs \ Shut
    => LedTo \subseteq scanned \cup Shut

(* No descent is endless: the stack holds a directory once, and once more   *)
(* for each directory that a link was followed to, which happens but once.  *)
DescentEnds ==
  \A d \in Dirs : Cardinality({i \in DOMAIN stack : stack[i].dir = d})
                   <= IF FollowSymlinks THEN Cardinality(visited) ELSE 1

(* A reported carve holds the hit it was reported with, and its sidecar, if *)
(* any, describes it: carve numbers never meet, until a finding has been    *)
(* suppressed.                                                              *)
CarvesDiffer ==
  \A t \in told : t.no # 0 =>
    \/ At(bin, t.no) = t.hit /\ At(sidecar, t.no) \in {None, t.hit}
    \/ stats.suppressed > 0

(* The comment of runMultiTarget on carve numbers, which it says the sweep  *)
(* threads the same way: no carve that was reported gives way to another    *)
(* hit's.                                                                   *)
ReportedCarveKept ==
  \A t \in told : t.no # 0 => At(bin, t.no) \in {t.hit, None}
=============================================================================
