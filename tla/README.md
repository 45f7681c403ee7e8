# findbtc, modelled and checked

findbtc scans a file, a device, an image or a directory tree for the traces of
cryptocurrency wallets. It looks into archives it meets on the way, keeps a
checkpoint journal so that a killed scan can go on, and promises that a scan
which ends with success has read everything. This directory is the TLA+ model
of that program: the modules, the TLC configurations that check them on small
instances, and proofs, checked by TLAPS, that hold for every input.

Contents: [the system](#the-system), [hard behaviours](#what-is-hard),
[modules](#the-modules), [from code to model](#from-code-to-model),
[runs](#the-runs), [fairness](#fairness), [disagreements
found](#where-the-code-and-its-comments-differ), [proofs](#the-proofs),
[what is not modelled](#what-is-not-modelled), [plan](#the-plan).

## The system

Paths are relative to `src/`. A *target* is anything read as a stream of bytes:
the seed (the *root*: a file, a device, an image, a list of ranges) or an
archive member found inside another target (a *nested* target).

| Component | State it keeps | Operations |
|---|---|---|
| Scan pipeline: `detector.runPipeline`, `scanBlocks`, `scanZipFiles`, `scanGzipFiles`, `detectWallets` | five channels, a pool of 20 blocks, the reader's place in each open target, the two stages' counts of EOFs owed, the zip stage's candidates | read a target block by block; pass blocks down; publish nested targets back to the reader; swallow or forward an EOF; barrier drain; return an outcome |
| Publication gate and covered bank: `gateSet` | outstanding publications, skips, `covered` members, poisoned parents, spans | admit, refuse, skip on policy, bank, snapshot |
| Archive recovery: `zip_scanner.go`, `zip_recover.go`, `gzip_scanner.go` | candidates per stage, published byte ranges | reveal members of an intact archive, hold back local headers, flush the unclaimed ones at EOF |
| Journal and resume: `journalCtl`, `checkpoint.go`, `proof.go`, `identity.go`, `adoptResume` | the journal file, the running digest, the last filed offset | file a point (mid-root, on an error, on completion), verify its content proof, adopt its offset and members |
| Range scans: `ScanRangesWithOptions`, `readRangeResume`, `verifyRangePlan`, `fsscan.go` | the list of ranges, one proof per completed range | as above, over disjoint extents |
| Batch runs: `batch.go`, `runMultiTarget` in `main.go` | a manifest with one entry per target | start, skip, resume, record and settle an entry |
| Case log: `caselog.go`, `verify.go` | an append-only log of attempts and hashes | record an attempt; verify a finding later |
| Directory sweeps: `walk.go`, `baseline.go` | carve numbers, the baseline of known findings | visit files, suppress known findings |
| Carving: `carve.go`, `salvage.go` | staging file, carve number | write a carve next to a hit, reassemble fragments |
| Standard input: `stdin.go` | a bounded spill file | spill, scan, remove |
| Formats: `ewf.go`, `fs*.go`, `partition.go`, `patch.go` | tables read from the input | random access over a decoded format |
| Detectors: `bip39.go`, `keys.go`, `secrets.go` and others | none | find matches in one block |
| Follow-up tools: `report.go`, `advise.go`, `watch.go`, `hashes.go` | none | transform finished output |

How they interact. `main` opens a source and calls the detector with callbacks
for detections and progress. `runPipeline` starts four goroutines and waits in
one `select`. Blocks flow reader → zip → gzip → wallet through channels of 30
and come back through `emptyBlocks`; nested targets flow from the two archive
stages back to the reader through `scanTargets`, which the gate keeps from
filling. The reader, and after it `runPipeline` itself, write the journal. The
next process reads that journal and calls the detector again.

What makes each part correct:

* Pipeline: a scan that returns nil has read everything the input obliged it
  to; the EOF that ends the scan is the last thing in the pipeline; every scan
  returns, and no goroutine outlives it; no block leaks.
* Gate: a stage never blocks on a publication; a refusal is never mistaken for
  completion; nothing refused lies behind the point or the bank that a retry
  starts from.
* Recovery: a stored member is scanned once, through its archive or its header.
* Journal: a point never passes what a kill would lose; retries converge.
* Ranges, batch, case log: the same promises per range, per entry, per attempt.

## What is hard

* **EOF accounting.** One sentinel stands for the end of every target. Both
  archive stages count the targets they publish and swallow one EOF for each,
  and the stage that swallows is usually not the one the EOF belongs to. An
  off-by-one ends the scan early or never.
* **A cycle of bounded channels.** Stages publish to the reader that feeds
  them, with a send that is in no `select`; only the gate's count keeps it
  from blocking.
* **Drains inside a read.** At a checkpoint the reader suspends the root, reads
  the whole backlog of nested targets, sends a barrier, waits for its
  acknowledgement, and looks at four queue lengths one after the other.
* **Crashes.** A kill may fall between any two steps; the next run trusts a
  journal written at some earlier one, over files that may have changed.
* **Partial failure.** Bad sectors, broken streams, members that do not open
  and members refused by the gate, a disk that refuses the journal, each with
  its own effect on the outcome, the point filed and the members banked.
* **Cancellation** at any moment, also between an acknowledgement and the
  write of the point.
* **Cuts.** A target is read in blocks that overlap; a match over a cut is seen
  twice, a word at an edge is seen in part, a skipped range leaves a gap.
* **Stale metadata.** Deleted entries of a volume in use name clusters, records
  and name slots that belong to something else by now.
* **Numbers that must stay apart**: carves over files, targets and suppressed
  findings.

Each of these is listed, at its line, under "hazards" in `PROJECT.json`, with
the property that watches it.

## The modules

| Module | What it is |
|---|---|
| `Pipeline` | one scan of one root: the four goroutines, the channels, the gate, the journal and `runPipeline` |
| `PipelineProps` | what one scan promises: types, safety, action properties, liveness, the parts of the inductive invariant |
| `ScanContract` | the abstract specification of a scan: blocks are reported once, in an order that never runs ahead of what reveals them; completion means all due was reported; nothing is reported after success or failure |
| `Resume` | a sequence of runs over the same input: kill anywhere, retry after an error, adopt the journal |
| `Batch` | a checkpointed run over several targets: the manifest, the journal file, kills, resumes, replaced files, refused writes |
| `RangeScan` | a list of ranges scanned one after the other under one journal, resumed over a volume that changes |
| `CoverBank` | members banked with the span of root bytes they come from, and deferred by later runs over a root that changes |
| `ReadLoop` | the inner read loop: short reads, retries, gaps, overlap; the case log's record and its verification |
| `Detector` | what the blocks of a target report: the overlap, the trimmed edges, each match exactly once |
| `Piped` | a scan of standard input through a capped spill file, in patch mode with findings held back |
| `Walk` | a directory sweep with links, carves and a baseline |
| `PatchLines` | the parser of `git log -p`, against what git writes |
| `FatVolume`, `ExtVolume`, `NtfsVolume` | a volume that a driver writes to, and what the reader makes of it at any moment; `Extents` has the ranges they share, `Volumes` what is promised of more than one kind |
| `ScanInputs` | input trees for scans |
| `MCInputs`, `MCResume`, `MCBatch` | instances of the scan, the read loop and the batch for TLC |
| `MCScans`, `MCSources` | the smaller components, each on its own instance, checked in one run: a behaviour is one of them, and `part` says which |
| `PipelineProofs`, `FrontierProofs` | theorems of `Pipeline`: what the stages keep, that completion is reading, that a filed point strands nothing, in one run and over many, and that it implements `ScanContract` |
| `ReadLoopProofs`, `BatchProofs` | theorems of the module each is named after |
| `SourceProofs` | theorems of `CoverBank` and `Walk`: what a later run may leave out; what a sweep descends into, covers and carves |
| `VolumeProofs` | theorems of `Volumes`: what entries, free ranges and deleted files are told to be, and what the volume holds |
| `InputProofs` | theorems of the forms of input and of the matches: `RangeScan`, `PatchLines`, `Piped` and `Detector` |
| `Recursion` | when a function defined by recursion on a number exists, and is the only one: what the proofs unfold |

`Pipeline` is shown to implement `ScanContract` by the property
`KeepsContract`, an `INSTANCE` of it under a refinement mapping: `told` is the
set of blocks the wallet stage has reported, `due` what the input obliges this
run to read.

How they fit together. `Pipeline` takes from `ReadLoop` that a block is read
or skipped as a whole and that blocks hold the bytes at their offsets, and from
`Detector` that a block delivered is its findings reported. Its `covered` set
is that of `CoverBank` for a root that does not change. `Batch` and `RangeScan` take from
`Pipeline` that a point passes nothing undelivered (`FrontierProven`) and that
a scan that completes has read everything (`CompleteMeansRead`); a pipeline is
four steps in them. The volumes give `RangeScan` its lists. `Piped` and `Walk` run
a pipeline per file, of which they see the findings and the outcome.

## From code to model

### One scan: `Pipeline` and `Resume`

**The input is data the scan discovers.** The constants describe a tree of
targets: where a target lies (`Source`), which stage discovers it (`Kind`), the
block that reveals it (`FoundAt`), the bytes it spans (`Extent`), and what goes
wrong with it (`Bad` sectors, `Cut` streams, `Unopenable`, `TooBig`, depth). What
the detectors find in a block is abstracted to the block itself: `delivered` is
the set of blocks whose findings have been reported.

**One action is one uninterrupted stretch of a goroutine** between two
operations another goroutine could observe: a channel operation, an access to
the gate, the closing look at the context.

| Goroutine | Place | Actions |
|---|---|---|
| `scanBlocks` / `readTarget` / `pushEOF` / `drainFrontier` | `rpc` | `ReceiveTarget`, `OpenTarget`, `ReadBlock`, `SendBlock`, `DrainDone`, `SendBarrier`, `AwaitAck`, `CheckQuiet`, `FileFrontier`, `BankTarget`, `PushEOF`, `ReportRoot`, `SendFinal`, `ReaderExit` |
| `scanZipFiles` | `zpc` | `ZipReceive`, `ZipOffer`, `ZipPublish`, `ZipSettle`, `ZipForward`, `ZipExit` |
| `scanGzipFiles` | `gpc` | `GzipReceive`, `GzipOffer`, `GzipPublish`, `GzipSettle`, `GzipForward`, `GzipExit` |
| `detectWallets` | `wpc` | `WalletReceive`, `WalletReport`, `WalletExit` |
| `runPipeline` | `mpc` | `MainSignal`, `MainCancel`, `MainRoot`, `MainFail`, `MainComplete`; `Cancel` is the caller's |

The other variables are the code's own, under its names where TLA+ allows:
`scanTargets`, the three queues, `pool` (the blocks in `emptyBlocks`), `stack`
(the calls of `readTarget` under way: a nested target read in the root's drain
suspends the root), `digestLen`, `since` (blocks since the last checkpoint),
`openedZ`/`openedG` (the stages' EOF counts), `pending` (zip candidates),
`published` (claimed ranges), the gate's `outstanding`, `refused`,
`deferredSkipped`, `covered`, `poisoned`, the one-shot channels `acked`,
`rootDone`, `final`, `signaled`, and the file `journal`. `admitted` and
`delivered` are history: no action reads them.

Abstractions of `Pipeline`, all of them:

* Blocks are read whole (`ReadLoop` has their parts). The overlap of two blocks is
  shorter than a block, so a resumed read backs up by one (`rewindOffset`). Retries of
  a read end in one of two ways: the block is read, or it is `Bad` and skipped.
* The five channels are sequences or counters bounded by the capacities.
  `emptyBlocks` never fills, so only the taking of a block waits.
* A journal point is its offset, the length its content proof covers, and the
  banked members. A proof over a span that holds a skipped sector never
  verifies, since the digest leaves that sector out. The file is replaced
  atomically, as the code's rename does.
* In `CheckQuiet` the four queue lengths are read at once. By then the barrier,
  the last item the reader sent, has passed every queue and every hand, so that
  nothing changes between the looks.
* At an error return the gate's state is read at one moment; a stage still
  running can only add to it.
* Archives and entries inside a gzip stream are left out (its `ReadAt` gives
  no random access): `InputAssumption` says so, and TLC evaluates it. `ReadLoop`
  has the read of such an entry, and the panic it ends in.

### A batch: `Batch`

`runMultiTarget` is a process at a place `pc`, over the target `at`. `StartRun`
is `openBatchManifest`: a fresh manifest, or the journal's when its run options
match; it refuses a journal that is not `Readable`. A target then goes through
`SkipEntry` (complete, and its digest verified again by `VerifyBatchDigest`),
`ActivateEntry` or `ScanMissing`; through `Adopt` (`adoptResume` on the claim the
journal makes for this entry), `ReadBlock`, `FileFrontier`, and one of `ScanEnds`
and `ScanFails`; and through `RecordOutcome`, which settles the entry and
adopts the filed point. `Kill` and `Edit` come between any two of them. A write of the
journal fills every active entry, as the code's does, and happens or is
refused by the disk (`Persist`). A file is its blocks' versions, a stat that a
copy may restore, and an identity that it may not; a hash of a span is the sequence
of its versions, so that hashes agree exactly when the bytes do.

### A list of ranges: `RangeScan`

`StartRun` is `readRangeResume` and `verifyRangePlan`: which ranges are verified
by re-reading, where the first unverified one starts, and what its
digest is seeded with (`ActivePlan`). `SkipRange`, `OpenRange`, `ReadBlock`,
`FileFrontier`, `RootEnds`, `RangeDone`, `RangeFails`, `Finish` are the loop of
`ScanRangesWithOptions` and the pipeline over one range. `Edit` changes bytes or the
list, which is worked out anew from the volume at each start.

### The covered bank: `CoverBank`

`Meet`, `Defer`, `Read` and `Refuse` are what happens to a member that the scan
comes across (`deferCovered`, `notePublish`, `noteRefused`); `File` and `Complete`
file `snapshotCovered` with the span of each member (`Provenance`), `StartRun` verifies
the filed proof and spans (`filterCoveredBySpans`). Journals of an older or
another program are initial states.

### Reading and reporting: `ReadLoop`, `Detector`

A cell is a fixed part of a block. `ReadBlock` is one turn of `readTarget`'s
loop: the read that fills what it can, the retries within, then `Deliver` of a block
behind the tail of the one before, or `SkipRange` over cells that do not read.
The recorder hashes what the root's reads deliver; `Record` is `caseRecorder.finish`
with each status, `verifyRecord` the later check. After the root come a target
stored in it, a gzip stream and an entry inside that stream.

`Detector` starts from blocks so cut, with short reads and gaps anywhere, and a
text of which only what the matchers tell apart is kept: letters or not. The families
stand for how the code's detectors look at a block: raw bytes anywhere (needle,
keystore, PEM header) or runs of letters left by `trimEdgeFragments` (keys, tokens,
words); one word (Electrum seeds) or several (BIP39, SLIP39), with the shorter
suppressed within the longer. `detectWallets` reports a match that ends past the
block's overlap.

### What finds and attributes: the rest

`Piped`: `SpillRead` is one read of `spillBounded`, `PipelineEnds`, `Reread` and `Deliver`
are `scanPatch`. `Walk`: a stack of directory frames for the recursion; `CarveBin`,
`CarveSalvage` and `CarveSidecar` are the three writes of `carveDetection`, each a staged file
and a rename that may fail; `Tell` is what the sweep hears, or the baseline keeps
from it. `PatchLines`: each action writes one line that git may write there and has
`attributeLine` read it. The volumes: actions are the driver's (external, and
as free as the format lets it be: any fit, any free block, names reused); `Entries`,
`Unallocated` and `deletedRanges` are operators over the disk, evaluated in every
state, so that a reader may look at any moment. Sizes count half clusters (FAT) and half
blocks (ext), and whole clusters for NTFS.

## The runs

| Run | Question | Outcome |
|---|---|---|
| `inputs` | six inputs, below: is a member scanned once (without a journal), does every step implement `ScanContract`; and `ReadLoop`: what was read is hashed once, a complete record verifies while the media is unchanged and not otherwise, blocks hold the bytes at their offsets | holds |
| `retries` | the congested tree, killed or cancelled once anywhere, retried after an error or a cancellation, under fairness: types, do publications fit, is the last EOF last, is an acknowledgement always forthcoming, is no block leaked, is everything read when a scan completes, does a point pass nothing undelivered, does the error path rewind far enough, is nothing lost over the runs; does every scan return, every goroutine end, every drain go on, and do the retries converge | holds |
| `batch` | two targets, three processes, a kill, a replaced file, a refused write: what is skipped or passed over was delivered in the version the file holds, under the same options; a digest filed is of bytes delivered | holds |
| `scans` | `RangeScan`, `Detector`, `Piped`: the list is covered after any resume, its proofs follow its ranges; matches are reported once and are there; the pipe is whole and what is delivered matches the outcome | holds |
| `sources` | `CoverBank`, `FatVolume`, `ExtVolume`, `NtfsVolume`, `Walk`, `PatchLines`: a deferred member was read; entries, names and free ranges are true of the volume; the sweep ends and covers; carves differ; lines are attributed | holds |
| `omitted`, `unreadable`, `restored`, `boundary`, `carves`, `fragments`, `kibiblocks` | seven statements of the code's comments and docs | violated, see below |

`inputs` takes its trees from `ScanInputs`. `tree`: a root of two blocks, an
archive with two members, gzip streams at depth 1 and 2, and an entry without a
directory at depth 2; fresh, or from each of four earlier journals. `torn` splits
an archive so that a local header precedes its directory by a block. `orphan` has two
entries with no directory and an archive behind them, flushed past the cap. `broken`
is the same with a root that breaks off. `faulty` has a bad sector, a broken stream,
a member over the inflation cap, one that does not open, ones too deep, and a short last
block. `deep` has an entry without a directory that is itself an archive with two members,
where the gate admits one. `KeepsContract` is checked on all but `tree`, which has the most states;
it says of completion what `CompleteMeansRead` says, so that every input is covered by one of the two.

**Bounds of one scan.** Queues hold one item and the pool two blocks (30 and 20
in the code): fewer slots make more blocking, and every place where a goroutine may
wait is reached. `scanTargets` holds two targets, or one when congested, and the gate
admits as many (2^20 and half of it in the code), so that both sides of the cap
occur. A checkpoint falls due after every block of the root (256 in the code), so
that drains happen with every backlog. `MaxDepth` is 3, or 1 where the depth limit is
to be met (8 in the code). `MaxKills` bounds the kills, at 1: a kill restarts from
a journal that the run without a kill may have left too. Two root blocks are the
least that put bytes before and after a point.

**Bounds of a batch.** Three processes: one that leaves a journal, one that adopts
and rewrites it, one that trusts the result. One kill, one edit, one refused
write (`MaxLost`). The properties say "while at most one file was replaced and at most one
write refused" (`Trusted`): beyond that they fail, and the code does. With two edits an
adopted offset beside a stale proof passes blocks over (`restored`); with several refused writes
a settled entry may adopt what an earlier run, under other options, left in the file. Symmetry over versions and options, which are only compared.

**Bounds of the others.** Four blocks and two ranges that overlap or
have a gap, or none; two kills. Three root blocks with a member over two, a child inside it
and a gzip stream; three runs. Fourteen cells in blocks of four, with one that never reads and
two that may not, at the edge and inside of blocks, and a short last block. Texts
of eight characters, all 256 of them, in blocks of four with an overlap of three, so that
every match lies before, over and after a cut. Pipes empty, below, at, one above and two above the
cap. Three FAT clusters and five slots with names of no, one and two long slots, three files
over time: slots and clusters are reused. Four ext blocks in two groups, two inodes.
Three NTFS records. A tree of two levels with links up, to itself, to a file, to nothing
and to the outputs. Nine lines of two commits.

Every property of a passing run has a mutant, a definition marked "Faulty" beside the
one it replaces (a gate that does not count, a swallow that is off by one, a snapshot
that ignores poisoned parents), under which the same run finds it violated.

## Fairness

`FairSpec` has weak fairness of each of the five goroutines: the Go scheduler
leaves no runnable goroutine out for ever, every channel operation that can
proceed proceeds in the end, and callbacks return (`doc.go` asks that of
callers). Nothing is fair that the code does not control: the caller need never
cancel. In `Resume` the caller also tries again after an error, which is what
the error message asks for, and after a cancellation; kills and cancellations are
bounded and not fair.

## Where the code and its comments differ

1. **Omitted for good** (`omitted`). A refusal at the gate's cap ends the scan with "retry
   to recover", and `detector.go:1994` promises that "a retry re-covers the omitted bytes instead
   of skipping them forever". Candidates flushed at the end of the root lie behind every point
   filed, so `gatePublishFlush` marks their refusal and the error path rewinds the journal. An entry
   that the flush admits and that is itself an archive has members too; these are published
   by `gatePublish`, whose refusal marks nothing. The frozen point then lies behind the entry's
   header, and no retry finds the entry again: the retry completes without them.
   `ErrorKeepsRefusedReachable` shows that this is the only gap. It came up when an inductive
   invariant for that property was sought: nothing in the code ties the flush to what follows it.
2. **A journal that cannot be read back** (`unreadable`). A run is killed in its
   second target after the first failed. The resume makes the first active
   again, while the second is still active in the manifest; the writer
   (`detector.go:1628`) files both, and after another kill `ReadCheckpoint` refuses the
   journal, whose entries must be "at most one active" (`checkpoint.go:210`).
3. **A phrase at the end of a block** (`boundary`). A phrase, key or token whose
   last letter is the last byte of a block is trimmed there as a possible fragment,
   and passed over in the next block as already reported (`detector.go:2651`, against the
   comment at 2643). So is one at the very end of a target whose size is a multiple of the
   block, since its last full block is not marked final. `FoundOnce` shows this is the only
   way to lose one that the block sees whole.
4. **A carve replaces a reported one** (`carves`). The sweep's base counts what it
   reported, not what the pipeline carved (`walk.go:217`); with a baseline that suppresses, the
   next file takes a number again. `runMultiTarget` counts the undelivered too, and says that
   the sweep does the same (`main.go:566-572`).
5. **The end of a file in pieces** (`fragments`). Blocks are sorted by place before
   the last range is cut to the file's size (`fsext.go:414`), so a last block that lies
   before others makes the cut take another block's end.
6. **Volumes with 1 KiB blocks** (`kibiblocks`). `s_first_data_block` is ignored when the
   bitmap is read (`fsext.go:489`); a live block is reported free and a free one is not scanned.
7. **A claim about other bytes** (`restored`). A retry whose file was replaced starts over but
   keeps the entry's filed claim and stores the new identity beside it (`main.go:771`); the claim's
   offset may come from a later run than its proof (`main.go:617-629`). When the old bytes come back
   and a kill falls there, the next resume verifies the old proof and starts at the newer
   offset, past blocks no run delivered. `main.go:707` says "a kill can only redo, never skip,
   unproven work".

Met while modelling, without a run of their own:

* A partial record is a mismatch: `verify.go:46` and `docs/FORENSICS.md:185` say that what was hashed,
  even in part, verifies by its hash, but a cancelled or failed scan records the hash of what it
  read with the size of the whole source, and `verifyRecord` hashes the whole
  (`UnchangedVerifies` in `ReadLoop`, checked by no run).
* With a journal, nested targets are read inside the root's drain and their EOFs flush
  the root's candidates early, so that a stored member may be read twice
  (against `zip_scanner.go:123`). Findings repeat; nothing is lost.
* Candidates that wait in the zip stage are passed by a mid-root point, and lost by
  a kill (`docs/FORENSICS.md:170` names it a known boundary).
* A drain cancelled after its acknowledgement files its point after the scan has
  returned (against `detector.go:1971`). `PipelineProps` states these two as
  `FrontierStrandsNothing` and `JournalSettledOnReturn`.
* A skipped sector is missing from the proof's digest but not from its length: no
  later run can verify it, and retries start over (against `docs/FORENSICS.md:150`).
* A block shorter than the overlap leaves the tail of an older block in place
  (`detector.go:2373`), hence the exception in `BlocksTrueUnlessShort`.
* The check for unordered runs at the trimmed edge (`bip39.go:544`) compares with 0
  after the trim has moved the start, and never applies.
* A live NTFS base record that a stale extension still names may be listed as deleted
  (`LiveStaysLive` in `NtfsVolume`), and a half overwritten long name may be accepted
  (`NoHalfName` in `FatVolume`). These two, `FrontierStrandsNothing` and `JournalSettledOnReturn` are
  stated and checked by no run.

## The proofs

Each proof module takes from its component nothing but the assumptions on its constants.
These are as weak as the code allows: `InputAssumption`, `SourceAssumption` and `CapacityAssumption` (any tree of
targets, any number of blocks, any capacities with `PubCap <= ChanCap`); `ReadAssumption`;
`ListAssumption`, `VersionsAssumption` and `SizeAssumption` of a batch (a list of targets, which may
repeat one; no version is the mark for "no digest"); `LayoutAssumption` (ranges that lie in the
file and are not empty: the code passes over empty ones); `DirAssumption` and `SizesAssumption` (directories
make no circle but through links, and are finitely many); `FatAssumption`, `ExtAssumption`, `NtfsAssumption` (volumes of any
size, any names); `TreeAssumption`, `ExtentAssumption`
and `InheritedAssumption` of the bank (members at depth one and two, filed pairs of any
span); `HunkAssumption`; numbers for `Piped`; `MatchAssumption` (texts are sequences, patterns are not
empty nor longer than the overlap). The bounds on runs, kills and edits are any. TLC evaluates
every named assumption in the runs.

| Theorem | Says | Inductive invariant |
|---|---|---|
| `TypeCorrect` | `Spec => []TypeOK` | `Shape` |
| `PublishersNeverBlock` | `Spec => []AdmittedSendFits` | `Shape /\ GateCounts` |
| `FirstEOFLast` | `Spec => []FirstEOFIsLast` | `Shape /\ EOFFacts` |
| `AckIsForthcoming` | `Spec => []AckNeverStrands` | `Shape /\ EOFFacts /\ WalletLeaves` |
| `BlocksReturn` | `Spec => []BlocksConserved` | `Shape` and the count itself |
| `CompletionIsReading` | `Spec => []CompleteMeansRead` | `Shape /\ EOFFacts /\ CompletionInv` |
| `CompletionReadsDue` | complete means that every target that is `Due` was read | the same, by induction over the tree |
| `PointsAreProven`, `ErrorsStrandNothing` | `Spec => []FrontierProven`, `Spec => []ErrorKeepsRefusedReachable` | the same and `FrontierInv` |
| `EveryRunIsSafe` | all of the above for `ResumeSpec`, over any number of runs | all of the above, `ScanInv` |
| `NothingIsLost` | `ResumeSpec => []NothingLostAcrossRuns`, when the first run finds no journal | `ScanInv /\ RunsInv` |
| `ScanKeepsContract` | `Spec => Contract!ContractSpec`, the refinement | `Shape`, `EOFFacts`, `CompletionInv` and `ContractInv` |
| `MembersReadOnce` | `Spec => []NoDoubleScan`, for a scan without a journal | the same and `SingleInv` |
| `BlocksAreTrue`, `HashIsOfTheRead`, `CompleteRecordsVerify` | `BlocksTrueUnlessShort`, `HashTiles`, `CompleteVerifies` of `ReadLoop` | `ReadInv` |
| `DigestsVouch`, `ResumesVouch`, `SkipsVouch` | `DigestsSeen`, `ResumeSkipsOnlySeen`, `SkipVouches` of `Batch` | `BatchInv` |
| `RangesProven`, `RangesCovered` | `ProofsFollowRanges`, `ListCovered` of `RangeScan` | `RangeInv` |
| `DeferredIsRead`, `FiledWhole` | `DeferredWasRead`, `FiledIsWhole` of `CoverBank` | `BankInv` |
| `DescentsEnd` | `DescentEnds` of `Walk` | `DescentInv` |
| `SweepsCover` | `SweepCovers` of `Walk` | `CoverInv` |
| `CarvesStayApart` | `CarvesDiffer` of `Walk` | `CarveInv` |
| `NtfsFilesExact`, `NtfsDeletedWhole` | `FilesExact`, `DeletedWhole` of `NtfsVolume` | `NtfsInv` |
| `ExtAscendingExact`, `ExtEntriesOwn` | `AscendingExact`, `EntriesOwn` of `ExtVolume` | `ExtInv` |
| `VolumesFreeExact` | `FreeExact` of `Volumes`: the free ranges of FAT and of ext | `FatInv`; for ext it is true of any bitmap |
| `FatLiveExact`, `FatDeletedHonest` | `LiveExact`, `DeletedHonest` of `FatVolume` | `FatInv /\ DirInv` |
| `FirstFitNamesOwn` | `NamesOwn` of `Volumes`, with a FAT driver that takes the first slots that suffice | `FatInv /\ DirInv`, `ExtInv` |
| `PatchAttributed` | `AttributionTrue` of `PatchLines` | `PatchInv` |
| `PipeIsWhole`, `SpillIsRemoved` | `WholePipeScanned`, `SpillRemoved` of `Piped` | `SpillInv` |
| `DeliveryIsTold` | `DeliveryMatchesOutcome` of `Piped` | `DeliveryInv` |
| `EveryReportIsTrue`, `EachIsFoundOnce` | `ReportsTrue`, `FoundOnce` of `Detector` | `MatchInv` |

### The stages: `PipelineProofs`

`Shape` is `TypeOK /\ ReaderShape /\ StageShape`. Types alone are not inductive:
that the stack holds at most two targets needs to know which places of the reader
go with which stack (`StackShape`), and that a drain never receives the root
(`RootFirst`); that a stage's counters stay natural numbers needs to know that it
holds an item whenever it settles one (`StageShape`).

`GateCounts` says that `outstanding` is the number of targets in `scanTargets`, in
a publisher's slot or received and not yet counted off. `AdmittedSendFits` follows
because the gate's cap does not exceed the channel's capacity.

`EOFFacts` is the argument for the one EOF that ends a scan. The code keeps two
counters, one per stage, and no stage sees the other's or the reader's.

* `Balance`: the EOFs in the pipeline and those still to be pushed are together
  one more than the two stages owe. The one is the seed's.
* `ZipFollowed`: data in the zip stage's reach is followed by an EOF, queued or
  owed by the reader's stack. So when the stage sends an EOF on and nothing is left
  to read, its queue is empty.
* `GzipFollowed`: the gzip stage owes every EOF in its reach, or there is one
  more than it owes, it is the last in the queue, and nothing is left upstream.
  The zip stage sends an EOF on only when it owes none, so `Balance` leaves no
  third possibility.
* `WalletFollowed`: an EOF past the gzip stage is alone and last, and everything
  upstream is empty. `FirstEOFIsLast` is this part read at `signaled`.

Each part is needed for the next to be kept: a count alone would let an EOF
overtake the blocks of another target. The proof has one lemma per goroutine and
one step per action; the lemmas on `NEnds` (the number of EOFs in a queue after
an append or a receive) and on the end of a queue come first. `WalletLeaves` adds
that the wallet stage goes away only on that EOF or when the context is done; as
the root's EOF is pushed after its drain, the stage is there to acknowledge.

`BlocksReturn` counts the blocks in each queue the same way: every path of the
reader that takes a block and does not send it gives it back.

### Completion is reading: `PipelineProofs`

`CompletionInv` follows a block, and a member it reveals, from the medium to the report.
`Carried`: a block that is due of a target taken on has been reported or is at one
of the places between (`ToRead`, `BeforeZip`, `BeforeGzip`, `OnItsWay`). `Offered`: a member owed
by a target taken on is taken on, refused, or has still to pass the stage of its
kind. `Known`: what a stage reads, banks or claims was taken on. `StageEnds`: a stage leaves
nothing unoffered between two items, and candidates wait only while an EOF is still to
come. `Past`: a read is not behind its start. `RootInv`: the root's read has found no cut, or `rootErr`
knows. `Settled`: a complete outcome has all of that behind it. With `FirstEOFIsLast` nothing is on its way at
`signaled`, so `Carried` and `Offered` say that everything was read or refused, and
`runPipeline` returns nil only when the gate refused nothing.

`CompleteMeansRead` says this level by level: of every target taken on, all it owes is taken on.
`CompletionReadsDue` has the recursive form, by induction over the tree.

### A point strands nothing: `FrontierProofs`

`Due`, `Ancestors` and `RootBlock` are recursive functions over the tree of targets. The
prover has no induction over data, but `SourceAssumption` says of the tree what a well-founded set
is (every set of nested targets has one whose source is outside), and from it `TreeInduction` and
`TreeRecursion` are proved: a function over the tree with given values at the root and at
each target, in terms of its source, exists. So each recursive definition unfolds (`DueUnfold`,
`AncestorsUnfold`, `RootBlockUnfold`).

`BarrierInv` is the argument for a drain. While the reader waits for its acknowledgement, the
barrier is the last item of whatever holds it, and everything it has passed is empty: queues,
hands, and by `NestedFollowed` the candidates of nested targets, since an EOF behind their blocks has
flushed them. `AllClear` holds once it is acknowledged, and with empty `scanTargets` and no refusal
(`CheckQuiet`) all that was taken on has been read (`FileMeansRead`). By induction over the tree all
that is due up to the point has been, the root's own entries excepted, which wait for
the EOF of the root (`FilePasses`). `RefusalMarked` is the argument for the error path: who is
refused has poisoned its lineage, so that no banked member hides what was left out below it (`BankHidesNothing`),
and a refused candidate of the flush has set the mark that rewinds the point. What the
flush admits and is itself an archive has members that do neither: the exception in the property.

Over many runs, `RunsInv` says that a journal vouches for what it passes (`JournalVouched`:
reported by this run or an earlier one) and that the run under way is spared nothing else
(`RunVouched`). A start carries the first into the second, by induction over the tree
(`AdoptedIsVouched`): a target that the input holds and the run need not read lies behind the point or
below a banked member. A filed point carries the second into the first, since it strands nothing
(`StrandingNothingVouches`). A start is an initial state of the pipeline for whatever journal there
is (`AnyStart`), so every invariant of one run is one of all.

### The contract: `FrontierProofs`

The abstract scan reports a block when the due blocks that precede it, those of the same target
before it and the one that reveals the target, have been reported. In the pipeline a block is reported
after it has crossed three queues and three hands, while other targets overtake it, so the invariant is
about the whole line from the report back to the reader.

* `LineOrder`: nothing in the line belongs `Ahead` of what is ahead of it, a place at a time
  (`After`) and within each queue (`Sorted`). That a block is in two places is a case of this, so
  `LineOrder` also says that none is sent or reported twice.
* `SentIsRead`: what was sent was read, of a target whose read was opened; so the next block the
  reader sends has not been sent.
* `NoGaps`: no due block was left out before one that was sent. At the report everything ahead is told, so
  with `LineOrder` the predecessors of a block are.
* `Revealed`: a member is offered only when the block that reveals it has passed the stage of its kind.
  The reader takes a member on from there, so the member's blocks come behind that block.
* `TakenOnce`: a target is in one place only of slot, `scanTargets` and stack, and no candidate is
  admitted twice: a second read would send blocks ahead of those sent.
* `Undecided`: the outcome is set once, after `signaled` when it is not a cancellation; a report
  after success or error would need a hand that `FirstEOFIsLast` leaves empty.

Each goroutine's step moves one item one place on, and the lemmas on moves (an append, a receive, a
hand taken or put down) are common to all three stages. A completion maps to `Complete`, since
`CompletionReadsDue` says that what is due is told. The due set of the contract is `Obliged`, the blocks of
the targets that are `Due`; it takes the unfolded recursion above.

`SingleInv` is the order in which the zip stage comes to stored members. An archive claims the range of its
members before it is admitted (`ClaimsFirst`), and an entry is flushed, or refused, only when every block of its source
has passed the stage (`EntriesLast`), when each archive in it has claimed what it will. This needs that
targets are read one after the other (`OneByOne`) and that an EOF in the queue parts the blocks of
one target from those of the next (`EOFParts`). With a journal the property is not claimed: a
drain reads nested targets in the middle of the root, whose EOFs flush the root's entries early.

### The other components

* **`ReadInv`**. `RootAhead`: nothing is hashed or skipped ahead of the read. `HashInv`: the hashed cells are in
  order and are those due up to the read. `Logged`: a record is of what was hashed then. `BlockInv`: the tail
  carried is what lies before the next read, up to the first short block.
* **`BatchInv`**. A journal entry's offset and proof both speak of the bytes the file holds until it is
  replaced, and may speak of different contents after (`Vouched`). What the next attempt may adopt
  was delivered in the attempt that ends (`Adoptable`). The bounds of `Trusted` are hypotheses
  inside the properties, and the invariant shows where each is used.
* **`RangeInv`**. A journal claims only what was delivered in the version it pins (`Claims`), whatever the disk holds
  by now; the point resumed at has a hash that reaches it (`Resumable`); the accumulated proofs are of
  the ranges before. The first unverified range is found by a least counterexample
  (`WellFoundedInduction` of the library gives no operator form that the provers can use).
* **`BankInv`**. The root may change under a filed span, so `Sound` speaks of every root that the
  hashed prefix pins, not of the one that was scanned. A journal of another program is
  believed only where its key has one span (`Told`).
* **`DescentInv`**. The stack is a tower (`Tower`): each directory on it is an entry of the one below, or
  the root or a link led to it, and what was led to is marked and led to once (`Led`). Directories make
  no circle by name, so between two readings of one directory there is one that a link led to
  (`LinkBetween`), and there are no more readings than marks (`TowerIsLow`, by induction over the height).
* **`CoverInv`**. The sweep visits a graph with links, a depth limit and marks, so what is read depends
  on the order. The invariant keeps a witness: a set `C` of directories, each with the depth it was read at,
  that is closed under what the policy leads to, but for what is on the stack (`Closed`), where all entries
  behind the next are followed (`Behind`); the start is in it (`Anchored`). At the end the
  stack is empty, and by induction over its length a path cannot leave the set. With a depth limit a directory met again
  at another depth is a `cycle` that the sweep tells of, and is not promised.
* **`CarveInv`**. While nothing has been suppressed, the sweep's base counts just the numbers used: what was
  told up to the last number is what the files hold (`Standing`), the number of the hit at hand is
  free of an old sidecar, and each of the three writes touches that number only.
* **`PatchInv`**. The parser knows as much as the writer: commit, file, and the line within a hunk.
* **`SpillInv`, `DeliveryInv`**. The spill is on disk from `CreateTemp` to the return and its count never passes
  the pipe nor the byte that proves an overflow. Findings are held or delivered, never part of
  each (`Keeping`), are those of the bytes reported (`Reporting`), and an outcome is told with its
  reason still standing (`Concluding`).
* **`MatchInv`**. `Placed`: each block lies in the text as its offset says, none reaches over the next
  one's start, and one without an overlap comes behind a gap; so a match ends in one block only, which is the
  one that reports it (`OneBlock`, `OnlyReport`). It holds while no block is shorter than the
  overlap. Most of the work is below it, in what `trimEdgeFragments` leaves: a run of letters in
  the window is one of the text (`RunUp`) and the reverse (`RunDown`), so words and phrases carry over
  (`MatchesUp`, `RawDown`, `RunsDown`). A fragment of a word may remain only at the start of a
  block without an overlap, the exception of `ReportsTrue`.

* **`NtfsInv`**. A record that is not blank is one of a file as it was made (`Holds`), and all of a live
  file's are its own. The reader's table of extension records is a recursive function over the
  records (`attach`), unfolded by `Recursion`; that no record is counted twice makes the listing exact.
* **`ExtInv`**. A live inode has one name in use, ahead of every stale one that refers to it
  (`HasEntry`), and stale entries name only what once held that inode: so a name found for a number in use is
  the live one, and for a deleted inode one of its own. An inode with blocks has those of its file (`RowKept`).
* **`FatInv`**. What is free is what no file has that was not freed, and the links of such a file are those of
  its clusters. A file that was not freed shares no cluster with a later one.
* **`DirInv`**. Every slot of a FAT directory is a label or one of a file's, as it was written or as a deletion stamped
  it (`SlotsKnown`), and no two are the same one (`SlotsApart`). The slots of a live file lie together in the root or
  in a live directory (`LiveLie`), so the reader's pass over a directory, unfolded by `Recursion`, tells
  each live file once with the chain that `FatInv` says is its own; a deleted file's short slot still
  names its first cluster, which is its own until a later file takes it (`Retaken`). With first-fit slots a name's slot is
  followed by the next of the same name (`NamesFollow`), so what a short slot has before it is the beginning of its own name
  and no part of another's.
* Below these is what the readers compute, for all inputs: `Merging` (the merged ranges hold the
  bytes of those given, sorted and apart), `RunsExact` (runs of free units), and `BytesAre` (the bytes of a
  file cut at its size).

The proofs changed the model in six places. The recursions of the volumes' readers are written as
functions on numbers, one step of the code's loop each, since what a `RECURSIVE` operator computes cannot be proved. The arms of a CASE in `ReadLoop` overlapped, so that
what the definition meant was left open; they are disjoint now. `Readable` in `Pipeline` is relative
to where the read starts, as `readTarget` is: a resumed read does not meet a cut behind it.
`DeliveryMatchesOutcome` says which findings are delivered by their places instead of a recursive
selection. In `Walk` the bound on a descent was a number that held only of the tree it was checked on (a
directory twice on the stack); a directory that links lead from and back to may be there more often,
and the property now counts the links followed. Carve numbers there are no longer bounded, and a sweep of a
single file that cannot be opened ends. And one property turned out to be false of the code outside the inputs it was
checked on: `omitted`, above.

### Left to TLC

* Liveness (`ScanReturns`, `GoroutinesEnd`, `DrainProceeds`, `RetriesConverge`): out of the prover's reach.
* `NamesOwn` with a driver that may take any free slots (`fit = "any"`). It holds on the instance of `sources` and not for every constant:
  a stamped slot reads as the fifth, with the flag of a last one (`0xE5`), so a name of four slots
  written behind a leftover slot is assembled with it (`assembleLFN`, fsfat.go:284-300; a name that does not fill its
  slots ends at its NUL and hides this), and leftovers of deleted names with equal checksums mix. `FirstFitNamesOwn` and
  `ExtEntriesOwn` are the part of it that is proved.
* `NoDoubleScan` in the form that `inputs` checks, over six inputs; `MembersReadOnce` proves it of one.
* `PhrasesReported` of `Detector`, which is false (`boundary`).

## What is not modelled

Every component is listed in `PROJECT.json` with its status. Out of reach for
good: what makes a match (checksums, key derivation, encodings) and the
cryptographic helpers, functions over domains a model checker cannot enumerate; the
reassembly of database pages; printing. Parsers of fixed formats without state of
their own (EWF segments, exFAT, partition tables, the JSON of journals and baselines) are
left out, as are the follow-up tools, which transform finished output.

Left out of what is modelled: progress reports and the entropy map; the cap on journaled
members; members found in a target without random access, beyond `ReadLoop`'s entry;
combined diffs in a patch; orderings of unordered words; keys in runs of letters longer than
the overlap, which no block sees whole.

## The plan

Done: one scan, its contract, kills and retries; the batch; range scans and the covered bank; the read
loop, the case log and the detector's cuts; standard input; sweeps, carves, patches and three file systems;
and proofs of the invariants of the scan's stages, of completion and its points, of the refinement, and of every other component. Next, in order of weight:

1. `JournalFile`: staging, rename and torn writes, implementing the atomic file that
   `Pipeline` and `Batch` assume; the appended case log with its chain of hashes.
2. exFAT and partition chains beside the other volumes; segment lookup of split images
   and EWF chunks against a reference definition.
3. A composition of `Walk` with `Batch`, over the carve numbers of both.
