-------------------------------- MODULE Piped --------------------------------
(* A scan of standard input (detector/stdin.go): the pipe is spilled to a   *)
(* capped temporary file, the file is scanned, in patch mode its findings   *)
(* are held back, attributed by a second reading and then delivered         *)
(* (scanPatch), and the file is removed.                                    *)
EXTENDS Naturals, Sequences, FiniteSets

CONSTANTS
  Pipe,        \* what the writer may send: a set of byte counts
  Chunk,       \* most bytes a read returns
  Cap,         \* MaxStdinSpillBytes
  Hits         \* a finding at byte h, for each h of Hits

VARIABLES
  patch,       \* -patch was given
  bytes,       \* what this writer sends before it closes
  stage,       \* "start", "spill", "scan", "reread", "deliver" or "returned"
  total,       \* bytes spilled
  onDisk,      \* the spill file exists
  at,          \* findings the pipeline has reported, as a count of bytes read
  buffered,    \* findings held back: a sequence of [hit, commit]
  delivered,   \* findings given to the caller: the same
  canceled,
  runErr,      \* how the pipeline ended
  result       \* what ScanStdinWithOptions returned: "ok" or an error

pipeVars == <<patch, bytes, stage, total, onDisk, at, buffered, delivered, canceled, runErr, result>>

Least(a, b) == IF a < b THEN a ELSE b

Return(r) == stage' = "returned" /\ result' = r
(* Every way out after CreateTemp removes the spill.                        *)
Leave(r) == Return(r) /\ onDisk' = FALSE

-----------------------------------------------------------------------------

(* A context already done never touches the pipe; CreateTemp may fail.      *)
Start ==
  /\ stage = "start"
  /\ \/ canceled /\ Return("canceled") /\ UNCHANGED onDisk
     \/ ~canceled /\ Return("refused") /\ UNCHANGED onDisk
     \/ ~canceled /\ stage' = "spill" /\ onDisk' = TRUE /\ UNCHANGED result
  /\ UNCHANGED <<patch, bytes, total, at, buffered, delivered, canceled, runErr>>

(* spillBounded: one read, never past the one byte that proves overflow,    *)
(* which may come with the end of the pipe or with an error.                *)
Room == Cap + 1 - total
Reads == {n \in 0 .. Least(Chunk, Room) : n <= bytes - total}

Overflows(n) == total + n > Cap

\* Faulty: the copy stops at the cap as if the pipe had ended.
SpillReadLimited ==
  /\ stage = "spill" /\ ~canceled
  /\ \E n \in Reads :
       /\ total' = Least(total + n, Cap)
       /\ \/ n > 0 /\ total' < Cap /\ UNCHANGED stage
          \/ total' \in {bytes, Cap} /\ stage' = "scan"
  /\ UNCHANGED <<patch, bytes, onDisk, at, buffered, delivered, canceled, runErr, result>>

SpillRead ==
  /\ stage = "spill" /\ ~canceled
  /\ \/ \E n \in Reads :
          /\ total' = total + n
          /\ IF Overflows(n) THEN Leave("cap")
             ELSE \/ n > 0 /\ UNCHANGED <<stage, onDisk, result>>
                  \/ total' = bytes /\ stage' = "scan" /\ UNCHANGED <<onDisk, result>>
     \/ Leave("failed") /\ UNCHANGED total     \* the read, the write or the close failed
  /\ UNCHANGED <<patch, bytes, at, buffered, delivered, canceled, runErr>>

SpillCanceled ==
  /\ stage = "spill" /\ canceled
  /\ Leave("canceled")
  /\ UNCHANGED <<patch, bytes, total, at, buffered, delivered, canceled, runErr>>

-----------------------------------------------------------------------------
(* The pipeline over the spill.                                             *)

Note(h) == [hit |-> h, commit |-> "none"]

\* Faulty: patch mode hands findings over before they are attributed.
ReportAtOnce ==
  /\ stage = "scan" /\ at < total
  /\ at' = at + 1
  /\ delivered' = IF at' \in Hits THEN Append(delivered, Note(at')) ELSE delivered
  /\ UNCHANGED <<patch, bytes, stage, total, onDisk, buffered, canceled, runErr, result>>

(* The findings of the bytes just read, delivered or held back.             *)
Report ==
  /\ stage = "scan" /\ at < total
  /\ at' = at + 1
  /\ IF at' \notin Hits THEN UNCHANGED <<buffered, delivered>>
     ELSE IF patch THEN buffered' = Append(buffered, Note(at')) /\ UNCHANGED delivered
     ELSE delivered' = Append(delivered, Note(at')) /\ UNCHANGED buffered
  /\ UNCHANGED <<patch, bytes, stage, total, onDisk, canceled, runErr, result>>

(* runPipeline returns: complete, with the context's error at once, or with *)
(* a failure of its own, say of a read of the spill.  Without patch mode    *)
(* that is the end, and with it after a cancel or when nothing was found; a *)
(* failed scan still has its findings attributed and delivered.             *)
Endings == {"failed"} \cup (IF at = total THEN {"ok"} ELSE {})
                      \cup (IF canceled THEN {"canceled"} ELSE {})

PipelineEnds ==
  /\ stage = "scan"
  /\ \E e \in Endings :
       /\ runErr' = e
       /\ IF patch /\ ~canceled /\ buffered # <<>>
            THEN stage' = "reread" /\ UNCHANGED <<onDisk, result>>
            ELSE Leave(IF patch /\ canceled /\ e = "ok" THEN "canceled" ELSE e)
  /\ UNCHANGED <<patch, bytes, total, at, buffered, delivered, canceled>>

(* attributePatch: one pass stamps the findings in order; an error keeps    *)
(* the stamps made so far, the context's error ends the scan.               *)
Stamped(n) == [i \in DOMAIN buffered |->
                 IF i <= n THEN [buffered[i] EXCEPT !.commit = "known"] ELSE buffered[i]]

Reread ==
  /\ stage = "reread"
  /\ IF canceled
       THEN Leave(IF runErr = "ok" THEN "canceled" ELSE runErr) /\ UNCHANGED buffered
       ELSE /\ \E n \in 0 .. Len(buffered) : buffered' = Stamped(n)
            /\ stage' = "deliver" /\ UNCHANGED <<onDisk, result>>
  /\ UNCHANGED <<patch, bytes, total, at, delivered, canceled, runErr>>

(* Delivery is one loop that looks at no context.                           *)
Deliver ==
  /\ stage = "deliver"
  /\ delivered' = delivered \o buffered
  /\ Leave(runErr)
  /\ UNCHANGED <<patch, bytes, total, at, buffered, canceled, runErr>>

Cancel ==
  /\ ~canceled /\ stage # "returned"
  /\ canceled' = TRUE
  /\ UNCHANGED <<patch, bytes, stage, total, onDisk, at, buffered, delivered, runErr, result>>

PipeInit ==
  /\ patch \in BOOLEAN /\ bytes \in Pipe
  /\ stage = "start" /\ total = 0 /\ onDisk = FALSE /\ at = 0
  /\ buffered = <<>> /\ delivered = <<>> /\ canceled = FALSE
  /\ runErr = "none" /\ result = "none"

Run == Start \/ SpillRead \/ SpillCanceled \/ Report \/ PipelineEnds \/ Reread \/ Deliver
PipeNext == Run \/ Cancel
PipeSpec == PipeInit /\ [][PipeNext]_pipeVars

-----------------------------------------------------------------------------

(* A pipe cut short is never taken for a short one: the pipeline only runs  *)
(* over everything the writer sent, and no more than the cap and the byte   *)
(* that proves the overflow is ever on disk.                                *)
WholePipeScanned ==
  /\ stage \in {"scan", "reread", "deliver"} => onDisk /\ total = bytes
  /\ total <= Cap + 1

(* No spill outlives the call, whatever ended it.                           *)
SpillRemoved == stage = "returned" => ~onDisk

(* The findings of the first n bytes, in order, each once.                  *)
FindingsTo(s, n) ==
  /\ {s[i].hit : i \in DOMAIN s} = Hits \cap 1 .. n
  /\ \A i, j \in DOMAIN s : i < j => s[i].hit < s[j].hit

(* What is delivered is the findings of the pipe in order, each once: all   *)
(* of them when the scan succeeded, all it found when it failed, and in      *)
(* patch mode none when it was cancelled.                                   *)
DeliveryMatchesOutcome ==
  /\ \E n \in 0 .. bytes : FindingsTo(delivered, n)
  /\ result = "ok" => FindingsTo(delivered, bytes)
  /\ (result = "failed" /\ ~(patch /\ canceled)) => FindingsTo(delivered, at)
  /\ (patch /\ result = "canceled") => delivered = <<>>
=============================================================================
