----------------------------- MODULE PatchLines -----------------------------
(* The parser of detector/patch.go run against the output of git log -p:    *)
(* each step writes one more line that git can write there and has the      *)
(* parser read it.  What the line is of (commit, file, line of the new      *)
(* file) is known to the writer; the parser has to recover it.              *)
EXTENDS Naturals, Sequences, FiniteSets

CONSTANTS
  Commits,     \* hashes
  FilePaths,   \* paths within the repository
  MaxLines,    \* bound: lines written
  HunkStarts,  \* first new-file lines of hunks
  HunkLens     \* lines of a hunk

ASSUME HunkAssumption == HunkStarts \subseteq Nat /\ HunkLens \subseteq Nat

Nobody == "none"

VARIABLES
  w,      \* the writer: [commit, path, left, line]; left lines of this hunk remain
  ctx,    \* patchCtx: [commit, path, minus, inHunk, newLine]
  stamp,  \* what the parser made of the last line: [commit, path, line]
  truth,  \* what that line is
  lines   \* lines written

patchVars == <<w, ctx, stamp, truth, lines>>

-----------------------------------------------------------------------------
(* The parser.  A line is [head, ...]: its header form, or its first byte.  *)

HunkBytes == {"+", "-", " ", "\\"}
EndHunk(c) == [c EXCEPT !.inHunk = FALSE]

(* classifyPre: inside a hunk a line that may be content is.                *)
classifyPre(c, l) ==
  IF c.inHunk /\ l.first \in HunkBytes THEN c
  ELSE CASE l.head = "commit" -> [c EXCEPT !.commit = l.arg, !.path = Nobody, !.minus = Nobody,
                                           !.inHunk = FALSE]
         [] l.head = "diff"   -> [c EXCEPT !.path = l.arg, !.minus = Nobody, !.inHunk = FALSE]
         [] l.head = "---"    -> [c EXCEPT !.minus = l.arg, !.inHunk = FALSE]
         [] l.head = "+++"    -> [c EXCEPT !.path = IF l.arg # Nobody THEN l.arg
                                                    ELSE IF c.minus # Nobody THEN c.minus ELSE @,
                                           !.inHunk = FALSE]
         [] l.head = "@@"     -> [c EXCEPT !.newLine = l.arg, !.inHunk = TRUE]
         [] OTHER             -> EndHunk(c)

\* Faulty: a removed line is counted as a line of the new file.
classifyPostAll(c, l) ==
  IF c.inHunk /\ l.first \in {"+", "-", " "} THEN [c EXCEPT !.newLine = @ + 1] ELSE c

(* classifyPost: the removed lines and markers hold no line of the file.    *)
classifyPost(c, l) ==
  IF c.inHunk /\ l.first \in {"+", " "} THEN [c EXCEPT !.newLine = @ + 1] ELSE c

attributeLine(c, l) ==
  [commit |-> c.commit, path |-> c.path,
   line   |-> IF c.inHunk /\ l.first \in {"+", " "} THEN c.newLine ELSE 0]

(* The parser reads line l, which is of what t says.  An empty line changes *)
(* nothing.                                                                 *)
Parse(l, t) ==
  LET c == IF l.first = "" THEN ctx ELSE classifyPre(ctx, l) IN
  /\ stamp' = attributeLine(c, l)
  /\ ctx' = classifyPost(c, l)
  /\ truth' = t
  /\ lines' = lines + 1

-----------------------------------------------------------------------------
(* The writer.                                                              *)

Line(head, first, arg) == [head |-> head, first |-> first, arg |-> arg]
Of(commit, path, line) == [commit |-> commit, path |-> path, line |-> line]
More == lines < MaxLines
Between == More /\ w.left = 0

WriteCommit ==
  /\ Between
  /\ \E c \in Commits :
       /\ w' = [w EXCEPT !.commit = c, !.path = Nobody]
       /\ Parse(Line("commit", "c", c), Of(c, Nobody, 0))

(* A message is indented, so a header quoted in it starts with a space.     *)
Quoted == {"    commit", "    diff", "    ---", "    +++", "    @@"}
WriteMessage ==
  /\ Between /\ w.commit # Nobody /\ w.path = Nobody
  /\ \E h \in Quoted : Parse(Line(h, " ", Nobody), Of(w.commit, Nobody, 0))
  /\ UNCHANGED w

WriteBlank ==
  /\ Between
  /\ Parse(Line("", "", Nobody), Of(w.commit, w.path, 0))
  /\ UNCHANGED w

WriteDiff ==
  /\ Between /\ w.commit # Nobody
  /\ \E p \in FilePaths :
       /\ w' = [w EXCEPT !.path = p]
       /\ Parse(Line("diff", "d", p), Of(w.commit, p, 0))

(* The sides of the file just named, either of them /dev/null.              *)
WriteSides ==
  /\ Between /\ w.path # Nobody /\ ~ctx.inHunk
  /\ \E h \in {"---", "+++"} : \E p \in {w.path, Nobody} :
       /\ h = "+++" /\ p = Nobody => ctx.minus = w.path
       /\ Parse(Line(h, IF h = "---" THEN "-" ELSE "+", p), Of(w.commit, w.path, 0))
  /\ UNCHANGED w

WriteBinary ==
  /\ Between /\ w.path # Nobody
  /\ Parse(Line("Binary", "B", Nobody), Of(w.commit, w.path, 0))
  /\ UNCHANGED w

WriteHunk ==
  /\ Between /\ w.path # Nobody
  /\ \E s \in HunkStarts, n \in HunkLens :
       /\ w' = [w EXCEPT !.left = n, !.line = s]
       /\ Parse(Line("@@", "@", s), Of(w.commit, w.path, 0))

(* A line of the hunk, whatever its text looks like after the first byte.   *)
WriteContent ==
  /\ More /\ w.left > 0
  /\ \E b \in {"+", "-", " "} : \E h \in {"text", "+++", "---"} :
       LET new == b # "-" IN
       /\ w' = [w EXCEPT !.left = @ - 1, !.line = IF new THEN @ + 1 ELSE @]
       /\ Parse(Line(h, b, Nobody), Of(w.commit, w.path, IF new THEN w.line ELSE 0))

WriteNoNewline ==
  /\ More /\ w.path # Nobody /\ ctx.inHunk
  /\ Parse(Line("\\", "\\", Nobody), Of(w.commit, w.path, 0))
  /\ UNCHANGED w

PatchInit ==
  /\ w = [commit |-> Nobody, path |-> Nobody, left |-> 0, line |-> 0]
  /\ ctx = [commit |-> Nobody, path |-> Nobody, minus |-> Nobody, inHunk |-> FALSE, newLine |-> 0]
  /\ stamp = Of(Nobody, Nobody, 0) /\ truth = stamp /\ lines = 0

PatchNext == WriteCommit \/ WriteMessage \/ WriteBlank \/ WriteDiff \/ WriteSides \/ WriteBinary
        \/ WriteHunk \/ WriteContent \/ WriteNoNewline
PatchSpec == PatchInit /\ [][PatchNext]_patchVars

(* Every line is attributed to its commit, its file and its line of the new *)
(* file, and to no line when it is no line of that file: whatever a message *)
(* quotes, however a line of the file begins, and across files and commits. *)
AttributionTrue == stamp = truth
=============================================================================
