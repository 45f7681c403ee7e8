------------------------------ MODULE MCSources ------------------------------
(***************************************************************************)
(* The components that find what to scan, say where a finding is from and  *)
(* vouch for members, each on a small instance: a behaviour is one of      *)
(* CoverBank, PatchLines, FatVolume, ExtVolume, NtfsVolume or Walk, and the*)
(* variables of the others rest.                                           *)
(***************************************************************************)
EXTENDS CoverBank, PatchLines, Walk, Volumes

VARIABLE part   \* the component that runs

ofVolumes == <<fatVars, extVars, ntfsVars>>
allVars == <<part, vars, patchVars, sweepVars, ofVolumes>>

-----------------------------------------------------------------------------

\* A root of 3 blocks with an archive member over two of them, an entry in that
\* member and a gzip stream; and journals of earlier and other programs.
Keys    == {"zip", "inner", "gz"}
KeyKind == [zip |-> "zip", inner |-> "entry", gz |-> "gzip"]
Starts  == [zip |-> 0, inner |-> 0, gz |-> 1]
Lens    == [zip |-> 2, inner |-> 1, gz |-> 2]
Parents == [zip |-> "root", inner |-> "zip", gz |-> "root"]
Others  == {{}, {<<"zip", <<0, 0>>>>}, {<<"zip", <<0, 1>>>>}, {<<"gz", <<1, 2>>>>},
            {<<"zip", <<0, 2>>>>}, {<<"zip", <<0, 2>>>>, <<"zip", <<0, 1>>>>}}

BankRests == Init /\ journal.filed = {} /\ bytes = [b \in 1..Blocks |-> "u"]

OfBank == part = "bank" /\ UNCHANGED <<part, patchVars, sweepVars, ofVolumes>>

NextBank ==
  \/ OfBank /\ StartRun
  \/ OfBank /\ RootRead
  \/ \E m \in Keys : OfBank /\ Defer(m)
  \/ \E m \in Keys : OfBank /\ Read(m)
  \/ \E m \in Keys : OfBank /\ Refuse(m)
  \/ OfBank /\ File
  \/ OfBank /\ Complete
  \/ OfBank /\ Kill
  \/ OfBank /\ Edit

-----------------------------------------------------------------------------

\* Two commits, two files, nine lines.
OfPatch == part = "patch" /\ UNCHANGED <<part, vars, sweepVars, ofVolumes>>

NextPatch ==
  \/ OfPatch /\ WriteCommit
  \/ OfPatch /\ WriteMessage
  \/ OfPatch /\ WriteBlank
  \/ OfPatch /\ WriteDiff
  \/ OfPatch /\ WriteSides
  \/ OfPatch /\ WriteBinary
  \/ OfPatch /\ WriteHunk
  \/ OfPatch /\ WriteContent
  \/ OfPatch /\ WriteNoNewline

-----------------------------------------------------------------------------

\* 3 clusters; names of 2, 1 and no long slots; files of 3 half clusters and empty.
LongParts  == [a |-> 2, b |-> 0, c |-> 1]
Checksums  == [a |-> 1, b |-> 2, c |-> 3]
FileSizes  == [a |-> {3}, b |-> {3}, c |-> {0}]

FatRests == FatInit /\ fit = "first"

OfFat == part = "fat" /\ UNCHANGED <<part, vars, patchVars, sweepVars, extVars, ntfsVars>>

NextFat ==
  \/ OfFat /\ FatCreate
  \/ OfFat /\ Mkdir
  \/ OfFat /\ FatDelete

-----------------------------------------------------------------------------

\* 4 blocks in groups of 2; files of one block and a half.
ExtRests == ExtInit /\ first = 0

OfExt == part = "ext" /\ UNCHANGED <<part, vars, patchVars, sweepVars, fatVars, ntfsVars>>

NextExt ==
  \/ OfExt /\ ExtCreate
  \/ OfExt /\ Unlink

-----------------------------------------------------------------------------

\* 3 records, 2 clusters.
OfNtfs == part = "ntfs" /\ UNCHANGED <<part, vars, patchVars, sweepVars, fatVars, extVars>>

NextNtfs ==
  \/ OfNtfs /\ NtfsCreate
  \/ OfNtfs /\ Grow
  \/ OfNtfs /\ NtfsDelete

-----------------------------------------------------------------------------

\* The tree: a is a file, x cannot be opened, o is an output of the sweep;
\* b holds a file c whose scan fails, a socket and a link to itself; d holds a link
\* to a; k leads to the top, y to nothing and q to the output.
Kinds == [r |-> "dir", a |-> "file", b |-> "dir", c |-> "file", up |-> "link", s |-> "special",
          k |-> "link", o |-> "dir", x |-> "file", y |-> "link", d |-> "dir", w |-> "link",
          q |-> "link"]
Children == [r |-> <<"a", "b", "d", "k", "o", "x", "y", "q">>, b |-> <<"c", "s", "up">>,
             o |-> <<>>, d |-> <<"w">>]
Links == [up |-> "b", k |-> "r", y |-> "nowhere", w |-> "a", q |-> "o"]
Trail == [a |-> <<"fa">>, c |-> <<"fb", "fc">>, x |-> <<>>]

SweepRests ==
  /\ SweepInit /\ maxDepth = 0

OfWalk == part = "walk" /\ UNCHANGED <<part, vars, patchVars, ofVolumes>>

NextWalk ==
  \/ OfWalk /\ Start
  \/ OfWalk /\ SkipEntry
  \/ OfWalk /\ EnterDir
  \/ OfWalk /\ EnterFile
  \/ OfWalk /\ FollowLink
  \/ OfWalk /\ Return
  \/ OfWalk /\ Finish
  \/ OfWalk /\ Stop
  \/ OfWalk /\ CarveBin
  \/ OfWalk /\ CarveSalvage
  \/ OfWalk /\ CarveSidecar
  \/ OfWalk /\ Tell
  \/ OfWalk /\ EndScan
  \/ OfWalk /\ Cancel

-----------------------------------------------------------------------------

VolumesRest == FatRests /\ ExtRests /\ NtfsInit

OneRuns ==
  \/ part = "bank" /\ Init /\ PatchInit /\ SweepRests /\ VolumesRest
  \/ part = "patch" /\ PatchInit /\ BankRests /\ SweepRests /\ VolumesRest
  \/ part = "fat" /\ FatInit /\ BankRests /\ PatchInit /\ SweepRests /\ ExtRests /\ NtfsInit
  \/ part = "ext" /\ ExtInit /\ BankRests /\ PatchInit /\ SweepRests /\ FatRests /\ NtfsInit
  \/ part = "ntfs" /\ BankRests /\ PatchInit /\ SweepRests /\ VolumesRest
  \/ part = "walk" /\ SweepInit /\ BankRests /\ PatchInit /\ VolumesRest

AnyStep == NextBank \/ NextPatch \/ NextFat \/ NextExt \/ NextNtfs \/ NextWalk
Sources == OneRuns /\ [][AnyStep]_allVars
==============================================================================
