------------------------------- MODULE Extents -------------------------------
(* Byte ranges of an image, as detector/fs.go keeps and merges them.        *)
EXTENDS Naturals, SequencesExt, TLC

FSExtent(start, len) == [start |-> start, len |-> len]
End(e) == e.start + e.len
Greater(a, b) == IF a > b THEN a ELSE b
Smaller(a, b) == IF a < b THEN a ELSE b

(* The bytes of a sequence of ranges.                                       *)
Bytes(es) == UNION {es[i].start .. End(es[i]) - 1 : i \in DOMAIN es}

(* An insertion sort by the starts, of the ranges that are not empty: each  *)
(* goes behind those that start no later.                                   *)
Inserted(s, e) ==
  LET at == CHOOSE k \in 0 .. Len(s) : \A i \in DOMAIN s : s[i].start <= e.start <=> i <= k
  IN  [i \in 1 .. Len(s) + 1 |-> IF i <= at THEN s[i] ELSE IF i = at + 1 THEN e ELSE s[i - 1]]
Sorted(in) ==
  LET sorted[n \in 0 .. Len(in)] ==
        IF n = 0 THEN <<>>
        ELSE IF in[n].len = 0 THEN sorted[n - 1] ELSE Inserted(sorted[n - 1], in[n])
  IN  sorted[Len(in)]

(* Ranges that touch are joined.                                            *)
Joined(out, e) ==
  IF out # <<>> /\ e.start <= End(out[Len(out)])
  THEN [out EXCEPT ![Len(out)].len = Greater(@, End(e) - out[Len(out)].start)]
  ELSE Append(out, e)
AllJoined(kept) ==
  LET out[n \in 0 .. Len(kept)] == IF n = 0 THEN <<>> ELSE Joined(out[n - 1], kept[n])
  IN  out[Len(kept)]

mergeExtents(in) == AllJoined(Sorted(in))

(* The runs of the free blocks among the first n, of two bytes each.        *)
Run(out, b) ==
  IF out # <<>> /\ End(out[Len(out)]) = 2 * b
  THEN [out EXCEPT ![Len(out)].len = @ + 2]
  ELSE Append(out, FSExtent(2 * b, 2))
FreeRuns(n, free) ==
  LET out[b \in 0 .. n] ==
        IF b = 0 THEN <<>> ELSE IF b - 1 \in free THEN Run(out[b - 1], b - 1) ELSE out[b - 1]
  IN  out[n]
==============================================================================
