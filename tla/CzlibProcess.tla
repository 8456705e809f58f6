---------------------------- MODULE CzlibProcess ----------------------------
(***************************************************************************)
(* process() of czlib.cpp, called through cZlibBuildFri: it appends to     *)
(* friBlob the bytes of blob with the given ranges inflated, and with      *)
(* reverse overwrites the range arrays with the places of the inflated     *)
(* bytes, which the generator makes the recompression plan from.  The      *)
(* reference is DeltaFriendlyFile.generateDeltaFriendlyFile, whose work    *)
(* process() has taken over.                                               *)
(*                                                                         *)
(* A byte that fread did not fill is Stale: what copyBytes then writes is  *)
(* whatever its stack buffer held.                                         *)
(***************************************************************************)
EXTENDS Integers, Sequences

CONSTANTS
  FileLen,      \* length of blob
  RangeLists,   \* lists of [offset, length, size, valid]: size is the number
                \* of bytes inflate yields, valid whether it succeeds
  Chunk,        \* CHUNK
  Stale

\* lastReadOffset of generateDeltaFriendlyFile, after k ranges.
LastReadOffset(l, k) == IF k = 0 THEN 0 ELSE l[k].offset + l[k].length

\* The ranges of a plan are entries of the archive: PreDiffPlanner gives them
\* in file order and without overlap.
ASSUME CzlibAssumption ==
  /\ FileLen \in Nat
  /\ Chunk \in Nat \ {0}
  /\ \A l \in RangeLists :
       /\ l \in Seq([offset : Nat, length : Nat, size : Nat, valid : BOOLEAN])
       /\ \A k \in 1..Len(l) : /\ LastReadOffset(l, k - 1) <= l[k].offset
                              /\ l[k].offset + l[k].length <= FileLen

VARIABLES
  ranges,    \* the list the arrays were filled from
  reverse,
  pc,        \* "loop", "gap", "inflate", "tail", "copyTail" or "returned"
  i,         \* index of the range at hand, from 1
  at,        \* file position of blob
  curPos,
  left,      \* what copyBytes has still to copy
  friBlob,   \* content of the file written
  pos, length,
  flag       \* the result: did every range inflate?

vars == <<ranges, reverse, pc, i, at, curPos, left, friBlob, pos, length, flag>>

CopiedByte(p) == <<"copied", p>>
InflatedByte(offset, k) == <<"inflated", offset, k>>

Span(lo, hi) == [k \in 1..(hi - lo) |-> CopiedByte(lo + k - 1)]
Inflated(r, size) == [k \in 1..size |-> InflatedByte(r.offset, k)]

Lower(a, b) == IF a <= b THEN a ELSE b

Init == /\ ranges \in RangeLists
        /\ reverse \in BOOLEAN
        /\ pc = "loop"
        /\ i = 1
        /\ at = 0
        /\ curPos = 0
        /\ left = 0
        /\ friBlob = <<>>
        /\ pos = [k \in 1..Len(ranges) |-> ranges[k].offset]
        /\ length = [k \in 1..Len(ranges) |-> ranges[k].length]
        /\ flag = TRUE

\* Mutant of EnterRange: curPos is not moved over the gap.
EnterRangeKeepingCurPos ==
  /\ pc = "loop" /\ i <= Len(ranges)
  /\ IF pos[i] > curPos
     THEN pc' = "gap" /\ left' = pos[i] - curPos
     ELSE pc' = "inflate" /\ UNCHANGED left
  /\ UNCHANGED <<ranges, reverse, i, at, curPos, friBlob, pos, length, flag>>

\* The head of the for loop: a gap before the range is copied first.
EnterRange ==
  /\ pc = "loop" /\ i <= Len(ranges)
  /\ IF pos[i] > curPos
     THEN pc' = "gap" /\ left' = pos[i] - curPos /\ curPos' = pos[i]
     ELSE pc' = "inflate" /\ UNCHANGED <<left, curPos>>
  /\ UNCHANGED <<ranges, reverse, i, at, friBlob, pos, length, flag>>

LeaveLoop ==
  /\ pc = "loop" /\ i > Len(ranges)
  /\ pc' = "tail"
  /\ UNCHANGED <<ranges, reverse, i, at, curPos, left, friBlob, pos, length, flag>>

(***************************************************************************)
(* One turn of the loop of copyBytes: it reads from wherever blob stands,  *)
(* does not look at what fread returns and writes the whole buffer.        *)
(***************************************************************************)
CopyBytes ==
  LET n == Lower(left, Chunk)
      got == IF at >= FileLen THEN 0 ELSE Lower(n, FileLen - at)
  IN /\ pc \in {"gap", "copyTail"} /\ left > 0
     /\ friBlob' = friBlob \o Span(at, at + got) \o [k \in 1..(n - got) |-> Stale]
     /\ at' = at + got
     /\ left' = left - n
     /\ UNCHANGED <<ranges, reverse, pc, i, curPos, pos, length, flag>>

GapCopied ==
  /\ pc = "gap" /\ left = 0
  /\ pc' = "inflate"
  /\ UNCHANGED <<ranges, reverse, i, at, curPos, left, friBlob, pos, length, flag>>

\* Mutant of InversePlace: taken when the bytes have been written.
InversePlaceAfter(r) == [pos |-> Len(friBlob) + r.size, length |-> r.size]

\* Where the inflated bytes of the range go: with reverse, its new entry.
InversePlace(r) == [pos |-> Len(friBlob), length |-> r.size]

\* decompressBytes seeks to the range and reads all of it.
InflateRange ==
  LET r == ranges[i]
  IN /\ pc = "inflate" /\ r.valid
     /\ friBlob' = friBlob \o Inflated(r, r.size)
     /\ at' = r.offset + r.length
     /\ curPos' = curPos + r.length
     /\ pos' = IF reverse THEN [pos EXCEPT ![i] = InversePlace(r).pos] ELSE pos
     /\ length' = IF reverse THEN [length EXCEPT ![i] = InversePlace(r).length] ELSE length
     /\ i' = i + 1
     /\ pc' = "loop"
     /\ UNCHANGED <<ranges, reverse, left, flag>>

\* inflate reports an error, after some of the bytes were written.
InflateFails ==
  /\ pc = "inflate" /\ ~ranges[i].valid
  /\ \E n \in 0..ranges[i].size : friBlob' = friBlob \o Inflated(ranges[i], n)
  /\ \E n \in 0..ranges[i].length : at' = ranges[i].offset + n
  /\ flag' = FALSE
  /\ pc' = "tail"
  /\ UNCHANGED <<ranges, reverse, i, curPos, left, pos, length>>

\* The file size is taken by seeking to the end; blob is left there.
StartTail ==
  /\ pc = "tail"
  /\ at' = FileLen
  /\ left' = IF FileLen > curPos /\ flag THEN FileLen - curPos ELSE 0
  /\ pc' = "copyTail"
  /\ UNCHANGED <<ranges, reverse, i, curPos, friBlob, pos, length, flag>>

Return ==
  /\ pc = "copyTail" /\ left = 0
  /\ pc' = "returned"
  /\ UNCHANGED <<ranges, reverse, i, at, curPos, left, friBlob, pos, length, flag>>

Terminated == pc = "returned" /\ UNCHANGED vars

Next == \/ EnterRange
        \/ LeaveLoop
        \/ CopyBytes
        \/ GapCopied
        \/ InflateRange
        \/ InflateFails
        \/ StartTail
        \/ Return
        \/ Terminated

Spec == Init /\ [][Next]_vars

-----------------------------------------------------------------------------
(***************************************************************************)
(* The reference: generateDeltaFriendlyFile, up to the end of range k and  *)
(* for the whole file, and its inverse ranges.                             *)
(***************************************************************************)
FriendlyUpTo(l) ==
  LET out[k \in 0..Len(l)] ==
        IF k = 0 THEN <<>>
        ELSE out[k - 1] \o Span(LastReadOffset(l, k - 1), l[k].offset)
                        \o Inflated(l[k], l[k].size)
  IN out

Friendly(l) ==
  FriendlyUpTo(l)[Len(l)] \o Span(LastReadOffset(l, Len(l)), FileLen)

-----------------------------------------------------------------------------
\* Up to the end of the last range that was inflated, the blob is the one
\* generateDeltaFriendlyFile writes: the file position that copyBytes relies
\* on, and never sets, is right for every gap.
RangesAreFriendly ==
  \A k \in 0..(i - 1) :
    SubSeq(friBlob, 1, Len(FriendlyUpTo(ranges)[k])) = FriendlyUpTo(ranges)[k]

\* Each range of the recompression plan made so far names the bytes of its
\* entry in the delta-friendly blob.
InverseLocatesEntries ==
  reverse =>
    \A k \in 1..(i - 1) :
      /\ pos[k] + length[k] <= Len(friBlob)
      /\ SubSeq(friBlob, pos[k] + 1, pos[k] + length[k]) = Inflated(ranges[k], ranges[k].size)

\* After the last range the rest of the file is copied ("Finish the final
\* bytes of the file", in DeltaFriendlyFile).
TailIsCopied == pc = "returned" /\ flag => friBlob = Friendly(ranges)

=============================================================================
