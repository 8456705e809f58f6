------------------------- MODULE PartialCompression -------------------------
(***************************************************************************)
(* PartiallyCompressingOutputStream: the stream that turns the delta-      *)
(* friendly new blob back into the new archive.  It copies what lies       *)
(* between the ranges of the recompression plan and compresses the ranges, *)
(* with zlib or, for strategy 7, by spooling the range to a file and       *)
(* running 7zz on it.  A stream is a record here, so that one thread       *)
(* (Apply) and several (MThreadApply) can each own one.                    *)
(*                                                                         *)
(* A byte of the blob is its position; an item of the output is            *)
(* <<codec, bytes>>.  The bytes a deflater emits before it is finished are *)
(* attributed to the finish: nothing reads the output in between.          *)
(***************************************************************************)
EXTENDS Integers, Sequences

CONSTANT Null       \* Java null

SevenZip == 7       \* JreDeflateParameters.strategy of a 7z range

\* TypedRange<JreDeflateParameters>.
End(r) == r.offset + r.length

Lesser(a, b) == IF a <= b THEN a ELSE b

\* The codec that parameters p ask for.
Codec(p) == IF p.strategy = SevenZip
            THEN <<"7z", p.level>>
            ELSE <<"zlib", p.level, p.strategy, p.nowrap>>

\* What the codec of a deflater emits: the settings are the deflater's own.
DeflaterCodec(d) == <<"zlib", d.level, d.strategy, d.nowrap>>

\* The bytes of the blob from position lo up to, not including, hi.
Bytes(lo, hi) == [i \in 1..(hi - lo) |-> lo + i - 1]

Copied(bytes) == [i \in 1..Len(bytes) |-> <<<<"copy">>, <<bytes[i]>>>>]

-----------------------------------------------------------------------------
(***************************************************************************)
(* What the stream promises (its class comment): the ranges compressed     *)
(* with their parameters, everything else copied.                          *)
(***************************************************************************)
StartOfGap(list, k) == IF k = 1 THEN 0 ELSE End(list[k - 1])

RecompressedUpTo(list) ==
  LET out[k \in 0..Len(list)] ==
        IF k = 0 THEN <<>>
        ELSE out[k - 1]
               \o Copied(Bytes(StartOfGap(list, k), list[k].offset))
               \o <<<<Codec(list[k].params),
                      Bytes(list[k].offset, End(list[k]))>>>>
  IN out

Recompressed(list, blobLen) ==
  RecompressedUpTo(list)[Len(list)]
    \o Copied(Bytes(StartOfGap(list, Len(list) + 1), blobLen))

\* PatchReader accepts only ranges that are in order and disjoint.
InOrder(list) ==
  \A k \in 1..Len(list) : /\ list[k].length >= 0
                          /\ StartOfGap(list, k) <= list[k].offset

-----------------------------------------------------------------------------
\* The types: JreDeflateParameters, ranges, items of the output, streams.
Params == [level : 1..9, strategy : 0..7, nowrap : BOOLEAN]

Ranges == [offset : Nat, length : Nat, params : Params]

Items == ({<<"copy">>} \union ({"7z"} \X (1..9))
            \union ({"zlib"} \X (1..9) \X (0..7) \X BOOLEAN)) \X Seq(Nat)

Stream ==
  [ranges : Seq(Ranges), chunkOffset : Nat, written : Nat,
   deflater : Params \union {Null}, last : Params \union {Null},
   deflating : BOOLEAN, seven : BOOLEAN,
   pending : Seq(Nat), spool : Seq(Nat), out : Seq(Items)]

-----------------------------------------------------------------------------
(***************************************************************************)
(* The stream.  ranges holds nextCompressedRange and what the iterator has *)
(* left; deflating is deflaterOut # null, seven is is7zcompressing;        *)
(* pending is what the deflater holds, spool the content of tmpFile7z and  *)
(* out what has reached normalOut.                                         *)
(***************************************************************************)
NewStream(ranges, offset, spool) ==
  [ranges |-> ranges, chunkOffset |-> offset, written |-> 0,
   deflater |-> Null, last |-> Null, deflating |-> FALSE, seven |-> FALSE,
   pending |-> <<>>, spool |-> spool, out |-> <<>>]

Compressing(s) == s.deflating \/ s.seven

Position(s) == s.chunkOffset + s.written

\* bytesTillCompressionStarts and bytesTillCompressionEnds, -1 past the last.
BytesTillCompressionStarts(s) ==
  IF s.ranges = <<>> THEN -1 ELSE Head(s.ranges).offset - Position(s)

BytesTillCompressionEnds(s) ==
  IF s.ranges = <<>> THEN -1 ELSE End(Head(s.ranges)) - Position(s)

\* Mutant of BeginRange: a deflater that is reused keeps all its settings.
BeginRangeWithoutSettings(s) ==
  LET p == Head(s.ranges).params
  IN IF p.strategy = SevenZip
     THEN [s EXCEPT !.seven = TRUE]
     ELSE [s EXCEPT !.deflating = TRUE,
                    !.deflater = IF s.deflater # Null /\ s.last.nowrap = p.nowrap
                                 THEN @ ELSE p]

(***************************************************************************)
(* A range begins: a 7z range only raises the flag; a zlib range gets a    *)
(* deflater, the one in use unless its nowrap setting differs.             *)
(***************************************************************************)
BeginRange(s) ==
  LET p == Head(s.ranges).params
      reused == s.deflater # Null /\ s.last.nowrap = p.nowrap
  IN IF p.strategy = SevenZip
     THEN [s EXCEPT !.seven = TRUE]
     ELSE [s EXCEPT !.deflating = TRUE,
                    !.deflater = [level |-> p.level, strategy |-> p.strategy,
                                  nowrap |-> IF reused THEN @.nowrap
                                                       ELSE p.nowrap]]

EnterRange(s) == IF BytesTillCompressionStarts(s) = 0 /\ ~Compressing(s)
                 THEN BeginRange(s) ELSE s

\* Mutant of ChunkSize: the end of the range is not looked at.
ChunkSizePastEnd(s, len) ==
  IF Compressing(s) \/ s.ranges = <<>> THEN len
  ELSE Lesser(len, BytesTillCompressionStarts(s))

\* How much of a buffer of len bytes this call takes: never past an edge.
ChunkSize(s, len) ==
  IF Compressing(s) THEN Lesser(len, BytesTillCompressionEnds(s))
  ELSE IF s.ranges = <<>> THEN len
  ELSE Lesser(len, BytesTillCompressionStarts(s))

\* The bytes go to the spool file, the deflater or straight to the output.
Consume(s, bytes) ==
  [s EXCEPT !.written = @ + Len(bytes),
            !.spool = IF s.seven THEN @ \o bytes ELSE @,
            !.pending = IF s.deflating /\ ~s.seven THEN @ \o bytes ELSE @,
            !.out = IF Compressing(s) THEN @ ELSE @ \o Copied(bytes)]

\* Mutant of AtRangeEnd: a range ends only after a byte of it was taken.
AtEndOfNonEmptyRange(s) ==
  /\ Compressing(s) /\ BytesTillCompressionEnds(s) = 0
  /\ Position(s) > Head(s.ranges).offset

AtRangeEnd(s) == Compressing(s) /\ BytesTillCompressionEnds(s) = 0

\* Mutant of FlushSevenZip: 7ztmpfile is not deleted.
FlushKeepingSpool(s) ==
  [s EXCEPT !.out = Append(@, <<Codec(Head(s.ranges).params), s.spool>>),
            !.seven = FALSE]

\* 7zz compresses the spool file, which is deleted.
FlushSevenZip(s) ==
  [s EXCEPT !.out = Append(@, <<Codec(Head(s.ranges).params), s.spool>>),
            !.spool = <<>>, !.seven = FALSE]

\* Mutant of FlushDeflater: the deflater is not reset.
FlushWithoutReset(s) ==
  [s EXCEPT !.out = Append(@, <<DeflaterCodec(s.deflater), s.pending>>),
            !.deflating = FALSE, !.last = Head(s.ranges).params]

\* deflaterOut.finish(), and the deflater is reset for the next range.
FlushDeflater(s) ==
  [s EXCEPT !.out = Append(@, <<DeflaterCodec(s.deflater), s.pending>>),
            !.pending = <<>>, !.deflating = FALSE,
            !.last = Head(s.ranges).params]

\* The range is complete: its compressed form goes out, the next one is due;
\* after the last one the deflater is given up.
FinishRange(s) ==
  LET rest == Tail(s.ranges)
  IN [IF s.seven THEN FlushSevenZip(s) ELSE FlushDeflater(s)
        EXCEPT !.ranges = rest,
               !.deflater = IF rest = <<>> THEN Null ELSE @]

\* The stream inside writeChunk(buffer), when the bytes have been taken.
Taken(s, buffer) ==
  LET e == EnterRange(s)
  IN Consume(e, SubSeq(buffer, 1, ChunkSize(e, Len(buffer))))

WriteChunk(s, buffer) ==
  LET t == Taken(s, buffer) IN IF AtRangeEnd(t) THEN FinishRange(t) ELSE t

\* What write() still has to hand over after that call.
Unwritten(s, buffer) ==
  SubSeq(buffer, 1 + ChunkSize(EnterRange(s), Len(buffer)), Len(buffer))

(***************************************************************************)
(* The call runs 7zz, which can fail: there is then no archive to read,    *)
(* normalOut.write(null, ...) throws and the spool file stays behind.      *)
(***************************************************************************)
RunsSevenZip(s, buffer) == AtRangeEnd(Taken(s, buffer)) /\ Taken(s, buffer).seven

AbandonRange(s, buffer) == Taken(s, buffer)

-----------------------------------------------------------------------------
(***************************************************************************)
(* What holds of a stream between two calls.                               *)
(***************************************************************************)

\* The ranges still to come are in order and disjoint.
RangesInOrder(s) ==
  \A k \in 2..Len(s.ranges) : End(s.ranges[k - 1]) <= s.ranges[k].offset

\* The stream compresses inside a range, and copies up to the next one.
WithinRange(s) ==
  /\ Compressing(s) =>
       /\ s.ranges # <<>>
       /\ Position(s) \in Head(s.ranges).offset..End(Head(s.ranges))
  /\ ~Compressing(s) /\ s.ranges # <<>> => Position(s) <= Head(s.ranges).offset

\* deflaterOut, deflater and lastDeflateParameters agree: the deflater in use
\* has the settings of the range, one kept for reuse those of the last range.
RightDeflater(s) ==
  /\ s.deflating => /\ ~s.seven
                    /\ s.deflater # Null
                    /\ s.deflater = Head(s.ranges).params
                    /\ s.deflater.strategy # SevenZip
  /\ ~s.deflating /\ s.deflater # Null =>
       /\ s.last # Null
       /\ s.deflater.nowrap = s.last.nowrap

=============================================================================
