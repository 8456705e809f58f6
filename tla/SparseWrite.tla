---------------------------- MODULE SparseWrite ----------------------------
(***************************************************************************)
(* AIO_fwriteSparse and AIO_fwriteSparseEnd (programs/fileio_asyncio.c):   *)
(* zeros are not written but skipped by a seek, whole words at the start   *)
(* of every segment and bytes after the last whole word; the skips at the  *)
(* end of a block are stored for the next one.                             *)
(*                                                                         *)
(* A file is its content and the gap a seek left behind it, which reads as *)
(* zeros once something is written after it.                               *)
(***************************************************************************)
EXTENDS Integers, Sequences, SequencesExt, FiniteSetsExt

CONSTANTS WordSize,      \* sizeof(size_t)
          SegmentWords,  \* segmentSizeT: words in 32 KB
          SkipLimit      \* 1 GB: a longer stored skip is taken in part

ASSUME SparseAssumption ==
  WordSize \in Nat \ {0} /\ SegmentWords \in Nat \ {0} /\ SkipLimit \in Nat \ {0}

Zeros(n) == [i \in 1..n |-> 0]

\* The file with all that was skipped in it.
Padded(file, skips) == file.content \o Zeros(file.gap + skips)

Seek(file, n) == [file EXCEPT !.gap = @ + n]

Fwrite(file, data) ==
  IF data = <<>> THEN file ELSE [content |-> Padded(file, 0) \o data, gap |-> 0]

\* How many bytes the zero units make up that part begins with.
LeadingZeros(part, unit) ==
  Max({n \in 0..Len(part) : n % unit = 0 /\ \A i \in 1..n : part[i] = 0})

\* Mutant of SkipOrWrite: what was skipped before is skipped again.
SkipOrWriteKeepingSkips(acc, part, unit) ==
  LET zeros == LeadingZeros(part, unit)
  IN IF zeros = Len(part)
     THEN [acc EXCEPT !.skips = @ + zeros]
     ELSE [file |-> Fwrite(Seek(acc.file, acc.skips + zeros),
                           SubSeq(part, zeros + 1, Len(part))),
           skips |-> acc.skips]

\* The zeros at the start of part are skipped, the rest is written.
SkipOrWrite(acc, part, unit) ==
  LET zeros == LeadingZeros(part, unit)
  IN IF zeros = Len(part)
     THEN [acc EXCEPT !.skips = @ + zeros]
     ELSE [file |-> Fwrite(Seek(acc.file, acc.skips + zeros),
                           SubSeq(part, zeros + 1, Len(part))),
           skips |-> 0]

WholeWords(data) == (Len(data) \div WordSize) * WordSize

Segments(data) ==
  LET size == SegmentWords * WordSize
  IN [i \in 1..((WholeWords(data) + size - 1) \div size) |->
        SubSeq(data, (i - 1) * size + 1, Min({i * size, WholeWords(data)}))]

\* The seek that keeps a stored skip from overflowing.
TakeLongSkip(acc) ==
  IF acc.skips > SkipLimit
  THEN [file |-> Seek(acc.file, SkipLimit), skips |-> acc.skips - SkipLimit]
  ELSE acc

\* AIO_fwriteSparse, with the file and the skips to store as its result.
fwriteSparse(file, data, sparse, skips) ==
  LET parts == Segments(data)
      words[k \in 0..Len(parts)] ==
        IF k = 0 THEN TakeLongSkip([file |-> file, skips |-> skips])
        ELSE SkipOrWrite(words[k - 1], parts[k], WordSize)
      whole == words[Len(parts)]
      rest == SubSeq(data, WholeWords(data) + 1, Len(data))
  IN IF sparse
     THEN IF rest = <<>> THEN whole ELSE SkipOrWrite(whole, rest, 1)
     ELSE [file |-> Fwrite(file, data), skips |-> 0]

\* The last zero is written, so that the file has the length of the skips.
fwriteSparseEnd(file, skips) ==
  IF skips > 0 THEN Fwrite(Seek(file, skips - 1), <<0>>) ELSE file

=============================================================================
