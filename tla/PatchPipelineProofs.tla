------------------------- MODULE PatchPipelineProofs -------------------------
(***************************************************************************)
(* Proofs about the way of the recompression plan from czlib to the        *)
(* applier: the blob process() writes and the places it reports, for every *)
(* list of ranges and every buffer; the patch reader, for every file; and  *)
(* the patch that is written, damaged and read.                            *)
(***************************************************************************)
EXTENDS PatchPipeline, SequenceTheorems, TLAPS

Data == INSTANCE PlanLemmas

-----------------------------------------------------------------------------
(***************************************************************************)
(* The reader on any file.                                                 *)
(***************************************************************************)

\* Where the last range that was read ends, as the reader computes it.
LastEnd(p) == IF p = <<>> THEN -1 ELSE Long(p[Len(p)].offset + p[Len(p)].length)

\* The plan at hand is the one lastReadOffset is about; the other one is
\* empty or complete.
ReaderInv ==
  /\ ReaderTypeOK
  /\ PlansReadInOrder
  /\ reading \in {"header", "old"} => newPlanRead = <<>>
  /\ reading = "header" => oldPlanRead = <<>>
  /\ reading = "old" => lastReadOffset = LastEnd(oldPlanRead)
  /\ reading = "new" => lastReadOffset = LastEnd(newPlanRead)

\* What is left of a file of integers is one.
LEMMA RestType ==
  ASSUME file \in Seq(Int), NEW n \in Nat, n <= Len(file)
  PROVE  Rest(n) \in Seq(Int)
<1>1. \A k \in (n + 1)..Len(file) : file[k] \in Int
  OBVIOUS
<1> QED BY <1>1 DEF Rest

\* A sum of longs is an integer.
LEMMA LongType == ASSUME NEW n \in Int PROVE Long(n) \in Int
  BY FormatAssumption DEF Long

\* A range that passes the check of its offset follows the one before it.
LEMMA AppendFollows ==
  ASSUME NEW S, NEW p \in Seq(S), NEW r \in S,
         \A s \in S : s.offset \in Nat /\ s.length \in Nat,
         RangesFollow(p),
         LastEnd(p) <= r.offset
  PROVE  RangesFollow(Append(p, r))
<1> DEFINE longer == Append(p, r)
<1>1. Len(longer) = Len(p) + 1 /\ Len(p) \in Nat /\ longer[Len(p) + 1] = r
  OBVIOUS
<1>2. \A k \in 1..Len(p) : longer[k] = p[k] /\ p[k] \in S
  OBVIOUS
<1> HIDE DEF longer
<1> SUFFICES ASSUME NEW k \in 2..Len(longer), EndFits(longer[k - 1])
             PROVE  Compression!End(longer[k - 1]) <= longer[k].offset
  BY DEF RangesFollow, longer
<1>3. k - 1 \in 1..Len(p) /\ longer[k - 1] = p[k - 1] /\ p[k - 1] \in S
  BY <1>1, <1>2
<1>4. CASE k <= Len(p)
  <2>1. k \in 2..Len(p) /\ longer[k] = p[k]
    BY <1>1, <1>2, <1>4
  <2> QED BY <1>3, <2>1 DEF RangesFollow
<1>5. CASE k = Len(p) + 1
  <2>1. longer[k] = r /\ k - 1 = Len(p) /\ p # <<>>
    BY <1>1, <1>3, <1>5
  <2>2. p[Len(p)].offset + p[Len(p)].length <= MaxLong
    BY <1>3, <2>1 DEF EndFits, Compression!End
  <2>3. LastEnd(p) = Compression!End(p[Len(p)])
    BY <1>3, <2>1, <2>2, FormatAssumption DEF LastEnd, Long, Compression!End
  <2> QED BY <1>3, <2>1, <2>3
<1> QED BY <1>1, <1>4, <1>5

\* If no end overflows, ranges that follow each other are in order: what Apply
\* and MThreadApply assume of a plan.
LEMMA FollowingIsInOrder ==
  ASSUME NEW S, NEW p \in Seq(S),
         \A s \in S : s.offset \in Nat /\ s.length \in Nat,
         RangesFollow(p),
         \A k \in 1..Len(p) : EndFits(p[k])
  PROVE  Compression!InOrder(p)
<1> SUFFICES ASSUME NEW k \in 1..Len(p)
             PROVE  /\ p[k].length >= 0
                    /\ Compression!StartOfGap(p, k) <= p[k].offset
  BY DEF Compression!InOrder
<1>1. p[k].length >= 0 /\ p[k].offset >= 0
  <2>1. p[k] \in S
    BY ElementOfSeq
  <2> QED BY <2>1
<1>2. CASE k = 1
  BY <1>1, <1>2 DEF Compression!StartOfGap
<1>3. CASE k # 1
  <2>1. k \in 2..Len(p) /\ k - 1 \in 1..Len(p)
    BY <1>3
  <2>2. Compression!End(p[k - 1]) <= p[k].offset
    BY <2>1 DEF RangesFollow
  <2> QED BY <1>1, <1>3, <2>2 DEF Compression!StartOfGap
<1> QED BY <1>2, <1>3

\* The end of a plan is the end of the range appended last.
LEMMA AppendLastEnd ==
  ASSUME NEW S, NEW p \in Seq(S), NEW r \in S
  PROVE  LastEnd(Append(p, r)) = Long(r.offset + r.length)
<1>1. Append(p, r) # <<>> /\ Append(p, r)[Len(Append(p, r))] = r
  OBVIOUS
<1> QED BY <1>1 DEF LastEnd

\* Before anything is read.
LEMMA ReaderStart == file \in Seq(Int) /\ ReaderInit => ReaderInv
  BY EmptySeq DEF ReaderInit, ReaderInv, ReaderTypeOK, PlansReadInOrder, LastEnd,
     RangesFollow

\* Every step of the reader preserves the invariant.
LEMMA ReaderStep == ReaderInv /\ [ReaderNext]_readerVars => ReaderInv'
<1> SUFFICES ASSUME ReaderInv, [ReaderNext]_readerVars PROVE ReaderInv'
  OBVIOUS
<1>0. ReaderTypeOK /\ PlansReadInOrder
  BY DEF ReaderInv
<1>1. CASE ReadHeader
  <2>1. Len(file) >= 4 /\ file[4] \in Nat
    BY <1>0, <1>1 DEF ReadHeader, HeaderIsGood, ReaderTypeOK
  <2>2. file' \in Seq(Int)
    BY <1>0, <1>1, <2>1, RestType DEF ReadHeader, ReaderTypeOK
  <2>3. ReaderTypeOK'
    BY <1>0, <1>1, <2>1, <2>2 DEF ReadHeader, ReaderTypeOK
  <2>4. PlansReadInOrder'
    BY <1>0, <1>1 DEF ReadHeader, PlansReadInOrder
  <2> QED BY <1>1, <2>3, <2>4 DEF ReadHeader, ReaderInv, LastEnd
<1>2. CASE ReadOldInstruction
  <2> DEFINE r == [offset |-> file[1], length |-> file[2]]
  <2>1. Len(file) >= 2 /\ file[1] \in Nat /\ file[2] \in Nat /\ lastReadOffset <= file[1]
    BY <1>0, <1>2 DEF ReadOldInstruction, RangeIsGood, ReaderTypeOK
  <2>2. file' \in Seq(Int)
    BY <1>0, <1>2, <2>1, RestType DEF ReadOldInstruction, ReaderTypeOK
  <2>3. r \in OldInstructionSet /\ oldPlanRead \in Seq(OldInstructionSet)
    BY <1>0, <2>1 DEF OldInstructionSet, ReaderTypeOK
  <2>4. oldPlanRead' = Append(oldPlanRead, r)
        /\ lastReadOffset' = Long(r.offset + r.length)
    BY <1>2 DEF ReadOldInstruction
  <2>5. ReaderTypeOK'
    <3>1. oldPlanRead' \in Seq(OldInstructionSet)
      BY <2>3, <2>4
    <3>2. lastReadOffset' \in Int
      <4>1. lastReadOffset' = Long(file[1] + file[2]) /\ file[1] + file[2] \in Int
        BY <1>2, <2>1 DEF ReadOldInstruction
      <4> QED BY <4>1, LongType
    <3> QED BY <1>0, <1>2, <2>2, <3>1, <3>2 DEF ReadOldInstruction, ReaderTypeOK
  <2>6. RangesFollow(oldPlanRead')
    <3>1. LastEnd(oldPlanRead) <= r.offset
      BY <1>2, <2>1 DEF ReadOldInstruction, ReaderInv
    <3>2. \A s \in OldInstructionSet : s.offset \in Nat /\ s.length \in Nat
      BY DEF OldInstructionSet
    <3>3. RangesFollow(oldPlanRead)
      BY <1>0 DEF PlansReadInOrder
    <3> HIDE DEF r
    <3>4. RangesFollow(Append(oldPlanRead, r))
      BY <2>3, <3>1, <3>2, <3>3, AppendFollows
    <3> QED BY <2>4, <3>4
  <2>7. PlansReadInOrder'
    BY <1>0, <1>2, <2>6 DEF ReadOldInstruction, PlansReadInOrder
  <2>8. lastReadOffset' = LastEnd(oldPlanRead')
    <3> HIDE DEF r
    <3> QED BY <2>3, <2>4, AppendLastEnd
  <2> QED BY <1>2, <2>5, <2>7, <2>8 DEF ReadOldInstruction, ReaderInv
<1>3. CASE ReadNewCount
  <2>1. Len(file) >= 1 /\ file[1] \in Nat
    BY <1>0, <1>3 DEF ReadNewCount, CountIsGood, ReaderTypeOK
  <2>2. file' \in Seq(Int)
    BY <1>0, <1>3, <2>1, RestType DEF ReadNewCount, ReaderTypeOK
  <2>3. ReaderTypeOK'
    BY <1>0, <1>3, <2>1, <2>2 DEF ReadNewCount, ReaderTypeOK
  <2>4. PlansReadInOrder'
    BY <1>0, <1>3 DEF ReadNewCount, PlansReadInOrder
  <2> QED BY <1>3, <2>3, <2>4 DEF ReadNewCount, ReaderInv, LastEnd
<1>4. CASE ReadNewInstruction
  <2> DEFINE params == [level |-> file[4], strategy |-> file[5], nowrap |-> file[6] = 1]
             r == [offset |-> file[1], length |-> file[2], params |-> params]
  <2>1. Len(file) >= 6 /\ file[1] \in Nat /\ file[2] \in Nat /\ lastReadOffset <= file[1]
    BY <1>0, <1>4 DEF ReadNewInstruction, RangeIsGood, ReaderTypeOK
  <2>2. file' \in Seq(Int)
    BY <1>0, <1>4, <2>1, RestType DEF ReadNewInstruction, ReaderTypeOK
  <2>3. params \in Compression!Params
    BY <1>4 DEF ReadNewInstruction, ParamsAreGood, Compression!Params
  <2>4. r \in Compression!Ranges /\ newPlanRead \in Seq(Compression!Ranges)
    BY <1>0, <2>1, <2>3 DEF Compression!Ranges, ReaderTypeOK
  <2>5. newPlanRead' = Append(newPlanRead, r)
        /\ lastReadOffset' = Long(r.offset + r.length)
    BY <1>4 DEF ReadNewInstruction
  <2>6. ReaderTypeOK'
    <3>1. newPlanRead' \in Seq(Compression!Ranges)
      BY <2>4, <2>5
    <3>2. lastReadOffset' \in Int
      <4>1. lastReadOffset' = Long(file[1] + file[2]) /\ file[1] + file[2] \in Int
        BY <1>4, <2>1 DEF ReadNewInstruction
      <4> QED BY <4>1, LongType
    <3> QED BY <1>0, <1>4, <2>2, <3>1, <3>2 DEF ReadNewInstruction, ReaderTypeOK
  <2>7. RangesFollow(newPlanRead')
    <3>1. LastEnd(newPlanRead) <= r.offset
      BY <1>4, <2>1 DEF ReadNewInstruction, ReaderInv
    <3>2. \A s \in Compression!Ranges : s.offset \in Nat /\ s.length \in Nat
      BY DEF Compression!Ranges
    <3>3. RangesFollow(newPlanRead)
      BY <1>0 DEF PlansReadInOrder
    <3> HIDE DEF r
    <3>4. RangesFollow(Append(newPlanRead, r))
      BY <2>4, <3>1, <3>2, <3>3, AppendFollows
    <3> QED BY <2>5, <3>4
  <2>8. \A k \in 1..Len(newPlanRead') :
          Exist(newPlanRead'[k].params.level, newPlanRead'[k].params.strategy)
    <3>1. Exist(r.params.level, r.params.strategy)
      BY <1>4 DEF ReadNewInstruction
    <3>2. \A k \in 1..Len(newPlanRead) :
            Exist(newPlanRead[k].params.level, newPlanRead[k].params.strategy)
      BY <1>0 DEF PlansReadInOrder
    <3> HIDE DEF r
    <3>3. TAKE k \in 1..Len(newPlanRead')
    <3>4. newPlanRead'[k] = IF k <= Len(newPlanRead) THEN newPlanRead[k] ELSE r
      BY <2>4, <2>5
    <3>5. k <= Len(newPlanRead) => k \in 1..Len(newPlanRead)
      BY <2>4, <2>5
    <3> QED BY <3>1, <3>2, <3>4, <3>5
  <2>9. PlansReadInOrder'
    BY <1>0, <1>4, <2>7, <2>8 DEF ReadNewInstruction, PlansReadInOrder
  <2>10. lastReadOffset' = LastEnd(newPlanRead')
    <3> HIDE DEF r
    <3> QED BY <2>4, <2>5, AppendLastEnd
  <2> QED BY <1>4, <2>6, <2>9, <2>10 DEF ReadNewInstruction, ReaderInv
<1>5. CASE ReadDescriptor
  <2>1. file' \in Seq(Int)
    BY <1>0, <1>5, RestType DEF ReadDescriptor, DescriptorIsGood, ReaderTypeOK
  <2>2. ReaderTypeOK'
    BY <1>0, <1>5, <2>1 DEF ReadDescriptor, ReaderTypeOK
  <2>3. PlansReadInOrder'
    BY <1>0, <1>5 DEF ReadDescriptor, PlansReadInOrder
  <2> QED BY <1>5, <2>2, <2>3 DEF ReadDescriptor, ReaderInv
<1>6. CASE NoSuchParameters \/ Refuse
  <2>1. ReaderTypeOK'
    BY <1>0, <1>6 DEF NoSuchParameters, Refuse, ReaderTypeOK
  <2>2. PlansReadInOrder'
    BY <1>0, <1>6 DEF NoSuchParameters, Refuse, PlansReadInOrder
  <2> QED BY <1>6, <2>1, <2>2 DEF NoSuchParameters, Refuse, ReaderInv
<1>7. CASE UNCHANGED readerVars
  BY <1>7 DEF readerVars, ReaderInv, ReaderTypeOK, PlansReadInOrder
<1> QED BY <1>1, <1>2, <1>3, <1>4, <1>5, <1>6, <1>7 DEF ReaderNext

\* The invariant holds throughout.
LEMMA ReaderInvariant == ReaderSpec => []ReaderInv
  BY ReaderStart, ReaderStep, PTL DEF ReaderSpec

\* On every file, whatever its fields hold, the reader's variables keep their
\* types: what it takes in are non-negative ranges and parameters within their
\* bounds (checkNonNegative, checkRange).
THEOREM ReaderTypeCorrect == ReaderSpec => []ReaderTypeOK
<1>1. ReaderInv => ReaderTypeOK
  BY DEF ReaderInv
<1> QED BY <1>1, ReaderInvariant, PTL

\* Whatever a file holds, each range PatchReader takes in lies after the one
\* before it, unless the end of that one overflows, and has parameters that
\* JreDeflateParameters has.
THEOREM ReadsInOrder == ReaderSpec => []PlansReadInOrder
<1>1. ReaderInv => PlansReadInOrder
  BY DEF ReaderInv
<1> QED BY <1>1, ReaderInvariant, PTL

\* A plan read from any file, none of whose ends overflows, meets what Apply and
\* MThreadApply assume of their plans.
THEOREM ReadPlansAreUsable ==
  ReaderSpec =>
    [](/\ newPlanRead \in Seq(Compression!Ranges)
       /\ (\A k \in 1..Len(newPlanRead) : EndFits(newPlanRead[k])) =>
            Compression!InOrder(newPlanRead))
<1>1. ReaderInv => /\ newPlanRead \in Seq(Compression!Ranges)
                   /\ (\A k \in 1..Len(newPlanRead) : EndFits(newPlanRead[k])) =>
                        Compression!InOrder(newPlanRead)
  <2> SUFFICES ASSUME ReaderInv, \A k \in 1..Len(newPlanRead) : EndFits(newPlanRead[k])
               PROVE  Compression!InOrder(newPlanRead)
    BY DEF ReaderInv, ReaderTypeOK
  <2>1. newPlanRead \in Seq(Compression!Ranges) /\ RangesFollow(newPlanRead)
    BY DEF ReaderInv, ReaderTypeOK, PlansReadInOrder
  <2>2. \A s \in Compression!Ranges : s.offset \in Nat /\ s.length \in Nat
    BY DEF Compression!Ranges
  <2> QED BY <2>1, <2>2, FollowingIsInOrder
<1> QED BY <1>1, ReaderInvariant, PTL

-----------------------------------------------------------------------------
(***************************************************************************)
(* The blob that process() writes.                                         *)
(***************************************************************************)
BlobBytes == {CopiedByte(p) : p \in Int} \union {InflatedByte(o, k) : o \in Int, k \in Int}
               \union {Stale}

\* The bytes of the old file that process() copies.
LEMMA SpanType ==
  ASSUME NEW lo \in Nat, NEW hi \in Nat, lo <= hi
  PROVE  Span(lo, hi) \in Seq(BlobBytes) /\ Len(Span(lo, hi)) = hi - lo
<1>1. \A k \in 1..(hi - lo) : CopiedByte(lo + k - 1) \in BlobBytes
  BY DEF BlobBytes
<1> QED BY <1>1, IsASeq DEF Span

\* Two spans make one.
LEMMA SpanConcat ==
  ASSUME NEW lo \in Nat, NEW mid \in Nat, NEW hi \in Nat, lo <= mid, mid <= hi
  PROVE  Span(lo, mid) \o Span(mid, hi) = Span(lo, hi)
BY DEF Span

\* The bytes that process() inflates from a range.
LEMMA InflatedType ==
  ASSUME NEW r, r.offset \in Nat, NEW n \in Nat
  PROVE  Inflated(r, n) \in Seq(BlobBytes) /\ Len(Inflated(r, n)) = n
<1>1. \A k \in 1..n : InflatedByte(r.offset, k) \in BlobBytes
  BY DEF BlobBytes
<1> QED BY <1>1, IsASeq DEF Inflated

\* The ranges of a list are in order and inside the file.
LEMMA ListTypes ==
  ASSUME NEW l \in RangeLists
  PROVE  /\ Len(l) \in Nat
         /\ \A k \in 1..Len(l) :
              /\ l[k].offset \in Nat /\ l[k].length \in Nat /\ l[k].size \in Nat
              /\ l[k].valid \in BOOLEAN
              /\ LastReadOffset(l, k - 1) \in Nat
              /\ LastReadOffset(l, k - 1) <= l[k].offset
              /\ l[k].offset + l[k].length <= FileLen
<1>1. l \in Seq([offset : Nat, length : Nat, size : Nat, valid : BOOLEAN])
  BY CzlibAssumption
<1>2. ASSUME NEW k \in 1..Len(l)
      PROVE  l[k] \in [offset : Nat, length : Nat, size : Nat, valid : BOOLEAN]
  BY <1>1, ElementOfSeq
<1>3. Len(l) \in Nat
  BY <1>1
<1>4. \A k \in 1..Len(l) : LastReadOffset(l, k - 1) \in Nat
  BY <1>2, <1>3 DEF LastReadOffset
<1> QED BY <1>2, <1>3, <1>4, CzlibAssumption

\* The recursive function of the reference makes its steps.
LEMMA FriendlyUnrolls ==
  ASSUME NEW l \in RangeLists
  PROVE  /\ FriendlyUpTo(l) \in [0..Len(l) -> Seq(BlobBytes)]
         /\ FriendlyUpTo(l)[0] = <<>>
         /\ \A k \in 1..Len(l) :
              FriendlyUpTo(l)[k] = FriendlyUpTo(l)[k - 1]
                \o Span(LastReadOffset(l, k - 1), l[k].offset) \o Inflated(l[k], l[k].size)
<1> DEFINE n == Len(l)
           A(k) == Span(LastReadOffset(l, k - 1), l[k].offset)
           B(k) == Inflated(l[k], l[k].size)
           F(h) == [k \in 0..n |-> IF k = 0 THEN <<>> ELSE h[k - 1] \o A(k) \o B(k)]
           piece == [k \in 1..n |-> A(k) \o B(k)]
<1>1. n \in Nat
  BY ListTypes
<1>2. \A k \in 1..n : A(k) \in Seq(BlobBytes) /\ B(k) \in Seq(BlobBytes)
  BY ListTypes, SpanType, InflatedType
<1>3. piece \in [1..n -> Seq(BlobBytes)]
  <2> HIDE DEF A, B
  <2> QED BY <1>2, ConcatProperties
<1>4. PICK h : Data!Concatenates(h, n, BlobBytes, piece)
  <2> HIDE DEF piece, n
  <2> QED BY <1>1, <1>3, Data!ConcatenationExists
<1>5. h = F(h)
  <2> HIDE DEF A, B
  <2>1. \A k \in 1..n : h[k] = h[k - 1] \o A(k) \o B(k)
    <3> SUFFICES ASSUME NEW k \in 1..n PROVE h[k] = h[k - 1] \o A(k) \o B(k)
      OBVIOUS
    <3>1. h[k] = h[k - 1] \o piece[k]
      <4> HIDE DEF piece, n
      <4> QED BY <1>4 DEF Data!Concatenates
    <3>2. h[k - 1] \in Seq(BlobBytes)
      <4> HIDE DEF piece, n
      <4> QED BY <1>1, <1>4 DEF Data!Concatenates
    <3>3. piece[k] = A(k) \o B(k)
      OBVIOUS
    <3>4. A(k) \in Seq(BlobBytes) /\ B(k) \in Seq(BlobBytes)
      BY <1>2
    <3>5. (h[k - 1] \o A(k)) \o B(k) = h[k - 1] \o (A(k) \o B(k))
      <4> DEFINE a == h[k - 1]
                 b == A(k)
                 c == B(k)
      <4>1. a \in Seq(BlobBytes) /\ b \in Seq(BlobBytes) /\ c \in Seq(BlobBytes)
        BY <3>2, <3>4
      <4> HIDE DEF a, b, c
      <4>2. (a \o b) \o c = a \o (b \o c)
        BY <4>1, ConcatAssociative
      <4> QED BY <4>2 DEF a, b, c
    <3> QED BY <3>1, <3>3, <3>5
  <2> QED BY <1>4, <2>1 DEF Data!Concatenates
<1>6. FriendlyUpTo(l) = CHOOSE g : g = F(g)
  BY DEF FriendlyUpTo
<1>7. FriendlyUpTo(l) = F(FriendlyUpTo(l))
  <2> HIDE DEF F
  <2> QED BY <1>5, <1>6
<1> DEFINE U == FriendlyUpTo(l)
<1>8. U = F(U)
  BY <1>7
<1>9. \A k \in 1..n : A(k) \o B(k) \in Seq(BlobBytes)
  <2> HIDE DEF A, B
  <2> QED BY <1>2, ConcatProperties
<1>10. U[0] = <<>> /\ \A k \in 1..n : U[k] = U[k - 1] \o A(k) \o B(k)
  <2> HIDE DEF U, A, B
  <2>1. 0 \in 0..n /\ \A k \in 1..n : k \in 0..n /\ k # 0
    BY <1>1
  <2>2. \A k \in 0..n : U[k] = IF k = 0 THEN <<>> ELSE U[k - 1] \o A(k) \o B(k)
    BY <1>8, Zenon
  <2> QED BY <2>1, <2>2
<1>11. U \in [0..n -> Seq(BlobBytes)]
  <2>0. DOMAIN U = 0..n /\ U = [k \in DOMAIN U |-> U[k]]
    <3> HIDE DEF U, A, B
    <3> QED BY <1>8
  <2> DEFINE T == {k \in 0..n : U[k] \in Seq(BlobBytes)}
  <2>1. 0 \in T
    <3> HIDE DEF U
    <3>1. <<>> \in Seq(BlobBytes)
      BY EmptySeq
    <3>2. U[0] = <<>>
      BY <1>10
    <3>3. U[0] \in Seq(BlobBytes)
      BY <3>1, <3>2, Zenon
    <3> QED BY <1>1, <3>3
  <2>2. ASSUME NEW k \in 0..(n - 1), k \in T PROVE k + 1 \in T
    <3> DEFINE m == k + 1
    <3>1. m \in 1..n /\ m - 1 = k
      BY <1>1
    <3> HIDE DEF m, U, A, B
    <3>2. U[m] = U[m - 1] \o A(m) \o B(m) /\ U[m - 1] \in Seq(BlobBytes)
       BY <1>10, <2>2, <3>1
    <3>3. U[m] \in Seq(BlobBytes)
       BY <3>1, <3>2, <1>2, ConcatProperties
    <3> QED BY <3>1, <3>3 DEF m
  <2> HIDE DEF T
  <2>3. 0..n \subseteq T
    BY <1>1, <2>1, <2>2, Data!IntervalInduction
  <2> HIDE DEF U
  <2> QED BY <2>0, <2>3 DEF T
<1> HIDE DEF U, A, B
<1> QED BY <1>10, <1>11 DEF U, A, B

\* A sequence that is extended keeps what it had.
LEMMA Extended ==
  ASSUME NEW S, NEW base \in Seq(S), NEW more \in Seq(S)
  PROVE  /\ base \o more \in Seq(S)
         /\ Len(base) \in Nat /\ Len(more) \in Nat
         /\ Len(base \o more) = Len(base) + Len(more)
         /\ \A j \in 1..Len(base) : (base \o more)[j] = base[j]
         /\ \A j \in 1..Len(more) : (base \o more)[Len(base) + j] = more[j]
BY ConcatProperties

-----------------------------------------------------------------------------
(***************************************************************************)
(* The inductive invariant of process().  While nothing has failed, the    *)
(* file position and curPos are where the reference has read to, and the   *)
(* blob is the reference's blob up to there; the entries that were         *)
(* overwritten follow one another.                                         *)
(***************************************************************************)
ProcessTypeOK ==
  /\ ranges \in RangeLists
  /\ reverse \in BOOLEAN /\ flag \in BOOLEAN
  /\ pc \in {"loop", "gap", "inflate", "tail", "copyTail", "returned"}
  /\ i \in 1..(Len(ranges) + 1)
  /\ at \in Nat /\ curPos \in Nat /\ left \in Nat
  /\ friBlob \in Seq(BlobBytes)
  /\ pos \in [1..Len(ranges) -> Nat] /\ length \in [1..Len(ranges) -> Nat]

\* The reference's blob up to position p of the file, inside the gap before
\* the range at hand.
FriendlyTo(p) ==
  FriendlyUpTo(ranges)[i - 1] \o Span(LastReadOffset(ranges, i - 1), p)

Place ==
  /\ pc \in {"loop", "gap", "inflate"} => flag
  /\ pc = "loop" => /\ at = LastReadOffset(ranges, i - 1) /\ curPos = at
                    /\ friBlob = FriendlyUpTo(ranges)[i - 1]
  /\ pc = "gap" => /\ i <= Len(ranges)
                   /\ LastReadOffset(ranges, i - 1) <= at
                   /\ at + left = curPos /\ curPos = ranges[i].offset
                   /\ friBlob = FriendlyTo(at)
  /\ pc = "inflate" => /\ i <= Len(ranges)
                       /\ curPos = ranges[i].offset
                       /\ friBlob = FriendlyTo(curPos)
  /\ pc \in {"tail", "copyTail", "returned"} /\ flag => i = Len(ranges) + 1
  /\ \A k \in i..Len(ranges) : pos[k] = ranges[k].offset

Prefixes ==
  \A k \in 0..(i - 1) :
    /\ Len(FriendlyUpTo(ranges)[k]) <= Len(friBlob)
    /\ \A j \in 1..Len(FriendlyUpTo(ranges)[k]) :
         friBlob[j] = FriendlyUpTo(ranges)[k][j]

Located ==
  reverse =>
    \A k \in 1..(i - 1) :
      /\ length[k] = ranges[k].size
      /\ pos[k] + length[k] <= Len(friBlob)
      /\ \A j \in 1..length[k] : friBlob[pos[k] + j] = InflatedByte(ranges[k].offset, j)

EntriesInOrder ==
  reverse => \A k \in 2..(i - 1) : pos[k - 1] + length[k - 1] <= pos[k]

ProcessInv == ProcessTypeOK /\ Place /\ Prefixes /\ Located /\ EntriesInOrder

\* What the invariant says of the range at hand.
LEMMA AtHand ==
  ASSUME ProcessTypeOK
  PROVE  /\ Len(ranges) \in Nat
         /\ FriendlyUpTo(ranges)[i - 1] \in Seq(BlobBytes)
         /\ LastReadOffset(ranges, i - 1) \in Nat
         /\ i <= Len(ranges) =>
              /\ i \in 1..Len(ranges)
              /\ ranges[i].offset \in Nat /\ ranges[i].length \in Nat
              /\ ranges[i].size \in Nat /\ ranges[i].valid \in BOOLEAN
              /\ LastReadOffset(ranges, i - 1) <= ranges[i].offset
              /\ ranges[i].offset + ranges[i].length <= FileLen
<1>1. Len(ranges) \in Nat /\ ranges \in RangeLists /\ i \in 1..(Len(ranges) + 1)
  BY ListTypes DEF ProcessTypeOK
<1>2. FriendlyUpTo(ranges) \in [0..Len(ranges) -> Seq(BlobBytes)] /\ i - 1 \in 0..Len(ranges)
  <2>1. FriendlyUpTo(ranges) \in [0..Len(ranges) -> Seq(BlobBytes)]
    BY <1>1, FriendlyUnrolls
  <2> QED BY <1>1, <2>1
<1>3. i <= Len(ranges) => i \in 1..Len(ranges)
  BY <1>1
<1>4. \A k \in 1..Len(ranges) : ranges[k].offset \in Nat /\ ranges[k].length \in Nat
  BY <1>1, ListTypes
<1>5. LastReadOffset(ranges, i - 1) \in Nat
  <2>1. i - 1 = 0 \/ i - 1 \in 1..Len(ranges)
    BY <1>1
  <2> QED BY <2>1, <1>4 DEF LastReadOffset
<1>6. FriendlyUpTo(ranges)[i - 1] \in Seq(BlobBytes)
  BY <1>2
<1> QED BY <1>1, <1>3, <1>5, <1>6, ListTypes

\* Nothing is written yet.
LEMMA ProcessStart == Init => ProcessInv
<1> SUFFICES ASSUME Init PROVE ProcessInv
  OBVIOUS
<1>1. Len(ranges) \in Nat /\ ranges \in RangeLists
      /\ \A k \in 1..Len(ranges) : ranges[k].offset \in Nat /\ ranges[k].length \in Nat
  BY ListTypes DEF Init
<1>2. friBlob \in Seq(BlobBytes)
  <2>1. <<>> \in Seq(BlobBytes)
    BY EmptySeq
  <2> QED BY <2>1 DEF Init
<1>3. i = 1 /\ pos \in [1..Len(ranges) -> Nat] /\ length \in [1..Len(ranges) -> Nat]
      /\ \A k \in 1..Len(ranges) : pos[k] = ranges[k].offset
  BY <1>1 DEF Init
<1>4. ProcessTypeOK
  BY <1>1, <1>2, <1>3 DEF Init, ProcessTypeOK
<1>5. FriendlyUpTo(ranges)[0] = <<>> /\ LastReadOffset(ranges, 0) = 0
  BY <1>1, FriendlyUnrolls DEF LastReadOffset
<1>6. Place
  BY <1>3, <1>5 DEF Init, Place
<1>7. Prefixes
  <2>1. friBlob = <<>> /\ Len(<<>>) = 0 /\ \A k \in 0..(i - 1) : k = 0
    BY <1>3, EmptySeq DEF Init
  <2> QED BY <2>1, <1>5 DEF Prefixes
<1>8. Located /\ EntriesInOrder
  BY <1>3 DEF Located, EntriesInOrder
<1> QED BY <1>4, <1>6, <1>7, <1>8 DEF ProcessInv

\* The blob only grows, so that what was right about its beginning stays so.
LEMMA BlobGrows ==
  ASSUME ProcessInv, NEW x \in Seq(BlobBytes), friBlob' = friBlob \o x,
         UNCHANGED <<ranges, reverse, i, pos, length>>
  PROVE  friBlob' \in Seq(BlobBytes) /\ Prefixes' /\ Located' /\ EntriesInOrder'
<1>1. friBlob \in Seq(BlobBytes) /\ i \in 1..(Len(ranges) + 1) /\ ranges \in RangeLists
      /\ pos \in [1..Len(ranges) -> Nat] /\ length \in [1..Len(ranges) -> Nat]
  BY DEF ProcessInv, ProcessTypeOK
<1>2. /\ friBlob' \in Seq(BlobBytes) /\ Len(friBlob) \in Nat /\ Len(friBlob') \in Nat
      /\ Len(friBlob) <= Len(friBlob')
      /\ \A j \in 1..Len(friBlob) : friBlob'[j] = friBlob[j]
  BY <1>1, Extended
<1>3. Prefixes'
  <2> SUFFICES ASSUME NEW k \in 0..(i - 1)
               PROVE  /\ Len(FriendlyUpTo(ranges)[k]) <= Len(friBlob')
                      /\ \A j \in 1..Len(FriendlyUpTo(ranges)[k]) :
                           friBlob'[j] = FriendlyUpTo(ranges)[k][j]
    BY DEF Prefixes
  <2>1. k \in 0..Len(ranges) /\ Len(ranges) \in Nat
    BY <1>1, ListTypes
  <2>2. Len(FriendlyUpTo(ranges)[k]) \in Nat
    <3>1. FriendlyUpTo(ranges)[k] \in Seq(BlobBytes)
      BY <1>1, <2>1, FriendlyUnrolls
    <3> QED BY <3>1, LenProperties
  <2>3. /\ Len(FriendlyUpTo(ranges)[k]) <= Len(friBlob)
        /\ \A j \in 1..Len(FriendlyUpTo(ranges)[k]) :
             friBlob[j] = FriendlyUpTo(ranges)[k][j]
    BY DEF ProcessInv, Prefixes
  <2> QED BY <1>2, <2>2, <2>3
<1>4. Located'
  <2> SUFFICES ASSUME reverse, NEW k \in 1..(i - 1)
               PROVE  /\ length[k] = ranges[k].size
                      /\ pos[k] + length[k] <= Len(friBlob')
                      /\ \A j \in 1..length[k] :
                           friBlob'[pos[k] + j] = InflatedByte(ranges[k].offset, j)
    BY DEF Located
  <2>1. k \in 1..Len(ranges)
    BY <1>1, ListTypes
  <2>2. pos[k] \in Nat /\ length[k] \in Nat
    BY <1>1, <2>1
  <2>3. /\ length[k] = ranges[k].size
        /\ pos[k] + length[k] <= Len(friBlob)
        /\ \A j \in 1..length[k] : friBlob[pos[k] + j] = InflatedByte(ranges[k].offset, j)
    BY DEF ProcessInv, Located
  <2>4. \A j \in 1..length[k] : pos[k] + j \in 1..Len(friBlob)
    BY <1>2, <2>2, <2>3
  <2>5. ASSUME NEW j \in 1..length[k]
        PROVE  friBlob'[pos[k] + j] = InflatedByte(ranges[k].offset, j)
    BY <1>2, <2>3, <2>4
  <2>6. pos[k] + length[k] <= Len(friBlob')
    BY <1>2, <2>2, <2>3
  <2> QED BY <2>3, <2>5, <2>6
<1>5. EntriesInOrder'
  BY DEF ProcessInv, EntriesInOrder
<1> QED BY <1>2, <1>3, <1>4, <1>5

\* The head of the loop finds the reference's position.
LEMMA EnterRangeStep == ProcessInv /\ EnterRange => ProcessInv'
<1> SUFFICES ASSUME ProcessInv, EnterRange PROVE ProcessInv'
  OBVIOUS
<1>1. ProcessTypeOK /\ Place /\ i <= Len(ranges)
  BY DEF ProcessInv, EnterRange
<1> DEFINE last == LastReadOffset(ranges, i - 1)
<1>2. /\ last \in Nat /\ ranges[i].offset \in Nat /\ last <= ranges[i].offset
      /\ i \in 1..Len(ranges) /\ Len(ranges) \in Nat
  BY <1>1, AtHand
<1>3. flag /\ at = last /\ curPos = last /\ friBlob = FriendlyUpTo(ranges)[i - 1]
      /\ pos[i] = ranges[i].offset
  BY <1>1, <1>2 DEF Place, EnterRange
<1>4. Span(last, last) = <<>> /\ friBlob \o <<>> = friBlob
  <2>1. Span(last, last) = <<>>
    BY <1>2 DEF Span
  <2> QED BY <1>1, <2>1, ConcatEmptySeq DEF ProcessTypeOK
<1>5. UNCHANGED <<ranges, reverse, i, at, friBlob, pos, length, flag>>
  BY DEF EnterRange
<1>6. Prefixes' /\ Located' /\ EntriesInOrder'
  BY <1>5 DEF ProcessInv, Prefixes, Located, EntriesInOrder
<1>7. CASE pos[i] > curPos
  <2>1. pc' = "gap" /\ left' = pos[i] - curPos /\ curPos' = pos[i]
    BY <1>7 DEF EnterRange
  <2>2. left' \in Nat /\ curPos' \in Nat /\ at + left' = curPos'
    BY <1>2, <1>3, <1>7, <2>1
  <2>3. ProcessTypeOK'
    BY <1>1, <1>5, <2>1, <2>2 DEF ProcessTypeOK
  <2>4. friBlob = FriendlyTo(at)
    <3> HIDE DEF last
    <3> QED BY <1>3, <1>4 DEF FriendlyTo, last
  <2>5. Place'
    <3> HIDE DEF last
    <3>1. last <= at
      BY <1>2, <1>3
    <3> QED BY <1>1, <1>3, <1>5, <2>1, <2>2, <2>4, <3>1 DEF Place, FriendlyTo, last
  <2> QED BY <1>6, <2>3, <2>5 DEF ProcessInv
<1>8. CASE ~(pos[i] > curPos)
  <2>1. pc' = "inflate" /\ UNCHANGED <<left, curPos>>
    BY <1>8 DEF EnterRange
  <2>2. ProcessTypeOK'
    BY <1>1, <1>5, <2>1 DEF ProcessTypeOK
  <2>3. curPos = ranges[i].offset
    BY <1>2, <1>3, <1>8
  <2>4. friBlob = FriendlyTo(curPos)
    <3> HIDE DEF last
    <3> QED BY <1>3, <1>4 DEF FriendlyTo, last
  <2>5. Place'
    BY <1>1, <1>3, <1>5, <2>1, <2>3, <2>4 DEF Place, FriendlyTo
  <2> QED BY <1>6, <2>2, <2>5 DEF ProcessInv
<1> QED BY <1>7, <1>8

\* Two spans of the file, one after the other, continue the reference's blob.
LEMMA FriendlyContinues ==
  ASSUME ProcessTypeOK, NEW p \in Nat, NEW q \in Nat,
         LastReadOffset(ranges, i - 1) <= p, p <= q
  PROVE  FriendlyTo(p) \o Span(p, q) = FriendlyTo(q)
<1> DEFINE a == FriendlyUpTo(ranges)[i - 1]
           b == Span(LastReadOffset(ranges, i - 1), p)
           c == Span(p, q)
<1>1. a \in Seq(BlobBytes) /\ LastReadOffset(ranges, i - 1) \in Nat
  BY AtHand
<1>2. b \in Seq(BlobBytes) /\ c \in Seq(BlobBytes)
  BY <1>1, SpanType
<1>3. b \o c = Span(LastReadOffset(ranges, i - 1), q)
  BY <1>1, SpanConcat
<1>4. FriendlyTo(p) = a \o b /\ FriendlyTo(q) = a \o (b \o c)
  BY <1>3 DEF FriendlyTo
<1>5. a \in Seq(BlobBytes) /\ b \in Seq(BlobBytes) /\ c \in Seq(BlobBytes)
  BY <1>1, <1>2
<1> HIDE DEF a, b, c
<1>6. (a \o b) \o c = a \o (b \o c)
  BY <1>5, ConcatAssociative
<1> QED BY <1>4, <1>6 DEF c

\* In a gap fread delivers what is asked for, because the file position is
\* inside the file; in the tail it need not.
LEMMA CopyBytesStep == ProcessInv /\ CopyBytes => ProcessInv'
<1> SUFFICES ASSUME ProcessInv, CopyBytes PROVE ProcessInv'
  OBVIOUS
<1> DEFINE n == Lower(left, Chunk)
           got == IF at >= FileLen THEN 0 ELSE Lower(n, FileLen - at)
           read == Span(at, at + got)
           stale == [k \in 1..(n - got) |-> Stale]
<1>1. ProcessTypeOK /\ Place
  BY DEF ProcessInv
<1>2. UNCHANGED <<ranges, reverse, pc, i, curPos, pos, length, flag>>
      /\ pc \in {"gap", "copyTail"}
  BY DEF CopyBytes
<1>3. /\ at \in Nat /\ left \in Nat /\ left > 0 /\ n \in Nat /\ n <= left
      /\ got \in Nat /\ got <= n
  BY <1>1, CzlibAssumption DEF CopyBytes, ProcessTypeOK, Lower
<1>4. friBlob' = friBlob \o read \o stale /\ at' = at + got /\ left' = left - n
  BY DEF CopyBytes
<1>5. read \in Seq(BlobBytes) /\ stale \in Seq(BlobBytes) /\ friBlob \in Seq(BlobBytes)
  <2>1. read \in Seq(BlobBytes)
    <3> HIDE DEF got, n
    <3>1. at + got \in Nat /\ at <= at + got
      BY <1>3
    <3> QED BY <1>3, <3>1, SpanType
  <2>2. stale \in Seq(BlobBytes)
    <3>1. Stale \in BlobBytes
      BY DEF BlobBytes
    <3> HIDE DEF got, n
    <3> QED BY <1>3, <3>1
  <2> QED BY <1>1, <2>1, <2>2 DEF ProcessTypeOK
<1> HIDE DEF read, stale
<1>6. friBlob' = friBlob \o (read \o stale) /\ read \o stale \in Seq(BlobBytes)
  BY <1>4, <1>5, ConcatAssociative, ConcatProperties
<1>7. friBlob' \in Seq(BlobBytes) /\ Prefixes' /\ Located' /\ EntriesInOrder'
  <2> DEFINE x == read \o stale
  <2>1. x \in Seq(BlobBytes) /\ friBlob' = friBlob \o x
    BY <1>6
  <2>2. UNCHANGED <<ranges, reverse, i, pos, length>>
    BY <1>2
  <2> HIDE DEF x
  <2> QED BY <2>1, <2>2, BlobGrows
<1>8. ProcessTypeOK'
  <2>1. at' \in Nat /\ left' \in Nat
    <3> HIDE DEF got, n
    <3> QED BY <1>3, <1>4
  <2> QED BY <1>1, <1>2, <1>7, <2>1 DEF ProcessTypeOK
<1>9. CASE pc = "gap"
  <2>1. /\ i <= Len(ranges) /\ LastReadOffset(ranges, i - 1) <= at
        /\ at + left = curPos /\ curPos = ranges[i].offset
        /\ friBlob = FriendlyTo(at)
    BY <1>1, <1>9 DEF Place
  <2>2. at + left <= FileLen /\ FileLen \in Nat
    BY <1>1, <2>1, AtHand, CzlibAssumption
  <2>3. got = n
    <3>1. ~(at >= FileLen) /\ n <= FileLen - at /\ FileLen - at \in Int
      <4> HIDE DEF n
      <4> QED BY <1>3, <2>2
    <3> HIDE DEF n
    <3> QED BY <3>1 DEF Lower
  <2>4. stale = <<>>
    BY <2>3, <1>3 DEF stale
  <2>5. friBlob' = friBlob \o read
    BY <1>4, <1>5, <2>4, ConcatEmptySeq, ConcatProperties
  <2>6. friBlob' = FriendlyTo(at')
    <3>1. at' \in Nat /\ at <= at' /\ read = Span(at, at')
      <4>1. at' \in Nat /\ at <= at'
        <5> HIDE DEF got, n
        <5> QED BY <1>3, <1>4
      <4> QED BY <1>4, <4>1 DEF read
    <3> QED BY <1>1, <1>3, <2>1, <2>5, <3>1, FriendlyContinues
  <2>7. LastReadOffset(ranges, i - 1) <= at' /\ at' + left' = curPos
    <3>1. LastReadOffset(ranges, i - 1) \in Nat
      BY <1>1, AtHand
    <3> HIDE DEF got, n
    <3> QED BY <1>3, <1>4, <2>1, <2>3, <3>1
  <2>8. Place'
    BY <1>1, <1>2, <1>9, <2>1, <2>6, <2>7 DEF Place, FriendlyTo
  <2> QED BY <1>7, <1>8, <2>8 DEF ProcessInv
<1>10. CASE pc = "copyTail"
  <2>1. Place'
    BY <1>1, <1>2, <1>10 DEF Place
  <2> QED BY <1>7, <1>8, <2>1 DEF ProcessInv
<1> QED BY <1>2, <1>9, <1>10

\* The steps that only move on.
LEMMA QuietStep ==
  ProcessInv /\ (LeaveLoop \/ GapCopied \/ StartTail \/ Return) => ProcessInv'
<1> SUFFICES ASSUME ProcessInv, LeaveLoop \/ GapCopied \/ StartTail \/ Return
             PROVE  ProcessInv'
  OBVIOUS
<1>1. ProcessTypeOK /\ Place
  BY DEF ProcessInv
<1>2. UNCHANGED <<ranges, reverse, i, curPos, friBlob, pos, length, flag>>
  BY DEF LeaveLoop, GapCopied, StartTail, Return
<1>3. Prefixes' /\ Located' /\ EntriesInOrder'
  BY <1>2 DEF ProcessInv, Prefixes, Located, EntriesInOrder
<1>4. ProcessTypeOK'
  BY <1>1, <1>2, CzlibAssumption
     DEF LeaveLoop, GapCopied, StartTail, Return, ProcessTypeOK
<1>5. CASE LeaveLoop
  <2>1. pc = "loop" /\ pc' = "tail" /\ i = Len(ranges) + 1
    BY <1>1, <1>5, AtHand DEF LeaveLoop, ProcessTypeOK
  <2>2. Place'
    BY <1>1, <1>2, <2>1 DEF Place
  <2> QED BY <1>3, <1>4, <2>2 DEF ProcessInv
<1>6. CASE GapCopied
  <2>1. pc = "gap" /\ left = 0 /\ pc' = "inflate"
    BY <1>6 DEF GapCopied
  <2>2. at = curPos
    BY <1>1, <2>1 DEF Place, ProcessTypeOK
  <2>3. Place'
    BY <1>1, <1>2, <2>1, <2>2 DEF Place, FriendlyTo
  <2> QED BY <1>3, <1>4, <2>3 DEF ProcessInv
<1>7. CASE StartTail \/ Return
  <2>1. pc \in {"tail", "copyTail"} /\ pc' \in {"copyTail", "returned"}
    BY <1>7 DEF StartTail, Return
  <2>2. Place'
    BY <1>1, <1>2, <2>1 DEF Place
  <2> QED BY <1>3, <1>4, <2>2 DEF ProcessInv
<1> QED BY <1>5, <1>6, <1>7

\* A range that does not inflate ends the loop; what it wrote only follows.
LEMMA InflateFailsStep == ProcessInv /\ InflateFails => ProcessInv'
<1> SUFFICES ASSUME ProcessInv, InflateFails PROVE ProcessInv'
  OBVIOUS
<1>1. ProcessTypeOK /\ Place /\ pc = "inflate"
  BY DEF ProcessInv, InflateFails
<1>2. i <= Len(ranges)
  BY <1>1 DEF Place
<1>3. ranges[i].offset \in Nat /\ ranges[i].length \in Nat /\ ranges[i].size \in Nat
  BY <1>1, <1>2, AtHand
<1>4. UNCHANGED <<ranges, reverse, i, curPos, left, pos, length>>
      /\ flag' = FALSE /\ pc' = "tail"
  BY DEF InflateFails
<1>5. PICK n \in 0..ranges[i].size : friBlob' = friBlob \o Inflated(ranges[i], n)
  BY DEF InflateFails
<1>6. Inflated(ranges[i], n) \in Seq(BlobBytes)
  BY <1>3, InflatedType
<1>7. friBlob' \in Seq(BlobBytes) /\ Prefixes' /\ Located' /\ EntriesInOrder'
  BY <1>4, <1>5, <1>6, BlobGrows
<1>8. at' \in Nat
  BY <1>3 DEF InflateFails
<1>9. ProcessTypeOK'
  BY <1>1, <1>4, <1>7, <1>8 DEF ProcessTypeOK
<1>10. Place'
  BY <1>1, <1>4 DEF Place
<1> QED BY <1>7, <1>9, <1>10 DEF ProcessInv

\* A range that is inflated completes the reference's blob up to its end, and
\* its entry is overwritten with the place of its bytes.
LEMMA InflateRangeStep == ProcessInv /\ InflateRange => ProcessInv'
<1> SUFFICES ASSUME ProcessInv, InflateRange PROVE ProcessInv'
  OBVIOUS
<1> DEFINE r == ranges[i]
           bytes == Inflated(r, r.size)
<1>1. ProcessTypeOK /\ Place /\ pc = "inflate"
  BY DEF ProcessInv, InflateRange
<1>2. i <= Len(ranges) /\ curPos = r.offset /\ friBlob = FriendlyTo(r.offset) /\ flag
  BY <1>1 DEF Place
<1>3. /\ i \in 1..Len(ranges) /\ Len(ranges) \in Nat
      /\ r.offset \in Nat /\ r.length \in Nat /\ r.size \in Nat
  BY <1>1, <1>2, AtHand
<1>4. bytes \in Seq(BlobBytes) /\ Len(bytes) = r.size /\ \A j \in 1..r.size : bytes[j] = InflatedByte(r.offset, j)
  BY <1>3, InflatedType DEF Inflated
<1>5. /\ friBlob' = friBlob \o bytes /\ at' = r.offset + r.length /\ curPos' = curPos + r.length
      /\ pos' = IF reverse THEN [pos EXCEPT ![i] = Len(friBlob)] ELSE pos
      /\ length' = IF reverse THEN [length EXCEPT ![i] = r.size] ELSE length
      /\ i' = i + 1 /\ pc' = "loop"
      /\ UNCHANGED <<ranges, reverse, left, flag>>
  BY DEF InflateRange, InversePlace
<1>6. friBlob \in Seq(BlobBytes) /\ pos \in [1..Len(ranges) -> Nat]
      /\ length \in [1..Len(ranges) -> Nat] /\ ranges \in RangeLists
  BY <1>1 DEF ProcessTypeOK
<1> HIDE DEF bytes
<1>7. /\ friBlob' \in Seq(BlobBytes) /\ Len(friBlob) \in Nat
      /\ Len(friBlob') = Len(friBlob) + r.size
      /\ \A j \in 1..Len(friBlob) : friBlob'[j] = friBlob[j]
      /\ \A j \in 1..r.size : friBlob'[Len(friBlob) + j] = bytes[j]
  <2>0. friBlob \in Seq(BlobBytes) /\ bytes \in Seq(BlobBytes)
    BY <1>4, <1>6
  <2> HIDE DEF r
  <2>1. /\ friBlob \o bytes \in Seq(BlobBytes)
        /\ Len(friBlob) \in Nat /\ Len(bytes) \in Nat
        /\ Len(friBlob \o bytes) = Len(friBlob) + Len(bytes)
        /\ \A j \in 1..Len(friBlob) : (friBlob \o bytes)[j] = friBlob[j]
        /\ \A j \in 1..Len(bytes) : (friBlob \o bytes)[Len(friBlob) + j] = bytes[j]
    BY <2>0, Extended
  <2> QED BY <1>4, <1>5, <2>1
<1>8. /\ pos' \in [1..Len(ranges) -> Nat] /\ length' \in [1..Len(ranges) -> Nat]
      /\ \A k \in 1..Len(ranges) : k # i => pos'[k] = pos[k] /\ length'[k] = length[k]
      /\ reverse => pos'[i] = Len(friBlob) /\ length'[i] = r.size
  <2>1. Len(friBlob) \in Nat
    BY <1>7
  <2> QED BY <1>3, <1>5, <1>6, <2>1
<1>9. FriendlyUpTo(ranges)[i] = friBlob'
  <2>1. FriendlyUpTo(ranges)[i] =
          FriendlyUpTo(ranges)[i - 1] \o Span(LastReadOffset(ranges, i - 1), r.offset)
            \o Inflated(r, r.size)
    BY <1>3, <1>6, FriendlyUnrolls
  <2> QED BY <1>2, <1>5, <2>1 DEF FriendlyTo, bytes
<1>10. ProcessTypeOK'
  <2>1. at' \in Nat /\ curPos' \in Nat /\ i' \in 1..(Len(ranges') + 1)
    BY <1>2, <1>3, <1>5
  <2> QED BY <1>1, <1>5, <1>7, <1>8, <2>1 DEF ProcessTypeOK
<1>11. Place'
  <2>1. i' - 1 = i /\ i # 0 /\ LastReadOffset(ranges, i) = r.offset + r.length
    BY <1>3, <1>5 DEF LastReadOffset
  <2>2. \A k \in i'..Len(ranges) : pos'[k] = ranges[k].offset
    <3> TAKE k \in i'..Len(ranges)
    <3>1. k \in i..Len(ranges) /\ k # i /\ k \in 1..Len(ranges)
      BY <1>3, <1>5
    <3> QED BY <1>1, <1>8, <3>1 DEF Place
  <2>3. at' = LastReadOffset(ranges, i) /\ curPos' = at'
    BY <1>2, <1>5, <2>1
  <2> HIDE DEF r
  <2> QED BY <1>2, <1>5, <1>9, <2>1, <2>2, <2>3 DEF Place
<1>12. Prefixes'
  <2> SUFFICES ASSUME NEW k \in 0..i
               PROVE  /\ Len(FriendlyUpTo(ranges)[k]) <= Len(friBlob')
                      /\ \A j \in 1..Len(FriendlyUpTo(ranges)[k]) :
                           friBlob'[j] = FriendlyUpTo(ranges)[k][j]
    BY <1>3, <1>5 DEF Prefixes
  <2>1. CASE k = i
    <3>1. Len(friBlob') \in Nat
      BY <1>7, LenProperties
    <3> QED BY <1>9, <2>1, <3>1
  <2>2. CASE k # i
    <3>1. k \in 0..(i - 1) /\ k \in 0..Len(ranges)
      BY <1>3, <2>2
    <3>2. Len(FriendlyUpTo(ranges)[k]) \in Nat
      <4>1. FriendlyUpTo(ranges)[k] \in Seq(BlobBytes)
        BY <1>6, <3>1, FriendlyUnrolls
      <4> QED BY <4>1, LenProperties
    <3>3. /\ Len(FriendlyUpTo(ranges)[k]) <= Len(friBlob)
          /\ \A j \in 1..Len(FriendlyUpTo(ranges)[k]) :
               friBlob[j] = FriendlyUpTo(ranges)[k][j]
      BY <3>1 DEF ProcessInv, Prefixes
    <3> HIDE DEF r
    <3>4. Len(friBlob) <= Len(friBlob')
      BY <1>3, <1>7 DEF r
    <3> QED BY <1>7, <3>2, <3>3, <3>4
  <2> QED BY <2>1, <2>2
<1>13. Located'
  <2>0. i' - 1 = i /\ ranges' = ranges /\ reverse' = reverse
    BY <1>3, <1>5
  <2> SUFFICES ASSUME reverse, NEW k \in 1..i
               PROVE  /\ length'[k] = ranges[k].size
                      /\ pos'[k] + length'[k] <= Len(friBlob')
                      /\ \A j \in 1..length'[k] :
                           friBlob'[pos'[k] + j] = InflatedByte(ranges[k].offset, j)
    BY <2>0 DEF Located
  <2>1. CASE k = i
    <3>1. pos'[k] = Len(friBlob) /\ length'[k] = r.size /\ ranges[k] = r
      BY <1>8, <2>1
    <3>2. \A j \in 1..r.size : friBlob'[Len(friBlob) + j] = InflatedByte(r.offset, j)
      BY <1>4, <1>7
    <3>3. Len(friBlob) + r.size <= Len(friBlob')
      BY <1>3, <1>7
    <3> HIDE DEF r
    <3> QED BY <3>1, <3>2, <3>3
  <2>2. CASE k # i
    <3>1. k \in 1..(i - 1) /\ k \in 1..Len(ranges)
      BY <1>3, <2>2
    <3>2. pos[k] \in Nat /\ length[k] \in Nat /\ pos'[k] = pos[k] /\ length'[k] = length[k]
      BY <1>6, <1>8, <2>2, <3>1
    <3>3. /\ length[k] = ranges[k].size
          /\ pos[k] + length[k] <= Len(friBlob)
          /\ \A j \in 1..length[k] : friBlob[pos[k] + j] = InflatedByte(ranges[k].offset, j)
      BY <3>1 DEF ProcessInv, Located
    <3>4. \A j \in 1..length[k] : pos[k] + j \in 1..Len(friBlob)
      BY <1>7, <3>2, <3>3
    <3>5. pos[k] + length[k] <= Len(friBlob')
      BY <1>3, <1>7, <3>2, <3>3
    <3>6. \A j \in 1..length[k] : friBlob'[pos[k] + j] = InflatedByte(ranges[k].offset, j)
      <4> HIDE DEF r
      <4> QED BY <1>7, <3>3, <3>4
    <3> QED BY <3>2, <3>3, <3>5, <3>6
  <2> QED BY <2>1, <2>2
<1>14. EntriesInOrder'
  <2> SUFFICES ASSUME reverse, NEW k \in 2..i
               PROVE  pos'[k - 1] + length'[k - 1] <= pos'[k]
    BY <1>3, <1>5 DEF EntriesInOrder
  <2>1. k - 1 \in 1..(i - 1) /\ k - 1 \in 1..Len(ranges) /\ k - 1 # i
    BY <1>3
  <2>2. pos'[k - 1] = pos[k - 1] /\ length'[k - 1] = length[k - 1]
    BY <1>8, <2>1
  <2>3. CASE k = i
    <3>1. pos[k - 1] + length[k - 1] <= Len(friBlob)
      BY <2>1 DEF ProcessInv, Located
    <3> QED BY <1>8, <2>2, <2>3, <3>1
  <2>4. CASE k # i
    <3>1. k \in 2..(i - 1) /\ k \in 1..Len(ranges)
      BY <1>3, <2>4
    <3>2. pos[k - 1] + length[k - 1] <= pos[k]
      BY <3>1 DEF ProcessInv, EntriesInOrder
    <3> QED BY <1>8, <2>2, <2>4, <3>1, <3>2
  <2> QED BY <2>3, <2>4
<1> QED BY <1>10, <1>11, <1>12, <1>13, <1>14 DEF ProcessInv

\* Every step of process() preserves the invariant.
LEMMA ProcessStep == ProcessInv /\ [Next]_vars => ProcessInv'
<1> SUFFICES ASSUME ProcessInv, [Next]_vars PROVE ProcessInv'
  OBVIOUS
<1>1. CASE UNCHANGED vars
  BY <1>1 DEF vars, ProcessInv, ProcessTypeOK, Place, FriendlyTo, Prefixes, Located,
     EntriesInOrder
<1>2. CASE Next
  BY <1>1, <1>2, EnterRangeStep, CopyBytesStep, QuietStep, InflateFailsStep,
     InflateRangeStep DEF Next, Terminated
<1> QED BY <1>1, <1>2

\* A part of a sequence, given by its elements.
LEMMA PartOf ==
  ASSUME NEW S, NEW b \in Seq(S), NEW w \in Seq(S), NEW lo \in Nat,
         lo + Len(w) <= Len(b), \A j \in 1..Len(w) : b[lo + j] = w[j]
  PROVE  SubSeq(b, lo + 1, lo + Len(w)) = w
<1> DEFINE sub == SubSeq(b, lo + 1, lo + Len(w))
<1>1. Len(w) \in Nat /\ Len(b) \in Nat
  BY LenProperties
<1>2. \A k \in (lo + 1)..(lo + Len(w)) : k \in 1..Len(b)
  BY <1>1
<1>3. sub \in Seq(S) /\ Len(sub) = Len(w)
  BY <1>1, <1>2
<1>4. \A j \in 1..Len(w) : sub[j] = b[lo + j]
  BY <1>1
<1> HIDE DEF sub
<1>5. \A j \in 1..Len(w) : sub[j] = w[j]
  BY <1>4
<1>6. sub = w
  BY <1>3, <1>5, SeqEqual
<1> QED BY <1>6 DEF sub

\* The invariant gives the two properties.
LEMMA ProcessImplies == ProcessInv => RangesAreFriendly /\ InverseLocatesEntries
<1> SUFFICES ASSUME ProcessInv PROVE RangesAreFriendly /\ InverseLocatesEntries
  OBVIOUS
<1>1. friBlob \in Seq(BlobBytes) /\ i \in 1..(Len(ranges) + 1) /\ ranges \in RangeLists
      /\ pos \in [1..Len(ranges) -> Nat] /\ length \in [1..Len(ranges) -> Nat]
      /\ Len(ranges) \in Nat
  BY ListTypes DEF ProcessInv, ProcessTypeOK
<1>2. RangesAreFriendly
  <2> SUFFICES ASSUME NEW k \in 0..(i - 1)
               PROVE  SubSeq(friBlob, 1, Len(FriendlyUpTo(ranges)[k])) = FriendlyUpTo(ranges)[k]
    BY DEF RangesAreFriendly
  <2> DEFINE w == FriendlyUpTo(ranges)[k]
  <2>1. k \in 0..Len(ranges)
    BY <1>1
  <2>2. w \in Seq(BlobBytes)
    BY <1>1, <2>1, FriendlyUnrolls
  <2>3. Len(w) <= Len(friBlob) /\ \A j \in 1..Len(w) : friBlob[j] = w[j]
    BY DEF ProcessInv, Prefixes
  <2> HIDE DEF w
  <2>4. Len(w) \in Nat /\ Len(friBlob) \in Nat
    BY <1>1, <2>2, LenProperties
  <2>5. 0 + Len(w) <= Len(friBlob) /\ \A j \in 1..Len(w) : friBlob[0 + j] = w[j]
    BY <2>3, <2>4
  <2>6. SubSeq(friBlob, 0 + 1, 0 + Len(w)) = w
    BY <1>1, <2>2, <2>5, PartOf
  <2>7. SubSeq(friBlob, 1, Len(w)) = w
    BY <2>4, <2>6
  <2> QED BY <2>7 DEF w
<1>3. InverseLocatesEntries
  <2> SUFFICES ASSUME reverse, NEW k \in 1..(i - 1)
               PROVE  /\ pos[k] + length[k] <= Len(friBlob)
                      /\ SubSeq(friBlob, pos[k] + 1, pos[k] + length[k])
                           = Inflated(ranges[k], ranges[k].size)
    BY DEF InverseLocatesEntries
  <2>1. k \in 1..Len(ranges)
    BY <1>1
  <2> DEFINE w == Inflated(ranges[k], ranges[k].size)
             lo == pos[k]
  <2>2. lo \in Nat /\ length[k] \in Nat /\ ranges[k].offset \in Nat /\ ranges[k].size \in Nat
    BY <1>1, <2>1, ListTypes
  <2>3. /\ length[k] = ranges[k].size
        /\ lo + length[k] <= Len(friBlob)
        /\ \A j \in 1..length[k] : friBlob[lo + j] = InflatedByte(ranges[k].offset, j)
    BY DEF ProcessInv, Located
  <2>4. w \in Seq(BlobBytes) /\ Len(w) = length[k]
    BY <2>2, <2>3, InflatedType
  <2>5. \A j \in 1..Len(w) : w[j] = InflatedByte(ranges[k].offset, j)
    BY <2>2, <2>3, <2>4 DEF Inflated
  <2> HIDE DEF w, lo
  <2>6. \A j \in 1..Len(w) : friBlob[lo + j] = w[j]
    BY <2>3, <2>4, <2>5
  <2>7. SubSeq(friBlob, lo + 1, lo + Len(w)) = w
    BY <1>1, <2>2, <2>3, <2>4, <2>6, PartOf
  <2> QED BY <2>3, <2>4, <2>7 DEF w, lo
<1> QED BY <1>2, <1>3

\* The invariant holds throughout process().
LEMMA ProcessInvariant == Spec => []ProcessInv
  BY ProcessStart, ProcessStep, PTL DEF Spec

\* For every list of ranges and every buffer size, the blob process() writes
\* begins with the reference's blob up to the end of each range it has passed:
\* copyBytes, which reads from wherever the file stands, stands right in every
\* gap.
THEOREM BlobIsFriendly == Spec => []RangesAreFriendly
  BY ProcessInvariant, ProcessImplies, PTL

\* Each place process() reports holds the inflated bytes of its range.
THEOREM PlacesAreRight == Spec => []InverseLocatesEntries
  BY ProcessInvariant, ProcessImplies, PTL

-----------------------------------------------------------------------------
(***************************************************************************)
(* The fields of a patch.                                                  *)
(***************************************************************************)
NewSet == Compression!Ranges

\* The same for fields.
LEMMA FieldsExtended ==
  ASSUME NEW base \in Seq(Int), NEW more \in Seq(Int)
  PROVE  /\ base \o more \in Seq(Int)
         /\ Len(base) \in Nat /\ Len(more) \in Nat
         /\ Len(base \o more) = Len(base) + Len(more)
         /\ \A j \in 1..Len(base) : (base \o more)[j] = base[j]
         /\ \A k \in (Len(base) + 1)..(Len(base) + Len(more)) :
              (base \o more)[k] = more[k - Len(base)]
<1> DEFINE S == Int
<1>1. base \in Seq(S) /\ more \in Seq(S)
  OBVIOUS
<1>2. base \o more \in Seq(S)
  <2> HIDE DEF S
  <2> QED BY <1>1, Extended
<1>3. /\ Len(base) \in Nat /\ Len(more) \in Nat
      /\ Len(base \o more) = Len(base) + Len(more)
      /\ \A j \in 1..Len(base) : (base \o more)[j] = base[j]
      /\ \A j \in 1..Len(more) : (base \o more)[Len(base) + j] = more[j]
  <2> HIDE DEF S
  <2> QED BY <1>1, Extended
<1>4. ASSUME NEW k \in (Len(base) + 1)..(Len(base) + Len(more))
      PROVE  (base \o more)[k] = more[k - Len(base)]
  <2> DEFINE j == k - Len(base)
  <2>1. j \in 1..Len(more) /\ Len(base) + j = k
    BY <1>3
  <2> HIDE DEF j
  <2>2. (base \o more)[Len(base) + j] = more[j]
    BY <1>3, <2>1
  <2> QED BY <2>1, <2>2 DEF j
<1> QED BY <1>2, <1>3, <1>4

\* The six fields of an instruction of the recompression plan.
LEMMA NewInstructionFields ==
  ASSUME NEW r \in NewSet
  PROVE  /\ NewInstruction(r) \in Seq(Int) /\ Len(NewInstruction(r)) = 6
         /\ NewInstruction(r)[1] = r.offset /\ NewInstruction(r)[2] = r.length
         /\ NewInstruction(r)[3] = DefaultDeflate
         /\ NewInstruction(r)[4] = r.params.level
         /\ NewInstruction(r)[5] = r.params.strategy
         /\ NewInstruction(r)[6] = IF r.params.nowrap THEN 1 ELSE 0
<1> DEFINE a == <<r.offset, r.length>>
           b == ParamFields(r.params)
<1>1. r.offset \in Nat /\ r.length \in Nat /\ r.params.level \in 1..9
      /\ r.params.strategy \in 0..7
  BY DEF NewSet, Compression!Ranges, Compression!Params
<1>2. a \in Seq(Int) /\ Len(a) = 2 /\ a[1] = r.offset /\ a[2] = r.length
  BY <1>1
<1>3. b \in Seq(Int) /\ Len(b) = 4
      /\ b[1] = DefaultDeflate /\ b[2] = r.params.level /\ b[3] = r.params.strategy
      /\ b[4] = IF r.params.nowrap THEN 1 ELSE 0
  BY <1>1 DEF ParamFields, DefaultDeflate
<1>4. NewInstruction(r) = a \o b
  BY DEF NewInstruction
<1> HIDE DEF a, b
<1>5. a \o b \in Seq(Int) /\ Len(a \o b) = 6
      /\ (a \o b)[1] = a[1] /\ (a \o b)[2] = a[2]
      /\ (a \o b)[3] = b[1] /\ (a \o b)[4] = b[2] /\ (a \o b)[5] = b[3]
      /\ (a \o b)[6] = b[4]
  <2> DEFINE whole == a \o b
  <2>1. whole \in Seq(Int)
    BY <1>2, <1>3, FieldsExtended
  <2>2. /\ Len(a) \in Nat /\ Len(b) \in Nat
        /\ Len(whole) = Len(a) + Len(b)
        /\ \A k \in 1..Len(a) : whole[k] = a[k]
        /\ \A k \in (Len(a) + 1)..(Len(a) + Len(b)) : whole[k] = b[k - Len(a)]
    BY <1>2, <1>3, FieldsExtended
  <2>3. Len(a) = 2 /\ Len(b) = 4
    BY <1>2, <1>3
  <2> HIDE DEF whole
  <2>4. /\ Len(whole) = 2 + 4
        /\ \A k \in 1..(2) : whole[k] = a[k]
        /\ \A k \in (2 + 1)..(2 + 4) : whole[k] = b[k - (2)]
    BY <2>2, <2>3
  <2>5. /\ Len(whole) = 6 /\ whole[1] = a[1] /\ whole[2] = a[2]
        /\ whole[3] = b[1] /\ whole[4] = b[2] /\ whole[5] = b[3] /\ whole[6] = b[4]
    BY <2>4
  <2> QED BY <2>1, <2>5, Zenon DEF whole
<1> QED BY <1>2, <1>3, <1>4, <1>5

\* Each instruction for the old file is two numbers of the patch.
LEMMA OldInstructionsFields ==
  ASSUME NEW p \in Seq(OldInstructionSet)
  PROVE  /\ OldInstructions(p) \in Seq(Int)
         /\ Len(OldInstructions(p)) = 2 * Len(p)
         /\ \A k \in 1..Len(p) : /\ OldInstructions(p)[2 * (k - 1) + 1] = p[k].offset
                                 /\ OldInstructions(p)[2 * (k - 1) + 2] = p[k].length
<1>1. Len(p) \in Nat /\ \A k \in 1..Len(p) : p[k].offset \in Nat /\ p[k].length \in Nat
  <2>1. Len(p) \in Nat
    OBVIOUS
  <2>2. ASSUME NEW k \in 1..Len(p) PROVE p[k].offset \in Nat /\ p[k].length \in Nat
    <3>1. p[k] \in OldInstructionSet
      BY ElementOfSeq
    <3> QED BY <3>1 DEF OldInstructionSet
  <2> QED BY <2>1, <2>2
<1> DEFINE F(m) == OldInstruction(p[(m + 1) \div 2])[1 + ((m + 1) % 2)]
<1>2. ASSUME NEW m \in 1..(2 * Len(p)) PROVE F(m) \in Int
  <2>1. (m + 1) \div 2 \in 1..Len(p) /\ (m + 1) % 2 \in 0..1
    BY <1>1
  <2> DEFINE q == (m + 1) \div 2
             f == (m + 1) % 2
  <2> HIDE DEF q, f
  <2>2. OldInstruction(p[q])[1 + f] \in Int
    <3>1. q \in 1..Len(p) /\ f \in {0, 1}
      BY <2>1 DEF q, f
    <3> QED BY <1>1, <3>1 DEF OldInstruction
  <2> QED BY <2>2 DEF q, f
<1>3. OldInstructions(p) = [m \in 1..(2 * Len(p)) |-> F(m)]
  BY DEF OldInstructions
<1>4. ASSUME NEW k \in 1..Len(p)
      PROVE  F(2 * (k - 1) + 1) = p[k].offset /\ F(2 * (k - 1) + 2) = p[k].length
  <2>1. /\ (2 * (k - 1) + 1 + 1) \div 2 = k /\ (2 * (k - 1) + 1 + 1) % 2 = 0
        /\ (2 * (k - 1) + 2 + 1) \div 2 = k /\ (2 * (k - 1) + 2 + 1) % 2 = 1
    BY <1>1
  <2> QED BY <2>1 DEF OldInstruction
<1>5. ASSUME NEW k \in 1..Len(p)
      PROVE  2 * (k - 1) + 1 \in 1..(2 * Len(p)) /\ 2 * (k - 1) + 2 \in 1..(2 * Len(p))
  BY <1>1
<1>6. OldInstructions(p) \in Seq(Int) /\ Len(OldInstructions(p)) = 2 * Len(p)
  <2> HIDE DEF F
  <2>1. 2 * Len(p) \in Nat
    BY <1>1
  <2> QED BY <1>2, <1>3, <2>1, IsASeq
<1> HIDE DEF F
<1> QED BY <1>3, <1>4, <1>5, <1>6

\* Each recompression instruction is six numbers of the patch.
LEMMA NewInstructionsFields ==
  ASSUME NEW p \in Seq(NewSet)
  PROVE  /\ NewInstructions(p) \in Seq(Int)
         /\ Len(NewInstructions(p)) = 6 * Len(p)
         /\ \A k \in 1..Len(p), j \in 1..6 :
              NewInstructions(p)[6 * (k - 1) + j] = NewInstruction(p[k])[j]
<1>1. Len(p) \in Nat /\ \A k \in 1..Len(p) : p[k] \in NewSet
  BY ElementOfSeq
<1> DEFINE F(m) == NewInstruction(p[(m + 5) \div 6])[1 + ((m + 5) % 6)]
<1>2. ASSUME NEW m \in 1..(6 * Len(p)) PROVE F(m) \in Int
  <2> DEFINE q == (m + 5) \div 6
             f == 1 + ((m + 5) % 6)
  <2>1. q \in 1..Len(p) /\ f \in 1..6
    BY <1>1
  <2> HIDE DEF q, f
  <2>2. NewInstruction(p[q]) \in Seq(Int) /\ Len(NewInstruction(p[q])) = 6
    BY <1>1, <2>1, NewInstructionFields
  <2>3. NewInstruction(p[q])[f] \in Int
    BY <2>1, <2>2
  <2> QED BY <2>3 DEF q, f
<1>3. NewInstructions(p) = [m \in 1..(6 * Len(p)) |-> F(m)]
  BY DEF NewInstructions
<1>4. ASSUME NEW k \in 1..Len(p), NEW j \in 1..6
      PROVE  F(6 * (k - 1) + j) = NewInstruction(p[k])[j] /\ 6 * (k - 1) + j \in 1..(6 * Len(p))
  <2>1. /\ (6 * (k - 1) + j + 5) \div 6 = k /\ (6 * (k - 1) + j + 5) % 6 = j - 1
        /\ 6 * (k - 1) + j \in 1..(6 * Len(p))
    BY <1>1
  <2>2. 1 + ((6 * (k - 1) + j + 5) % 6) = j
    BY <2>1
  <2> QED BY <2>1, <2>2
<1>5. NewInstructions(p) \in Seq(Int) /\ Len(NewInstructions(p)) = 6 * Len(p)
  <2> HIDE DEF F
  <2>1. 6 * Len(p) \in Nat
    BY <1>1
  <2> QED BY <1>2, <1>3, <2>1, IsASeq
<1> HIDE DEF F
<1> QED BY <1>3, <1>4, <1>5

\* Where each field of a patch stands.
PatchFieldsOf(p, o, n) ==
  /\ p \in Seq(Int)
  /\ Len(p) = 12 + 2 * Len(o) + 6 * Len(n)
  /\ p[1] = Identifier /\ p[3] >= 0 /\ p[4] = Len(o)
  /\ \A k \in 1..Len(o) : /\ p[4 + 2 * (k - 1) + 1] = o[k].offset
                          /\ p[4 + 2 * (k - 1) + 2] = o[k].length
  /\ p[5 + 2 * Len(o)] = Len(n)
  /\ \A k \in 1..Len(n), j \in 1..6 :
       p[5 + 2 * Len(o) + 6 * (k - 1) + j] = NewInstruction(n[k])[j]
  /\ p[5 + 2 * Len(o) + 6 * Len(n) + 1] = 1
  /\ p[5 + 2 * Len(o) + 6 * Len(n) + 2] = Bsdiff
  /\ \A k \in 3..7 : p[5 + 2 * Len(o) + 6 * Len(n) + k] >= 0

\* Where in a patch each number stands.
LEMMA PatchFields ==
  ASSUME NEW o \in Seq(OldInstructionSet), NEW n \in Seq(NewSet),
         NEW oldSize \in Nat, NEW newSize \in Nat, NEW deltaLength \in Nat
  PROVE  PatchFieldsOf(Patch(o, n, oldSize, newSize, deltaLength), o, n)
<1> DEFINE a == <<Identifier, 0, oldSize, Len(o)>>
           b == OldInstructions(o)
           c == <<Len(n)>>
           d == NewInstructions(n)
           e == <<1, Bsdiff, 0, oldSize, 0, newSize, deltaLength>>
           p == Patch(o, n, oldSize, newSize, deltaLength)
<1>1. Len(o) \in Nat /\ Len(n) \in Nat
  OBVIOUS
<1>2. a \in Seq(Int) /\ Len(a) = 4 /\ a[1] = Identifier /\ a[3] >= 0 /\ a[4] = Len(o)
  BY <1>1 DEF Identifier
<1>3. /\ b \in Seq(Int) /\ Len(b) = 2 * Len(o)
      /\ \A k \in 1..Len(o) : /\ b[2 * (k - 1) + 1] = o[k].offset
                              /\ b[2 * (k - 1) + 2] = o[k].length
  BY OldInstructionsFields
<1>4. c \in Seq(Int) /\ Len(c) = 1 /\ c[1] = Len(n)
  BY <1>1
<1>5. /\ d \in Seq(Int) /\ Len(d) = 6 * Len(n)
      /\ \A k \in 1..Len(n), j \in 1..6 : d[6 * (k - 1) + j] = NewInstruction(n[k])[j]
  BY NewInstructionsFields
<1>6. e \in Seq(Int) /\ Len(e) = 7 /\ e[1] = 1 /\ e[2] = Bsdiff
      /\ \A k \in 3..7 : e[k] >= 0
  BY DEF Bsdiff
<1>7. p = a \o b \o c \o d \o e
  BY DEF Patch
<1> HIDE DEF a, b, c, d, e, p
<1> DEFINE ab == a \o b
<1>8. /\ ab \in Seq(Int) /\ Len(ab) = 4 + 2 * Len(o)
      /\ \A k \in 1..4 : ab[k] = a[k]
      /\ \A k \in 5..(4 + 2 * Len(o)) : ab[k] = b[k - 4]
  <2> DEFINE whole == a \o b
  <2>1. whole \in Seq(Int)
    BY <1>2, <1>3, FieldsExtended
  <2>2. /\ Len(a) \in Nat /\ Len(b) \in Nat
        /\ Len(whole) = Len(a) + Len(b)
        /\ \A k \in 1..Len(a) : whole[k] = a[k]
        /\ \A k \in (Len(a) + 1)..(Len(a) + Len(b)) : whole[k] = b[k - Len(a)]
    BY <1>2, <1>3, FieldsExtended
  <2>3. Len(a) = 4 /\ Len(b) = 2 * Len(o)
    BY <1>2, <1>3
  <2> HIDE DEF whole
  <2>4. /\ Len(whole) = 4 + 2 * Len(o)
        /\ \A k \in 1..(4) : whole[k] = a[k]
        /\ \A k \in (4 + 1)..(4 + 2 * Len(o)) : whole[k] = b[k - (4)]
    BY <2>2, <2>3
  <2>5. /\ Len(whole) = 4 + 2 * Len(o)
        /\ \A k \in 1..4 : whole[k] = a[k]
        /\ \A k \in 5..(4 + 2 * Len(o)) : whole[k] = b[k - 4]
    BY <1>1, <2>4
  <2> QED BY <2>1, <2>5, Zenon DEF whole
<1> HIDE DEF ab
<1> DEFINE abc == ab \o c
<1>9. /\ abc \in Seq(Int) /\ Len(abc) = 5 + 2 * Len(o)
      /\ \A k \in 1..(4 + 2 * Len(o)) : abc[k] = ab[k]
      /\ abc[5 + 2 * Len(o)] = c[1]
  <2> DEFINE whole == ab \o c
  <2>1. whole \in Seq(Int)
    BY <1>4, <1>8, FieldsExtended
  <2>2. /\ Len(ab) \in Nat /\ Len(c) \in Nat
        /\ Len(whole) = Len(ab) + Len(c)
        /\ \A k \in 1..Len(ab) : whole[k] = ab[k]
        /\ \A k \in (Len(ab) + 1)..(Len(ab) + Len(c)) : whole[k] = c[k - Len(ab)]
    BY <1>4, <1>8, FieldsExtended
  <2>3. Len(ab) = 4 + 2 * Len(o) /\ Len(c) = 1
    BY <1>4, <1>8
  <2> HIDE DEF whole
  <2>4. /\ Len(whole) = 4 + 2 * Len(o) + 1
        /\ \A k \in 1..(4 + 2 * Len(o)) : whole[k] = ab[k]
        /\ \A k \in (4 + 2 * Len(o) + 1)..(4 + 2 * Len(o) + 1) : whole[k] = c[k - (4 + 2 * Len(o))]
    BY <2>2, <2>3
  <2>5. /\ Len(whole) = 5 + 2 * Len(o)
        /\ \A k \in 1..(4 + 2 * Len(o)) : whole[k] = ab[k]
        /\ whole[5 + 2 * Len(o)] = c[1]
    BY <1>1, <2>4
  <2> QED BY <2>1, <2>5, Zenon DEF whole
<1> HIDE DEF abc
<1> DEFINE abcd == abc \o d
<1>10. /\ abcd \in Seq(Int) /\ Len(abcd) = 5 + 2 * Len(o) + 6 * Len(n)
       /\ \A k \in 1..(5 + 2 * Len(o)) : abcd[k] = abc[k]
       /\ \A k \in (6 + 2 * Len(o))..(5 + 2 * Len(o) + 6 * Len(n)) :
            abcd[k] = d[k - (5 + 2 * Len(o))]
  <2> DEFINE whole == abc \o d
  <2>1. whole \in Seq(Int)
    BY <1>5, <1>9, FieldsExtended
  <2>2. /\ Len(abc) \in Nat /\ Len(d) \in Nat
        /\ Len(whole) = Len(abc) + Len(d)
        /\ \A k \in 1..Len(abc) : whole[k] = abc[k]
        /\ \A k \in (Len(abc) + 1)..(Len(abc) + Len(d)) : whole[k] = d[k - Len(abc)]
    BY <1>5, <1>9, FieldsExtended
  <2>3. Len(abc) = 5 + 2 * Len(o) /\ Len(d) = 6 * Len(n)
    BY <1>5, <1>9
  <2> HIDE DEF whole
  <2>4. /\ Len(whole) = 5 + 2 * Len(o) + 6 * Len(n)
        /\ \A k \in 1..(5 + 2 * Len(o)) : whole[k] = abc[k]
        /\ \A k \in (5 + 2 * Len(o) + 1)..(5 + 2 * Len(o) + 6 * Len(n)) : whole[k] = d[k - (5 + 2 * Len(o))]
    BY <2>2, <2>3
  <2>5. /\ Len(whole) = 5 + 2 * Len(o) + 6 * Len(n)
        /\ \A k \in 1..(5 + 2 * Len(o)) : whole[k] = abc[k]
        /\ \A k \in (6 + 2 * Len(o))..(5 + 2 * Len(o) + 6 * Len(n)) :
             whole[k] = d[k - (5 + 2 * Len(o))]
    BY <1>1, <2>4
  <2> QED BY <2>1, <2>5, Zenon DEF whole
<1> HIDE DEF abcd
<1>11. p = abcd \o e
  BY <1>7 DEF abcd, abc, ab
<1>12. /\ p \in Seq(Int) /\ Len(p) = 12 + 2 * Len(o) + 6 * Len(n)
       /\ \A k \in 1..(5 + 2 * Len(o) + 6 * Len(n)) : p[k] = abcd[k]
       /\ \A k \in (6 + 2 * Len(o) + 6 * Len(n))..(12 + 2 * Len(o) + 6 * Len(n)) :
            p[k] = e[k - (5 + 2 * Len(o) + 6 * Len(n))]
  <2> DEFINE whole == abcd \o e
  <2>1. whole \in Seq(Int)
    BY <1>6, <1>10, FieldsExtended
  <2>2. /\ Len(abcd) \in Nat /\ Len(e) \in Nat
        /\ Len(whole) = Len(abcd) + Len(e)
        /\ \A k \in 1..Len(abcd) : whole[k] = abcd[k]
        /\ \A k \in (Len(abcd) + 1)..(Len(abcd) + Len(e)) : whole[k] = e[k - Len(abcd)]
    BY <1>6, <1>10, FieldsExtended
  <2>3. Len(abcd) = 5 + 2 * Len(o) + 6 * Len(n) /\ Len(e) = 7
    BY <1>6, <1>10
  <2> HIDE DEF whole
  <2>4. /\ Len(whole) = 5 + 2 * Len(o) + 6 * Len(n) + 7
        /\ \A k \in 1..(5 + 2 * Len(o) + 6 * Len(n)) : whole[k] = abcd[k]
        /\ \A k \in (5 + 2 * Len(o) + 6 * Len(n) + 1)..(5 + 2 * Len(o) + 6 * Len(n) + 7) : whole[k] = e[k - (5 + 2 * Len(o) + 6 * Len(n))]
    BY <2>2, <2>3
  <2>5. /\ Len(whole) = 12 + 2 * Len(o) + 6 * Len(n)
        /\ \A k \in 1..(5 + 2 * Len(o) + 6 * Len(n)) : whole[k] = abcd[k]
        /\ \A k \in (6 + 2 * Len(o) + 6 * Len(n))..(12 + 2 * Len(o) + 6 * Len(n)) :
             whole[k] = e[k - (5 + 2 * Len(o) + 6 * Len(n))]
    BY <1>1, <2>4
  <2> QED BY <1>11, <2>1, <2>5, Zenon DEF whole
<1>13. ASSUME NEW k \in 1..(4 + 2 * Len(o)) PROVE p[k] = ab[k]
  <2>1. k \in 1..(5 + 2 * Len(o)) /\ k \in 1..(5 + 2 * Len(o) + 6 * Len(n))
    BY <1>1
  <2>2. p[k] = abcd[k]
    BY <1>12, <2>1
  <2>3. abcd[k] = abc[k]
    BY <1>10, <2>1
  <2>4. abc[k] = ab[k]
    BY <1>9
  <2> QED BY <2>2, <2>3, <2>4
<1>14. p[1] = Identifier /\ p[3] >= 0 /\ p[4] = Len(o)
  BY <1>1, <1>2, <1>8, <1>13
<1>15. \A k \in 1..Len(o) : /\ p[4 + 2 * (k - 1) + 1] = o[k].offset
                            /\ p[4 + 2 * (k - 1) + 2] = o[k].length
  <2>1. ASSUME NEW m \in 5..(4 + 2 * Len(o)) PROVE p[m] = b[m - 4]
    <3>1. m \in 1..(4 + 2 * Len(o))
      BY <1>1
    <3>2. ab[m] = b[m - 4]
      BY <1>8
    <3> QED BY <1>13, <3>1, <3>2
  <2> TAKE k \in 1..Len(o)
  <2> DEFINE x == 2 * (k - 1) + 1
             y == 2 * (k - 1) + 2
             u == 4 + 2 * (k - 1) + 1
             v == 4 + 2 * (k - 1) + 2
  <2>2. /\ u \in 5..(4 + 2 * Len(o)) /\ v \in 5..(4 + 2 * Len(o))
        /\ u - 4 = x /\ v - 4 = y
    BY <1>1
  <2>3. b[x] = o[k].offset /\ b[y] = o[k].length
    BY <1>3
  <2> HIDE DEF x, y, u, v
  <2>4. p[u] = b[u - 4]
    BY <2>1, <2>2
  <2>5. p[v] = b[v - 4]
    BY <2>1, <2>2
  <2>6. p[u] = o[k].offset /\ p[v] = o[k].length
    BY <2>2, <2>3, <2>4, <2>5
  <2> QED BY <2>6 DEF u, v
<1>16. p[5 + 2 * Len(o)] = Len(n)
  <2> DEFINE k == 5 + 2 * Len(o)
  <2>1. k \in 1..(5 + 2 * Len(o)) /\ k \in 1..(5 + 2 * Len(o) + 6 * Len(n))
    BY <1>1
  <2>2. abc[k] = Len(n)
    BY <1>4, <1>9
  <2> HIDE DEF k
  <2>3. p[k] = abcd[k]
    BY <1>12, <2>1
  <2>4. abcd[k] = abc[k]
    BY <1>10, <2>1
  <2> QED BY <2>2, <2>3, <2>4 DEF k
<1>17. \A k \in 1..Len(n), j \in 1..6 :
         p[5 + 2 * Len(o) + 6 * (k - 1) + j] = NewInstruction(n[k])[j]
  <2> TAKE k \in 1..Len(n), j \in 1..6
  <2> DEFINE x == 6 * (k - 1) + j
             y == 5 + 2 * Len(o) + x
  <2>1. /\ x \in 1..(6 * Len(n))
        /\ y \in (6 + 2 * Len(o))..(5 + 2 * Len(o) + 6 * Len(n))
        /\ y \in 1..(5 + 2 * Len(o) + 6 * Len(n))
        /\ y - (5 + 2 * Len(o)) = x
        /\ 5 + 2 * Len(o) + 6 * (k - 1) + j = y
    BY <1>1
  <2>2. d[x] = NewInstruction(n[k])[j]
    BY <1>5
  <2> HIDE DEF x, y
  <2> QED BY <1>10, <1>12, <2>1, <2>2
<1>18. /\ p[5 + 2 * Len(o) + 6 * Len(n) + 1] = 1
       /\ p[5 + 2 * Len(o) + 6 * Len(n) + 2] = Bsdiff
       /\ \A k \in 3..7 : p[5 + 2 * Len(o) + 6 * Len(n) + k] >= 0
  <2> DEFINE done == 5 + 2 * Len(o) + 6 * Len(n)
  <2>1. ASSUME NEW k \in 1..7 PROVE p[done + k] = e[k]
    <3> DEFINE m == done + k
    <3>1. m \in (6 + 2 * Len(o) + 6 * Len(n))..(12 + 2 * Len(o) + 6 * Len(n))
          /\ m - (5 + 2 * Len(o) + 6 * Len(n)) = k
      BY <1>1
    <3> HIDE DEF m
    <3>2. p[m] = e[k]
      BY <1>12, <3>1
    <3> QED BY <3>2 DEF m
  <2> HIDE DEF done
  <2>2. p[done + 1] = 1 /\ p[done + 2] = Bsdiff /\ \A k \in 3..7 : p[done + k] >= 0
    BY <1>6, <2>1
  <2> QED BY <2>2 DEF done
<1>19. PatchFieldsOf(p, o, n)
  BY <1>12, <1>14, <1>15, <1>16, <1>17, <1>18 DEF PatchFieldsOf
<1> QED BY <1>19 DEF p

-----------------------------------------------------------------------------
(***************************************************************************)
(* The inductive invariant of the pipeline.  As long as what has arrived   *)
(* is a beginning of the patch, the file holds what the patch has after    *)
(* the fields that were read, and the entries that were read are those of  *)
(* the generator's plans.                                                  *)
(***************************************************************************)
Undamaged ==
  Len(received) <= Len(patch) /\ \A k \in 1..Len(received) : received[k] = patch[k]

WrittenInv ==
  /\ reverse /\ oldPlan \in OldPlans
  /\ patch = Null => /\ reading = "header" /\ toRead = 0 /\ lastReadOffset = -1
                     /\ oldPlanRead = <<>> /\ newPlanRead = <<>>
  /\ patch # Null =>
       /\ pc = "returned"
       /\ patch = Patch(oldPlan, RecompressionPlan, OldSize, Len(friBlob), DeltaLength)
       /\ received \in Seq(Int)
       /\ Len(received) <= Len(patch)
       /\ Len(received) < Len(patch) => Undamaged

\* The file is what has arrived after the first c fields.
Left(c) == /\ c + Len(file) = Len(received)
           /\ \A j \in 1..Len(file) : file[j] = patch[c + j]

\* What was read is the beginning of the plan, and toRead the rest of it.
ReadOf(plan, read) == /\ Len(read) + toRead = Len(plan)
                      /\ \A k \in 1..Len(read) : read[k] = plan[k]

ReadSoFar ==
  patch # Null /\ Undamaged =>
    /\ reading = "header" => Left(0)
    /\ reading = "old" => /\ Left(4 + 2 * Len(oldPlanRead))
                          /\ ReadOf(oldPlan, oldPlanRead)
    /\ reading = "new" => /\ Left(5 + 2 * Len(oldPlan) + 6 * Len(newPlanRead))
                          /\ oldPlanRead = oldPlan
                          /\ ReadOf(RecompressionPlan, newPlanRead)
    /\ reading = "accepted" => /\ Len(received) = Len(patch)
                               /\ oldPlanRead = oldPlan
                               /\ newPlanRead = RecompressionPlan
    /\ reading # "crashed"
    /\ reading = "refused" /\ Len(received) = Len(patch) => ~flag

PipelineInv == ProcessInv /\ ReaderInv /\ WrittenInv /\ ReadSoFar

\* The plans that are written have their types, and parameters that exist.
LEMMA PlanTypes ==
  ASSUME ProcessInv, oldPlan \in OldPlans
  PROVE  /\ oldPlan \in Seq(OldInstructionSet) /\ Compression!InOrder(oldPlan)
         /\ RecompressionPlan \in Seq(NewSet) /\ Len(RecompressionPlan) = Len(ranges)
         /\ Len(ranges) \in Nat /\ Len(oldPlan) \in Nat
         /\ \A k \in 1..Len(ranges) :
              /\ RecompressionPlan[k].offset = pos[k]
              /\ RecompressionPlan[k].length = length[k]
              /\ Exist(RecompressionPlan[k].params.level,
                       RecompressionPlan[k].params.strategy)
<1>1. oldPlan \in Seq(OldInstructionSet) /\ Compression!InOrder(oldPlan) /\ Len(oldPlan) \in Nat
  BY PipelineAssumption DEF OldInstructionSet
<1>2. Len(ranges) \in Nat /\ Len(ranges) <= Len(Metadata) /\ Len(Metadata) \in Nat
      /\ pos \in [1..Len(ranges) -> Nat] /\ length \in [1..Len(ranges) -> Nat]
  BY ListTypes, PipelineAssumption DEF ProcessInv, ProcessTypeOK
<1>3. ASSUME NEW k \in 1..Len(ranges)
      PROVE  /\ Metadata[k] \in Compression!Params
             /\ Exist(Metadata[k].level, Metadata[k].strategy)
             /\ pos[k] \in Nat /\ length[k] \in Nat
  <2>1. k \in 1..Len(Metadata)
    BY <1>2
  <2>2. Metadata[k] \in Compression!Params
    BY <2>1, PipelineAssumption, ElementOfSeq
  <2> QED BY <1>2, <2>1, <2>2, PipelineAssumption
<1> DEFINE e(k) == [offset |-> pos[k], length |-> length[k], params |-> Metadata[k]]
<1>4. ASSUME NEW k \in 1..Len(ranges) PROVE e(k) \in NewSet
  BY <1>3 DEF NewSet, Compression!Ranges
<1>5. RecompressionPlan = [k \in 1..Len(ranges) |-> e(k)]
  BY DEF RecompressionPlan
<1>6. RecompressionPlan \in Seq(NewSet) /\ Len(RecompressionPlan) = Len(ranges)
      /\ \A k \in 1..Len(ranges) : RecompressionPlan[k] = e(k)
  <2> HIDE DEF e
  <2> QED BY <1>2, <1>4, <1>5, IsASeq
<1>7. ASSUME NEW k \in 1..Len(ranges)
      PROVE  /\ RecompressionPlan[k].offset = pos[k]
             /\ RecompressionPlan[k].length = length[k]
             /\ Exist(RecompressionPlan[k].params.level,
                      RecompressionPlan[k].params.strategy)
  <2>1. RecompressionPlan[k] = e(k)
    BY <1>6
  <2> QED BY <1>3, <2>1
<1> QED BY <1>1, <1>2, <1>6, <1>7

\* If every range could be inflated, the plan is in order.
LEMMA PlanInOrder ==
  ASSUME ProcessInv, reverse, pc = "returned", flag, NEW k \in 2..Len(ranges)
  PROVE  pos[k - 1] + length[k - 1] <= pos[k]
<1>1. i = Len(ranges) + 1 /\ Len(ranges) \in Nat
  BY ListTypes DEF ProcessInv, ProcessTypeOK, Place
<1>2. k \in 2..(i - 1)
  BY <1>1
<1> QED BY <1>2 DEF ProcessInv, EntriesInOrder

\* The fields of the patch at hand.
LEMMA PatchAtHand ==
  ASSUME ProcessInv, WrittenInv, patch # Null
  PROVE  PatchFieldsOf(patch, oldPlan, RecompressionPlan)
<1>1. oldPlan \in Seq(OldInstructionSet) /\ RecompressionPlan \in Seq(NewSet)
  BY PlanTypes DEF WrittenInv
<1>2. Len(friBlob) \in Nat
  BY LenProperties DEF ProcessInv, ProcessTypeOK
<1> DEFINE p == Patch(oldPlan, RecompressionPlan, OldSize, Len(friBlob), DeltaLength)
<1>3. PatchFieldsOf(p, oldPlan, RecompressionPlan)
  BY <1>1, <1>2, PipelineAssumption, PatchFields
<1>4. patch = p
  BY DEF WrittenInv
<1> HIDE DEF p
<1> QED BY <1>3, <1>4

\* Reading n fields leaves what follows them.
LEMMA LeftRest ==
  ASSUME file \in Seq(Int), NEW c \in Nat, NEW n \in Nat, n <= Len(file),
         Left(c), file' = Rest(n), UNCHANGED <<patch, received>>
  PROVE  Left(c + n)'
<1>1. Len(file) \in Nat
  BY LenProperties
<1>2. /\ Len(file') = Len(file) - n
      /\ \A j \in 1..(Len(file) - n) : file'[j] = file[n + j]
  BY <1>1 DEF Rest
<1>3. c + n + Len(file') = Len(received)
  BY <1>1, <1>2 DEF Left
<1>4. ASSUME NEW j \in 1..Len(file') PROVE file'[j] = patch[c + n + j]
  <2> DEFINE m == n + j
  <2>1. m \in 1..Len(file) /\ j \in 1..(Len(file) - n) /\ c + n + j = c + m
    BY <1>1, <1>2
  <2> HIDE DEF m
  <2>2. file[m] = patch[c + m]
    BY <2>1 DEF Left
  <2> QED BY <1>2, <2>1, <2>2 DEF m
<1> QED BY <1>3, <1>4 DEF Left

\* A step of the reader does not touch what was written.
LEMMA ReadKeepsWritten ==
  ASSUME PipelineInv, patch # Null, UNCHANGED <<oldPlan, patch, received, vars>>
  PROVE  /\ WrittenInv' /\ RecompressionPlan' = RecompressionPlan
         /\ Undamaged' = Undamaged
  BY DEF PipelineInv, WrittenInv, RecompressionPlan, Undamaged, vars

\* The range of the old plan that the reader has before it.
LEMMA OldAtHand ==
  ASSUME PipelineInv, patch # Null, Undamaged, reading = "old", toRead > 0,
         Len(file) >= 2
  PROVE  /\ Len(oldPlanRead) + 1 \in 1..Len(oldPlan)
         /\ file[1] = oldPlan[Len(oldPlanRead) + 1].offset
         /\ file[2] = oldPlan[Len(oldPlanRead) + 1].length
<1> DEFINE m == Len(oldPlanRead)
           k == m + 1
<1>1. m \in Nat /\ toRead \in Nat /\ Len(file) \in Nat /\ Len(oldPlan) \in Nat
  BY LenProperties, PlanTypes DEF PipelineInv, ReaderInv, ReaderTypeOK, WrittenInv
<1>2. Left(4 + 2 * m) /\ m + toRead = Len(oldPlan)
  BY DEF PipelineInv, ReadSoFar, ReadOf
<1>3. k \in 1..Len(oldPlan) /\ 1 \in 1..Len(file) /\ 2 \in 1..Len(file)
      /\ 4 + 2 * m + 1 = 4 + 2 * (k - 1) + 1 /\ 4 + 2 * m + 2 = 4 + 2 * (k - 1) + 2
  BY <1>1, <1>2
<1>4. PatchFieldsOf(patch, oldPlan, RecompressionPlan)
  BY PatchAtHand DEF PipelineInv
<1> HIDE DEF m, k
<1>5. patch[4 + 2 * (k - 1) + 1] = oldPlan[k].offset
      /\ patch[4 + 2 * (k - 1) + 2] = oldPlan[k].length
  BY <1>3, <1>4 DEF PatchFieldsOf
<1>6. file[1] = patch[4 + 2 * m + 1] /\ file[2] = patch[4 + 2 * m + 2]
  BY <1>2, <1>3 DEF Left
<1> QED BY <1>3, <1>5, <1>6 DEF m, k

\* The range of the recompression plan that the reader has before it.
LEMMA NewAtHand ==
  ASSUME PipelineInv, patch # Null, Undamaged, reading = "new", toRead > 0,
         Len(file) >= 6
  PROVE  /\ Len(newPlanRead) + 1 \in 1..Len(RecompressionPlan)
         /\ \A j \in 1..6 :
              file[j] = NewInstruction(RecompressionPlan[Len(newPlanRead) + 1])[j]
<1> DEFINE m == Len(newPlanRead)
           k == m + 1
           done == 5 + 2 * Len(oldPlan) + 6 * m
<1>1. m \in Nat /\ toRead \in Nat /\ Len(file) \in Nat /\ Len(oldPlan) \in Nat
      /\ Len(RecompressionPlan) \in Nat
  BY LenProperties, PlanTypes DEF PipelineInv, ReaderInv, ReaderTypeOK, WrittenInv
<1>2. Left(done) /\ m + toRead = Len(RecompressionPlan)
  BY DEF PipelineInv, ReadSoFar, ReadOf
<1>3. k \in 1..Len(RecompressionPlan) /\ done = 5 + 2 * Len(oldPlan) + 6 * (k - 1)
  BY <1>1, <1>2
<1>4. PatchFieldsOf(patch, oldPlan, RecompressionPlan)
  BY PatchAtHand DEF PipelineInv
<1>5. ASSUME NEW j \in 1..6 PROVE file[j] = NewInstruction(RecompressionPlan[k])[j]
  <2>1. j \in 1..Len(file)
    BY <1>1
  <2> HIDE DEF m, k, done
  <2>2. file[j] = patch[done + j]
    BY <1>2, <2>1 DEF Left
  <2>3. patch[5 + 2 * Len(oldPlan) + 6 * (k - 1) + j] = NewInstruction(RecompressionPlan[k])[j]
    BY <1>3, <1>4 DEF PatchFieldsOf
  <2> QED BY <1>3, <2>2, <2>3
<1> QED BY <1>3, <1>5

\* A long sum does not exceed the sum.
LEMMA LongBelow == ASSUME NEW n \in Nat PROVE Long(n) <= n
  BY FormatAssumption DEF Long

\* The end of what was read is not after the next range of a plan in order.
LEMMA NextRangePasses ==
  ASSUME NEW S, \A s \in S : s.offset \in Nat /\ s.length \in Nat,
         NEW plan \in Seq(S), NEW read \in Seq(S),
         \A k \in 1..Len(read) : read[k] = plan[k],
         Len(read) + 1 \in 1..Len(plan),
         \A k \in 2..Len(plan) : plan[k - 1].offset + plan[k - 1].length <= plan[k].offset
  PROVE  LastEnd(read) <= plan[Len(read) + 1].offset
<1> DEFINE m == Len(read)
<1>1. m \in Nat /\ m + 1 \in 1..Len(plan) /\ Len(plan) \in Nat
  BY LenProperties
<1>2. ASSUME NEW k \in 1..Len(plan) PROVE plan[k].offset \in Nat /\ plan[k].length \in Nat
  BY ElementOfSeq
<1>3. CASE m = 0
  <2>1. read = <<>>
    BY <1>3, EmptySeq
  <2> QED BY <1>1, <1>2, <1>3, <2>1 DEF LastEnd
<1>4. CASE m # 0
  <2>1. m \in 1..Len(read) /\ m \in 1..Len(plan) /\ read # <<>> /\ m + 1 \in 2..Len(plan)
        /\ m + 1 - 1 = m
    BY <1>1, <1>4, EmptySeq
  <2>2. LastEnd(read) = Long(plan[m].offset + plan[m].length)
    BY <2>1 DEF LastEnd
  <2>3. LastEnd(read) <= plan[m].offset + plan[m].length
    <3> HIDE DEF m
    <3>1. plan[m].offset + plan[m].length \in Nat
      BY <1>2, <2>1
    <3> QED BY <2>2, <3>1, LongBelow
  <2>4. plan[m].offset + plan[m].length <= plan[m + 1].offset
    <3> HIDE DEF m
    <3> QED BY <2>1
  <2>5. LastEnd(read) \in Int
    <3> HIDE DEF m
    <3>1. plan[m].offset + plan[m].length \in Int
      BY <1>2, <2>1
    <3> QED BY <2>2, <3>1, LongType
  <2> HIDE DEF m
  <2>6. plan[m].offset \in Nat /\ plan[m].length \in Nat /\ plan[m + 1].offset \in Nat
    BY <1>1, <1>2, <2>1
  <2> DEFINE x == LastEnd(read)
             y == plan[m].offset + plan[m].length
             z == plan[m + 1].offset
  <2>7. x \in Int /\ y \in Int /\ z \in Int /\ x <= y /\ y <= z
    BY <2>3, <2>4, <2>5, <2>6
  <2>8. x <= z
    <3> HIDE DEF x, y, z
    <3> QED BY <2>7
  <2> QED BY <2>8 DEF m
<1> QED BY <1>3, <1>4

\* A whole patch, written after every range was inflated, passes each check.
LEMMA NothingToRefuse ==
  ASSUME PipelineInv, patch # Null, Undamaged, Len(received) = Len(patch), flag
  PROVE  ~Refuse
<1>1. ProcessInv /\ ReaderInv /\ ReaderTypeOK /\ WrittenInv /\ oldPlan \in OldPlans
      /\ pc = "returned" /\ reverse
  BY DEF PipelineInv, ReaderInv, WrittenInv
<1> DEFINE a == Len(oldPlan)
           b == Len(RecompressionPlan)
           m == Len(oldPlanRead)
           n == Len(newPlanRead)
<1>2. PatchFieldsOf(patch, oldPlan, RecompressionPlan)
  BY <1>1, PatchAtHand
<1>3. /\ a \in Nat /\ b \in Nat /\ m \in Nat /\ n \in Nat /\ Len(file) \in Nat
      /\ toRead \in Nat /\ Len(received) = 12 + 2 * a + 6 * b
      /\ oldPlan \in Seq(OldInstructionSet) /\ RecompressionPlan \in Seq(NewSet)
  <2>1. a \in Nat /\ b \in Nat
        /\ oldPlan \in Seq(OldInstructionSet) /\ RecompressionPlan \in Seq(NewSet)
    BY <1>1, PlanTypes
  <2>2. m \in Nat /\ n \in Nat /\ Len(file) \in Nat /\ toRead \in Nat
    BY <1>1, LenProperties DEF ReaderTypeOK
  <2> QED BY <1>2, <2>1, <2>2 DEF PatchFieldsOf
<1>4. ~(reading = "header" /\ ~HeaderIsGood)
  <2> SUFFICES ASSUME reading = "header" PROVE HeaderIsGood
    OBVIOUS
  <2>1. Left(0)
    BY DEF PipelineInv, ReadSoFar
  <2>2. Len(file) = Len(received)
    BY <1>3, <2>1 DEF Left
  <2>3. 1 \in 1..Len(file) /\ 3 \in 1..Len(file) /\ 4 \in 1..Len(file) /\ Len(file) >= 4
    <3> HIDE DEF a, b
    <3> QED BY <1>3, <2>2
  <2>4. file[1] = patch[0 + 1] /\ file[3] = patch[0 + 3] /\ file[4] = patch[0 + 4]
    BY <2>1, <2>3 DEF Left
  <2>5. patch[1] = Identifier /\ patch[3] >= 0 /\ patch[4] = a
    BY <1>2 DEF PatchFieldsOf
  <2>6. file[1] = Identifier /\ file[3] >= 0 /\ file[4] >= 0
    <3> HIDE DEF a, b
    <3> QED BY <1>3, <2>4, <2>5
  <2> QED BY <2>3, <2>6 DEF HeaderIsGood
<1>5. ~(reading = "old" /\ toRead > 0 /\ ~(Len(file) >= 2 /\ RangeIsGood))
  <2> SUFFICES ASSUME reading = "old", toRead > 0 PROVE Len(file) >= 2 /\ RangeIsGood
    OBVIOUS
  <2>1. Left(4 + 2 * m) /\ ReadOf(oldPlan, oldPlanRead) /\ lastReadOffset = LastEnd(oldPlanRead)
    BY <1>1 DEF PipelineInv, ReadSoFar, ReaderInv
  <2>2. Len(file) >= 2
    <3>1. 4 + 2 * m + Len(file) = Len(received) /\ m + toRead = a
      BY <2>1 DEF Left, ReadOf
    <3> HIDE DEF a, b, m
    <3> QED BY <1>3, <3>1
  <2>3. /\ m + 1 \in 1..a
        /\ file[1] = oldPlan[m + 1].offset /\ file[2] = oldPlan[m + 1].length
    BY <2>2, OldAtHand
  <2>4. \A s \in OldInstructionSet : s.offset \in Nat /\ s.length \in Nat
    BY DEF OldInstructionSet
  <2>5. oldPlanRead \in Seq(OldInstructionSet) /\ \A k \in 1..m : oldPlanRead[k] = oldPlan[k]
    BY <1>1, <2>1 DEF ReaderTypeOK, ReadOf
  <2>6. ASSUME NEW k \in 2..a
        PROVE  oldPlan[k - 1].offset + oldPlan[k - 1].length <= oldPlan[k].offset
    <3>1. Compression!InOrder(oldPlan)
      BY <1>1, PlanTypes
    <3>2. k \in 1..Len(oldPlan) /\ k # 1
      BY <1>3
    <3> QED BY <3>1, <3>2
            DEF Compression!InOrder, Compression!StartOfGap, Compression!End
  <2>7. LastEnd(oldPlanRead) <= oldPlan[m + 1].offset
    BY <1>3, <2>3, <2>4, <2>5, <2>6, NextRangePasses
  <2>8. oldPlan[m + 1].offset \in Nat /\ oldPlan[m + 1].length \in Nat
    <3>1. oldPlan[m + 1] \in OldInstructionSet
      BY <1>3, <2>3, ElementOfSeq
    <3> QED BY <2>4, <3>1
  <2>9. lastReadOffset \in Int
    BY <1>1 DEF ReaderTypeOK
  <2>10. file[1] >= 0 /\ file[2] >= 0 /\ file[1] >= lastReadOffset
    <3> HIDE DEF m
    <3> QED BY <2>1, <2>3, <2>7, <2>8, <2>9
  <2> QED BY <2>2, <2>10 DEF RangeIsGood
<1>6. ~(reading = "old" /\ toRead = 0 /\ ~CountIsGood)
  <2> SUFFICES ASSUME reading = "old", toRead = 0 PROVE CountIsGood
    OBVIOUS
  <2>1. Left(4 + 2 * m) /\ ReadOf(oldPlan, oldPlanRead)
    BY <1>1 DEF PipelineInv, ReadSoFar
  <2>2. m = a /\ 4 + 2 * m + Len(file) = Len(received)
    BY <1>3, <2>1 DEF Left, ReadOf
  <2>3. Len(file) >= 1 /\ 1 \in 1..Len(file) /\ 4 + 2 * m + 1 = 5 + 2 * a
    <3> HIDE DEF a, b, m
    <3> QED BY <1>3, <2>2
  <2>4. file[1] = patch[4 + 2 * m + 1]
    BY <2>1, <2>3 DEF Left
  <2>5. patch[5 + 2 * a] = b
    BY <1>2 DEF PatchFieldsOf
  <2> HIDE DEF a, b, m
  <2>6. file[1] >= 0
    BY <1>3, <2>3, <2>4, <2>5
  <2> QED BY <2>3, <2>6 DEF CountIsGood
<1>7. ~(reading = "new" /\ toRead > 0 /\ ~(Len(file) >= 6 /\ RangeIsGood /\ ParamsAreGood))
  <2> SUFFICES ASSUME reading = "new", toRead > 0
               PROVE  Len(file) >= 6 /\ RangeIsGood /\ ParamsAreGood
    OBVIOUS
  <2>1. /\ Left(5 + 2 * a + 6 * n) /\ ReadOf(RecompressionPlan, newPlanRead)
        /\ lastReadOffset = LastEnd(newPlanRead)
    BY <1>1 DEF PipelineInv, ReadSoFar, ReaderInv
  <2>2. Len(file) >= 6
    <3>1. 5 + 2 * a + 6 * n + Len(file) = Len(received) /\ n + toRead = b
      BY <2>1 DEF Left, ReadOf
    <3> HIDE DEF a, b, n
    <3> QED BY <1>3, <3>1
  <2> DEFINE r == RecompressionPlan[n + 1]
  <2>3. n + 1 \in 1..b /\ \A j \in 1..6 : file[j] = NewInstruction(r)[j]
    BY <2>2, NewAtHand
  <2>4. r \in NewSet
    BY <1>3, <2>3, ElementOfSeq
  <2>5. \A s \in NewSet : s.offset \in Nat /\ s.length \in Nat
    BY DEF NewSet, Compression!Ranges
  <2>6. newPlanRead \in Seq(NewSet) /\ \A k \in 1..n : newPlanRead[k] = RecompressionPlan[k]
    BY <1>1, <2>1 DEF ReaderTypeOK, ReadOf, NewSet
  <2>7. ASSUME NEW k \in 2..b
        PROVE  RecompressionPlan[k - 1].offset + RecompressionPlan[k - 1].length
                 <= RecompressionPlan[k].offset
    <3>1. k \in 2..Len(ranges) /\ k \in 1..Len(ranges) /\ k - 1 \in 1..Len(ranges)
      BY <1>1, <1>3, PlanTypes
    <3>2. pos[k - 1] + length[k - 1] <= pos[k]
      BY <1>1, <3>1, PlanInOrder
    <3>3. /\ RecompressionPlan[k - 1].offset = pos[k - 1]
          /\ RecompressionPlan[k - 1].length = length[k - 1]
          /\ RecompressionPlan[k].offset = pos[k]
      BY <1>1, <3>1, PlanTypes
    <3> QED BY <3>2, <3>3
  <2>8. LastEnd(newPlanRead) <= r.offset
    BY <1>3, <2>3, <2>5, <2>6, <2>7, NextRangePasses
  <2>9. lastReadOffset \in Int
    BY <1>1 DEF ReaderTypeOK
  <2> HIDE DEF r
  <2>10. /\ file[1] = r.offset /\ file[2] = r.length /\ file[3] = DefaultDeflate
         /\ file[4] = r.params.level /\ file[5] = r.params.strategy
         /\ file[6] = IF r.params.nowrap THEN 1 ELSE 0
    BY <2>3, <2>4, NewInstructionFields
  <2>11. RangeIsGood
    <3>1. r.offset \in Nat /\ r.length \in Nat
      BY <2>4, <2>5
    <3> QED BY <2>1, <2>8, <2>9, <2>10, <3>1 DEF RangeIsGood
  <2>12. ParamsAreGood
    <3>1. r.params.level \in 1..9 /\ r.params.strategy \in 0..7
      BY <2>4 DEF NewSet, Compression!Ranges, Compression!Params
    <3> QED BY <2>10, <3>1 DEF ParamsAreGood
  <2> QED BY <2>2, <2>11, <2>12
<1>8. ~(reading = "new" /\ toRead = 0 /\ ~DescriptorIsGood)
  <2> SUFFICES ASSUME reading = "new", toRead = 0 PROVE DescriptorIsGood
    OBVIOUS
  <2> DEFINE done == 5 + 2 * a + 6 * n
  <2>1. Left(done) /\ ReadOf(RecompressionPlan, newPlanRead)
    BY <1>1 DEF PipelineInv, ReadSoFar
  <2>2. n = b /\ done + Len(file) = Len(received)
    BY <1>3, <2>1 DEF Left, ReadOf
  <2>3. Len(file) = 7
    <3> DEFINE f == Len(file)
    <3>1. a \in Nat /\ b \in Nat /\ f \in Nat
      BY <1>3
    <3>2. 5 + 2 * a + 6 * b + f = 12 + 2 * a + 6 * b
      BY <1>3, <2>2
    <3> HIDE DEF a, b, f
    <3>3. f = 7
      BY <3>1, <3>2
    <3> QED BY <3>3 DEF f
  <2>4. \A j \in 1..7 : file[j] = patch[done + j]
    BY <2>1, <2>3 DEF Left
  <2>5. patch[done + 1] = 1 /\ patch[done + 2] = Bsdiff /\ \A k \in 3..7 : patch[done + k] >= 0
    BY <1>2, <2>2 DEF PatchFieldsOf
  <2> HIDE DEF done
  <2>6. file[1] = 1 /\ file[2] = Bsdiff /\ \A k \in 3..7 : file[k] >= 0
    BY <2>4, <2>5
  <2> QED BY <2>3, <2>6 DEF DescriptorIsGood
<1> QED BY <1>4, <1>5, <1>6, <1>7, <1>8 DEF Refuse

\* The reader takes in the next fields of the patch.
LEMMA ReadOn ==
  ASSUME PipelineInv, patch # Null, Undamaged, ReaderNext,
         UNCHANGED <<oldPlan, patch, received, vars>>
  PROVE  ReadSoFar'
<1>1. ReaderInv /\ ReaderTypeOK /\ WrittenInv /\ ProcessInv
  BY DEF PipelineInv, ReaderInv
<1>2. RecompressionPlan' = RecompressionPlan /\ UNCHANGED <<oldPlan, patch, received, flag>>
  BY ReadKeepsWritten DEF vars
<1>3. /\ Len(oldPlan) \in Nat /\ Len(RecompressionPlan) \in Nat /\ Len(file) \in Nat
      /\ Len(oldPlanRead) \in Nat /\ Len(newPlanRead) \in Nat /\ toRead \in Nat
      /\ oldPlan \in Seq(OldInstructionSet) /\ RecompressionPlan \in Seq(NewSet)
      /\ oldPlanRead \in Seq(OldInstructionSet) /\ newPlanRead \in Seq(NewSet)
      /\ file \in Seq(Int)
  <2>1. /\ Len(oldPlan) \in Nat /\ Len(RecompressionPlan) \in Nat
        /\ oldPlan \in Seq(OldInstructionSet) /\ RecompressionPlan \in Seq(NewSet)
    BY <1>1, PlanTypes DEF WrittenInv
  <2>2. toRead \in Nat /\ oldPlanRead \in Seq(OldInstructionSet)
        /\ newPlanRead \in Seq(NewSet) /\ file \in Seq(Int)
    BY <1>1 DEF ReaderTypeOK, NewSet
  <2>3. Len(oldPlanRead) \in Nat /\ Len(newPlanRead) \in Nat /\ Len(file) \in Nat
    BY <2>2, LenProperties
  <2> QED BY <2>1, <2>2, <2>3
<1>4. PatchFieldsOf(patch, oldPlan, RecompressionPlan)
  BY <1>1, PatchAtHand
<1>5. CASE ReadHeader
  <2>1. /\ reading = "header" /\ reading' = "old" /\ toRead' = file[4]
        /\ file' = Rest(4) /\ UNCHANGED <<oldPlanRead, newPlanRead>> /\ Len(file) >= 4
    BY <1>5 DEF ReadHeader, HeaderIsGood
  <2>2. Left(0) /\ oldPlanRead = <<>>
    BY <1>1, <2>1 DEF PipelineInv, ReadSoFar, ReaderInv
  <2>3. Left(0 + 4)'
    BY <1>2, <1>3, <2>1, <2>2, LeftRest
  <2>4. file[4] = Len(oldPlan)
    <3>1. file[4] = patch[0 + 4]
      BY <1>3, <2>1, <2>2 DEF Left
    <3> QED BY <1>4, <3>1 DEF PatchFieldsOf
  <2>5. Len(oldPlanRead') = 0 /\ 4 + 2 * 0 = 0 + 4 /\ \A k \in 1..0 : FALSE
    BY <2>1, <2>2, EmptySeq
  <2>6. Left(4 + 2 * Len(oldPlanRead))'
    BY <2>3, <2>5 DEF Left
  <2>7. ReadOf(oldPlan, oldPlanRead)'
    BY <1>2, <1>3, <2>1, <2>4, <2>5 DEF ReadOf
  <2> QED BY <2>1, <2>6, <2>7 DEF ReadSoFar
<1>6. CASE ReadOldInstruction
  <2> DEFINE r == [offset |-> file[1], length |-> file[2]]
             m == Len(oldPlanRead)
  <2>1. /\ reading = "old" /\ reading' = "old" /\ toRead > 0 /\ toRead' = toRead - 1
        /\ file' = Rest(2) /\ oldPlanRead' = Append(oldPlanRead, r)
        /\ Len(file) >= 2
    BY <1>6 DEF ReadOldInstruction
  <2>2. Left(4 + 2 * m) /\ ReadOf(oldPlan, oldPlanRead)
    BY <2>1 DEF PipelineInv, ReadSoFar
  <2>3. /\ m + 1 \in 1..Len(oldPlan)
        /\ file[1] = oldPlan[m + 1].offset /\ file[2] = oldPlan[m + 1].length
    BY <2>1, OldAtHand
  <2>4. r = oldPlan[m + 1]
    <3>1. oldPlan[m + 1] \in [offset : Nat, length : Nat]
      BY <1>3, <2>3, ElementOfSeq DEF OldInstructionSet
    <3> QED BY <2>3, <3>1
  <2>5. /\ Len(oldPlanRead') = m + 1 /\ oldPlanRead'[m + 1] = r
        /\ \A k \in 1..m : oldPlanRead'[k] = oldPlanRead[k]
    <3> HIDE DEF r
    <3> QED BY <1>3, <2>1
  <2> HIDE DEF r
  <2>6. ReadOf(oldPlan, oldPlanRead)'
    <3>1. Len(oldPlanRead') + toRead' = Len(oldPlan')
      BY <1>2, <1>3, <2>1, <2>2, <2>5 DEF ReadOf
    <3>2. ASSUME NEW k \in 1..Len(oldPlanRead') PROVE oldPlanRead'[k] = oldPlan[k]
      <4>1. k \in 1..m \/ k = m + 1
        BY <1>3, <2>5
      <4> QED BY <2>2, <2>4, <2>5, <4>1 DEF ReadOf
    <3> QED BY <1>2, <3>1, <3>2 DEF ReadOf
  <2>7. Left(4 + 2 * Len(oldPlanRead))'
    <3>1. PICK c \in Nat : c = 4 + 2 * m
      BY <1>3
    <3>2. Left(c + 2)'
      BY <1>2, <1>3, <2>1, <2>2, <3>1, LeftRest
    <3>3. 4 + 2 * Len(oldPlanRead') = c + 2
      BY <1>3, <2>5, <3>1
    <3> QED BY <3>2, <3>3 DEF Left
  <2> QED BY <2>1, <2>6, <2>7 DEF ReadSoFar
<1>7. CASE ReadNewCount
  <2>1. /\ reading = "old" /\ reading' = "new" /\ toRead = 0 /\ toRead' = file[1]
        /\ file' = Rest(1) /\ UNCHANGED <<oldPlanRead, newPlanRead>> /\ Len(file) >= 1
    BY <1>7 DEF ReadNewCount, CountIsGood
  <2>2. Left(4 + 2 * Len(oldPlanRead)) /\ ReadOf(oldPlan, oldPlanRead) /\ newPlanRead = <<>>
    BY <1>1, <2>1 DEF PipelineInv, ReadSoFar, ReaderInv
  <2>3. oldPlanRead = oldPlan
    <3>1. Len(oldPlanRead) = Len(oldPlan) /\ \A k \in 1..Len(oldPlanRead) : oldPlanRead[k] = oldPlan[k]
      BY <1>3, <2>1, <2>2 DEF ReadOf
    <3> QED BY <1>3, <3>1, SeqEqual
  <2>4. PICK c \in Nat : c = 4 + 2 * Len(oldPlan)
    BY <1>3
  <2>5. Left(c) /\ c + 1 = 5 + 2 * Len(oldPlan)
    BY <1>3, <2>2, <2>3, <2>4
  <2>6. Left(c + 1)'
    BY <1>2, <1>3, <2>1, <2>5, LeftRest
  <2>7. file[1] = Len(RecompressionPlan)
    <3>1. file[1] = patch[c + 1]
      BY <1>3, <2>1, <2>5 DEF Left
    <3> QED BY <1>4, <2>5, <3>1 DEF PatchFieldsOf
  <2>8. Len(newPlanRead') = 0 /\ \A k \in 1..0 : FALSE
    BY <2>1, <2>2, EmptySeq
  <2>9. Left(5 + 2 * Len(oldPlan) + 6 * Len(newPlanRead))'
    <3>1. 5 + 2 * Len(oldPlan') + 6 * Len(newPlanRead') = c + 1
      BY <1>2, <1>3, <2>4, <2>8
    <3> QED BY <2>6, <3>1 DEF Left
  <2>10. ReadOf(RecompressionPlan, newPlanRead)'
    BY <1>2, <1>3, <2>1, <2>7, <2>8 DEF ReadOf
  <2> QED BY <1>2, <2>1, <2>3, <2>9, <2>10 DEF ReadSoFar
<1>8. CASE ReadNewInstruction
  <2> DEFINE params == [level |-> file[4], strategy |-> file[5], nowrap |-> file[6] = 1]
             r == [offset |-> file[1], length |-> file[2], params |-> params]
             m == Len(newPlanRead)
  <2>1. /\ reading = "new" /\ reading' = "new" /\ toRead > 0 /\ toRead' = toRead - 1
        /\ file' = Rest(6) /\ newPlanRead' = Append(newPlanRead, r)
        /\ Len(file) >= 6 /\ UNCHANGED oldPlanRead
    BY <1>8 DEF ReadNewInstruction
  <2>2. /\ Left(5 + 2 * Len(oldPlan) + 6 * m) /\ oldPlanRead = oldPlan
        /\ ReadOf(RecompressionPlan, newPlanRead)
    BY <2>1 DEF PipelineInv, ReadSoFar
  <2>3. /\ m + 1 \in 1..Len(RecompressionPlan)
        /\ \A j \in 1..6 : file[j] = NewInstruction(RecompressionPlan[m + 1])[j]
    BY <2>1, NewAtHand
  <2>4. r = RecompressionPlan[m + 1]
    <3> DEFINE s == RecompressionPlan[m + 1]
    <3>1. s \in NewSet /\ \A j \in 1..6 : file[j] = NewInstruction(s)[j]
      BY <1>3, <2>3, ElementOfSeq
    <3> HIDE DEF s
    <3>2. /\ file[1] = s.offset /\ file[2] = s.length
          /\ file[4] = s.params.level /\ file[5] = s.params.strategy
          /\ file[6] = IF s.params.nowrap THEN 1 ELSE 0
      BY <3>1, NewInstructionFields
    <3>3. s \in [offset : Nat, length : Nat, params : Compression!Params]
      BY <3>1 DEF NewSet, Compression!Ranges
    <3>4. s.params \in [level : 1..9, strategy : 0..7, nowrap : BOOLEAN]
      BY <3>3 DEF Compression!Params
    <3>5. (file[6] = 1) = s.params.nowrap
      <4>1. s.params.nowrap \in BOOLEAN
        BY <3>4
      <4> QED BY <3>2, <4>1
    <3>6. params = s.params
      BY <3>2, <3>4, <3>5
    <3> HIDE DEF params
    <3>7. r = s
      BY <3>2, <3>3, <3>6
    <3> QED BY <3>7 DEF s
  <2>5. /\ Len(newPlanRead') = m + 1 /\ newPlanRead'[m + 1] = r
        /\ \A k \in 1..m : newPlanRead'[k] = newPlanRead[k]
    <3> HIDE DEF r
    <3> QED BY <1>3, <2>1
  <2> HIDE DEF r
  <2>6. ReadOf(RecompressionPlan, newPlanRead)'
    <3>0. m + toRead = Len(RecompressionPlan) /\ m \in Nat /\ toRead \in Nat
      BY <1>3, <2>2 DEF ReadOf
    <3>1. Len(newPlanRead') + toRead' = Len(RecompressionPlan')
      <4>1. Len(newPlanRead') + toRead' = Len(RecompressionPlan)
        <5> HIDE DEF m
        <5> QED BY <2>1, <2>5, <3>0
      <4> QED BY <1>2, <4>1
    <3>2. ASSUME NEW k \in 1..Len(newPlanRead') PROVE newPlanRead'[k] = RecompressionPlan[k]
      <4>1. k \in 1..m \/ k = m + 1
        BY <1>3, <2>5
      <4> QED BY <2>2, <2>4, <2>5, <4>1 DEF ReadOf
    <3> QED BY <1>2, <3>1, <3>2 DEF ReadOf
  <2>7. Left(5 + 2 * Len(oldPlan) + 6 * Len(newPlanRead))'
    <3>1. PICK c \in Nat : c = 5 + 2 * Len(oldPlan) + 6 * m
      BY <1>3
    <3>2. Left(c + 6)'
      BY <1>2, <1>3, <2>1, <2>2, <3>1, LeftRest
    <3>3. 5 + 2 * Len(oldPlan') + 6 * Len(newPlanRead') = c + 6
      BY <1>2, <1>3, <2>5, <3>1
    <3> QED BY <3>2, <3>3 DEF Left
  <2> QED BY <1>2, <2>1, <2>2, <2>6, <2>7 DEF ReadSoFar
<1>9. CASE NoSuchParameters
  <2>1. /\ reading = "new" /\ toRead > 0 /\ Len(file) >= 6 /\ ~Exist(file[4], file[5])
    BY <1>9 DEF NoSuchParameters
  <2>2. /\ Len(newPlanRead) + 1 \in 1..Len(RecompressionPlan)
        /\ \A j \in 1..6 :
             file[j] = NewInstruction(RecompressionPlan[Len(newPlanRead) + 1])[j]
    BY <2>1, NewAtHand
  <2> DEFINE k == Len(newPlanRead) + 1
             s == RecompressionPlan[k]
  <2>3. s \in NewSet
    BY <1>3, <2>2, ElementOfSeq
  <2>4. Exist(s.params.level, s.params.strategy)
    <3>1. k \in 1..Len(ranges) /\ oldPlan \in OldPlans
      BY <1>1, <2>2, PlanTypes DEF WrittenInv
    <3> HIDE DEF k
    <3> QED BY <1>1, <3>1, PlanTypes
  <2>5. file[4] = NewInstruction(s)[4] /\ file[5] = NewInstruction(s)[5]
    BY <2>2
  <2> HIDE DEF s
  <2>6. file[4] = s.params.level /\ file[5] = s.params.strategy
    BY <2>3, <2>5, NewInstructionFields
  <2> QED BY <2>1, <2>4, <2>6
<1>10. CASE ReadDescriptor
  <2>1. /\ reading = "new" /\ reading' = "accepted" /\ toRead = 0 /\ Len(file) >= 7
        /\ UNCHANGED <<oldPlanRead, newPlanRead>>
    BY <1>10 DEF ReadDescriptor, DescriptorIsGood
  <2>2. /\ Left(5 + 2 * Len(oldPlan) + 6 * Len(newPlanRead)) /\ oldPlanRead = oldPlan
        /\ ReadOf(RecompressionPlan, newPlanRead)
    BY <2>1 DEF PipelineInv, ReadSoFar
  <2>3. newPlanRead = RecompressionPlan
    <3>1. /\ Len(newPlanRead) = Len(RecompressionPlan)
          /\ \A k \in 1..Len(newPlanRead) : newPlanRead[k] = RecompressionPlan[k]
      BY <1>3, <2>1, <2>2 DEF ReadOf
    <3> QED BY <1>3, <3>1, SeqEqual
  <2>4. Len(received) = Len(patch)
    <3> DEFINE a == Len(oldPlan)
               b == Len(RecompressionPlan)
               f == Len(file)
               t == Len(received)
               p == Len(patch)
    <3>1. a \in Nat /\ b \in Nat /\ f \in Nat /\ f >= 7
      BY <1>3, <2>1
    <3>2. 5 + 2 * a + 6 * b + f = t
      BY <2>2, <2>3 DEF Left
    <3>3. p = 12 + 2 * a + 6 * b /\ t <= p
      BY <1>4 DEF PatchFieldsOf, Undamaged
    <3> HIDE DEF a, b, f, t, p
    <3>4. t = p
      BY <3>1, <3>2, <3>3
    <3> QED BY <3>4 DEF t, p
  <2> QED BY <1>2, <2>1, <2>2, <2>3, <2>4 DEF ReadSoFar
<1>11. CASE Refuse
  <2>1. reading' = "refused"
    BY <1>11 DEF Refuse
  <2>2. Len(received) = Len(patch) => ~flag
    BY <1>11, NothingToRefuse
  <2> QED BY <1>2, <2>1, <2>2 DEF ReadSoFar
<1> QED BY <1>5, <1>6, <1>7, <1>8, <1>9, <1>10, <1>11 DEF ReaderNext

\* A step of the reader preserves the invariant.
LEMMA ReadPatchStep == PipelineInv /\ ReadPatch => PipelineInv'
<1> SUFFICES ASSUME PipelineInv, ReadPatch PROVE PipelineInv'
  OBVIOUS
<1>1. patch # Null /\ ReaderNext /\ UNCHANGED <<oldPlan, patch, received, vars>>
  BY DEF ReadPatch
<1>2. ProcessInv'
  BY <1>1, ProcessStep DEF PipelineInv
<1>3. ReaderInv'
  BY <1>1, ReaderStep DEF PipelineInv
<1>4. WrittenInv' /\ Undamaged' = Undamaged
  BY <1>1, ReadKeepsWritten
<1>5. ReadSoFar'
  <2>1. CASE Undamaged
    BY <1>1, <2>1, ReadOn
  <2>2. CASE ~Undamaged
    BY <1>4, <2>2 DEF ReadSoFar
  <2> QED BY <2>1, <2>2
<1> QED BY <1>2, <1>3, <1>4, <1>5 DEF PipelineInv

\* While process() runs, there is no patch yet.
LEMMA ProcessPartStep == PipelineInv /\ Process => PipelineInv'
<1> SUFFICES ASSUME PipelineInv, Process PROVE PipelineInv'
  OBVIOUS
<1>1. patch = Null /\ patch' = Null
  BY DEF PipelineInv, WrittenInv, Process
<1>2. ProcessInv'
  <2>1. Next
    BY DEF Process, Next
  <2> QED BY <2>1, ProcessStep DEF PipelineInv
<1>3. UNCHANGED <<oldPlan, patch, received, readerVars>>
  BY DEF Process
<1>4. ReaderInv'
  BY <1>3, ReaderStep DEF PipelineInv
<1>5. reverse' = reverse
  BY DEF Process, EnterRange, LeaveLoop, CopyBytes, GapCopied, InflateRange, InflateFails,
     StartTail, Return
<1>6. WrittenInv' /\ ReadSoFar'
  BY <1>1, <1>3, <1>5 DEF PipelineInv, WrittenInv, ReadSoFar, readerVars
<1> QED BY <1>2, <1>4, <1>6 DEF PipelineInv

\* What arrives is the patch, a beginning of it, or as long as it.
LEMMA ArrivalTypes ==
  ASSUME NEW p \in Seq(Int), NEW r \in Arrivals(p)
  PROVE  /\ r \in Seq(Int) /\ Len(r) <= Len(p)
         /\ Len(r) < Len(p) => \A k \in 1..Len(r) : r[k] = p[k]
<1>1. Len(p) \in Nat
  BY LenProperties
<1>2. CASE r = p
  BY <1>1, <1>2
<1>3. CASE \E n \in 0..Len(p) : r = SubSeq(p, 1, n)
  <2>1. PICK n \in 0..Len(p) : r = SubSeq(p, 1, n)
    BY <1>3
  <2>2. \A k \in 1..n : k \in 1..Len(p)
    BY <1>1
  <2>3. r \in Seq(Int) /\ Len(r) = n /\ \A k \in 1..n : r[k] = p[k]
    BY <1>1, <2>1, <2>2
  <2> QED BY <1>1, <2>3
<1>4. CASE \E k \in 1..Len(p), v \in BadValues : r = [p EXCEPT ![k] = v]
  <2>1. PICK k \in 1..Len(p), v \in BadValues : r = [p EXCEPT ![k] = v]
    BY <1>4
  <2>2. v \in Int
    BY PipelineAssumption
  <2>3. r \in Seq(Int) /\ Len(r) = Len(p)
    BY <2>1, <2>2, ExceptSeq
  <2> QED BY <1>1, <2>3
<1> QED BY <1>2, <1>3, <1>4 DEF Arrivals

\* The patch is written when process() has returned.
LEMMA WritePatchStep == PipelineInv /\ WritePatch => PipelineInv'
<1> SUFFICES ASSUME PipelineInv, WritePatch PROVE PipelineInv'
  OBVIOUS
<1> DEFINE p == Patch(oldPlan, RecompressionPlan, OldSize, Len(friBlob), DeltaLength)
<1>1. /\ pc = "returned" /\ patch = Null /\ patch' = p /\ received' \in Arrivals(p)
      /\ file' = received'
      /\ UNCHANGED <<oldPlan, reading, toRead, lastReadOffset, oldPlanRead, newPlanRead, vars>>
  BY DEF WritePatch
<1>2. ProcessInv /\ ReaderInv /\ WrittenInv
  BY DEF PipelineInv
<1>3. p \in Seq(Int)
  <2>1. oldPlan \in Seq(OldInstructionSet) /\ RecompressionPlan \in Seq(NewSet)
    BY <1>2, PlanTypes DEF WrittenInv
  <2>2. Len(friBlob) \in Nat
    BY <1>2, LenProperties DEF ProcessInv, ProcessTypeOK
  <2>3. PatchFieldsOf(p, oldPlan, RecompressionPlan)
    BY <2>1, <2>2, PipelineAssumption, PatchFields
  <2> HIDE DEF p
  <2> QED BY <2>3 DEF PatchFieldsOf
<1>4. ProcessInv'
  BY <1>1, <1>2, ProcessStep
<1>5. RecompressionPlan' = RecompressionPlan /\ friBlob' = friBlob
  BY <1>1 DEF vars, RecompressionPlan
<1>6. p = Patch(oldPlan', RecompressionPlan', OldSize, Len(friBlob'), DeltaLength)
  BY <1>1, <1>5
<1> HIDE DEF p
<1>7. /\ received' \in Seq(Int) /\ Len(received') <= Len(patch')
      /\ Len(received') < Len(patch') => \A k \in 1..Len(received') : received'[k] = patch'[k]
  BY <1>1, <1>3, ArrivalTypes
<1>8. ReaderInv'
  <2>1. ReaderTypeOK'
    BY <1>1, <1>2, <1>7 DEF ReaderInv, ReaderTypeOK
  <2>2. PlansReadInOrder'
    BY <1>1, <1>2 DEF ReaderInv, PlansReadInOrder
  <2> QED BY <1>1, <1>2, <2>1, <2>2 DEF ReaderInv, LastEnd
<1>9. WrittenInv'
  <2>1. reverse' /\ oldPlan' \in OldPlans /\ pc' = "returned"
    BY <1>1, <1>2 DEF WrittenInv, vars
  <2>2. Len(received') < Len(patch') => Undamaged'
    BY <1>7 DEF Undamaged
  <2>3. /\ reading' = "header" /\ toRead' = 0 /\ lastReadOffset' = -1
        /\ oldPlanRead' = <<>> /\ newPlanRead' = <<>>
    BY <1>1, <1>2 DEF WrittenInv
  <2> QED BY <1>1, <1>6, <1>7, <2>1, <2>2, <2>3 DEF WrittenInv
<1>10. ReadSoFar'
  <2>1. reading' = "header"
    BY <1>1, <1>2 DEF WrittenInv
  <2>2. Undamaged' => Left(0)'
    <3> SUFFICES ASSUME Undamaged' PROVE Left(0)'
      OBVIOUS
    <3>1. Len(received') \in Nat /\ Len(file') = Len(received')
      BY <1>1, <1>7, LenProperties
    <3>2. ASSUME NEW j \in 1..Len(file') PROVE file'[j] = patch'[0 + j]
      <4>1. j \in 1..Len(received') /\ 0 + j = j
        BY <3>1
      <4>2. received'[j] = patch'[j]
        BY <4>1 DEF Undamaged
      <4> QED BY <1>1, <4>1, <4>2
    <3> QED BY <3>1, <3>2 DEF Left
  <2> QED BY <2>1, <2>2 DEF ReadSoFar
<1> QED BY <1>4, <1>8, <1>9, <1>10 DEF PipelineInv

\* The invariant holds at the start and throughout.
LEMMA PipelineInvariant == PipelineSpec => []PipelineInv
<1>1. PipelineInit => PipelineInv
  <2> SUFFICES ASSUME PipelineInit PROVE PipelineInv
    OBVIOUS
  <2>1. ProcessInv
    BY ProcessStart DEF PipelineInit
  <2>2. ReaderInv
    <3>1. <<>> \in Seq(Int)
      BY EmptySeq
    <3> QED BY <3>1, ReaderStart DEF PipelineInit
  <2>3. WrittenInv /\ ReadSoFar
    BY DEF PipelineInit, ReaderInit, WrittenInv, ReadSoFar
  <2> QED BY <2>1, <2>2, <2>3 DEF PipelineInv
<1>2. PipelineInv /\ [PipelineNext]_pipelineVars => PipelineInv'
  <2> SUFFICES ASSUME PipelineInv, [PipelineNext]_pipelineVars PROVE PipelineInv'
    OBVIOUS
  <2>1. CASE UNCHANGED pipelineVars
    <3>1. UNCHANGED vars /\ UNCHANGED readerVars /\ UNCHANGED <<oldPlan, patch, received>>
      BY <2>1 DEF pipelineVars
    <3>2. ProcessInv'
      BY <3>1, ProcessStep DEF PipelineInv
    <3>3. ReaderInv'
      BY <3>1, ReaderStep DEF PipelineInv
    <3>4. WrittenInv'
      BY <3>1 DEF PipelineInv, WrittenInv, Undamaged, RecompressionPlan, vars, readerVars
    <3>5. ReadSoFar'
      BY <3>1 DEF PipelineInv, ReadSoFar, Undamaged, Left, ReadOf, RecompressionPlan, vars,
         readerVars
    <3> QED BY <3>2, <3>3, <3>4, <3>5 DEF PipelineInv
  <2> QED BY <2>1, ProcessPartStep, WritePatchStep, ReadPatchStep
          DEF PipelineNext, PipelineTerminated
<1> QED BY <1>1, <1>2, PTL DEF PipelineSpec

\* For all plans, all ranges and all parameters that exist: no intact patch
\* makes PatchReader throw an exception it does not declare, one written after
\* every range was inflated passes every check, and the plans the applier gets
\* from an intact patch are the generator's.
THEOREM GoodPatchesAreRead == PipelineSpec => []GoodPatchIsRead
<1>1. PipelineInv => GoodPatchIsRead
  <2> SUFFICES ASSUME PipelineInv, Intact
               PROVE  /\ reading # "crashed"
                      /\ flag => reading # "refused"
                      /\ reading = "accepted" =>
                           oldPlanRead = oldPlan /\ newPlanRead = RecompressionPlan
    BY DEF GoodPatchIsRead
  <2>1. patch # Null /\ received = patch
    BY DEF Intact
  <2>2. Len(patch) \in Nat
    BY <2>1, LenProperties DEF PipelineInv, WrittenInv
  <2>3. Undamaged /\ Len(received) = Len(patch)
    BY <2>1, <2>2 DEF Undamaged
  <2> QED BY <2>1, <2>3 DEF PipelineInv, ReadSoFar
<1> QED BY <1>1, PipelineInvariant, PTL

\* A patch that was cut off before its delta is not accepted, wherever it was
\* cut.
THEOREM CutPatchesAreRefused == PipelineSpec => []CutPatchRefused
<1>1. PipelineInv => CutPatchRefused
  <2> SUFFICES ASSUME PipelineInv, patch # Null, Len(received) < Len(patch),
                      reading = "accepted"
               PROVE  FALSE
    BY DEF CutPatchRefused
  <2>1. Undamaged /\ Len(received) \in Nat
    BY LenProperties DEF PipelineInv, WrittenInv
  <2>2. Len(received) = Len(patch)
    BY <2>1 DEF PipelineInv, ReadSoFar
  <2> QED BY <2>1, <2>2
<1> QED BY <1>1, PipelineInvariant, PTL

\* What holds of process() and of the reader alone holds in the pipeline.
THEOREM PipelineKeepsParts ==
  PipelineSpec => [](RangesAreFriendly /\ InverseLocatesEntries /\ PlansReadInOrder)
<1>1. PipelineInv => RangesAreFriendly /\ InverseLocatesEntries /\ PlansReadInOrder
  BY ProcessImplies DEF PipelineInv, ReaderInv
<1> QED BY <1>1, PipelineInvariant, PTL

=============================================================================
