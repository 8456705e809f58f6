----------------------------- MODULE PlanLemmas -----------------------------
(***************************************************************************)
(* Lemmas the other proofs share: induction over the naturals and what it  *)
(* says of recursive functions, the division of a plan between workers     *)
(* (ListSplit) and the stream that follows a plan (PartialCompression).    *)
(***************************************************************************)
EXTENDS ListSplit, PartialCompression, FiniteSetTheorems, SequenceTheorems,
        WellFoundedInduction, TLAPS

-----------------------------------------------------------------------------
(***************************************************************************)
(* Induction.  The property is given by the set of the numbers that have   *)
(* it, so that a use of the lemma has no operator to instantiate; the      *)
(* proof takes a smallest number that is not in the set.                   *)
(***************************************************************************)

\* A set with 0 that has the successor of each of its numbers has them all.
LEMMA SetInduction ==
  ASSUME NEW S, 0 \in S, \A n \in Nat : n \in S => n + 1 \in S
  PROVE  Nat \subseteq S
<1> DEFINE T == Nat \ S
<1> SUFFICES ASSUME T # {} PROVE FALSE
  OBVIOUS
<1>1. PICK x \in T : \A y \in T : <<y, x>> \notin OpToRel(<, Nat)
  <2>1. T \subseteq Nat
    OBVIOUS
  <2> HIDE DEF T
  <2> QED BY <2>1, NatLessThanWellFounded, WFMin
<1>2. \A y \in T : ~(y < x)
  BY <1>1 DEF OpToRel
<1> QED BY <1>2

\* A set of natural numbers has a smallest one.
LEMMA SmallestExists ==
  ASSUME NEW M, M \subseteq Nat, M # {}
  PROVE  \E m \in M : \A j \in M : m <= j
<1>1. PICK m \in M : \A y \in M : <<y, m>> \notin OpToRel(<, Nat)
  BY NatLessThanWellFounded, WFMin
<1>2. \A j \in M : ~(j < m)
  BY <1>1 DEF OpToRel
<1> QED BY <1>2

\* The same up to a bound.
LEMMA IntervalInduction ==
  ASSUME NEW n \in Nat, NEW S, 0 \in S, \A k \in 0..(n - 1) : k \in S => k + 1 \in S
  PROVE  0..n \subseteq S
<1> DEFINE T == {k \in Nat : k <= n => k \in S}
<1>1. 0 \in T
  OBVIOUS
<1>2. \A k \in Nat : k \in T => k + 1 \in T
  OBVIOUS
<1> HIDE DEF T
<1>3. Nat \subseteq T
  BY <1>1, <1>2, SetInduction
<1> QED BY <1>3 DEF T

\* A property of the empty set that stays true of a subset of S to which an
\* element is added is true of all subsets of S, if S is finite.
LEMMA SubsetInduction ==
  ASSUME NEW S, IsFiniteSet(S), NEW F, {} \in F,
         \A T \in SUBSET S, x \in S : T \in F => T \union {x} \in F
  PROVE  SUBSET S \subseteq F
<1> DEFINE N == {n \in Nat : \A T \in SUBSET S : Cardinality(T) = n => T \in F}
<1>1. ASSUME NEW T \in SUBSET S PROVE IsFiniteSet(T) /\ Cardinality(T) \in Nat
  BY FS_Subset, FS_CardinalityType
<1>2. 0 \in N
  <2> SUFFICES ASSUME NEW T \in SUBSET S, Cardinality(T) = 0 PROVE T \in F
    OBVIOUS
  <2>1. T = {}
    BY <1>1, FS_EmptySet
  <2> QED BY <2>1
<1>3. ASSUME NEW n \in Nat, n \in N PROVE n + 1 \in N
  <2> SUFFICES ASSUME NEW T \in SUBSET S, Cardinality(T) = n + 1 PROVE T \in F
    OBVIOUS
  <2>1. T # {}
    <3>1. Cardinality({}) = 0
      BY FS_EmptySet
    <3> QED BY <3>1
  <2>2. PICK x \in T : TRUE
    BY <2>1
  <2>3. Cardinality(T \ {x}) = n
    BY <1>1, <2>2, FS_RemoveElement
  <2>4. T \ {x} \in F
    BY <1>3, <2>3
  <2>5. (T \ {x}) \union {x} \in F
    BY <2>2, <2>4
  <2>6. (T \ {x}) \union {x} = T
    BY <2>2
  <2> QED BY <2>5, <2>6
<1>4. Nat \subseteq N
  <2> HIDE DEF N
  <2> QED BY <1>2, <1>3, SetInduction
<1> QED
  <2> SUFFICES ASSUME NEW T \in SUBSET S PROVE T \in F
    OBVIOUS
  <2>1. Cardinality(T) \in N
    BY <1>1, <1>4
  <2> QED BY <2>1

\* R orders the elements of S strictly.
Orders(R, S) ==
  /\ \A x \in S : <<x, x>> \notin R
  /\ \A x, y, z \in S : <<x, y>> \in R /\ <<y, z>> \in R => <<x, z>> \in R
  /\ \A x, y \in S : x = y \/ <<x, y>> \in R \/ <<y, x>> \in R

\* A finite set has a last element.
LEMMA LastExists ==
  ASSUME NEW S, IsFiniteSet(S), S # {}, NEW R, Orders(R, S)
  PROVE  \E m \in S : \A x \in S : x = m \/ <<x, m>> \in R
<1> DEFINE Last(T, m) == m \in T /\ \A x \in T : x = m \/ <<x, m>> \in R
           F == {T \in SUBSET S : T = {} \/ \E m \in S : Last(T, m)}
<1>1. {} \in F
  OBVIOUS
<1>2. ASSUME NEW T \in SUBSET S, NEW x \in S, T \in F PROVE T \union {x} \in F
  <2>1. CASE T = {}
    <3>1. Last(T \union {x}, x)
      BY <2>1
    <3> HIDE DEF Last
    <3> QED BY <3>1
  <2>2. CASE T # {}
    <3>1. PICK m \in S : Last(T, m)
      BY <1>2, <2>2
    <3>2. CASE <<m, x>> \in R
      <4>1. \A y \in T : <<y, x>> \in R
        BY <3>1, <3>2 DEF Orders
      <4>2. Last(T \union {x}, x)
        BY <4>1
      <4> HIDE DEF Last
      <4> QED BY <4>2
    <3>3. CASE <<m, x>> \notin R
      <4>1. Last(T \union {x}, m)
        BY <3>1, <3>3 DEF Orders
      <4> HIDE DEF Last
      <4> QED BY <4>1
    <3> QED BY <3>2, <3>3
  <2> QED BY <2>1, <2>2
<1>3. S \in F
  <2> HIDE DEF F
  <2> QED BY <1>1, <1>2, SubsetInduction
<1> QED BY <1>3

\* f lists the elements of S, of which there are n, in the order R.
Enumerates(f, n, S, R) ==
  /\ f \in [1..n -> S]
  /\ \A i, j \in 1..n : i < j => <<f[i], f[j]>> \in R
  /\ \A x \in S : \E i \in 1..n : f[i] = x

\* The elements of a finite set can be listed in any order.
LEMMA EnumerationExists ==
  ASSUME NEW S, IsFiniteSet(S), NEW R, Orders(R, S)
  PROVE  \E n \in Nat : \E f : Enumerates(f, n, S, R)
<1> DEFINE N == {n \in Nat : \A T \in SUBSET S :
                   Cardinality(T) = n => \E f : Enumerates(f, n, T, R)}
<1>1. ASSUME NEW T \in SUBSET S PROVE IsFiniteSet(T) /\ Cardinality(T) \in Nat
  BY FS_Subset, FS_CardinalityType
<1>2. 0 \in N
  <2> SUFFICES ASSUME NEW T \in SUBSET S, Cardinality(T) = 0
               PROVE  \E f : Enumerates(f, 0, T, R)
    OBVIOUS
  <2> DEFINE f == [i \in 1..0 |-> 0]
  <2>1. T = {}
    BY <1>1, FS_EmptySet
  <2>2. Enumerates(f, 0, T, R)
    BY <2>1 DEF Enumerates
  <2> HIDE DEF f
  <2> QED BY <2>2
<1>3. ASSUME NEW n \in Nat, n \in N PROVE n + 1 \in N
  <2> SUFFICES ASSUME NEW T \in SUBSET S, Cardinality(T) = n + 1
               PROVE  \E f : Enumerates(f, n + 1, T, R)
    OBVIOUS
  <2>1. T # {} /\ IsFiniteSet(T)
    <3>1. Cardinality({}) = 0
      BY FS_EmptySet
    <3> QED BY <1>1, <3>1
  <2>2. Orders(R, T)
    BY DEF Orders
  <2>3. PICK m \in T : \A x \in T : x = m \/ <<x, m>> \in R
    BY <2>1, <2>2, LastExists
  <2> DEFINE U == T \ {m}
  <2>4. Cardinality(U) = n /\ U \in SUBSET S
    <3>1. m \in T
      BY <2>3
    <3>2. Cardinality(U) = Cardinality(T) - 1
      BY <2>1, <3>1, FS_RemoveElement
    <3> QED BY <3>2
  <2>5. PICK f : Enumerates(f, n, U, R)
    BY <1>3, <2>4
  <2> DEFINE g == [i \in 1..(n + 1) |-> IF i = n + 1 THEN m ELSE f[i]]
  <2>6. f \in [1..n -> U]
    BY <2>5 DEF Enumerates
  <2>7. g \in [1..(n + 1) -> T]
    BY <2>6
  <2>8. ASSUME NEW i \in 1..(n + 1), NEW j \in 1..(n + 1), i < j
        PROVE  <<g[i], g[j]>> \in R
    <3>1. i \in 1..n /\ g[i] = f[i] /\ f[i] \in U
      BY <2>6, <2>8
    <3>2. CASE j = n + 1
      BY <2>3, <3>1, <3>2
    <3>3. CASE j # n + 1
      <4>1. j \in 1..n /\ g[j] = f[j]
        BY <3>3
      <4> QED BY <2>5, <2>8, <3>1, <4>1 DEF Enumerates
    <3> QED BY <3>2, <3>3
  <2>9. ASSUME NEW x \in T PROVE \E i \in 1..(n + 1) : g[i] = x
    <3>1. CASE x = m
      BY <3>1
    <3>2. CASE x # m
      <4>1. PICK i \in 1..n : f[i] = x
        BY <2>5, <3>2 DEF Enumerates
      <4>2. i \in 1..(n + 1) /\ g[i] = x
        BY <4>1
      <4> QED BY <4>2
    <3> QED BY <3>1, <3>2
  <2>10. Enumerates(g, n + 1, T, R)
    <3> HIDE DEF g
    <3> QED BY <2>7, <2>8, <2>9 DEF Enumerates
  <2> HIDE DEF g
  <2> QED BY <2>10
<1>4. Nat \subseteq N
  <2> HIDE DEF N
  <2> QED BY <1>2, <1>3, SetInduction
<1>5. Cardinality(S) \in N
  BY <1>1, <1>4
<1> QED BY <1>5

\* The function h has the first value e and makes the given steps.
IsRecursion(h, n, V, e, step) ==
  /\ h \in [0..n -> V]
  /\ h[0] = e
  /\ \A k \in 1..n : h[k] = step[k][h[k - 1]]

\* A function given by its first value and its steps exists.
LEMMA RecursionExists ==
  ASSUME NEW n \in Nat, NEW V, NEW e \in V, NEW step \in [1..n -> [V -> V]]
  PROVE  \E h : IsRecursion(h, n, V, e, step)
<1> DEFINE Upto(m) == \E h \in [0..m -> V] :
             h[0] = e /\ \A k \in 1..m : h[k] = step[k][h[k - 1]]
           S == {m \in Nat : Upto(m)}
<1>1. 0 \in S
  <2>1. [k \in 0..0 |-> e] \in [0..0 -> V] /\ [k \in 0..0 |-> e][0] = e
    OBVIOUS
  <2>2. Upto(0)
    <3>1. \A k \in 1..0 : FALSE
      OBVIOUS
    <3> QED BY <2>1, <3>1
  <2> HIDE DEF Upto
  <2> QED BY <2>2
<1>2. ASSUME NEW m \in 0..(n - 1), m \in S PROVE m + 1 \in S
  <2>1. PICK h \in [0..m -> V] : h[0] = e /\ \A k \in 1..m : h[k] = step[k][h[k - 1]]
    BY <1>2
  <2> DEFINE g == [k \in 0..(m + 1) |-> IF k = m + 1 THEN step[m + 1][h[m]] ELSE h[k]]
  <2>2. m + 1 \in 1..n /\ h[m] \in V
    BY <2>1
  <2>3. g \in [0..(m + 1) -> V]
    BY <2>2
  <2>4. g[0] = e /\ \A k \in 1..(m + 1) : g[k] = step[k][g[k - 1]]
    BY <2>1
  <2>5. Upto(m + 1)
    BY <2>3, <2>4
  <2> HIDE DEF Upto
  <2> QED BY <2>5
<1> HIDE DEF S
<1>3. n \in S
  <2>1. 0..n \subseteq S
    BY <1>1, <1>2, IntervalInduction
  <2> QED BY <2>1
<1> QED BY <1>3 DEF S, IsRecursion

\* h[k] is the concatenation of the first k pieces.
Concatenates(h, n, S, piece) ==
  /\ h \in [0..n -> Seq(S)]
  /\ h[0] = <<>>
  /\ \A k \in 1..n : h[k] = h[k - 1] \o piece[k]

\* The concatenations of the first pieces exist.
LEMMA ConcatenationExists ==
  ASSUME NEW n \in Nat, NEW S, NEW piece \in [1..n -> Seq(S)]
  PROVE  \E h : Concatenates(h, n, S, piece)
<1> DEFINE V == Seq(S)
           e == <<>>
           step == [k \in 1..n |-> [v \in V |-> v \o piece[k]]]
<1>1. e \in V
  BY EmptySeq
<1>2. step \in [1..n -> [V -> V]]
  <2> SUFFICES ASSUME NEW k \in 1..n, NEW v \in V PROVE v \o piece[k] \in V
    OBVIOUS
  <2> QED BY ConcatProperties
<1>3. PICK h : IsRecursion(h, n, V, e, step)
  <2> HIDE DEF V, e, step
  <2> QED BY <1>1, <1>2, RecursionExists
<1>4. ASSUME NEW k \in 1..n PROVE step[k][h[k - 1]] = h[k - 1] \o piece[k]
  <2>1. h[k - 1] \in V
    <3> HIDE DEF V, e, step
    <3> QED BY <1>3 DEF IsRecursion
  <2> QED BY <2>1
<1> QED
  <2> HIDE DEF step
  <2> QED BY <1>3, <1>4 DEF IsRecursion, Concatenates

\* h[k] is the sum of the first k weights.
AddsUp(h, n, weight) ==
  /\ h \in [0..n -> Int]
  /\ h[0] = 0
  /\ \A k \in 1..n : h[k] = h[k - 1] + weight[k]

\* The sums of the first weights exist.
LEMMA SumExists ==
  ASSUME NEW n \in Nat, NEW weight \in [1..n -> Int]
  PROVE  \E h : AddsUp(h, n, weight)
<1> DEFINE V == Int
           e == 0
           step == [k \in 1..n |-> [v \in Int |-> v + weight[k]]]
<1>1. step \in [1..n -> [Int -> Int]]
  OBVIOUS
<1>2. PICK h : IsRecursion(h, n, V, e, step)
  <2>1. e \in V /\ step \in [1..n -> [V -> V]]
    BY <1>1
  <2> HIDE DEF V, e, step
  <2> QED BY <2>1, RecursionExists
<1>3. ASSUME NEW k \in 1..n PROVE step[k][h[k - 1]] = h[k - 1] + weight[k]
  <2>1. h[k - 1] \in Int
    <3> HIDE DEF step
    <3> QED BY <1>2 DEF IsRecursion
  <2> QED BY <2>1
<1> QED
  <2> HIDE DEF step
  <2> QED BY <1>2, <1>3 DEF IsRecursion, AddsUp

-----------------------------------------------------------------------------
(***************************************************************************)
(* The division of a plan between workers: lemmas about MTlistSplit, for   *)
(* every list, number of threads and state of its fields.                  *)
(***************************************************************************)

\* The fields of MTlistSplit, whatever their values.
IsSplit(split) ==
  split = [isAverage |-> split.isAverage, score |-> split.score,
           haveSplitPos |-> split.haveSplitPos]

\* Where the sublist of thread no starts: the weighted division remembers
\* the end of the one before it, the average division computes it.
NextFrom(list, threads, no, split) ==
  IF split.isAverage THEN no * AverageSubLen(list, threads) ELSE split.haveSplitPos

\* The sublist a call returns starts where the one before it ends, the last
\* one ends with the list, and the fields are left ready for the next call.
LEMMA SubListFollows ==
  ASSUME NEW list, NEW threads \in Int, NEW no \in Int, no < threads,
         NEW split, IsSplit(split)
  PROVE  LET sub == GetSubList(list, threads, no, split)
         IN /\ sub.from = NextFrom(list, threads, no, split)
            /\ no = threads - 1 => sub.to = Len(list)
            /\ no < threads - 1 =>
                 sub.to = NextFrom(list, threads, no + 1, sub.split)
            /\ IsSplit(sub.split)
<1> DEFINE sub == GetSubList(list, threads, no, split)
<1>1. CASE split.isAverage
  <2>1. /\ sub.from = no * AverageSubLen(list, threads) /\ sub.split = split
        /\ sub.to = IF no = threads - 1 THEN Len(list)
                    ELSE (no + 1) * AverageSubLen(list, threads)
    BY <1>1 DEF GetSubList, AverageSubList
  <2>2. no < threads - 1 => no # threads - 1
    OBVIOUS
  <2> HIDE DEF sub
  <2> QED BY <1>1, <2>1, <2>2, Zenon DEF NextFrom, sub
<1>2. CASE ~split.isAverage
  <2>1. CASE no = threads - 1
    <3>1. sub = [from |-> split.haveSplitPos, to |-> Len(list), split |-> split]
      BY <1>2, <2>1 DEF GetSubList, WeightedSubList
    <3> HIDE DEF sub
    <3>2. sub.from = split.haveSplitPos /\ sub.to = Len(list) /\ sub.split = split
      BY <3>1
    <3> QED BY <1>2, <2>1, <3>2 DEF NextFrom, sub
  <2>2. CASE no # threads - 1
    <3>1. PICK reached, score :
            sub = [from |-> split.haveSplitPos, to |-> reached,
                   split |-> [split EXCEPT !.haveSplitPos = reached, !.score = score]]
      BY <1>2, <2>2 DEF GetSubList, WeightedSubList
    <3> HIDE DEF sub
    <3>2. sub.split = [isAverage |-> split.isAverage, score |-> score,
                       haveSplitPos |-> reached]
      BY <3>1 DEF IsSplit
    <3>3. sub.from = split.haveSplitPos /\ sub.to = reached
      BY <3>1
    <3> QED BY <1>2, <2>2, <3>2, <3>3 DEF NextFrom, IsSplit, sub
  <2> QED BY <2>1, <2>2
<1> QED BY <1>1, <1>2

\* Average division of a list at least as long as the square of the number
\* of threads: what the threads before the last one take leaves it something.
LEMMA AverageLeavesSomething ==
  ASSUME NEW len \in Nat, NEW t \in Nat \ {0}, len >= t * t
  PROVE  (t - 1) * (len \div t + 1) < len
<1> DEFINE q == len \div t
<1>1. q \in Nat /\ t * q <= len
  OBVIOUS
<1>2. q >= t
  <2> SUFFICES ASSUME q < t PROVE FALSE
    BY <1>1
  <2>1. len < t * q + t
    OBVIOUS
  <2>2. q + 1 <= t
    BY <1>1
  <2>3. t * (q + 1) <= t * t
    BY <1>1, <2>2
  <2> QED BY <1>1, <2>1, <2>3
<1>3. (t - 1) * (q + 1) = t * q + t - q - 1
  BY <1>1
<1> QED BY <1>1, <1>2, <1>3

\* Multiplying by a natural number keeps the order: what the solver is not
\* able to find for products of variables.
LEMMA ProductGrows ==
  ASSUME NEW a \in Nat, NEW b \in Nat, NEW c \in Nat, a <= b
  PROVE  a * c <= b * c
  OBVIOUS

\* The interval of a thread of the average division is not empty and lies in
\* the list.
LEMMA AverageInterval ==
  ASSUME NEW len \in Nat, NEW t \in Nat \ {0}, len >= t * t,
         NEW k \in 0..(t - 1), NEW sub \in Nat, sub = len \div t + 1
  PROVE  /\ k * sub \in 0..(len - 1)
         /\ k # t - 1 => (k + 1) * sub \in (k * sub + 1)..len
<1>1. sub >= 1
  OBVIOUS
<1>2. (t - 1) * sub < len
  BY AverageLeavesSomething
<1>3. k * sub <= (t - 1) * sub /\ k * sub \in Nat
  BY ProductGrows
<1>4. CASE k = t - 1
  BY <1>2, <1>3, <1>4
<1>5. CASE k # t - 1
  <2>1. (k + 1) * sub <= (t - 1) * sub
    BY <1>5, ProductGrows
  <2>2. (k + 1) * sub = k * sub + sub
    OBVIOUS
  <2> QED BY <1>1, <1>2, <1>3, <2>1, <2>2
<1> QED BY <1>4, <1>5

-----------------------------------------------------------------------------
(***************************************************************************)
(* The stream of PartialCompression: every call of writeChunk keeps it     *)
(* consistent, whatever the ranges, the buffer and the point at which the  *)
(* buffer was cut.                                                         *)
(***************************************************************************)

Consistent(s) ==
  s \in Stream /\ RangesInOrder(s) /\ WithinRange(s) /\ RightDeflater(s)

\* The next range of a stream and the ones after it.
LEMMA NextRange ==
  ASSUME NEW s \in Stream, s.ranges # <<>>
  PROVE  /\ Head(s.ranges) \in Ranges
         /\ Tail(s.ranges) \in Seq(Ranges)
         /\ Head(s.ranges) = s.ranges[1]
         /\ Head(s.ranges).offset \in Nat /\ Head(s.ranges).length \in Nat
         /\ Head(s.ranges).params \in Params
<1>1. s.ranges \in Seq(Ranges)
  BY DEF Stream
<1>2. Head(s.ranges) \in Ranges /\ Tail(s.ranges) \in Seq(Ranges)
  BY <1>1, HeadTailProperties
<1>3. Head(s.ranges) = s.ranges[1]
  BY <1>1
<1> QED BY <1>2, <1>3 DEF Ranges

\* Where the stream stands is a natural number.
LEMMA PositionType ==
  ASSUME NEW s \in Stream
  PROVE  Position(s) \in Nat
  BY DEF Stream, Position

\* Beginning a range: the stream is then inside it, with its settings.
LEMMA EnterRangeConsistent ==
  ASSUME NEW s, Consistent(s), Null \notin Params
  PROVE  /\ Consistent(EnterRange(s))
         /\ Position(EnterRange(s)) = Position(s)
<1> DEFINE p == Head(s.ranges).params
           b == BeginRange(s)
<1> USE DEF Consistent
<1>1. CASE ~(BytesTillCompressionStarts(s) = 0 /\ ~Compressing(s))
  BY <1>1 DEF EnterRange
<1>2. CASE BytesTillCompressionStarts(s) = 0 /\ ~Compressing(s)
  <2>1. /\ EnterRange(s) = b /\ s.ranges # <<>>
        /\ Position(s) = Head(s.ranges).offset
    BY <1>2, NextRange, PositionType DEF EnterRange, BytesTillCompressionStarts
  <2>2. /\ p \in Params /\ Head(s.ranges).offset \in Nat
        /\ Head(s.ranges).length \in Nat
    BY <2>1, NextRange
  <2>3. CASE p.strategy = SevenZip
    <3>1. b = [s EXCEPT !.seven = TRUE]
      BY <2>3 DEF BeginRange
    <3>2. /\ b \in Stream /\ b.seven /\ b.ranges = s.ranges
          /\ b.deflating = s.deflating /\ b.deflater = s.deflater /\ b.last = s.last
          /\ Position(b) = Position(s)
      BY <3>1 DEF Stream, Position
    <3>3. RangesInOrder(b) /\ RightDeflater(b)
      BY <3>2, <1>2 DEF RangesInOrder, RightDeflater, Compressing
    <3>4. WithinRange(b)
      BY <3>2, <2>1, <2>2 DEF WithinRange, Compressing, End
    <3> QED BY <3>2, <3>3, <3>4, <2>1
  <2>4. CASE p.strategy # SevenZip
    <3> DEFINE reused == s.deflater # Null /\ s.last.nowrap = p.nowrap
               d == [level |-> p.level, strategy |-> p.strategy,
                     nowrap |-> IF reused THEN s.deflater.nowrap ELSE p.nowrap]
    <3>1. b = [s EXCEPT !.deflating = TRUE, !.deflater = d]
      BY <2>4 DEF BeginRange
    <3>2. d = p
      BY <1>2, <2>2 DEF RightDeflater, Compressing, Params
    <3>3. /\ b \in Stream /\ b.deflating /\ b.ranges = s.ranges
          /\ b.seven = s.seven /\ b.deflater = p /\ Position(b) = Position(s)
      BY <3>1, <3>2, <2>2 DEF Stream, Position
    <3>4. RangesInOrder(b) /\ RightDeflater(b)
      BY <3>3, <1>2, <2>2, <2>4 DEF RangesInOrder, RightDeflater, Compressing
    <3>5. WithinRange(b)
      BY <3>3, <2>1, <2>2 DEF WithinRange, Compressing, End
    <3> QED BY <3>3, <3>4, <3>5, <2>1
  <2> QED BY <2>3, <2>4
<1> QED BY <1>1, <1>2

\* The bytes a call takes: some, but no more than there are nor than fit.
LEMMA ChunkSizeBounds ==
  ASSUME NEW s, Consistent(s), NEW len \in Nat
  PROVE  /\ ChunkSize(s, len) \in 0..len
         /\ Compressing(s) => ChunkSize(s, len) <= BytesTillCompressionEnds(s)
         /\ ~Compressing(s) /\ s.ranges # <<>> =>
              ChunkSize(s, len) <= BytesTillCompressionStarts(s)
<1> USE DEF Consistent
<1>1. Position(s) \in Nat
  BY PositionType
<1>2. CASE Compressing(s)
  <2>1. /\ s.ranges # <<>> /\ BytesTillCompressionEnds(s) \in Nat
    BY <1>1, <1>2, NextRange DEF WithinRange, BytesTillCompressionEnds, End
  <2> QED BY <1>2, <2>1 DEF ChunkSize, Lesser
<1>3. CASE ~Compressing(s) /\ s.ranges # <<>>
  <2>1. BytesTillCompressionStarts(s) \in Nat
    BY <1>1, <1>3, NextRange DEF WithinRange, BytesTillCompressionStarts
  <2> QED BY <1>3, <2>1 DEF ChunkSize, Lesser
<1>4. CASE ~Compressing(s) /\ s.ranges = <<>>
  BY <1>4 DEF ChunkSize
<1> QED BY <1>2, <1>3, <1>4

\* What is copied is a sequence of items, one for each byte.
LEMMA CopiedItems ==
  ASSUME NEW bytes \in Seq(Nat)
  PROVE  Copied(bytes) \in Seq(Items)
<1>1. Len(bytes) \in Nat
  BY LenProperties
<1>2. \A i \in 1..Len(bytes) : <<<<"copy">>, <<bytes[i]>>>> \in Items
  <2> SUFFICES ASSUME NEW i \in 1..Len(bytes)
               PROVE  <<<<"copy">>, <<bytes[i]>>>> \in Items
    OBVIOUS
  <2>1. <<bytes[i]>> \in Seq(Nat)
    BY ElementOfSeq
  <2> QED BY <2>1, Zenon DEF Items
<1> QED BY <1>1, <1>2 DEF Copied

\* Taking the bytes moves the stream, at most to the edge.
LEMMA ConsumeConsistent ==
  ASSUME NEW s, Consistent(s), NEW bytes \in Seq(Nat),
         Compressing(s) => Len(bytes) <= BytesTillCompressionEnds(s),
         ~Compressing(s) /\ s.ranges # <<>> =>
           Len(bytes) <= BytesTillCompressionStarts(s)
  PROVE  /\ Consistent(Consume(s, bytes))
         /\ Position(Consume(s, bytes)) = Position(s) + Len(bytes)
<1> DEFINE c == Consume(s, bytes)
<1> USE DEF Consistent
<1>1. Position(s) \in Nat /\ Len(bytes) \in Nat
  BY PositionType, LenProperties
<1>2. c \in Stream
  <2>1. /\ s.spool \o bytes \in Seq(Nat) /\ s.pending \o bytes \in Seq(Nat)
        /\ s.out \o Copied(bytes) \in Seq(Items)
    BY CopiedItems, ConcatProperties DEF Stream
  <2>2. s.written + Len(bytes) \in Nat
    BY <1>1 DEF Stream
  <2> QED BY <2>1, <2>2 DEF Consume, Stream
<1>3. /\ c.ranges = s.ranges /\ c.seven = s.seven /\ c.deflating = s.deflating
      /\ c.deflater = s.deflater /\ c.last = s.last
  BY DEF Consume, Stream
<1>4. Position(c) = Position(s) + Len(bytes)
  BY <1>1 DEF Consume, Stream, Position
<1>5. RangesInOrder(c) /\ RightDeflater(c)
  BY <1>3 DEF RangesInOrder, RightDeflater
<1>6. WithinRange(c)
  <2>1. CASE Compressing(s)
    BY <2>1, <1>1, <1>3, <1>4, NextRange
    DEF WithinRange, Compressing, BytesTillCompressionEnds, End
  <2>2. CASE ~Compressing(s)
    BY <2>2, <1>1, <1>3, <1>4, NextRange
    DEF WithinRange, Compressing, BytesTillCompressionStarts
  <2> QED BY <2>1, <2>2
<1> QED BY <1>2, <1>4, <1>5, <1>6

\* The compressed form of the range goes out; the stream is copying again.
LEMMA FlushConsistent ==
  ASSUME NEW s, Consistent(s), AtRangeEnd(s), Null \notin Params
  PROVE  LET f == IF s.seven THEN FlushSevenZip(s) ELSE FlushDeflater(s)
         IN /\ f \in Stream /\ ~Compressing(f) /\ RightDeflater(f)
            /\ f.ranges = s.ranges /\ Position(f) = Position(s)
<1> DEFINE p == Head(s.ranges).params
<1> USE DEF Consistent
<1>1. s.ranges # <<>> /\ p \in Params
  BY NextRange DEF AtRangeEnd, WithinRange
<1>2. CASE s.seven
  <2> DEFINE f == FlushSevenZip(s)
             item == <<Codec(p), s.spool>>
  <2>1. item \in Items
    <3>1. s.spool \in Seq(Nat)
      BY DEF Stream
    <3>2. Codec(p) \in ({"7z"} \X (1..9)) \union ({"zlib"} \X (1..9) \X (0..7) \X BOOLEAN)
      BY <1>1 DEF Codec, Params
    <3> QED BY <3>1, <3>2, Zenon DEF Items
  <2> DEFINE out == Append(s.out, item)
  <2>2. out \in Seq(Items)
    BY <2>1, AppendProperties DEF Stream
  <2>3. f = [s EXCEPT !.out = out, !.spool = <<>>, !.seven = FALSE]
    BY DEF FlushSevenZip
  <2> HIDE DEF f, out
  <2>4. /\ f \in Stream /\ ~f.seven /\ f.deflating = s.deflating
        /\ f.deflater = s.deflater /\ f.last = s.last
        /\ f.ranges = s.ranges /\ Position(f) = Position(s)
    BY <2>2, <2>3, <1>2, EmptySeq DEF Stream, Position
  <2> QED BY <1>2, <2>4 DEF f, RightDeflater, Compressing
<1>3. CASE ~s.seven
  <2> DEFINE f == FlushDeflater(s)
             item == <<DeflaterCodec(s.deflater), s.pending>>
  <2>1. s.deflating /\ s.deflater = p
    BY <1>3 DEF AtRangeEnd, Compressing, RightDeflater
  <2>2. item \in Items
    <3>1. s.pending \in Seq(Nat)
      BY DEF Stream
    <3>2. DeflaterCodec(s.deflater) \in {"zlib"} \X (1..9) \X (0..7) \X BOOLEAN
      BY <1>1, <2>1 DEF DeflaterCodec, Params
    <3> QED BY <3>1, <3>2, Zenon DEF Items
  <2> DEFINE out == Append(s.out, item)
  <2>3. out \in Seq(Items)
    BY <2>2, AppendProperties DEF Stream
  <2>4. f = [s EXCEPT !.out = out, !.pending = <<>>, !.deflating = FALSE, !.last = p]
    BY DEF FlushDeflater
  <2> HIDE DEF f, out, p
  <2>5. /\ f \in Stream /\ ~f.deflating /\ f.seven = s.seven
        /\ f.deflater = p /\ f.last = p
        /\ f.ranges = s.ranges /\ Position(f) = Position(s)
    BY <1>1, <2>1, <2>3, <2>4, EmptySeq DEF Stream, Position
  <2>6. f.last # Null
    BY <1>1, <2>5
  <2> QED BY <1>3, <2>5, <2>6 DEF f, RightDeflater, Compressing
<1> QED BY <1>2, <1>3

\* The range is complete: the stream stands at most at the start of the next.
LEMMA FinishRangeConsistent ==
  ASSUME NEW s, Consistent(s), AtRangeEnd(s), Null \notin Params
  PROVE  /\ Consistent(FinishRange(s))
         /\ Position(FinishRange(s)) = Position(s)
<1> DEFINE f == IF s.seven THEN FlushSevenZip(s) ELSE FlushDeflater(s)
           rest == Tail(s.ranges)
           n == FinishRange(s)
<1> USE DEF Consistent
<1>1. /\ f \in Stream /\ ~Compressing(f) /\ RightDeflater(f)
      /\ f.ranges = s.ranges /\ Position(f) = Position(s)
  BY FlushConsistent
<1>2. /\ s.ranges \in Seq(Ranges) /\ s.ranges # <<>>
      /\ Position(s) = End(s.ranges[1]) /\ Position(s) \in Nat
  <2>1. s.ranges \in Seq(Ranges) /\ s.ranges # <<>>
    BY DEF AtRangeEnd, WithinRange, Stream
  <2>2. Position(s) \in Nat /\ End(Head(s.ranges)) \in Nat
    BY <2>1, NextRange, PositionType DEF End
  <2>3. End(Head(s.ranges)) - Position(s) = 0
    BY <2>1 DEF AtRangeEnd, BytesTillCompressionEnds
  <2> QED BY <2>1, <2>2, <2>3, NextRange
<1>3. /\ rest \in Seq(Ranges) /\ Len(rest) = Len(s.ranges) - 1
      /\ \A i \in 1..Len(rest) : rest[i] = s.ranges[i + 1]
  BY <1>2, HeadTailProperties
<1>4. n = [f EXCEPT !.ranges = rest, !.deflater = IF rest = <<>> THEN Null ELSE @]
  BY DEF FinishRange
<1>5. /\ n \in Stream /\ n.ranges = rest /\ n.seven = f.seven
      /\ n.deflating = f.deflating /\ n.last = f.last
      /\ n.deflater = Null \/ n.deflater = f.deflater
      /\ Position(n) = Position(s)
  BY <1>1, <1>3, <1>4 DEF Stream, Position
<1>6. ~Compressing(n) /\ RightDeflater(n)
  BY <1>1, <1>5 DEF Compressing, RightDeflater
<1>7. Len(s.ranges) \in Nat /\ Len(rest) \in Nat
  BY <1>2, <1>3, LenProperties
<1>8. RangesInOrder(n)
  <2> SUFFICES ASSUME NEW k \in 2..Len(rest)
               PROVE  End(rest[k - 1]) <= rest[k].offset
    BY <1>5 DEF RangesInOrder
  <2>1. rest[k - 1] = s.ranges[k] /\ rest[k] = s.ranges[k + 1]
    BY <1>3, <1>7
  <2> QED BY <1>3, <1>7, <2>1 DEF RangesInOrder
<1>9. WithinRange(n)
  <2>1. CASE rest = <<>>
    BY <1>5, <1>6, <2>1 DEF WithinRange
  <2>2. CASE rest # <<>>
    <3>1. 2 \in 2..Len(s.ranges) /\ Head(rest) = s.ranges[2]
      BY <1>3, <1>7, <2>2, EmptySeq
    <3>2. End(s.ranges[1]) <= s.ranges[2].offset
      BY <3>1 DEF RangesInOrder
    <3> QED BY <1>2, <1>5, <1>6, <3>1, <3>2 DEF WithinRange
  <2> QED BY <2>1, <2>2
<1> QED BY <1>5, <1>6, <1>8, <1>9

(***************************************************************************)
(* A whole call of writeChunk.                                             *)
(***************************************************************************)
LEMMA TakenConsistent ==
  ASSUME NEW s, Consistent(s), NEW buffer \in Seq(Nat), Null \notin Params
  PROVE  /\ Consistent(Taken(s, buffer))
         /\ Position(Taken(s, buffer)) =
              Position(s) + ChunkSize(EnterRange(s), Len(buffer))
         /\ ChunkSize(EnterRange(s), Len(buffer)) \in 0..Len(buffer)
<1> DEFINE e == EnterRange(s)
           size == ChunkSize(e, Len(buffer))
           bytes == SubSeq(buffer, 1, size)
<1>1. Consistent(e) /\ Position(e) = Position(s)
  BY EnterRangeConsistent
<1>2. Len(buffer) \in Nat
  BY LenProperties
<1>3. /\ size \in 0..Len(buffer)
      /\ Compressing(e) => size <= BytesTillCompressionEnds(e)
      /\ ~Compressing(e) /\ e.ranges # <<>> => size <= BytesTillCompressionStarts(e)
  BY <1>1, <1>2, ChunkSizeBounds
<1>4. bytes \in Seq(Nat) /\ Len(bytes) = size
  <2>1. \A i \in 1..size : buffer[i] \in Nat
    BY <1>2, <1>3, ElementOfSeq
  <2> QED BY <1>2, <1>3, <2>1, SubSeqProperties
<1> QED BY <1>1, <1>3, <1>4, ConsumeConsistent DEF Taken

\* Every call leaves a consistent stream that has moved by what it took.
LEMMA WriteChunkConsistent ==
  ASSUME NEW s, Consistent(s), NEW buffer \in Seq(Nat), Null \notin Params
  PROVE  /\ Consistent(WriteChunk(s, buffer))
         /\ Position(WriteChunk(s, buffer)) =
              Position(s) + ChunkSize(EnterRange(s), Len(buffer))
  BY TakenConsistent, FinishRangeConsistent DEF WriteChunk

\* And what it did not take is handed over by the next one.
LEMMA UnwrittenType ==
  ASSUME NEW s, Consistent(s), NEW buffer \in Seq(Nat), Null \notin Params
  PROVE  /\ Unwritten(s, buffer) \in Seq(Nat)
         /\ Len(Unwritten(s, buffer)) =
              Len(buffer) - ChunkSize(EnterRange(s), Len(buffer))
<1> DEFINE size == ChunkSize(EnterRange(s), Len(buffer))
<1>1. Len(buffer) \in Nat /\ size \in 0..Len(buffer)
  BY TakenConsistent, LenProperties
<1>2. \A i \in (1 + size)..Len(buffer) : buffer[i] \in Nat
  BY <1>1, ElementOfSeq
<1> QED BY <1>1, <1>2, SubSeqProperties DEF Unwritten

\* A block of the blob.
LEMMA BytesType ==
  ASSUME NEW lo \in Nat, NEW hi \in Nat, lo <= hi
  PROVE  Bytes(lo, hi) \in Seq(Nat) /\ Len(Bytes(lo, hi)) = hi - lo
<1>1. hi - lo \in Nat
  OBVIOUS
<1>2. Bytes(lo, hi) \in [1..(hi - lo) -> Nat]
  BY DEF Bytes
<1> QED BY <1>1, <1>2

\* A new stream is consistent if it starts at or before its first range.
LEMMA NewStreamConsistent ==
  ASSUME NEW ranges \in Seq(Ranges), NEW offset \in Nat, NEW spool \in Seq(Nat),
         \A k \in 2..Len(ranges) : End(ranges[k - 1]) <= ranges[k].offset,
         ranges # <<>> => offset <= ranges[1].offset
  PROVE  /\ Consistent(NewStream(ranges, offset, spool))
         /\ Position(NewStream(ranges, offset, spool)) = offset
<1> DEFINE n == NewStream(ranges, offset, spool)
<1>1. n \in Stream
  BY EmptySeq DEF NewStream, Stream
<1>2. /\ n.ranges = ranges /\ ~n.seven /\ ~n.deflating /\ n.deflater = Null
      /\ Position(n) = offset
  BY DEF NewStream, Position
<1>3. RangesInOrder(n) /\ RightDeflater(n)
  BY <1>2 DEF RangesInOrder, RightDeflater
<1>4. WithinRange(n)
  BY <1>2 DEF WithinRange, Compressing
<1> QED BY <1>1, <1>2, <1>3, <1>4 DEF Consistent

\* The ranges of a plan that PatchReader lets through.
LEMMA InOrderRanges ==
  ASSUME NEW list \in Seq(Ranges), InOrder(list)
  PROVE  /\ \A k \in 2..Len(list) : End(list[k - 1]) <= list[k].offset
         /\ list # <<>> => 0 <= list[1].offset
<1>1. Len(list) \in Nat /\ list # <<>> => 1 \in 1..Len(list)
  BY LenProperties, EmptySeq
<1> QED BY <1>1 DEF InOrder, StartOfGap

-----------------------------------------------------------------------------
(***************************************************************************)
(* Blocks of the blob, and what they are copied to.                        *)
(***************************************************************************)

\* A byte of a block.
LEMMA ByteOfBlock ==
  ASSUME NEW lo \in Nat, NEW hi \in Nat, lo <= hi
  PROVE  \A i \in 1..(hi - lo) : Bytes(lo, hi)[i] = lo + i - 1
  BY DEF Bytes

\* Two blocks one after the other are one.
LEMMA BytesJoin ==
  ASSUME NEW lo \in Nat, NEW mid \in Nat, NEW hi \in Nat, lo <= mid, mid <= hi
  PROVE  Bytes(lo, mid) \o Bytes(mid, hi) = Bytes(lo, hi)
<1> DEFINE a == Bytes(lo, mid)
           b == Bytes(mid, hi)
           c == Bytes(lo, hi)
<1>1. /\ a \in Seq(Nat) /\ Len(a) = mid - lo
      /\ \A i \in 1..(mid - lo) : a[i] = lo + i - 1
  BY BytesType, ByteOfBlock
<1>2. /\ b \in Seq(Nat) /\ Len(b) = hi - mid
      /\ \A i \in 1..(hi - mid) : b[i] = mid + i - 1
  BY BytesType, ByteOfBlock
<1>3. /\ c \in Seq(Nat) /\ Len(c) = hi - lo
      /\ \A i \in 1..(hi - lo) : c[i] = lo + i - 1
  BY BytesType, ByteOfBlock
<1> HIDE DEF a, b, c
<1>4. /\ a \o b \in Seq(Nat) /\ Len(a \o b) = Len(a) + Len(b)
      /\ \A i \in 1..(Len(a) + Len(b)) :
           (a \o b)[i] = IF i <= Len(a) THEN a[i] ELSE b[i - Len(a)]
  BY <1>1, <1>2, ConcatProperties
<1>5. ASSUME NEW i \in 1..Len(c) PROVE (a \o b)[i] = c[i]
  <2>1. CASE i <= mid - lo
    BY <1>1, <1>2, <1>3, <1>4, <2>1
  <2>2. CASE i > mid - lo
    <3> DEFINE j == i - (mid - lo)
    <3>1. j \in 1..(hi - mid) /\ i \in 1..(hi - lo) /\ i \in 1..(Len(a) + Len(b))
      BY <1>1, <1>2, <1>3, <2>2
    <3>2. (a \o b)[i] = b[j]
      BY <1>1, <1>4, <2>2, <3>1
    <3>3. b[j] = mid + j - 1
      <4> HIDE DEF j
      <4> QED BY <1>2, <3>1
    <3>4. mid + j - 1 = lo + i - 1
      BY <3>1
    <3>5. c[i] = lo + i - 1
      BY <1>3, <3>1
    <3> HIDE DEF j
    <3> QED BY <3>2, <3>3, <3>4, <3>5
  <2>3. i \in Int
    BY <1>3
  <2>4. i <= mid - lo \/ i > mid - lo
    BY <2>3
  <2> HIDE DEF a, b, c
  <2> QED BY <2>1, <2>2, <2>4, Zenon
<1>6. Len(a \o b) = Len(c)
  BY <1>1, <1>2, <1>3, <1>4
<1> HIDE DEF a, b, c
<1>7. a \o b = c
  BY <1>3, <1>4, <1>5, <1>6, SeqEqual
<1> QED BY <1>7 DEF a, b, c

\* The first bytes of a block and the ones after them.
LEMMA BytesCut ==
  ASSUME NEW lo \in Nat, NEW hi \in Nat, lo <= hi, NEW n \in 0..(hi - lo)
  PROVE  /\ SubSeq(Bytes(lo, hi), 1, n) = Bytes(lo, lo + n)
         /\ SubSeq(Bytes(lo, hi), 1 + n, hi - lo) = Bytes(lo + n, hi)
<1> DEFINE b == Bytes(lo, hi)
           first == SubSeq(b, 1, n)
           rest == SubSeq(b, 1 + n, hi - lo)
           x == Bytes(lo, lo + n)
           y == Bytes(lo + n, hi)
<1>1. /\ b \in Seq(Nat) /\ Len(b) = hi - lo
      /\ \A i \in 1..(hi - lo) : b[i] = lo + i - 1
  BY BytesType, ByteOfBlock
<1>2. lo + n \in Nat /\ lo + n <= hi /\ lo <= lo + n /\ n \in Nat
  OBVIOUS
<1>3. /\ x \in Seq(Nat) /\ Len(x) = n
      /\ \A i \in 1..n : x[i] = lo + i - 1
  <2>1. (lo + n) - lo = n
    OBVIOUS
  <2> QED BY <1>2, <2>1, BytesType, ByteOfBlock
<1>4. /\ y \in Seq(Nat) /\ Len(y) = hi - (lo + n)
      /\ \A i \in 1..(hi - (lo + n)) : y[i] = lo + n + i - 1
  BY <1>2, BytesType, ByteOfBlock
<1> HIDE DEF b, x, y
<1>5. /\ first \in Seq(Nat) /\ Len(first) = n
      /\ \A i \in 1..n : first[i] = b[i]
  <2>1. \A i \in 1..n : b[i] \in Nat
    BY <1>1
  <2> QED BY <1>2, <2>1, SubSeqProperties
<1>6. /\ rest \in Seq(Nat) /\ Len(rest) = hi - (lo + n)
      /\ \A i \in 1..(hi - (lo + n)) : rest[i] = b[n + i]
  <2>1. \A i \in (1 + n)..(hi - lo) : b[i] \in Nat
    BY <1>1
  <2> QED BY <1>2, <2>1, SubSeqProperties
<1> HIDE DEF first, rest
<1>7. first = x
  <2>1. ASSUME NEW i \in 1..Len(first) PROVE first[i] = x[i]
    <3>1. i \in 1..n /\ i \in 1..(hi - lo)
      BY <1>2, <1>5
    <3> QED BY <1>1, <1>3, <1>5, <3>1
  <2> QED BY <1>3, <1>5, <2>1, SeqEqual
<1>8. rest = y
  <2>1. ASSUME NEW i \in 1..Len(y) PROVE rest[i] = y[i]
    <3>1. n + i \in 1..(hi - lo)
      BY <1>2, <1>4
    <3> QED BY <1>1, <1>2, <1>4, <1>6, <3>1
  <2> QED BY <1>4, <1>6, <2>1, SeqEqual
<1> QED BY <1>7, <1>8 DEF first, rest, b, x, y

\* Copying one piece after the other is copying both.
LEMMA CopiedJoin ==
  ASSUME NEW a \in Seq(Nat), NEW b \in Seq(Nat)
  PROVE  Copied(a \o b) = Copied(a) \o Copied(b)
<1> DEFINE ab == a \o b
           x == Copied(a)
           y == Copied(b)
           z == Copied(ab)
<1>1. /\ ab \in Seq(Nat) /\ Len(ab) = Len(a) + Len(b)
      /\ \A i \in 1..(Len(a) + Len(b)) :
           ab[i] = IF i <= Len(a) THEN a[i] ELSE b[i - Len(a)]
  BY ConcatProperties
<1>2. Len(a) \in Nat /\ Len(b) \in Nat
  BY LenProperties
<1>3. x \in Seq(Items) /\ y \in Seq(Items) /\ z \in Seq(Items)
  BY <1>1, CopiedItems
<1>4. /\ Len(x) = Len(a) /\ Len(y) = Len(b) /\ Len(z) = Len(a) + Len(b)
      /\ \A i \in 1..Len(a) : x[i] = <<<<"copy">>, <<a[i]>>>>
      /\ \A i \in 1..Len(b) : y[i] = <<<<"copy">>, <<b[i]>>>>
      /\ \A i \in 1..(Len(a) + Len(b)) : z[i] = <<<<"copy">>, <<ab[i]>>>>
  BY <1>1, <1>2 DEF Copied
<1> HIDE DEF x, y, z, ab
<1>5. /\ x \o y \in Seq(Items) /\ Len(x \o y) = Len(x) + Len(y)
      /\ \A i \in 1..(Len(x) + Len(y)) :
           (x \o y)[i] = IF i <= Len(x) THEN x[i] ELSE y[i - Len(x)]
  BY <1>3, ConcatProperties
<1>6. ASSUME NEW i \in 1..Len(z) PROVE z[i] = (x \o y)[i]
  <2>1. CASE i <= Len(a)
    <3>1. /\ i \in 1..Len(a) /\ i \in 1..(Len(a) + Len(b))
          /\ i \in 1..(Len(x) + Len(y)) /\ i <= Len(x)
      BY <1>2, <1>4, <2>1
    <3>2. ab[i] = a[i] /\ (x \o y)[i] = x[i]
      BY <1>1, <1>5, <2>1, <3>1
    <3>3. x[i] = <<<<"copy">>, <<a[i]>>>> /\ z[i] = <<<<"copy">>, <<ab[i]>>>>
      BY <1>4, <3>1
    <3> QED BY <3>2, <3>3
  <2>2. CASE i > Len(a)
    <3> DEFINE j == i - Len(a)
    <3>1. /\ j \in 1..Len(b) /\ i \in 1..(Len(a) + Len(b))
          /\ i \in 1..(Len(x) + Len(y)) /\ ~(i <= Len(a))
      BY <1>2, <1>4, <2>2
    <3>2. ab[i] = b[j]
      BY <1>1, <3>1
    <3>3. (x \o y)[i] = y[j]
      BY <1>4, <1>5, <3>1
    <3>4. y[j] = <<<<"copy">>, <<b[j]>>>>
      <4> HIDE DEF j
      <4> QED BY <1>4, <3>1
    <3>5. z[i] = <<<<"copy">>, <<ab[i]>>>>
      BY <1>4, <3>1
    <3> QED BY <3>2, <3>3, <3>4, <3>5
  <2> QED BY <1>2, <1>4, <2>1, <2>2
<1>7. z = x \o y
  <2>1. Len(z) = Len(x \o y)
    BY <1>4, <1>5
  <2> QED BY <1>3, <1>5, <1>6, <2>1, SeqEqual
<1> QED BY <1>7 DEF x, y, z, ab

\* An empty block.
LEMMA NoBytes ==
  ASSUME NEW lo \in Nat
  PROVE  Bytes(lo, lo) = <<>> /\ Copied(Bytes(lo, lo)) = <<>>
<1>1. Bytes(lo, lo) = <<>>
  BY BytesType, EmptySeq
<1>2. Copied(<<>>) = <<>>
  BY EmptySeq DEF Copied
<1> QED BY <1>1, <1>2

-----------------------------------------------------------------------------
(***************************************************************************)
(* What a stream that follows a plan has put out at any moment: the        *)
(* recompressed blob up to the range it is in or before.                   *)
(***************************************************************************)

\* Items put one after the other in any grouping.
LEMMA ItemsGroup ==
  ASSUME NEW a \in Seq(Items), NEW b \in Seq(Items), NEW c \in Seq(Items)
  PROVE  (a \o b) \o c = a \o (b \o c)
  BY ConcatAssociative

\* What range r becomes.
ItemOf(r) == <<Codec(r.params), Bytes(r.offset, End(r))>>

\* What lies before range k of the list, and after the one before it.
Gap(list, k) == Copied(Bytes(StartOfGap(list, k), list[k].offset))

\* h[k] is what the blob becomes up to the end of range k.
IsRecompression(h, list) ==
  /\ h \in [0..Len(list) -> Seq(Items)]
  /\ h[0] = <<>>
  /\ \A k \in 1..Len(list) : h[k] = (h[k - 1] \o Gap(list, k)) \o <<ItemOf(list[k])>>

\* The numbers of a plan, and the gaps between its ranges.
LEMMA PlanNumbers ==
  ASSUME NEW list \in Seq(Ranges), InOrder(list), NEW k \in 1..Len(list)
  PROVE  /\ k \in Nat /\ Len(list) \in Nat
         /\ list[k] \in Ranges /\ list[k].params \in Params
         /\ list[k].offset \in Nat /\ End(list[k]) \in Nat
         /\ StartOfGap(list, k) \in Nat
         /\ StartOfGap(list, k) <= list[k].offset /\ list[k].offset <= End(list[k])
         /\ StartOfGap(list, k + 1) = End(list[k])
<1>1. Len(list) \in Nat
  OBVIOUS
<1>2. ASSUME NEW j \in 1..Len(list)
      PROVE  list[j] \in Ranges /\ list[j].params \in Params
             /\ list[j].offset \in Nat /\ list[j].length \in Nat /\ End(list[j]) \in Nat
  <2>1. list[j] \in Ranges
    BY ElementOfSeq
  <2> QED BY <2>1 DEF Ranges, End
<1>3. StartOfGap(list, k) \in Nat
  <2>1. k # 1 => k - 1 \in 1..Len(list)
    BY <1>1
  <2> QED BY <1>2, <2>1 DEF StartOfGap
<1>4. list[k].offset <= End(list[k])
  BY <1>2 DEF End
<1>5. StartOfGap(list, k) <= list[k].offset
  BY DEF InOrder
<1>6. StartOfGap(list, k + 1) = End(list[k])
  BY <1>1 DEF StartOfGap
<1> QED BY <1>1, <1>2, <1>3, <1>4, <1>5, <1>6

\* The gap before the next range starts at a natural number.
LEMMA GapStarts ==
  ASSUME NEW list \in Seq(Ranges), InOrder(list), NEW k \in 0..Len(list)
  PROVE  StartOfGap(list, k + 1) \in Nat
<1>1. CASE k = 0
  BY <1>1 DEF StartOfGap
<1>2. CASE k # 0
  <2>1. k \in 1..Len(list)
    BY <1>2
  <2> QED BY <2>1, PlanNumbers
<1> QED BY <1>1, <1>2

\* What settings ask for is a codec, hence what a range becomes an item.
LEMMA ItemType ==
  ASSUME NEW p \in Params, NEW bytes \in Seq(Nat)
  PROVE  <<Codec(p), bytes>> \in Items
<1>1. Codec(p) \in ({"7z"} \X (1..9)) \union ({"zlib"} \X (1..9) \X (0..7) \X BOOLEAN)
  BY DEF Codec, Params
<1> QED BY <1>1, Zenon DEF Items

\* The pieces of a plan are sequences of items.
LEMMA PieceTypes ==
  ASSUME NEW list \in Seq(Ranges), InOrder(list), NEW k \in 1..Len(list)
  PROVE  /\ Gap(list, k) \in Seq(Items)
         /\ ItemOf(list[k]) \in Items
         /\ <<ItemOf(list[k])>> \in Seq(Items)
<1>1. Gap(list, k) \in Seq(Items)
  BY PlanNumbers, BytesType, CopiedItems DEF Gap
<1>2. ItemOf(list[k]) \in Items
  BY PlanNumbers, BytesType, ItemType DEF ItemOf
<1> DEFINE i == ItemOf(list[k])
<1>3. <<i>> \in Seq(Items)
  <2>1. i \in Items
    BY <1>2
  <2> HIDE DEF i
  <2> QED BY <2>1
<1> QED BY <1>1, <1>2, <1>3

\* RecompressedUpTo is that recompression: the equation that defines it has
\* a solution.
LEMMA RecompressionExists ==
  ASSUME NEW list \in Seq(Ranges), InOrder(list)
  PROVE  IsRecompression(RecompressedUpTo(list), list)
<1> DEFINE n == Len(list)
           P(k) == Copied(Bytes(StartOfGap(list, k), list[k].offset))
           I(k) == <<<<Codec(list[k].params), Bytes(list[k].offset, End(list[k]))>>>>
           F(f) == [k \in 0..n |-> IF k = 0 THEN <<>> ELSE (f[k - 1] \o P(k)) \o I(k)]
           piece == [k \in 1..n |-> Gap(list, k) \o <<ItemOf(list[k])>>]
           out == RecompressedUpTo(list)
<1>1. n \in Nat
  OBVIOUS
<1>2. \A k \in 1..n : P(k) = Gap(list, k) /\ I(k) = <<ItemOf(list[k])>>
  BY DEF Gap, ItemOf
<1> HIDE DEF P, I
<1>3. \A k \in 1..n : Gap(list, k) \in Seq(Items) /\ <<ItemOf(list[k])>> \in Seq(Items)
  BY PieceTypes
<1>4. piece \in [1..n -> Seq(Items)]
  <2>1. ASSUME NEW k \in 1..n PROVE Gap(list, k) \o <<ItemOf(list[k])>> \in Seq(Items)
    <3> DEFINE g == Gap(list, k)
               i == <<ItemOf(list[k])>>
    <3>1. g \in Seq(Items) /\ i \in Seq(Items)
      BY <1>3
    <3> HIDE DEF g, i
    <3>2. g \o i \in Seq(Items)
      BY <3>1, ConcatProperties
    <3> QED BY <3>2 DEF g, i
  <2> QED BY <2>1
<1>5. PICK h : Concatenates(h, n, Items, piece)
  <2> HIDE DEF piece, n
  <2> QED BY <1>1, <1>4, ConcatenationExists
<1>6. /\ h \in [0..n -> Seq(Items)] /\ h[0] = <<>>
      /\ \A k \in 1..n : h[k] = (h[k - 1] \o Gap(list, k)) \o <<ItemOf(list[k])>>
  <2>1. /\ h \in [0..n -> Seq(Items)] /\ h[0] = <<>>
        /\ \A k \in 1..n : h[k] = h[k - 1] \o piece[k]
    <3> HIDE DEF piece, n
    <3> QED BY <1>5 DEF Concatenates
  <2>2. ASSUME NEW k \in 1..n
        PROVE  h[k] = (h[k - 1] \o Gap(list, k)) \o <<ItemOf(list[k])>>
    <3> DEFINE g == Gap(list, k)
               i == <<ItemOf(list[k])>>
               v == h[k - 1]
    <3>1. g \in Seq(Items) /\ i \in Seq(Items)
      BY <1>3
    <3>2. v \in Seq(Items)
      <4>1. k - 1 \in 0..n
        BY <1>1
      <4> HIDE DEF n
      <4> QED BY <2>1, <4>1
    <3>3. h[k] = v \o (g \o i)
      BY <2>1
    <3> HIDE DEF g, i, v
    <3>4. (v \o g) \o i = v \o (g \o i)
      BY <3>1, <3>2, ConcatAssociative
    <3> QED BY <3>3, <3>4 DEF g, i, v
  <2> HIDE DEF piece
  <2> QED BY <2>1, <2>2
<1>7. h = F(h)
  <2>1. ASSUME NEW k \in 0..n PROVE h[k] = F(h)[k]
    <3>1. k # 0 => k \in 1..n
      BY <1>1
    <3> QED BY <1>2, <1>6, <3>1
  <2> QED BY <1>6, <2>1
<1>8. out = CHOOSE f : f = F(f)
  BY Zenon DEF RecompressedUpTo, P, I
<1>9. out = F(out)
  <2> HIDE DEF F, out
  <2> QED BY <1>7, <1>8
<1> HIDE DEF out
<1>10. /\ DOMAIN out = 0..n /\ out[0] = <<>>
       /\ \A k \in 1..n : out[k] = (out[k - 1] \o Gap(list, k)) \o <<ItemOf(list[k])>>
  <2>1. DOMAIN out = 0..n /\ out[0] = <<>>
    BY <1>1, <1>9
  <2>2. ASSUME NEW k \in 1..n
        PROVE  out[k] = (out[k - 1] \o Gap(list, k)) \o <<ItemOf(list[k])>>
    <3>1. k \in 0..n /\ k # 0
      BY <1>1
    <3> QED BY <1>2, <1>9, <3>1
  <2> QED BY <2>1, <2>2
<1>11. 0..n \subseteq {k \in 0..n : out[k] = h[k]}
  <2> DEFINE Same == {k \in 0..n : out[k] = h[k]}
  <2>1. 0 \in Same
    BY <1>1, <1>6, <1>10
  <2>2. ASSUME NEW k \in 0..(n - 1), k \in Same PROVE k + 1 \in Same
    <3>1. k + 1 \in 1..n /\ (k + 1) - 1 = k
      BY <1>1
    <3>2. out[k] = h[k] /\ k + 1 \in 0..n
      BY <1>1, <2>2
    <3>3. out[k + 1] = (out[k] \o Gap(list, k + 1)) \o <<ItemOf(list[k + 1])>>
      BY <1>10, <3>1
    <3>4. h[k + 1] = (h[k] \o Gap(list, k + 1)) \o <<ItemOf(list[k + 1])>>
      BY <1>6, <3>1
    <3> QED BY <3>2, <3>3, <3>4
  <2> HIDE DEF Same, n
  <2>3. 0..n \subseteq Same
    BY <1>1, <2>1, <2>2, IntervalInduction
  <2> QED BY <2>3 DEF Same
<1>12. out \in [0..n -> Seq(Items)]
  <2>1. out = [k \in 0..n |-> out[k]]
    BY <1>9
  <2>2. \A k \in 0..n : out[k] \in Seq(Items)
    BY <1>6, <1>11
  <2> QED BY <2>1, <2>2
<1> QED
  <2> HIDE DEF F
  <2> QED BY <1>10, <1>12 DEF IsRecompression, out

\* Between 7z ranges the spool file is empty, unless it will not be used.
CleanSpool(s, list) ==
  \/ s.spool = <<>>
  \/ \A j \in 1..Len(list) : list[j].params.strategy # SevenZip

\* What the stream has put out and what it holds back, k ranges being done.
Produced(s, list, h, base, k) ==
  IF Compressing(s)
  THEN /\ base \o s.out = h[k] \o Gap(list, k + 1)
       /\ s.deflating => s.pending = Bytes(list[k + 1].offset, Position(s))
       /\ s.seven => s.spool = Bytes(list[k + 1].offset, Position(s))
  ELSE /\ StartOfGap(list, k + 1) <= Position(s)
       /\ base \o s.out = h[k] \o Copied(Bytes(StartOfGap(list, k + 1), Position(s)))

\* The stream follows the plan: it has done its ranges up to k, and those up
\* to the range to are left; base is what other streams put out before it.
Follows(s, list, h, base, to, k) ==
  /\ Len(s.ranges) = to - k
  /\ \A j \in 1..(to - k) : s.ranges[j] = list[k + j]
  /\ Produced(s, list, h, base, k)
  /\ ~s.deflating => s.pending = <<>>
  /\ ~s.seven => CleanSpool(s, list)

\* What all steps of a stream have in common.
Task(list, h, base, to) ==
  /\ list \in Seq(Ranges) /\ InOrder(list)
  /\ IsRecompression(h, list)
  /\ base \in Seq(Items)
  /\ to \in 0..Len(list)

\* The next range of a stream that has one.
LEMMA NextOfPlan ==
  ASSUME NEW s, Consistent(s), NEW list, NEW h, NEW base, NEW to, Task(list, h, base, to),
         NEW k \in 0..to, Follows(s, list, h, base, to, k), s.ranges # <<>>
  PROVE  /\ k + 1 \in 1..to /\ k + 1 \in 1..Len(list)
         /\ Head(s.ranges) = list[k + 1] /\ Head(s.ranges) = s.ranges[1]
<1>1. s.ranges \in Seq(Ranges) /\ Len(s.ranges) \in Nat \ {0} /\ s \in Stream
  <2>1. s \in Stream /\ s.ranges \in Seq(Ranges)
    BY DEF Consistent, Stream
  <2> QED BY <2>1, EmptySeq
<1>2. Head(s.ranges) = s.ranges[1]
  BY <1>1
<1>3. k + 1 \in 1..to /\ to \in Nat /\ k \in Nat /\ Len(list) \in Nat /\ to <= Len(list)
  BY <1>1 DEF Follows, Task
<1>4. 1 \in 1..(to - k)
  BY <1>3
<1>5. s.ranges[1] = list[k + 1]
  BY <1>4 DEF Follows
<1> QED BY <1>2, <1>3, <1>5

\* Beginning a range changes nothing of that.
LEMMA EnterFollows ==
  ASSUME NEW s, Consistent(s), NEW list, NEW h, NEW base, NEW to, Task(list, h, base, to),
         NEW k \in 0..to, Follows(s, list, h, base, to, k)
  PROVE  Follows(EnterRange(s), list, h, base, to, k)
<1> DEFINE b == BeginRange(s)
           r == list[k + 1]
<1>1. CASE ~(BytesTillCompressionStarts(s) = 0 /\ ~Compressing(s))
  BY <1>1 DEF EnterRange
<1>2. CASE BytesTillCompressionStarts(s) = 0 /\ ~Compressing(s)
  <2>1. EnterRange(s) = b /\ s.ranges # <<>> /\ ~s.deflating /\ ~s.seven
    BY <1>2 DEF EnterRange, BytesTillCompressionStarts, Compressing
  <2>2. /\ k + 1 \in 1..Len(list) /\ Head(s.ranges) = r
    BY <2>1, NextOfPlan
  <2>3. r.offset \in Nat /\ list \in Seq(Ranges) /\ InOrder(list)
    BY <2>2, PlanNumbers DEF Task
  <2>4. Position(s) = r.offset /\ s \in Stream
    <3>1. Position(s) \in Nat /\ s \in Stream
      BY PositionType DEF Consistent
    <3> QED BY <1>2, <2>1, <2>2, <2>3, <3>1 DEF BytesTillCompressionStarts
  <2>5. base \o s.out = h[k] \o Gap(list, k + 1)
    BY <1>2, <2>4 DEF Follows, Produced, Gap
  <2>6. Bytes(r.offset, r.offset) = <<>>
    BY <2>3, NoBytes
  <2>7. s.pending = <<>> /\ CleanSpool(s, list)
    BY <2>1 DEF Follows
  <2>8. CASE r.params.strategy = SevenZip
    <3>1. b = [s EXCEPT !.seven = TRUE]
      BY <2>2, <2>8 DEF BeginRange
    <3>2. /\ b.seven /\ b.ranges = s.ranges /\ ~b.deflating /\ b.out = s.out
          /\ b.pending = s.pending /\ b.spool = s.spool /\ Position(b) = Position(s)
      BY <2>1, <2>4, <3>1 DEF Stream, Position
    <3>3. s.spool = <<>>
      BY <2>2, <2>7, <2>8 DEF CleanSpool
    <3> HIDE DEF b, r
    <3>4. Produced(b, list, h, base, k)
      BY <2>4, <2>5, <2>6, <3>2, <3>3 DEF Produced, Compressing, r
    <3>5. Follows(b, list, h, base, to, k)
      BY <2>7, <3>2, <3>4 DEF Follows
    <3> QED BY <2>1, <3>5
  <2>9. CASE r.params.strategy # SevenZip
    <3> DEFINE d == [level |-> r.params.level, strategy |-> r.params.strategy,
                     nowrap |-> IF s.deflater # Null /\ s.last.nowrap = r.params.nowrap
                                THEN s.deflater.nowrap ELSE r.params.nowrap]
    <3>1. b = [s EXCEPT !.deflating = TRUE, !.deflater = d]
      BY <2>2, <2>9 DEF BeginRange
    <3> HIDE DEF d
    <3>2. /\ ~b.seven /\ b.ranges = s.ranges /\ b.deflating /\ b.out = s.out
          /\ b.pending = s.pending /\ b.spool = s.spool /\ Position(b) = Position(s)
      BY <2>1, <2>4, <3>1 DEF Stream, Position
    <3>3. CleanSpool(b, list)
      BY <2>7, <3>2 DEF CleanSpool
    <3> HIDE DEF b, r
    <3>4. Produced(b, list, h, base, k)
      BY <2>4, <2>5, <2>6, <2>7, <3>2 DEF Produced, Compressing, r
    <3>5. Follows(b, list, h, base, to, k)
      BY <2>7, <3>2, <3>3, <3>4 DEF Follows
    <3> QED BY <2>1, <3>5
  <2> QED BY <2>8, <2>9
<1> QED BY <1>1, <1>2

\* The next bytes of the blob go to where they belong.
LEMMA ConsumeFollows ==
  ASSUME NEW s, Consistent(s), NEW list, NEW h, NEW base, NEW to, Task(list, h, base, to),
         NEW k \in 0..to, Follows(s, list, h, base, to, k),
         NEW hi \in Nat, Position(s) <= hi,
         Position(Consume(s, Bytes(Position(s), hi))) = hi
  PROVE  Follows(Consume(s, Bytes(Position(s), hi)), list, h, base, to, k)
<1> DEFINE pos == Position(s)
           bytes == Bytes(pos, hi)
           c == Consume(s, bytes)
           start == StartOfGap(list, k + 1)
<1>1. pos \in Nat /\ s \in Stream /\ bytes \in Seq(Nat)
  BY PositionType, BytesType DEF Consistent
<1>2. /\ c.ranges = s.ranges /\ c.seven = s.seven /\ c.deflating = s.deflating
      /\ c.spool = IF s.seven THEN s.spool \o bytes ELSE s.spool
      /\ c.pending = IF s.deflating /\ ~s.seven THEN s.pending \o bytes ELSE s.pending
      /\ c.out = IF Compressing(s) THEN s.out ELSE s.out \o Copied(bytes)
      /\ Position(c) = hi
  <2> HIDE DEF bytes
  <2>1. /\ c.ranges = s.ranges /\ c.seven = s.seven /\ c.deflating = s.deflating
        /\ c.spool = IF s.seven THEN s.spool \o bytes ELSE s.spool
        /\ c.pending = IF s.deflating /\ ~s.seven THEN s.pending \o bytes ELSE s.pending
        /\ c.out = IF Compressing(s) THEN s.out ELSE s.out \o Copied(bytes)
    BY <1>1 DEF Consume, Stream
  <2>2. Position(c) = hi
    BY DEF bytes
  <2> QED BY <2>1, <2>2
<1>3. Compressing(c) = Compressing(s)
  BY <1>2 DEF Compressing
<1>4. s.deflating => ~s.seven
  BY DEF Consistent, RightDeflater
<1>5. Task(list, h, base, to) /\ list \in Seq(Ranges) /\ InOrder(list) /\ k \in 0..Len(list)
  BY DEF Task
<1>6. Produced(c, list, h, base, k)
  <2>1. CASE Compressing(s)
    <3> DEFINE off == list[k + 1].offset
    <3>1. s.ranges # <<>> /\ pos >= Head(s.ranges).offset
      BY <2>1, <1>1, NextRange DEF Consistent, WithinRange, End
    <3>2. k + 1 \in 1..Len(list) /\ Head(s.ranges) = list[k + 1]
      BY <3>1, NextOfPlan
    <3>3. off \in Nat /\ off <= pos
      BY <1>5, <3>1, <3>2, PlanNumbers
    <3>4. Bytes(off, pos) \o bytes = Bytes(off, hi)
      BY <1>1, <3>3, BytesJoin
    <3>5. /\ base \o s.out = h[k] \o Gap(list, k + 1)
          /\ s.deflating => s.pending = Bytes(off, pos)
          /\ s.seven => s.spool = Bytes(off, pos)
      BY <2>1 DEF Follows, Produced
    <3>6. /\ s.deflating => c.pending = Bytes(off, hi)
          /\ s.seven => c.spool = Bytes(off, hi)
      BY <1>2, <1>4, <3>4, <3>5
    <3>7. c.out = s.out
      BY <1>2, <2>1
    <3> HIDE DEF c, bytes
    <3> QED BY <1>2, <1>3, <2>1, <3>5, <3>6, <3>7 DEF Produced
  <2>2. CASE ~Compressing(s)
    <3> DEFINE x == Copied(Bytes(start, pos))
               y == Copied(bytes)
               z == Copied(Bytes(start, hi))
               o == s.out
               v == h[k]
    <3>1. start \in Nat /\ start <= pos /\ base \o o = v \o x
      BY <1>5, <2>2, GapStarts DEF Follows, Produced
    <3>2. Bytes(start, pos) \in Seq(Nat) /\ Bytes(start, pos) \o bytes = Bytes(start, hi)
      BY <1>1, <3>1, BytesType, BytesJoin
    <3>3. x \o y = z
      <4> DEFINE a == Bytes(start, pos)
      <4>1. a \in Seq(Nat) /\ a \o bytes = Bytes(start, hi)
        BY <3>2
      <4> HIDE DEF a, bytes
      <4>2. Copied(a \o bytes) = Copied(a) \o Copied(bytes)
        BY <1>1, <4>1, CopiedJoin
      <4> QED BY <4>1, <4>2 DEF a
    <3>4. x \in Seq(Items) /\ y \in Seq(Items) /\ o \in Seq(Items) /\ v \in Seq(Items)
          /\ base \in Seq(Items)
      <4>1. x \in Seq(Items) /\ y \in Seq(Items)
        BY <1>1, <3>2, CopiedItems
      <4>2. o \in Seq(Items) /\ v \in Seq(Items) /\ base \in Seq(Items)
        BY <1>1, <1>5 DEF Stream, Task, IsRecompression
      <4> QED BY <4>1, <4>2
    <3>5. c.out = o \o y
      BY <1>2, <2>2
    <3> HIDE DEF x, y, z, o, v, start, bytes, c
    <3>6. (base \o o) \o y = base \o (o \o y)
      BY <3>4, ItemsGroup
    <3>7. (v \o x) \o y = v \o (x \o y)
      BY <3>4, ItemsGroup
    <3>8. base \o c.out = v \o z
      BY <3>1, <3>3, <3>5, <3>6, <3>7
    <3>9. start <= hi
      BY <1>1, <3>1
    <3> QED BY <1>2, <1>3, <2>2, <3>8, <3>9 DEF Produced, start, v, z
  <2> QED BY <2>1, <2>2
<1>7. ~c.deflating => c.pending = <<>>
  BY <1>2 DEF Follows
<1>8. ~c.seven => CleanSpool(c, list)
  <2>1. ~s.seven => CleanSpool(s, list)
    BY DEF Follows
  <2> HIDE DEF c, bytes
  <2> QED BY <1>2, <2>1 DEF CleanSpool
<1> HIDE DEF c
<1>9. Len(s.ranges) = to - k /\ \A j \in 1..(to - k) : s.ranges[j] = list[k + j]
  BY DEF Follows
<1>10. Follows(c, list, h, base, to, k)
  BY <1>2, <1>6, <1>7, <1>8, <1>9 DEF Follows
<1> QED BY <1>10 DEF c

\* The range is put out whole when the stream has reached its end.
LEMMA FinishFollows ==
  ASSUME NEW s, Consistent(s), NEW list, NEW h, NEW base, NEW to, Task(list, h, base, to),
         NEW k \in 0..to, Follows(s, list, h, base, to, k), AtRangeEnd(s),
         Null \notin Params
  PROVE  k + 1 \in 0..to /\ Follows(FinishRange(s), list, h, base, to, k + 1)
<1> DEFINE r == list[k + 1]
           p == Head(s.ranges).params
           item == ItemOf(r)
           n == FinishRange(s)
           rest == Tail(s.ranges)
<1>1. /\ Compressing(s) /\ s.ranges # <<>> /\ s \in Stream
      /\ s.deflating => ~s.seven /\ s.deflater = p /\ p.strategy # SevenZip
  BY DEF AtRangeEnd, Consistent, WithinRange, RightDeflater
<1>2. /\ k + 1 \in 1..to /\ k + 1 \in 1..Len(list) /\ k \in Nat /\ to \in Nat
      /\ Head(s.ranges) = r
  BY <1>1, NextOfPlan DEF Task
<1>3. list \in Seq(Ranges) /\ InOrder(list) /\ IsRecompression(h, list)
      /\ base \in Seq(Items) /\ Len(list) \in Nat
  BY DEF Task
<1>4. /\ r \in Ranges /\ r.params \in Params /\ r.offset \in Nat /\ End(r) \in Nat
      /\ r.offset <= End(r) /\ StartOfGap(list, (k + 1) + 1) = End(r)
  BY <1>2, <1>3, PlanNumbers
<1>5. Position(s) = End(r)
  <2>1. Position(s) \in Nat /\ End(Head(s.ranges)) - Position(s) = 0
    BY <1>1, PositionType DEF AtRangeEnd, BytesTillCompressionEnds
  <2> QED BY <1>2, <1>4, <2>1
<1>6. /\ base \o s.out = h[k] \o Gap(list, k + 1)
      /\ s.deflating => s.pending = Bytes(r.offset, End(r))
      /\ s.seven => s.spool = Bytes(r.offset, End(r))
      /\ ~s.deflating => s.pending = <<>>
      /\ ~s.seven => CleanSpool(s, list)
  BY <1>1, <1>5 DEF Follows, Produced
<1>7. /\ n.ranges = rest /\ n.out = Append(s.out, item)
      /\ ~n.seven /\ ~n.deflating /\ n.pending = <<>>
      /\ s.seven => n.spool = <<>>
      /\ ~s.seven => n.spool = s.spool
      /\ Position(n) = Position(s)
  <2>1. CASE s.seven
    <3> DEFINE out == Append(s.out, <<Codec(p), s.spool>>)
    <3>1. out = Append(s.out, item)
      BY <1>2, <1>6, <2>1 DEF ItemOf
    <3>2. n = [[s EXCEPT !.out = out, !.spool = <<>>, !.seven = FALSE]
                 EXCEPT !.ranges = rest, !.deflater = IF rest = <<>> THEN Null ELSE @]
      BY <2>1 DEF FinishRange, FlushSevenZip
    <3> HIDE DEF out, rest, n
    <3>3. /\ n.ranges = rest /\ n.out = out /\ ~n.seven /\ n.deflating = s.deflating
          /\ n.pending = s.pending /\ n.spool = <<>> /\ Position(n) = Position(s)
      BY <1>1, <3>2 DEF Stream, Position
    <3> QED BY <1>1, <1>6, <2>1, <3>1, <3>3
  <2>2. CASE ~s.seven
    <3> DEFINE out == Append(s.out, <<DeflaterCodec(s.deflater), s.pending>>)
    <3>0. s.deflating /\ DeflaterCodec(s.deflater) = Codec(r.params)
      <4>1. s.deflating /\ s.deflater = p /\ p.strategy # SevenZip
        BY <1>1, <2>2 DEF Compressing
      <4> QED BY <1>2, <4>1 DEF DeflaterCodec, Codec
    <3>1. out = Append(s.out, item)
      BY <1>6, <3>0 DEF ItemOf
    <3>2. n = [[s EXCEPT !.out = out, !.pending = <<>>, !.deflating = FALSE, !.last = p]
                 EXCEPT !.ranges = rest, !.deflater = IF rest = <<>> THEN Null ELSE @]
      BY <2>2 DEF FinishRange, FlushDeflater
    <3> HIDE DEF out, rest, n, p
    <3>3. /\ n.ranges = rest /\ n.out = out /\ n.seven = s.seven /\ ~n.deflating
          /\ n.pending = <<>> /\ n.spool = s.spool /\ Position(n) = Position(s)
      BY <1>1, <3>2 DEF Stream, Position
    <3> QED BY <2>2, <3>1, <3>3
  <2> QED BY <2>1, <2>2
<1>8. /\ Len(rest) = Len(s.ranges) - 1
      /\ \A j \in 1..Len(rest) : rest[j] = s.ranges[j + 1]
  <2>1. s.ranges \in Seq(Ranges)
    BY <1>1 DEF Stream
  <2> QED BY <1>1, <2>1, HeadTailProperties
<1>9. Len(n.ranges) = to - (k + 1) /\ \A j \in 1..(to - (k + 1)) : n.ranges[j] = list[(k + 1) + j]
  <2>1. Len(s.ranges) = to - k /\ \A j \in 1..(to - k) : s.ranges[j] = list[k + j]
    BY DEF Follows
  <2>2. Len(rest) = to - (k + 1)
    BY <1>2, <1>8, <2>1
  <2>3. ASSUME NEW j \in 1..(to - (k + 1)) PROVE rest[j] = list[(k + 1) + j]
    <3>1. j + 1 \in 1..(to - k) /\ j \in 1..Len(rest) /\ k + (j + 1) = (k + 1) + j
      BY <1>2, <2>2
    <3> QED BY <1>8, <2>1, <3>1
  <2> HIDE DEF n, rest
  <2> QED BY <1>7, <2>2, <2>3
<1>10. base \o n.out = h[k + 1]
  <2> DEFINE o == s.out
             v == h[k]
             g == Gap(list, k + 1)
             i == <<item>>
  <2>1. g \in Seq(Items) /\ item \in Items /\ i \in Seq(Items)
    BY <1>2, <1>3, PieceTypes
  <2>2. o \in Seq(Items)
    BY <1>1 DEF Stream
  <2>3. v \in Seq(Items) /\ h[k + 1] = (v \o g) \o i
    <3>1. k \in 0..Len(list) /\ (k + 1) - 1 = k
      BY <1>2, <1>3
    <3> QED BY <1>2, <1>3, <3>1 DEF IsRecompression
  <2>4. base \o o = v \o g
    BY <1>6
  <2>5. n.out = o \o i
    <3> HIDE DEF item, n
    <3>1. Append(s.out, item) = s.out \o <<item>>
      BY <2>1, <2>2, AppendIsConcat
    <3> QED BY <1>7, <3>1
  <2> HIDE DEF o, v, g, i, n
  <2>6. (base \o o) \o i = base \o (o \o i)
    BY <1>3, <2>1, <2>2, ItemsGroup
  <2> QED BY <2>3, <2>4, <2>5, <2>6
<1>11. Produced(n, list, h, base, k + 1)
  <2>1. Copied(Bytes(End(r), End(r))) = <<>>
    BY <1>4, NoBytes
  <2>2. h[k + 1] \in Seq(Items)
    BY <1>2, <1>3 DEF IsRecompression
  <2>3. h[k + 1] \o <<>> = h[k + 1]
    BY <2>2, ConcatEmptySeq
  <2>4. ~Compressing(n) /\ Position(n) = End(r)
    <3> HIDE DEF n
    <3> QED BY <1>5, <1>7 DEF Compressing
  <2> DEFINE start == StartOfGap(list, (k + 1) + 1)
             v == h[k + 1]
             e == End(r)
  <2>5. start = e /\ e \in Nat /\ base \o n.out = v
    BY <1>4, <1>10
  <2>6. Copied(Bytes(e, e)) = <<>> /\ v \o <<>> = v /\ Position(n) = e
    BY <2>1, <2>3, <2>4
  <2> HIDE DEF n, v, start, e
  <2>7. v \o Copied(Bytes(start, Position(n))) = v /\ start <= Position(n)
    BY <2>5, <2>6
  <2> QED BY <2>4, <2>5, <2>7 DEF Produced, start, v
<1>12. CleanSpool(n, list)
  <2> HIDE DEF n
  <2> QED BY <1>6, <1>7 DEF CleanSpool
<1>13. Follows(n, list, h, base, to, k + 1)
  <2> HIDE DEF n
  <2> QED BY <1>7, <1>9, <1>11, <1>12 DEF Follows
<1> QED BY <1>2, <1>13

\* Taking bytes of a block.
LEMMA TakenFollows ==
  ASSUME NEW s, Consistent(s), NEW list, NEW h, NEW base, NEW to, Task(list, h, base, to),
         NEW k \in 0..to, Follows(s, list, h, base, to, k), Null \notin Params,
         NEW hi \in Nat, Position(s) <= hi
  PROVE  Follows(Taken(s, Bytes(Position(s), hi)), list, h, base, to, k)
<1> DEFINE pos == Position(s)
           buffer == Bytes(pos, hi)
           e == EnterRange(s)
           size == ChunkSize(e, Len(buffer))
           t == Taken(s, buffer)
<1>1. pos \in Nat /\ buffer \in Seq(Nat) /\ Len(buffer) = hi - pos
  BY PositionType, BytesType DEF Consistent
<1>2. Consistent(e) /\ Position(e) = pos
  BY EnterRangeConsistent
<1>3. Position(t) = pos + size /\ size \in 0..Len(buffer)
  <2> HIDE DEF buffer
  <2> QED BY <1>1, TakenConsistent
<1>4. Follows(e, list, h, base, to, k)
  BY EnterFollows
<1>5. SubSeq(buffer, 1, size) = Bytes(pos, pos + size) /\ pos + size \in Nat
  <2>1. size \in 0..(hi - pos) /\ pos <= hi
    BY <1>1, <1>3
  <2> HIDE DEF size, pos
  <2>2. SubSeq(Bytes(pos, hi), 1, size) = Bytes(pos, pos + size)
    BY <1>1, <2>1, BytesCut
  <2>3. pos + size \in Nat
    BY <1>1, <2>1
  <2> QED BY <2>2, <2>3
<1>6. t = Consume(e, Bytes(pos, pos + size))
  BY <1>5 DEF Taken
<1>7. pos <= pos + size
  BY <1>1, <1>3
<1> HIDE DEF e, size, buffer, t, pos
<1>8. Follows(Consume(e, Bytes(Position(e), pos + size)), list, h, base, to, k)
  <2>1. Position(Consume(e, Bytes(Position(e), pos + size))) = pos + size
    BY <1>2, <1>3, <1>6
  <2>2. Position(e) <= pos + size
    BY <1>2, <1>7
  <2> DEFINE hi2 == pos + size
  <2>3. hi2 \in Nat
    BY <1>5
  <2> HIDE DEF hi2
  <2>4. Follows(Consume(e, Bytes(Position(e), hi2)), list, h, base, to, k)
    BY <1>2, <1>4, <2>1, <2>2, <2>3, ConsumeFollows DEF hi2
  <2> QED BY <2>4 DEF hi2
<1> QED BY <1>2, <1>6, <1>8 DEF t, buffer, pos

\* A stream between two calls: it follows the plan, and is not at the end of
\* a range it is in.
OnPlan(s, list, h, base, to) ==
  ~AtRangeEnd(s) /\ \E k \in 0..to : Follows(s, list, h, base, to, k)

\* A call of writeChunk keeps it so.
LEMMA WriteKeepsPlan ==
  ASSUME NEW s, Consistent(s), NEW list, NEW h, NEW base, NEW to, Task(list, h, base, to),
         OnPlan(s, list, h, base, to), Null \notin Params,
         NEW hi \in Nat, Position(s) <= hi
  PROVE  OnPlan(WriteChunk(s, Bytes(Position(s), hi)), list, h, base, to)
<1> DEFINE buffer == Bytes(Position(s), hi)
           t == Taken(s, buffer)
           w == WriteChunk(s, buffer)
<1>1. PICK k \in 0..to : Follows(s, list, h, base, to, k)
  BY DEF OnPlan
<1>2. Follows(t, list, h, base, to, k)
  BY <1>1, TakenFollows
<1>3. Consistent(t)
  <2>1. buffer \in Seq(Nat)
    BY PositionType, BytesType DEF Consistent
  <2> HIDE DEF buffer
  <2> QED BY <2>1, TakenConsistent
<1> HIDE DEF t, buffer
<1>4. CASE AtRangeEnd(t)
  <2>1. w = FinishRange(t)
    BY <1>4 DEF WriteChunk, t
  <2>2. k + 1 \in 0..to /\ Follows(w, list, h, base, to, k + 1)
    BY <1>2, <1>3, <1>4, <2>1, FinishFollows
  <2>3. ~Compressing(w)
    <3>1. /\ ~Compressing(IF t.seven THEN FlushSevenZip(t) ELSE FlushDeflater(t))
          /\ (IF t.seven THEN FlushSevenZip(t) ELSE FlushDeflater(t)) \in Stream
      BY <1>3, <1>4, FlushConsistent
    <3> QED BY <2>1, <3>1 DEF FinishRange, Compressing, Stream
  <2> HIDE DEF w
  <2>4. OnPlan(w, list, h, base, to)
    BY <2>2, <2>3 DEF OnPlan, AtRangeEnd
  <2> QED BY <2>4 DEF w, buffer
<1>5. CASE ~AtRangeEnd(t)
  <2>1. w = t
    BY <1>5 DEF WriteChunk, t
  <2> HIDE DEF w
  <2>2. OnPlan(w, list, h, base, to)
    BY <1>2, <1>5, <2>1 DEF OnPlan
  <2> QED BY <2>2 DEF w, buffer
<1> QED BY <1>4, <1>5

\* What write() has to hand over after that is the rest of the block.
LEMMA RestOfBlock ==
  ASSUME NEW s, Consistent(s), NEW hi \in Nat, Position(s) <= hi, Null \notin Params
  PROVE  /\ Unwritten(s, Bytes(Position(s), hi)) =
              Bytes(Position(WriteChunk(s, Bytes(Position(s), hi))), hi)
         /\ Position(WriteChunk(s, Bytes(Position(s), hi))) \in Position(s)..hi
<1> DEFINE pos == Position(s)
           buffer == Bytes(pos, hi)
           size == ChunkSize(EnterRange(s), Len(buffer))
<1>1. pos \in Nat /\ buffer \in Seq(Nat) /\ Len(buffer) = hi - pos
  BY PositionType, BytesType DEF Consistent
<1>2. Position(WriteChunk(s, buffer)) = pos + size /\ size \in 0..(hi - pos)
  <2> HIDE DEF buffer
  <2> QED BY <1>1, WriteChunkConsistent, TakenConsistent
<1>3. Unwritten(s, buffer) = SubSeq(buffer, 1 + size, hi - pos)
  BY <1>1 DEF Unwritten
<1> HIDE DEF size
<1>4. SubSeq(buffer, 1 + size, hi - pos) = Bytes(pos + size, hi)
  BY <1>1, <1>2, BytesCut
<1>5. pos + size \in pos..hi
  BY <1>1, <1>2
<1> QED BY <1>2, <1>3, <1>4, <1>5

\* A new stream for the ranges after from, up to to.
LEMMA NewOnPlan ==
  ASSUME NEW s, s \in Stream, NEW list, NEW h, NEW from \in Nat, NEW to,
         Task(list, h, h[from], to), from <= to,
         s.ranges = SubSeq(list, from + 1, to), ~s.deflating, ~s.seven,
         Position(s) = StartOfGap(list, from + 1),
         s.out = <<>>, s.pending = <<>>, CleanSpool(s, list)
  PROVE  OnPlan(s, list, h, h[from], to)
<1>1. /\ list \in Seq(Ranges) /\ InOrder(list) /\ Len(list) \in Nat /\ to \in 0..Len(list)
      /\ IsRecompression(h, list)
  BY DEF Task
<1>2. from \in 0..to /\ from \in 0..Len(list) /\ to - from \in Nat /\ to \in Nat
  BY <1>1
<1>3. Len(s.ranges) = to - from /\ \A j \in 1..(to - from) : s.ranges[j] = list[from + j]
  <2>1. \A j \in (from + 1)..to : list[j] \in Ranges
    BY <1>1, <1>2, ElementOfSeq
  <2>2. /\ Len(s.ranges) = IF from + 1 <= to THEN to - (from + 1) + 1 ELSE 0
        /\ \A j \in 1..(to - (from + 1) + 1) : s.ranges[j] = list[(from + 1) + j - 1]
    BY <1>2, <2>1, SubSeqProperties
  <2> QED BY <1>2, <2>2
<1> DEFINE start == StartOfGap(list, from + 1)
           v == h[from]
<1>4. start \in Nat /\ v \in Seq(Items)
  BY <1>1, <1>2, GapStarts DEF IsRecompression
<1>5. Copied(Bytes(start, start)) = <<>> /\ v \o <<>> = v
  <2> HIDE DEF start, v
  <2> QED BY <1>4, NoBytes, ConcatEmptySeq
<1>6. Produced(s, list, h, h[from], from)
  <2>1. start <= Position(s) /\ v \o s.out = v \o Copied(Bytes(start, Position(s)))
    <3> HIDE DEF v
    <3> QED BY <1>4, <1>5
  <2> QED BY <2>1 DEF Produced, Compressing
<1>7. Follows(s, list, h, h[from], to, from)
  BY <1>3, <1>6 DEF Follows
<1> QED BY <1>2, <1>7 DEF OnPlan, AtRangeEnd, Compressing

\* The ranges of a plan end one after the other.
LEMMA EndsGrow ==
  ASSUME NEW list \in Seq(Ranges), InOrder(list), NEW j \in 1..Len(list), NEW k \in j..Len(list)
  PROVE  End(list[j]) <= End(list[k])
<1> DEFINE n == Len(list) - j
           S == {i \in 0..n : End(list[j]) <= End(list[j + i])}
<1>1. n \in Nat /\ j \in Nat /\ Len(list) \in Nat /\ k \in Nat
  BY PlanNumbers
<1>2. 0 \in S
  BY <1>1, PlanNumbers
<1>3. ASSUME NEW i \in 0..(n - 1), i \in S PROVE i + 1 \in S
  <2> DEFINE a == j + i
             b == j + (i + 1)
  <2>1. a \in 1..Len(list) /\ b \in 1..Len(list) /\ b = a + 1
    BY <1>1
  <2>2. /\ End(list[a]) \in Nat /\ End(list[b]) \in Nat
        /\ StartOfGap(list, b) <= list[b].offset /\ list[b].offset <= End(list[b])
        /\ list[b].offset \in Nat /\ StartOfGap(list, a + 1) = End(list[a])
    <3> HIDE DEF a, b
    <3> QED BY <2>1, PlanNumbers
  <2>3. End(list[j]) <= End(list[a]) /\ End(list[j]) \in Nat
    BY <1>3, PlanNumbers
  <2>4. End(list[j]) <= End(list[b])
    <3> HIDE DEF a, b
    <3> QED BY <2>1, <2>2, <2>3
  <2> QED BY <1>1, <2>4
<1> HIDE DEF S
<1>4. 0..n \subseteq S
  <2> HIDE DEF n
  <2> QED BY <1>1, <1>2, <1>3, IntervalInduction
<1>5. k - j \in 0..n /\ j + (k - j) = k
  BY <1>1
<1>6. k - j \in S
  BY <1>4, <1>5
<1> QED BY <1>5, <1>6 DEF S

\* A stream that has come to the end of its last range has put out what its
\* ranges become, if they have bytes.
LEMMA OutputOfSublist ==
  ASSUME NEW s, Consistent(s), NEW list, NEW h, NEW base, NEW to, Task(list, h, base, to),
         OnPlan(s, list, h, base, to), to # 0,
         \A k \in 1..Len(list) : list[k].length > 0,
         Position(s) = End(list[to])
  PROVE  base \o s.out = h[to]
<1>1. PICK k \in 0..to : Follows(s, list, h, base, to, k)
  BY DEF OnPlan
<1>2. /\ list \in Seq(Ranges) /\ InOrder(list) /\ IsRecompression(h, list)
      /\ Len(list) \in Nat /\ to \in 1..Len(list) /\ to \in Nat
  BY DEF Task
<1>3. s.ranges = <<>> /\ ~Compressing(s)
  <2> SUFFICES ASSUME s.ranges # <<>> PROVE FALSE
    BY DEF Consistent, WithinRange
  <2>1. k + 1 \in 1..to /\ k + 1 \in 1..Len(list) /\ Head(s.ranges) = list[k + 1]
    BY <1>1, NextOfPlan
  <2> DEFINE r == list[k + 1]
  <2>2. r.offset \in Nat /\ End(r) \in Nat /\ End(list[to]) \in Nat /\ r.offset < End(r)
    <3>1. r.offset \in Nat /\ End(r) \in Nat /\ End(list[to]) \in Nat /\ r \in Ranges
      BY <1>2, <2>1, PlanNumbers
    <3>2. r.length > 0 /\ r.length \in Nat
      BY <2>1, <3>1 DEF Ranges
    <3> QED BY <3>1, <3>2 DEF End
  <2>3. End(r) <= End(list[to])
    <3> DEFINE j == k + 1
    <3>1. j \in 1..Len(list) /\ to \in j..Len(list)
      BY <1>2, <2>1
    <3> HIDE DEF j
    <3>2. End(list[j]) <= End(list[to])
      BY <1>2, <3>1, EndsGrow
    <3> QED BY <3>2 DEF j
  <2>4. CASE Compressing(s)
    <3>1. End(r) - Position(s) # 0 /\ Position(s) \in r.offset..End(r)
      BY <2>1, <2>4 DEF OnPlan, AtRangeEnd, BytesTillCompressionEnds, Consistent, WithinRange
    <3> QED BY <2>2, <2>3, <3>1
  <2>5. CASE ~Compressing(s)
    <3>1. Position(s) <= r.offset
      BY <2>1, <2>5 DEF Consistent, WithinRange
    <3> QED BY <2>2, <2>3, <3>1
  <2> QED BY <2>4, <2>5
<1>4. k = to
  BY <1>1, <1>2, <1>3, EmptySeq DEF Follows
<1> DEFINE e == End(list[to])
           v == h[to]
<1>5. e \in Nat /\ StartOfGap(list, to + 1) = e
  BY <1>2, PlanNumbers
<1>6. v \in Seq(Items)
  BY <1>2 DEF IsRecompression
<1>7. base \o s.out = v \o Copied(Bytes(e, e))
  BY <1>1, <1>3, <1>4, <1>5 DEF Follows, Produced
<1>8. Copied(Bytes(e, e)) = <<>> /\ v \o <<>> = v
  <2> HIDE DEF e, v
  <2> QED BY <1>5, <1>6, NoBytes, ConcatEmptySeq
<1> QED
  <2> HIDE DEF e
  <2> QED BY <1>7, <1>8

\* One that has come to the end of the blob has put out everything, if no
\* range starts there.
LEMMA OutputToTheEnd ==
  ASSUME NEW s, Consistent(s), NEW list, NEW h, NEW base, Task(list, h, base, Len(list)),
         OnPlan(s, list, h, base, Len(list)), NEW n \in Nat,
         \A k \in 1..Len(list) : list[k].offset < n /\ End(list[k]) <= n,
         Position(s) = n
  PROVE  base \o s.out = h[Len(list)] \o Copied(Bytes(StartOfGap(list, Len(list) + 1), n))
<1> DEFINE to == Len(list)
<1>1. PICK k \in 0..to : Follows(s, list, h, base, to, k)
  BY DEF OnPlan
<1>2. list \in Seq(Ranges) /\ InOrder(list) /\ to \in Nat /\ Task(list, h, base, to)
  BY DEF Task
<1>3. s.ranges = <<>> /\ ~Compressing(s)
  <2> SUFFICES ASSUME s.ranges # <<>> PROVE FALSE
    BY DEF Consistent, WithinRange
  <2> DEFINE r == list[k + 1]
  <2>1. k + 1 \in 1..to /\ Head(s.ranges) = r
    <3> HIDE DEF to
    <3> QED BY <1>1, <1>2, NextOfPlan
  <2>2. r.offset \in Nat /\ End(r) \in Nat /\ r.offset < n /\ End(r) <= n
    BY <1>2, <2>1, PlanNumbers
  <2>3. CASE Compressing(s)
    <3>1. End(r) - Position(s) # 0 /\ Position(s) \in r.offset..End(r)
      BY <2>1, <2>3 DEF OnPlan, AtRangeEnd, BytesTillCompressionEnds, Consistent, WithinRange
    <3> QED BY <2>2, <3>1
  <2>4. CASE ~Compressing(s)
    <3>1. Position(s) <= r.offset
      BY <2>1, <2>4 DEF Consistent, WithinRange
    <3> QED BY <2>2, <3>1
  <2> QED BY <2>3, <2>4
<1>4. k = to
  BY <1>1, <1>2, <1>3, EmptySeq DEF Follows
<1> QED BY <1>1, <1>3, <1>4 DEF Follows, Produced

=============================================================================
