-------------------------- MODULE SplitLoopProofs --------------------------
(***************************************************************************)
(* Proofs about the division of the plan, for every list of ranges and     *)
(* every number of threads.                                                *)
(***************************************************************************)
EXTENDS SplitLoop, PlanLemmas

\* The fields of MTlistSplit keep in step with the sublists handed out.
LoopInv ==
  /\ list \in Lists
  /\ threads \in Nat \ {0}
  /\ no \in 0..threads
  /\ outcome \in {"splitting", "split", "refused"}
  /\ outcome = "split" <=> no = threads
  /\ sublists \in Seq([from : Nat, to : Nat]) /\ Len(sublists) = no
  /\ IsSplit(split)
  /\ no < threads =>
       NextFrom(list, threads, no, split) = IF no = 0 THEN 0 ELSE sublists[no].to

\* Average division of enough ranges refuses nothing.
LEMMA AverageAccepted ==
  ASSUME LoopInv, no < threads, split.isAverage, Len(list) >= threads * threads
  PROVE  ~Rejected(list, Sub)
<1>1. Len(list) \in Nat
  BY SplitAssumption DEF LoopInv
<1>2. PICK sub \in Nat : /\ sub = Len(list) \div threads + 1
                         /\ sub = AverageSubLen(list, threads)
  <2>1. threads \in Nat \ {0}
    BY DEF LoopInv
  <2>2. Len(list) \div threads + 1 \in Nat
    BY <1>1, <2>1
  <2> QED BY <2>2, Zenon DEF AverageSubLen
<1>3. Sub.from = no * sub /\ Sub.to = IF no = threads - 1 THEN Len(list) ELSE (no + 1) * sub
  BY <1>2 DEF Sub, GetSubList, AverageSubList
<1>4. threads \in Nat \ {0} /\ no \in 0..(threads - 1)
  BY DEF LoopInv
<1>5. /\ no * sub \in 0..(Len(list) - 1)
      /\ no # threads - 1 => (no + 1) * sub \in (no * sub + 1)..Len(list)
  BY <1>1, <1>2, <1>4, AverageInterval
<1> QED BY <1>1, <1>3, <1>5 DEF Rejected

\* The loop starts with nothing handed out.
LEMMA LoopInit == Init => LoopInv /\ SublistsTile
<1> SUFFICES ASSUME Init PROVE LoopInv /\ SublistsTile
  OBVIOUS
<1>1. list \in Lists /\ Len(list) \in Nat \ {0}
  BY SplitAssumption, EmptySeq DEF Init
<1>2. threads \in Nat \ {0}
  BY <1>1, SplitAssumption DEF Init, ThreadCount
<1>3. sublists \in Seq([from : Nat, to : Nat]) /\ Len(sublists) = 0
  BY EmptySeq DEF Init
<1>4. IsSplit(split) /\ split.haveSplitPos = 0
  BY DEF Init, NewSplit, IsSplit
<1>5. AverageSubLen(list, threads) \in Nat
  BY <1>1, <1>2 DEF AverageSubLen
<1> QED BY <1>1, <1>2, <1>3, <1>4, <1>5 DEF Init, LoopInv, SublistsTile, NextFrom

\* Every turn of the loop extends the tiling by one sublist.
LEMMA LoopStep ==
  LoopInv /\ SublistsTile /\ [Next]_vars => LoopInv' /\ SublistsTile'
<1> SUFFICES ASSUME LoopInv, SublistsTile, [Next]_vars PROVE LoopInv' /\ SublistsTile'
  OBVIOUS
<1>1. CASE NextSubList
  <2>1. /\ outcome = "splitting" /\ no < threads
        /\ sublists' = Append(sublists, [from |-> Sub.from, to |-> Sub.to])
        /\ split' = Sub.split /\ no' = no + 1
        /\ outcome' = IF no' = threads THEN "split" ELSE outcome
        /\ UNCHANGED <<list, threads>>
    BY <1>1 DEF NextSubList
  <2>2. Sub.from \in Nat /\ Sub.to \in Nat /\ no \in Nat /\ Len(sublists) = no
    BY <1>1 DEF NextSubList, Rejected, LoopInv
  <2>3. /\ sublists' \in Seq([from : Nat, to : Nat]) /\ Len(sublists') = no'
        /\ \A k \in 1..no : sublists'[k] = sublists[k]
        /\ sublists'[no'].from = Sub.from /\ sublists'[no'].to = Sub.to
    BY <2>1, <2>2 DEF LoopInv
  <2>4. /\ Sub.from = NextFrom(list, threads, no, split)
        /\ no = threads - 1 => Sub.to = Len(list)
        /\ no < threads - 1 => Sub.to = NextFrom(list, threads, no + 1, Sub.split)
        /\ IsSplit(Sub.split)
    <3>1. threads \in Int /\ no \in Int /\ no < threads /\ IsSplit(split)
      BY <2>1, <2>2 DEF LoopInv
    <3> QED BY <3>1, SubListFollows, Zenon DEF Sub
  <2>5. LoopInv'
    BY <2>1, <2>2, <2>3, <2>4 DEF LoopInv
  <2>6. SublistsTile'
    <3>1. ASSUME NEW k \in 1..no'
          PROVE  sublists'[k].from = IF k = 1 THEN 0 ELSE sublists'[k - 1].to
      <4>1. CASE k = no'
        BY <2>1, <2>2, <2>3, <2>4, <4>1 DEF LoopInv
      <4>2. CASE k # no'
        <5>1. k \in 1..no /\ (k # 1 => k - 1 \in 1..no)
          BY <2>1, <2>2, <4>2
        <5> QED BY <2>3, <5>1 DEF SublistsTile
      <4> QED BY <4>1, <4>2
    <3>2. outcome' = "split" => sublists'[no'].to = Len(list')
      BY <2>1, <2>2, <2>3, <2>4 DEF LoopInv
    <3> QED BY <3>1, <3>2 DEF SublistsTile
  <2> QED BY <2>5, <2>6
<1>2. CASE Refuse
  BY <1>2 DEF Refuse, LoopInv, SublistsTile
<1>3. CASE UNCHANGED vars
  BY <1>3 DEF vars, LoopInv, SublistsTile
<1> QED BY <1>1, <1>2, <1>3 DEF Next, Terminated

\* No range is lost or given to two workers: whatever the lengths and kinds
\* of the ranges, the sublists follow one another and cover the list.
THEOREM Tiles == Spec => []SublistsTile
  BY LoopInit, LoopStep, PTL DEF Spec

\* Without a 7z range, getSubLis serves every thread when there are as many
\* ranges as the square of the number of threads.
THEOREM EnoughRanges == Spec => []EnoughRangesNeverRefused
<1>1. LoopInv /\ EnoughRangesNeverRefused /\ [Next]_vars => EnoughRangesNeverRefused'
  <2> SUFFICES ASSUME LoopInv, EnoughRangesNeverRefused, [Next]_vars
               PROVE  EnoughRangesNeverRefused'
    OBVIOUS
  <2>1. CASE NextSubList
    BY <2>1 DEF NextSubList, EnoughRangesNeverRefused
  <2>2. CASE Refuse
    BY <2>2, AverageAccepted DEF Refuse, EnoughRangesNeverRefused
  <2>3. CASE UNCHANGED vars
    BY <2>3 DEF vars, EnoughRangesNeverRefused
  <2> QED BY <2>1, <2>2, <2>3 DEF Next, Terminated
<1>2. Init => EnoughRangesNeverRefused
  BY DEF Init, EnoughRangesNeverRefused
<1> QED BY <1>1, <1>2, LoopInit, LoopStep, PTL DEF Spec

-----------------------------------------------------------------------------
(***************************************************************************)
(* The balance of the weighted division.                                   *)
(***************************************************************************)

\* A plan as the loop gets it.
IsPlan(l) ==
  l \in Seq([params : [strategy : 0..7], length : Nat]) /\ l # <<>>

\* sum[k] is the 7z weight of the first k ranges of l.
IsPrefixSum(sum, l) ==
  /\ sum \in [0..Len(l) -> Nat] /\ sum[0] = 0
  /\ \A i \in 0..(Len(l) - 1) : sum[i + 1] = sum[i] + SevenZipWeight(l, i)
  /\ \A i, j \in 0..Len(l) : i <= j => sum[i] <= sum[j]

\* The weight of a range is not negative.
LEMMA WeightType ==
  ASSUME NEW l, IsPlan(l)
  PROVE  Len(l) \in Nat \ {0} /\ \A i \in 0..(Len(l) - 1) : SevenZipWeight(l, i) \in Nat
<1> DEFINE Ranges7z == [params : [strategy : 0..7], length : Nat]
<1>1. l \in Seq(Ranges7z) /\ l # <<>>
  BY DEF IsPlan
<1>2. \A r \in Ranges7z : r.length \in Nat
  OBVIOUS
<1> HIDE DEF Ranges7z
<1>3. Len(l) \in Nat \ {0} /\ \A k \in 1..Len(l) : l[k] \in Ranges7z
  BY <1>1, EmptySeq
<1>4. ASSUME NEW i \in 0..(Len(l) - 1) PROVE SevenZipWeight(l, i) \in Nat
  <2>1. i + 1 \in 1..Len(l)
    BY <1>3
  <2> QED BY <1>2, <1>3, <2>1 DEF SevenZipWeight
<1> QED BY <1>3, <1>4

\* SevenZipPrefix computes the sums of the weights.
LEMMA PrefixSums ==
  ASSUME NEW l, IsPlan(l)
  PROVE  IsPrefixSum(SevenZipPrefix(l), l)
<1> DEFINE n == Len(l)
           weight == [k \in 1..n |-> SevenZipWeight(l, k - 1)]
           F(f) == [k \in 0..n |-> IF k = 0 THEN 0 ELSE f[k - 1] + SevenZipWeight(l, k - 1)]
           sum == SevenZipPrefix(l)
<1>1. n \in Nat \ {0} /\ \A i \in 0..(n - 1) : SevenZipWeight(l, i) \in Nat
  BY WeightType
<1>2. weight \in [1..n -> Int]
  <2>1. \A k \in 1..n : k - 1 \in 0..(n - 1)
    BY <1>1
  <2> QED BY <1>1, <2>1
<1>3. PICK h : AddsUp(h, n, weight)
  <2> HIDE DEF weight, n
  <2> QED BY <1>1, <1>2, SumExists
<1>4. h = F(h)
  <2>1. h \in [0..n -> Int] /\ h[0] = 0 /\ \A k \in 1..n : h[k] = h[k - 1] + weight[k]
    BY <1>3 DEF AddsUp
  <2>2. ASSUME NEW k \in 0..n PROVE h[k] = F(h)[k]
    <3>1. k # 0 => k \in 1..n
      BY <1>1
    <3> QED BY <2>1, <3>1
  <2> HIDE DEF weight
  <2> QED BY <2>1, <2>2
<1>5. sum = CHOOSE f : f = F(f)
  BY Zenon DEF SevenZipPrefix
<1>6. sum = F(sum)
  <2> HIDE DEF F, sum
  <2> QED BY <1>4, <1>5
<1> HIDE DEF sum
<1>7. /\ DOMAIN sum = 0..n /\ sum[0] = 0
      /\ \A i \in 0..(n - 1) : sum[i + 1] = sum[i] + SevenZipWeight(l, i)
  <2>1. DOMAIN sum = 0..n /\ sum[0] = 0
    BY <1>1, <1>6
  <2>2. ASSUME NEW i \in 0..(n - 1) PROVE sum[i + 1] = sum[i] + SevenZipWeight(l, i)
    <3>1. i + 1 \in 0..n /\ i + 1 # 0 /\ (i + 1) - 1 = i
      BY <1>1
    <3> QED BY <1>6, <3>1
  <2> QED BY <2>1, <2>2
<1>8. ASSUME NEW i \in 0..n PROVE \A j \in i..n : sum[i] \in Nat /\ sum[j] \in Nat /\ sum[i] <= sum[j]
  <2> DEFINE Natural == {k \in 0..n : sum[k] \in Nat}
             Larger == {k \in 0..n : i <= k => sum[i] <= sum[k]}
  <2>1. 0..n \subseteq Natural
    <3>1. 0 \in Natural
      BY <1>7
    <3>2. \A k \in 0..(n - 1) : k \in Natural => k + 1 \in Natural
      BY <1>1, <1>7
    <3> HIDE DEF Natural, n
    <3> QED BY <1>1, <3>1, <3>2, IntervalInduction
  <2>2. 0..n \subseteq Larger
    <3>1. 0 \in Larger
      BY <1>1, <1>7
    <3>2. ASSUME NEW k \in 0..(n - 1), k \in Larger PROVE k + 1 \in Larger
      <4>1. /\ sum[k] \in Nat /\ sum[k + 1] \in Nat /\ sum[i] \in Nat
            /\ SevenZipWeight(l, k) \in Nat
            /\ sum[k + 1] = sum[k] + SevenZipWeight(l, k)
        <5>1. k \in 0..n /\ k + 1 \in 0..n
          BY <1>1
        <5>2. sum[k] \in Nat /\ sum[k + 1] \in Nat /\ sum[i] \in Nat
          BY <2>1, <5>1
        <5>3. /\ SevenZipWeight(l, k) \in Nat
              /\ sum[k + 1] = sum[k] + SevenZipWeight(l, k)
          BY <1>1, <1>7
        <5> QED BY <5>2, <5>3
      <4>2. CASE i <= k
        BY <3>2, <4>1, <4>2
      <4>3. CASE ~(i <= k)
        <5>1. i <= k + 1 => i = k + 1
          BY <1>1, <4>3
        <5> QED BY <1>1, <4>1, <5>1
      <4> QED BY <4>2, <4>3
    <3> HIDE DEF Larger, n
    <3> QED BY <1>1, <3>1, <3>2, IntervalInduction
  <2> QED BY <1>1, <2>1, <2>2
<1>9. sum \in [0..n -> Nat]
  <2>1. \A k \in 0..n : sum[k] \in Nat
    BY <1>1, <1>8
  <2>2. sum = [k \in 0..n |-> sum[k]]
    BY <1>6
  <2> QED BY <2>1, <2>2
<1>10. \A i, j \in 0..n : i <= j => sum[i] <= sum[j]
  BY <1>1, <1>8
<1> QED BY <1>7, <1>9, <1>10 DEF sum, IsPrefixSum

\* HeaviestRange is the largest weight.
LEMMA HeaviestIsLargest ==
  ASSUME IsPlan(list)
  PROVE  /\ HeaviestRange \in Nat
         /\ \A i \in 0..(Len(list) - 1) : SevenZipWeight(list, i) <= HeaviestRange
<1> DEFINE n == Len(list)
           f == [i \in 0..(n - 1) |-> SevenZipWeight(list, i)]
           R == {w \in Weights \X Weights : w[1] < w[2]}
           IsLargest(h) == \A weight \in Weights : weight <= h
<1>1. n \in Nat \ {0} /\ \A i \in 0..(n - 1) : SevenZipWeight(list, i) \in Nat
  BY WeightType
<1>2. Weights \subseteq Nat /\ SevenZipWeight(list, 0) \in Weights
  BY <1>1 DEF Weights
<1>3. IsFiniteSet(Weights)
  <2>1. f \in Surjection(0..(n - 1), Weights)
    BY DEF Surjection, Weights
  <2>2. IsFiniteSet(0..(n - 1))
    BY <1>1, FS_Interval
  <2> HIDE DEF f
  <2> QED BY <2>1, <2>2, FS_Surjection
<1>4. Orders(R, Weights)
  BY <1>2 DEF Orders
<1>5. PICK h \in Weights : \A x \in Weights : x = h \/ <<x, h>> \in R
  <2> HIDE DEF R
  <2> QED BY <1>2, <1>3, <1>4, LastExists
<1>6. IsLargest(h)
  <2> SUFFICES ASSUME NEW x \in Weights PROVE x <= h
    OBVIOUS
  <2>1. x = h \/ x < h
    BY <1>5
  <2> QED BY <1>2, <2>1
<1>7. HeaviestRange \in Weights /\ IsLargest(HeaviestRange)
  <2> HIDE DEF IsLargest
  <2>1. HeaviestRange = CHOOSE x \in Weights : IsLargest(x)
    BY Zenon DEF HeaviestRange, IsLargest
  <2> QED BY <1>6, <2>1
<1>8. \A i \in 0..(n - 1) : SevenZipWeight(list, i) \in Weights
  BY DEF Weights
<1> QED BY <1>2, <1>7, <1>8

\* If every range weighs nothing, so does the list.
LEMMA SomeRangeWeighs ==
  ASSUME IsPlan(list), SevenZipScore(list) # 0
  PROVE  HeaviestRange >= 1
<1> DEFINE sum == SevenZipPrefix(list)
           n == Len(list)
           Zero == {k \in 0..n : sum[k] = 0}
<1> SUFFICES ASSUME HeaviestRange < 1 PROVE FALSE
  BY HeaviestIsLargest
<1>1. IsPrefixSum(sum, list) /\ n \in Nat
  BY PrefixSums, WeightType
<1> HIDE DEF sum
<1>2. \A i \in 0..(n - 1) : SevenZipWeight(list, i) = 0
  BY HeaviestIsLargest, WeightType
<1>3. 0 \in Zero /\ \A k \in 0..(n - 1) : k \in Zero => k + 1 \in Zero
  BY <1>1, <1>2 DEF IsPrefixSum
<1> HIDE DEF Zero, n
<1>4. 0..n \subseteq Zero
  BY <1>1, <1>3, IntervalInduction
<1>5. sum[n] = 0
  BY <1>1, <1>4 DEF Zero
<1> QED BY <1>5 DEF SevenZipScore, sum, n

\* A share of what is left, and what the shares before it leave.  The
\* products are of variables, and only found step by step.
LEMMA ShareStays ==
  ASSUME NEW score \in Nat, NEW m \in Nat, m >= 2, NEW c \in Nat, score <= c * m,
         NEW taken \in Nat, taken >= score \div m
  PROVE  score \div m \in Nat /\ score \div m <= c /\ score - taken <= c * (m - 1)
<1>1. PICK q \in Nat : q = score \div m /\ m * q <= score /\ score < m * q + m
  <2>1. score \div m \in Nat /\ m * (score \div m) <= score
        /\ score < m * (score \div m) + m
    OBVIOUS
  <2> QED BY <2>1
<1>2. q <= c
  <2> SUFFICES ASSUME c + 1 <= q PROVE FALSE
    BY <1>1
  <2>1. (c + 1) * m <= q * m
    BY ProductGrows
  <2>2. (c + 1) * m = c * m + m /\ q * m = m * q /\ c * m \in Nat
    OBVIOUS
  <2> QED BY <1>1, <2>1, <2>2
<1>3. c * (m - 1) = c * m - c /\ c * m \in Nat
  OBVIOUS
<1>4. CASE q = c
  BY <1>1, <1>3, <1>4
<1>5. CASE q # c
  <2>1. q + 1 <= c
    BY <1>2, <1>5
  <2>2. (q + 1) * (m - 1) <= c * (m - 1)
    BY <2>1, ProductGrows
  <2>3. (q + 1) * (m - 1) = m * q + m - q - 1 /\ m * q \in Nat
    BY <1>1
  <2>4. score - taken <= m * q + m - q - 1
    BY <1>1, <2>3
  <2> QED BY <1>3, <2>2, <2>3, <2>4
<1> QED BY <1>1, <1>2, <1>4, <1>5

\* The share of a worker, rounded up.
EqualShare(score, t) == (score + t - 1) \div t

\* It is between the score and less than one thread more.
LEMMA EqualShareBounds ==
  ASSUME NEW score \in Nat, NEW t \in Nat \ {0}
  PROVE  /\ EqualShare(score, t) \in Nat
         /\ score <= EqualShare(score, t) * t
         /\ EqualShare(score, t) * t <= score + t - 1
<1> DEFINE x == score + t - 1
           c == x \div t
<1>1. x \in Nat
  OBVIOUS
<1> HIDE DEF x
<1>2. c \in Nat /\ t * c <= x /\ x < t * c + t
  BY <1>1
<1> HIDE DEF c
<1>3. t * c = c * t /\ c * t \in Nat
  BY <1>2
<1>4. c * t <= score + t - 1 /\ score + t - 1 < c * t + t
  BY <1>2, <1>3 DEF x
<1>5. score <= c * t
  BY <1>3, <1>4
<1> QED BY <1>2, <1>4, <1>5 DEF EqualShare, c, x

\* A load of no more than two ranges, or than a share and a range.
IsBalanced(load, share, heaviest) ==
  /\ load \in Int
  /\ load <= 2 * heaviest \/ load <= share + heaviest - 1

\* Such a load is within the bound of the property.
LEMMA BalancedLoad ==
  ASSUME NEW score \in Nat, NEW t \in Nat \ {0}, NEW heaviest \in Nat, NEW load,
         IsBalanced(load, EqualShare(score, t), heaviest)
  PROVE  load * t <= score + 2 * t * heaviest
<1> DEFINE c == EqualShare(score, t)
<1>1. c \in Nat /\ c * t <= score + t - 1
  BY EqualShareBounds
<1>2. load \in Int /\ (load <= 2 * heaviest \/ load <= c + heaviest - 1)
  BY DEF IsBalanced
<1> HIDE DEF c
<1>3. heaviest * t \in Nat /\ 2 * t * heaviest = 2 * (heaviest * t)
  OBVIOUS
<1>4. CASE load <= 2 * heaviest
  <2>1. load * t <= (2 * heaviest) * t
    BY <1>2, <1>4
  <2>2. (2 * heaviest) * t = 2 * (heaviest * t) /\ load * t \in Int
    BY <1>2
  <2> QED BY <1>3, <2>1, <2>2
<1>5. CASE load <= c + heaviest - 1
  <2>1. load * t <= (c + heaviest - 1) * t
    BY <1>1, <1>2, <1>5
  <2>2. (c + heaviest - 1) * t = c * t + heaviest * t - t /\ load * t \in Int /\ c * t \in Int
    BY <1>1, <1>2
  <2> QED BY <1>1, <1>3, <2>1, <2>2
<1> QED BY <1>2, <1>4, <1>5

\* What a call for a thread before the last one takes when the fields are s:
\* from have to the end of sub, the weight taken off the score being that up
\* to the position which meets the share.
Takes(taken, sub, s, l, need, heaviest) ==
  LET sum == SevenZipPrefix(l)
      have == s.haveSplitPos
  IN /\ taken \in Nat /\ taken >= need
     /\ sub.split.isAverage = s.isAverage /\ sub.split.score = s.score - taken
     /\ sub.from = have /\ sub.to = sub.split.haveSplitPos /\ sub.to \in 0..Len(l)
     /\ taken <= sum[sub.to] - sum[have]
     /\ sum[sub.to] - sum[have] <= 2 * heaviest
          \/ sum[sub.to] - sum[have] <= need + heaviest - 1

\* A sublist that is not refused takes the share and a range more at most, or
\* two ranges.
LEMMA WeightedTakes ==
  ASSUME NEW l, IsPlan(l), NEW t \in Int, NEW j \in Int, j # t - 1,
         NEW s, IsSplit(s), s.haveSplitPos \in 0..Len(l), s.score \in Int,
         NEW need \in Nat, need = Share(t, j, s),
         NEW heaviest \in Nat, \A i \in 0..(Len(l) - 1) : SevenZipWeight(l, i) <= heaviest,
         NEW sub, sub = WeightedSubList(l, t, j, s), ~Rejected(l, sub)
  PROVE  \E taken : Takes(taken, sub, s, l, need, heaviest)
<1> DEFINE n == Len(l)
           sum == SevenZipPrefix(l)
           have == s.haveSplitPos
           met == ShareMet(l, have, need)
           first == CHOOSE i \in met : \A k \in met : i <= k
           reached == IF met = {} THEN 0 ELSE first + 1
           endPos == IF reached = have + 1 THEN reached + 1 ELSE reached
           taken == sum[reached] - sum[have]
<1>1. /\ n \in Nat \ {0} /\ \A i \in 0..(n - 1) : SevenZipWeight(l, i) \in Nat
      /\ IsPrefixSum(sum, l)
  BY WeightType, PrefixSums
<1>2. /\ sub.from = have /\ sub.to = endPos
      /\ sub.split = [s EXCEPT !.haveSplitPos = endPos,
                               !.score = IF met = {} THEN @ ELSE @ - ScoreOf(l, have, reached)]
  BY DEF WeightedSubList
<1> HIDE DEF sum
<1>3. met # {}
  <2> SUFFICES ASSUME met = {} PROVE FALSE
    OBVIOUS
  <2>1. reached = 0
    OBVIOUS
  <2>2. endPos = 0
    BY <2>1
  <2> HIDE DEF endPos
  <2> QED BY <1>1, <1>2, <2>2 DEF Rejected
<1>4. met = {i \in have..(n - 1) : sum[i + 1] - sum[have] >= need}
  BY DEF ShareMet, sum
<1>5. met \subseteq Nat
  BY <1>4
<1> HIDE DEF met
<1>6. first \in met /\ \A k \in met : first <= k
  <2>1. \E m \in met : \A k \in met : m <= k
    BY <1>3, <1>5, SmallestExists
  <2> QED BY <2>1
<1> HIDE DEF first
<1>7. /\ first \in have..(n - 1) /\ reached = first + 1 /\ reached \in 1..n
      /\ taken >= need
      /\ first \in Nat
  <2>1. first \in have..(n - 1) /\ sum[first + 1] - sum[have] >= need
    BY <1>4, <1>6
  <2>2. reached = first + 1
    BY <1>3
  <2> HIDE DEF reached
  <2>3. taken >= need
    BY <2>1, <2>2
  <2>4. first \in Nat /\ first + 1 \in 1..n
    BY <1>1, <2>1
  <2> QED BY <2>1, <2>2, <2>3, <2>4
<1> HIDE DEF reached
<1>8. endPos \in 1..n
  BY <1>1, <1>2 DEF Rejected
<1>9. sum \in [0..n -> Nat] /\ \A i \in 0..(n - 1) : sum[i + 1] = sum[i] + SevenZipWeight(l, i)
  BY <1>1 DEF IsPrefixSum
<1>10. /\ sum[have] \in Nat /\ sum[first] \in Nat /\ sum[reached] \in Nat /\ sum[endPos] \in Nat
       /\ sum[reached] = sum[first] + SevenZipWeight(l, first)
       /\ SevenZipWeight(l, first) \in Nat /\ SevenZipWeight(l, first) <= heaviest
  <2>1. first \in 0..(n - 1) /\ first \in 0..n /\ reached \in 0..n /\ endPos \in 0..n
    BY <1>1, <1>7, <1>8
  <2> HIDE DEF endPos
  <2> QED BY <1>1, <1>7, <1>9, <2>1
<1>11. taken \in Nat /\ sum[reached] <= sum[endPos]
  <2>1. reached \in 0..n /\ endPos \in 0..n /\ reached <= endPos /\ have <= reached
    BY <1>7, <1>8
  <2>2. sum[have] <= sum[reached] /\ sum[reached] <= sum[endPos]
    BY <1>1, <2>1 DEF IsPrefixSum
  <2> QED BY <1>10, <2>2
<1>12. \/ sum[endPos] - sum[have] <= 2 * heaviest
       \/ sum[endPos] - sum[have] <= need + heaviest - 1
  <2>1. CASE first = have
    <3>1. endPos = reached + 1 /\ reached \in 0..(n - 1)
      BY <1>7, <1>8, <2>1
    <3>2. sum[endPos] = sum[reached] + SevenZipWeight(l, reached)
      BY <1>9, <3>1
    <3>3. SevenZipWeight(l, reached) \in Nat /\ SevenZipWeight(l, reached) <= heaviest
      BY <1>1, <3>1
    <3>4. sum[reached] = sum[have] + SevenZipWeight(l, first)
      BY <1>10, <2>1
    <3> DEFINE v == SevenZipWeight(l, first)
               w == SevenZipWeight(l, reached)
               a == sum[have]
               b == sum[reached]
               e == sum[endPos]
    <3>5. /\ v \in Nat /\ w \in Nat /\ a \in Nat /\ v <= heaviest /\ w <= heaviest
          /\ b = a + v /\ e = b + w
      BY <1>10, <3>2, <3>3, <3>4
    <3> HIDE DEF v, w, a, b, e, endPos
    <3>6. e - a <= 2 * heaviest
      BY <3>5
    <3> QED BY <3>6 DEF e, a
  <2>2. CASE first # have
    <3>1. endPos = reached
      BY <1>7, <2>2
    <3>2. first - 1 \in have..(n - 1) /\ (first - 1) + 1 = first /\ ~(first <= first - 1)
      BY <1>7, <2>2
    <3>3. ~(sum[first] - sum[have] >= need)
      BY <1>4, <1>6, <3>2
    <3>4. sum[first] - sum[have] <= need - 1
      BY <1>10, <3>3
    <3> DEFINE v == SevenZipWeight(l, first)
               a == sum[have]
               b == sum[first]
               e == sum[endPos]
    <3>5. /\ v \in Nat /\ a \in Nat /\ b \in Nat /\ v <= heaviest
          /\ b - a <= need - 1 /\ e = b + v
      BY <1>10, <3>1, <3>4
    <3> HIDE DEF v, a, b, e, endPos
    <3>6. e - a <= need + heaviest - 1
      BY <3>5
    <3> QED BY <3>6 DEF e, a
  <2> QED BY <2>1, <2>2
<1>13. sub.split = [isAverage |-> s.isAverage, score |-> s.score - taken,
                    haveSplitPos |-> endPos]
  <2>1. ScoreOf(l, have, reached) = taken
    BY DEF ScoreOf, sum
  <2> HIDE DEF taken, endPos
  <2> QED BY <1>2, <1>3, <2>1 DEF IsSplit
<1> HIDE DEF endPos
<1>14. sub.to \in 0..n /\ taken <= sum[sub.to] - sum[have]
  <2>1. sub.to = endPos /\ endPos \in 0..n
    BY <1>2, <1>8
  <2>2. taken <= sum[endPos] - sum[have]
    BY <1>10, <1>11
  <2> HIDE DEF taken
  <2> QED BY <2>1, <2>2
<1> HIDE DEF taken
<1>15. /\ sub.split.isAverage = s.isAverage /\ sub.split.score = s.score - taken
       /\ sub.split.haveSplitPos = endPos
  BY <1>13
<1>16. Takes(taken, sub, s, l, need, heaviest)
  BY <1>2, <1>7, <1>11, <1>12, <1>14, <1>15 DEF Takes, sum, taken
<1> QED BY <1>16

\* What is left to divide is no less than what the remaining ranges weigh and
\* no more than an equal share, rounded up, for each remaining thread.
BalanceInv ==
  ~split.isAverage =>
    /\ SevenZipScore(list) # 0
    /\ split.haveSplitPos \in 0..Len(list)
    /\ split.score \in Nat
    /\ SevenZipScore(list) - SevenZipPrefix(list)[split.haveSplitPos] <= split.score
    /\ no < threads =>
         split.score <= EqualShare(SevenZipScore(list), threads) * (threads - no)
    /\ \A k \in 1..no :
         IsBalanced(Load(sublists[k]), EqualShare(SevenZipScore(list), threads), HeaviestRange)

\* The lists of the loop are plans.
LEMMA ListIsPlan ==
  ASSUME list \in Lists
  PROVE  /\ IsPlan(list) /\ SevenZipScore(list) \in Nat
         /\ IsPrefixSum(SevenZipPrefix(list), list)
<1>1. IsPlan(list)
  BY SplitAssumption DEF IsPlan
<1>2. IsPrefixSum(SevenZipPrefix(list), list) /\ Len(list) \in Nat
  BY <1>1, PrefixSums, WeightType
<1> DEFINE sum == SevenZipPrefix(list)
<1>3. sum \in [0..Len(list) -> Nat] /\ Len(list) \in 0..Len(list)
  BY <1>2 DEF IsPrefixSum
<1> HIDE DEF sum
<1>4. sum[Len(list)] \in Nat
  BY <1>3
<1> QED BY <1>1, <1>2, <1>4 DEF SevenZipScore, sum

\* The sublist handed out is balanced, and what it leaves is as the invariant
\* says.
LEMMA NextIsBalanced ==
  ASSUME LoopInv, BalanceInv, ~split.isAverage, no < threads, ~Rejected(list, Sub),
         NEW score, score = SevenZipScore(list), NEW share, share = EqualShare(score, threads)
  PROVE  /\ IsBalanced(SevenZipPrefix(list)[Sub.to] - SevenZipPrefix(list)[Sub.from], share,
                       HeaviestRange)
         /\ no # threads - 1 =>
              /\ ~Sub.split.isAverage
              /\ Sub.split.haveSplitPos \in 0..Len(list)
              /\ Sub.split.score \in Nat
              /\ score - SevenZipPrefix(list)[Sub.split.haveSplitPos] <= Sub.split.score
              /\ Sub.split.score <= share * (threads - (no + 1))
         /\ no = threads - 1 => Sub.split = split
<1> DEFINE sum == SevenZipPrefix(list)
           n == Len(list)
           have == split.haveSplitPos
           m == threads - no
<1>1. /\ IsPlan(list) /\ score \in Nat /\ IsPrefixSum(sum, list) /\ score = sum[n]
      /\ n \in Nat \ {0}
  BY ListIsPlan, WeightType DEF LoopInv, SevenZipScore
<1>2. /\ HeaviestRange \in Nat /\ HeaviestRange >= 1
      /\ \A i \in 0..(n - 1) : SevenZipWeight(list, i) <= HeaviestRange
  BY <1>1, HeaviestIsLargest, SomeRangeWeighs DEF BalanceInv
<1>3. threads \in Nat \ {0} /\ no \in Nat /\ no < threads /\ m \in Nat \ {0} /\ IsSplit(split)
  BY DEF LoopInv
<1>4. share \in Nat /\ score <= share * threads /\ share * threads <= score + threads - 1
  BY <1>1, <1>3, EqualShareBounds
<1>5. /\ have \in 0..n /\ split.score \in Nat /\ score - sum[have] <= split.score
      /\ split.score <= share * m
  BY <1>3 DEF BalanceInv
<1>6. Sub = WeightedSubList(list, threads, no, split)
  BY DEF Sub, GetSubList
<1>7. sum[have] \in Nat
  BY <1>1, <1>5 DEF IsPrefixSum
<1> HIDE DEF sum, n, have
<1>8. CASE no = threads - 1
  <2>1. Sub = [from |-> have, to |-> n, split |-> split]
    BY <1>6, <1>8 DEF WeightedSubList, have, n
  <2>2. Sub.from = have /\ Sub.to = n /\ Sub.split = split
    BY <2>1
  <2>3. m = 1
    BY <1>3, <1>8
  <2>4. split.score <= share
    BY <1>4, <1>5, <2>3
  <2>5. sum[n] - sum[have] <= share + HeaviestRange - 1
    BY <1>1, <1>2, <1>4, <1>5, <1>7, <2>4
  <2>6. sum[n] - sum[have] \in Int
    BY <1>1, <1>7
  <2> QED BY <1>8, <2>2, <2>5, <2>6 DEF IsBalanced, sum
<1>9. CASE no # threads - 1
  <2>1. m >= 2
    BY <1>3, <1>9
  <2>2. PICK need \in Nat : need = Share(threads, no, split) /\ need = split.score \div m
    <3>1. split.score \div m \in Nat
      BY <1>3, <1>5
    <3> QED BY <3>1 DEF Share
  <2>3. PICK taken : Takes(taken, Sub, split, list, need, HeaviestRange)
    <3>1. split.score \in Int /\ threads \in Int /\ no \in Int
      BY <1>3, <1>5
    <3> QED BY <1>1, <1>2, <1>3, <1>5, <1>6, <1>9, <2>2, <3>1, WeightedTakes DEF have, n
  <2>4. /\ taken \in Nat /\ taken >= need
        /\ Sub.split.isAverage = split.isAverage /\ Sub.split.score = split.score - taken
        /\ Sub.from = have /\ Sub.to = Sub.split.haveSplitPos /\ Sub.to \in 0..n
        /\ taken <= sum[Sub.to] - sum[have]
        /\ \/ sum[Sub.to] - sum[have] <= 2 * HeaviestRange
           \/ sum[Sub.to] - sum[have] <= need + HeaviestRange - 1
    BY <2>3 DEF Takes, sum, n, have
  <2>5. need <= share /\ split.score - taken <= share * (m - 1)
    <3> DEFINE total == split.score
    <3>1. total \in Nat /\ m \in Nat /\ total <= share * m /\ need = total \div m
      BY <1>3, <1>5, <2>2
    <3> HIDE DEF m, total
    <3>2. total \div m <= share /\ total - taken <= share * (m - 1)
      BY <1>4, <2>1, <2>4, <3>1, ShareStays
    <3> QED BY <3>1, <3>2 DEF total
  <2>6. sum[Sub.to] \in Nat /\ sum[Sub.to] <= sum[n]
    BY <1>1, <2>4 DEF IsPrefixSum, n
  <2> DEFINE load == sum[Sub.to] - sum[have]
  <2>7. IsBalanced(load, share, HeaviestRange)
    <3>1. load \in Int /\ (load <= 2 * HeaviestRange \/ load <= need + HeaviestRange - 1)
      BY <1>7, <2>4, <2>6
    <3> HIDE DEF load
    <3>2. load <= 2 * HeaviestRange \/ load <= share + HeaviestRange - 1
      BY <1>2, <1>4, <2>5, <3>1
    <3> QED BY <3>1, <3>2 DEF IsBalanced
  <2>8. Sub.split.score \in Nat /\ score - sum[Sub.to] <= Sub.split.score
    <3> DEFINE rest == Sub.split.score
               total == split.score
               to == sum[Sub.to]
               from == sum[have]
    <3>1. /\ rest = total - taken /\ total \in Nat /\ to \in Nat /\ from \in Nat
          /\ taken <= to - from /\ score - from <= total /\ to <= score
      BY <1>1, <1>5, <1>7, <2>4, <2>6
    <3> HIDE DEF rest, total, to, from
    <3>2. rest \in Nat /\ score - to <= rest
      BY <1>1, <2>4, <3>1
    <3> QED BY <3>2 DEF rest, to
  <2>9. Sub.split.score <= share * (threads - (no + 1))
    <3>1. m - 1 = threads - (no + 1)
      BY <1>3
    <3> QED BY <2>4, <2>5, <3>1
  <2> QED BY <1>9, <2>4, <2>7, <2>8, <2>9 DEF sum, n
<1> QED BY <1>8, <1>9

\* The loop keeps the balance.
LEMMA BalanceStep ==
  ASSUME LoopInv, BalanceInv, [Next]_vars
  PROVE  BalanceInv'
<1>1. CASE NextSubList
  <2> SUFFICES ASSUME ~split'.isAverage PROVE BalanceInv'
    BY DEF BalanceInv
  <2>1. /\ no < threads /\ ~Rejected(list, Sub)
        /\ sublists' = Append(sublists, [from |-> Sub.from, to |-> Sub.to])
        /\ split' = Sub.split /\ no' = no + 1 /\ list' = list /\ threads' = threads
    BY <1>1 DEF NextSubList
  <2>2. ~split.isAverage
    BY <2>1 DEF Sub, GetSubList, AverageSubList
  <2>3. PICK score : score = SevenZipScore(list)
    OBVIOUS
  <2>4. PICK share : share = EqualShare(score, threads)
    OBVIOUS
  <2>5. PICK heaviest : heaviest = HeaviestRange
    OBVIOUS
  <2>6. PICK sum : sum = SevenZipPrefix(list)
    OBVIOUS
  <2>7. /\ IsBalanced(sum[Sub.to] - sum[Sub.from], share, heaviest)
        /\ no # threads - 1 =>
             /\ Sub.split.haveSplitPos \in 0..Len(list)
             /\ Sub.split.score \in Nat
             /\ score - sum[Sub.split.haveSplitPos] <= Sub.split.score
             /\ Sub.split.score <= share * (threads - (no + 1))
        /\ no = threads - 1 => Sub.split = split
    BY <2>1, <2>2, <2>3, <2>4, <2>5, <2>6, NextIsBalanced
  <2>8. /\ SevenZipScore(list)' = score /\ SevenZipPrefix(list)' = sum
        /\ EqualShare(SevenZipScore(list), threads)' = share /\ HeaviestRange' = heaviest
    BY <2>1, <2>3, <2>4, <2>5, <2>6 DEF HeaviestRange, Weights
  <2>9. score # 0 /\ \A k \in 1..no : IsBalanced(sum[sublists[k].to] - sum[sublists[k].from],
                                                  share, heaviest)
    BY <2>2, <2>3, <2>4, <2>5, <2>6 DEF BalanceInv, Load
  <2>10. no \in Nat /\ Len(sublists) = no /\ no' \in Nat /\ threads \in Nat
    BY <2>1 DEF LoopInv
  <2>11. /\ \A k \in 1..no : sublists'[k] = sublists[k]
         /\ sublists'[no + 1].from = Sub.from /\ sublists'[no + 1].to = Sub.to
    <3>1. sublists \in Seq([from : Nat, to : Nat])
      BY DEF LoopInv
    <3> QED BY <2>1, <2>10, <3>1
  <2>12. \A k \in 1..no' : IsBalanced(sum[sublists'[k].to] - sum[sublists'[k].from],
                                      share, heaviest)
    <3> SUFFICES ASSUME NEW k \in 1..no'
                 PROVE  IsBalanced(sum[sublists'[k].to] - sum[sublists'[k].from],
                                   share, heaviest)
      OBVIOUS
    <3>1. CASE k = no + 1
      BY <2>7, <2>11, <3>1
    <3>2. CASE k # no + 1
      <4>1. k \in 1..no
        BY <2>1, <2>10, <3>2
      <4> QED BY <2>9, <2>11, <4>1
    <3> QED BY <3>1, <3>2
  <2>13. /\ split'.haveSplitPos \in 0..Len(list)
         /\ split'.score \in Nat
         /\ score - sum[split'.haveSplitPos] <= split'.score
         /\ no' < threads => split'.score <= share * (threads - no')
    <3>1. CASE no = threads - 1
      <4>1. /\ split.haveSplitPos \in 0..Len(list)
            /\ split.score \in Nat
            /\ score - sum[split.haveSplitPos] <= split.score
        BY <2>2, <2>3, <2>6 DEF BalanceInv
      <4>2. ~(no' < threads) /\ split' = split
        BY <2>1, <2>7, <2>10, <3>1
      <4> QED BY <4>1, <4>2
    <3>2. CASE no # threads - 1
      BY <2>1, <2>7, <3>2
    <3> QED BY <3>1, <3>2
  <2> QED BY <2>1, <2>8, <2>9, <2>12, <2>13 DEF BalanceInv, Load
<1>2. CASE Refuse \/ Terminated \/ UNCHANGED vars
  <2>1. UNCHANGED <<list, threads, no, split, sublists>>
    BY <1>2 DEF Refuse, Terminated, vars
  <2> QED BY <2>1 DEF BalanceInv, Load, HeaviestRange, Weights
<1> QED BY <1>1, <1>2 DEF Next

\* At the start everything is left to divide.
LEMMA BalanceInit ==
  ASSUME Init
  PROVE  BalanceInv
<1> SUFFICES ASSUME ~split.isAverage PROVE BalanceInv
  BY DEF BalanceInv
<1>1. /\ no = 0 /\ split = NewSplit(list) /\ list \in Lists
      /\ threads \in Nat \ {0}
  BY LoopInit DEF Init, LoopInv
<1>2. /\ SevenZipScore(list) # 0 /\ split.score = SevenZipScore(list)
      /\ split.haveSplitPos = 0
  BY <1>1 DEF NewSplit
<1>3. SevenZipScore(list) \in Nat /\ SevenZipPrefix(list)[0] = 0 /\ Len(list) \in Nat
  BY <1>1, ListIsPlan, WeightType DEF IsPrefixSum
<1>4. SevenZipScore(list) <= EqualShare(SevenZipScore(list), threads) * threads
  BY <1>1, <1>3, EqualShareBounds
<1>5. threads - no = threads /\ 1..no = {}
  BY <1>1
<1> QED BY <1>2, <1>3, <1>4, <1>5 DEF BalanceInv

\* Whatever the list and the number of threads, no worker gets more 7z data
\* than an equal share and two ranges on top.
THEOREM BalancedLoads == Spec => []LoadIsBalanced
<1>1. LoopInv /\ BalanceInv => LoadIsBalanced
  <2> SUFFICES ASSUME LoopInv, BalanceInv, ~split.isAverage, NEW k \in 1..no
               PROVE  Load(sublists[k]) * threads
                        <= SevenZipScore(list) + 2 * threads * HeaviestRange
    BY DEF LoadIsBalanced
  <2>1. IsBalanced(Load(sublists[k]), EqualShare(SevenZipScore(list), threads), HeaviestRange)
    BY DEF BalanceInv
  <2>2. /\ SevenZipScore(list) \in Nat /\ HeaviestRange \in Nat /\ threads \in Nat \ {0}
    BY ListIsPlan, HeaviestIsLargest DEF LoopInv
  <2> QED BY <2>1, <2>2, BalancedLoad
<1>2. Init => LoopInv /\ SublistsTile /\ BalanceInv
  BY LoopInit, BalanceInit
<1>3. LoopInv /\ SublistsTile /\ BalanceInv /\ [Next]_vars => (LoopInv /\ SublistsTile /\ BalanceInv)'
  BY LoopStep, BalanceStep
<1> QED BY <1>1, <1>2, <1>3, PTL DEF Spec

=============================================================================
