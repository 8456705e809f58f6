----------------------------- MODULE ListSplit -----------------------------
(***************************************************************************)
(* MTlistSplit: how the recompression plan is divided between the workers. *)
(* Positions in the list are Java's, from 0; a sublist is the half-open    *)
(* interval [from, to) handed to List.subList.                             *)
(***************************************************************************)
EXTENDS Integers, Sequences

Strategy7z == 7

\* What element i of the list adds to the 7z score.
SevenZipWeight(list, i) ==
  IF list[i + 1].params.strategy = Strategy7z THEN list[i + 1].length ELSE 0

\* Weight of the first k elements.
SevenZipPrefix(list) ==
  LET sum[k \in 0..Len(list)] ==
        IF k = 0 THEN 0 ELSE sum[k - 1] + SevenZipWeight(list, k - 1)
  IN sum

SevenZipScore(list) == SevenZipPrefix(list)[Len(list)]

\* The constructor; with no thread its average division divides by zero.
NewSplit(list) ==
  [isAverage |-> SevenZipScore(list) = 0,
   score |-> SevenZipScore(list), haveSplitPos |-> 0]

ConstructorThrows(list, threads) == SevenZipScore(list) = 0 /\ threads = 0

\* Mutant of AverageSubLen: one range too many for each thread.
AverageSubLenPlusOne(list, threads) == Len(list) \div threads + 2

AverageSubLen(list, threads) == Len(list) \div threads + 1

\* The positions at which the accumulated score meets the worker's share.
ShareMet(list, have, need) ==
  LET sum == SevenZipPrefix(list)
  IN {i \in have..(Len(list) - 1) : sum[i + 1] - sum[have] >= need}

\* Mutant of AverageSubList: the end of a sublist is taken to be included.
AverageSubListInclusive(list, threads, no, split) ==
  LET sub == AverageSubLen(list, threads)
  IN [from |-> no * sub,
      to |-> IF no = threads - 1 THEN Len(list) ELSE (no + 1) * sub - 1,
      split |-> split]

\* Mutant of Share: what is left is divided among one thread too few.
ShareOfOneLess(threads, no, split) == split.score \div (threads - 1 - no)

Share(threads, no, split) == split.score \div (threads - no)

ScoreOf(list, from, to) == SevenZipPrefix(list)[to] - SevenZipPrefix(list)[from]

(***************************************************************************)
(* getSubLis(no).  With a 7z score each worker takes elements until its    *)
(* share of what is left is met, and one more when that was the first one; *)
(* the score of that extra element is not taken off.                       *)
(***************************************************************************)
AverageSubList(list, threads, no, split) ==
  LET sub == AverageSubLen(list, threads)
  IN [from |-> no * sub,
      to |-> IF no = threads - 1 THEN Len(list) ELSE (no + 1) * sub,
      split |-> split]

WeightedSubList(list, threads, no, split) ==
  LET have == split.haveSplitPos
      met == ShareMet(list, have, Share(threads, no, split))
      first == CHOOSE i \in met : \A j \in met : i <= j
      reached == IF met = {} THEN 0 ELSE first + 1
      endPos == IF reached = have + 1 THEN reached + 1 ELSE reached
  IN IF no = threads - 1
     THEN [from |-> have, to |-> Len(list), split |-> split]
     ELSE [from |-> have, to |-> endPos,
           split |-> [split EXCEPT !.haveSplitPos = endPos,
                                   !.score = IF met = {} THEN @
                                             ELSE @ - ScoreOf(list, have, reached)]]

GetSubList(list, threads, no, split) ==
  IF split.isAverage THEN AverageSubList(list, threads, no, split)
                     ELSE WeightedSubList(list, threads, no, split)

\* subList rejects the interval, or get(size - 1) an empty sublist.
Rejected(list, sub) ==
  ~(sub.to \in 1..Len(list) /\ sub.from \in 0..(sub.to - 1))

=============================================================================
