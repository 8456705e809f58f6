----------------------------- MODULE SplitLoop -----------------------------
(***************************************************************************)
(* The loop of MThreadApply.deltaApply as MTlistSplit sees it: getSubLis   *)
(* is called for no = 0, 1, ... until every thread has its sublist or one  *)
(* is refused.  Only this dialogue, so that longer lists and more threads  *)
(* fit than in MThreadApply.                                               *)
(***************************************************************************)
EXTENDS ListSplit, FiniteSets

CONSTANTS Lists,       \* recompression plans; only strategy and length matter
          ThreadArgs   \* values of the threadNum argument

ASSUME SplitAssumption ==
  /\ ThreadArgs \subseteq Nat \ {0, 1}
  /\ \A list \in Lists :
       /\ list \in Seq([params : [strategy : 0..7], length : Nat])
       /\ list # <<>>

VARIABLES list, threads, no, split, sublists, outcome

vars == <<list, threads, no, split, sublists, outcome>>

\* MThreadApply: the lesser of the argument and the length of the list.
ThreadCount(arg, l) == IF arg <= Len(l) THEN arg ELSE Len(l)

Init == /\ list \in Lists
        /\ \E arg \in ThreadArgs : threads = ThreadCount(arg, list)
        /\ no = 0
        /\ split = NewSplit(list)
        /\ sublists = <<>>
        /\ outcome = "splitting"

Sub == GetSubList(list, threads, no, split)

NextSubList == /\ outcome = "splitting" /\ no < threads
               /\ ~Rejected(list, Sub)
               /\ sublists' = Append(sublists, [from |-> Sub.from, to |-> Sub.to])
               /\ split' = Sub.split
               /\ no' = no + 1
               /\ outcome' = IF no' = threads THEN "split" ELSE outcome
               /\ UNCHANGED <<list, threads>>

Refuse == /\ outcome = "splitting" /\ no < threads
          /\ Rejected(list, Sub)
          /\ outcome' = "refused"
          /\ UNCHANGED <<list, threads, no, split, sublists>>

Terminated == outcome # "splitting" /\ UNCHANGED vars

Next == NextSubList \/ Refuse \/ Terminated

Spec == Init /\ [][Next]_vars

-----------------------------------------------------------------------------
\* The sublists handed out tile the list from its start, and all of it once
\* every thread has one: no range is lost or given to two workers.
SublistsTile ==
  /\ \A k \in 1..no : sublists[k].from = IF k = 1 THEN 0 ELSE sublists[k - 1].to
  /\ outcome = "split" => sublists[no].to = Len(list)

\* With no 7z range, as many ranges as the square of the number of threads
\* are enough for getSubLis to serve every thread.
EnoughRangesNeverRefused ==
  split.isAverage /\ Len(list) >= threads * threads => outcome # "refused"

Load(sub) == SevenZipPrefix(list)[sub.to] - SevenZipPrefix(list)[sub.from]

Weights == {SevenZipWeight(list, i) : i \in 0..(Len(list) - 1)}

HeaviestRange == CHOOSE h \in Weights : \A weight \in Weights : weight <= h

\* The list is "distributed by the amount of 7z": no worker has more than an
\* equal share and two ranges on top, although the score of a range taken in
\* addition is never subtracted.
LoadIsBalanced ==
  ~split.isAverage =>
    \A k \in 1..no : Load(sublists[k]) * threads
                       <= SevenZipScore(list) + 2 * threads * HeaviestRange

=============================================================================
