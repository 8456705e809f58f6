------------------------- MODULE MThreadApplyProofs -------------------------
(***************************************************************************)
(* Proofs about MThreadApply, for every plan, number of threads and size   *)
(* of the blob, and with every fault.                                      *)
(***************************************************************************)
EXTENDS MThreadApply, PlanLemmas

-----------------------------------------------------------------------------
(***************************************************************************)
(* The hand-over between the main thread and the workers.  The invariant   *)
(* says which workers have been started in each phase of the main thread,  *)
(* and what the count of the latch means.                                  *)
(***************************************************************************)
ControlTypes ==
  /\ plan \in Seq(Ranges)
  /\ threadNum \in 0..MaxThreads
  /\ pc \in {"diff", "split", "start", "merge", "returned", "threw"}
  /\ no \in Nat \ {0}
  /\ latch \in Nat
  /\ wpc \in [Workers -> {"new", "open", "read", "write", "done", "dead"}]

Phases ==
  /\ pc \in {"diff", "split"} => no = 1 /\ \A w \in Workers : wpc[w] = "new"
  /\ pc = "start" => /\ no <= threadNum + 1
                     /\ \A w \in Workers : wpc[w] = "new" <=> no <= w
  /\ pc \in {"merge", "returned"} =>
       \A w \in Workers : wpc[w] = IF w <= threadNum THEN "done" ELSE "new"

Unfinished == {w \in 1..threadNum : wpc[w] # "done"}

ControlInv == ControlTypes /\ Phases /\ LatchCountsUnfinished

\* The invariant holds when deltaApply is entered.
LEMMA ControlInit == Init => ControlInv
<1> SUFFICES ASSUME Init PROVE ControlInv
  OBVIOUS
<1> USE MTAssumption DEF Init
<1>1. ControlTypes
  BY DEF ControlTypes, Workers
<1>2. Phases /\ LatchCountsUnfinished
  BY DEF Phases, LatchCountsUnfinished
<1> QED BY <1>1, <1>2 DEF ControlInv

\* The set of unfinished workers is finite, and empty when it counts zero.
LEMMA UnfinishedFinite ==
  ASSUME threadNum \in Nat
  PROVE  /\ IsFiniteSet(Unfinished)
         /\ Cardinality(Unfinished) \in Nat
         /\ Cardinality(Unfinished) = 0 <=> Unfinished = {}
<1>1. IsFiniteSet(1..threadNum)
  BY FS_Interval
<1>2. Unfinished \in SUBSET (1..threadNum)
  BY DEF Unfinished
<1>3. IsFiniteSet(Unfinished)
  BY <1>1, <1>2, FS_Subset
<1> QED BY <1>3, FS_CardinalityType, FS_EmptySet

\* A step of the main thread before the latch exists keeps the invariant.
LEMMA ControlBefore == ControlInv /\ (RunHpatchz \/ SplitPlan) => ControlInv'
<1> USE DEF mainVars, workerVars
<1>1. ASSUME ControlInv, RunHpatchz PROVE ControlInv'
  BY <1>1 DEF ControlInv, ControlTypes, Phases, LatchCountsUnfinished, RunHpatchz
<1>2. ASSUME ControlInv, SplitPlan PROVE ControlInv'
  <2> DEFINE threads == Lesser(threadNum, Len(plan))
  <2> SUFFICES ASSUME TRUE PROVE ControlInv'
    OBVIOUS
  <2>1. /\ threadNum \in Nat /\ Len(plan) \in Nat /\ MaxThreads \in Nat
        /\ threads \in Nat /\ threads <= threadNum
    BY <1>2, MTAssumption DEF ControlInv, ControlTypes, Lesser
  <2>2. /\ threadNum' = threads /\ no = 1 /\ UNCHANGED <<plan, no, wpc>>
        /\ \A w \in Workers : wpc[w] = "new"
        /\ latch' \in Nat
        /\ pc' = "threw" \/ (pc' = "start" /\ latch' = threads)
    BY <1>2, <2>1 DEF ControlInv, ControlTypes, Phases, SplitPlan
  <2>3. ControlTypes'
    BY <1>2, <2>1, <2>2 DEF ControlInv, ControlTypes
  <2>4. Phases'
    BY <2>1, <2>2 DEF Phases, Workers
  <2>5. LatchCountsUnfinished'
    <3>1. CASE pc' = "threw"
      BY <3>1 DEF LatchCountsUnfinished
    <3>2. CASE pc' = "start"
      <4>1. {w \in 1..threads : wpc'[w] # "done"} = 1..threads
        BY <2>1, <2>2, <1>2, MTAssumption DEF ControlInv, ControlTypes, Workers
      <4>2. Cardinality(1..threads) = threads
        BY <2>1, FS_Interval
      <4> QED BY <3>2, <4>1, <4>2, <2>2 DEF LatchCountsUnfinished
    <3> QED BY <3>1, <3>2, <2>2
  <2> QED BY <2>3, <2>4, <2>5 DEF ControlInv
<1> QED BY <1>1, <1>2

\* A step that changes neither the number of workers nor which of them have
\* finished leaves the set of unfinished workers as it is.
LEMMA SameUnfinished ==
  ASSUME threadNum' = threadNum,
         \A w \in 1..threadNum : wpc'[w] = "done" <=> wpc[w] = "done"
  PROVE  Unfinished' = Unfinished
  BY DEF Unfinished

\* Starting a worker, or not being able to, keeps the invariant.
LEMMA ControlStart ==
  ControlInv /\ (StartWorker \/ RejectSubList) => ControlInv'
<1> USE DEF mainVars, workerVars
<1>1. ASSUME ControlInv, StartWorker PROVE ControlInv'
  <2>1. /\ pc = "start" /\ no <= threadNum
        /\ wpc' = [wpc EXCEPT ![no] = "open"] /\ no' = no + 1
        /\ UNCHANGED <<plan, threadNum, pc, latch>>
    BY <1>1 DEF StartWorker
  <2>2. /\ no \in Workers /\ no \in Nat /\ threadNum \in Nat
        /\ \A w \in Workers : w \in Nat
        /\ \A w \in 1..threadNum : w \in Workers
    BY <1>1, <2>1, MTAssumption DEF ControlInv, ControlTypes, Workers
  <2>3. ControlTypes'
    BY <1>1, <2>1, <2>2 DEF ControlInv, ControlTypes
  <2>4. Phases'
    BY <1>1, <2>1, <2>2 DEF ControlInv, ControlTypes, Phases
  <2>5. wpc[no] = "new"
    BY <1>1, <2>1, <2>2 DEF ControlInv, Phases
  <2>6. Unfinished' = Unfinished
    <3>1. \A w \in 1..threadNum : wpc'[w] = "done" <=> wpc[w] = "done"
      BY <1>1, <2>1, <2>2, <2>5 DEF ControlInv, ControlTypes
    <3> QED BY <2>1, <3>1, SameUnfinished
  <2>7. LatchCountsUnfinished'
    BY <1>1, <2>1, <2>6 DEF ControlInv, LatchCountsUnfinished, Unfinished
  <2> QED BY <2>3, <2>4, <2>7 DEF ControlInv
<1>2. ASSUME ControlInv, RejectSubList PROVE ControlInv'
  BY <1>2 DEF ControlInv, ControlTypes, Phases, LatchCountsUnfinished, RejectSubList
<1> QED BY <1>1, <1>2

\* The latch is at zero: every worker has been started and has finished.
LEMMA ControlAwait == ControlInv /\ Await => ControlInv'
<1> SUFFICES ASSUME ControlInv, Await PROVE ControlInv'
  OBVIOUS
<1> USE DEF mainVars, workerVars
<1>1. /\ pc = "start" /\ no > threadNum /\ latch = 0
      /\ pc' = "merge" /\ no' = 1 /\ UNCHANGED <<plan, threadNum, latch, wpc>>
  BY DEF Await
<1>2. threadNum \in Nat
  BY MTAssumption DEF ControlInv, ControlTypes
<1>3. Unfinished = {}
  BY <1>1, <1>2, UnfinishedFinite DEF ControlInv, LatchCountsUnfinished, Unfinished
<1>4. \A w \in Workers : wpc[w] = IF w <= threadNum THEN "done" ELSE "new"
  <2> SUFFICES ASSUME NEW w \in Workers
               PROVE  wpc[w] = IF w <= threadNum THEN "done" ELSE "new"
    OBVIOUS
  <2>1. w \in Nat \ {0}
    BY MTAssumption DEF Workers
  <2>2. CASE w <= threadNum
    BY <1>2, <1>3, <2>1, <2>2 DEF Unfinished
  <2>3. CASE ~(w <= threadNum)
    BY <1>1, <1>2, <2>1, <2>3 DEF ControlInv, ControlTypes, Phases
  <2> QED BY <2>2, <2>3
<1>5. ControlTypes' /\ Phases'
  BY <1>1, <1>4 DEF ControlInv, ControlTypes, Phases
<1>6. LatchCountsUnfinished'
  BY <1>1 DEF ControlInv, LatchCountsUnfinished
<1> QED BY <1>5, <1>6 DEF ControlInv

\* Merging changes neither the workers nor the latch.
LEMMA ControlMerge == ControlInv /\ (MergeFile \/ Return) => ControlInv'
<1> SUFFICES ASSUME ControlInv, MergeFile \/ Return PROVE ControlInv'
  OBVIOUS
<1>1. /\ pc = "merge" /\ pc' \in {"merge", "returned"}
      /\ no' \in Nat \ {0}
      /\ UNCHANGED <<plan, threadNum, latch, wpc>>
  BY DEF ControlInv, ControlTypes, MergeFile, Return, mainVars, workerVars
<1>2. ControlTypes' /\ Phases'
  BY <1>1 DEF ControlInv, ControlTypes, Phases
<1>3. LatchCountsUnfinished'
  BY <1>1 DEF ControlInv, LatchCountsUnfinished
<1> QED BY <1>2, <1>3 DEF ControlInv

\* A worker that moves on without finishing is running, and stays unfinished.
LEMMA ControlRunning ==
  ASSUME ControlInv, NEW w \in Workers, UNCHANGED mainVars,
         wpc[w] \in {"open", "read", "write"},
         NEW next \in {"open", "read", "write", "dead"},
         wpc' = [wpc EXCEPT ![w] = next]
  PROVE  ControlInv'
<1> USE DEF mainVars
<1>1. \A v \in Workers :
         /\ wpc'[v] = "done" <=> wpc[v] = "done"
         /\ wpc'[v] = "new" <=> wpc[v] = "new"
  BY DEF ControlInv, ControlTypes
<1>2. pc \notin {"diff", "split"}
  BY DEF ControlInv, Phases
<1>3. pc \notin {"merge", "returned"}
  BY DEF ControlInv, Phases
<1>4. ControlTypes' /\ Phases'
  BY <1>1, <1>2, <1>3 DEF ControlInv, ControlTypes, Phases
<1>5. Unfinished' = Unfinished
  BY <1>1, SameUnfinished, MTAssumption DEF ControlInv, ControlTypes, Workers
<1>6. LatchCountsUnfinished'
  BY <1>5 DEF ControlInv, LatchCountsUnfinished, Unfinished
<1> QED BY <1>4, <1>6 DEF ControlInv

\* A worker that counts the latch down leaves the set of unfinished ones.
LEMMA ControlCountDown ==
  ASSUME ControlInv, NEW w \in Workers, CountDown(w)
  PROVE  ControlInv'
<1>1. /\ wpc[w] = "read" /\ wpc' = [wpc EXCEPT ![w] = "done"]
      /\ latch' = (IF latch > 0 THEN latch - 1 ELSE latch)
      /\ UNCHANGED <<plan, threadNum, pc, no>>
  BY DEF CountDown
<1>2. pc \in {"start", "threw"}
  BY <1>1 DEF ControlInv, ControlTypes, Phases
<1>3. ControlTypes'
  BY <1>1 DEF ControlInv, ControlTypes
<1>4. Phases'
  BY <1>1, <1>2 DEF ControlInv, ControlTypes, Phases
<1>5. LatchCountsUnfinished'
  <2>1. CASE pc = "threw"
    BY <1>1, <2>1 DEF LatchCountsUnfinished
  <2>2. CASE pc = "start"
    <3>1. threadNum \in Nat /\ latch = Cardinality(Unfinished)
      BY <2>2, MTAssumption
      DEF ControlInv, ControlTypes, LatchCountsUnfinished, Unfinished
    <3>2. w \in Unfinished
      BY <1>1, <2>2, <3>1, MTAssumption
      DEF ControlInv, ControlTypes, Phases, Unfinished, Workers
    <3>3. Unfinished' = Unfinished \ {w}
      BY <1>1, <3>1, MTAssumption DEF ControlInv, ControlTypes, Unfinished, Workers
    <3>4. Cardinality(Unfinished \ {w}) = Cardinality(Unfinished) - 1
      BY <3>1, <3>2, UnfinishedFinite, FS_RemoveElement
    <3>5. Cardinality(Unfinished) > 0
      BY <3>1, <3>2, UnfinishedFinite
    <3>6. latch' = Cardinality(Unfinished)'
      BY <1>1, <3>1, <3>3, <3>4, <3>5
    <3> QED BY <3>6 DEF LatchCountsUnfinished, Unfinished
  <2> QED BY <1>2, <2>1, <2>2
<1> QED BY <1>3, <1>4, <1>5 DEF ControlInv

\* Every step keeps the invariant.
LEMMA ControlStep == ControlInv /\ [Next]_vars => ControlInv'
<1> SUFFICES ASSUME ControlInv, [Next]_vars PROVE ControlInv'
  OBVIOUS
<1>1. CASE MainStep
  BY <1>1, ControlBefore, ControlStart, ControlAwait, ControlMerge DEF MainStep
<1>2. ASSUME NEW w \in Workers, WorkerStep(w) PROVE ControlInv'
  <2>1. CASE OpenFile(w)
    BY <2>1, ControlRunning DEF OpenFile
  <2>2. CASE ReadBlock(w)
    BY <2>2, ControlRunning DEF ReadBlock
  <2>3. CASE Write(w)
    BY <2>3, ControlRunning DEF Write
  <2>4. CASE CountDown(w)
    BY <2>4, ControlCountDown
  <2> QED BY <1>2, <2>1, <2>2, <2>3, <2>4 DEF WorkerStep
<1>3. ASSUME NEW w \in Workers, Fault(w) PROVE ControlInv'
  <2>1. CASE SevenZipFails(w)
    BY <2>1, ControlRunning DEF SevenZipFails
  <2>2. CASE IOFails(w)
    BY <2>2, ControlRunning DEF IOFails
  <2> QED BY <1>3, <2>1, <2>2 DEF Fault
<1>4. CASE UNCHANGED vars
  BY <1>4 DEF vars, mainVars, workerVars, ControlInv, ControlTypes, Phases,
              LatchCountsUnfinished
<1> QED BY <1>1, <1>2, <1>3, <1>4 DEF Next, Terminated

\* The control part of the invariant holds in every state.
LEMMA ControlInvariant == Spec => []ControlInv
  BY ControlInit, ControlStep, PTL DEF Spec

\* The count of the latch is, at all times between its creation and the end
\* of the merge, the number of workers that have not finished.
THEOREM LatchCounts == Spec => []LatchCountsUnfinished
  BY ControlInvariant, PTL DEF ControlInv

\* The main thread merges only when every worker has finished its file,
\* however many workers there are and whatever happens to them.
THEOREM MergesCompleteFiles == Spec => []MergeOnlyCompleteFiles
<1>1. ControlInv => MergeOnlyCompleteFiles
  <2> SUFFICES ASSUME ControlInv, pc \in {"merge", "returned"},
                      NEW w \in 1..threadNum
               PROVE  wpc[w] = "done"
    BY DEF MergeOnlyCompleteFiles
  <2>1. w \in Workers /\ w <= threadNum
    BY MTAssumption DEF ControlInv, ControlTypes, Workers
  <2> QED BY <2>1 DEF ControlInv, Phases
<1> QED BY <1>1, ControlInvariant, PTL

-----------------------------------------------------------------------------
(***************************************************************************)
(* The streams of the workers.  Every stream that has been given its       *)
(* ranges is consistent; the next one to be made will start where the      *)
(* range before its first one ends.                                        *)
(***************************************************************************)
WorkerTypes ==
  /\ chunk \in [Workers -> [start : Nat, processNum : Int]]
  /\ haveProcess \in [Workers -> 0..BlobLen]
  /\ buffer \in [Workers -> Seq(Nat)]
  /\ stream \in [Workers -> Stream]

\* Two streams that differ in their output only.
SameButOut(t, s) ==
  /\ t.ranges = s.ranges /\ t.chunkOffset = s.chunkOffset /\ t.written = s.written
  /\ t.deflater = s.deflater /\ t.last = s.last
  /\ t.deflating = s.deflating /\ t.seven = s.seven

StreamsInv ==
  /\ WorkerTypes
  /\ plan \in Plans
  /\ lastProcessPos \in Nat /\ blobLen \in 0..BlobLen
  /\ IsSplit(split)
  /\ pc \in {"diff", "split"} => lastProcessPos = 0
  /\ pc = "start" /\ no <= threadNum =>
       lastProcessPos = StartOfGap(plan, NextFrom(plan, threadNum, no - 1, split) + 1)
  /\ \A w \in Workers :
       IF wpc[w] = "new"
       THEN SameButOut(stream[w], NewStream(<<>>, 0, <<>>))
       ELSE Consistent(stream[w])

\* What is in the file of an earlier run has no bearing on the stream.
LEMMA OutIsFree ==
  ASSUME NEW s, Consistent(s), NEW t \in Stream, SameButOut(t, s)
  PROVE  Consistent(t)
<1>1. Position(t) = Position(s) /\ Compressing(t) = Compressing(s)
  BY DEF SameButOut, Position, Compressing
<1>2. RangesInOrder(t) /\ WithinRange(t) /\ RightDeflater(t)
  BY <1>1 DEF SameButOut, Consistent, RangesInOrder, WithinRange, RightDeflater
<1> QED BY <1>2 DEF Consistent

\* The stream made for an interval of the plan, starting where the range
\* before the interval ends.
LEMMA SublistStream ==
  ASSUME NEW p \in Plans, NEW from \in Nat, NEW to \in 1..Len(p), from < to,
         NEW offset \in Nat, offset = StartOfGap(p, from + 1),
         NEW t \in Stream,
         SameButOut(t, NewStream(SubSeq(p, from + 1, to), offset, <<>>))
  PROVE  Consistent(t)
<1> DEFINE ranges == SubSeq(p, from + 1, to)
<1>1. p \in Seq(Ranges) /\ InOrder(p) /\ Len(p) \in Nat
  BY MTAssumption
<1>2. /\ ranges \in Seq(Ranges) /\ Len(ranges) = to - from
      /\ \A k \in 1..(to - from) : ranges[k] = p[from + k]
  BY <1>1, SubSeqProperties
<1> HIDE DEF ranges
<1>3. \A k \in 2..Len(ranges) : End(ranges[k - 1]) <= ranges[k].offset
  <2> SUFFICES ASSUME NEW k \in 2..Len(ranges)
               PROVE  End(ranges[k - 1]) <= ranges[k].offset
    OBVIOUS
  <2>1. ranges[k] = p[from + k] /\ ranges[k - 1] = p[from + k - 1]
    BY <1>2
  <2>2. from + k \in 2..Len(p)
    BY <1>1, <1>2
  <2> QED BY <1>1, <2>1, <2>2, InOrderRanges
<1>4. ranges # <<>> => offset <= ranges[1].offset
  <2>1. ranges[1] = p[from + 1] /\ from + 1 \in 1..Len(p)
    BY <1>1, <1>2
  <2> QED BY <1>1, <2>1 DEF InOrder
<1>5. Consistent(NewStream(ranges, offset, <<>>))
  BY <1>2, <1>3, <1>4, EmptySeq, NewStreamConsistent
<1> QED BY <1>5, OutIsFree DEF ranges

\* Before splitDeltaFile no worker has a stream.
LEMMA StreamsInit == Init => StreamsInv
<1> SUFFICES ASSUME Init PROVE StreamsInv
  OBVIOUS
<1> DEFINE blank == [NewStream(<<>>, 0, <<>>) EXCEPT !.out = <<Stale>>]
<1>1. <<Stale>> \in Seq(Items)
  BY MTAssumption
<1>2. blank \in Stream
  BY <1>1, EmptySeq DEF NewStream, Stream
<1>3. WorkerTypes
  BY <1>2, MTAssumption, EmptySeq DEF Init, WorkerTypes
<1>4. IsSplit(split)
  BY DEF Init, NewSplit, IsSplit
<1>5. SameButOut(blank, NewStream(<<>>, 0, <<>>))
  BY DEF SameButOut, NewStream
<1> QED BY <1>3, <1>4, <1>5, MTAssumption DEF Init, StreamsInv

\* Until the workers are started nothing of theirs changes.
LEMMA StreamsBefore ==
  ControlInv /\ StreamsInv /\ (RunHpatchz \/ SplitPlan) => StreamsInv'
<1> SUFFICES ASSUME ControlInv, StreamsInv PROVE RunHpatchz \/ SplitPlan => StreamsInv'
  OBVIOUS
<1> USE DEF mainVars, workerVars
<1>1. CASE RunHpatchz
  BY <1>1, MTAssumption DEF RunHpatchz, StreamsInv, WorkerTypes
<1>2. CASE SplitPlan
  <2>1. IsSplit(split')
    BY <1>2 DEF SplitPlan, NewSplit, IsSplit, StreamsInv
  <2>2. lastProcessPos' = 0 /\ no' = 1
    BY <1>2 DEF SplitPlan, StreamsInv, ControlInv, Phases
  <2>3. ASSUME pc' = "start", no' <= threadNum'
        PROVE  lastProcessPos' = StartOfGap(plan, NextFrom(plan, threadNum, no - 1, split) + 1)'
    <3>1. threadNum' \in Nat \ {0} /\ Len(plan) \in Nat
      BY <1>2, <2>2, <2>3, MTAssumption
      DEF SplitPlan, ControlInv, ControlTypes, Lesser
    <3>2. split' = NewSplit(plan) /\ plan' = plan
      BY <1>2, <2>3 DEF SplitPlan
    <3>3. AverageSubLen(plan, threadNum') \in Nat
      BY <3>1 DEF AverageSubLen
    <3>4. NextFrom(plan, threadNum', no' - 1, split') = 0
      BY <2>2, <3>2, <3>3 DEF NextFrom, NewSplit
    <3> QED BY <2>2, <3>2, <3>4 DEF StartOfGap
  <2>4. WorkerTypes' /\ UNCHANGED <<plan, blobLen, stream, wpc, lastProcessPos>>
    BY <1>2 DEF SplitPlan, StreamsInv, WorkerTypes
  <2>5. pc' \notin {"diff", "split"}
    BY <1>2 DEF SplitPlan
  <2> QED BY <2>1, <2>2, <2>3, <2>4, <2>5 DEF StreamsInv
<1> QED BY <1>1, <1>2

\* A worker is started: its stream begins where the ranges before its own
\* end, and so will the next one.
LEMMA StreamsStart ==
  ASSUME ControlInv, StreamsInv, StartWorker
  PROVE  StreamsInv'
<1> DEFINE sub == GetSubList(plan, threadNum, no - 1, split)
<1>1. /\ no \in Nat \ {0} /\ threadNum \in Nat /\ no <= threadNum
      /\ no \in Workers /\ pc = "start"
  BY MTAssumption DEF ControlInv, ControlTypes, Workers, StartWorker
<1>2. plan \in Seq(Ranges) /\ Len(plan) \in Nat
  BY DEF ControlInv, ControlTypes
<1>3. /\ sub.from = NextFrom(plan, threadNum, no - 1, split)
      /\ no - 1 < threadNum - 1 =>
           sub.to = NextFrom(plan, threadNum, no, sub.split)
      /\ IsSplit(sub.split)
  <2> DEFINE i == no - 1
  <2>1. threadNum \in Int /\ i \in Int /\ i < threadNum /\ i + 1 = no
    BY <1>1
  <2>2. IsSplit(split)
    BY DEF StreamsInv
  <2> HIDE DEF i
  <2>3. LET q == GetSubList(plan, threadNum, i, split)
        IN /\ q.from = NextFrom(plan, threadNum, i, split)
           /\ i = threadNum - 1 => q.to = Len(plan)
           /\ i < threadNum - 1 => q.to = NextFrom(plan, threadNum, i + 1, q.split)
           /\ IsSplit(q.split)
    BY <2>1, <2>2, SubListFollows, Zenon
  <2> QED BY <2>1, <2>3, Zenon DEF i
<1>4. sub.to \in 1..Len(plan) /\ sub.from \in Nat /\ sub.from < sub.to
  BY <1>2 DEF StartWorker, Rejected
<1>5. /\ split' = sub.split
      /\ chunk' = [chunk EXCEPT ![no] =
                     [start |-> lastProcessPos,
                      processNum |-> ChunkEnd(End(plan[sub.to])) - lastProcessPos]]
      /\ stream' = [stream EXCEPT ![no].ranges = SubSeq(plan, sub.from + 1, sub.to),
                                  ![no].chunkOffset = lastProcessPos]
      /\ wpc' = [wpc EXCEPT ![no] = "open"]
      /\ lastProcessPos' = End(plan[sub.to])
      /\ no' = no + 1
      /\ UNCHANGED <<plan, threadNum, pc, blobLen, haveProcess, buffer>>
  BY DEF StartWorker
<1> HIDE DEF sub
<1>6. End(plan[sub.to]) \in Nat
  <2>1. plan[sub.to] \in Ranges
    BY <1>2, <1>4
  <2> QED BY <2>1 DEF End, Ranges
<1>7. ChunkEnd(End(plan[sub.to])) - lastProcessPos \in Int
  BY <1>6, MTAssumption DEF ChunkEnd, StreamsInv
<1>8. lastProcessPos = StartOfGap(plan, sub.from + 1)
  BY <1>1, <1>3 DEF StreamsInv
<1>9. Consistent(stream'[no])
  <2> DEFINE ranges == SubSeq(plan, sub.from + 1, sub.to)
  <2>1. stream[no] \in Stream /\ SameButOut(stream[no], NewStream(<<>>, 0, <<>>))
    <3>1. wpc[no] = "new"
      BY <1>1 DEF ControlInv, Phases
    <3> QED BY <1>1, <3>1 DEF StreamsInv, WorkerTypes
  <2>2. ranges \in Seq(Ranges)
    BY <1>2, <1>4, SubSeqProperties
  <2>3. plan \in Plans /\ lastProcessPos \in Nat
    BY DEF StreamsInv
  <2> HIDE DEF ranges
  <2>4. stream'[no] = [stream[no] EXCEPT !.ranges = ranges,
                                         !.chunkOffset = lastProcessPos]
    BY <1>1, <1>5 DEF StreamsInv, WorkerTypes, ranges
  <2>5. /\ stream'[no] \in Stream
        /\ SameButOut(stream'[no], NewStream(ranges, lastProcessPos, <<>>))
    BY <2>1, <2>2, <2>3, <2>4 DEF SameButOut, NewStream, Stream
  <2> QED BY <1>4, <1>8, <2>3, <2>5, SublistStream DEF ranges
<1>10. \A w \in Workers : w # no => stream'[w] = stream[w] /\ wpc'[w] = wpc[w]
  BY <1>5 DEF StreamsInv, WorkerTypes, ControlInv, ControlTypes
<1>11. wpc'[no] = "open"
  BY <1>1, <1>5 DEF ControlInv, ControlTypes
<1>12. WorkerTypes'
  <2>1. \A w \in Workers : stream'[w] \in Stream
    BY <1>9, <1>10 DEF StreamsInv, WorkerTypes, Consistent
  <2>2. stream' \in [Workers -> Stream]
    BY <1>5, <2>1 DEF StreamsInv, WorkerTypes
  <2>3. chunk' \in [Workers -> [start : Nat, processNum : Int]]
    BY <1>1, <1>5, <1>7 DEF StreamsInv, WorkerTypes
  <2> QED BY <1>5, <2>2, <2>3 DEF StreamsInv, WorkerTypes
<1>13. pc' = "start" /\ no' <= threadNum' =>
         lastProcessPos' =
           StartOfGap(plan', NextFrom(plan', threadNum', no' - 1, split') + 1)
  <2> SUFFICES ASSUME no' <= threadNum'
               PROVE  lastProcessPos' =
                        StartOfGap(plan', NextFrom(plan', threadNum', no' - 1, split') + 1)
    OBVIOUS
  <2>1. no - 1 < threadNum - 1 /\ no' - 1 = no
    BY <1>1, <1>5
  <2>2. NextFrom(plan', threadNum', no' - 1, split') = sub.to
    BY <1>3, <1>5, <2>1
  <2>3. StartOfGap(plan, sub.to + 1) = End(plan[sub.to])
    BY <1>4 DEF StartOfGap
  <2> QED BY <1>5, <2>2, <2>3
<1> QED BY <1>1, <1>3, <1>5, <1>6, <1>9, <1>10, <1>11, <1>12, <1>13 DEF StreamsInv

\* The main thread does nothing to a stream once the workers run.
LEMMA StreamsAfter ==
  StreamsInv /\ (RejectSubList \/ Await \/ MergeFile \/ Return) => StreamsInv'
<1> SUFFICES ASSUME StreamsInv, RejectSubList \/ Await \/ MergeFile \/ Return
             PROVE  StreamsInv'
  OBVIOUS
<1>1. /\ UNCHANGED <<plan, lastProcessPos, blobLen, split, wpc, chunk, haveProcess,
                     buffer, stream>>
      /\ pc' \notin {"diff", "split", "start"}
  BY DEF RejectSubList, Await, MergeFile, Return, mainVars, workerVars
<1> QED BY <1>1 DEF StreamsInv, WorkerTypes

\* A step of worker w, whose stream stays consistent.
LEMMA StreamsRunning ==
  ASSUME StreamsInv, NEW w \in Workers,
         UNCHANGED <<plan, threadNum, pc, no, lastProcessPos, blobLen, split, chunk>>,
         WorkerTypes', wpc[w] # "new", NEW next \in {"open", "read", "write", "done", "dead"},
         wpc \in [Workers -> {"new", "open", "read", "write", "done", "dead"}],
         wpc' = [wpc EXCEPT ![w] = next],
         \A v \in Workers \ {w} : stream'[v] = stream[v],
         Consistent(stream'[w])
  PROVE  StreamsInv'
<1>1. wpc'[w] = next /\ \A v \in Workers \ {w} : wpc'[v] = wpc[v]
  OBVIOUS
<1> QED BY <1>1 DEF StreamsInv

\* The least of three lengths is at most the second.
LEMMA LesserBounded ==
  ASSUME NEW a \in Int, NEW b \in Int, NEW c \in Int
  PROVE  /\ Lesser(Lesser(a, b), c) \in Int
         /\ Lesser(Lesser(a, b), c) <= b
  BY DEF Lesser

\* What a worker does keeps every stream consistent.
LEMMA StreamsWorker ==
  ASSUME ControlInv, StreamsInv, NEW w \in Workers, WorkerStep(w) \/ Fault(w)
  PROVE  StreamsInv'
<1> USE DEF mainVars
<1>1. /\ wpc \in [Workers -> {"new", "open", "read", "write", "done", "dead"}]
      /\ chunk[w] \in [start : Nat, processNum : Int] /\ haveProcess[w] \in 0..BlobLen
      /\ buffer[w] \in Seq(Nat) /\ stream[w] \in Stream
      /\ Null \notin Params /\ BlockSize \in Nat \ {0} /\ BlobLen \in Nat
      /\ blobLen \in 0..BlobLen
  BY MTAssumption DEF ControlInv, ControlTypes, StreamsInv, WorkerTypes
<1>2. wpc[w] # "new" => Consistent(stream[w])
  BY DEF StreamsInv
<1>3. CASE OpenFile(w)
  <2>1. Consistent(stream'[w]) /\ stream'[w] \in Stream
    <3>1. stream'[w] = [stream[w] EXCEPT !.out = <<>>]
      BY <1>3 DEF OpenFile, StreamsInv, WorkerTypes
    <3>2. stream'[w] \in Stream /\ SameButOut(stream'[w], stream[w])
      <4>1. stream[w] \in Stream /\ <<>> \in Seq(Items)
        BY <1>1, EmptySeq
      <4> QED BY <3>1, <4>1 DEF Stream, SameButOut
    <3>3. Consistent(stream[w])
      BY <1>2, <1>3 DEF OpenFile
    <3> QED BY <3>2, <3>3, OutIsFree
  <2>2. WorkerTypes'
    BY <1>3, <2>1 DEF OpenFile, StreamsInv, WorkerTypes
  <2> QED BY <1>1, <1>3, <2>1, <2>2, StreamsRunning DEF OpenFile, StreamsInv, WorkerTypes
<1>4. CASE ReadBlock(w)
  <2> DEFINE from == chunk[w].start + haveProcess[w]
  <2>1. /\ from \in Nat /\ BlockLen(w) \in Nat
        /\ haveProcess[w] + BlockLen(w) \in 0..BlobLen
    <3>1. chunk[w].start \in Nat /\ chunk[w].processNum \in Int /\ haveProcess[w] \in Nat
      BY <1>1
    <3>2. BlockLen(w) \in Int /\ BlockLen(w) <= blobLen - from
      <4> DEFINE left == blobLen - (chunk[w].start + haveProcess[w])
                 wanted == chunk[w].processNum - haveProcess[w]
      <4>1. BlockLen(w) = Lesser(Lesser(BlockSize, left), wanted)
        BY DEF BlockLen
      <4>2. BlockSize \in Int /\ blobLen \in Int
        BY <1>1
      <4>3. left \in Int /\ wanted \in Int /\ left = blobLen - from
        BY <3>1, <4>2
      <4> HIDE DEF left, wanted, from
      <4> QED BY <4>1, <4>2, <4>3, LesserBounded
    <3>3. BlockLen(w) > 0
      BY <1>4 DEF ReadBlock
    <3>4. blobLen \in Nat /\ BlobLen \in Nat /\ blobLen <= BlobLen
      BY <1>1
    <3> QED BY <3>1, <3>2, <3>3, <3>4
  <2>2. Bytes(from, from + BlockLen(w)) \in Seq(Nat)
    BY <2>1, BytesType
  <2>3. WorkerTypes'
    BY <1>4, <2>1, <2>2 DEF ReadBlock, StreamsInv, WorkerTypes
  <2> QED BY <1>1, <1>2, <1>4, <2>3, StreamsRunning DEF ReadBlock
<1>5. CASE Write(w)
  <2>1. Consistent(WriteChunk(stream[w], buffer[w]))
        /\ Unwritten(stream[w], buffer[w]) \in Seq(Nat)
    BY <1>1, <1>2, <1>5, WriteChunkConsistent, UnwrittenType DEF Write
  <2>2. stream'[w] = WriteChunk(stream[w], buffer[w])
        /\ \A v \in Workers \ {w} : stream'[v] = stream[v]
    BY <1>5 DEF Write, StreamsInv, WorkerTypes
  <2>3. WorkerTypes'
    BY <1>5, <2>1, <2>2 DEF Write, StreamsInv, WorkerTypes, Consistent
  <2> QED BY <1>1, <1>5, <2>1, <2>2, <2>3, StreamsRunning DEF Write
<1>6. CASE CountDown(w)
  <2>1. WorkerTypes'
    BY <1>6 DEF CountDown, StreamsInv, WorkerTypes
  <2> QED BY <1>1, <1>2, <1>6, <2>1, StreamsRunning DEF CountDown
<1>7. CASE SevenZipFails(w)
  <2>1. Consistent(Taken(stream[w], buffer[w]))
    BY <1>1, <1>2, <1>7, TakenConsistent DEF SevenZipFails
  <2>2. stream'[w] = Taken(stream[w], buffer[w])
        /\ \A v \in Workers \ {w} : stream'[v] = stream[v]
    BY <1>7 DEF SevenZipFails, AbandonRange, StreamsInv, WorkerTypes
  <2>3. WorkerTypes'
    BY <1>7, <2>1, <2>2 DEF SevenZipFails, StreamsInv, WorkerTypes, Consistent
  <2> QED BY <1>1, <1>7, <2>1, <2>2, <2>3, StreamsRunning DEF SevenZipFails
<1>8. CASE IOFails(w)
  <2>1. WorkerTypes'
    BY <1>8 DEF IOFails, StreamsInv, WorkerTypes
  <2> QED BY <1>1, <1>2, <1>8, <2>1, StreamsRunning DEF IOFails
<1> QED BY <1>3, <1>4, <1>5, <1>6, <1>7, <1>8 DEF WorkerStep, Fault

\* So does every step of apply.
LEMMA StreamsStep == ControlInv /\ StreamsInv /\ [Next]_vars => StreamsInv'
<1> SUFFICES ASSUME ControlInv, StreamsInv, [Next]_vars PROVE StreamsInv'
  OBVIOUS
<1>1. CASE MainStep
  BY <1>1, StreamsBefore, StreamsStart, StreamsAfter DEF MainStep
<1>2. ASSUME NEW w \in Workers, WorkerStep(w) \/ Fault(w) PROVE StreamsInv'
  BY <1>2, StreamsWorker
<1>3. CASE UNCHANGED vars
  BY <1>3 DEF vars, mainVars, workerVars, StreamsInv, WorkerTypes
<1> QED BY <1>1, <1>2, <1>3 DEF Next, Terminated

\* However the plan is divided and whatever fails, the stream of a worker
\* copies up to the start of its next range and compresses up to its end.
THEOREM NeverPast == Spec => []NeverPastRange
<1>1. StreamsInv => NeverPastRange
  BY DEF StreamsInv, NeverPastRange, Consistent
<1> QED BY <1>1, ControlInit, ControlStep, StreamsInit, StreamsStep, PTL DEF Spec
-----------------------------------------------------------------------------
(***************************************************************************)
(* What the workers write and the main thread merges.  The plan is tiled:  *)
(* worker w has the ranges after b[w - 1], up to b[w].  A worker's file    *)
(* is, after the recompression of the ranges before its own, that of the   *)
(* blob up to where its stream stands; so the files one after the other    *)
(* are the recompression of the whole blob.                                *)
(***************************************************************************)

\* The numbers of threads, the new archive and the workers not started yet.
MainInv ==
  /\ pc \in {"diff", "split"} => threadNum >= 2
  /\ pc \in {"start", "merge", "returned"} => threadNum >= 1
  /\ pc = "returned" => no > threadNum
  /\ pc \notin {"merge", "returned"} => newBlob = <<>>
  /\ \A w \in Workers : wpc[w] = "new" =>
       haveProcess[w] = 0 /\ stream[w].pending = <<>> /\ stream[w].spool = <<>>

\* A stream that was given the ranges after from, up to to, and no bytes.
AtStart(s, from, to) ==
  /\ s.ranges = SubSeq(plan, from + 1, to)
  /\ ~s.deflating /\ ~s.seven
  /\ s.pending = <<>> /\ s.spool = <<>>
  /\ Position(s) = StartOfGap(plan, from + 1)

\* Where the chunk of a worker ends whose last range is to.
EndOfChunk(w, to) == IF w = threadNum THEN blobLen ELSE End(plan[to])

\* Up to where a worker has read the blob.
ReadTo(w) == chunk[w].start + haveProcess[w]

\* What a worker with the ranges after from, up to to, has done.
WorkerInv(w, from, to) ==
  /\ chunk[w].start = StartOfGap(plan, from + 1)
  /\ chunk[w].processNum = EndOfChunk(w, to) - chunk[w].start
  /\ haveProcess[w] # 0 => ReadTo(w) <= EndOfChunk(w, to) /\ ReadTo(w) <= blobLen
  /\ wpc[w] = "open" => haveProcess[w] = 0 /\ AtStart(stream[w], from, to)
  /\ wpc[w] \in {"read", "write", "done"} =>
       OnPlan(stream[w], plan, RecompressedUpTo(plan), RecompressedUpTo(plan)[from], to)
  /\ wpc[w] \in {"read", "done"} => Position(stream[w]) = ReadTo(w)
  /\ wpc[w] = "write" => /\ Position(stream[w]) <= ReadTo(w)
                         /\ buffer[w] = Bytes(Position(stream[w]), ReadTo(w))
  /\ wpc[w] = "done" => blobLen <= ReadTo(w) \/ EndOfChunk(w, to) <= ReadTo(w)

\* The intervals of the workers tile the plan.
IsTiling(b) ==
  /\ b \in [0..MaxThreads -> Nat]
  /\ b[0] = 0
  /\ \A w \in Workers : wpc[w] # "new" => b[w - 1] < b[w] /\ b[w] <= Len(plan)
  /\ pc = "start" /\ no <= threadNum => b[no - 1] = NextFrom(plan, threadNum, no - 1, split)
  /\ (pc = "start" /\ no > threadNum) \/ pc \in {"merge", "returned"} =>
       b[threadNum] = Len(plan)

\* What is merged so far.
MergedInv(b) ==
  blobLen = BlobLen /\ pc \in {"merge", "returned"} =>
    newBlob = IF no <= threadNum THEN RecompressedUpTo(plan)[b[no - 1]]
                                 ELSE Recompressed(plan, BlobLen)

OutputOf(b) ==
  /\ IsTiling(b)
  /\ \A w \in Workers : wpc[w] # "new" => WorkerInv(w, b[w - 1], b[w])
  /\ MergedInv(b)

OutputInv == \E b : OutputOf(b)

\* Every range has bytes: one without, at the end of a worker's chunk, would
\* not be begun.
RangesHaveBytes == \A p \in Plans : \A k \in 1..Len(p) : p[k].length > 0

\* A plan without ranges has no 7z score.
LEMMA EmptyScore == SevenZipScore(<<>>) = 0
<1> DEFINE l == <<>>
           F(f) == [k \in 0..Len(l) |-> IF k = 0 THEN 0
                                        ELSE f[k - 1] + SevenZipWeight(l, k - 1)]
           h == [k \in 0..0 |-> 0]
           sum == SevenZipPrefix(l)
<1>1. Len(l) = 0
  BY EmptySeq
<1>2. h = F(h)
  BY <1>1
<1>3. sum = CHOOSE f : f = F(f)
  BY Zenon DEF SevenZipPrefix
<1>4. sum = F(sum)
  <2> HIDE DEF F, sum, h
  <2> QED BY <1>2, <1>3
<1>5. sum[0] = 0
  <2> HIDE DEF sum
  <2> QED BY <1>1, <1>4
<1> QED BY <1>1, <1>5 DEF SevenZipScore

\* The recompression of a plan is what its streams are measured against.
LEMMA PlanTask ==
  ASSUME NEW p \in Plans, NEW from \in 0..Len(p), NEW to \in 0..Len(p)
  PROVE  Task(p, RecompressedUpTo(p), RecompressedUpTo(p)[from], to)
<1>1. p \in Seq(Ranges) /\ InOrder(p)
  BY MTAssumption
<1>2. IsRecompression(RecompressedUpTo(p), p)
  BY <1>1, RecompressionExists
<1>3. RecompressedUpTo(p)[from] \in Seq(Items)
  BY <1>2 DEF IsRecompression
<1> QED BY <1>1, <1>2, <1>3 DEF Task

\* Before the workers are started there is nothing to show.
LEMMA MainInit == Init => MainInv /\ OutputInv
<1> SUFFICES ASSUME Init PROVE MainInv /\ OutputInv
  OBVIOUS
<1>1. /\ pc = "diff" /\ newBlob = <<>> /\ \A w \in Workers : wpc[w] = "new"
      /\ threadNum >= 2 /\ MaxThreads \in Nat
  BY MTAssumption DEF Init
<1>2. MainInv
  <2>1. ASSUME NEW w \in Workers
        PROVE  haveProcess[w] = 0 /\ stream[w].pending = <<>> /\ stream[w].spool = <<>>
    BY DEF Init, NewStream
  <2> QED BY <1>1, <2>1 DEF MainInv
<1> DEFINE b == [i \in 0..MaxThreads |-> 0]
<1>3. IsTiling(b)
  BY <1>1 DEF IsTiling
<1>4. OutputOf(b)
  <2> HIDE DEF b
  <2> QED BY <1>1, <1>3 DEF OutputOf, MergedInv
<1> QED BY <1>2, <1>4 DEF OutputInv
\* Steps of the main thread and of workers keep the simple part.
LEMMA MainKept == ControlInv /\ StreamsInv /\ MainInv /\ [Next]_vars => MainInv'
<1> SUFFICES ASSUME ControlInv, StreamsInv, MainInv, [Next]_vars PROVE MainInv'
  OBVIOUS
<1> USE DEF mainVars, workerVars
<1>1. CASE RunHpatchz \/ RejectSubList \/ Await \/ MergeFile \/ Return
  BY <1>1 DEF RunHpatchz, RejectSubList, Await, MergeFile, Return, MainInv
<1>2. CASE SplitPlan
  <2>1. /\ pc = "split" /\ threadNum' = Lesser(threadNum, Len(plan))
        /\ pc' \in {"start", "threw"}
        /\ pc' = "start" => ~ConstructorThrows(plan, threadNum')
        /\ UNCHANGED <<newBlob, wpc, haveProcess, stream>>
    BY <1>2 DEF SplitPlan
  <2>2. threadNum >= 2 /\ threadNum \in Nat /\ plan \in Seq(Ranges) /\ Len(plan) \in Nat
    BY <2>1, MTAssumption DEF MainInv, ControlInv, ControlTypes
  <2>3. ASSUME pc' = "start" PROVE threadNum' >= 1
    <3>1. threadNum' = 0 => plan = <<>>
      BY <2>1, <2>2, EmptySeq DEF Lesser
    <3>2. threadNum' # 0
      BY <2>1, <2>3, <3>1, EmptyScore DEF ConstructorThrows
    <3> QED BY <2>1, <2>2, <3>2 DEF Lesser
  <2>4. newBlob' = <<>>
    BY <2>1 DEF MainInv
  <2>5. \A w \in Workers : wpc'[w] = "new" =>
          haveProcess'[w] = 0 /\ stream'[w].pending = <<>> /\ stream'[w].spool = <<>>
    BY <2>1 DEF MainInv
  <2>6. pc' \in {"start", "threw"}
    BY <2>1
  <2> QED BY <2>3, <2>4, <2>5, <2>6 DEF MainInv
<1>3. CASE StartWorker
  <2>1. /\ UNCHANGED <<pc, threadNum, newBlob, haveProcess>> /\ no \in Workers
        /\ pc = "start" /\ no <= threadNum
        /\ \A w \in Workers : w # no => stream'[w] = stream[w] /\ wpc'[w] = wpc[w]
        /\ wpc'[no] = "open"
    <3>1. no \in Workers
      BY <1>3, MTAssumption DEF StartWorker, ControlInv, ControlTypes, Workers
    <3> QED BY <1>3, <3>1 DEF StartWorker, ControlInv, ControlTypes, StreamsInv, WorkerTypes
  <2> QED BY <2>1 DEF MainInv
<1>4. ASSUME NEW w \in Workers, WorkerStep(w) \/ Fault(w) PROVE MainInv'
  <2>1. /\ UNCHANGED <<pc, threadNum, no, newBlob>> /\ wpc'[w] # "new"
        /\ \A v \in Workers : v # w => /\ wpc'[v] = wpc[v] /\ stream'[v] = stream[v]
                                      /\ haveProcess'[v] = haveProcess[v]
    BY <1>4 DEF WorkerStep, Fault, OpenFile, ReadBlock, Write, CountDown, SevenZipFails, IOFails,
                ControlInv, ControlTypes, StreamsInv, WorkerTypes
  <2> QED BY <2>1 DEF MainInv
<1>5. CASE UNCHANGED vars
  BY <1>5 DEF vars, MainInv
<1> QED BY <1>1, <1>2, <1>3, <1>4, <1>5 DEF Next, MainStep, Terminated

\* What is said of a worker stays true while it does nothing.
LEMMA IdleWorker ==
  ASSUME NEW w \in Workers, NEW from, NEW to, WorkerInv(w, from, to),
         UNCHANGED <<plan, threadNum, blobLen>>,
         wpc'[w] = wpc[w], chunk'[w] = chunk[w], haveProcess'[w] = haveProcess[w],
         buffer'[w] = buffer[w], stream'[w] = stream[w]
  PROVE  WorkerInv(w, from, to)'
  BY DEF WorkerInv, AtStart, EndOfChunk, ReadTo

\* Until the workers are started the tiling is anything.
LEMMA OutputBefore ==
  ControlInv /\ StreamsInv /\ MainInv /\ MainInv' /\ OutputInv /\ (RunHpatchz \/ SplitPlan)
    => OutputInv'
<1> SUFFICES ASSUME ControlInv, StreamsInv, MainInv, MainInv', OutputInv, RunHpatchz \/ SplitPlan
             PROVE  OutputInv'
  OBVIOUS
<1>1. PICK b : OutputOf(b)
  BY DEF OutputInv
<1>2. /\ no = 1 /\ \A w \in Workers : wpc[w] = "new"
      /\ UNCHANGED <<plan, no, wpc>>
      /\ pc' \notin {"merge", "returned"}
    BY DEF RunHpatchz, SplitPlan, workerVars, ControlInv, Phases
<1>3. b \in [0..MaxThreads -> Nat] /\ b[0] = 0
  BY <1>1 DEF OutputOf, IsTiling
<1>4. ASSUME pc' = "start"
      PROVE  ~(no > threadNum') /\ NextFrom(plan, threadNum', no - 1, split') = 0
  <2>1. SplitPlan /\ split' = NewSplit(plan) /\ threadNum' = Lesser(threadNum, Len(plan))
    BY <1>4 DEF RunHpatchz, SplitPlan
  <2>2. threadNum' \in Nat \ {0} /\ Len(plan) \in Nat
    BY <1>4, <2>1, MTAssumption DEF MainInv, ControlInv, ControlTypes, Lesser
  <2>3. AverageSubLen(plan, threadNum') \in Nat
    BY <2>2 DEF AverageSubLen
  <2> QED BY <1>2, <2>1, <2>2, <2>3 DEF NextFrom, NewSplit
<1>5. IsTiling(b)'
  BY <1>2, <1>3, <1>4 DEF IsTiling
<1>6. OutputOf(b)'
  BY <1>2, <1>5 DEF OutputOf, MergedInv
<1> QED BY <1>6 DEF OutputInv

\* A worker is started on the ranges after those of the one before it.
LEMMA OutputStart ==
  ASSUME ControlInv, StreamsInv, MainInv, OutputInv, StartWorker
  PROVE  OutputInv'
<1> DEFINE sub == GetSubList(plan, threadNum, no - 1, split)
<1>1. PICK b : OutputOf(b)
  BY DEF OutputInv
<1>2. /\ no \in Nat \ {0} /\ threadNum \in Nat /\ no <= threadNum /\ threadNum <= MaxThreads
      /\ no \in Workers /\ pc = "start" /\ MaxThreads \in Nat
  BY MTAssumption DEF ControlInv, ControlTypes, Workers, StartWorker
<1>3. plan \in Seq(Ranges) /\ Len(plan) \in Nat
  BY DEF ControlInv, ControlTypes
<1>4. /\ sub.from = NextFrom(plan, threadNum, no - 1, split)
      /\ no = threadNum => sub.to = Len(plan)
      /\ no < threadNum => sub.to = NextFrom(plan, threadNum, no, sub.split)
  <2> DEFINE i == no - 1
  <2>1. threadNum \in Int /\ i \in Int /\ i < threadNum /\ i + 1 = no
    BY <1>2
  <2>2. IsSplit(split)
    BY DEF StreamsInv
  <2> HIDE DEF i
  <2>3. LET q == GetSubList(plan, threadNum, i, split)
        IN /\ q.from = NextFrom(plan, threadNum, i, split)
           /\ i = threadNum - 1 => q.to = Len(plan)
           /\ i < threadNum - 1 => q.to = NextFrom(plan, threadNum, i + 1, q.split)
           /\ IsSplit(q.split)
    BY <2>1, <2>2, SubListFollows, Zenon
  <2>4. (no = threadNum => i = threadNum - 1) /\ (no < threadNum => i < threadNum - 1)
    BY <1>2 DEF i
  <2> QED BY <2>1, <2>3, <2>4, Zenon DEF i
<1>5. sub.to \in 1..Len(plan) /\ sub.from \in Nat /\ sub.from < sub.to
  BY <1>3 DEF StartWorker, Rejected
<1>6. /\ split' = sub.split
      /\ chunk' = [chunk EXCEPT ![no] =
                     [start |-> lastProcessPos,
                      processNum |-> ChunkEnd(End(plan[sub.to])) - lastProcessPos]]
      /\ stream' = [stream EXCEPT ![no].ranges = SubSeq(plan, sub.from + 1, sub.to),
                                  ![no].chunkOffset = lastProcessPos]
      /\ wpc' = [wpc EXCEPT ![no] = "open"]
      /\ no' = no + 1
      /\ UNCHANGED <<plan, threadNum, pc, blobLen, newBlob, haveProcess, buffer>>
  BY DEF StartWorker
<1> HIDE DEF sub
<1> PICK from, to, n : from = sub.from /\ to = sub.to /\ n = no
  OBVIOUS
<1> PICK c : c = [b EXCEPT ![n] = to]
  OBVIOUS
<1>7. b \in [0..MaxThreads -> Nat] /\ b[0] = 0 /\ b[n - 1] = from
  BY <1>1, <1>2, <1>4 DEF OutputOf, IsTiling
<1>8. /\ c \in [0..MaxThreads -> Nat] /\ c[0] = 0 /\ c[n - 1] = from /\ c[n] = to
      /\ \A w \in Workers : w < n => c[w] = b[w] /\ c[w - 1] = b[w - 1]
  BY <1>2, <1>5, <1>7 DEF Workers
<1>9. /\ \A w \in Workers : wpc'[w] # "new" => w = n \/ (w < n /\ wpc[w] # "new")
      /\ \A w \in Workers : w # n => wpc'[w] = wpc[w] /\ chunk'[w] = chunk[w] /\ stream'[w] = stream[w]
      /\ wpc'[n] = "open" /\ wpc[n] = "new"
  <2>1. wpc \in [Workers -> {"new", "open", "read", "write", "done", "dead"}]
        /\ chunk \in [Workers -> [start : Nat, processNum : Int]] /\ stream \in [Workers -> Stream]
    BY DEF ControlInv, ControlTypes, StreamsInv, WorkerTypes
  <2>2. \A w \in Workers : wpc[w] = "new" <=> n <= w
    BY <1>2 DEF ControlInv, Phases
  <2>3. \A w \in Workers : w \in Nat
    BY DEF Workers
  <2> QED BY <1>2, <1>6, <2>1, <2>2, <2>3
<1>10. IsTiling(c)'
  <2>1. ASSUME NEW w \in Workers, wpc'[w] # "new" PROVE c[w - 1] < c[w] /\ c[w] <= Len(plan)
    <3>1. CASE w = n
      BY <1>3, <1>5, <1>8, <3>1
    <3>2. CASE w # n
      <4>1. w < n /\ wpc[w] # "new"
        BY <1>9, <2>1, <3>2
      <4> QED BY <1>1, <1>8, <4>1 DEF OutputOf, IsTiling
    <3> QED BY <3>1, <3>2
  <2>2. n + 1 <= threadNum => c[(n + 1) - 1] = NextFrom(plan, threadNum, (n + 1) - 1, sub.split)
    BY <1>2, <1>4, <1>8
  <2>3. n + 1 > threadNum => c[threadNum] = Len(plan)
    <3>1. n + 1 > threadNum => n = threadNum
      BY <1>2
    <3> QED BY <1>4, <1>8, <3>1
  <2> QED BY <1>2, <1>6, <1>8, <2>1, <2>2, <2>3 DEF IsTiling
<1>11. ASSUME NEW w \in Workers, wpc'[w] # "new", w # n PROVE WorkerInv(w, c[w - 1], c[w])'
  <2>1. w < n /\ wpc[w] # "new"
    BY <1>9, <1>11
  <2>2. WorkerInv(w, b[w - 1], b[w])
    BY <1>1, <2>1 DEF OutputOf
  <2>3. WorkerInv(w, c[w - 1], c[w])
    BY <1>8, <2>1, <2>2
  <2> PICK x, y : x = c[w - 1] /\ y = c[w]
    OBVIOUS
  <2>4. WorkerInv(w, x, y)
    BY <2>3
  <2>5. WorkerInv(w, x, y)'
    BY <1>6, <1>9, <1>11, <2>4, IdleWorker
  <2> QED BY <2>5
<1>12. WorkerInv(n, from, to)'
  <2> DEFINE old == stream[n]
             new == stream'[n]
  <2>1. lastProcessPos = StartOfGap(plan, from + 1) /\ lastProcessPos \in Nat
    BY <1>2, <1>4 DEF StreamsInv
  <2>2. chunk'[n] = [start |-> lastProcessPos,
                      processNum |-> EndOfChunk(n, to) - lastProcessPos]
    BY <1>2, <1>6 DEF StreamsInv, WorkerTypes, ChunkEnd, EndOfChunk
  <2>3. /\ old \in Stream /\ SameButOut(old, NewStream(<<>>, 0, <<>>))
        /\ old.pending = <<>> /\ old.spool = <<>> /\ haveProcess[n] = 0
    BY <1>2, <1>9 DEF StreamsInv, WorkerTypes, MainInv
  <2>4. new = [old EXCEPT !.ranges = SubSeq(plan, from + 1, to), !.chunkOffset = lastProcessPos]
    BY <1>2, <1>6 DEF StreamsInv, WorkerTypes
  <2> DEFINE ranges == SubSeq(plan, from + 1, to)
  <2> HIDE DEF old, new, ranges
  <2>5. /\ new.ranges = ranges /\ new.chunkOffset = lastProcessPos
        /\ new.deflating = old.deflating /\ new.seven = old.seven /\ new.written = old.written
        /\ new.pending = old.pending /\ new.spool = old.spool
    BY <2>3, <2>4 DEF Stream, ranges
  <2>6. ~old.deflating /\ ~old.seven /\ old.written = 0
    BY <2>3 DEF SameButOut, NewStream
  <2>7. AtStart(new, from, to)
    BY <2>1, <2>3, <2>5, <2>6 DEF AtStart, Position, ranges
  <2>8. AtStart(stream[n], from, to)'
    BY <1>6, <2>7 DEF AtStart, new
  <2> QED
  BY <1>2, <1>6, <1>9, <2>1, <2>2, <2>3, <2>8 DEF WorkerInv, EndOfChunk, ReadTo
<1>13. ASSUME NEW w \in Workers, wpc'[w] # "new" PROVE WorkerInv(w, c[w - 1], c[w])'
  <2>1. CASE w = n
    BY <1>8, <1>12, <2>1
  <2>2. CASE w # n
    BY <1>11, <1>13, <2>2
  <2> QED BY <2>1, <2>2
<1>14. MergedInv(c)'
  BY <1>2, <1>6 DEF MergedInv
<1>15. OutputOf(c)'
  BY <1>10, <1>13, <1>14 DEF OutputOf
<1> QED BY <1>15 DEF OutputInv
\* What is needed of the types for the steps of a worker.
LEMMA WorkerNumbers ==
  ASSUME ControlInv, StreamsInv, NEW w \in Workers,
         NEW from \in Nat, NEW to \in 1..Len(plan), from < to, WorkerInv(w, from, to)
  PROVE  /\ chunk[w].start \in Nat /\ haveProcess[w] \in Nat /\ ReadTo(w) \in Nat
         /\ blobLen \in Nat /\ BlockSize \in Nat \ {0}
         /\ End(plan[to]) \in Nat /\ EndOfChunk(w, to) \in Nat
         /\ buffer[w] \in Seq(Nat) /\ stream[w] \in Stream
         /\ Null \notin Params
         /\ plan \in Plans /\ plan \in Seq(Ranges) /\ InOrder(plan) /\ Len(plan) \in Nat
         /\ Task(plan, RecompressedUpTo(plan), RecompressedUpTo(plan)[from], to)
<1>1. /\ chunk[w] \in [start : Nat, processNum : Int] /\ haveProcess[w] \in Nat
      /\ buffer[w] \in Seq(Nat) /\ stream[w] \in Stream
      /\ blobLen \in Nat /\ BlockSize \in Nat \ {0} /\ Null \notin Params
      /\ plan \in Plans /\ plan \in Seq(Ranges) /\ InOrder(plan) /\ Len(plan) \in Nat
  BY MTAssumption DEF StreamsInv, WorkerTypes
<1>2. chunk[w].start \in Nat /\ ReadTo(w) \in Nat
  BY <1>1 DEF ReadTo
<1>3. End(plan[to]) \in Nat
  BY <1>1, PlanNumbers
<1>4. from \in 0..Len(plan) /\ to \in 0..Len(plan)
  BY <1>1
<1>5. Task(plan, RecompressedUpTo(plan), RecompressedUpTo(plan)[from], to)
  BY <1>1, <1>4, PlanTask
<1>6. EndOfChunk(w, to) \in Nat
  BY <1>1, <1>3 DEF EndOfChunk
<1> QED BY <1>1, <1>2, <1>3, <1>5, <1>6

\* The file is emptied, and the stream is at the start of its ranges.
LEMMA OpenKeepsWorker ==
  ASSUME ControlInv, StreamsInv, NEW w \in Workers,
         NEW from \in Nat, NEW to \in 1..Len(plan), from < to, WorkerInv(w, from, to),
         OpenFile(w)
  PROVE  WorkerInv(w, from, to)'
<1>1. /\ wpc[w] = "open" /\ wpc'[w] = "read" /\ stream'[w] = [stream[w] EXCEPT !.out = <<>>]
      /\ UNCHANGED <<plan, threadNum, blobLen, chunk, haveProcess>>
  BY DEF OpenFile, mainVars, ControlInv, ControlTypes, StreamsInv, WorkerTypes
<1>2. /\ haveProcess[w] = 0 /\ AtStart(stream[w], from, to)
      /\ chunk[w].start = StartOfGap(plan, from + 1)
      /\ chunk[w].processNum = EndOfChunk(w, to) - chunk[w].start
  BY <1>1 DEF WorkerInv
<1>3. /\ chunk[w].start \in Nat /\ stream[w] \in Stream
      /\ Task(plan, RecompressedUpTo(plan), RecompressedUpTo(plan)[from], to)
  BY WorkerNumbers
<1> DEFINE s == stream'[w]
           h == RecompressedUpTo(plan)
<1>4. s \in Stream /\ s.out = <<>> /\ AtStart(s, from, to)
  BY <1>1, <1>2, <1>3, EmptySeq DEF AtStart, Stream, Position
<1>5. OnPlan(s, plan, h, h[from], to)
  <2>1. CleanSpool(s, plan)
    BY <1>4 DEF AtStart, CleanSpool
  <2>2. from <= to
    OBVIOUS
  <2> HIDE DEF s, h
  <2> QED BY <1>3, <1>4, <2>1, <2>2, NewOnPlan DEF AtStart, h
<1>6. Position(s) = ReadTo(w)
  BY <1>2, <1>3, <1>4 DEF AtStart, ReadTo
<1>7. chunk'[w] = chunk[w] /\ haveProcess'[w] = 0 /\ haveProcess[w] = 0
  BY <1>1, <1>2
<1> QED BY <1>1, <1>2, <1>5, <1>6, <1>7 DEF WorkerInv, EndOfChunk, ReadTo

\* A block is read at the place where the stream stands.
LEMMA ReadKeepsWorker ==
  ASSUME ControlInv, StreamsInv, NEW w \in Workers,
         NEW from \in Nat, NEW to \in 1..Len(plan), from < to, WorkerInv(w, from, to),
         ReadBlock(w)
  PROVE  WorkerInv(w, from, to)'
<1> DEFINE left == blobLen - ReadTo(w)
           wanted == EndOfChunk(w, to) - ReadTo(w)
<1>1. /\ wpc[w] = "read" /\ wpc'[w] = "write" /\ BlockLen(w) > 0
      /\ buffer'[w] = Bytes(ReadTo(w), ReadTo(w) + BlockLen(w))
      /\ haveProcess'[w] = haveProcess[w] + BlockLen(w)
      /\ UNCHANGED <<plan, threadNum, blobLen, chunk, stream>>
  BY DEF ReadBlock, mainVars, ReadTo, ControlInv, ControlTypes, StreamsInv, WorkerTypes
<1>2. /\ chunk[w].start \in Nat /\ haveProcess[w] \in Nat /\ ReadTo(w) \in Nat
      /\ blobLen \in Nat /\ EndOfChunk(w, to) \in Nat /\ BlockSize \in Nat
  BY WorkerNumbers
<1>3. /\ chunk[w].start = StartOfGap(plan, from + 1)
      /\ chunk[w].processNum = EndOfChunk(w, to) - chunk[w].start
      /\ Position(stream[w]) = ReadTo(w)
      /\ OnPlan(stream[w], plan, RecompressedUpTo(plan), RecompressedUpTo(plan)[from], to)
  BY <1>1 DEF WorkerInv
<1>4. BlockLen(w) = Lesser(Lesser(BlockSize, left), wanted) /\ left \in Int /\ wanted \in Int
  <2>1. chunk[w].processNum - haveProcess[w] = wanted
    BY <1>2, <1>3 DEF ReadTo
  <2> QED BY <1>2, <2>1 DEF BlockLen, ReadTo
<1>5. BlockLen(w) \in Int /\ BlockLen(w) <= left /\ BlockLen(w) <= wanted
  <2> HIDE DEF left, wanted
  <2> QED BY <1>2, <1>4 DEF Lesser
<1> DEFINE next == ReadTo(w) + BlockLen(w)
<1>6. next <= blobLen /\ next <= EndOfChunk(w, to) /\ ReadTo(w) <= next
  BY <1>1, <1>2, <1>5
<1>7. ReadTo(w)' = next
  BY <1>1, <1>2, <1>5 DEF ReadTo
<1>8. EndOfChunk(w, to)' = EndOfChunk(w, to) /\ chunk'[w] = chunk[w] /\ stream'[w] = stream[w]
  BY <1>1 DEF EndOfChunk
<1> HIDE DEF next
<1> QED BY <1>1, <1>3, <1>6, <1>7, <1>8 DEF WorkerInv, next

\* A turn of the loop of write().
LEMMA WriteKeepsWorker ==
  ASSUME ControlInv, StreamsInv, NEW w \in Workers,
         NEW from \in Nat, NEW to \in 1..Len(plan), from < to, WorkerInv(w, from, to),
         Write(w)
  PROVE  WorkerInv(w, from, to)'
<1> DEFINE s == stream[w]
           t == WriteChunk(s, buffer[w])
           h == RecompressedUpTo(plan)
           base == h[from]
           hi == ReadTo(w)
<1>1. /\ wpc[w] = "write" /\ stream'[w] = t /\ buffer'[w] = Unwritten(s, buffer[w])
      /\ wpc'[w] = IF buffer'[w] = <<>> THEN "read" ELSE "write"
      /\ UNCHANGED <<plan, threadNum, blobLen, chunk, haveProcess>>
  BY DEF Write, mainVars, ControlInv, ControlTypes, StreamsInv, WorkerTypes
<1>2. hi \in Nat /\ Null \notin Params /\ Task(plan, h, base, to)
  BY WorkerNumbers
<1>3. /\ OnPlan(s, plan, h, base, to) /\ Position(s) <= hi
      /\ buffer[w] = Bytes(Position(s), hi)
      /\ chunk[w].start = StartOfGap(plan, from + 1)
      /\ chunk[w].processNum = EndOfChunk(w, to) - chunk[w].start
      /\ haveProcess[w] # 0 => ReadTo(w) <= EndOfChunk(w, to) /\ ReadTo(w) <= blobLen
  BY <1>1 DEF WorkerInv
<1>4. Consistent(s) /\ Position(s) \in Nat
  BY <1>1, PositionType DEF StreamsInv, Consistent
<1>5. OnPlan(t, plan, h, base, to)
  <2> HIDE DEF s, h, base, hi
  <2> QED BY <1>2, <1>3, <1>4, WriteKeepsPlan
<1>6. buffer'[w] = Bytes(Position(t), hi) /\ Position(t) \in Nat /\ Position(t) <= hi
  <2>1. /\ Unwritten(s, Bytes(Position(s), hi)) = Bytes(Position(WriteChunk(s, Bytes(Position(s), hi))), hi)
        /\ Position(WriteChunk(s, Bytes(Position(s), hi))) \in Position(s)..hi
    <3> HIDE DEF s, hi
    <3> QED BY <1>2, <1>3, <1>4, RestOfBlock
  <2> QED BY <1>1, <1>2, <1>3, <1>4, <2>1
<1>7. buffer'[w] = <<>> => Position(t) = hi
  <2> DEFINE pos == Position(t)
  <2>1. pos \in Nat /\ pos <= hi
    BY <1>6
  <2> HIDE DEF pos, hi
  <2>2. Len(Bytes(pos, hi)) = hi - pos /\ Len(<<>>) = 0
    BY <1>2, <2>1, BytesType, EmptySeq
  <2>3. Bytes(pos, hi) = <<>> => hi - pos = 0
    BY <2>2
  <2> QED BY <1>2, <1>6, <2>1, <2>3 DEF pos
<1>8. ReadTo(w)' = hi /\ EndOfChunk(w, to)' = EndOfChunk(w, to)
  BY <1>1 DEF ReadTo, EndOfChunk
<1>9. chunk'[w] = chunk[w] /\ haveProcess'[w] = haveProcess[w]
  BY <1>1
<1> HIDE DEF t
<1> QED BY <1>1, <1>3, <1>5, <1>6, <1>7, <1>8, <1>9 DEF WorkerInv

\* The worker ends when its chunk, or the file, does.
LEMMA CountDownKeepsWorker ==
  ASSUME ControlInv, StreamsInv, NEW w \in Workers,
         NEW from \in Nat, NEW to \in 1..Len(plan), from < to, WorkerInv(w, from, to),
         CountDown(w)
  PROVE  WorkerInv(w, from, to)'
<1> DEFINE left == blobLen - ReadTo(w)
           wanted == EndOfChunk(w, to) - ReadTo(w)
<1>1. /\ wpc[w] = "read" /\ wpc'[w] = "done" /\ BlockLen(w) <= 0
      /\ UNCHANGED <<plan, threadNum, blobLen, chunk, haveProcess, buffer, stream>>
  BY DEF CountDown, ControlInv, ControlTypes
<1>2. /\ chunk[w].start \in Nat /\ haveProcess[w] \in Nat /\ ReadTo(w) \in Nat
      /\ blobLen \in Nat /\ EndOfChunk(w, to) \in Nat /\ BlockSize \in Nat \ {0}
  BY WorkerNumbers
<1>3. chunk[w].processNum = EndOfChunk(w, to) - chunk[w].start
  BY DEF WorkerInv
<1>4. BlockLen(w) = Lesser(Lesser(BlockSize, left), wanted) /\ left \in Int /\ wanted \in Int
  <2>1. chunk[w].processNum - haveProcess[w] = wanted
    BY <1>2, <1>3 DEF ReadTo
  <2> QED BY <1>2, <2>1 DEF BlockLen, ReadTo
<1>5. left <= 0 \/ wanted <= 0
  <2> HIDE DEF left, wanted
  <2> QED BY <1>1, <1>2, <1>4 DEF Lesser
<1>6. blobLen <= ReadTo(w) \/ EndOfChunk(w, to) <= ReadTo(w)
  BY <1>2, <1>5
<1> QED BY <1>1, <1>6 DEF WorkerInv, EndOfChunk, ReadTo

\* A worker that fails has nothing more to show.
LEMMA FaultKeepsWorker ==
  ASSUME ControlInv, NEW w \in Workers, NEW from, NEW to, WorkerInv(w, from, to), Fault(w)
  PROVE  WorkerInv(w, from, to)'
<1>1. wpc'[w] = "dead" /\ UNCHANGED <<plan, threadNum, blobLen, chunk, haveProcess>>
  BY DEF Fault, SevenZipFails, IOFails, mainVars, ControlInv, ControlTypes
<1> QED BY <1>1 DEF WorkerInv, EndOfChunk, ReadTo

\* So a step of a worker keeps the invariant, for all of them.
LEMMA OutputWorker ==
  ASSUME ControlInv, StreamsInv, MainInv, OutputInv, NEW w \in Workers,
         WorkerStep(w) \/ Fault(w)
  PROVE  OutputInv'
<1>1. PICK b : OutputOf(b)
  BY DEF OutputInv
<1>2. /\ UNCHANGED <<plan, threadNum, pc, no, split, blobLen, newBlob, chunk>>
      /\ wpc[w] # "new" /\ wpc'[w] # "new"
      /\ \A v \in Workers : v # w =>
           /\ wpc'[v] = wpc[v] /\ stream'[v] = stream[v] /\ buffer'[v] = buffer[v]
           /\ haveProcess'[v] = haveProcess[v]
  BY DEF WorkerStep, Fault, OpenFile, ReadBlock, Write, CountDown, SevenZipFails, IOFails,
         mainVars, ControlInv, ControlTypes, StreamsInv, WorkerTypes
<1>3. PICK from, to : from = b[w - 1] /\ to = b[w]
  OBVIOUS
<1>4. /\ from \in Nat /\ to \in 1..Len(plan) /\ from < to /\ WorkerInv(w, from, to)
  <2>1. /\ b \in [0..MaxThreads -> Nat] /\ b[w - 1] < b[w] /\ b[w] <= Len(plan)
        /\ WorkerInv(w, b[w - 1], b[w])
    BY <1>1, <1>2 DEF OutputOf, IsTiling
  <2>2. w - 1 \in 0..MaxThreads /\ w \in 0..MaxThreads
    BY MTAssumption DEF Workers
  <2>3. Len(plan) \in Nat
    BY DEF ControlInv, ControlTypes
  <2> QED BY <1>3, <2>1, <2>2, <2>3
<1>5. WorkerInv(w, from, to)'
  BY <1>4, OpenKeepsWorker, ReadKeepsWorker, WriteKeepsWorker, CountDownKeepsWorker,
     FaultKeepsWorker DEF WorkerStep
<1>6. ASSUME NEW v \in Workers, wpc'[v] # "new" PROVE WorkerInv(v, b[v - 1], b[v])'
  <2>1. CASE v = w
    BY <1>3, <1>5, <2>1
  <2>2. CASE v # w
    <3>1. PICK x, y : x = b[v - 1] /\ y = b[v]
      OBVIOUS
    <3>2. WorkerInv(v, x, y)
      BY <1>1, <1>2, <1>6, <2>2, <3>1 DEF OutputOf
    <3>3. WorkerInv(v, x, y)'
      BY <1>2, <2>2, <3>2, IdleWorker
    <3> QED BY <3>1, <3>3
  <2> QED BY <2>1, <2>2
<1>7. IsTiling(b)'
  <2>1. \A v \in Workers : wpc'[v] # "new" => wpc[v] # "new"
    BY <1>2
  <2> QED BY <1>1, <1>2, <2>1 DEF OutputOf, IsTiling
<1>8. MergedInv(b)'
  BY <1>1, <1>2 DEF OutputOf, MergedInv
<1>9. OutputOf(b)'
  BY <1>6, <1>7, <1>8 DEF OutputOf
<1> QED BY <1>9 DEF OutputInv
\* A worker that is done has read its chunk to the end.
LEMMA DoneAtEnd ==
  ASSUME ControlInv, StreamsInv, NEW w \in Workers,
         NEW from \in Nat, NEW to \in 1..Len(plan), from < to, WorkerInv(w, from, to),
         wpc[w] = "done", blobLen = BlobLen
  PROVE  Position(stream[w]) = EndOfChunk(w, to)
<1>1. /\ chunk[w].start \in Nat /\ haveProcess[w] \in Nat /\ ReadTo(w) \in Nat
      /\ blobLen \in Nat /\ EndOfChunk(w, to) \in Nat /\ End(plan[to]) \in Nat
      /\ plan \in Plans /\ plan \in Seq(Ranges) /\ InOrder(plan) /\ Len(plan) \in Nat
  BY WorkerNumbers
<1>2. End(plan[to]) <= EndOfChunk(w, to) /\ EndOfChunk(w, to) <= blobLen
  <2>1. End(plan[to]) <= blobLen
    BY <1>1, BlobAssumption
  <2> QED BY <1>1, <2>1 DEF EndOfChunk
<1>3. StartOfGap(plan, from + 1) \in Nat /\ StartOfGap(plan, from + 1) <= End(plan[to])
  <2>1. CASE from = 0
    BY <1>1, <2>1 DEF StartOfGap
  <2>2. CASE from # 0
    <3>1. from \in 1..Len(plan) /\ to \in from..Len(plan)
      BY <1>1, <2>2
    <3>2. End(plan[from]) <= End(plan[to])
      BY <1>1, <3>1, EndsGrow
    <3>3. StartOfGap(plan, from + 1) = End(plan[from]) /\ End(plan[from]) \in Nat
      BY <1>1, <3>1, PlanNumbers
    <3> QED BY <3>2, <3>3
  <2> QED BY <2>1, <2>2
<1>4. /\ Position(stream[w]) = ReadTo(w)
      /\ blobLen <= ReadTo(w) \/ EndOfChunk(w, to) <= ReadTo(w)
      /\ haveProcess[w] # 0 => ReadTo(w) <= EndOfChunk(w, to)
      /\ chunk[w].start = StartOfGap(plan, from + 1)
  BY DEF WorkerInv
<1>5. haveProcess[w] = 0 => ReadTo(w) = chunk[w].start
  BY <1>1 DEF ReadTo
<1>6. ReadTo(w) <= EndOfChunk(w, to)
  BY <1>1, <1>2, <1>3, <1>4, <1>5
<1>7. EndOfChunk(w, to) <= ReadTo(w)
  BY <1>1, <1>2, <1>4
<1> QED BY <1>1, <1>4, <1>6, <1>7

\* Its file takes the recompression from the ranges before its own to the end
\* of its own.
LEMMA FileOfWorker ==
  ASSUME ControlInv, StreamsInv, NEW w \in Workers, RangesHaveBytes, w # threadNum,
         NEW from \in Nat, NEW to \in 1..Len(plan), from < to, WorkerInv(w, from, to),
         wpc[w] = "done", blobLen = BlobLen
  PROVE  RecompressedUpTo(plan)[from] \o stream[w].out = RecompressedUpTo(plan)[to]
<1> DEFINE s == stream[w]
           h == RecompressedUpTo(plan)
           base == h[from]
<1>1. /\ OnPlan(s, plan, h, base, to) /\ Task(plan, h, base, to)
      /\ plan \in Plans
  BY WorkerNumbers DEF WorkerInv
<1>2. Consistent(s)
  BY DEF StreamsInv
<1>3. Position(s) = End(plan[to])
  BY DoneAtEnd DEF EndOfChunk
<1>4. \A k \in 1..Len(plan) : plan[k].length > 0
  BY <1>1 DEF RangesHaveBytes
<1>5. base \o s.out = h[to]
  <2> HIDE DEF s, h, base
  <2> QED BY <1>1, <1>2, <1>3, <1>4, OutputOfSublist
<1> QED BY <1>5

\* The last worker's file takes it to the end of the blob.
LEMMA FileOfLastWorker ==
  ASSUME ControlInv, StreamsInv, NEW w \in Workers, w = threadNum,
         NEW from \in Nat, from < Len(plan), WorkerInv(w, from, Len(plan)),
         wpc[w] = "done", blobLen = BlobLen
  PROVE  RecompressedUpTo(plan)[from] \o stream[w].out = Recompressed(plan, BlobLen)
<1> DEFINE s == stream[w]
           h == RecompressedUpTo(plan)
           base == h[from]
           to == Len(plan)
<1>1. to \in 1..Len(plan) /\ from < to
  BY DEF ControlInv, ControlTypes
<1>2. /\ OnPlan(s, plan, h, base, to) /\ Task(plan, h, base, to)
      /\ plan \in Plans /\ blobLen \in Nat
  BY <1>1, WorkerNumbers DEF WorkerInv
<1>3. Consistent(s)
  BY DEF StreamsInv
<1>4. Position(s) = BlobLen /\ BlobLen \in Nat
  BY <1>1, <1>2, DoneAtEnd DEF EndOfChunk
<1>5. \A k \in 1..Len(plan) : plan[k].offset < BlobLen /\ End(plan[k]) <= BlobLen
  BY <1>2, BlobAssumption
<1>6. base \o s.out = h[Len(plan)] \o Copied(Bytes(StartOfGap(plan, Len(plan) + 1), BlobLen))
  <2>1. OnPlan(s, plan, h, base, Len(plan)) /\ Task(plan, h, base, Len(plan))
    BY <1>2
  <2> HIDE DEF s, h, base, to
  <2> QED BY <1>3, <1>4, <1>5, <2>1, OutputToTheEnd
<1> QED BY <1>6 DEF Recompressed

\* When the latch is down, nothing has been merged yet.
LEMMA OutputAwait ==
  ASSUME ControlInv, StreamsInv, MainInv, OutputInv, Await \/ RejectSubList
  PROVE  OutputInv'
<1>1. PICK b : OutputOf(b)
  BY DEF OutputInv
<1>2. /\ UNCHANGED <<plan, threadNum, split, blobLen, newBlob, workerVars>>
      /\ pc = "start"
  BY DEF Await, RejectSubList
<1>3. ASSUME NEW v \in Workers, wpc'[v] # "new" PROVE WorkerInv(v, b[v - 1], b[v])'
  <2>1. PICK x, y : x = b[v - 1] /\ y = b[v]
    OBVIOUS
  <2>2. WorkerInv(v, x, y)
    BY <1>1, <1>2, <1>3, <2>1 DEF OutputOf, workerVars
  <2>3. WorkerInv(v, x, y)'
    BY <1>2, <2>2, IdleWorker DEF workerVars
  <2> QED BY <2>1, <2>3
<1>4. CASE RejectSubList
  <2>1. pc' = "threw"
    BY <1>4 DEF RejectSubList
  <2>2. IsTiling(b)'
    BY <1>1, <1>2, <2>1 DEF OutputOf, IsTiling, workerVars
  <2>3. MergedInv(b)'
    BY <2>1 DEF MergedInv
  <2>4. OutputOf(b)'
    BY <1>3, <2>2, <2>3 DEF OutputOf
  <2> QED BY <2>4 DEF OutputInv
<1>5. CASE Await
  <2>1. pc' = "merge" /\ no' = 1 /\ no > threadNum
    BY <1>5 DEF Await
  <2>2. IsTiling(b)'
    BY <1>1, <1>2, <2>1 DEF OutputOf, IsTiling, workerVars
  <2>3. newBlob = <<>> /\ threadNum >= 1 /\ b[0] = 0
    BY <1>1, <1>2 DEF MainInv, OutputOf, IsTiling
  <2>4. RecompressedUpTo(plan)[0] = <<>>
    <3>1. plan \in Seq(Ranges) /\ InOrder(plan)
      BY MTAssumption DEF StreamsInv
    <3> QED BY <3>1, RecompressionExists DEF IsRecompression
  <2>5. 1 <= threadNum
    BY <2>3 DEF ControlInv, ControlTypes
  <2>6. MergedInv(b)'
    BY <1>2, <2>1, <2>3, <2>4, <2>5 DEF MergedInv
  <2>7. OutputOf(b)'
    BY <1>3, <2>2, <2>6 DEF OutputOf
  <2> QED BY <2>7 DEF OutputInv
<1> QED BY <1>4, <1>5

\* Each file that is merged takes the new archive one sublist further.
LEMMA OutputMerge ==
  ASSUME ControlInv, StreamsInv, MainInv, OutputInv,
         "merge" \notin Faults, RangesHaveBytes, MergeFile
  PROVE  OutputInv'
<1>1. PICK b : OutputOf(b)
  BY DEF OutputInv
<1>2. /\ UNCHANGED <<plan, threadNum, pc, split, blobLen, workerVars>>
      /\ pc = "merge" /\ no <= threadNum /\ no' = no + 1
      /\ newBlob' = newBlob \o SubSeq(stream[no].out, 1, Len(stream[no].out))
  BY DEF MergeFile
<1> PICK n : n = no
  OBVIOUS
<1>3. n \in Workers /\ n \in Nat \ {0} /\ threadNum \in Nat /\ wpc[n] = "done"
  BY <1>2, MTAssumption DEF ControlInv, ControlTypes, Phases, Workers
<1>4. newBlob' = newBlob \o stream[n].out
  <2>1. stream[n].out \in Seq(Items)
    BY <1>3 DEF StreamsInv, WorkerTypes, Stream
  <2>2. SubSeq(stream[n].out, 1, Len(stream[n].out)) = stream[n].out
    BY <2>1, SubSeqFull
  <2> QED BY <1>2, <2>2
<1> PICK from, to : from = b[n - 1] /\ to = b[n]
  OBVIOUS
<1>5. /\ from \in Nat /\ to \in 1..Len(plan) /\ from < to /\ WorkerInv(n, from, to)
      /\ n = threadNum => to = Len(plan)
  <2>1. /\ b \in [0..MaxThreads -> Nat] /\ b[n - 1] < b[n] /\ b[n] <= Len(plan)
        /\ WorkerInv(n, b[n - 1], b[n]) /\ b[threadNum] = Len(plan)
    BY <1>1, <1>2, <1>3 DEF OutputOf, IsTiling
  <2>2. n - 1 \in 0..MaxThreads /\ n \in 0..MaxThreads
    BY <1>3, MTAssumption DEF Workers
  <2>3. Len(plan) \in Nat
    BY DEF ControlInv, ControlTypes
  <2> QED BY <2>1, <2>2, <2>3
<1>6. ASSUME blobLen = BlobLen
      PROVE  newBlob' = IF n + 1 <= threadNum THEN RecompressedUpTo(plan)[to]
                                             ELSE Recompressed(plan, BlobLen)
  <2>1. newBlob = RecompressedUpTo(plan)[from]
    BY <1>1, <1>2, <1>6 DEF OutputOf, MergedInv
  <2>2. CASE n = threadNum
    <3>1. to = Len(plan) /\ ~(n + 1 <= threadNum)
      BY <1>3, <1>5, <2>2
    <3>2. RecompressedUpTo(plan)[from] \o stream[n].out = Recompressed(plan, BlobLen)
      BY <1>3, <1>5, <1>6, <2>2, <3>1, FileOfLastWorker
    <3> QED BY <1>4, <2>1, <3>1, <3>2
  <2>3. CASE n # threadNum
    <3>1. n + 1 <= threadNum
      BY <1>2, <1>3, <2>3
    <3>2. RecompressedUpTo(plan)[from] \o stream[n].out = RecompressedUpTo(plan)[to]
      BY <1>3, <1>5, <1>6, <2>3, FileOfWorker
    <3> QED BY <1>4, <2>1, <3>1, <3>2
  <2> QED BY <2>2, <2>3
<1>7. IsTiling(b)'
  BY <1>1, <1>2 DEF OutputOf, IsTiling, workerVars
<1>8. ASSUME NEW v \in Workers, wpc'[v] # "new" PROVE WorkerInv(v, b[v - 1], b[v])'
  <2>1. PICK x, y : x = b[v - 1] /\ y = b[v]
    OBVIOUS
  <2>2. WorkerInv(v, x, y)
    BY <1>1, <1>2, <1>8, <2>1 DEF OutputOf, workerVars
  <2>3. WorkerInv(v, x, y)'
    BY <1>2, <2>2, IdleWorker DEF workerVars
  <2> QED BY <2>1, <2>3
<1>9. MergedInv(b)'
  <2>1. (n + 1) - 1 = n /\ no' = n + 1 /\ plan' = plan /\ threadNum' = threadNum
        /\ blobLen' = blobLen
    BY <1>2, <1>3
  <2> QED BY <1>6, <2>1 DEF MergedInv
<1>10. OutputOf(b)'
  BY <1>7, <1>8, <1>9 DEF OutputOf
<1> QED BY <1>10 DEF OutputInv

\* Returning changes nothing of this.
LEMMA OutputReturn ==
  ASSUME OutputInv, Return \/ UNCHANGED vars
  PROVE  OutputInv'
<1>1. PICK b : OutputOf(b)
  BY DEF OutputInv
<1>2. /\ UNCHANGED <<plan, threadNum, no, split, blobLen, newBlob, workerVars>>
      /\ pc' = pc \/ (pc = "merge" /\ pc' = "returned")
  BY DEF Return, vars, mainVars
<1>3. IsTiling(b)'
  BY <1>1, <1>2 DEF OutputOf, IsTiling, workerVars
<1>4. ASSUME NEW v \in Workers, wpc'[v] # "new" PROVE WorkerInv(v, b[v - 1], b[v])'
  <2>1. PICK x, y : x = b[v - 1] /\ y = b[v]
    OBVIOUS
  <2>2. WorkerInv(v, x, y)
    BY <1>1, <1>2, <1>4, <2>1 DEF OutputOf, workerVars
  <2>3. WorkerInv(v, x, y)'
    BY <1>2, <2>2, IdleWorker DEF workerVars
  <2> QED BY <2>1, <2>3
<1>5. MergedInv(b)'
  BY <1>1, <1>2 DEF OutputOf, MergedInv
<1>6. OutputOf(b)'
  BY <1>3, <1>4, <1>5 DEF OutputOf
<1> QED BY <1>6 DEF OutputInv
\* Every step keeps the tiling, the workers' files and what is merged.
LEMMA OutputStep ==
  ASSUME "merge" \notin Faults, RangesHaveBytes
  PROVE  ControlInv /\ StreamsInv /\ MainInv /\ OutputInv /\ [Next]_vars => MainInv' /\ OutputInv'
<1> SUFFICES ASSUME ControlInv, StreamsInv, MainInv, OutputInv, [Next]_vars
             PROVE  MainInv' /\ OutputInv'
  OBVIOUS
<1>1. MainInv'
  BY MainKept
<1> SUFFICES OutputInv'
  BY <1>1
<1>2. CASE RunHpatchz \/ SplitPlan
  BY <1>1, <1>2, OutputBefore
<1>3. CASE StartWorker
  BY <1>3, OutputStart
<1>4. CASE Await \/ RejectSubList
  BY <1>4, OutputAwait
<1>5. CASE MergeFile
  BY <1>5, OutputMerge
<1>6. CASE Return \/ UNCHANGED vars
  BY <1>6, OutputReturn
<1>7. ASSUME NEW w \in Workers, WorkerStep(w) \/ Fault(w) PROVE OutputInv'
  BY <1>7, OutputWorker
<1> QED BY <1>2, <1>3, <1>4, <1>5, <1>6, <1>7 DEF Next, MainStep, Terminated

\* With what is merged when all files are, the new archive is complete.
LEMMA MergedAll == ControlInv /\ MainInv /\ OutputInv => ReturnsRecompressed
<1> SUFFICES ASSUME ControlInv, MainInv, OutputInv, pc = "returned", blobLen = BlobLen
             PROVE  newBlob = Recompressed(plan, BlobLen)
  BY DEF ReturnsRecompressed, Delivered
<1>1. PICK b : OutputOf(b)
  BY DEF OutputInv
<1>2. no > threadNum /\ no \in Nat /\ threadNum \in Nat
  BY MTAssumption DEF MainInv, ControlInv, ControlTypes
<1>3. ~(no <= threadNum)
  BY <1>2
<1> QED BY <1>1, <1>3 DEF OutputOf, MergedInv

\* In a run without loss between the workers' files and newBlobOut, all that is
\* known of the state.
LEMMA MergeInvariant ==
  ASSUME "merge" \notin Faults, RangesHaveBytes
  PROVE  Spec => [](ControlInv /\ StreamsInv /\ MainInv /\ OutputInv)
<1>1. ControlInv /\ StreamsInv /\ MainInv /\ OutputInv /\ [Next]_vars => MainInv' /\ OutputInv'
  BY OutputStep
<1> QED BY <1>1, ControlInit, ControlStep, StreamsInit, StreamsStep, MainInit, PTL DEF Spec

\* With any number of threads and in any order of their steps deltaApply leaves
\* in newBlobOut what one thread would have written, provided that hpatchz
\* produced the whole blob: whatever becomes of the workers, for every plan
\* whose ranges have bytes, as long as no file is merged in part.
THEOREM SameAsOneThread ==
  ASSUME "merge" \notin Faults, RangesHaveBytes
  PROVE  Spec => []ReturnsRecompressed
<1>1. ControlInv /\ MainInv /\ OutputInv => ReturnsRecompressed
  BY MergedAll
<1> QED BY <1>1, MergeInvariant, PTL

-----------------------------------------------------------------------------
(***************************************************************************)
(* The contract of DeltaApplier.                                           *)
(***************************************************************************)

\* A step of MThreadApply is one of the contract's, or one it does not see.
LEMMA StepsOfContract ==
  ASSUME ControlInv, OutputInv, [Next]_vars
  PROVE  [Contract!ContractNext]_(Contract!contractVars)
<1> USE DEF Contract!contractVars, mainVars, workerVars
<1>1. CASE Return
  <2>1. /\ pc = "merge" /\ no > threadNum /\ pc' = "returned" /\ ~Delivered
        /\ UNCHANGED <<plan, blobLen, newBlob>>
    BY <1>1 DEF Return, Delivered
  <2>2. CASE blobLen = BlobLen
    <3>1. newBlob = Recompressed(plan, BlobLen)
      <4>1. PICK b : OutputOf(b)
        BY DEF OutputInv
      <4>2. ~(no <= threadNum)
        BY <2>1, MTAssumption DEF ControlInv, ControlTypes
      <4> QED BY <2>1, <2>2, <4>1, <4>2 DEF OutputOf, MergedInv
    <3>2. Contract!Recompressed(plan, BlobLen) = Recompressed(plan, BlobLen)
      BY DEF Contract!Recompressed, Recompressed, Contract!RecompressedUpTo, RecompressedUpTo,
             Contract!Codec, Codec, Contract!Bytes, Bytes, Contract!Copied, Copied,
             Contract!StartOfGap, StartOfGap, Contract!End, End,
             Contract!SevenZip, SevenZip
    <3>3. Delivered'
      BY <2>1, <2>2 DEF Delivered
    <3> QED BY <2>1, <3>1, <3>2, <3>3 DEF Contract!ContractNext, Contract!Return
  <2>3. CASE blobLen # BlobLen
    <3>1. ~Delivered'
      BY <2>1, <2>3 DEF Delivered
    <3> QED BY <2>1, <3>1
  <2> QED BY <2>2, <2>3
<1>2. CASE SplitPlan \/ RejectSubList
  <2>1. pc \in {"split", "start"} /\ pc' \in {"threw", "start"} /\ UNCHANGED plan
    BY <1>2 DEF SplitPlan, RejectSubList
  <2>2. ~Delivered /\ ~Delivered'
    BY <2>1 DEF Delivered
  <2> QED BY <2>1, <2>2 DEF Contract!ContractNext, Contract!Throw
<1>3. CASE RunHpatchz \/ StartWorker \/ Await \/ MergeFile
  <2>1. /\ pc \in {"diff", "start", "merge"} /\ pc' \in {"split", "start", "merge"}
        /\ UNCHANGED plan
    BY <1>3 DEF RunHpatchz, StartWorker, Await, MergeFile
  <2>2. ~Delivered /\ ~Delivered'
    BY <2>1 DEF Delivered
  <2> QED BY <2>1, <2>2
<1>4. ASSUME NEW w \in Workers, WorkerStep(w) \/ Fault(w)
      PROVE  UNCHANGED Contract!contractVars
  <2>1. UNCHANGED <<plan, pc, blobLen, newBlob>>
    BY <1>4 DEF WorkerStep, Fault, OpenFile, ReadBlock, Write, CountDown, SevenZipFails, IOFails
  <2>2. Delivered' = Delivered
    BY <2>1 DEF Delivered
  <2> QED BY <2>1, <2>2
<1>5. CASE UNCHANGED vars
  <2>1. UNCHANGED <<plan, pc, newBlob>> /\ Delivered' = Delivered
    BY <1>5 DEF vars, Delivered
  <2> QED BY <2>1
<1> QED BY <1>1, <1>2, <1>3, <1>4, <1>5 DEF Next, MainStep, Terminated

\* MThreadApply keeps the contract of DeltaApplier when the merge does its
\* work, whatever becomes of the workers and of hpatchz: what it delivers is the
\* whole new archive, and it never delivers after it has thrown.
THEOREM ImplementsContract ==
  ASSUME "merge" \notin Faults, RangesHaveBytes
  PROVE  Spec => KeepsContract
<1>1. Init => Contract!ContractInit
  BY DEF Init, Contract!ContractInit, Delivered
<1>2. ControlInv /\ OutputInv /\ [Next]_vars
        => [Contract!ContractNext]_(Contract!contractVars)
  BY StepsOfContract
<1> QED BY <1>1, <1>2, MergeInvariant, PTL
        DEF Spec, KeepsContract, Contract!ContractSpec

=============================================================================
