----------------------------- MODULE PoolProofs -----------------------------
(***************************************************************************)
(* Proofs about the thread pool, for every number of threads, callers and  *)
(* jobs and every size of the queue, and about the asynchronous copy that  *)
(* runs on two of them, for every number of jobs, every size of a block    *)
(* and a buffer, and every list of files.                                  *)
(***************************************************************************)
EXTENDS Pool, PassThrough, FiniteSetTheorems, SequenceTheorems,
        WellFoundedInduction, TLAPS

-----------------------------------------------------------------------------
(***************************************************************************)
(* Positions in a circular queue.                                          *)
(***************************************************************************)

\* Quotient and remainder of a position in the queue.
LEMMA DivMod ==
  ASSUME NEW a \in Nat, NEW n \in Nat \ {0}
  PROVE  a = n * (a \div n) + (a % n) /\ a % n \in 0..(n - 1) /\ a \div n \in Nat
BY SMT

\* The only multiple of n between -n and n is zero.
LEMMA NoMultipleBetween ==
  ASSUME NEW n \in Nat \ {0}, NEW d \in Int, n * d < n, n * d > 0 - n
  PROVE  d = 0
<1>1. CASE d >= 1
  <2>1. n * d >= n * 1
    BY <1>1, SMT
  <2> QED BY <2>1
<1>2. CASE d <= -1
  <2>1. n * d <= n * (-1)
    BY <1>2, SMT
  <2> QED BY <2>1
<1> QED BY <1>1, <1>2

\* A position is the remainder of its distance from a multiple of the size.
LEMMA ModUnique ==
  ASSUME NEW n \in Nat \ {0}, NEW q \in Nat, NEW r \in 0..(n - 1)
  PROVE  (n * q + r) % n = r
<1> DEFINE x == n * q + r
<1>0. x \in Nat
  BY SMT
<1> HIDE DEF x
<1>1. x = n * (x \div n) + (x % n) /\ x % n \in 0..(n - 1) /\ x \div n \in Nat
  BY <1>0, DivMod
<1>2. n * (q - (x \div n)) = (x % n) - r
  BY <1>1, SMT DEF x
<1>3. q - (x \div n) \in Int
  BY <1>1
<1>4. n * (q - (x \div n)) < n /\ n * (q - (x \div n)) > 0 - n
  BY <1>1, <1>2, SMT
<1>5. q - (x \div n) = 0
  BY <1>3, <1>4, NoMultipleBetween
<1> QED BY <1>1, <1>5, SMT DEF x

\* A position moves on as the number it stands for.
LEMMA ModAdd ==
  ASSUME NEW a \in Nat, NEW k \in Nat, NEW n \in Nat \ {0}
  PROVE  ((a % n) + k) % n = (a + k) % n
<1>1. a = n * (a \div n) + (a % n) /\ a % n \in 0..(n - 1) /\ a \div n \in Nat
  BY DivMod
<1> DEFINE b == (a % n) + k
<1>2. b \in Nat
  BY <1>1
<1>3. b = n * (b \div n) + (b % n) /\ b % n \in 0..(n - 1) /\ b \div n \in Nat
  BY <1>2, DivMod
<1>4. a + k = n * ((a \div n) + (b \div n)) + (b % n)
  <2>1. a + k = n * (a \div n) + b
    BY <1>1
  <2>2. n * ((a \div n) + (b \div n)) = n * (a \div n) + n * (b \div n)
    BY <1>1, <1>3, SMT
  <2> QED BY <2>1, <2>2, <1>3, <1>2, <1>1
<1> DEFINE q == (a \div n) + (b \div n)
           r == b % n
           x == a + k
<1>5. q \in Nat /\ x \in Nat /\ r \in 0..(n - 1) /\ x = n * q + r
  BY <1>1, <1>3, <1>4
<1> HIDE DEF q, r, x
<1>6. (n * q + r) % n = r
  BY <1>5, ModUnique
<1> QED BY <1>5, <1>6 DEF b, r, x

\* Numbers less than n apart have different positions.
LEMMA ModDistinct ==
  ASSUME NEW a \in Nat, NEW b \in Nat, NEW n \in Nat \ {0}, a < b, b < a + n
  PROVE  a % n # b % n
<1>1. a = n * (a \div n) + (a % n) /\ a % n \in 0..(n - 1) /\ a \div n \in Nat
  BY DivMod
<1>2. b = n * (b \div n) + (b % n) /\ b % n \in 0..(n - 1) /\ b \div n \in Nat
  BY DivMod
<1> SUFFICES ASSUME a % n = b % n PROVE FALSE
  OBVIOUS
<1>3. n * ((b \div n) - (a \div n)) = b - a
  BY <1>1, <1>2, SMT
<1>4. (b \div n) - (a \div n) = 0
  BY <1>1, <1>2, <1>3, NoMultipleBetween
<1> QED BY <1>1, <1>3, <1>4

\* After n the positions begin again.
LEMMA ModPeriod ==
  ASSUME NEW a \in Nat, NEW n \in Nat \ {0}
  PROVE  (a + n) % n = a % n
<1>1. a = n * (a \div n) + (a % n) /\ a % n \in 0..(n - 1) /\ a \div n \in Nat
  BY DivMod
<1>2. a + n = n * ((a \div n) + 1) + (a % n)
  BY <1>1, SMT
<1> DEFINE q == (a \div n) + 1
           r == a % n
           x == a + n
<1>3. q \in Nat /\ x \in Nat /\ r \in 0..(n - 1) /\ x = n * q + r
  BY <1>1, <1>2
<1> HIDE DEF q, r, x
<1>4. (n * q + r) % n = r
  BY <1>3, ModUnique
<1> QED BY <1>3, <1>4 DEF r, x

-----------------------------------------------------------------------------
(***************************************************************************)
(* The queue.  The head is the number of jobs begun and the tail that of   *)
(* jobs accepted, both modulo the size of the queue; a job is kept at its  *)
(* number, less one, modulo the size.                                      *)
(***************************************************************************)
Room == IF queueSize = 1 THEN 1 ELSE queueSize - 1

QueueInv ==
  /\ queueSize \in Nat \ {0}
  /\ queue \in [0..(queueSize - 1) -> Nat \union {NoJob}]
  /\ accepted \in Nat
  /\ started \in Seq(Nat)
  /\ Len(started) <= accepted
  /\ accepted - Len(started) <= Room
  /\ queueHead = Len(started) % queueSize
  /\ queueTail = accepted % queueSize
  /\ queueEmpty \in BOOLEAN
  /\ queueEmpty <=> Len(started) = accepted
  /\ \A i \in 1..Len(started) : started[i] = i
  /\ \A i \in (Len(started) + 1)..accepted : queue[(i - 1) % queueSize] = i

\* A new queue is empty, whatever its size.
LEMMA QueueInit == Init => QueueInv
<1> SUFFICES ASSUME Init PROVE QueueInv
  OBVIOUS
<1>1. PICK size \in QueueSizes : queueSize = size + 1 /\ queue = [i \in 0..size |-> NoJob]
  BY DEF Init
<1>2. size \in Nat
  BY PoolAssumption
<1>3. started = <<>> /\ Len(started) = 0 /\ started \in Seq(Nat)
  BY EmptySeq DEF Init
<1>4. 0 % queueSize = 0
  <2>1. queueSize \in Nat \ {0}
    BY <1>1, <1>2
  <2>2. (queueSize * 0 + 0) % queueSize = 0
    BY <2>1, ModUnique
  <2> QED BY <2>1, <2>2
<1> QED BY <1>1, <1>2, <1>3, <1>4 DEF Init, QueueInv, Room

\* The variables of the queue.
queueVars == <<queueSize, queue, queueHead, queueTail, queueEmpty, accepted, started>>

\* A job is accepted only when there is room for it.
LEMMA NotFull ==
  ASSUME QueueInv, ~isQueueFull
  PROVE  accepted - Len(started) < Room
<1> DEFINE n == Len(started)
<1>1. /\ n \in Nat /\ accepted \in Nat /\ queueSize \in Nat \ {0}
      /\ accepted - n <= Room
  BY DEF QueueInv
<1>2. CASE queueSize = 1
  <2>1. ~(queueSize > 1)
    BY <1>2
  <2>2. queueEmpty
    BY <2>1, Zenon DEF isQueueFull
  <2> QED BY <1>1, <1>2, <2>2 DEF QueueInv, Room
<1>3. CASE queueSize # 1
  <2>1. queueSize > 1 /\ Room = queueSize - 1
    BY <1>1, <1>3 DEF Room
  <2>2. queueHead # (queueTail + 1) % queueSize
    BY <2>1, Zenon DEF isQueueFull
  <2>3. queueHead = n % queueSize /\ queueTail = accepted % queueSize
    BY DEF QueueInv
  <2> HIDE DEF n
  <2> SUFFICES ASSUME accepted + 1 = n + queueSize PROVE FALSE
    BY <1>1, <2>1 DEF n
  <2>4. (queueTail + 1) % queueSize = (accepted + 1) % queueSize
    BY <1>1, <2>3, ModAdd
  <2>5. (n + queueSize) % queueSize = n % queueSize
    BY <1>1, ModPeriod, Zenon
  <2> QED BY <2>2, <2>3, <2>4, <2>5
<1> QED BY <1>2, <1>3

\* What AddInternal does to the queue.
LEMMA AddKeepsQueue ==
  ASSUME QueueInv, ~isQueueFull \/ shutdown, AddInternal,
         UNCHANGED <<queueSize, queueHead, started>>
  PROVE  QueueInv'
<1>1. CASE shutdown
  BY <1>1 DEF AddInternal, QueueInv, Room
<1>2. CASE ~shutdown
  <2> DEFINE n == Len(started)
  <2>1. /\ n \in Nat /\ accepted \in Nat /\ queueSize \in Nat \ {0}
        /\ n <= accepted /\ accepted < n + Room
    BY <1>2, NotFull DEF QueueInv, Room
  <2>2. /\ queueEmpty' = FALSE
        /\ queue' = [queue EXCEPT ![queueTail] = accepted + 1]
        /\ queueTail' = (queueTail + 1) % queueSize
        /\ accepted' = accepted + 1
    BY <1>2 DEF AddInternal
  <2>3. queueTail = accepted % queueSize /\ queueTail \in 0..(queueSize - 1)
    BY <2>1, DivMod DEF QueueInv
  <2>4. queueTail' = accepted' % queueSize
    BY <2>1, <2>2, <2>3, ModAdd
  <2>5. queue' \in [0..(queueSize - 1) -> Nat \union {NoJob}]
    BY <2>1, <2>2, <2>3 DEF QueueInv
  <2>6. ASSUME NEW i \in (n + 1)..accepted'
        PROVE  queue'[(i - 1) % queueSize] = i
    <3>1. i - 1 \in Nat
      BY <2>1, <2>2
    <3>2. (i - 1) % queueSize \in 0..(queueSize - 1)
      BY <2>1, <3>1, DivMod
    <3>3. CASE i = accepted + 1
      BY <2>1, <2>2, <2>3, <3>3 DEF QueueInv
    <3>4. CASE i # accepted + 1
      <4>1. i \in (n + 1)..accepted
        BY <2>1, <2>2, <3>4
      <4>2. i - 1 < accepted /\ accepted < (i - 1) + queueSize
        BY <2>1, <4>1 DEF Room
      <4>3. (i - 1) % queueSize # accepted % queueSize
        BY <2>1, <3>1, <4>2, ModDistinct
      <4> QED BY <2>2, <2>3, <3>2, <4>1, <4>3 DEF QueueInv
    <3> QED BY <3>3, <3>4
  <2>7. Room' = Room /\ Room \in Nat
    BY <2>1 DEF Room
  <2>8. /\ accepted' \in Nat /\ n <= accepted' /\ accepted' - n <= Room
        /\ queueEmpty' \in BOOLEAN /\ (queueEmpty' <=> n = accepted')
    <3>1. accepted' \in Nat /\ n <= accepted' /\ accepted' - n <= Room /\ n # accepted'
      BY <2>1, <2>2, <2>7
    <3>2. queueEmpty' \in BOOLEAN /\ ~queueEmpty'
      BY <2>2, Zenon
    <3> QED BY <3>1, <3>2, Zenon
  <2>9. n' = n /\ queueSize' = queueSize /\ queueHead' = queueHead /\ started' = started
    OBVIOUS
  <2>10. /\ queueHead' = n % queueSize /\ started \in Seq(Nat)
         /\ \A i \in 1..n : started[i] = i
    BY <2>9 DEF QueueInv
  <2> QED BY <2>1, <2>4, <2>5, <2>6, <2>7, <2>8, <2>9, <2>10 DEF QueueInv
<1> QED BY <1>1, <1>2

\* Pop takes the next job, and knows whether it was the last.
LEMMA PopKeepsQueue ==
  ASSUME QueueInv, NEW w \in Workers, Pop(w)
  PROVE  /\ QueueInv'
         /\ queue[queueHead] = Len(started) + 1
         /\ Len(started) < accepted
         /\ Len(started') = Len(started) + 1
<1> DEFINE n == Len(started)
<1>1. /\ n \in Nat /\ accepted \in Nat /\ queueSize \in Nat \ {0}
      /\ n <= accepted /\ accepted - n <= Room
  BY DEF QueueInv
<1>2. n < accepted
  <2>1. ~queueEmpty
    BY Zenon DEF Pop, NothingToPop
  <2> QED BY <1>1, <2>1 DEF QueueInv
<1>3. queue[queueHead] = n + 1
  <2>1. n + 1 \in (n + 1)..accepted
    BY <1>1, <1>2
  <2>2. queue[((n + 1) - 1) % queueSize] = n + 1
    BY <2>1 DEF QueueInv
  <2> QED BY <1>1, <2>2 DEF QueueInv
<1>4. started' = Append(started, n + 1)
  BY <1>3 DEF Pop
<1>5. /\ started' \in Seq(Nat) /\ Len(started') = n + 1
      /\ \A i \in 1..(n + 1) : started'[i] = i
  BY <1>1, <1>4 DEF QueueInv
<1>6. queueHead' = (n + 1) % queueSize
  <2>1. queueHead' = ((n % queueSize) + 1) % queueSize
    BY DEF Pop, QueueInv
  <2> HIDE DEF n
  <2> QED BY <1>1, <2>1, ModAdd
<1>7. queueEmpty' \in BOOLEAN /\ (queueEmpty' <=> n + 1 = accepted)
  <2>0. queueEmpty' = (queueHead' = queueTail) /\ queueTail = accepted % queueSize
    BY DEF Pop, QueueInv
  <2>1. queueEmpty' \in BOOLEAN /\ (queueEmpty' <=> (n + 1) % queueSize = accepted % queueSize)
    BY <1>6, <2>0
  <2>2. CASE n + 1 = accepted
    BY <2>1, <2>2
  <2>3. CASE n + 1 # accepted
    <3>1. n + 1 < accepted /\ accepted < (n + 1) + queueSize
      BY <1>1, <1>2, <2>3 DEF Room
    <3>2. (n + 1) % queueSize # accepted % queueSize
      <4>1. n + 1 \in Nat
        BY <1>1
      <4> QED BY <1>1, <3>1, <4>1, ModDistinct, Zenon
    <3> QED BY <2>1, <2>3, <3>2
  <2> QED BY <2>2, <2>3
<1>8. UNCHANGED <<queueSize, queue, queueTail, accepted>>
  BY DEF Pop
<1>9. Room' = Room /\ Room \in Nat
  BY <1>1, <1>8 DEF Room
<1>10. QueueInv'
  BY <1>1, <1>2, <1>5, <1>6, <1>7, <1>8, <1>9 DEF QueueInv
<1> QED BY <1>2, <1>3, <1>5, <1>10

\* Every step keeps the queue in order.
LEMMA QueueNext == QueueInv /\ [Next]_vars => QueueInv'
<1> SUFFICES ASSUME QueueInv, [Next]_vars PROVE QueueInv'
  OBVIOUS
<1>0. UNCHANGED queueVars => QueueInv'
  BY DEF queueVars, QueueInv, Room
<1>1. CASE LifeStep
  BY <1>0, <1>1 DEF LifeStep, CreateThread, CreateReturns, CreateFails, BeginFree, ShutDown,
       WakePushers, WakePoppers, FreeReturns, ctxVars, history, queueVars
<1>2. ASSUME NEW w \in Workers, WorkerStep(w)
      PROVE  QueueInv'
  <2>1. CASE Pop(w)
    BY <2>1, PopKeepsQueue
  <2>2. CASE Exit(w) \/ WaitForJob(w) \/ FinishJob(w)
    BY <1>0, <2>2 DEF Exit, WaitForJob, FinishJob, ctxVars, history, queueVars
  <2> QED BY <1>2, <2>1, <2>2 DEF WorkerStep
<1>3. ASSUME NEW c \in Callers, CallerStep(c)
      PROVE  QueueInv'
  <2>1. CASE Add(c) \/ TryAdd(c)
    BY <2>1, AddKeepsQueue DEF Add, TryAdd
  <2>2. CASE AddWaits(c) \/ JoinJobsWaits(c) \/ JoinJobsReturns(c) \/ Resize(c)
    BY <1>0, <2>2 DEF AddWaits, JoinJobsWaits, JoinJobsReturns, Resize, ctxVars, history, queueVars
  <2> QED BY <1>3, <2>1, <2>2 DEF CallerStep, InCall
<1>4. CASE WakeForNothing \/ Terminated \/ UNCHANGED vars
  BY <1>0, <1>4 DEF WakeForNothing, Terminated, vars, ctxVars, history, queueVars
<1> QED BY <1>1, <1>2, <1>3, <1>4 DEF Next

\* So the queue is in order in every state.
LEMMA QueueAlways == Spec => []QueueInv
BY QueueInit, QueueNext, PTL DEF Spec

\* Head, tail and queueEmpty always agree on which jobs wait, whatever the
\* size of the queue: none is lost, overwritten or begun twice.
THEOREM RunsInOrder == Spec => []JobsRunInOrder
<1>1. QueueInv => JobsRunInOrder
  <2> SUFFICES ASSUME QueueInv PROVE JobsRunInOrder
    OBVIOUS
  <2> DEFINE n == Len(started)
  <2>1. n \in Nat /\ accepted \in Nat /\ queueSize \in Nat \ {0} /\ n <= accepted
    BY DEF QueueInv
  <2>2. started = [i \in 1..n |-> i]
    BY <2>1 DEF QueueInv
  <2>3. ASSUME NEW i \in (n + 1)..accepted
        PROVE  queue[(queueHead + (i - n - 1)) % queueSize] = i
    <3> DEFINE k == i - n - 1
    <3>1. k \in Nat /\ n + k = i - 1
      BY <2>1
    <3>3. queueHead = n % queueSize
      BY DEF QueueInv
    <3> HIDE DEF k, n
    <3>2. (queueHead + k) % queueSize = (i - 1) % queueSize
      BY <2>1, <3>1, <3>3, ModAdd
    <3> QED BY <3>2 DEF k, n, QueueInv
  <2> QED BY <2>2, <2>3 DEF JobsRunInOrder, QueueInv
<1> QED BY <1>1, QueueAlways, PTL

-----------------------------------------------------------------------------
(***************************************************************************)
(* The life of the pool and the calls.                                     *)
(***************************************************************************)
CallInv ==
  /\ phase \in {"create", "open", "free", "wakePushers", "wakePoppers", "join", "freed"}
  /\ cpc \in [Callers -> {"idle", "add", "addWait", "join", "joinWait"}]
  /\ shutdown \in BOOLEAN
  /\ shutdown <=> phase \in {"wakePushers", "wakePoppers", "join", "freed"}
  /\ \A c \in Callers : cpc[c] # "idle" => phase = "open"
  /\ resizes \in 0..MaxResizes

\* Waking callers ends no call and begins none.
LEMMA WokenCallers ==
  ASSUME CallInv, SignalPush \/ BroadcastPush
                    \/ \E c \in Pushing : cpc' = [cpc EXCEPT ![c] = Woken(@)]
  PROVE  /\ cpc' \in [Callers -> {"idle", "add", "addWait", "join", "joinWait"}]
         /\ \A c \in Callers : cpc'[c] = "idle" <=> cpc[c] = "idle"
BY DEF CallInv, SignalPush, BroadcastPush, Pushing, Woken

\* No call is under way at first.
LEMMA CallInit == Init => CallInv
BY PoolAssumption DEF Init, CallInv

\* Every step keeps calls and phases together.
LEMMA CallNext == CallInv /\ [Next]_vars => CallInv'
<1> SUFFICES ASSUME CallInv, [Next]_vars PROVE CallInv'
  OBVIOUS
<1>1. CASE LifeStep
  <2>1. CASE WakePushers
    BY <2>1, WokenCallers DEF WakePushers, CallInv, ctxVars
  <2>2. CASE CreateThread \/ CreateReturns \/ CreateFails \/ BeginFree
    BY <2>2 DEF CreateThread, CreateReturns, CreateFails, BeginFree, CallInv, ctxVars
  <2>3. CASE ShutDown \/ WakePoppers \/ FreeReturns
    BY <2>3 DEF ShutDown, WakePoppers, FreeReturns, CallInv, ctxVars
  <2> QED BY <1>1, <2>1, <2>2, <2>3 DEF LifeStep
<1>2. ASSUME NEW w \in Workers, WorkerStep(w)
      PROVE  CallInv'
  <2>1. CASE Exit(w) \/ WaitForJob(w)
    BY <2>1 DEF Exit, WaitForJob, CallInv, ctxVars
  <2>2. CASE Pop(w) \/ FinishJob(w)
    <3>1. SignalPush /\ UNCHANGED <<phase, shutdown, resizes>>
      BY <2>2 DEF Pop, FinishJob
    <3> QED BY <3>1, WokenCallers DEF CallInv
  <2> QED BY <1>2, <2>1, <2>2 DEF WorkerStep
<1>3. ASSUME NEW c \in Callers, CallerStep(c)
      PROVE  CallInv'
  <2>1. CASE Add(c)
    BY <2>1 DEF Add, CallInv
  <2>2. CASE AddWaits(c) \/ JoinJobsWaits(c) \/ JoinJobsReturns(c)
    BY <2>2 DEF AddWaits, JoinJobsWaits, JoinJobsReturns, MayAdd, MayJoin, MayCall, CallInv, ctxVars
  <2>3. CASE TryAdd(c) \/ Resize(c)
    BY <2>3, PoolAssumption DEF TryAdd, Resize, CallInv
  <2> QED BY <1>3, <2>1, <2>2, <2>3 DEF CallerStep, InCall
<1>4. CASE WakeForNothing
  <2>1. UNCHANGED <<phase, shutdown, resizes>>
    BY <1>4 DEF WakeForNothing, ctxVars
  <2>2. CASE UNCHANGED cpc
    BY <2>1, <2>2 DEF CallInv
  <2>3. CASE \E c \in Pushing : cpc' = [cpc EXCEPT ![c] = Woken(@)]
    BY <2>1, <2>3, WokenCallers DEF CallInv
  <2> QED BY <1>4, <2>2, <2>3 DEF WakeForNothing
<1>5. CASE Terminated \/ UNCHANGED vars
  BY <1>5 DEF Terminated, vars, ctxVars, CallInv
<1> QED BY <1>1, <1>2, <1>3, <1>4, <1>5 DEF Next

-----------------------------------------------------------------------------
(***************************************************************************)
(* The threads.  The count of busy threads is right, and while a job waits *)
(* a thread is left that will look for it.                                 *)
(***************************************************************************)
Running == {w \in Workers : wpc[w] = "running"}

Places == {"absent", "ready", "popWait", "running", "exited"}

ThreadInv ==
  /\ wpc \in [Workers -> Places]
  /\ threadCapacity \in 0..MaxThreads
  /\ threadLimit \in 0..threadCapacity
  /\ numThreadsBusy = Cardinality(Running)
  /\ \A w \in Workers : wpc[w] = "exited" => shutdown
  /\ \E k \in 0..MaxThreads : Created = 1..k
  /\ phase # "create" => Created = 1..threadCapacity
  /\ phase = "create" => accepted = 0 /\ threadCapacity = 0
  /\ phase = "open" \/ accepted > 0 => threadLimit > 0
  /\ Len(started) < accepted => \E w \in Workers : wpc[w] \notin {"absent", "exited"}
  /\ phase = "freed" => \A w \in Workers : wpc[w] \in {"absent", "exited"}

\* The threads that run a job can be counted.
LEMMA RunningFinite == IsFiniteSet(Running) /\ Cardinality(Running) \in Nat
<1>1. IsFiniteSet(Workers)
  BY PoolAssumption, FS_Interval DEF Workers
<1>2. Running \in SUBSET Workers
  BY DEF Running
<1>3. IsFiniteSet(Running)
  BY <1>1, <1>2, FS_Subset
<1> QED BY <1>3, FS_CardinalityType

\* Some threads went to sleep, or were woken.
Stirred ==
  /\ wpc' \in [Workers -> Places]
  /\ \A w \in Workers : \/ wpc'[w] = wpc[w]
                        \/ {wpc[w], wpc'[w]} \subseteq {"ready", "popWait"}

\* A signal changes neither which threads run nor which exist.
LEMMA StirredThreads ==
  ASSUME ThreadInv, Stirred
  PROVE  /\ Running' = Running
         /\ Created' = Created
         /\ \A w \in Workers : wpc'[w] = "exited" <=> wpc[w] = "exited"
         /\ \A w \in Workers : wpc'[w] \in {"absent", "exited"} <=> wpc[w] \in {"absent", "exited"}
BY DEF Stirred, Running, Created

\* Signals, broadcasts and single wake-ups of the threads are of this kind.
LEMMA SignalStirs ==
  ASSUME ThreadInv, SignalPop(wpc) \/ BroadcastPop(wpc) \/ UNCHANGED wpc
                      \/ \E w \in Waiting : wpc' = [wpc EXCEPT ![w] = "ready"]
  PROVE  Stirred
BY DEF ThreadInv, SignalPop, BroadcastPop, Stirred, Places, Waiting

\* Steps that only stir the threads.
LEMMA StirringKeepsThreads ==
  ASSUME ThreadInv, Stirred,
         \/ phase' = phase
         \/ phase # "create" /\ phase' \notin {"create", "open", "freed"},
         UNCHANGED <<threadCapacity, threadLimit, numThreadsBusy, accepted, started>>,
         shutdown => shutdown'
  PROVE  ThreadInv'
<1>1. /\ Running' = Running
      /\ Created' = Created
      /\ \A w \in Workers : wpc'[w] = "exited" <=> wpc[w] = "exited"
      /\ \A w \in Workers : wpc'[w] \in {"absent", "exited"} <=> wpc[w] \in {"absent", "exited"}
  BY StirredThreads
<1>2. wpc' \in [Workers -> Places]
  BY DEF Stirred
<1> QED BY <1>1, <1>2 DEF ThreadInv

\* Before POOL_create there are no threads.
LEMMA ThreadInit == Init => ThreadInv
<1> SUFFICES ASSUME Init PROVE ThreadInv
  OBVIOUS
<1>1. wpc = [w \in Workers |-> "absent"]
  BY DEF Init
<1>2. Running = {} /\ Cardinality(Running) = 0
  BY <1>1, FS_EmptySet DEF Running
<1>3. Created = 1..0 /\ 0 \in 0..MaxThreads
  BY <1>1, PoolAssumption DEF Created
<1>4. Len(started) = 0
  BY DEF Init
<1> QED BY <1>1, <1>2, <1>3, <1>4 DEF Init, ThreadInv, Places

\* Creating and freeing the pool keep the threads and their count.
LEMMA LifeKeepsThreads ==
  ASSUME CallInv, ThreadInv, LifeStep
  PROVE  ThreadInv'
<1>1. PICK k \in 0..MaxThreads : Created = 1..k
  BY DEF ThreadInv
<1>2. Cardinality(Created) = k
  BY <1>1, FS_Interval
<1>3. CASE CreateThread
  <2>1. k + 1 \in Workers /\ wpc[k + 1] = "absent"
    BY <1>1, <1>3, PoolAssumption DEF CreateThread, Created, Workers
  <2>2. wpc' = [wpc EXCEPT ![k + 1] = "ready"]
    BY <1>2, <1>3 DEF CreateThread
  <2>3. Running' = Running
    BY <2>1, <2>2 DEF Running, ThreadInv
  <2>4. Created' = 1..(k + 1) /\ k + 1 \in 0..MaxThreads
    <3>1. Created' = Created \union {k + 1}
      BY <2>1, <2>2 DEF Created, ThreadInv
    <3> QED BY <1>1, <2>1, <3>1, PoolAssumption DEF Workers
  <2>5. /\ wpc' \in [Workers -> Places]
        /\ \A w \in Workers : wpc'[w] = "exited" => wpc[w] = "exited"
    BY <2>1, <2>2 DEF ThreadInv, Places
  <2>6. /\ UNCHANGED <<threadCapacity, threadLimit, numThreadsBusy, shutdown, phase,
                       accepted, started>>
        /\ phase = "create"
    BY <1>3 DEF CreateThread, ctxVars, history
  <2>7. (Len(started) < accepted)' => \E w \in Workers : wpc'[w] \notin {"absent", "exited"}
    BY <2>1, <2>2, <2>6 DEF ThreadInv
  <2> QED BY <2>3, <2>4, <2>5, <2>6, <2>7 DEF ThreadInv
<1>4. CASE CreateReturns
  <2>1. k > 0
    BY <1>1, <1>4 DEF CreateReturns
  <2>2. Created' = Created /\ Running' = Running
    BY <1>4 DEF CreateReturns, Created, Running
  <2>3. /\ UNCHANGED <<wpc, numThreadsBusy, shutdown, accepted, started>>
        /\ phase = "create" /\ phase' = "open"
        /\ threadCapacity' = k /\ threadLimit' = k
    BY <1>2, <1>4 DEF CreateReturns, history
  <2> QED BY <1>1, <2>1, <2>2, <2>3 DEF ThreadInv
<1>5. CASE CreateFails
  <2>1. Created' = Created /\ Running' = Running
    BY <1>5 DEF CreateFails, Created, Running
  <2>2. threadLimit = 0
    BY <1>5 DEF CreateFails, ThreadInv
  <2>3. /\ UNCHANGED <<wpc, numThreadsBusy, threadLimit, shutdown, accepted, started>>
        /\ phase = "create" /\ phase' = "free"
        /\ threadCapacity' = k
    BY <1>2, <1>5 DEF CreateFails, history
  <2> QED BY <1>1, <2>1, <2>2, <2>3 DEF ThreadInv
<1>6. CASE BeginFree \/ ShutDown \/ WakePushers \/ WakePoppers
  <2>1. SignalPop(wpc) \/ BroadcastPop(wpc) \/ UNCHANGED wpc
    BY <1>6 DEF BeginFree, ShutDown, WakePushers, WakePoppers
  <2>2. Stirred
    BY <2>1, SignalStirs
  <2>3. /\ phase' \notin {"create", "open", "freed"} /\ phase # "create"
        /\ UNCHANGED <<threadCapacity, threadLimit, numThreadsBusy, accepted, started>>
        /\ shutdown => shutdown'
    BY <1>6 DEF BeginFree, ShutDown, WakePushers, WakePoppers, ctxVars, history, CallInv
  <2> QED BY <2>2, <2>3, StirringKeepsThreads
<1>7. CASE FreeReturns
  <2>1. Created' = Created /\ Running' = Running
    BY <1>7 DEF FreeReturns, Created, Running
  <2>2. Created = 1..threadCapacity /\ \A w \in 1..threadCapacity : wpc[w] = "exited"
    BY <1>7 DEF FreeReturns, ThreadInv
  <2>3. \A w \in Workers : wpc[w] \in {"absent", "exited"}
    BY <2>2 DEF Created
  <2> QED BY <1>7, <2>1, <2>3 DEF FreeReturns, ThreadInv, ctxVars, history
<1> QED BY <1>3, <1>4, <1>5, <1>6, <1>7 DEF LifeStep

\* A step of a thread keeps the threads and their count.
LEMMA WorkerKeepsThreads ==
  ASSUME QueueInv, CallInv, ThreadInv, NEW w \in Workers, WorkerStep(w)
  PROVE  ThreadInv'
<1>0. /\ Len(started) \in Nat /\ accepted \in Nat /\ Len(started) <= accepted
      /\ wpc \in [Workers -> Places]
      /\ IsFiniteSet(Running) /\ numThreadsBusy = Cardinality(Running) /\ numThreadsBusy \in Nat
  BY RunningFinite DEF QueueInv, ThreadInv
<1>1. CASE Exit(w)
  <2>1. wpc[w] = "ready" /\ wpc' = [wpc EXCEPT ![w] = "exited"] /\ shutdown
    BY <1>1 DEF Exit
  <2>2. Created' = Created /\ Running' = Running
    BY <1>0, <2>1 DEF Created, Running
  <2>3. ASSUME Len(started) < accepted
        PROVE  \E v \in Workers : wpc'[v] \notin {"absent", "exited"}
    <3>1. ~queueEmpty
      BY <1>0, <2>3 DEF QueueInv
    <3>2. numThreadsBusy >= threadLimit
      BY <1>1, <3>1, Zenon DEF Exit, NothingToPop
    <3>3. threadLimit > 0 /\ threadLimit \in Nat
      BY <1>0, <2>3, PoolAssumption DEF ThreadInv
    <3>4. Running # {}
      BY <1>0, <3>2, <3>3, FS_EmptySet
    <3>5. PICK v \in Workers : wpc[v] = "running"
      BY <3>4 DEF Running
    <3> QED BY <1>0, <2>1, <3>5
  <2>4. UNCHANGED <<threadCapacity, threadLimit, numThreadsBusy, shutdown, phase,
                    accepted, started>>
    BY <1>1 DEF Exit, ctxVars, history
  <2>5. wpc' \in [Workers -> Places]
    BY <1>0, <2>1 DEF Places
  <2>6. phase = "freed" => \A v \in Workers : wpc'[v] \in {"absent", "exited"}
    BY <2>1 DEF ThreadInv
  <2> QED BY <2>1, <2>2, <2>3, <2>4, <2>5, <2>6 DEF ThreadInv
<1>2. CASE WaitForJob(w)
  <2>1. Stirred
    BY <1>0, <1>2 DEF WaitForJob, Stirred, Places
  <2>2. /\ UNCHANGED <<threadCapacity, threadLimit, numThreadsBusy, accepted, started>>
        /\ phase' = phase
        /\ shutdown => shutdown'
    BY <1>2 DEF WaitForJob, ctxVars, history
  <2> QED BY <2>1, <2>2, StirringKeepsThreads
<1>3. CASE Pop(w)
  <2>1. wpc[w] = "ready" /\ wpc' = [wpc EXCEPT ![w] = "running"]
    BY <1>3 DEF Pop
  <2>2. Created' = Created /\ Running' = Running \union {w} /\ w \notin Running
    BY <1>0, <2>1 DEF Created, Running
  <2>3. Cardinality(Running') = numThreadsBusy + 1
    BY <1>0, <2>2, FS_AddElement
  <2>4. /\ UNCHANGED <<threadCapacity, threadLimit, shutdown, phase, accepted>>
        /\ numThreadsBusy' = numThreadsBusy + 1
    BY <1>3 DEF Pop
  <2>5. /\ wpc' \in [Workers -> Places] /\ wpc'[w] = "running"
        /\ \A v \in Workers : wpc'[v] = "exited" => wpc[v] = "exited"
    BY <1>0, <2>1 DEF Places
  <2>6. phase # "freed"
    BY <2>1 DEF ThreadInv
  <2> QED BY <2>2, <2>3, <2>4, <2>5, <2>6 DEF ThreadInv
<1>4. CASE FinishJob(w)
  <2>1. wpc[w] = "running" /\ wpc' = [wpc EXCEPT ![w] = "ready"]
    BY <1>4 DEF FinishJob
  <2>2. Created' = Created /\ Running' = Running \ {w} /\ w \in Running
    BY <1>0, <2>1 DEF Created, Running
  <2>3. Cardinality(Running') = numThreadsBusy - 1
    BY <1>0, <2>2, FS_RemoveElement
  <2>4. /\ UNCHANGED <<threadCapacity, threadLimit, shutdown, phase, accepted, started>>
        /\ numThreadsBusy' = numThreadsBusy - 1
    BY <1>4 DEF FinishJob
  <2>5. /\ wpc' \in [Workers -> Places] /\ wpc'[w] = "ready"
        /\ \A v \in Workers : wpc'[v] = "exited" => wpc[v] = "exited"
    BY <1>0, <2>1 DEF Places
  <2>6. phase # "freed"
    BY <2>1 DEF ThreadInv
  <2> QED BY <2>2, <2>3, <2>4, <2>5, <2>6 DEF ThreadInv
<1> QED BY <1>1, <1>2, <1>3, <1>4 DEF WorkerStep

\* Jobs are added to a pool that is open.
LEMMA AddsWhileOpen ==
  ASSUME CallInv, NEW c \in Callers, Add(c) \/ TryAdd(c)
  PROVE  phase = "open" /\ ~shutdown
<1>1. phase = "open"
  BY DEF Add, TryAdd, MayAdd, MayCall, CallInv
<1> QED BY <1>1 DEF CallInv

\* A job that is added only wakes a thread.
LEMMA AddingKeepsThreads ==
  ASSUME QueueInv, CallInv, ThreadInv, NEW c \in Callers, Add(c) \/ TryAdd(c)
  PROVE  ThreadInv'
<1>1. phase = "open" /\ ~shutdown
  BY AddsWhileOpen
<1>2. /\ UNCHANGED <<threadCapacity, threadLimit, numThreadsBusy, shutdown, phase, started>>
      /\ SignalPop(wpc) /\ accepted' = accepted + 1
  BY <1>1 DEF Add, TryAdd, AddInternal
<1>3. Stirred
  BY <1>2, SignalStirs
<1>4. /\ Running' = Running
      /\ Created' = Created
      /\ \A w \in Workers : wpc'[w] = "exited" <=> wpc[w] = "exited"
      /\ \A w \in Workers : wpc'[w] \in {"absent", "exited"} <=> wpc[w] \in {"absent", "exited"}
  BY <1>3, StirredThreads
<1>5. \E w \in Workers : wpc[w] \notin {"absent", "exited"}
  <2>1. 1 \in Created
    BY <1>1, PoolAssumption DEF ThreadInv
  <2> QED BY <1>1, <2>1 DEF Created, ThreadInv
<1>6. wpc' \in [Workers -> Places]
  BY <1>3 DEF Stirred
<1> QED BY <1>1, <1>2, <1>4, <1>5, <1>6 DEF ThreadInv

\* POOL_resize keeps the threads and their count.
LEMMA ResizeKeepsThreads ==
  ASSUME QueueInv, CallInv, ThreadInv, NEW c \in Callers, Resize(c)
  PROVE  ThreadInv'
<1>1. phase = "open" /\ ~shutdown /\ UNCHANGED <<shutdown, phase, accepted, started>>
  BY DEF Resize, MayCall, CallInv, history
<1>2. PICK n \in 0..MaxThreads : ResizeWithin(n) \/ ResizeBeyond(n)
  BY DEF Resize
<1>3. CASE ResizeWithin(n)
  <2>1. /\ UNCHANGED <<threadCapacity, numThreadsBusy>>
        /\ threadLimit' \in 0..threadCapacity /\ threadLimit' > 0
        /\ BroadcastPop(wpc)
    BY <1>1, <1>3, PoolAssumption DEF ResizeWithin, ThreadInv
  <2>2. Stirred
    BY <2>1, SignalStirs
  <2>3. /\ Running' = Running
        /\ Created' = Created
        /\ \A w \in Workers : wpc'[w] = "exited" <=> wpc[w] = "exited"
        /\ \A w \in Workers : wpc'[w] \in {"absent", "exited"} <=> wpc[w] \in {"absent", "exited"}
    BY <2>2, StirredThreads
  <2>4. wpc' \in [Workers -> Places]
    BY <2>2 DEF Stirred
  <2> QED BY <1>1, <2>1, <2>3, <2>4 DEF ThreadInv
<1>4. CASE ResizeBeyond(n)
  <2>1. PICK got \in threadCapacity..n :
          /\ BroadcastPop([w \in Workers |-> IF wpc[w] = "absent" /\ w <= got
                                             THEN "ready" ELSE wpc[w]])
          /\ threadCapacity' = got
          /\ threadLimit' = IF got = n THEN n ELSE threadLimit
          /\ UNCHANGED numThreadsBusy
    BY <1>4 DEF ResizeBeyond
  <2>2. \A w \in Workers :
          wpc'[w] = IF wpc[w] = "popWait" \/ (wpc[w] = "absent" /\ w <= got)
                    THEN "ready" ELSE wpc[w]
    BY <2>1 DEF BroadcastPop
  <2>3. wpc' \in [Workers -> Places]
    BY <2>1 DEF BroadcastPop, ThreadInv, Places
  <2>4. threadCapacity \in Nat /\ got \in 0..MaxThreads /\ got >= threadCapacity
    BY <2>1, PoolAssumption DEF ThreadInv
  <2>5. Running' = Running
    BY <2>2 DEF Running
  <2>6. Created' = 1..got
    <3>1. Created = 1..threadCapacity
      BY <1>1 DEF ThreadInv
    <3>2. \A w \in Workers : wpc'[w] # "absent" <=> wpc[w] # "absent" \/ w <= got
      BY <2>2
    <3> QED BY <2>4, <3>1, <3>2, PoolAssumption DEF Created, Workers
  <2>7. threadLimit' \in 0..threadCapacity' /\ threadLimit' > 0
    BY <1>1, <1>4, <2>1, <2>4, PoolAssumption DEF ResizeBeyond, ThreadInv
  <2>8. \A w \in Workers : wpc'[w] = "exited" => wpc[w] = "exited"
    BY <2>2
  <2>9. Len(started') < accepted' => \E w \in Workers : wpc'[w] \notin {"absent", "exited"}
    BY <1>1, <2>2 DEF ThreadInv
  <2> QED BY <1>1, <2>1, <2>3, <2>4, <2>5, <2>6, <2>7, <2>8, <2>9 DEF ThreadInv
<1> QED BY <1>2, <1>3, <1>4

\* Every step keeps the threads and their count.
LEMMA ThreadNext == QueueInv /\ CallInv /\ ThreadInv /\ [Next]_vars => ThreadInv'
<1> SUFFICES ASSUME QueueInv, CallInv, ThreadInv, [Next]_vars PROVE ThreadInv'
  OBVIOUS
<1>1. CASE LifeStep
  BY <1>1, LifeKeepsThreads
<1>2. ASSUME NEW w \in Workers, WorkerStep(w)
      PROVE  ThreadInv'
  BY <1>2, WorkerKeepsThreads
<1>3. ASSUME NEW c \in Callers, CallerStep(c)
      PROVE  ThreadInv'
  <2>1. CASE Add(c) \/ TryAdd(c)
    BY <2>1, AddingKeepsThreads
  <2>2. CASE Resize(c)
    BY <2>2, ResizeKeepsThreads
  <2>3. CASE AddWaits(c) \/ JoinJobsWaits(c) \/ JoinJobsReturns(c)
    <3>1. /\ UNCHANGED <<threadCapacity, threadLimit, numThreadsBusy, accepted, started>>
          /\ phase' = phase
          /\ shutdown => shutdown'
          /\ UNCHANGED wpc
      BY <2>3 DEF AddWaits, JoinJobsWaits, JoinJobsReturns, ctxVars, history
    <3>2. Stirred
      BY <3>1, SignalStirs
    <3> QED BY <3>1, <3>2, StirringKeepsThreads
  <2> QED BY <1>3, <2>1, <2>2, <2>3 DEF CallerStep, InCall
<1>4. CASE WakeForNothing \/ Terminated \/ UNCHANGED vars
  <2>1. /\ UNCHANGED <<threadCapacity, threadLimit, numThreadsBusy, accepted, started>>
        /\ phase' = phase
        /\ shutdown => shutdown'
    BY <1>4 DEF WakeForNothing, Terminated, vars, ctxVars, history
  <2>2. UNCHANGED wpc \/ \E w \in Waiting : wpc' = [wpc EXCEPT ![w] = "ready"]
    BY <1>4 DEF WakeForNothing, Terminated, vars
  <2>3. Stirred
    BY <2>2, SignalStirs
  <2> QED BY <2>1, <2>3, StirringKeepsThreads
<1> QED BY <1>1, <1>2, <1>3, <1>4 DEF Next

-----------------------------------------------------------------------------
(***************************************************************************)
(* The jobs.  One that was begun is finished or run by one worker.         *)
(***************************************************************************)
Begun == 1..Len(started)

JobsInv ==
  /\ job \in [Workers -> Nat \union {NoJob}]
  /\ finished \subseteq Begun
  /\ \A w \in Running : job[w] \in Begun \ finished
  /\ \A v, w \in Running : job[v] = job[w] => v = w
  /\ \A j \in Begun \ finished : \E w \in Running : job[w] = j

PoolInv == QueueInv /\ CallInv /\ ThreadInv /\ JobsInv

\* At first no job has been begun.
LEMMA JobsInit == Init => JobsInv
BY DEF Init, JobsInv, Running, Begun

\* A thread that takes or ends a job keeps track of it.
LEMMA WorkerKeepsJobs ==
  ASSUME PoolInv, NEW w \in Workers, WorkerStep(w)
  PROVE  JobsInv'
<1>0. /\ Len(started) \in Nat /\ wpc \in [Workers -> Places]
      /\ job \in [Workers -> Nat \union {NoJob}]
  BY DEF PoolInv, QueueInv, ThreadInv, JobsInv
<1>1. CASE Exit(w) \/ WaitForJob(w)
  <2>1. Running' = Running
    BY <1>0, <1>1 DEF Exit, WaitForJob, Running
  <2>2. UNCHANGED <<job, finished, started>>
    BY <1>1 DEF Exit, WaitForJob, history
  <2> QED BY <2>1, <2>2 DEF PoolInv, JobsInv, Begun
<1>2. CASE Pop(w)
  <2> DEFINE n == Len(started)
  <2>1. queue[queueHead] = n + 1 /\ Len(started') = n + 1
    BY <1>2, PopKeepsQueue DEF PoolInv
  <2>2. /\ wpc[w] = "ready" /\ wpc' = [wpc EXCEPT ![w] = "running"]
        /\ job' = [job EXCEPT ![w] = n + 1]
        /\ finished' = finished
    BY <1>2, <2>1 DEF Pop
  <2>3. Running' = Running \union {w} /\ w \notin Running
    BY <1>0, <2>2 DEF Running
  <2>4. Begun' = Begun \union {n + 1} /\ n + 1 \notin Begun
    BY <1>0, <2>1 DEF Begun
  <2>5. job' \in [Workers -> Nat \union {NoJob}] /\ job'[w] = n + 1
    BY <1>0, <2>2
  <2>6. \A v \in Running : v \in Workers /\ v # w /\ job'[v] = job[v]
    BY <1>0, <2>2, <2>3 DEF Running
  <2> HIDE DEF n
  <2>7. /\ finished \subseteq Begun
        /\ \A v \in Running : job[v] \in Begun \ finished
        /\ \A u, v \in Running : job[v] = job[u] => v = u
        /\ \A j \in Begun \ finished : \E v \in Running : job[v] = j
    BY DEF PoolInv, JobsInv
  <2>8. \A v \in Running' : job'[v] \in Begun' \ finished'
    BY <2>2, <2>3, <2>4, <2>5, <2>6, <2>7
  <2>9. \A u, v \in Running' : job'[u] = job'[v] => u = v
    BY <2>3, <2>4, <2>5, <2>6, <2>7
  <2>10. \A j \in Begun' \ finished' : \E v \in Running' : job'[v] = j
    BY <2>2, <2>3, <2>4, <2>5, <2>6, <2>7
  <2> QED BY <2>2, <2>4, <2>5, <2>7, <2>8, <2>9, <2>10 DEF JobsInv
<1>3. CASE FinishJob(w)
  <2>1. /\ wpc[w] = "running" /\ wpc' = [wpc EXCEPT ![w] = "ready"]
        /\ job' = [job EXCEPT ![w] = NoJob]
        /\ finished' = finished \union {job[w]}
        /\ started' = started
    BY <1>3 DEF FinishJob
  <2>2. Running' = Running \ {w} /\ w \in Running
    BY <1>0, <2>1 DEF Running
  <2>3. Begun' = Begun
    BY <2>1 DEF Begun
  <2>4. job' \in [Workers -> Nat \union {NoJob}]
    BY <1>0, <2>1
  <2>5. \A v \in Running' : v \in Running /\ v # w /\ job'[v] = job[v]
    BY <1>0, <2>1, <2>2 DEF Running
  <2>6. /\ finished \subseteq Begun
        /\ \A v \in Running : job[v] \in Begun \ finished
        /\ \A u, v \in Running : job[v] = job[u] => v = u
        /\ \A j \in Begun \ finished : \E v \in Running : job[v] = j
    BY DEF PoolInv, JobsInv
  <2>7. finished' \subseteq Begun'
    BY <2>1, <2>2, <2>3, <2>6
  <2>8. \A v \in Running' : job'[v] \in Begun' \ finished'
    BY <2>1, <2>2, <2>3, <2>5, <2>6
  <2>9. \A u, v \in Running' : job'[u] = job'[v] => u = v
    BY <2>5, <2>6
  <2>10. \A j \in Begun' \ finished' : \E v \in Running' : job'[v] = j
    <3> SUFFICES ASSUME NEW j \in Begun' \ finished' PROVE \E v \in Running' : job'[v] = j
      OBVIOUS
    <3>1. PICK v \in Running : job[v] = j
      BY <2>1, <2>3, <2>6
    <3>2. v # w
      BY <2>1, <3>1
    <3> QED BY <2>2, <2>5, <3>1, <3>2
  <2> QED BY <2>4, <2>7, <2>8, <2>9, <2>10 DEF JobsInv
<1> QED BY <1>1, <1>2, <1>3 DEF WorkerStep

\* All the other steps leave the running workers alone.
LEMMA OthersKeepRunning ==
  ASSUME PoolInv, LifeStep \/ (\E c \in Callers : CallerStep(c)) \/ WakeForNothing
                    \/ Terminated \/ UNCHANGED vars
  PROVE  Running' = Running /\ UNCHANGED <<job, finished, started>>
<1>0. ThreadInv /\ wpc \in [Workers -> Places]
  BY DEF PoolInv, ThreadInv
<1>1. CASE LifeStep
  <2>1. UNCHANGED <<job, finished, started>>
    BY <1>1 DEF LifeStep, CreateThread, CreateReturns, CreateFails, BeginFree, ShutDown,
         WakePushers, WakePoppers, FreeReturns, history
  <2>2. CASE CreateThread
    <3>1. PICK k \in 0..MaxThreads : Created = 1..k
      BY <1>0 DEF ThreadInv
    <3>2. Cardinality(Created) = k
      BY <3>1, FS_Interval
    <3>3. k + 1 \in Workers /\ wpc[k + 1] = "absent"
      BY <2>2, <3>1, PoolAssumption DEF CreateThread, Created, Workers
    <3>4. wpc' = [wpc EXCEPT ![k + 1] = "ready"]
      BY <2>2, <3>2 DEF CreateThread
    <3>5. Running' = Running
      BY <1>0, <3>3, <3>4 DEF Running
    <3> QED BY <2>1, <3>5
  <2>3. CASE BroadcastPop(wpc) \/ UNCHANGED wpc
    <3>1. Stirred
      BY <1>0, <2>3, SignalStirs
    <3> QED BY <1>0, <2>1, <3>1, StirredThreads
  <2> QED BY <1>1, <2>2, <2>3 DEF LifeStep, CreateReturns, CreateFails, BeginFree, ShutDown,
            WakePushers, WakePoppers, FreeReturns
<1>2. ASSUME NEW c \in Callers, CallerStep(c)
      PROVE  Running' = Running /\ UNCHANGED <<job, finished, started>>
  <2>1. UNCHANGED <<job, finished, started>>
    BY <1>2 DEF CallerStep, InCall, Add, TryAdd, AddWaits, JoinJobsWaits, JoinJobsReturns, Resize,
         history
  <2>2. CASE SignalPop(wpc) \/ BroadcastPop(wpc) \/ UNCHANGED wpc
    <3>1. Stirred
      BY <1>0, <2>2, SignalStirs
    <3> QED BY <1>0, <2>1, <3>1, StirredThreads
  <2>3. CASE Resize(c)
    <3>1. PICK n \in 0..MaxThreads : ResizeWithin(n) \/ ResizeBeyond(n)
      BY <2>3 DEF Resize
    <3>2. CASE ResizeWithin(n)
      BY <2>2, <3>2 DEF ResizeWithin
    <3>3. CASE ResizeBeyond(n)
      <4>1. \A w \in Workers : wpc'[w] = "running" <=> wpc[w] = "running"
        BY <3>3 DEF ResizeBeyond, BroadcastPop
      <4> QED BY <2>1, <4>1 DEF Running
    <3> QED BY <3>1, <3>2, <3>3
  <2>4. CASE Add(c) \/ TryAdd(c)
    BY <2>2, <2>4 DEF Add, TryAdd, AddInternal
  <2>5. CASE AddWaits(c) \/ JoinJobsWaits(c) \/ JoinJobsReturns(c)
    BY <2>2, <2>5 DEF AddWaits, JoinJobsWaits, JoinJobsReturns
  <2> QED BY <1>2, <2>3, <2>4, <2>5 DEF CallerStep, InCall
<1>3. CASE WakeForNothing \/ Terminated \/ UNCHANGED vars
  <2>1. UNCHANGED <<job, finished, started>>
    BY <1>3 DEF WakeForNothing, Terminated, vars, history
  <2>2. UNCHANGED wpc \/ \E w \in Waiting : wpc' = [wpc EXCEPT ![w] = "ready"]
    BY <1>3 DEF WakeForNothing, Terminated, vars
  <2>3. Stirred
    BY <1>0, <2>2, SignalStirs
  <2> QED BY <1>0, <2>1, <2>3, StirredThreads
<1> QED BY <1>1, <1>2, <1>3

\* Every step keeps track of the jobs that were begun.
LEMMA JobsNext == PoolInv /\ [Next]_vars => JobsInv'
<1> SUFFICES ASSUME PoolInv, [Next]_vars PROVE JobsInv'
  OBVIOUS
<1>1. CASE \E w \in Workers : WorkerStep(w)
  BY <1>1, WorkerKeepsJobs
<1>2. CASE LifeStep \/ (\E c \in Callers : CallerStep(c)) \/ WakeForNothing
             \/ Terminated \/ UNCHANGED vars
  <2>1. Running' = Running /\ UNCHANGED <<job, finished, started>>
    BY <1>2, OthersKeepRunning
  <2> QED BY <2>1 DEF PoolInv, JobsInv, Begun
<1> QED BY <1>1, <1>2 DEF Next

\* The queue, the calls, the threads and the jobs together are inductive.
LEMMA InvariantOfPool == Spec => []PoolInv
<1>1. Init => PoolInv
  BY QueueInit, CallInit, ThreadInit, JobsInit DEF PoolInv
<1>2. PoolInv /\ [Next]_vars => PoolInv'
  BY QueueNext, CallNext, ThreadNext, JobsNext DEF PoolInv
<1> QED BY <1>1, <1>2, PTL DEF Spec

-----------------------------------------------------------------------------
(***************************************************************************)
(* What the invariant gives.                                               *)
(***************************************************************************)

\* Every field of POOL_ctx_s keeps its type: the positions stay inside of the
\* queue, the limit within the threads that exist, and the count of busy
\* threads is never negative.
THEOREM TypeCorrect == Spec => []TypeOK
<1>1. PoolInv => TypeOK
  <2> SUFFICES ASSUME PoolInv PROVE TypeOK
    OBVIOUS
  <2>1. Len(started) \in Nat /\ accepted \in Nat /\ queueSize \in Nat \ {0}
    BY DEF PoolInv, QueueInv
  <2>2. queueHead \in 0..(queueSize - 1) /\ queueTail \in 0..(queueSize - 1)
    BY <2>1, DivMod DEF PoolInv, QueueInv
  <2>3. numThreadsBusy \in Nat
    BY RunningFinite DEF PoolInv, ThreadInv
  <2>4. finished \subseteq Nat
    BY <2>1 DEF PoolInv, JobsInv, Begun
  <2>5. /\ threadLimit \in 0..threadCapacity /\ threadCapacity \in 0..MaxThreads
        /\ wpc \in [Workers -> {"absent", "ready", "popWait", "running", "exited"}]
    BY DEF PoolInv, ThreadInv, Places
  <2>6. /\ queue \in [0..(queueSize - 1) -> Nat \union {NoJob}]
        /\ queueEmpty \in BOOLEAN /\ started \in Seq(Nat)
    BY DEF PoolInv, QueueInv
  <2>7. job \in [Workers -> Nat \union {NoJob}]
    BY DEF PoolInv, JobsInv
  <2> QED BY <2>1, <2>2, <2>3, <2>4, <2>5, <2>6, <2>7 DEF TypeOK, PoolInv, CallInv
<1> QED BY <1>1, InvariantOfPool, PTL

\* No job waits and no thread is busy: every accepted job is finished.
LEMMA AllFinished ==
  ASSUME PoolInv, Len(started) = accepted, Running = {}
  PROVE  finished = 1..accepted
BY DEF PoolInv, JobsInv, Begun

\* POOL_joinJobs returns only when every job that was accepted is finished.
THEOREM JoinWaits == Spec => JoinWaitsForAll
<1>1. PoolInv /\ [Next]_vars =>
        [\A c \in Callers : cpc[c] = "join" /\ cpc'[c] = "idle" => finished = 1..accepted]_vars
  <2> SUFFICES ASSUME PoolInv, Next, NEW c \in Callers, cpc[c] = "join", cpc'[c] = "idle"
               PROVE  finished = 1..accepted
    OBVIOUS
  <2>0. CallInv
    BY DEF PoolInv
  <2>1. CASE JoinJobsReturns(c)
    <3>1. queueEmpty /\ ~(numThreadsBusy > 0)
      BY <2>1, Zenon DEF JoinJobsReturns, JobsLeft
    <3>2. Len(started) = accepted
      BY <3>1 DEF PoolInv, QueueInv
    <3>3. Running = {}
      BY <3>1, RunningFinite, FS_EmptySet DEF PoolInv, ThreadInv
    <3> QED BY <3>2, <3>3, AllFinished
  <2>2. CASE LifeStep
    <3>1. cpc' = cpc \/ BroadcastPush
      BY <2>2 DEF LifeStep, CreateThread, CreateReturns, CreateFails, BeginFree, ShutDown,
           WakePushers, WakePoppers, FreeReturns
    <3> QED BY <2>0, <3>1, WokenCallers
  <2>3. CASE \E w \in Workers : WorkerStep(w)
    <3>1. cpc' = cpc \/ SignalPush
      BY <2>3 DEF WorkerStep, Exit, WaitForJob, Pop, FinishJob
    <3> QED BY <2>0, <3>1, WokenCallers
  <2>4. ASSUME NEW d \in Callers, CallerStep(d), ~JoinJobsReturns(c)
        PROVE  FALSE
    <3>1. CASE d = c
      BY <2>0, <2>4, <3>1 DEF CallerStep, InCall, Add, TryAdd, AddWaits, JoinJobsWaits, Resize,
           MayAdd, MayJoin, MayCall, CallInv
    <3>2. CASE d # c
      BY <2>0, <2>4, <3>2 DEF CallerStep, InCall, Add, TryAdd, AddWaits, JoinJobsWaits,
           JoinJobsReturns, Resize, CallInv
    <3> QED BY <3>1, <3>2
  <2>5. CASE WakeForNothing
    BY <2>0, <2>5, WokenCallers DEF WakeForNothing
  <2>6. CASE Terminated
    BY <2>6 DEF Terminated, vars
  <2> QED BY <2>1, <2>2, <2>3, <2>4, <2>5, <2>6 DEF Next
<1> QED BY <1>1, InvariantOfPool, PTL DEF Spec, JoinWaitsForAll

\* A step of the pool is one of the steps that JobPool allows, or none of them.
LEMMA PromiseStep ==
  ASSUME PoolInv, [Next]_vars
  PROVE  [Promise!JobPoolNext]_(Promise!poolVars)
<1> DEFINE n == Len(started)
           open == phase # "freed"
<1>0. /\ n \in Nat /\ accepted \in Nat /\ queueSize \in Nat \ {0}
      /\ QueueInv /\ CallInv /\ ThreadInv /\ JobsInv
  BY DEF PoolInv, QueueInv
<1>1. ASSUME UNCHANGED <<queueSize, accepted, started, finished>>, open' = open
      PROVE  UNCHANGED Promise!poolVars
  BY <1>1 DEF Promise!poolVars
<1>2. CASE LifeStep
  <2>1. UNCHANGED <<queueSize, accepted, started, finished>>
    BY <1>2 DEF LifeStep, CreateThread, CreateReturns, CreateFails, BeginFree, ShutDown,
         WakePushers, WakePoppers, FreeReturns, history, ctxVars
  <2>2. CASE FreeReturns
    <3>1. \A w \in Workers : wpc[w] \in {"absent", "exited"}
      BY <1>0, <2>2 DEF FreeReturns, ThreadInv, Created
    <3>2. Running = {}
      BY <3>1 DEF Running
    <3>3. n = accepted
      BY <1>0, <3>1 DEF ThreadInv, QueueInv
    <3>4. finished = 1..accepted
      BY <3>2, <3>3, AllFinished
    <3>5. phase' = "freed"
      BY <2>2 DEF FreeReturns
    <3>6. Promise!Free
      BY <2>1, <3>4, <3>5 DEF Promise!Free, Promise!Idle
    <3> QED BY <3>6 DEF Promise!JobPoolNext
  <2>3. CASE ~FreeReturns
    <3>1. open' = open
      BY <1>2, <2>3 DEF LifeStep, CreateThread, CreateReturns, CreateFails, BeginFree, ShutDown,
           WakePushers, WakePoppers
    <3> QED BY <1>1, <2>1, <3>1
  <2> QED BY <2>2, <2>3
<1>3. ASSUME NEW w \in Workers, WorkerStep(w)
      PROVE  [Promise!JobPoolNext]_(Promise!poolVars)
  <2>1. CASE Exit(w) \/ WaitForJob(w)
    <3>1. UNCHANGED <<queueSize, accepted, started, finished, phase>>
      BY <2>1 DEF Exit, WaitForJob, history, ctxVars
    <3> QED BY <1>1, <3>1
  <2>2. CASE Pop(w)
    <3>1. n < accepted /\ Len(started') = n + 1
      BY <1>0, <2>2, PopKeepsQueue
    <3>2. UNCHANGED <<queueSize, accepted, finished, phase>> /\ wpc[w] = "ready"
      BY <2>2 DEF Pop
    <3>3. phase # "freed"
      BY <1>0, <3>2 DEF ThreadInv
    <3>4. Promise!Start
      BY <3>1, <3>2, <3>3 DEF Promise!Start, Promise!Same
    <3> QED BY <3>4 DEF Promise!JobPoolNext
  <2>3. CASE FinishJob(w)
    <3>1. /\ UNCHANGED <<queueSize, accepted, started, phase>> /\ wpc[w] = "running"
          /\ finished' = finished \union {job[w]}
      BY <2>3 DEF FinishJob
    <3>2. phase # "freed"
      BY <1>0, <3>1 DEF ThreadInv
    <3>3. job[w] \in (1..n) \ finished
      BY <1>0, <3>1 DEF JobsInv, Running, Begun
    <3>4. Promise!Finish(job[w])
      BY <3>1, <3>2, <3>3 DEF Promise!Finish, Promise!Same
    <3> QED BY <3>3, <3>4 DEF Promise!JobPoolNext
  <2> QED BY <1>3, <2>1, <2>2, <2>3 DEF WorkerStep
<1>4. ASSUME NEW c \in Callers, CallerStep(c)
      PROVE  [Promise!JobPoolNext]_(Promise!poolVars)
  <2>1. CASE Add(c) \/ TryAdd(c)
    <3>1. phase = "open" /\ ~shutdown
      BY <1>0, <2>1, AddsWhileOpen
    <3>2. /\ UNCHANGED <<queueSize, started, finished, phase>>
          /\ accepted' = accepted + 1 /\ ~isQueueFull
      BY <2>1, <3>1 DEF Add, TryAdd, AddInternal
    <3>3. accepted - n < Room
      BY <1>0, <3>2, NotFull
    <3>4. Promise!Accept
      BY <3>1, <3>2, <3>3 DEF Promise!Accept, Promise!Same, Room
    <3> QED BY <3>4 DEF Promise!JobPoolNext
  <2>2. CASE AddWaits(c) \/ JoinJobsWaits(c) \/ JoinJobsReturns(c) \/ Resize(c)
    <3>1. UNCHANGED <<queueSize, accepted, started, finished, phase>>
      BY <2>2 DEF AddWaits, JoinJobsWaits, JoinJobsReturns, Resize, history, ctxVars
    <3> QED BY <1>1, <3>1
  <2> QED BY <1>4, <2>1, <2>2 DEF CallerStep, InCall
<1>5. CASE WakeForNothing \/ Terminated \/ UNCHANGED vars
  <2>1. UNCHANGED <<queueSize, accepted, started, finished, phase>>
    BY <1>5 DEF WakeForNothing, Terminated, vars, history, ctxVars
  <2> QED BY <1>1, <2>1
<1> QED BY <1>2, <1>3, <1>4, <1>5 DEF Next

\* The pool implements JobPool: whatever the threads, the callers and
\* POOL_resize do, jobs begin once and in order, no more wait than there is
\* room for, and POOL_free returns only when all of them are finished.
THEOREM ImplementsJobPool == Spec => KeepsPromise
<1>1. Init => Promise!JobPoolInit
  <2> SUFFICES ASSUME Init PROVE Promise!JobPoolInit
    OBVIOUS
  <2>1. QueueInv
    BY QueueInit
  <2>2. Room \in Nat \ {0}
    BY <2>1 DEF QueueInv, Room
  <2> QED BY <2>2 DEF Init, Promise!JobPoolInit, Room
<1>2. PoolInv /\ [Next]_vars => [Promise!JobPoolNext]_(Promise!poolVars)
  BY PromiseStep
<1> QED BY <1>1, <1>2, InvariantOfPool, PTL DEF Spec, KeepsPromise, Promise!JobPoolSpec

-----------------------------------------------------------------------------
(***************************************************************************)
(* No signal is missing.  As many workers are awake as there are jobs in   *)
(* the queue, or as the limit allows to be busy in addition.               *)
(***************************************************************************)
Ready == {w \in Workers : wpc[w] = "ready"}

EnoughAwake ==
  \/ Cardinality(Ready) >= accepted - Len(started)
  \/ Cardinality(Ready) >= threadLimit - numThreadsBusy

AwakeInv == PoolInv /\ EnoughAwake

\* Any set of threads can be counted.
LEMMA SetsOfWorkers ==
  ASSUME NEW S \in SUBSET Workers
  PROVE  IsFiniteSet(S) /\ Cardinality(S) \in Nat
<1>1. IsFiniteSet(Workers)
  BY PoolAssumption, FS_Interval DEF Workers
<1>2. IsFiniteSet(S)
  BY <1>1, FS_Subset
<1> QED BY <1>2, FS_CardinalityType

\* The numbers the pool compares.
LEMMA PoolTypes ==
  ASSUME PoolInv
  PROVE  /\ accepted \in Nat /\ Len(started) \in Nat /\ Len(started) <= accepted
         /\ threadLimit \in Int /\ numThreadsBusy \in Int
         /\ wpc \in [Workers -> Places]
<1>1. accepted \in Nat /\ Len(started) \in Nat /\ Len(started) <= accepted
  BY DEF PoolInv, QueueInv
<1>2. threadLimit \in Int /\ wpc \in [Workers -> Places]
  BY PoolAssumption DEF PoolInv, ThreadInv
<1>3. numThreadsBusy \in Int
  BY RunningFinite DEF PoolInv, ThreadInv
<1> QED BY <1>1, <1>2, <1>3

\* If nobody sleeps and nobody has exited, all that are not busy are awake.
LEMMA AllAwake ==
  ASSUME NEW f \in [Workers -> {"absent", "ready", "running"}], NEW n \in 0..MaxThreads,
         {w \in Workers : f[w] # "absent"} = 1..n
  PROVE  Cardinality({w \in Workers : f[w] = "ready"})
           = n - Cardinality({w \in Workers : f[w] = "running"})
<1> DEFINE R == {w \in Workers : f[w] = "ready"}
           B == {w \in Workers : f[w] = "running"}
<1>1. R \in SUBSET Workers /\ B \in SUBSET Workers
  OBVIOUS
<1>2. /\ IsFiniteSet(R) /\ Cardinality(R) \in Nat
      /\ IsFiniteSet(B) /\ Cardinality(B) \in Nat
  BY <1>1, SetsOfWorkers
<1>3. R \union B = 1..n /\ R \intersect B = {}
  OBVIOUS
<1>4. Cardinality(1..n) = n
  BY FS_Interval
<1> HIDE DEF R, B
<1>5. Cardinality(R \union B) = Cardinality(R) + Cardinality(B) - Cardinality(R \intersect B)
  BY <1>2, FS_Union
<1>6. Cardinality(R \intersect B) = 0
  BY <1>3, FS_EmptySet
<1>7. Cardinality(R \union B) = n
  BY <1>3, <1>4
<1>8. Cardinality(R) = n - Cardinality(B)
  BY <1>2, <1>5, <1>6, <1>7
<1> QED BY <1>8 DEF R, B

\* Waking more workers does no harm.
LEMMA MoreAwake ==
  ASSUME AwakeInv, Ready \subseteq Ready',
         UNCHANGED <<threadLimit, numThreadsBusy, accepted, started>>
  PROVE  EnoughAwake'
<1>1. /\ accepted \in Nat /\ Len(started) \in Nat
      /\ threadLimit \in Int /\ numThreadsBusy \in Int
  BY PoolTypes DEF AwakeInv
<1>2. IsFiniteSet(Ready') /\ Cardinality(Ready') \in Nat /\ Cardinality(Ready) \in Nat
  BY SetsOfWorkers DEF Ready, Workers
<1>3. Cardinality(Ready) <= Cardinality(Ready')
  BY <1>2, FS_Subset
<1> QED BY <1>1, <1>2, <1>3 DEF AwakeInv, EnoughAwake

\* A thread that goes on or waits leaves enough of them awake.
LEMMA WorkerKeepsAwake ==
  ASSUME AwakeInv, NEW w \in Workers, WorkerStep(w), PoolInv'
  PROVE  EnoughAwake'
<1>1. /\ accepted \in Nat /\ Len(started) \in Nat /\ Len(started) <= accepted
      /\ threadLimit \in Int /\ numThreadsBusy \in Int
      /\ wpc \in [Workers -> Places]
      /\ QueueInv
  BY PoolTypes DEF AwakeInv, PoolInv
<1>2. /\ IsFiniteSet(Ready) /\ Cardinality(Ready) \in Nat
      /\ IsFiniteSet(Ready') /\ Cardinality(Ready') \in Nat
  BY SetsOfWorkers DEF Ready, Workers
<1>3. CASE Exit(w) \/ WaitForJob(w)
  <2>1. UNCHANGED <<threadLimit, numThreadsBusy, accepted, started>>
    BY <1>3 DEF Exit, WaitForJob, ctxVars, history
  <2>2. queueEmpty \/ numThreadsBusy >= threadLimit
    BY <1>3, Zenon DEF Exit, WaitForJob, NothingToPop
  <2>3. accepted = Len(started) \/ numThreadsBusy >= threadLimit
    BY <1>1, <2>2 DEF QueueInv
  <2> QED BY <1>1, <1>2, <2>1, <2>3 DEF EnoughAwake
<1>4. CASE Pop(w)
  <2>1. wpc[w] = "ready" /\ wpc' = [wpc EXCEPT ![w] = "running"]
    BY <1>4 DEF Pop
  <2>2. Ready' = Ready \ {w} /\ w \in Ready
    BY <1>1, <2>1 DEF Ready
  <2>3. Cardinality(Ready') = Cardinality(Ready) - 1
    BY <1>2, <2>2, FS_RemoveElement
  <2>4. Len(started') = Len(started) + 1
    BY <1>1, <1>4, PopKeepsQueue
  <2>5. UNCHANGED <<threadLimit, accepted>> /\ numThreadsBusy' = numThreadsBusy + 1
    BY <1>4 DEF Pop
  <2> QED BY <1>1, <1>2, <2>3, <2>4, <2>5 DEF EnoughAwake, AwakeInv
<1>5. CASE FinishJob(w)
  <2>1. wpc[w] = "running" /\ wpc' = [wpc EXCEPT ![w] = "ready"]
    BY <1>5 DEF FinishJob
  <2>2. Ready' = Ready \union {w} /\ w \notin Ready
    BY <1>1, <2>1 DEF Ready
  <2>3. Cardinality(Ready') = Cardinality(Ready) + 1
    BY <1>2, <2>2, FS_AddElement
  <2>4. /\ UNCHANGED <<threadLimit, accepted, started>>
        /\ numThreadsBusy' = numThreadsBusy - 1
    BY <1>5 DEF FinishJob
  <2> QED BY <1>1, <1>2, <2>3, <2>4 DEF EnoughAwake, AwakeInv
<1> QED BY <1>3, <1>4, <1>5 DEF WorkerStep

\* A job that is added wakes a worker, if one sleeps.
LEMMA AddingKeepsAwake ==
  ASSUME AwakeInv, NEW c \in Callers, Add(c) \/ TryAdd(c)
  PROVE  EnoughAwake'
<1>1. /\ accepted \in Nat /\ Len(started) \in Nat
      /\ threadLimit \in Int /\ numThreadsBusy \in Int
      /\ wpc \in [Workers -> Places]
      /\ CallInv /\ ThreadInv
  BY PoolTypes DEF AwakeInv, PoolInv
<1>2. phase = "open" /\ ~shutdown
  BY <1>1, AddsWhileOpen
<1>3. /\ UNCHANGED <<threadLimit, numThreadsBusy, started>>
      /\ SignalPop(wpc) /\ accepted' = accepted + 1
  BY <1>2 DEF Add, TryAdd, AddInternal
<1>4. IsFiniteSet(Ready) /\ Cardinality(Ready) \in Nat
  BY SetsOfWorkers DEF Ready
<1>5. CASE \E w \in Workers : wpc[w] = "popWait"
  <2>1. PICK w \in Workers : wpc[w] = "popWait" /\ wpc' = [wpc EXCEPT ![w] = "ready"]
    BY <1>3, <1>5 DEF SignalPop
  <2>2. Ready' = Ready \union {w} /\ w \notin Ready
    BY <1>1, <2>1 DEF Ready
  <2>3. Cardinality(Ready') = Cardinality(Ready) + 1
    BY <1>4, <2>2, FS_AddElement
  <2> QED BY <1>1, <1>3, <1>4, <2>3 DEF EnoughAwake, AwakeInv
<1>6. CASE ~\E w \in Workers : wpc[w] = "popWait"
  <2>1. wpc' = wpc
    BY <1>3, <1>6 DEF SignalPop
  <2>2. wpc \in [Workers -> {"absent", "ready", "running"}]
    BY <1>1, <1>2, <1>6 DEF ThreadInv, Places
  <2>3. Created = 1..threadCapacity /\ threadCapacity \in 0..MaxThreads
        /\ threadLimit <= threadCapacity /\ numThreadsBusy = Cardinality(Running)
    BY <1>1, <1>2, PoolAssumption DEF ThreadInv
  <2>4. Cardinality(Ready) = threadCapacity - numThreadsBusy
    BY <2>2, <2>3, AllAwake DEF Ready, Running, Created
  <2>5. Ready' = Ready
    BY <2>1 DEF Ready
  <2> QED BY <1>1, <1>3, <2>3, <2>4, <2>5 DEF EnoughAwake
<1> QED BY <1>5, <1>6

\* POOL_resize wakes everybody.
LEMMA ResizeKeepsAwake ==
  ASSUME AwakeInv, PoolInv', NEW c \in Callers, Resize(c)
  PROVE  EnoughAwake'
<1>1. phase' = "open" /\ ~shutdown'
  BY DEF Resize, MayCall, AwakeInv, PoolInv, CallInv
<1>2. \A w \in Workers : wpc'[w] # "popWait"
  BY DEF Resize, ResizeWithin, ResizeBeyond, BroadcastPop
<1>3. /\ Created' = 1..threadCapacity' /\ threadCapacity' \in 0..MaxThreads
      /\ threadLimit' \in 0..threadCapacity' /\ numThreadsBusy' = Cardinality(Running')
      /\ wpc' \in [Workers -> Places]
      /\ \A w \in Workers : wpc'[w] # "exited"
  BY <1>1 DEF PoolInv, ThreadInv, Workers
<1>4. wpc' \in [Workers -> {"absent", "ready", "running"}]
  BY <1>2, <1>3 DEF Places
<1>5. Cardinality(Ready') = threadCapacity' - numThreadsBusy'
  BY <1>3, <1>4, AllAwake DEF Ready, Running, Created, Workers
<1>6. numThreadsBusy' \in Int
  BY <1>3, SetsOfWorkers DEF Running, Workers
<1> QED BY <1>3, <1>5, <1>6, PoolAssumption DEF EnoughAwake

\* While jobs wait and the limit allows another busy thread, a worker is awake.
THEOREM NoSignalMissing == Spec => []NoWorkerOversleeps
<1>1. Init => EnoughAwake
  <2> SUFFICES ASSUME Init PROVE EnoughAwake
    OBVIOUS
  <2>1. accepted = 0 /\ Len(started) = 0
    BY DEF Init
  <2>2. Cardinality(Ready) \in Nat
    BY SetsOfWorkers DEF Ready
  <2> QED BY <2>1, <2>2 DEF EnoughAwake
<1>2. AwakeInv /\ PoolInv' /\ [Next]_vars => EnoughAwake'
  <2> SUFFICES ASSUME AwakeInv, PoolInv', [Next]_vars PROVE EnoughAwake'
    OBVIOUS
  <2>0. wpc \in [Workers -> Places]
    BY DEF AwakeInv, PoolInv, ThreadInv
  <2>1. CASE CreateThread \/ CreateReturns \/ CreateFails
    <3>1. accepted = 0 /\ UNCHANGED <<accepted, started>>
      BY <2>1 DEF CreateThread, CreateReturns, CreateFails, AwakeInv, PoolInv, ThreadInv, history
    <3>2. Len(started') \in Nat /\ Cardinality(Ready') \in Nat
      BY <3>1, SetsOfWorkers DEF Ready, Workers, AwakeInv, PoolInv, QueueInv
    <3> QED BY <3>1, <3>2 DEF EnoughAwake
  <2>2. CASE BeginFree \/ ShutDown \/ WakePushers \/ WakePoppers \/ FreeReturns
             \/ WakeForNothing \/ Terminated \/ UNCHANGED vars
    <3>1. UNCHANGED <<threadLimit, numThreadsBusy, accepted, started>>
      BY <2>2 DEF BeginFree, ShutDown, WakePushers, WakePoppers, FreeReturns, WakeForNothing,
         Terminated, vars, ctxVars, history
    <3>2. Ready \subseteq Ready'
      BY <2>0, <2>2 DEF BeginFree, ShutDown, WakePushers, WakePoppers, FreeReturns, WakeForNothing,
         Terminated, vars, Ready, BroadcastPop, Waiting
    <3> QED BY <3>1, <3>2, MoreAwake
  <2>3. CASE \E w \in Workers : WorkerStep(w)
    BY <2>3, WorkerKeepsAwake
  <2>4. ASSUME NEW c \in Callers, CallerStep(c)
        PROVE  EnoughAwake'
    <3>1. CASE Add(c) \/ TryAdd(c)
      BY <3>1, AddingKeepsAwake
    <3>2. CASE Resize(c)
      BY <3>2, ResizeKeepsAwake
    <3>3. CASE AddWaits(c) \/ JoinJobsWaits(c) \/ JoinJobsReturns(c)
      <4>1. /\ UNCHANGED <<threadLimit, numThreadsBusy, accepted, started>>
            /\ Ready' = Ready
        BY <3>3 DEF AddWaits, JoinJobsWaits, JoinJobsReturns, ctxVars, history, Ready
      <4> QED BY <4>1, MoreAwake
    <3> QED BY <2>4, <3>1, <3>2, <3>3 DEF CallerStep, InCall
  <2> QED BY <2>1, <2>2, <2>3, <2>4 DEF Next, LifeStep
<1>3. Spec => []AwakeInv
  BY <1>1, <1>2, InvariantOfPool, PTL DEF Spec, AwakeInv
<1>4. AwakeInv => NoWorkerOversleeps
  <2> SUFFICES ASSUME AwakeInv, ~queueEmpty, numThreadsBusy < threadLimit
               PROVE  \E w \in Workers : wpc[w] = "ready"
    BY DEF NoWorkerOversleeps
  <2>0. /\ accepted \in Nat /\ Len(started) \in Nat /\ Len(started) <= accepted
        /\ threadLimit \in Int /\ numThreadsBusy \in Int
    BY PoolTypes DEF AwakeInv
  <2>1. Len(started) < accepted
    BY <2>0 DEF AwakeInv, PoolInv, QueueInv
  <2>2. Cardinality(Ready) \in Nat
    BY SetsOfWorkers DEF Ready
  <2>3. Cardinality(Ready) # 0
    BY <2>0, <2>1, <2>2 DEF AwakeInv, EnoughAwake
  <2>4. Ready # {}
    BY <2>3, FS_EmptySet
  <2> QED BY <2>4 DEF Ready
<1> QED BY <1>3, <1>4, PTL

-----------------------------------------------------------------------------
(***************************************************************************)
(* No pusher is forgotten.  While a caller of POOL_add sleeps, as many     *)
(* callers are awake in POOL_add as the queue has free slots, for Pop      *)
(* signals each slot it frees; without a queue, one is awake, a thread is  *)
(* busy and will signal, or a job takes the only place.  Callers of        *)
(* POOL_joinJobs, which sleep on the same condition, are alone.            *)
(***************************************************************************)
Adders == {c \in Callers : cpc[c] = "add"}

JoinsAlone ==
  \A c, d \in Callers : cpc[c] \in {"join", "joinWait"} /\ c # d => cpc[d] = "idle"

FreeSlots == Room - (accepted - Len(started))

SlotsAnnounced ==
  \E S \in SUBSET Adders : IsFiniteSet(S) /\ Cardinality(S) >= FreeSlots

PlaceAnnounced == Adders # {} \/ numThreadsBusy > 0 \/ ~queueEmpty

PushersInv ==
  /\ JoinsAlone
  /\ (\E c \in Callers : cpc[c] = "addWait") =>
       IF queueSize = 1 THEN PlaceAnnounced ELSE SlotsAnnounced

\* A signal wakes a caller of POOL_add, if one sleeps.
LEMMA SignalReachesPusher ==
  ASSUME CallInv, JoinsAlone, SignalPush, NEW c \in Callers, cpc[c] = "addWait"
  PROVE  \E d \in Callers : cpc[d] = "addWait" /\ cpc' = [cpc EXCEPT ![d] = "add"]
<1>1. \A d \in Callers : cpc[d] \notin {"join", "joinWait"}
  BY DEF JoinsAlone
<1>2. Pushing # {}
  BY DEF Pushing
<1>3. PICK d \in Pushing : cpc' = [cpc EXCEPT ![d] = Woken(@)]
  BY <1>2, Zenon DEF SignalPush
<1>4. d \in Callers /\ cpc[d] = "addWait"
  BY <1>1, <1>3 DEF Pushing
<1> QED BY <1>3, <1>4 DEF Woken, CallInv

\* Who is woken stays in the call that went to sleep.
LEMMA WokenStay ==
  ASSUME CallInv, SignalPush \/ BroadcastPush
                    \/ \E c \in Pushing : cpc' = [cpc EXCEPT ![c] = Woken(@)]
  PROVE  \A c \in Callers :
           /\ cpc'[c] \in {"join", "joinWait"} <=> cpc[c] \in {"join", "joinWait"}
           /\ cpc'[c] = "idle" <=> cpc[c] = "idle"
           /\ cpc'[c] = "addWait" => cpc[c] = "addWait"
           /\ cpc[c] = "add" => cpc'[c] = "add"
BY DEF CallInv, SignalPush, BroadcastPush, Pushing, Woken

\* No step brings a join together with another call.
LEMMA JoinsStayAlone ==
  ASSUME CallInv, JoinsAlone, [Next]_vars
  PROVE  JoinsAlone'
<1>1. CASE UNCHANGED cpc
  BY <1>1 DEF JoinsAlone
<1>2. CASE SignalPush \/ BroadcastPush
             \/ \E c \in Pushing : cpc' = [cpc EXCEPT ![c] = Woken(@)]
  BY <1>2, WokenStay DEF JoinsAlone
<1>3. CASE LifeStep
  <2>1. UNCHANGED cpc \/ BroadcastPush
    BY <1>3 DEF LifeStep, CreateThread, CreateReturns, CreateFails, BeginFree, ShutDown,
       WakePushers, WakePoppers, FreeReturns
  <2> QED BY <2>1, <1>1, <1>2
<1>4. ASSUME NEW w \in Workers, WorkerStep(w)
      PROVE  JoinsAlone'
  <2>1. UNCHANGED cpc \/ SignalPush
    BY <1>4 DEF WorkerStep, Exit, WaitForJob, Pop, FinishJob
  <2> QED BY <2>1, <1>1, <1>2
<1>5. ASSUME NEW c \in Callers, CallerStep(c)
      PROVE  JoinsAlone'
  <2>0. cpc \in [Callers -> {"idle", "add", "addWait", "join", "joinWait"}]
    BY DEF CallInv
  <2>1. CASE Add(c)
    <3>1. cpc' = [cpc EXCEPT ![c] = "idle"]
      BY <2>1 DEF Add
    <3> QED BY <2>0, <3>1 DEF JoinsAlone
  <2>2. CASE AddWaits(c)
    <3>1. /\ cpc' = [cpc EXCEPT ![c] = "addWait"]
          /\ cpc[c] = "add" \/ \A d \in Callers : cpc[d] \notin {"join", "joinWait"}
      BY <2>2 DEF AddWaits, MayAdd, MayCall
    <3> QED BY <2>0, <3>1 DEF JoinsAlone
  <2>3. CASE JoinJobsWaits(c)
    <3>1. /\ cpc' = [cpc EXCEPT ![c] = "joinWait"]
          /\ cpc[c] = "join" \/ \A d \in Callers : cpc[d] = "idle"
      BY <2>3 DEF JoinJobsWaits, MayJoin
    <3> QED BY <2>0, <3>1 DEF JoinsAlone
  <2>4. CASE JoinJobsReturns(c)
    <3>1. cpc' = [cpc EXCEPT ![c] = "idle"]
      BY <2>4 DEF JoinJobsReturns
    <3> QED BY <2>0, <3>1 DEF JoinsAlone
  <2>5. CASE TryAdd(c) \/ Resize(c)
    BY <2>5, <1>1 DEF TryAdd, Resize
  <2> QED BY <1>5, <2>1, <2>2, <2>3, <2>4, <2>5 DEF CallerStep, InCall
<1>6. CASE WakeForNothing \/ Terminated \/ UNCHANGED vars
  BY <1>6, <1>1, <1>2 DEF WakeForNothing, Terminated, vars
<1> QED BY <1>3, <1>4, <1>5, <1>6 DEF Next

\* A queue with slots is full only when each of them holds a job.
LEMMA FullQueue ==
  ASSUME QueueInv, queueSize # 1, isQueueFull
  PROVE  FreeSlots = 0
<1> DEFINE n == Len(started)
<1>1. /\ n \in Nat /\ accepted \in Nat /\ queueSize \in Nat \ {0}
      /\ n <= accepted /\ accepted - n <= Room
      /\ queueHead = n % queueSize /\ queueTail = accepted % queueSize
  BY DEF QueueInv
<1>2. queueSize > 1 /\ Room = queueSize - 1
  BY <1>1 DEF Room
<1>3. queueHead = (queueTail + 1) % queueSize
  BY <1>2, Zenon DEF isQueueFull
<1> HIDE DEF n
<1>4. (queueTail + 1) % queueSize = (accepted + 1) % queueSize
  BY <1>1, ModAdd
<1>5. ~(accepted + 1 < n + queueSize)
  <2> DEFINE b == accepted + 1
  <2>1. b \in Nat /\ n < b
    BY <1>1
  <2> HIDE DEF b
  <2>2. b < n + queueSize => n % queueSize # b % queueSize
    BY <1>1, <2>1, ModDistinct
  <2>3. n % queueSize = b % queueSize
    BY <1>1, <1>3, <1>4 DEF b
  <2> QED BY <2>2, <2>3 DEF b
<1> QED BY <1>1, <1>2, <1>5 DEF FreeSlots, n

\* Callers that are woken, or slots that are taken, do no harm.
LEMMA MoreAdders ==
  ASSUME PushersInv, JoinsAlone', QueueInv, QueueInv',
         \A c \in Callers : cpc'[c] = "addWait" => cpc[c] = "addWait",
         Adders \subseteq Adders', queueSize' = queueSize, FreeSlots' <= FreeSlots,
         numThreadsBusy > 0 => numThreadsBusy' > 0 \/ Adders' # {},
         ~queueEmpty => ~queueEmpty'
  PROVE  PushersInv'
<1> SUFFICES ASSUME NEW c \in Callers, cpc'[c] = "addWait"
             PROVE  IF queueSize = 1 THEN PlaceAnnounced' ELSE SlotsAnnounced'
  BY DEF PushersInv
<1>1. cpc[c] = "addWait"
  OBVIOUS
<1>2. CASE queueSize = 1
  BY <1>1, <1>2 DEF PushersInv, PlaceAnnounced
<1>3. CASE queueSize # 1
  <2>1. PICK S \in SUBSET Adders : IsFiniteSet(S) /\ Cardinality(S) >= FreeSlots
    BY <1>1, <1>3 DEF PushersInv, SlotsAnnounced
  <2>2. Cardinality(S) \in Nat /\ FreeSlots \in Int /\ FreeSlots' \in Int
    BY <2>1, FS_CardinalityType DEF FreeSlots, QueueInv, Room
  <2>3. S \in SUBSET Adders' /\ Cardinality(S) >= FreeSlots'
    BY <2>1, <2>2
  <2>4. SlotsAnnounced'
    BY <2>1, <2>3 DEF SlotsAnnounced
  <2> QED BY <1>3, <2>4
<1> QED BY <1>2, <1>3

\* A thread that takes or ends a job passes the free slot on.
LEMMA WorkerKeepsPushers ==
  ASSUME PoolInv, PoolInv', PushersInv, JoinsAlone', NEW w \in Workers, WorkerStep(w)
  PROVE  PushersInv'
<1>0. CallInv /\ QueueInv /\ QueueInv'
  BY DEF PoolInv
<1>1. /\ accepted \in Nat /\ Len(started) \in Nat /\ Len(started) <= accepted
      /\ numThreadsBusy \in Int /\ Room \in Int
      /\ wpc \in [Workers -> Places]
  BY PoolTypes DEF PoolInv, QueueInv, Room
<1>2. CASE Exit(w) \/ WaitForJob(w)
  <2>1. UNCHANGED <<cpc, queueSize, accepted, started, numThreadsBusy, queueEmpty>>
    BY <1>2 DEF Exit, WaitForJob, ctxVars, history
  <2> QED BY <1>1, <2>1 DEF PushersInv, SlotsAnnounced, PlaceAnnounced, FreeSlots, Room, Adders
<1>3. CASE Pop(w)
  <2>1. Len(started') = Len(started) + 1
    BY <1>0, <1>1, <1>3, PopKeepsQueue
  <2>2. /\ UNCHANGED <<queueSize, accepted>> /\ numThreadsBusy' = numThreadsBusy + 1
        /\ SignalPush
    BY <1>3 DEF Pop
  <2>3. numThreadsBusy' > 0
    <3>1. numThreadsBusy \in Nat
      BY RunningFinite DEF PoolInv, ThreadInv
    <3> QED BY <2>2, <3>1
  <2>4. FreeSlots' = FreeSlots + 1 /\ FreeSlots \in Int
    BY <1>1, <2>1, <2>2 DEF FreeSlots, Room
  <2> SUFFICES ASSUME NEW c \in Callers, cpc'[c] = "addWait"
               PROVE  IF queueSize = 1 THEN PlaceAnnounced' ELSE SlotsAnnounced'
    BY <2>2 DEF PushersInv
  <2>5. cpc[c] = "addWait"
    BY <1>0, <2>2, WokenStay
  <2>6. CASE queueSize # 1
    <3>1. PICK S \in SUBSET Adders : IsFiniteSet(S) /\ Cardinality(S) >= FreeSlots
      BY <2>5, <2>6 DEF PushersInv, SlotsAnnounced
    <3>2. PICK d \in Callers : cpc[d] = "addWait" /\ cpc' = [cpc EXCEPT ![d] = "add"]
      BY <1>0, <2>2, <2>5, SignalReachesPusher DEF PushersInv
    <3>3. d \notin S /\ S \union {d} \in SUBSET Adders'
      BY <1>0, <3>1, <3>2 DEF Adders, CallInv
    <3>4. /\ IsFiniteSet(S \union {d}) /\ Cardinality(S) \in Nat
          /\ Cardinality(S \union {d}) = Cardinality(S) + 1
      BY <3>1, <3>3, FS_AddElement, FS_CardinalityType
    <3>5. Cardinality(S \union {d}) >= FreeSlots'
      BY <2>4, <3>1, <3>4
    <3>6. SlotsAnnounced'
      BY <3>3, <3>4, <3>5 DEF SlotsAnnounced
    <3> QED BY <2>6, <3>6
  <2>7. CASE queueSize = 1
    BY <2>3, <2>7 DEF PlaceAnnounced
  <2> QED BY <2>6, <2>7
<1>4. CASE FinishJob(w)
  <2>1. UNCHANGED <<queueSize, accepted, started, queueEmpty>> /\ SignalPush
    BY <1>4 DEF FinishJob
  <2>2. Adders \subseteq Adders' /\ \A c \in Callers : cpc'[c] = "addWait" => cpc[c] = "addWait"
    BY <1>0, <2>1, WokenStay DEF Adders
  <2>3. FreeSlots' <= FreeSlots
    BY <1>1, <2>1 DEF FreeSlots, Room
  <2>4. CASE \E c \in Callers : cpc'[c] = "addWait"
    <3>1. \E d \in Callers : cpc[d] = "addWait" /\ cpc' = [cpc EXCEPT ![d] = "add"]
      BY <1>0, <2>1, <2>2, <2>4, SignalReachesPusher DEF PushersInv
    <3>2. Adders' # {}
      BY <1>0, <3>1 DEF Adders, CallInv
    <3> QED BY <1>0, <2>1, <2>2, <2>3, <3>2, MoreAdders
  <2>5. CASE ~\E c \in Callers : cpc'[c] = "addWait"
    BY <2>5 DEF PushersInv
  <2> QED BY <2>4, <2>5
<1> QED BY <1>2, <1>3, <1>4 DEF WorkerStep

\* A call that pushes, waits or is woken leaves no slot unannounced.
LEMMA CallerKeepsPushers ==
  ASSUME PoolInv, PoolInv', PushersInv, JoinsAlone', NEW c \in Callers, CallerStep(c)
  PROVE  PushersInv'
<1>0. CallInv /\ QueueInv /\ QueueInv' /\ ThreadInv
  BY DEF PoolInv
<1>1. /\ accepted \in Nat /\ Len(started) \in Nat /\ Len(started) <= accepted
      /\ numThreadsBusy \in Nat /\ Room \in Int
      /\ cpc \in [Callers -> {"idle", "add", "addWait", "join", "joinWait"}]
  BY <1>0, PoolTypes, RunningFinite DEF QueueInv, Room, ThreadInv, CallInv
<1>2. CASE Add(c) \/ TryAdd(c)
  <2>1. phase = "open" /\ ~shutdown
    BY <1>0, <1>2, AddsWhileOpen
  <2>2. /\ UNCHANGED <<queueSize, numThreadsBusy, started>>
        /\ accepted' = accepted + 1 /\ queueEmpty' = FALSE
        /\ cpc' = cpc \/ cpc' = [cpc EXCEPT ![c] = "idle"]
    BY <1>2, <2>1 DEF Add, TryAdd, AddInternal
  <2>3. FreeSlots' = FreeSlots - 1 /\ FreeSlots \in Int
    BY <1>1, <2>2 DEF FreeSlots, Room
  <2> SUFFICES ASSUME NEW d \in Callers, cpc'[d] = "addWait"
               PROVE  IF queueSize = 1 THEN PlaceAnnounced' ELSE SlotsAnnounced'
    BY <2>2 DEF PushersInv
  <2>4. cpc[d] = "addWait"
    BY <1>1, <2>2
  <2>5. CASE queueSize # 1
    <3>1. PICK S \in SUBSET Adders : IsFiniteSet(S) /\ Cardinality(S) >= FreeSlots
      BY <2>4, <2>5 DEF PushersInv, SlotsAnnounced
    <3>2. S \ {c} \in SUBSET Adders'
      BY <1>1, <2>2, <3>1 DEF Adders
    <3>3. /\ IsFiniteSet(S \ {c}) /\ Cardinality(S) \in Nat
          /\ Cardinality(S \ {c}) >= Cardinality(S) - 1
      <4>1. Cardinality(S) \in Nat
        BY <3>1, FS_CardinalityType
      <4>2. CASE c \in S
        <5>1. IsFiniteSet(S \ {c}) /\ Cardinality(S \ {c}) = Cardinality(S) - 1
          BY <3>1, <4>2, FS_RemoveElement
        <5> QED BY <4>1, <5>1
      <4>3. CASE c \notin S
        <5>1. S \ {c} = S
          BY <4>3
        <5> QED BY <3>1, <4>1, <5>1
      <4> QED BY <4>2, <4>3
    <3>4. Cardinality(S \ {c}) \in Nat
      BY <3>3, FS_CardinalityType
    <3>5. Cardinality(S \ {c}) >= FreeSlots'
      BY <2>3, <3>1, <3>3, <3>4
    <3>6. SlotsAnnounced'
      BY <3>2, <3>3, <3>5 DEF SlotsAnnounced
    <3> QED BY <2>5, <3>6
  <2>6. CASE queueSize = 1
    BY <2>2, <2>6 DEF PlaceAnnounced
  <2> QED BY <2>5, <2>6
<1>3. CASE AddWaits(c)
  <2>1. /\ UNCHANGED <<queueSize, numThreadsBusy, accepted, started, queueEmpty>>
        /\ isQueueFull /\ phase = "open"
    BY <1>3, <1>0 DEF AddWaits, MayAdd, MayCall, ctxVars, history, CallInv
  <2>2. CASE queueSize # 1
    <3>1. FreeSlots = 0 /\ FreeSlots' = FreeSlots
      BY <1>0, <2>1, <2>2, FullQueue DEF FreeSlots, Room
    <3>2. {} \in SUBSET Adders' /\ IsFiniteSet({}) /\ Cardinality({}) >= FreeSlots'
      BY <3>1, FS_EmptySet
    <3>3. SlotsAnnounced'
      BY <3>2 DEF SlotsAnnounced
    <3> QED BY <2>1, <2>2, <3>3 DEF PushersInv
  <2>3. CASE queueSize = 1
    <3>1. ~(queueSize > 1)
      BY <2>3
    <3>2. numThreadsBusy = threadLimit \/ ~queueEmpty
      BY <2>1, <3>1, Zenon DEF isQueueFull
    <3>3. threadLimit > 0
      BY <1>0, <2>1 DEF ThreadInv
    <3>4. PlaceAnnounced'
      BY <2>1, <3>2, <3>3 DEF PlaceAnnounced
    <3> QED BY <2>1, <2>3, <3>4 DEF PushersInv
  <2> QED BY <2>2, <2>3
<1>4. CASE JoinJobsWaits(c) \/ JoinJobsReturns(c) \/ Resize(c)
  <2>1. UNCHANGED <<queueSize, numThreadsBusy, accepted, started, queueEmpty>>
    BY <1>4 DEF JoinJobsWaits, JoinJobsReturns, Resize, ResizeWithin, ResizeBeyond, ctxVars, history
  <2>2. Adders \subseteq Adders' /\ \A d \in Callers : cpc'[d] = "addWait" => cpc[d] = "addWait"
    BY <1>1, <1>4 DEF JoinJobsWaits, JoinJobsReturns, Resize, MayJoin, MayCall, Adders
  <2>3. FreeSlots' <= FreeSlots
    BY <1>1, <2>1 DEF FreeSlots, Room
  <2> QED BY <1>0, <2>1, <2>2, <2>3, MoreAdders
<1> QED BY <1>2, <1>3, <1>4 DEF CallerStep, InCall

\* A caller of POOL_add does not sleep on beside room in the queue, unless
\* there is no queue and a busy thread is still to signal.
THEOREM NoPusherForgotten == Spec => []NoPusherOversleeps
<1>1. Init => PushersInv
  BY DEF Init, PushersInv, JoinsAlone
<1>2. PushersInv /\ PoolInv /\ PoolInv' /\ [Next]_vars => PushersInv'
  <2> SUFFICES ASSUME PushersInv, PoolInv, PoolInv', [Next]_vars PROVE PushersInv'
    OBVIOUS
  <2>0. JoinsAlone'
    BY JoinsStayAlone DEF PoolInv, PushersInv
  <2>1. CASE LifeStep \/ WakeForNothing \/ Terminated \/ UNCHANGED vars
    <3>1. UNCHANGED <<queueSize, numThreadsBusy, accepted, started, queueEmpty>>
      BY <2>1 DEF LifeStep, CreateThread, CreateReturns, CreateFails, BeginFree, ShutDown,
         WakePushers, WakePoppers, FreeReturns, WakeForNothing, Terminated, vars, ctxVars, history
    <3>2. UNCHANGED cpc \/ BroadcastPush
            \/ \E c \in Pushing : cpc' = [cpc EXCEPT ![c] = Woken(@)]
      BY <2>1 DEF LifeStep, CreateThread, CreateReturns, CreateFails, BeginFree, ShutDown,
         WakePushers, WakePoppers, FreeReturns, WakeForNothing, Terminated, vars
    <3>3. Adders \subseteq Adders' /\ \A c \in Callers : cpc'[c] = "addWait" => cpc[c] = "addWait"
      BY <3>2, WokenStay DEF Adders, PoolInv
    <3>4. FreeSlots' <= FreeSlots
      BY <3>1 DEF FreeSlots, Room, PoolInv, QueueInv
    <3> QED BY <2>0, <3>1, <3>3, <3>4, MoreAdders DEF PoolInv
  <2>2. CASE \E w \in Workers : WorkerStep(w)
    BY <2>0, <2>2, WorkerKeepsPushers
  <2>3. CASE \E c \in Callers : CallerStep(c)
    BY <2>0, <2>3, CallerKeepsPushers
  <2> QED BY <2>1, <2>2, <2>3 DEF Next
<1>3. PushersInv /\ PoolInv => NoPusherOversleeps
  <2> SUFFICES ASSUME PushersInv, PoolInv, \E c \in Callers : cpc[c] = "addWait", ~isQueueFull
               PROVE  \/ \E c \in Callers : cpc[c] = "add"
                      \/ queueSize = 1 /\ numThreadsBusy > 0
    BY DEF NoPusherOversleeps
  <2>1. CASE queueSize = 1
    <3>1. ~(queueSize > 1)
      BY <2>1
    <3>2. queueEmpty
      BY <3>1, Zenon DEF isQueueFull
    <3> QED BY <2>1, <3>2 DEF PushersInv, PlaceAnnounced, Adders
  <2>2. CASE queueSize # 1
    <3>1. PICK S \in SUBSET Adders : IsFiniteSet(S) /\ Cardinality(S) >= FreeSlots
      BY <2>2 DEF PushersInv, SlotsAnnounced
    <3>2. FreeSlots > 0 /\ FreeSlots \in Int
      BY NotFull DEF FreeSlots, PoolInv, QueueInv, Room
    <3>3. Cardinality(S) \in Nat /\ Cardinality(S) # 0
      BY <3>1, <3>2, FS_CardinalityType
    <3>4. S # {}
      BY <3>3, FS_EmptySet
    <3> QED BY <3>1, <3>4 DEF Adders
  <2> QED BY <2>1, <2>2
<1> QED BY <1>1, <1>2, <1>3, InvariantOfPool, PTL DEF Spec

-----------------------------------------------------------------------------
(***************************************************************************)
(* The asynchronous copy: where the threads of the two pools are in their  *)
(* queues, and who has which job.                                          *)
(***************************************************************************)

\* The first of its jobs that the thread of a pool has not given back, and
\* the first that it has not executed.
rFirst == IF rStage \in {"read", "add"} THEN rStarted ELSE rStarted + 1
rNext == IF rStage = "read" THEN rStarted ELSE rStarted + 1
wFirst == IF wStage \in {"write", "release"} THEN wStarted ELSE wStarted + 1
wNext == IF wStage = "write" THEN wStarted ELSE wStarted + 1

\* The thread of a pool takes one job after the other and is never behind by
\* more than the queue holds.
ReaderInv ==
  /\ rAccepted \in Nat /\ rStarted \in 0..rAccepted
  /\ rAccepted - rStarted <= QueueRoom
  /\ rQueued \in Seq(JobIds) /\ Len(rQueued) = rAccepted
  /\ rStage \in {"idle", "read", "add", "end"}
  /\ rStage # "idle" => rStarted >= 1
  /\ rFinished = 1..(IF rStage = "idle" THEN rStarted ELSE rStarted - 1)
  /\ ~asyncIO => rAccepted = 0

WriterInv ==
  /\ wAccepted \in Nat /\ wStarted \in 0..wAccepted
  /\ wAccepted - wStarted <= QueueRoom
  /\ wQueued \in Seq(JobIds) /\ Len(wQueued) = wAccepted
  /\ wStage \in {"idle", "write", "release", "end"}
  /\ wStage # "idle" => wStarted >= 1
  /\ wFinished = 1..(IF wStage = "idle" THEN wStarted ELSE wStarted - 1)
  /\ ~asyncIO => wAccepted = 0

\* Where the main thread holds which jobs.
MainInv ==
  /\ asyncIO \in BOOLEAN /\ turn \in Nat
  /\ pc \in {"open", "start", "startAdd", "fill", "release", "reacquire", "readAdd",
             "next", "magic", "copy", "consume", "endSparse", "closeDst", "closeSrc", "done"}
  /\ newRead \in JobIds \union {NoIOJob}
  /\ newRead # NoIOJob <=> pc \in {"startAdd", "readAdd"}
  /\ pc \in {"open", "start", "startAdd", "reacquire", "readAdd", "next", "done"}
       => held = NoIOJob
  /\ writeJob \in JobIds \union {NoIOJob}
  /\ pc \in {"copy", "consume"} => writeJob # NoIOJob
  /\ pc \in {"open", "start", "startAdd", "magic", "endSparse", "closeDst",
             "closeSrc", "done"} => writeJob = NoIOJob
  /\ want = BlockSize \/ (want = MagicSize /\ writeJob = NoIOJob)
  /\ writeJob = NoIOJob /\ pc # "endSparse" => wStage = "idle" /\ wStarted = wAccepted

\* The read jobs and the write jobs have one owner each.
rFlying == {rQueued[i] : i \in rFirst..rAccepted}
wFlying == {wQueued[i] : i \in wFirst..wAccepted}

\* Every read job is in one of three sets, or it is job h or n.
ReadOwners(A, C, F, h, n) ==
  /\ A \union C \union F \union ({h, n} \ {NoIOJob}) = 1..totalIoJobs
  /\ A \intersect C = {} /\ A \intersect F = {} /\ C \intersect F = {}
  /\ h \notin A \union C \union F
  /\ n \notin A \union C \union F
  /\ h = n => h = NoIOJob

ReadOwnInv ==
  /\ rAvailable \in Seq(JobIds) /\ IsInjective(rAvailable)
  /\ \A i, k \in rFirst..rAccepted : rQueued[i] = rQueued[k] => i = k
  /\ held \in JobIds \union {NoIOJob}
  /\ ReadOwners(ToSet(rAvailable), completed, rFlying, held, newRead)
  /\ pc = "reacquire" => rAvailable # <<>>

\* The write job the main thread has, until it is queued.
filling == IF pc = "consume" THEN NoIOJob ELSE writeJob

\* Every write job is in one of two sets, or it is job n.
WriteOwners(A, F, n) ==
  /\ A \union F \union ({n} \ {NoIOJob}) = 1..totalIoJobs
  /\ A \intersect F = {}
  /\ n \notin A \union F

WriteOwnInv ==
  /\ wAvailable \in Seq(JobIds) /\ IsInjective(wAvailable)
  /\ \A i, k \in wFirst..wAccepted : wQueued[i] = wQueued[k] => i = k
  /\ WriteOwners(ToSet(wAvailable), wFlying, filling)
  /\ Len(wAvailable) + (wAccepted - wFirst + 1) + (IF filling = NoIOJob THEN 0 ELSE 1)
       = totalIoJobs

\* The number of jobs that are over, and what it means that all are.
LEMMA FinishedCount ==
  ASSUME NEW n \in Nat
  PROVE  IsFiniteSet(1..n) /\ Cardinality(1..n) = n
<1>1. IsFiniteSet(1..n) /\ Cardinality(1..n) = IF 1 > n THEN 0 ELSE n - 1 + 1
  BY FS_Interval
<1> QED BY <1>1

\* The read pool's thread and queue stay as ReaderInv says.
LEMMA ReaderStays ==
  ASSUME ReaderInv, MainInv, CopyNext \/ UNCHANGED copyVars
  PROVE  ReaderInv'
<1> USE IOPoolAssumption
<1>1. CASE ReaderStarts /\ asyncIO' = asyncIO
  BY <1>1 DEF ReaderInv, ReaderStarts, ReadQueue!Start, ReadQueue!Same, QueueRoom, JobIds
<1>2. CASE ReaderEnds /\ asyncIO' = asyncIO
  <2>1. rFinished' = rFinished \union {rStarted} /\ rStage = "end" /\ rStage' = "idle"
        /\ UNCHANGED <<rAccepted, rStarted, rQueued, asyncIO>>
    BY <1>2 DEF ReaderEnds, ReadQueue!Finish, ReadQueue!Same
  <2>2. rFinished' = 1..rStarted
    BY <2>1 DEF ReaderInv
  <2> QED BY <2>1, <2>2 DEF ReaderInv, QueueRoom, JobIds
<1>3. CASE UNCHANGED <<rPool, rStage, asyncIO>>
  BY <1>3 DEF ReaderInv, rPool, QueueRoom, JobIds
<1>4. CASE rStage \in {"read", "add"} /\ rStage' \in {"add", "end"} /\ UNCHANGED <<rPool, asyncIO>>
  BY <1>4 DEF ReaderInv, rPool, QueueRoom, JobIds
<1>5. CASE pc \in {"startAdd", "readAdd"} /\ EnqueueRead(newRead) /\ asyncIO' = asyncIO
  <2>1. CASE asyncIO /\ ReadQueue!Accept /\ rQueued' = Append(rQueued, newRead) /\ rStage' = rStage
    <3>1. newRead \in JobIds
      BY <1>5 DEF MainInv
    <3>2. rQueued' \in Seq(JobIds) /\ Len(rQueued') = Len(rQueued) + 1
      BY <2>1, <3>1, AppendProperties DEF ReaderInv
    <3> QED BY <1>5, <2>1, <3>2 DEF ReaderInv, ReadQueue!Accept, ReadQueue!Same, QueueRoom, JobIds
  <2>2. CASE UNCHANGED <<rPool, rStage>>
    BY <1>3, <1>5, <2>2
  <2> QED BY <1>5, <2>1, <2>2 DEF EnqueueRead
<1>6. ASSUME ReaderStep, asyncIO' = asyncIO PROVE ReaderInv'
  BY <1>1, <1>2, <1>4, <1>6 DEF ReaderStep, ReaderReads, ReaderCompletes, rPool
<1>7. ASSUME MainStep PROVE ReaderInv'
  <2>1. CASE AddStartRead \/ AddNextRead
    BY <1>5, <2>1 DEF AddStartRead, AddNextRead
  <2>2. CASE OpenSource \/ CloseSource \/ StartRead \/ NextRead \/ ReleaseRead
    BY <1>3, <2>2 DEF OpenSource, CloseSource, StartRead, NextRead, ReleaseRead, SetSource,
                      AcquireRead, ReleaseHeld, rPool, readVars
  <2>3. CASE LoadRead \/ WaitForRead \/ SourceIsOver
    BY <1>3, <2>3 DEF LoadRead, WaitForRead, SourceIsOver, TakeCompleted, WaitForCompleted,
                      NoMoreReads, readVars, rPool
  <2>4. CASE UNCHANGED <<readVars, asyncIO>>
    BY <1>3, <2>4 DEF readVars, rPool
  <2> QED BY <1>7, <2>1, <2>2, <2>3, <2>4 DEF MainStep, OpenDestination, FillIsEnough, Coalesce,
             NothingHeld, EmptySource, BeginCopy, CopyBlock, ConsumeBlock, EndCopy, EndSparse,
             CloseDestination
<1>8. CASE UNCHANGED <<readVars, asyncIO>>
  BY <1>3, <1>8 DEF readVars, rPool
<1> QED BY <1>3, <1>6, <1>7, <1>8 DEF CopyNext, ReaderRuns, WriterRuns, MainWakesForNothing, CopyIsDone,
             ConsumerWakesForNothing, copyVars, rPool

\* So do the write pool's.
LEMMA WriterStays ==
  ASSUME WriterInv, MainInv, CopyNext \/ UNCHANGED copyVars
  PROVE  WriterInv'
<1> USE IOPoolAssumption
<1>1. CASE WriterStarts /\ asyncIO' = asyncIO
  BY <1>1 DEF WriterInv, WriterStarts, WriteQueue!Start, WriteQueue!Same, QueueRoom, JobIds
<1>2. CASE WriterEnds /\ asyncIO' = asyncIO
  <2>1. wFinished' = wFinished \union {wStarted} /\ wStage = "end" /\ wStage' = "idle"
        /\ UNCHANGED <<wAccepted, wStarted, wQueued, asyncIO>>
    BY <1>2 DEF WriterEnds, WriteQueue!Finish, WriteQueue!Same
  <2>2. wFinished' = 1..wStarted
    BY <2>1 DEF WriterInv
  <2> QED BY <2>1, <2>2 DEF WriterInv, QueueRoom, JobIds
<1>3. CASE UNCHANGED <<wPool, wStage, asyncIO>>
  BY <1>3 DEF WriterInv, wPool, QueueRoom, JobIds
<1>4. CASE wStage \in {"write", "release"} /\ wStage' \in {"release", "end"}
           /\ UNCHANGED <<wPool, asyncIO>>
  BY <1>4 DEF WriterInv, wPool, QueueRoom, JobIds
<1>5. CASE CopyBlock
  <2>1. writeJob \in JobIds /\ asyncIO' = asyncIO
    BY <1>5 DEF CopyBlock, MainInv
  <2>2. CASE asyncIO /\ WriteQueue!Accept /\ wQueued' = Append(wQueued, writeJob) /\ wStage' = wStage
    <3>1. wQueued' \in Seq(JobIds) /\ Len(wQueued') = Len(wQueued) + 1
      BY <2>1, <2>2, AppendProperties DEF WriterInv
    <3> QED BY <2>1, <2>2, <3>1 DEF WriterInv, WriteQueue!Accept, WriteQueue!Same, QueueRoom, JobIds
  <2>3. CASE UNCHANGED <<wPool, wStage>>
    BY <1>3, <2>1, <2>3
  <2> QED BY <1>5, <2>2, <2>3 DEF CopyBlock, EnqueueWrite
<1>6. ASSUME WriterStep, asyncIO' = asyncIO PROVE WriterInv'
  BY <1>1, <1>2, <1>4, <1>6 DEF WriterStep, WriterWrites, WriterReleases, wPool
<1>7. ASSUME MainStep PROVE WriterInv'
  <2>1. CASE OpenDestination \/ BeginCopy \/ ConsumeBlock \/ EndCopy \/ EndSparse \/ CloseDestination
    BY <1>3, <2>1 DEF OpenDestination, BeginCopy, ConsumeBlock, EndCopy, EndSparse,
          CloseDestination, SetDestination, AcquireWrite, ReleaseWrite, SparseWriteEnd, wPool
  <2>2. CASE UNCHANGED <<writeVars, asyncIO>>
    BY <1>3, <2>2 DEF writeVars, wPool
  <2> QED BY <1>5, <1>7, <2>1, <2>2 DEF MainStep, OpenSource, StartRead, AddStartRead, FillIsEnough,
             Coalesce, ReleaseRead, NothingHeld, NextRead, AddNextRead, WaitForRead, LoadRead,
             SourceIsOver, EmptySource, CloseSource
<1>8. CASE UNCHANGED <<writeVars, asyncIO>>
  BY <1>3, <1>8 DEF writeVars, wPool
<1> QED BY <1>3, <1>6, <1>7, <1>8 DEF CopyNext, ReaderRuns, WriterRuns, MainWakesForNothing, CopyIsDone,
             copyVars, wPool

\* When every accepted write is finished, the thread of the write pool has
\* nothing to do; the read pool's neither.
LEMMA IdleMeans ==
  /\ WriterInv /\ WriteQueue!Idle => wStage = "idle" /\ wStarted = wAccepted
  /\ ReaderInv /\ ReadQueue!Idle => rStage = "idle" /\ rStarted = rAccepted
<1>1. ASSUME NEW a \in Nat, NEW b \in Nat, 1..a = 1..b PROVE a = b
  <2>1. Cardinality(1..a) = a /\ Cardinality(1..b) = b
    BY FinishedCount
  <2> QED BY <1>1, <2>1
<1>2. ASSUME WriterInv, WriteQueue!Idle PROVE wStage = "idle" /\ wStarted = wAccepted
  <2> DEFINE k == IF wStage = "idle" THEN wStarted ELSE wStarted - 1
  <2>1. k \in Nat /\ wAccepted \in Nat /\ wFinished = 1..k
    BY <1>2 DEF WriterInv
  <2>2. 1..k = 1..wAccepted
    BY <1>2, <2>1 DEF WriteQueue!Idle
  <2>3. k = wAccepted
    BY <1>1, <2>1, <2>2
  <2> QED BY <1>2, <2>3 DEF WriterInv
<1>3. ASSUME ReaderInv, ReadQueue!Idle PROVE rStage = "idle" /\ rStarted = rAccepted
  <2> DEFINE k == IF rStage = "idle" THEN rStarted ELSE rStarted - 1
  <2>1. k \in Nat /\ rAccepted \in Nat /\ rFinished = 1..k
    BY <1>3 DEF ReaderInv
  <2>2. 1..k = 1..rAccepted
    BY <1>3, <2>1 DEF ReadQueue!Idle
  <2>3. k = rAccepted
    BY <1>1, <2>1, <2>2
  <2> QED BY <1>3, <2>3 DEF ReaderInv
<1> QED BY <1>2, <1>3

\* A job taken from the stack is one of the pool's.
LEMMA TopIsJob ==
  ASSUME NEW s \in Seq(JobIds), s # <<>>
  PROVE  /\ TopJob(s) \in JobIds /\ Len(s) \in Nat \ {0}
         /\ TopJob(s) = s[Len(s)] /\ Acquired(s) = SubSeq(s, 1, Len(s) - 1)
<1>1. Len(s) \in Nat \ {0}
  BY EmptySeq
<1> QED BY <1>1, ElementOfSeq DEF TopJob, Last, Acquired, Front

\* A write job is there when the main thread takes one.
LEMMA WriteJobIsThere ==
  ASSUME MainInv, WriterInv, WriteOwnInv, pc \in {"magic", "consume"}
  PROVE  wAvailable # <<>> /\ TopJob(wAvailable) \in JobIds
<1> USE IOPoolAssumption
<1>1. wAvailable \in Seq(JobIds)
  BY DEF WriteOwnInv
<1>2. /\ Len(wAvailable) + (wAccepted - wFirst + 1) = totalIoJobs
      /\ Len(wAvailable) \in Nat
  <2>1. filling = NoIOJob
    BY DEF filling, MainInv
  <2>2. Len(wAvailable) + (wAccepted - wFirst + 1) + 0 = totalIoJobs
    BY <2>1 DEF WriteOwnInv
  <2>3. wFirst \in Int /\ wAccepted \in Int /\ Len(wAvailable) \in Nat
    BY <1>1 DEF wFirst, WriterInv
  <2> QED BY <2>2, <2>3
<1>3. wAccepted - wFirst + 1 <= totalIoJobs - 1
  <2>1. CASE asyncIO
    BY <2>1 DEF WriterInv, wFirst, totalIoJobs, QueueRoom
  <2>2. CASE ~asyncIO
    BY <2>2 DEF WriterInv, wFirst, totalIoJobs, QueueRoom
  <2> QED BY <2>1, <2>2
<1>4. Len(wAvailable) >= 1
  <2>1. totalIoJobs \in Int /\ wFirst \in Int /\ wAccepted \in Int
    BY DEF wFirst, WriterInv, totalIoJobs
  <2> QED BY <1>2, <1>3, <2>1
<1>5. wAvailable # <<>>
  BY <1>4
<1> QED BY <1>1, <1>5, TopIsJob

\* The main thread's jobs stay as MainInv says.
LEMMA MainStays ==
  ASSUME MainInv, WriterInv, ReadOwnInv, WriteOwnInv, CopyNext \/ UNCHANGED copyVars
  PROVE  MainInv'
<1> USE DEF MainInv
<1>1. CASE OpenSource \/ CloseSource
  BY <1>1 DEF OpenSource, CloseSource, SetSource, writeVars, wPool, jobs, JobIds
<1>2. CASE StartRead \/ NextRead
  <2>1. rAvailable \in Seq(JobIds) /\ rAvailable # <<>>
    <3>1. rAvailable \in Seq(JobIds) /\ (pc = "reacquire" => rAvailable # <<>>)
      BY DEF ReadOwnInv
    <3>2. CASE StartRead
      <4>1. turn < Len(rAvailable) /\ turn \in Nat
        BY <3>2 DEF StartRead
      <4> QED BY <3>1, <4>1
    <3>3. CASE NextRead
      BY <3>1, <3>3 DEF NextRead
    <3> QED BY <1>2, <3>1, <3>2, <3>3
  <2>2. newRead' \in JobIds /\ newRead' # NoIOJob
    BY <1>2, <2>1, TopIsJob, IOPoolAssumption DEF StartRead, NextRead, JobIds
  <2> QED BY <1>2, <2>2 DEF StartRead, NextRead, AcquireRead, writeVars, wPool, args, JobIds
<1>3. CASE AddStartRead \/ AddNextRead
  <2>1. held' = held
    BY <1>3 DEF AddStartRead, AddNextRead, EnqueueRead
  <2> QED BY <1>3, <2>1 DEF AddStartRead, AddNextRead, writeVars, wPool, args, JobIds
<1>4. CASE OpenDestination
  BY <1>4 DEF OpenDestination, SetDestination, readVars, args, jobs, wPool, JobIds
<1>5. CASE FillIsEnough \/ Coalesce \/ NothingHeld \/ SourceIsOver \/ EmptySource
  BY <1>5 DEF FillIsEnough, Coalesce, NothingHeld, SourceIsOver, EmptySource, NoMoreReads,
              AfterFill, readVars, writeVars, args, jobs, wPool, JobIds
<1>6. CASE ReleaseRead \/ WaitForRead
  BY <1>6 DEF ReleaseRead, WaitForRead, ReleaseHeld, WaitForCompleted, mainVars, writeVars,
              args, jobs, wPool, JobIds
<1>7. CASE LoadRead
  BY <1>7 DEF LoadRead, AfterFill, writeVars, args, jobs, wPool, JobIds
<1>8. CASE BeginCopy \/ ConsumeBlock
  <2>1. writeJob' = TopJob(wAvailable) /\ TopJob(wAvailable) \in JobIds
    BY <1>8, WriteJobIsThere DEF BeginCopy, ConsumeBlock
  <2>2. writeJob' # NoIOJob /\ writeJob' \in JobIds
    BY <2>1, IOPoolAssumption DEF JobIds
  <2> QED BY <1>8, <2>2 DEF BeginCopy, ConsumeBlock, readVars, args, JobIds
<1>9. CASE CopyBlock
  BY <1>9 DEF CopyBlock, readVars, args, jobs, JobIds
<1>10. CASE EndCopy
  BY <1>10 DEF EndCopy, readVars, args, JobIds
<1>11. CASE EndSparse \/ CloseDestination
  <2>1. wStage' = "idle" /\ wStarted' = wAccepted'
    BY <1>11, IdleMeans DEF EndSparse, CloseDestination, SparseWriteEnd, wPool
  <2> QED BY <1>11, <2>1 DEF EndSparse, CloseDestination, readVars, args, jobs, JobIds
<1>12. CASE ReaderRuns \/ MainWakesForNothing
  <2>1. UNCHANGED <<held, asyncIO, writeVars, mainVars>>
    BY <1>12 DEF ReaderRuns, MainWakesForNothing, ConsumerWakesForNothing, ReaderStep, ReaderStarts,
                 ReaderReads, ReaderCompletes, ReaderEnds
  <2> QED BY <2>1 DEF writeVars, mainVars, args, jobs, wPool, JobIds
<1>13. CASE WriterRuns
  <2>1. ~(writeJob = NoIOJob /\ pc # "endSparse")
    BY <1>13 DEF WriterRuns, WriterStep, WriterStarts, WriterWrites, WriterReleases, WriterEnds,
                 WriteQueue!Start, WriterInv
  <2> QED BY <1>13, <2>1 DEF WriterRuns, readVars, mainVars, args, jobs, JobIds
<1>14. CASE UNCHANGED copyVars
  BY <1>14 DEF copyVars, readVars, writeVars, mainVars, args, jobs, wPool, JobIds
<1> QED BY <1>1, <1>2, <1>3, <1>4, <1>5, <1>6, <1>7, <1>8, <1>9, <1>10, <1>11, <1>12, <1>13, <1>14
        DEF CopyNext, MainStep, CopyIsDone

-----------------------------------------------------------------------------
(***************************************************************************)
(* Stacks of jobs.                                                         *)
(***************************************************************************)

\* A job put on a stack.
LEMMA PushedJob ==
  ASSUME NEW T, NEW s \in Seq(T), IsInjective(s), NEW j \in T, j \notin ToSet(s)
  PROVE  /\ Append(s, j) \in Seq(T) /\ IsInjective(Append(s, j))
         /\ ToSet(Append(s, j)) = ToSet(s) \union {j}
         /\ Len(Append(s, j)) = Len(s) + 1 /\ Append(s, j) # <<>>
<1> DEFINE a == Append(s, j)
<1>1. /\ a \in Seq(T) /\ a # <<>> /\ Len(a) = Len(s) + 1
      /\ \A i \in 1..Len(s) : a[i] = s[i]
      /\ a[Len(s) + 1] = j
  BY AppendProperties
<1>2. /\ DOMAIN s = 1..Len(s) /\ DOMAIN a = 1..Len(a) /\ Len(s) \in Nat
  BY <1>1, LenProperties
<1> HIDE DEF a
<1>3. ToSet(a) = ToSet(s) \union {j}
  BY <1>1, <1>2 DEF ToSet
<1>4. ASSUME NEW i \in 1..Len(s) PROVE s[i] # j
  BY <1>2, <1>4 DEF ToSet
<1>5. IsInjective(a)
  <2> SUFFICES ASSUME NEW i \in 1..(Len(s) + 1), NEW k \in 1..(Len(s) + 1), a[i] = a[k] PROVE i = k
    BY <1>1, <1>2 DEF IsInjective
  <2>1. CASE i = Len(s) + 1
    <3>1. CASE k \in 1..Len(s)
      BY <1>1, <1>4, <2>1, <3>1
    <3> QED BY <1>2, <2>1, <3>1
  <2>2. CASE i \in 1..Len(s)
    <3>1. CASE k = Len(s) + 1
      BY <1>1, <1>4, <2>2, <3>1
    <3>2. CASE k \in 1..Len(s)
      BY <1>1, <1>2, <2>2, <3>2 DEF IsInjective
    <3> QED BY <1>2, <3>1, <3>2
  <2> QED BY <1>2, <2>1, <2>2
<1> QED BY <1>1, <1>3, <1>5 DEF a

\* The job on top taken away.
LEMMA PoppedJob ==
  ASSUME NEW s \in Seq(JobIds), IsInjective(s), s # <<>>
  PROVE  /\ TopJob(s) \in ToSet(s) /\ TopJob(s) \in JobIds
         /\ Acquired(s) \in Seq(JobIds) /\ IsInjective(Acquired(s))
         /\ ToSet(Acquired(s)) = ToSet(s) \ {TopJob(s)}
         /\ Len(Acquired(s)) = Len(s) - 1
<1> DEFINE a == Acquired(s)
           n == Len(s)
<1>1. /\ TopJob(s) \in JobIds /\ n \in Nat \ {0} /\ TopJob(s) = s[n] /\ a = SubSeq(s, 1, n - 1)
  BY TopIsJob
<1>2. DOMAIN s = 1..n
  BY LenProperties
<1>3. /\ a \in Seq(JobIds) /\ Len(a) = n - 1 /\ \A i \in 1..(n - 1) : a[i] = s[i]
  <2> DEFINE k == n - 1
  <2>1. k \in Int /\ \A i \in 1..k : s[i] \in JobIds
    BY <1>1, <1>2, ElementOfSeq
  <2> HIDE DEF k
  <2>2. /\ SubSeq(s, 1, k) \in Seq(JobIds)
        /\ Len(SubSeq(s, 1, k)) = IF 1 <= k THEN k - 1 + 1 ELSE 0
        /\ \A i \in 1..(k - 1 + 1) : SubSeq(s, 1, k)[i] = s[1 + i - 1]
    BY <2>1, SubSeqProperties
  <2>3. k \in Nat /\ k - 1 + 1 = k /\ \A i \in 1..k : 1 + i - 1 = i
    BY <1>1 DEF k
  <2>4. a = SubSeq(s, 1, k)
    BY <1>1 DEF k
  <2>5. a \in Seq(JobIds) /\ Len(a) = k /\ \A i \in 1..k : a[i] = s[i]
    <3> HIDE DEF a
    <3> QED BY <2>2, <2>3, <2>4
  <2> QED BY <2>5 DEF k
<1>4. DOMAIN a = 1..(n - 1)
  BY <1>3, LenProperties
<1> HIDE DEF a, n
<1>5. IsInjective(a)
  BY <1>1, <1>2, <1>3, <1>4 DEF IsInjective
<1>6. ASSUME NEW i \in 1..(n - 1) PROVE s[i] # s[n]
  BY <1>1, <1>2, <1>6 DEF IsInjective
<1>7. ToSet(a) = ToSet(s) \ {s[n]}
  <2>1. ASSUME NEW x \in ToSet(a) PROVE x \in ToSet(s) \ {s[n]}
    <3>1. PICK i \in 1..(n - 1) : x = a[i]
      BY <1>4 DEF ToSet
    <3>2. i \in 1..n /\ x = s[i]
      BY <1>1, <1>3, <3>1
    <3> QED BY <1>2, <1>6, <3>1, <3>2 DEF ToSet
  <2>2. ASSUME NEW x \in ToSet(s) \ {s[n]} PROVE x \in ToSet(a)
    <3>1. PICK i \in 1..n : x = s[i]
      BY <1>2 DEF ToSet
    <3>2. i \in 1..(n - 1)
      BY <1>1, <2>2, <3>1
    <3> QED BY <1>3, <1>4, <3>1, <3>2 DEF ToSet
  <2> QED BY <2>1, <2>2
<1>8. s[n] \in ToSet(s)
  BY <1>1, <1>2 DEF ToSet
<1> QED BY <1>1, <1>3, <1>5, <1>7, <1>8 DEF a, n

\* Two stacks on top of each other.
LEMMA JoinedJobs ==
  ASSUME NEW T, NEW s \in Seq(T), NEW t \in Seq(T), IsInjective(s), IsInjective(t),
         ToSet(s) \intersect ToSet(t) = {}
  PROVE  /\ s \o t \in Seq(T) /\ IsInjective(s \o t)
         /\ ToSet(s \o t) = ToSet(s) \union ToSet(t)
<1> DEFINE a == s \o t
           n == Len(s)
           m == Len(t)
<1>1. /\ a \in Seq(T) /\ Len(a) = n + m
      /\ \A i \in 1..(n + m) : a[i] = IF i <= n THEN s[i] ELSE t[i - n]
  BY ConcatProperties
<1>2. DOMAIN s = 1..n /\ DOMAIN t = 1..m /\ DOMAIN a = 1..(n + m) /\ n \in Nat /\ m \in Nat
  BY <1>1, LenProperties
<1> HIDE DEF a, n, m
<1>3. ASSUME NEW i \in 1..n PROVE i \in 1..(n + m) /\ a[i] = s[i] /\ s[i] \in ToSet(s)
  <2>1. i \in 1..(n + m) /\ i <= n
    BY <1>2
  <2>2. s[i] \in ToSet(s)
    BY <1>2 DEF ToSet
  <2> QED BY <1>1, <2>1, <2>2
<1>4. ASSUME NEW i \in 1..m PROVE i + n \in 1..(n + m) /\ a[i + n] = t[i] /\ t[i] \in ToSet(t)
  <2>1. i + n \in 1..(n + m) /\ ~(i + n <= n) /\ (i + n) - n = i
    BY <1>2
  <2>2. t[i] \in ToSet(t)
    BY <1>2 DEF ToSet
  <2> QED BY <1>1, <2>1, <2>2
<1>5. ASSUME NEW i \in 1..(n + m), i \notin 1..n PROVE i - n \in 1..m /\ a[i] = t[i - n] /\ t[i - n] \in ToSet(t)
  <2>1. i - n \in 1..m /\ ~(i <= n)
    BY <1>2, <1>5
  <2>2. t[i - n] \in ToSet(t)
    BY <1>2, <2>1 DEF ToSet
  <2> QED BY <1>1, <2>1, <2>2
<1>6. ToSet(a) = ToSet(s) \union ToSet(t)
  <2>1. ASSUME NEW x \in ToSet(a) PROVE x \in ToSet(s) \union ToSet(t)
    <3>1. PICK i \in 1..(n + m) : x = a[i]
      BY <1>2 DEF ToSet
    <3> QED BY <1>3, <1>5, <3>1
  <2>2. ASSUME NEW x \in ToSet(s) PROVE x \in ToSet(a)
    <3>1. PICK i \in 1..n : x = s[i]
      BY <1>2 DEF ToSet
    <3> QED BY <1>2, <1>3, <3>1 DEF ToSet
  <2>3. ASSUME NEW x \in ToSet(t) PROVE x \in ToSet(a)
    <3>1. PICK i \in 1..m : x = t[i]
      BY <1>2 DEF ToSet
    <3> QED BY <1>2, <1>4, <3>1 DEF ToSet
  <2> QED BY <2>1, <2>2, <2>3
<1>7. IsInjective(a)
  <2> SUFFICES ASSUME NEW i \in 1..(n + m), NEW k \in 1..(n + m), a[i] = a[k] PROVE i = k
    BY <1>2 DEF IsInjective
  <2>1. CASE i \in 1..n /\ k \in 1..n
    BY <1>2, <1>3, <2>1 DEF IsInjective
  <2>2. CASE i \notin 1..n /\ k \notin 1..n
    <3>1. i - n = k - n
      BY <1>2, <1>5, <2>2 DEF IsInjective
    <3> QED BY <1>2, <3>1
  <2>3. CASE i \in 1..n /\ k \notin 1..n
    BY <1>3, <1>5, <2>3
  <2>4. CASE i \notin 1..n /\ k \in 1..n
    BY <1>3, <1>5, <2>4
  <2> QED BY <2>1, <2>2, <2>3, <2>4
<1> QED BY <1>1, <1>6, <1>7 DEF a

\* The members of a finite set in some order.
LEMMA ListedJobs ==
  ASSUME NEW T, NEW S \in SUBSET T, IsFiniteSet(S)
  PROVE  SetToSeq(S) \in Seq(T) /\ IsInjective(SetToSeq(S)) /\ ToSet(SetToSeq(S)) = S
<1> DEFINE n == Cardinality(S)
           f == SetToSeq(S)
<1>1. n \in Nat /\ ExistsBijection(1..n, S)
  BY FS_CardinalityType
<1>2. PICK g : g \in Bijection(1..n, S)
  BY <1>1 DEF ExistsBijection
<1>3. g \in [1..n -> S] /\ IsInjective(g)
  BY <1>2 DEF Bijection, Injection
<1>4. f \in [1..n -> S] /\ IsInjective(f)
  <2> HIDE DEF n
  <2> QED BY <1>3 DEF SetToSeq, n
<1> HIDE DEF f
<1>5. f \in Seq(T)
  <2>1. f \in [1..n -> T]
    BY <1>4
  <2> HIDE DEF n
  <2> QED BY <1>1, <2>1, SeqDef
<1>6. IsFiniteSet(1..n) /\ Cardinality(1..n) = n
  <2> HIDE DEF n
  <2> QED BY <1>1, FinishedCount
<1>7. f \in Surjection(1..n, S)
  <2>1. f \in Injection(1..n, S)
    BY <1>4 DEF Injection
  <2> QED BY <1>6, <2>1, FS_Injection
<1>8. ToSet(f) = S
  BY <1>4, <1>7 DEF Surjection, ToSet
<1> QED BY <1>4, <1>5, <1>8 DEF f

-----------------------------------------------------------------------------
(***************************************************************************)
(* The owners of the jobs.                                                 *)
(***************************************************************************)

\* The jobs in the pool's hands are numbers of jobs; none when it is idle.
LEMMA FlyingReads ==
  ASSUME ReaderInv
  PROVE  /\ rFlying \subseteq JobIds
         /\ \A i \in rFirst..rAccepted : i \in 1..rAccepted /\ rQueued[i] \in JobIds
         /\ rFirst \in Nat /\ rFirst >= 1
         /\ ReadQueue!Idle => rFlying = {} /\ rFirst > rAccepted
<1>1. rFirst \in Nat /\ rFirst >= 1 /\ rAccepted \in Nat
  BY DEF rFirst, ReaderInv
<1>2. \A i \in rFirst..rAccepted : i \in 1..rAccepted /\ rQueued[i] \in JobIds
  <2> SUFFICES ASSUME NEW i \in rFirst..rAccepted PROVE i \in 1..rAccepted /\ rQueued[i] \in JobIds
    OBVIOUS
  <2>1. i \in 1..rAccepted
    BY <1>1
  <2>2. rQueued \in Seq(JobIds) /\ i \in 1..Len(rQueued)
    BY <2>1 DEF ReaderInv
  <2> QED BY <2>1, <2>2, ElementOfSeq
<1>3. ReadQueue!Idle => rFirst > rAccepted
  BY <1>1, IdleMeans DEF rFirst
<1>4. ReadQueue!Idle => rFlying = {}
  BY <1>1, <1>3 DEF rFlying
<1> QED BY <1>1, <1>2, <1>3, <1>4 DEF rFlying

\* The same of the jobs that are queued to be written.
LEMMA FlyingWrites ==
  ASSUME WriterInv
  PROVE  /\ wFlying \subseteq JobIds
         /\ \A i \in wFirst..wAccepted : i \in 1..wAccepted /\ wQueued[i] \in JobIds
         /\ wFirst \in Nat /\ wFirst >= 1
         /\ WriteQueue!Idle => wFlying = {} /\ wFirst > wAccepted
<1>1. wFirst \in Nat /\ wFirst >= 1 /\ wAccepted \in Nat
  BY DEF wFirst, WriterInv
<1>2. \A i \in wFirst..wAccepted : i \in 1..wAccepted /\ wQueued[i] \in JobIds
  <2> SUFFICES ASSUME NEW i \in wFirst..wAccepted PROVE i \in 1..wAccepted /\ wQueued[i] \in JobIds
    OBVIOUS
  <2>1. i \in 1..wAccepted
    BY <1>1
  <2>2. wQueued \in Seq(JobIds) /\ i \in 1..Len(wQueued)
    BY <2>1 DEF WriterInv
  <2> QED BY <2>1, <2>2, ElementOfSeq
<1>3. WriteQueue!Idle => wFirst > wAccepted
  BY <1>1, IdleMeans DEF wFirst
<1>4. WriteQueue!Idle => wFlying = {}
  BY <1>1, <1>3 DEF wFlying
<1> QED BY <1>1, <1>2, <1>3, <1>4 DEF wFlying

\* Every way in which the owner of read jobs changes.
LEMMA OwnersChange ==
  ASSUME NEW A, NEW C, NEW F, NEW h, NEW n, ReadOwners(A, C, F, h, n)
  PROVE  /\ h = NoIOJob /\ n = NoIOJob =>
              /\ \A j \in A : ReadOwners(A \ {j}, C, F, h, j)
              /\ \A j \in C : ReadOwners(A, C \ {j}, F, j, n)
         /\ n = NoIOJob /\ F = {} => ReadOwners(A \union (C \union ({h} \ {NoIOJob})), {}, {}, NoIOJob, n)
         /\ h = NoIOJob => ReadOwners(A, C, F \union ({n} \ {NoIOJob}), h, NoIOJob)
         /\ h = NoIOJob => ReadOwners(A, C \union ({n} \ {NoIOJob}), F, h, NoIOJob)
         /\ n = NoIOJob => ReadOwners(A \union ({h} \ {NoIOJob}), C, F, NoIOJob, n)
         /\ \A j \in F : ReadOwners(A, C \union {j}, F \ {j}, h, n)
<1>1. NoIOJob \notin 1..totalIoJobs
  BY IOPoolAssumption DEF totalIoJobs
<1> DEFINE all == 1..totalIoJobs
<1>2. NoIOJob \notin all /\ all = 1..totalIoJobs
  BY <1>1
<1> HIDE DEF all
<1>3. NoIOJob \notin A \union C \union F
  BY <1>2 DEF ReadOwners
<1>4. ASSUME h = NoIOJob, n = NoIOJob, NEW j \in A PROVE ReadOwners(A \ {j}, C, F, h, j)
  BY <1>2, <1>3, <1>4 DEF ReadOwners
<1>5. ASSUME h = NoIOJob, n = NoIOJob, NEW j \in C PROVE ReadOwners(A, C \ {j}, F, j, n)
  BY <1>2, <1>3, <1>5 DEF ReadOwners
<1>6. ASSUME n = NoIOJob, F = {} PROVE ReadOwners(A \union (C \union ({h} \ {NoIOJob})), {}, {}, NoIOJob, n)
  BY <1>2, <1>3, <1>6 DEF ReadOwners
<1>7. ASSUME h = NoIOJob PROVE ReadOwners(A, C, F \union ({n} \ {NoIOJob}), h, NoIOJob)
  BY <1>2, <1>3, <1>7 DEF ReadOwners
<1>8. ASSUME h = NoIOJob PROVE ReadOwners(A, C \union ({n} \ {NoIOJob}), F, h, NoIOJob)
  BY <1>2, <1>3, <1>8 DEF ReadOwners
<1>9. ASSUME n = NoIOJob PROVE ReadOwners(A \union ({h} \ {NoIOJob}), C, F, NoIOJob, n)
  BY <1>2, <1>3, <1>9 DEF ReadOwners
<1>10. ASSUME NEW j \in F PROVE ReadOwners(A, C \union {j}, F \ {j}, h, n)
  BY <1>2, <1>3, <1>10 DEF ReadOwners
<1> QED BY <1>4, <1>5, <1>6, <1>7, <1>8, <1>9, <1>10

\* The read jobs keep one owner each.
LEMMA ReadJobsKeepOwner ==
  ASSUME ReadOwnInv, ReaderInv, MainInv, CopyNext \/ UNCHANGED copyVars
  PROVE  ReadOwnInv'
<1>0. ASSUME asyncIO' = asyncIO,
             ReadOwners(ToSet(rAvailable'), completed', rFlying', held', newRead'),
             rAvailable' \in Seq(JobIds), IsInjective(rAvailable'),
             \A i, k \in (rFirst..rAccepted)' : rQueued'[i] = rQueued'[k] => i = k,
             held' \in JobIds \union {NoIOJob}, pc' = "reacquire" => rAvailable' # <<>>
      PROVE  ReadOwnInv'
  <2>1. ReadOwners(ToSet(rAvailable), completed, rFlying, held, newRead)'
    BY <1>0 DEF ReadOwners, totalIoJobs
  <2> QED BY <1>0, <2>1 DEF ReadOwnInv, JobIds
<1>13. ReadOwners(ToSet(rAvailable), completed, rFlying, held, newRead)
  BY DEF ReadOwnInv
<1>1. CASE UNCHANGED <<asyncIO, rPool, rAvailable, completed, held, newRead>>
           /\ rFirst' = rFirst /\ pc' # "reacquire"
  BY <1>0, <1>1 DEF ReadOwnInv, rFlying, rPool
<1>2. /\ rAvailable \in Seq(JobIds) /\ IsInjective(rAvailable)
      /\ completed \subseteq JobIds /\ ToSet(rAvailable) \subseteq JobIds
      /\ held \in JobIds \union {NoIOJob}
  <2>1. 1..totalIoJobs \subseteq JobIds
    BY IOPoolAssumption DEF totalIoJobs, JobIds
  <2> QED BY <2>1 DEF ReadOwnInv, ReadOwners
<1>3. CASE OpenSource \/ CloseSource
  <2> DEFINE one == IF held = NoIOJob THEN <<>> ELSE <<held>>
             left == SetToSeq(completed) \o one
  <2>1. /\ ReadQueue!Idle /\ rAvailable' = rAvailable \o left /\ completed' = {} /\ held' = NoIOJob
        /\ UNCHANGED <<asyncIO, rPool, rStage, newRead>> /\ pc' # "reacquire" /\ newRead = NoIOJob
    BY <1>3 DEF OpenSource, CloseSource, SetSource, jobs, MainInv
  <2>2. rFlying = {} /\ rFlying' = {} /\ rFirst' = rFirst /\ rFirst > rAccepted
    BY <2>1, FlyingReads DEF rFlying, rFirst, rPool
  <2>3. IsFiniteSet(completed)
    <3>1. IsFiniteSet(1..MaxIOJobs)
      BY FinishedCount, IOPoolAssumption
    <3> QED BY <1>2, <3>1, FS_Subset DEF JobIds
  <2>4. /\ SetToSeq(completed) \in Seq(JobIds) /\ IsInjective(SetToSeq(completed))
        /\ ToSet(SetToSeq(completed)) = completed
    BY <1>2, <2>3, ListedJobs
  <2>5. one \in Seq(JobIds) /\ IsInjective(one) /\ ToSet(one) = {held} \ {NoIOJob}
    <3>1. CASE held = NoIOJob
      <4>1. <<>> \in Seq(JobIds) /\ ToSet(<<>>) = {} /\ IsInjective(<<>>)
        BY DEF ToSet, IsInjective
      <4> QED BY <3>1, <4>1
    <3>2. CASE held # NoIOJob
      <4>1. held \in JobIds
        BY <1>2, <3>2
      <4>2. <<held>> \in Seq(JobIds) /\ DOMAIN <<held>> = {1} /\ <<held>>[1] = held
        BY <4>1
      <4>3. ToSet(<<held>>) = {held} /\ IsInjective(<<held>>)
        BY <4>2 DEF ToSet, IsInjective
      <4> QED BY <3>2, <4>2, <4>3
    <3> QED BY <3>1, <3>2
  <2> HIDE DEF one
  <2>6. left \in Seq(JobIds) /\ IsInjective(left) /\ ToSet(left) = completed \union ({held} \ {NoIOJob})
    <3>1. completed \intersect ({held} \ {NoIOJob}) = {}
      BY DEF ReadOwnInv, ReadOwners
    <3> QED BY <2>4, <2>5, <3>1, JoinedJobs
  <2> HIDE DEF left
  <2>7. /\ rAvailable' \in Seq(JobIds) /\ IsInjective(rAvailable')
        /\ ToSet(rAvailable') = ToSet(rAvailable) \union (completed \union ({held} \ {NoIOJob}))
    <3>1. ToSet(rAvailable) \intersect (completed \union ({held} \ {NoIOJob})) = {}
      BY DEF ReadOwnInv, ReadOwners
    <3> QED BY <1>2, <2>1, <2>6, <3>1, JoinedJobs
  <2>8. ReadOwners(ToSet(rAvailable'), {}, {}, NoIOJob, newRead)
    <3>1. ReadOwners(ToSet(rAvailable) \union (completed \union ({held} \ {NoIOJob})), {}, {}, NoIOJob, newRead)
      BY <1>13, <2>1, <2>2, OwnersChange
    <3> QED BY <2>7, <3>1
  <2>9. \A i, k \in (rFirst..rAccepted)' : FALSE
    BY <2>1, <2>2, FlyingReads DEF rPool, ReaderInv
  <2> QED BY <1>0, <2>1, <2>2, <2>7, <2>8, <2>9
<1>4. CASE StartRead \/ NextRead
  <2>1. /\ rAvailable' = Acquired(rAvailable) /\ newRead' = TopJob(rAvailable) /\ newRead = NoIOJob
        /\ UNCHANGED <<asyncIO, rPool, rStage, completed, held>> /\ pc' # "reacquire" /\ held = NoIOJob
    BY <1>4 DEF StartRead, NextRead, AcquireRead, MainInv
  <2>2. rAvailable # <<>>
    <3>1. CASE StartRead
      <4>1. turn < Len(rAvailable) /\ turn \in Nat
        BY <3>1 DEF StartRead, MainInv
      <4>2. CASE rAvailable = <<>>
        BY <4>1, <4>2
      <4> QED BY <4>2
    <3>2. CASE NextRead
      BY <3>2 DEF NextRead, ReadOwnInv
    <3> QED BY <1>4, <3>1, <3>2
  <2>3. /\ TopJob(rAvailable) \in ToSet(rAvailable) /\ TopJob(rAvailable) \in JobIds
        /\ Acquired(rAvailable) \in Seq(JobIds) /\ IsInjective(Acquired(rAvailable))
        /\ ToSet(Acquired(rAvailable)) = ToSet(rAvailable) \ {TopJob(rAvailable)}
    BY <1>2, <2>2, PoppedJob
  <2>4. NoIOJob \notin JobIds
    BY IOPoolAssumption DEF JobIds
  <2>5. rFlying' = rFlying /\ (rFirst..rAccepted)' = rFirst..rAccepted /\ rQueued' = rQueued
    BY <2>1 DEF rFlying, rFirst, rPool
  <2>6. ReadOwners(ToSet(rAvailable'), completed, rFlying, held, newRead')
    <3>1. \A j \in ToSet(rAvailable) : ReadOwners(ToSet(rAvailable) \ {j}, completed, rFlying, held, j)
      BY <1>13, <2>1, OwnersChange
    <3> QED BY <2>1, <2>3, <3>1
  <2>7. \A i, k \in rFirst..rAccepted : rQueued[i] = rQueued[k] => i = k
    BY DEF ReadOwnInv
  <2> QED BY <1>0, <1>2, <2>1, <2>3, <2>5, <2>6, <2>7
<1>5. CASE AddStartRead \/ AddNextRead
  <2>1. /\ EnqueueRead(newRead) /\ newRead' = NoIOJob /\ newRead # NoIOJob /\ newRead \in JobIds
        /\ asyncIO' = asyncIO /\ pc' # "reacquire" /\ held = NoIOJob
    BY <1>5 DEF AddStartRead, AddNextRead, MainInv
  <2>2. CASE asyncIO /\ ReadQueue!Accept /\ rQueued' = Append(rQueued, newRead)
             /\ UNCHANGED <<rStage, rAvailable, completed, held>>
    <3>1. rAccepted' = rAccepted + 1 /\ rStarted' = rStarted /\ rFirst' = rFirst
      BY <2>2 DEF ReadQueue!Accept, rFirst
    <3>2. /\ rAccepted \in Nat /\ Len(rQueued) = rAccepted /\ rQueued \in Seq(JobIds)
          /\ rFirst \in Nat /\ rFirst >= 1 /\ rFirst <= rAccepted + 1
      BY DEF ReaderInv, rFirst
    <3>3. /\ \A i \in 1..rAccepted : rQueued'[i] = rQueued[i]
          /\ rQueued'[rAccepted + 1] = newRead
      BY <2>1, <2>2, <3>2, AppendProperties
    <3>4. \A i \in rFirst..(rAccepted + 1) : i = rAccepted + 1 \/ i \in rFirst..rAccepted
      BY <3>2
    <3>5. \A i \in rFirst..rAccepted : i \in 1..rAccepted /\ i \in rFirst..(rAccepted + 1) /\ rQueued'[i] = rQueued[i]
      BY <3>2, <3>3
    <3>6. rFlying' = rFlying \union {newRead}
      <4>1. rFlying' = {rQueued'[i] : i \in rFirst..(rAccepted + 1)}
        BY <3>1 DEF rFlying
      <4>2. rAccepted + 1 \in rFirst..(rAccepted + 1)
        BY <3>2
      <4>3. ASSUME NEW x \in rFlying' PROVE x \in rFlying \union {newRead}
        BY <3>3, <3>4, <3>5, <4>1 DEF rFlying
      <4>4. ASSUME NEW x \in rFlying \union {newRead} PROVE x \in rFlying'
        BY <3>3, <3>5, <4>1, <4>2 DEF rFlying
      <4> QED BY <4>3, <4>4
    <3>7. ASSUME NEW i \in rFirst..(rAccepted + 1), NEW k \in rFirst..(rAccepted + 1), rQueued'[i] = rQueued'[k]
          PROVE  i = k
      <4>1. \A a \in rFirst..rAccepted : rQueued[a] \in rFlying
        BY DEF rFlying
      <4>2. newRead \notin rFlying
        BY DEF ReadOwnInv, ReadOwners
      <4>3. \A a, b \in rFirst..rAccepted : rQueued[a] = rQueued[b] => a = b
        BY DEF ReadOwnInv
      <4> QED BY <3>3, <3>4, <3>5, <3>7, <4>1, <4>2, <4>3
    <3>8. \A i, k \in (rFirst..rAccepted)' : rQueued'[i] = rQueued'[k] => i = k
      BY <3>1, <3>7
    <3>9. ReadOwners(ToSet(rAvailable), completed, rFlying', held, NoIOJob)
      <4>1. {newRead} \ {NoIOJob} = {newRead}
        BY <2>1
      <4> QED BY <2>1, <3>6, <4>1, OwnersChange DEF ReadOwnInv
    <3> QED BY <1>0, <1>2, <2>1, <2>2, <3>8, <3>9
  <2>3. CASE ~asyncIO /\ AddJobToCompleted(newRead) /\ UNCHANGED <<rPool, rStage, rAvailable, held>>
    <3>1. completed' = completed \union {newRead} /\ rFlying' = rFlying
          /\ (rFirst..rAccepted)' = rFirst..rAccepted /\ rQueued' = rQueued
      BY <2>1, <2>3 DEF AddJobToCompleted, rFlying, rFirst, rPool
    <3>2. ReadOwners(ToSet(rAvailable), completed', rFlying, held, NoIOJob)
      <4>1. {newRead} \ {NoIOJob} = {newRead}
        BY <2>1
      <4> QED BY <2>1, <3>1, <4>1, OwnersChange DEF ReadOwnInv
    <3>3. \A i, k \in rFirst..rAccepted : rQueued[i] = rQueued[k] => i = k
      BY DEF ReadOwnInv
    <3> QED BY <1>0, <1>2, <2>1, <2>3, <3>1, <3>2, <3>3
  <2> QED BY <2>1, <2>2, <2>3 DEF EnqueueRead
<1>6. CASE ReleaseRead
  <2>1. /\ held # NoIOJob /\ rAvailable' = Append(rAvailable, held) /\ held' = NoIOJob
        /\ UNCHANGED <<asyncIO, rPool, rStage, completed, newRead>> /\ newRead = NoIOJob
    BY <1>6 DEF ReleaseRead, ReleaseHeld, Released, MainInv, jobs
  <2>2. held \in JobIds /\ held \notin ToSet(rAvailable) /\ held \notin completed \union rFlying
    BY <1>2, <2>1 DEF ReadOwnInv, ReadOwners
  <2>3. /\ rAvailable' \in Seq(JobIds) /\ IsInjective(rAvailable') /\ rAvailable' # <<>>
        /\ ToSet(rAvailable') = ToSet(rAvailable) \union {held}
    BY <1>2, <2>1, <2>2, PushedJob
  <2>4. rFlying' = rFlying /\ (rFirst..rAccepted)' = rFirst..rAccepted /\ rQueued' = rQueued
    BY <2>1 DEF rFlying, rFirst, rPool
  <2>5. ReadOwners(ToSet(rAvailable'), completed, rFlying, NoIOJob, newRead)
    <3>1. ReadOwners(ToSet(rAvailable) \union ({held} \ {NoIOJob}), completed, rFlying, NoIOJob, newRead)
      BY <1>13, <2>1, OwnersChange
    <3>2. {held} \ {NoIOJob} = {held}
      BY <2>1
    <3> QED BY <2>3, <3>1, <3>2
  <2>6. \A i, k \in rFirst..rAccepted : rQueued[i] = rQueued[k] => i = k
    BY DEF ReadOwnInv
  <2> QED BY <1>0, <2>1, <2>3, <2>4, <2>5, <2>6
<1>7. CASE LoadRead
  <2>1. PICK mine \in completed : completed' = completed \ {mine} /\ held' = mine
    BY <1>7 DEF LoadRead, TakeCompleted, NextCompleted
  <2>2. UNCHANGED <<asyncIO, rPool, rStage, rAvailable, newRead>> /\ newRead = NoIOJob /\ held = NoIOJob
        /\ pc' # "reacquire"
    BY <1>7 DEF LoadRead, TakeCompleted, MainInv, jobs, AfterFill
  <2>3. rFlying' = rFlying /\ (rFirst..rAccepted)' = rFirst..rAccepted /\ rQueued' = rQueued
    BY <2>2 DEF rFlying, rFirst, rPool
  <2>4. ReadOwners(ToSet(rAvailable), completed', rFlying, held', newRead)
    BY <2>1, <2>2, OwnersChange DEF ReadOwnInv
  <2>5. \A i, k \in rFirst..rAccepted : rQueued[i] = rQueued[k] => i = k
    BY DEF ReadOwnInv
  <2> QED BY <1>0, <1>2, <2>1, <2>2, <2>3, <2>4, <2>5
<1>8. CASE ReaderRuns
  <2>1. CASE ReaderStarts \/ ReaderReads \/ ReaderEnds
    <3>1. UNCHANGED <<asyncIO, rAccepted, rQueued, rAvailable, completed, held, newRead>>
          /\ rFirst' = rFirst /\ pc' = pc
      BY <1>8, <2>1 DEF ReaderRuns, ReaderStarts, ReaderReads, ReaderEnds, ReadQueue!Start, ReadQueue!Finish,
             ReadQueue!Same, rFirst, rPool, mainVars, jobs, ReaderInv
    <3>2. rFlying' = rFlying
      BY <3>1 DEF rFlying
    <3> QED BY <1>0, <3>1, <3>2 DEF ReadOwnInv
  <2>2. CASE ReaderCompletes
    <3> DEFINE mine == rQueued[rStarted]
    <3>1. /\ completed' = completed \union {mine} /\ rFirst = rStarted /\ rFirst' = rStarted + 1
          /\ UNCHANGED <<asyncIO, rPool, rAvailable, held, newRead, pc>>
      BY <1>8, <2>2 DEF ReaderRuns, ReaderCompletes, AddJobToCompleted, rFirst, rPool, mainVars, jobs
    <3>2. rStarted \in Nat /\ rAccepted \in Nat /\ rStarted \in rFirst..rAccepted
      BY <2>2, <3>1 DEF ReaderInv, ReaderCompletes
    <3>3. \A i \in rFirst..rAccepted : i = rStarted \/ i \in (rStarted + 1)..rAccepted
      BY <3>1, <3>2
    <3>4. \A i \in (rStarted + 1)..rAccepted : i \in rFirst..rAccepted /\ i # rStarted
      BY <3>1, <3>2
    <3>5. \A i, k \in rFirst..rAccepted : rQueued[i] = rQueued[k] => i = k
      BY DEF ReadOwnInv
    <3>6. rFlying' = {rQueued[i] : i \in (rStarted + 1)..rAccepted}
      BY <3>1 DEF rFlying, rPool
    <3>7. rFlying' = rFlying \ {mine} /\ mine \in rFlying
      <4>1. ASSUME NEW x \in rFlying' PROVE x \in rFlying \ {mine}
        BY <3>2, <3>4, <3>5, <3>6 DEF rFlying
      <4>2. ASSUME NEW x \in rFlying \ {mine} PROVE x \in rFlying'
        BY <3>3, <3>6 DEF rFlying
      <4>3. mine \in rFlying
        BY <3>2 DEF rFlying
      <4> QED BY <4>1, <4>2, <4>3
    <3>8. \A i, k \in (rFirst..rAccepted)' : rQueued'[i] = rQueued'[k] => i = k
      BY <3>1, <3>4, <3>5 DEF rPool
    <3> HIDE DEF mine
    <3>9. ReadOwners(ToSet(rAvailable), completed', rFlying', held, newRead)
      BY <3>1, <3>7, OwnersChange DEF ReadOwnInv
    <3> QED BY <1>0, <1>2, <3>1, <3>8, <3>9 DEF ReadOwnInv
  <2> QED BY <1>8, <2>1, <2>2 DEF ReaderRuns, ReaderStep
<1>9. CASE UNCHANGED <<asyncIO, readVars, newRead>> /\ pc' # "reacquire"
  BY <1>1, <1>9 DEF readVars, rFirst, rPool
<1>10. CASE WaitForRead \/ MainWakesForNothing
  <2>1. UNCHANGED <<asyncIO, rPool, rStage, rAvailable, completed, held, newRead, pc>>
    BY <1>10 DEF WaitForRead, MainWakesForNothing, ConsumerWakesForNothing, WaitForCompleted, mainVars, jobs
  <2> QED BY <1>0, <2>1 DEF ReadOwnInv, rFlying, rFirst, rPool
<1>11. CASE UNCHANGED <<asyncIO, readVars, newRead, pc>>
  BY <1>0, <1>11 DEF ReadOwnInv, rFlying, rFirst, readVars, rPool
<1>12. ASSUME MainStep PROVE ReadOwnInv'
  BY <1>3, <1>4, <1>5, <1>6, <1>7, <1>9, <1>10, <1>12 DEF MainStep, OpenDestination, FillIsEnough, Coalesce,
     NothingHeld, SourceIsOver, NoMoreReads, EmptySource, BeginCopy, CopyBlock, ConsumeBlock, EndCopy,
     EndSparse, CloseDestination, AfterFill, jobs
<1> QED BY <1>8, <1>10, <1>11, <1>12 DEF CopyNext, WriterRuns, CopyIsDone, copyVars, mainVars, jobs

\* Every way in which the owner of write jobs changes.
LEMMA WriteOwnersChange ==
  ASSUME NEW A, NEW F, NEW n, WriteOwners(A, F, n)
  PROVE  /\ n = NoIOJob => \A j \in A : WriteOwners(A \ {j}, F, j)
         /\ n # NoIOJob => WriteOwners(A, F \union {n}, NoIOJob) /\ WriteOwners(A \union {n}, F, NoIOJob)
         /\ \A j \in F : WriteOwners(A \union {j}, F \ {j}, n)
<1>1. NoIOJob \notin 1..totalIoJobs
  BY IOPoolAssumption DEF totalIoJobs
<1> DEFINE all == 1..totalIoJobs
<1>2. NoIOJob \notin all /\ all = 1..totalIoJobs
  BY <1>1
<1> HIDE DEF all
<1>3. NoIOJob \notin A \union F
  BY <1>2 DEF WriteOwners
<1>4. ASSUME n = NoIOJob, NEW j \in A PROVE WriteOwners(A \ {j}, F, j)
  BY <1>2, <1>3, <1>4 DEF WriteOwners
<1>5. ASSUME n # NoIOJob PROVE WriteOwners(A, F \union {n}, NoIOJob)
  BY <1>2, <1>3, <1>5 DEF WriteOwners
<1>6. ASSUME n # NoIOJob PROVE WriteOwners(A \union {n}, F, NoIOJob)
  BY <1>2, <1>3, <1>6 DEF WriteOwners
<1>7. ASSUME NEW j \in F PROVE WriteOwners(A \union {j}, F \ {j}, n)
  BY <1>2, <1>3, <1>7 DEF WriteOwners
<1> QED BY <1>4, <1>5, <1>6, <1>7

\* The write jobs keep one owner each.
LEMMA WriteJobsKeepOwner ==
  ASSUME WriteOwnInv, WriterInv, MainInv, CopyNext \/ UNCHANGED copyVars
  PROVE  WriteOwnInv'
<1> DEFINE One(j) == IF j = NoIOJob THEN 0 ELSE 1
<1>0. ASSUME asyncIO' = asyncIO, WriteOwners(ToSet(wAvailable'), wFlying', filling'),
             wAvailable' \in Seq(JobIds), IsInjective(wAvailable'),
             \A i, k \in (wFirst..wAccepted)' : wQueued'[i] = wQueued'[k] => i = k,
             Len(wAvailable') + (wAccepted' - wFirst' + 1) + One(filling')
               = Len(wAvailable) + (wAccepted - wFirst + 1) + One(filling)
      PROVE  WriteOwnInv'
  <2>1. WriteOwners(ToSet(wAvailable), wFlying, filling)'
    BY <1>0 DEF WriteOwners, totalIoJobs
  <2>2. Len(wAvailable') + (wAccepted' - wFirst' + 1) + One(filling') = totalIoJobs'
    BY <1>0 DEF WriteOwnInv, totalIoJobs
  <2> QED BY <1>0, <2>1, <2>2 DEF WriteOwnInv, JobIds
<1>1. /\ wAvailable \in Seq(JobIds) /\ IsInjective(wAvailable)
      /\ WriteOwners(ToSet(wAvailable), wFlying, filling)
      /\ \A i, k \in wFirst..wAccepted : wQueued[i] = wQueued[k] => i = k
      /\ Len(wAvailable) \in Nat /\ wAccepted \in Nat /\ wFirst \in Nat /\ wFirst >= 1 /\ wFirst <= wAccepted + 1
      /\ Len(wQueued) = wAccepted /\ wQueued \in Seq(JobIds)
  BY LenProperties DEF WriteOwnInv, WriterInv, wFirst
<1>2. NoIOJob \notin JobIds
  BY IOPoolAssumption DEF JobIds
<1>3. CASE UNCHANGED <<asyncIO, wAccepted, wQueued, wAvailable, wFirst, filling>>
  <2>1. wFlying' = wFlying
    BY <1>3 DEF wFlying
  <2> QED BY <1>0, <1>1, <1>3, <2>1
<1>4. CASE BeginCopy \/ ConsumeBlock
  <2> DEFINE mine == TopJob(wAvailable)
  <2>1. /\ wAvailable' = Acquired(wAvailable) /\ filling' = mine /\ filling = NoIOJob
        /\ UNCHANGED <<asyncIO, wPool, wStage>>
    BY <1>4 DEF BeginCopy, ConsumeBlock, AcquireWrite, filling, MainInv
  <2>2. wAvailable # <<>>
    BY <1>4, WriteJobIsThere DEF BeginCopy, ConsumeBlock
  <2>3. /\ mine \in ToSet(wAvailable) /\ mine \in JobIds
        /\ wAvailable' \in Seq(JobIds) /\ IsInjective(wAvailable')
        /\ ToSet(wAvailable') = ToSet(wAvailable) \ {mine}
        /\ Len(wAvailable') = Len(wAvailable) - 1
    BY <1>1, <2>1, <2>2, PoppedJob
  <2>4. /\ wFlying' = wFlying /\ wQueued' = wQueued /\ wAccepted' = wAccepted /\ wFirst' = wFirst
    BY <2>1 DEF wFlying, wFirst, wPool
  <2>5. WriteOwners(ToSet(wAvailable'), wFlying, mine)
    <3>1. \A j \in ToSet(wAvailable) : WriteOwners(ToSet(wAvailable) \ {j}, wFlying, j)
      BY <1>1, <2>1, WriteOwnersChange
    <3> QED BY <2>3, <3>1
  <2>6. One(filling') = 1 /\ One(filling) = 0
    BY <1>2, <2>1, <2>3
  <2> HIDE DEF mine, One
  <2>7. Len(wAvailable') + (wAccepted' - wFirst' + 1) + One(filling')
               = Len(wAvailable) + (wAccepted - wFirst + 1) + One(filling)
    BY <1>1, <2>3, <2>4, <2>6
  <2> QED BY <1>0, <1>1, <2>1, <2>3, <2>4, <2>5, <2>7 DEF One
<1>5. CASE CopyBlock
  <2>1. /\ writeJob \in JobIds /\ filling = writeJob /\ filling # NoIOJob /\ filling' = NoIOJob
        /\ asyncIO' = asyncIO /\ EnqueueWrite(writeJob, Loaded(WriteSize))
    BY <1>2, <1>5 DEF CopyBlock, filling, MainInv
  <2>2. One(filling') = 0 /\ One(filling) = 1
    BY <2>1
  <2>3. CASE asyncIO /\ WriteQueue!Accept /\ wQueued' = Append(wQueued, writeJob)
             /\ UNCHANGED <<wStage, wAvailable>>
    <3>1. wAccepted' = wAccepted + 1 /\ wStarted' = wStarted /\ wFirst' = wFirst
      BY <2>3 DEF WriteQueue!Accept, wFirst
    <3>2. /\ \A i \in 1..wAccepted : wQueued'[i] = wQueued[i]
          /\ wQueued'[wAccepted + 1] = writeJob
      BY <1>1, <2>1, <2>3, AppendProperties
    <3>3. \A i \in wFirst..(wAccepted + 1) : i = wAccepted + 1 \/ i \in wFirst..wAccepted
      BY <1>1
    <3>4. \A i \in wFirst..wAccepted : i \in 1..wAccepted /\ i \in wFirst..(wAccepted + 1) /\ wQueued'[i] = wQueued[i]
      BY <1>1, <3>2
    <3>5. wFlying' = wFlying \union {writeJob}
      <4>1. wFlying' = {wQueued'[i] : i \in wFirst..(wAccepted + 1)}
        BY <3>1 DEF wFlying
      <4>2. wAccepted + 1 \in wFirst..(wAccepted + 1)
        BY <1>1
      <4>3. ASSUME NEW x \in wFlying' PROVE x \in wFlying \union {writeJob}
        BY <3>2, <3>3, <3>4, <4>1 DEF wFlying
      <4>4. ASSUME NEW x \in wFlying \union {writeJob} PROVE x \in wFlying'
        BY <3>2, <3>4, <4>1, <4>2 DEF wFlying
      <4> QED BY <4>3, <4>4
    <3>6. ASSUME NEW i \in wFirst..(wAccepted + 1), NEW k \in wFirst..(wAccepted + 1), wQueued'[i] = wQueued'[k]
          PROVE  i = k
      <4>1. \A a \in wFirst..wAccepted : wQueued[a] \in wFlying
        BY DEF wFlying
      <4>2. writeJob \notin wFlying
        BY <1>1, <2>1 DEF WriteOwners
      <4> QED BY <1>1, <3>2, <3>3, <3>4, <3>6, <4>1, <4>2
    <3>7. \A i, k \in (wFirst..wAccepted)' : wQueued'[i] = wQueued'[k] => i = k
      BY <3>1, <3>6
    <3>8. WriteOwners(ToSet(wAvailable), wFlying', NoIOJob)
      BY <1>1, <2>1, <3>5, WriteOwnersChange
    <3> HIDE DEF One
    <3>9. Len(wAvailable) + (wAccepted' - wFirst' + 1) + One(filling')
               = Len(wAvailable) + (wAccepted - wFirst + 1) + One(filling)
      BY <1>1, <2>2, <3>1
    <3> QED BY <1>0, <1>1, <2>1, <2>3, <3>7, <3>8, <3>9 DEF One
  <2>4. CASE wAvailable' = Released(wAvailable, writeJob) /\ UNCHANGED <<wPool, wStage>>
    <3>1. writeJob \notin ToSet(wAvailable)
      BY <1>1, <2>1 DEF WriteOwners
    <3>2. /\ wAvailable' \in Seq(JobIds) /\ IsInjective(wAvailable')
          /\ ToSet(wAvailable') = ToSet(wAvailable) \union {writeJob}
          /\ Len(wAvailable') = Len(wAvailable) + 1
      BY <1>1, <2>1, <2>4, <3>1, PushedJob DEF Released
    <3>3. wFlying' = wFlying /\ wQueued' = wQueued /\ wAccepted' = wAccepted /\ wFirst' = wFirst
      BY <2>4 DEF wFlying, wFirst, wPool
    <3>4. WriteOwners(ToSet(wAvailable'), wFlying, NoIOJob)
      <4>1. WriteOwners(ToSet(wAvailable) \union {filling}, wFlying, NoIOJob)
        BY <1>1, <2>1, WriteOwnersChange
      <4> QED BY <2>1, <3>2, <4>1
    <3> HIDE DEF One
    <3>5. Len(wAvailable') + (wAccepted' - wFirst' + 1) + One(filling')
               = Len(wAvailable) + (wAccepted - wFirst + 1) + One(filling)
      BY <1>1, <2>2, <3>2, <3>3
    <3> QED BY <1>0, <1>1, <2>1, <3>2, <3>3, <3>4, <3>5 DEF One
  <2> QED BY <2>1, <2>3, <2>4 DEF EnqueueWrite
<1>6. CASE EndCopy
  <2>1. /\ writeJob \in JobIds /\ filling = writeJob /\ filling # NoIOJob /\ filling' = NoIOJob
        /\ asyncIO' = asyncIO /\ wAvailable' = Released(wAvailable, writeJob) /\ UNCHANGED <<wPool, wStage>>
    BY <1>2, <1>6 DEF EndCopy, ReleaseWrite, filling, MainInv
  <2>2. One(filling') = 0 /\ One(filling) = 1
    BY <2>1
  <2>3. writeJob \notin ToSet(wAvailable)
    BY <1>1, <2>1 DEF WriteOwners
  <2>4. /\ wAvailable' \in Seq(JobIds) /\ IsInjective(wAvailable')
        /\ ToSet(wAvailable') = ToSet(wAvailable) \union {writeJob}
        /\ Len(wAvailable') = Len(wAvailable) + 1
    BY <1>1, <2>1, <2>3, PushedJob DEF Released
  <2>5. wFlying' = wFlying /\ wQueued' = wQueued /\ wAccepted' = wAccepted /\ wFirst' = wFirst
    BY <2>1 DEF wFlying, wFirst, wPool
  <2>6. WriteOwners(ToSet(wAvailable'), wFlying, NoIOJob)
    <3>1. WriteOwners(ToSet(wAvailable) \union {filling}, wFlying, NoIOJob)
      BY <1>1, <2>1, WriteOwnersChange
    <3> QED BY <2>1, <2>4, <3>1
  <2> HIDE DEF One
  <2>7. Len(wAvailable') + (wAccepted' - wFirst' + 1) + One(filling')
             = Len(wAvailable) + (wAccepted - wFirst + 1) + One(filling)
    BY <1>1, <2>2, <2>4, <2>5
  <2> QED BY <1>0, <1>1, <2>1, <2>4, <2>5, <2>6, <2>7 DEF One
<1>7. CASE WriterRuns
  <2>1. UNCHANGED <<asyncIO, pc, writeJob, filling>>
    BY <1>7 DEF WriterRuns, mainVars, jobs, filling
  <2>2. CASE WriterStarts \/ WriterWrites \/ WriterEnds
    <3>1. UNCHANGED <<wAccepted, wQueued, wAvailable, wFirst>>
      BY <2>2 DEF WriterStarts, WriterWrites, WriterEnds, WriteQueue!Start, WriteQueue!Finish,
             WriteQueue!Same, wFirst, wPool, WriterInv
    <3> QED BY <1>3, <2>1, <3>1
  <2>3. CASE WriterReleases
    <3> DEFINE mine == wQueued[wStarted]
    <3>1. /\ wAvailable' = Released(wAvailable, mine) /\ wFirst = wStarted /\ wFirst' = wStarted + 1
          /\ UNCHANGED wPool
      BY <2>3 DEF WriterReleases, wFirst, wPool
    <3>2. wStarted \in Nat /\ wStarted \in wFirst..wAccepted
      BY <2>3, <3>1 DEF WriterInv, WriterReleases
    <3>3. \A i \in wFirst..wAccepted : i = wStarted \/ i \in (wStarted + 1)..wAccepted
      BY <1>1, <3>1, <3>2
    <3>4. \A i \in (wStarted + 1)..wAccepted : i \in wFirst..wAccepted /\ i # wStarted
      BY <1>1, <3>1, <3>2
    <3>5. wFlying' = {wQueued[i] : i \in (wStarted + 1)..wAccepted}
      BY <3>1 DEF wFlying, wPool
    <3>6. wFlying' = wFlying \ {mine} /\ mine \in wFlying
      <4>1. ASSUME NEW x \in wFlying' PROVE x \in wFlying \ {mine}
        BY <1>1, <3>2, <3>4, <3>5 DEF wFlying
      <4>2. ASSUME NEW x \in wFlying \ {mine} PROVE x \in wFlying'
        BY <3>3, <3>5 DEF wFlying
      <4>3. mine \in wFlying
        BY <3>2 DEF wFlying
      <4> QED BY <4>1, <4>2, <4>3
    <3>7. \A i, k \in (wFirst..wAccepted)' : wQueued'[i] = wQueued'[k] => i = k
      BY <1>1, <3>1, <3>4 DEF wPool
    <3>8. mine \in JobIds /\ mine \notin ToSet(wAvailable)
      BY <1>1, <3>6, FlyingWrites DEF WriteOwners
    <3> HIDE DEF mine
    <3>9. /\ wAvailable' \in Seq(JobIds) /\ IsInjective(wAvailable')
          /\ ToSet(wAvailable') = ToSet(wAvailable) \union {mine}
          /\ Len(wAvailable') = Len(wAvailable) + 1
      BY <1>1, <3>1, <3>8, PushedJob DEF Released
    <3>10. WriteOwners(ToSet(wAvailable'), wFlying', filling')
      <4>1. \A j \in wFlying : WriteOwners(ToSet(wAvailable) \union {j}, wFlying \ {j}, filling)
        BY <1>1, WriteOwnersChange
      <4> QED BY <2>1, <3>6, <3>9, <4>1
    <3> DEFINE one == One(filling)
    <3>11. One(filling') = one /\ one \in Int
      BY <2>1
    <3> HIDE DEF one, One
    <3>12. Len(wAvailable') + (wAccepted' - wFirst' + 1) + One(filling')
               = Len(wAvailable) + (wAccepted - wFirst + 1) + one
      BY <1>1, <3>1, <3>2, <3>9, <3>11 DEF wPool
    <3> QED BY <1>0, <2>1, <3>7, <3>9, <3>10, <3>12 DEF one, One
  <2> QED BY <1>7, <2>2, <2>3 DEF WriterRuns, WriterStep
<1>8. CASE UNCHANGED <<asyncIO, wPool, wStage, wAvailable, writeJob>> /\ pc # "consume" /\ pc' # "consume"
  <2>1. UNCHANGED <<wFirst, filling>>
    BY <1>8 DEF wFirst, filling, wPool
  <2> QED BY <1>3, <1>8, <2>1 DEF wPool
<1>9. CASE UNCHANGED <<asyncIO, writeVars, writeJob, pc>>
  <2>1. UNCHANGED <<wFirst, filling>>
    BY <1>9 DEF wFirst, filling, writeVars, wPool
  <2> QED BY <1>3, <1>9, <2>1 DEF writeVars, wPool
<1>10. CASE OpenDestination \/ EndSparse \/ CloseDestination
  BY <1>8, <1>10 DEF OpenDestination, EndSparse, CloseDestination, SetDestination, SparseWriteEnd, jobs
<1>11. CASE OpenSource \/ CloseSource \/ StartRead \/ AddStartRead \/ NextRead \/ AddNextRead
  BY <1>8, <1>11 DEF OpenSource, CloseSource, StartRead, AddStartRead, NextRead, AddNextRead, jobs, writeVars
<1>12. CASE FillIsEnough \/ Coalesce \/ ReleaseRead \/ NothingHeld \/ LoadRead \/ SourceIsOver \/ EmptySource
  BY <1>8, <1>12 DEF FillIsEnough, Coalesce, ReleaseRead, NothingHeld, LoadRead, SourceIsOver, EmptySource,
         AfterFill, jobs, writeVars
<1>13. CASE WaitForRead \/ MainWakesForNothing \/ ReaderRuns \/ UNCHANGED copyVars
  BY <1>9, <1>13 DEF WaitForRead, MainWakesForNothing, ReaderRuns, copyVars, mainVars, jobs
<1> QED BY <1>4, <1>5, <1>6, <1>7, <1>10, <1>11, <1>12, <1>13 DEF CopyNext, MainStep, CopyIsDone

\* The invariants of the jobs, each proved from the others.
JobsInvs == ReaderInv /\ WriterInv /\ MainInv /\ ReadOwnInv /\ WriteOwnInv

\* All jobs are available at the beginning.
LEMMA StartOwned ==
  ASSUME CopyInit
  PROVE  JobsInvs
<1> USE IOPoolAssumption, PassThroughAssumption
<1>1. ReaderInv
  <2>1. <<>> \in Seq(JobIds) /\ Len(<<>>) = 0
    BY EmptySeq
  <2> QED BY <2>1 DEF CopyInit, ReadInit, ReadQueue!JobPoolInit, ReaderInv, QueueRoom
<1>2. WriterInv
  <2>1. <<>> \in Seq(JobIds) /\ Len(<<>>) = 0
    BY EmptySeq
  <2> QED BY <2>1 DEF CopyInit, WriteInit, WriteQueue!JobPoolInit, WriterInv, QueueRoom
<1>3. MainInv
  BY DEF CopyInit, ReadInit, WriteInit, WriteQueue!JobPoolInit, MainInv, JobIds
<1>4. /\ NewAvailable \in Seq(JobIds) /\ IsInjective(NewAvailable)
      /\ ToSet(NewAvailable) = 1..totalIoJobs /\ Len(NewAvailable) = totalIoJobs
  <2>1. totalIoJobs \in Nat /\ 1..totalIoJobs \subseteq JobIds
    BY DEF totalIoJobs, JobIds, CopyInit
  <2> DEFINE n == totalIoJobs
  <2>2. NewAvailable = [i \in 1..n |-> i]
    BY DEF NewAvailable
  <2> HIDE DEF n
  <2>3. NewAvailable \in [1..n -> JobIds] /\ n \in Nat
    BY <2>1, <2>2 DEF n
  <2>4. NewAvailable \in Seq(JobIds)
    BY <2>3, SeqDef
  <2>5. Len(NewAvailable) = n
    BY <2>3, <2>4, LenProperties
  <2>6. IsInjective(NewAvailable) /\ ToSet(NewAvailable) = 1..n
    BY <2>2 DEF IsInjective, ToSet
  <2> QED BY <2>4, <2>5, <2>6 DEF n
<1>5. rFlying = {} /\ rFirst = 1 /\ rAccepted = 0 /\ wFlying = {} /\ wFirst = 1 /\ wAccepted = 0
  BY DEF CopyInit, ReadInit, WriteInit, ReadQueue!JobPoolInit, WriteQueue!JobPoolInit, rFlying, wFlying,
         rFirst, wFirst
<1>6. NoIOJob \notin 1..totalIoJobs /\ totalIoJobs \in Nat
  BY DEF totalIoJobs, CopyInit
<1>7. ReadOwnInv
  <2>1. rAvailable = NewAvailable /\ completed = {} /\ held = NoIOJob /\ newRead = NoIOJob /\ pc = "open"
    BY DEF CopyInit, ReadInit
  <2>2. ReadOwners(ToSet(rAvailable), completed, rFlying, held, newRead)
    BY <1>4, <1>5, <1>6, <2>1 DEF ReadOwners
  <2> QED BY <1>4, <1>5, <2>1, <2>2 DEF ReadOwnInv
<1>8. WriteOwnInv
  <2>1. wAvailable = NewAvailable /\ filling = NoIOJob
    BY DEF CopyInit, WriteInit, filling
  <2>2. WriteOwners(ToSet(wAvailable), wFlying, filling)
    BY <1>4, <1>5, <1>6, <2>1 DEF WriteOwners
  <2> QED BY <1>4, <1>5, <1>6, <2>1, <2>2 DEF WriteOwnInv
<1> QED BY <1>1, <1>2, <1>3, <1>7, <1>8 DEF JobsInvs

\* They are invariants.
LEMMA JobsInvsHold == CopySpec => []JobsInvs
<1>1. CopyInit => JobsInvs
  BY StartOwned
<1>2. JobsInvs /\ [CopyNext]_copyVars => JobsInvs'
  BY ReaderStays, WriterStays, MainStays, ReadJobsKeepOwner, WriteJobsKeepOwner DEF JobsInvs
<1> QED BY <1>1, <1>2, PTL DEF CopySpec

\* The part of a queue that starts at place a, as a set.
LEMMA RestOfQueue ==
  ASSUME NEW T, NEW q \in Seq(T), NEW a \in Nat, a >= 1, a <= Len(q) + 1,
         \A i, k \in a..Len(q) : q[i] = q[k] => i = k
  PROVE  /\ ToSet(SubSeq(q, a, Len(q))) = {q[i] : i \in a..Len(q)}
         /\ IsInjective(SubSeq(q, a, Len(q)))
<1> DEFINE n == Len(q)
           s == SubSeq(q, a, n)
<1>1. n \in Nat /\ \A i \in a..n : q[i] \in T
  BY ElementOfSeq
<1>2. /\ s \in Seq(T)
      /\ Len(s) = IF a <= n THEN n - a + 1 ELSE 0
      /\ \A i \in 1..(n - a + 1) : s[i] = q[a + i - 1]
  <2> HIDE DEF n
  <2> QED BY <1>1, SubSeqProperties
<1> DEFINE m == n - a + 1
<1>3. DOMAIN s = 1..m /\ m \in Nat
  <2>1. DOMAIN s = 1..Len(s)
    BY <1>2, LenProperties
  <2>2. Len(s) = m
    BY <1>1, <1>2
  <2> QED BY <1>1, <2>1, <2>2
<1>4. \A i \in 1..m : a + i - 1 \in a..n /\ s[i] = q[a + i - 1]
  BY <1>1, <1>2
<1>5. \A i \in a..n : i - a + 1 \in 1..m /\ s[i - a + 1] = q[i]
  <2> SUFFICES ASSUME NEW i \in a..n PROVE i - a + 1 \in 1..m /\ s[i - a + 1] = q[i]
    OBVIOUS
  <2>1. i - a + 1 \in 1..m /\ a + (i - a + 1) - 1 = i
    BY <1>1
  <2> HIDE DEF s, m, n
  <2> QED BY <1>4, <2>1
<1> HIDE DEF s, m, n
<1>6. ToSet(s) = {q[i] : i \in a..n}
  <2>1. ASSUME NEW x \in ToSet(s) PROVE x \in {q[i] : i \in a..n}
    BY <1>3, <1>4 DEF ToSet
  <2>2. ASSUME NEW x \in {q[i] : i \in a..n} PROVE x \in ToSet(s)
    BY <1>3, <1>5 DEF ToSet
  <2> QED BY <2>1, <2>2
<1>7. IsInjective(s)
  <2> SUFFICES ASSUME NEW i \in 1..m, NEW k \in 1..m, s[i] = s[k] PROVE i = k
    BY <1>3 DEF IsInjective
  <2>1. a + i - 1 = a + k - 1
    BY <1>4 DEF n
  <2> QED BY <1>3, <2>1
<1> QED BY <1>6, <1>7 DEF s, n

\* What InFlight says.
LEMMA InFlightIsFlying ==
  ASSUME JobsInvs
  PROVE  /\ ToSet(ReadsInFlightNow) = rFlying /\ IsInjective(ReadsInFlightNow)
         /\ ToSet(WritesInFlightNow) = wFlying /\ IsInjective(WritesInFlightNow)
<1>1. /\ ReaderInv /\ WriterInv
      /\ \A i, k \in rFirst..rAccepted : rQueued[i] = rQueued[k] => i = k
      /\ \A i, k \in wFirst..wAccepted : wQueued[i] = wQueued[k] => i = k
  BY DEF JobsInvs, ReadOwnInv, WriteOwnInv
<1>2. ReadsInFlightNow = SubSeq(rQueued, rFirst, Len(rQueued))
  <2> DEFINE k == IF rStage = "idle" THEN rStarted ELSE rStarted - 1
  <2>1. k \in Nat /\ rFinished = 1..k
    BY <1>1 DEF ReaderInv
  <2>2. Cardinality(rFinished) = k
    BY <2>1, FinishedCount
  <2>3. k + (IF rStage = "end" THEN 2 ELSE 1) = rFirst
    BY <1>1 DEF rFirst, ReaderInv
  <2> HIDE DEF k
  <2> QED BY <2>2, <2>3 DEF ReadsInFlightNow, InFlight
<1>3. WritesInFlightNow = SubSeq(wQueued, wFirst, Len(wQueued))
  <2> DEFINE k == IF wStage = "idle" THEN wStarted ELSE wStarted - 1
  <2>1. k \in Nat /\ wFinished = 1..k
    BY <1>1 DEF WriterInv
  <2>2. Cardinality(wFinished) = k
    BY <2>1, FinishedCount
  <2>3. k + (IF wStage = "end" THEN 2 ELSE 1) = wFirst
    BY <1>1 DEF wFirst, WriterInv
  <2> HIDE DEF k
  <2> QED BY <2>2, <2>3 DEF WritesInFlightNow, InFlight
<1>4. rQueued \in Seq(JobIds) /\ Len(rQueued) = rAccepted /\ rFirst \in Nat /\ rFirst >= 1 /\ rFirst <= rAccepted + 1
  BY <1>1 DEF ReaderInv, rFirst
<1>5. wQueued \in Seq(JobIds) /\ Len(wQueued) = wAccepted /\ wFirst \in Nat /\ wFirst >= 1 /\ wFirst <= wAccepted + 1
  BY <1>1 DEF WriterInv, wFirst
<1>6. /\ ToSet(SubSeq(rQueued, rFirst, Len(rQueued))) = rFlying
      /\ IsInjective(SubSeq(rQueued, rFirst, Len(rQueued)))
  BY <1>1, <1>4, RestOfQueue DEF rFlying
<1>7. /\ ToSet(SubSeq(wQueued, wFirst, Len(wQueued))) = wFlying
      /\ IsInjective(SubSeq(wQueued, wFirst, Len(wQueued)))
  BY <1>1, <1>5, RestOfQueue DEF wFlying
<1> QED BY <1>2, <1>3, <1>6, <1>7

\* Every job of the read pool and of the write pool is in one place, for every
\* number of jobs and all files: none is lost when a file is closed, and no
\* buffer is filled by one thread while another one reads it.
THEOREM JobsStayOwned == CopySpec => []JobsHaveOneOwner
<1>1. ASSUME JobsInvs PROVE JobsHaveOneOwner
  <2>1. /\ IsInjective(rAvailable) /\ IsInjective(wAvailable)
        /\ ReadOwners(ToSet(rAvailable), completed, rFlying, held, newRead)
        /\ WriteOwners(ToSet(wAvailable), wFlying, filling)
    BY <1>1 DEF JobsInvs, ReadOwnInv, WriteOwnInv
  <2>2. /\ ToSet(ReadsInFlightNow) = rFlying /\ IsInjective(ReadsInFlightNow)
        /\ ToSet(WritesInFlightNow) = wFlying /\ IsInjective(WritesInFlightNow)
    BY <1>1, InFlightIsFlying
  <2>3. ASSUME NEW A, NEW B, NEW C, NEW D, NEW E, A \union B \union C \union D \union E = 1..totalIoJobs,
               A \intersect B = {}, A \intersect C = {}, A \intersect D = {}, A \intersect E = {},
               B \intersect C = {}, B \intersect D = {}, B \intersect E = {},
               C \intersect D = {}, C \intersect E = {}, D \intersect E = {}
        PROVE  OneOwner(<<A, B, C, D, E>>)
    <3> DEFINE p == <<A, B, C, D, E>>
    <3>1. DOMAIN p = {1, 2, 3, 4, 5} /\ p[1] = A /\ p[2] = B /\ p[3] = C /\ p[4] = D /\ p[5] = E
      BY SMT
    <3> HIDE DEF p
    <3>2. UNION {p[i] : i \in DOMAIN p} = A \union B \union C \union D \union E
      BY <3>1
    <3>3. \A i, j \in DOMAIN p : i # j => p[i] \intersect p[j] = {}
      BY <2>3, <3>1
    <3> QED BY <2>3, <3>2, <3>3 DEF OneOwner, p
  <2>4. ASSUME NEW A, NEW B, NEW C, A \union B \union C = 1..totalIoJobs,
               A \intersect B = {}, A \intersect C = {}, B \intersect C = {}
        PROVE  OneOwner(<<A, B, C>>)
    <3> DEFINE p == <<A, B, C>>
    <3>1. DOMAIN p = {1, 2, 3} /\ p[1] = A /\ p[2] = B /\ p[3] = C
      BY SMT
    <3> HIDE DEF p
    <3>2. UNION {p[i] : i \in DOMAIN p} = A \union B \union C
      BY <3>1
    <3>3. \A i, j \in DOMAIN p : i # j => p[i] \intersect p[j] = {}
      BY <2>4, <3>1
    <3> QED BY <2>4, <3>2, <3>3 DEF OneOwner, p
  <2>5. OneOwner(<<ToSet(rAvailable), completed, {held} \ {NoIOJob}, {newRead} \ {NoIOJob},
                   ToSet(ReadsInFlightNow)>>)
    <3> DEFINE A == ToSet(rAvailable)
               C == completed
               F == rFlying
               H == {held} \ {NoIOJob}
               N == {newRead} \ {NoIOJob}
    <3>1. /\ A \union C \union H \union N \union F = 1..totalIoJobs
          /\ A \intersect C = {} /\ A \intersect H = {} /\ A \intersect N = {} /\ A \intersect F = {}
          /\ C \intersect H = {} /\ C \intersect N = {} /\ C \intersect F = {}
          /\ H \intersect N = {} /\ H \intersect F = {} /\ N \intersect F = {}
      BY <2>1 DEF ReadOwners
    <3> HIDE DEF A, C, F, H, N
    <3>2. OneOwner(<<A, C, H, N, F>>)
      BY <2>3, <3>1
    <3> QED BY <2>2, <3>2 DEF A, C, F, H, N
  <2>6. OneOwner(<<ToSet(wAvailable), ToSet(WritesInFlightNow),
                   IF pc = "consume" THEN {} ELSE {writeJob} \ {NoIOJob}>>)
    <3> DEFINE A == ToSet(wAvailable)
               F == wFlying
               H == {filling} \ {NoIOJob}
    <3>1. A \union F \union H = 1..totalIoJobs /\ A \intersect F = {} /\ A \intersect H = {} /\ F \intersect H = {}
      BY <2>1 DEF WriteOwners
    <3>2. H = IF pc = "consume" THEN {} ELSE {writeJob} \ {NoIOJob}
      BY DEF filling
    <3> HIDE DEF A, F, H
    <3>3. OneOwner(<<A, F, H>>)
      BY <2>4, <3>1
    <3> QED BY <2>2, <3>2, <3>3 DEF A, F
  <2> QED BY <2>1, <2>2, <2>5, <2>6 DEF JobsHaveOneOwner
<1>2. JobsInvs => JobsHaveOneOwner
  BY <1>1
<1> QED BY <1>2, JobsInvsHold, PTL

-----------------------------------------------------------------------------
(***************************************************************************)
(* The order of the reads.                                                 *)
(***************************************************************************)

\* The file that is copied is one of those to copy.
FilesInv == files \in Seq(Seq(Nat)) /\ fileNo \in 1..Len(files)

\* The offset of read number k, and the part of a file before an offset.
Off(k) == k * ReadSize
UpTo(c, o) == IF o <= Len(c) THEN o ELSE Len(c)

\* What is in file c between offsets a and b.
Part(c, a, b) == SubSeq(c, UpTo(c, a) + 1, UpTo(c, b))

\* Of the n reads that were begun those that are not executed come last.
Executed(n) ==
  n - (rAccepted - rNext + 1) - (IF newRead = NoIOJob THEN 0 ELSE 1)

\* The jobs with data that the consumer has not come to.
Filled == completed \union (IF rStage = "add" THEN {rQueued[rStarted]} ELSE {})

\* By read, the jobs of F hold what reads t to e - 1 of file c found, one job a read.
HoldReads(c, F, read, t, e) ==
  /\ \A k \in t..(e - 1) : \E j \in F : read[j].offset = Off(k)
  /\ \A j \in F : \E k \in t..(e - 1) :
       /\ read[j].offset = Off(k)
       /\ read[j].data = Part(c, Off(k), Off(k + 1))
  /\ \A i, j \in F : read[i].offset = read[j].offset => i = j

\* t reads were consumed and n begun: the next ones are in the jobs that were
\* filled, the others are queued in their order.
ReadOrder(t, n) ==
  /\ nextReadOffset = Off(n)
  /\ waitingOnOffset = UpTo(src.content, Off(t))
  /\ Executed(n) \in Nat /\ t <= Executed(n)
  /\ src.pos = UpTo(src.content, Off(Executed(n)))
  /\ (reachedEof <=> Off(Executed(n)) > Len(src.content))
  /\ HoldReads(src.content, Filled, readJob, t, Executed(n))
  /\ \A i \in rNext..rAccepted : readJob[rQueued[i]].offset = Off(Executed(n) + (i - rNext))
  /\ newRead # NoIOJob => readJob[newRead].offset = Off(n - 1)

\* A read is begun and not consumed wherever the consumer may ask for one.
ReadAhead(t, n) ==
  /\ pc \in {"startAdd", "readAdd", "next"} => t < n
  /\ pc \in {"fill", "release", "magic", "copy", "consume"} /\ held = NoIOJob => t < n
  /\ pc = "start" => IF turn = 0 THEN rAvailable # <<>> ELSE t < n
  /\ pc = "startAdd" => turn > 0
  /\ pc \in {"start", "startAdd"} => t = 0

ReadOrderInv ==
  /\ src \in [content : Seq(Nat), pos : Nat]
  /\ readJob \in [JobIds -> [offset : Nat, data : Seq(Nat)]]
  /\ \E t, n \in Nat : ReadOrder(t, n) /\ ReadAhead(t, n)

\* Reads have a size, so that their offsets grow with their numbers.
LEMMA Offsets ==
  /\ Off(0) = 0
  /\ \A k \in Nat : Off(k) \in Nat /\ Off(k + 1) = Off(k) + ReadSize
  /\ \A k, l \in Nat : k < l => Off(k) + ReadSize <= Off(l)
  /\ \A k, l \in Nat : Off(k) = Off(l) => k = l
<1> USE ReadAssumption DEF Off
<1>1. Off(0) = 0
  OBVIOUS
<1>2. \A k \in Nat : Off(k) \in Nat /\ Off(k + 1) = Off(k) + ReadSize
  OBVIOUS
<1>3. \A k, l \in Nat : k < l => Off(k) + ReadSize <= Off(l)
  <2> SUFFICES ASSUME NEW k \in Nat, NEW l \in Nat, k < l PROVE Off(k) + ReadSize <= Off(l)
    OBVIOUS
  <2>1. l - k - 1 \in Nat /\ (l - k - 1) * ReadSize \in Nat
    OBVIOUS
  <2>2. l * ReadSize = (k + 1) * ReadSize + (l - k - 1) * ReadSize
    OBVIOUS
  <2> QED BY <2>1, <2>2
<1>4. \A k, l \in Nat : Off(k) = Off(l) => k = l
  <2> SUFFICES ASSUME NEW k \in Nat, NEW l \in Nat, Off(k) = Off(l) PROVE k = l
    OBVIOUS
  <2> HIDE DEF Off
  <2>1. Off(k) \in Nat /\ Off(l) \in Nat
    BY <1>2
  <2>2. ~(k < l) /\ ~(l < k)
    BY <1>3, <2>1
  <2> QED BY <2>2
<1> QED BY <1>1, <1>2, <1>3, <1>4

\* What lies between two offsets of a file.
LEMMA PartOfFile ==
  ASSUME NEW c \in Seq(Nat), NEW a \in Nat, NEW b \in Nat, a <= b
  PROVE  /\ UpTo(c, a) \in 0..Len(c) /\ UpTo(c, b) \in 0..Len(c) /\ UpTo(c, a) <= UpTo(c, b)
         /\ Part(c, a, b) \in Seq(Nat)
         /\ Len(Part(c, a, b)) = UpTo(c, b) - UpTo(c, a)
<1>1. /\ UpTo(c, a) \in 0..Len(c) /\ UpTo(c, b) \in 0..Len(c) /\ UpTo(c, a) <= UpTo(c, b)
      /\ Len(c) \in Nat
  BY LenProperties DEF UpTo
<1>2. \A i \in (UpTo(c, a) + 1)..UpTo(c, b) : c[i] \in Nat
  <2>1. \A i \in 1..Len(c) : c[i] \in Nat
    BY ElementOfSeq
  <2> QED BY <1>1, <2>1
<1> DEFINE lo == UpTo(c, a) + 1
           hi == UpTo(c, b)
<1>3. lo \in Int /\ hi \in Int /\ lo <= hi + 1
  BY <1>1
<1> HIDE DEF lo, hi
<1>4. SubSeq(c, lo, hi) \in Seq(Nat) /\ Len(SubSeq(c, lo, hi)) = IF lo <= hi THEN hi - lo + 1 ELSE 0
  BY <1>2, <1>3, SubSeqProperties DEF lo, hi
<1>5. Len(SubSeq(c, lo, hi)) = hi - lo + 1
  BY <1>3, <1>4
<1> QED BY <1>1, <1>4, <1>5 DEF Part, lo, hi

\* Other jobs do not matter.
LEMMA SameReads ==
  ASSUME NEW c, NEW F, NEW read, NEW t, NEW e, HoldReads(c, F, read, t, e),
         NEW new, \A i \in F : new[i] = read[i]
  PROVE  HoldReads(c, F, new, t, e)
<1>1. \A k \in t..(e - 1) : \E j \in F : new[j].offset = Off(k)
  <2> SUFFICES ASSUME NEW k \in t..(e - 1) PROVE \E j \in F : new[j].offset = Off(k)
    OBVIOUS
  <2>1. PICK j \in F : read[j].offset = Off(k)
    BY DEF HoldReads
  <2> QED BY <2>1
<1>2. \A j \in F : \E k \in t..(e - 1) :
        /\ new[j].offset = Off(k)
        /\ new[j].data = Part(c, Off(k), Off(k + 1))
  BY DEF HoldReads
<1>3. \A i, j \in F : new[i].offset = new[j].offset => i = j
  BY DEF HoldReads
<1> QED BY <1>1, <1>2, <1>3 DEF HoldReads

\* The next read joins those that are held.
LEMMA OneMoreRead ==
  ASSUME NEW c, NEW F, NEW read, NEW t \in Nat, NEW e \in Nat, t <= e, HoldReads(c, F, read, t, e),
         NEW j, j \notin F, NEW new, \A i \in F : new[i] = read[i], new[j].offset = Off(e),
         new[j].data = Part(c, Off(e), Off(e + 1))
  PROVE  HoldReads(c, F \union {j}, new, t, e + 1)
<1> DEFINE G == F \union {j}
<1>1. \A k \in t..e : \E i \in G : new[i].offset = Off(k)
  <2> SUFFICES ASSUME NEW k \in t..e PROVE \E i \in G : new[i].offset = Off(k)
    OBVIOUS
  <2>1. CASE k = e
    BY <2>1
  <2>2. CASE k # e
    <3>1. k \in t..(e - 1)
      BY <2>2
    <3> QED BY <3>1 DEF HoldReads
  <2> QED BY <2>1, <2>2
<1>2. \A i \in G : \E k \in t..e :
        /\ new[i].offset = Off(k)
        /\ new[i].data = Part(c, Off(k), Off(k + 1))
  <2> SUFFICES ASSUME NEW i \in G
               PROVE  \E k \in t..e : /\ new[i].offset = Off(k)
                                      /\ new[i].data = Part(c, Off(k), Off(k + 1))
    OBVIOUS
  <2>1. CASE i = j
    BY <2>1
  <2>2. CASE i # j
    <3>1. i \in F /\ new[i] = read[i]
      BY <2>2
    <3>2. PICK k \in t..(e - 1) : /\ read[i].offset = Off(k)
                                  /\ read[i].data = Part(c, Off(k), Off(k + 1))
      BY <3>1 DEF HoldReads
    <3>3. k \in t..e
      OBVIOUS
    <3> QED BY <3>1, <3>2, <3>3
  <2> QED BY <2>1, <2>2
<1>3. \A i \in F : new[i].offset # new[j].offset
  <2> SUFFICES ASSUME NEW i \in F, new[i].offset = new[j].offset PROVE FALSE
    OBVIOUS
  <2>1. PICK k \in t..(e - 1) : read[i].offset = Off(k)
    BY DEF HoldReads
  <2>2. k \in Nat /\ Off(k) = Off(e)
    BY <2>1
  <2>3. k = e
    BY <2>2, Offsets
  <2> QED BY <2>3
<1>4. \A i, l \in G : new[i].offset = new[l].offset => i = l
  BY <1>3 DEF HoldReads
<1>5. (e + 1) - 1 = e
  OBVIOUS
<1> QED BY <1>1, <1>2, <1>4, <1>5 DEF HoldReads

\* The read that is waited for is taken away.
LEMMA OneReadLess ==
  ASSUME NEW c \in Seq(Nat), NEW F, NEW read, NEW t \in Nat, NEW e \in Nat, HoldReads(c, F, read, t, e),
         NEW j \in F, read[j].offset = UpTo(c, Off(t))
  PROVE  /\ t < e
         /\ read[j].data = Part(c, Off(t), Off(t + 1))
         /\ HoldReads(c, F \ {j}, read, t + 1, e)
<1>1. PICK k \in t..(e - 1) : /\ read[j].offset = Off(k)
                              /\ read[j].data = Part(c, Off(k), Off(k + 1))
  BY DEF HoldReads
<1>2. k = t
  <2>0. k \in Nat
    OBVIOUS
  <2>1. Off(k) \in Nat /\ Off(t) \in Nat /\ (t < k => Off(t) + ReadSize <= Off(k))
    BY <2>0, Offsets
  <2>2. Off(k) <= Off(t)
    BY <1>1, <2>1, LenProperties DEF UpTo
  <2>3. ~(t < k)
    BY <2>1, <2>2, ReadAssumption
  <2> QED BY <2>3
<1>3. t < e
  BY <1>2
<1>4. \A l \in (t + 1)..(e - 1) : \E i \in F \ {j} : read[i].offset = Off(l)
  <2> SUFFICES ASSUME NEW l \in (t + 1)..(e - 1) PROVE \E i \in F \ {j} : read[i].offset = Off(l)
    OBVIOUS
  <2>1. PICK i \in F : read[i].offset = Off(l)
    BY DEF HoldReads
  <2>2. i # j
    <3>1. Off(l) = Off(t) => l = t
      BY Offsets
    <3> QED BY <1>1, <1>2, <2>1, <3>1
  <2> QED BY <2>1, <2>2
<1>5. \A i \in F \ {j} : \E l \in (t + 1)..(e - 1) :
        /\ read[i].offset = Off(l)
        /\ read[i].data = Part(c, Off(l), Off(l + 1))
  <2> SUFFICES ASSUME NEW i \in F \ {j}
               PROVE  \E l \in (t + 1)..(e - 1) :
                        /\ read[i].offset = Off(l)
                        /\ read[i].data = Part(c, Off(l), Off(l + 1))
    OBVIOUS
  <2>1. PICK l \in t..(e - 1) : /\ read[i].offset = Off(l)
                                /\ read[i].data = Part(c, Off(l), Off(l + 1))
    BY DEF HoldReads
  <2>2. l # t
    BY <1>1, <1>2, <2>1 DEF HoldReads
  <2>3. l \in (t + 1)..(e - 1)
    BY <2>2
  <2> QED BY <2>1, <2>3
<1>6. \A i, l \in F \ {j} : read[i].offset = read[l].offset => i = l
  BY DEF HoldReads
<1> QED BY <1>1, <1>2, <1>3, <1>4, <1>5, <1>6 DEF HoldReads

\* The smaller of two numbers.
LEMMA LesserOf ==
  ASSUME NEW x \in Nat, NEW y \in Nat
  PROVE  Min({x, y}) = IF x <= y THEN x ELSE y
BY DEF Min

\* Nothing that the order of the reads is about changes.
LEMMA OrderKept ==
  ASSUME NEW t \in Nat, NEW n \in Nat, ReadOrder(t, n),
         UNCHANGED <<src, readJob, rOffsets, reachedEof, newRead, rAccepted, rQueued>>,
         rNext' = rNext, Filled' = Filled
  PROVE  ReadOrder(t, n)'
<1>1. Executed(n)' = Executed(n)
  BY DEF Executed
<1>2. HoldReads(src.content, Filled, readJob, t, Executed(n))'
  BY <1>1 DEF ReadOrder, HoldReads, UpTo, Off
<1>3. src' = src /\ readJob' = readJob /\ nextReadOffset' = nextReadOffset /\ waitingOnOffset' = waitingOnOffset
      /\ reachedEof' = reachedEof /\ newRead' = newRead /\ rAccepted' = rAccepted /\ rQueued' = rQueued
  BY DEF rOffsets
<1>4. UpTo(src.content, Off(t))' = UpTo(src.content, Off(t))
      /\ UpTo(src.content, Off(Executed(n)))' = UpTo(src.content, Off(Executed(n)))
  BY <1>1, <1>3 DEF UpTo, Off
<1>5. Off(n)' = Off(n) /\ Off(n - 1)' = Off(n - 1) /\ Off(Executed(n))' = Off(Executed(n))
  BY <1>1 DEF Off
<1>6. (\A i \in rNext..rAccepted : readJob[rQueued[i]].offset = Off(Executed(n) + (i - rNext)))'
  BY <1>1, <1>3 DEF ReadOrder, Off
<1> QED BY <1>1, <1>2, <1>3, <1>4, <1>5, <1>6 DEF ReadOrder

\* What fread does, at the place where the next read is.
LEMMA NextPart ==
  ASSUME ReadOrderInv, NEW e \in Nat, NEW j \in JobIds, Fread(j),
         src.pos = UpTo(src.content, Off(e)), (reachedEof <=> Off(e) > Len(src.content))
  PROVE  /\ src' = [src EXCEPT !.pos = UpTo(src.content, Off(e + 1))]
         /\ (reachedEof' <=> Off(e + 1) > Len(src.content))
         /\ readJob' = [readJob EXCEPT ![j].data =
              Part(src.content, Off(e), Off(e + 1))]
         /\ src' \in [content : Seq(Nat), pos : Nat]
         /\ readJob' \in [JobIds -> [offset : Nat, data : Seq(Nat)]]
<1> DEFINE to == IF reachedEof THEN src.pos ELSE Min({src.pos + ReadSize, Len(src.content)})
           c == src.content
           a == Off(e)
           b == Off(e + 1)
<1>1. /\ c \in Seq(Nat) /\ Len(c) \in Nat
      /\ src \in [content : Seq(Nat), pos : Nat]
      /\ readJob \in [JobIds -> [offset : Nat, data : Seq(Nat)]]
  BY LenProperties DEF ReadOrderInv
<1>2. a \in Nat /\ b = a + ReadSize /\ ReadSize \in Nat \ {0}
  BY Offsets, ReadAssumption
<1>3. /\ src' = [src EXCEPT !.pos = to] /\ (reachedEof' <=> to - src.pos < ReadSize)
      /\ readJob' = [readJob EXCEPT ![j].data = SubSeq(c, src.pos + 1, to)]
  BY DEF Fread
<1>11. /\ src.pos = UpTo(c, a) /\ (reachedEof <=> a > Len(c))
       /\ to = IF reachedEof THEN src.pos ELSE Min({src.pos + ReadSize, Len(c)})
  OBVIOUS
<1> HIDE DEF a, b, c, to
<1>5. to = UpTo(c, b) /\ (reachedEof' <=> b > Len(c))
  <2>1. CASE reachedEof
    <3>1. a > Len(c) /\ to = Len(c) /\ src.pos = Len(c)
      BY <1>1, <1>2, <1>11, <2>1 DEF UpTo
    <3> QED BY <1>1, <1>2, <1>3, <3>1 DEF UpTo
  <2>2. CASE ~reachedEof
    <3>1. a <= Len(c)
      BY <1>1, <1>2, <1>11, <2>2
    <3>2. src.pos = a
      BY <1>11, <3>1 DEF UpTo
    <3>3. to = Min({b, Len(c)})
      BY <1>2, <1>11, <2>2, <3>2
    <3>4. to = IF b <= Len(c) THEN b ELSE Len(c)
      <4>1. b \in Nat /\ Len(c) \in Nat
        BY <1>1, <1>2
      <4> QED BY <3>3, <4>1, LesserOf
    <3> QED BY <1>1, <1>2, <1>3, <3>1, <3>2, <3>4 DEF UpTo
  <2> QED BY <2>1, <2>2
<1>6. UpTo(c, b) \in Nat /\ Part(c, a, b) \in Seq(Nat)
  <2>1. a <= b /\ b \in Nat
    BY <1>2
  <2>2. UpTo(c, b) \in 0..Len(c)
    BY <1>1, <1>2, <2>1, PartOfFile
  <2>3. Part(c, a, b) \in Seq(Nat)
    BY <1>1, <1>2, <2>1, PartOfFile
  <2>4. UpTo(c, b) \in Nat
    BY <1>1, <2>2
  <2> QED BY <2>3, <2>4
<1>7. readJob' = [readJob EXCEPT ![j].data = Part(c, a, b)]
  BY <1>3, <1>5, <1>11 DEF Part, c
<1>8. src' = [src EXCEPT !.pos = UpTo(c, b)]
  BY <1>3, <1>5
<1>9. src' \in [content : Seq(Nat), pos : Nat]
  BY <1>1, <1>6, <1>8
<1>10. readJob' \in [JobIds -> [offset : Nat, data : Seq(Nat)]]
  BY <1>1, <1>6, <1>7
<1> QED BY <1>5, <1>7, <1>8, <1>9, <1>10 DEF a, b, c

\* Where the jobs that were filled, and the ones that are to be, are not.
LEMMA PlacesOfReads ==
  ASSUME JobsInvs
  PROVE  /\ rNext \in Nat /\ rNext >= 1 /\ rNext >= rFirst /\ rNext <= rAccepted + 1
         /\ rAccepted \in Nat /\ rStarted \in Nat
         /\ Filled \subseteq JobIds
         /\ \A i \in rNext..rAccepted : rQueued[i] \in JobIds /\ rQueued[i] \in rFlying
                                        /\ rQueued[i] \notin Filled
         /\ newRead # NoIOJob => newRead \in JobIds /\ newRead \notin Filled /\ newRead \notin rFlying
         /\ \A j \in ToSet(rAvailable) : j \notin Filled /\ j \notin rFlying
         /\ held # NoIOJob => held \in JobIds /\ held \notin Filled /\ held \notin rFlying /\ held # newRead
         /\ \A j \in completed : j \in JobIds /\ j \notin rFlying
<1>1. ReaderInv /\ MainInv /\ ReadOwnInv
  BY DEF JobsInvs
<1>2. /\ rNext \in Nat /\ rNext >= 1 /\ rNext >= rFirst /\ rNext <= rAccepted + 1
      /\ rAccepted \in Nat /\ rStarted \in Nat /\ rFirst \in Nat
  BY <1>1 DEF rNext, rFirst, ReaderInv
<1>3. ReadOwners(ToSet(rAvailable), completed, rFlying, held, newRead)
  BY <1>1 DEF ReadOwnInv
<1>4. 1..totalIoJobs \subseteq JobIds
  BY IOPoolAssumption DEF totalIoJobs, JobIds
<1>5. \A i \in rFirst..rAccepted : rQueued[i] \in rFlying
  BY DEF rFlying
<1>6. Filled \subseteq completed \union rFlying
  <2>1. CASE rStage = "add"
    <3>1. rStarted \in rFirst..rAccepted
      BY <1>1, <2>1 DEF rFirst, ReaderInv
    <3> QED BY <1>5, <3>1 DEF Filled
  <2>2. CASE rStage # "add"
    BY <2>2 DEF Filled
  <2> QED BY <2>1, <2>2
<1>7. completed \subseteq JobIds /\ rFlying \subseteq JobIds
  BY <1>3, <1>4 DEF ReadOwners
<1>8. ASSUME NEW i \in rNext..rAccepted
      PROVE  rQueued[i] \in JobIds /\ rQueued[i] \in rFlying /\ rQueued[i] \notin Filled
  <2>1. i \in rFirst..rAccepted
    BY <1>2
  <2>2. rQueued[i] \in rFlying /\ rQueued[i] \notin completed
    BY <1>3, <1>5, <2>1 DEF ReadOwners
  <2>3. CASE rStage = "add"
    <3>1. rStarted \in rFirst..rAccepted /\ i # rStarted
      BY <1>1, <1>2, <2>3 DEF rFirst, rNext, ReaderInv
    <3>2. rQueued[i] # rQueued[rStarted]
      BY <1>1, <2>1, <3>1 DEF ReadOwnInv
    <3> QED BY <1>7, <2>2, <3>2 DEF Filled
  <2>4. CASE rStage # "add"
    BY <1>7, <2>2, <2>4 DEF Filled
  <2> QED BY <2>3, <2>4
<1>9. newRead # NoIOJob => newRead \in JobIds /\ newRead \notin Filled /\ newRead \notin rFlying
  BY <1>1, <1>3, <1>6 DEF ReadOwners, MainInv
<1>10. \A j \in ToSet(rAvailable) : j \notin Filled /\ j \notin rFlying
  BY <1>3, <1>6 DEF ReadOwners
<1>11. held # NoIOJob => held \in JobIds /\ held \notin Filled /\ held \notin rFlying /\ held # newRead
  BY <1>1, <1>3, <1>6 DEF ReadOwners, ReadOwnInv
<1>12. \A j \in completed : j \in JobIds /\ j \notin rFlying
  BY <1>3, <1>7 DEF ReadOwners
<1> QED BY <1>2, <1>6, <1>7, <1>8, <1>9, <1>10, <1>11, <1>12

\* A read that is executed comes after those that were.
LEMMA ReadExecuted ==
  ASSUME ReadOrderInv, NEW t \in Nat, NEW n \in Nat, ReadOrder(t, n),
         NEW j \in JobIds, Fread(j), j \notin Filled, readJob[j].offset = Off(Executed(n)),
         Filled' = Filled \union {j}, Executed(n)' = Executed(n) + 1, UNCHANGED rOffsets,
         Filled \subseteq JobIds,
         (\A i \in rNext..rAccepted : rQueued[i] \in JobIds /\
             readJob[rQueued[i]].offset = Off(Executed(n) + (i - rNext)))',
         newRead' # NoIOJob => newRead' \in JobIds /\ readJob'[newRead'].offset = Off(n - 1)
  PROVE  /\ ReadOrder(t, n)'
         /\ src' \in [content : Seq(Nat), pos : Nat] /\ src'.content = src.content
         /\ readJob' \in [JobIds -> [offset : Nat, data : Seq(Nat)]]
<1> DEFINE e == Executed(n)
           c == src.content
<1>1. /\ e \in Nat /\ t <= e /\ src.pos = UpTo(c, Off(e)) /\ (reachedEof <=> Off(e) > Len(c))
      /\ HoldReads(c, Filled, readJob, t, e)
      /\ nextReadOffset = Off(n) /\ waitingOnOffset = UpTo(c, Off(t))
  BY DEF ReadOrder
<1>2. /\ src' = [src EXCEPT !.pos = UpTo(c, Off(e + 1))]
      /\ (reachedEof' <=> Off(e + 1) > Len(c))
      /\ readJob' = [readJob EXCEPT ![j].data = Part(c, Off(e), Off(e + 1))]
      /\ src' \in [content : Seq(Nat), pos : Nat]
      /\ readJob' \in [JobIds -> [offset : Nat, data : Seq(Nat)]]
  BY <1>1, NextPart
<1>3. src'.content = c /\ src'.pos = UpTo(c, Off(e + 1))
  BY <1>2 DEF ReadOrderInv
<1>4. /\ \A i \in Filled : readJob'[i] = readJob[i]
      /\ readJob'[j].offset = Off(e)
      /\ readJob'[j].data = Part(c, Off(e), Off(e + 1))
  BY <1>2 DEF ReadOrderInv
<1>5. HoldReads(c, Filled \union {j}, readJob', t, e + 1)
  <2> HIDE DEF e, c
  <2> QED BY <1>1, <1>4, OneMoreRead
<1>6. HoldReads(src.content, Filled, readJob, t, Executed(n))'
  BY <1>3, <1>5 DEF HoldReads, Part, UpTo, Off
<1>7. nextReadOffset' = nextReadOffset /\ waitingOnOffset' = waitingOnOffset
  BY DEF rOffsets
<1>8. /\ Off(n)' = Off(n) /\ Off(Executed(n))' = Off(e + 1)
      /\ UpTo(src.content, Off(t))' = UpTo(c, Off(t))
      /\ UpTo(src.content, Off(Executed(n)))' = UpTo(c, Off(e + 1))
  BY <1>3 DEF Off, UpTo
<1>9. e + 1 \in Nat /\ t <= e + 1
  BY <1>1
<1>10. (\A i \in rNext..rAccepted : readJob[rQueued[i]].offset = Off(Executed(n) + (i - rNext)))'
  BY DEF Off
<1>11. (newRead # NoIOJob => readJob[newRead].offset = Off(n - 1))'
  BY DEF Off
<1> HIDE DEF e, c
<1>12. ReadOrder(t, n)'
  BY <1>1, <1>2, <1>3, <1>6, <1>7, <1>8, <1>9, <1>10, <1>11 DEF ReadOrder, e, c
<1> QED BY <1>2, <1>3, <1>12 DEF c

\* The file that is copied is one of the list.
LEMMA FilesStay ==
  /\ CopyInit => FilesInv
  /\ FilesInv /\ [CopyNext]_copyVars => FilesInv'
  /\ FilesInv => files[fileNo] \in Seq(Nat)
<1>1. ASSUME CopyInit PROVE FilesInv
  <2>1. files \in Seq(Seq(Nat)) /\ files # <<>> /\ fileNo = 1
    BY <1>1, PassThroughAssumption DEF CopyInit
  <2>2. Len(files) \in Nat \ {0}
    BY <2>1, EmptySeq
  <2> QED BY <2>1, <2>2 DEF FilesInv
<1>2. ASSUME FilesInv, [CopyNext]_copyVars PROVE FilesInv'
  <2>1. CASE UNCHANGED <<files, fileNo>>
    BY <1>2, <2>1 DEF FilesInv
  <2>2. CASE CloseSource
    <3>1. files' = files /\ (fileNo' = fileNo \/ (fileNo < Len(files) /\ fileNo' = fileNo + 1))
      BY <2>2 DEF CloseSource
    <3>2. Len(files) \in Nat
      BY <1>2, LenProperties DEF FilesInv
    <3> QED BY <1>2, <3>1, <3>2 DEF FilesInv
  <2>3. CASE MainStep
    BY <2>1, <2>2, <2>3 DEF MainStep, OpenSource, StartRead, AddStartRead, OpenDestination, FillIsEnough,
       Coalesce, ReleaseRead, NothingHeld, NextRead, AddNextRead, WaitForRead, LoadRead, SourceIsOver,
       EmptySource, BeginCopy, CopyBlock, ConsumeBlock, EndCopy, EndSparse, CloseDestination, args, mainVars
  <2>4. CASE UNCHANGED mainVars
    BY <2>1, <2>4 DEF mainVars, args
  <2> QED BY <1>2, <2>3, <2>4 DEF CopyNext, ReaderRuns, WriterRuns, MainWakesForNothing, CopyIsDone, copyVars
<1>3. ASSUME FilesInv PROVE files[fileNo] \in Seq(Nat)
  BY <1>3, ElementOfSeq DEF FilesInv
<1> QED BY <1>1, <1>2, <1>3

\* The reads stay in their order: it is a position in the file that the three
\* threads share, each knowing a part of it.
LEMMA ReadsStayInOrder ==
  ASSUME JobsInvs, JobsInvs', FilesInv, ReadOrderInv, CopyNext \/ UNCHANGED copyVars
  PROVE  ReadOrderInv'
<1>0. ASSUME NEW k \in Nat, NEW l \in Nat, ReadOrder(k, l)', ReadAhead(k, l)',
             src' \in [content : Seq(Nat), pos : Nat],
             readJob' \in [JobIds -> [offset : Nat, data : Seq(Nat)]]
      PROVE  ReadOrderInv'
  BY <1>0 DEF ReadOrderInv, JobIds
<1>1. PICK t \in Nat, n \in Nat : ReadOrder(t, n) /\ ReadAhead(t, n)
  BY DEF ReadOrderInv
<1>2. /\ src \in [content : Seq(Nat), pos : Nat]
      /\ readJob \in [JobIds -> [offset : Nat, data : Seq(Nat)]]
  BY DEF ReadOrderInv
<1>3. /\ ReaderInv /\ MainInv /\ ReadOwnInv /\ ReaderInv' /\ MainInv' /\ ReadOwnInv'
  BY DEF JobsInvs
<1> DEFINE e == Executed(n)
           c == src.content
<1>4. /\ t \in Nat /\ n \in Nat /\ e \in Nat /\ t <= e /\ e <= n /\ src.pos = UpTo(c, Off(e)) /\ (reachedEof <=> Off(e) > Len(c))
      /\ HoldReads(c, Filled, readJob, t, e)
      /\ nextReadOffset = Off(n) /\ waitingOnOffset = UpTo(c, Off(t))
      /\ \A i \in rNext..rAccepted : readJob[rQueued[i]].offset = Off(e + (i - rNext))
      /\ newRead # NoIOJob => readJob[newRead].offset = Off(n - 1)
      /\ e = n - (rAccepted - rNext + 1) - (IF newRead = NoIOJob THEN 0 ELSE 1)
  <2>1. rNext \in Nat /\ rNext <= rAccepted + 1 /\ rAccepted \in Nat
    BY PlacesOfReads
  <2>2. e = n - (rAccepted - rNext + 1) - (IF newRead = NoIOJob THEN 0 ELSE 1) /\ e \in Nat /\ t <= e
    BY <1>1 DEF ReadOrder, Executed
  <2>3. e <= n
    <3> HIDE DEF e
    <3> QED BY <2>1, <2>2
  <2> QED BY <1>1, <2>2, <2>3 DEF ReadOrder
<1>5. ASSUME UNCHANGED <<src, readJob, rOffsets, reachedEof, newRead, rAccepted, rQueued>>,
             rNext' = rNext, Filled' = Filled, ReadAhead(t, n)'
      PROVE  ReadOrderInv'
  <2>1. ReadOrder(t, n)'
    BY <1>1, <1>5, OrderKept
  <2>2. src' = src /\ readJob' = readJob
    BY <1>5
  <2> QED BY <1>2, <1>5, <2>1, <2>2 DEF ReadOrderInv, JobIds
<1>6. ASSUME UNCHANGED <<pc, held, turn, rAvailable>> PROVE ReadAhead(t, n)'
  BY <1>1, <1>6 DEF ReadAhead
<1>7. CASE UNCHANGED <<readVars, pc, turn, newRead>>
  BY <1>5, <1>6, <1>7 DEF readVars, rPool, rNext, Filled
<1>8. CASE WaitForRead \/ MainWakesForNothing
  BY <1>5, <1>6, <1>8 DEF WaitForRead, MainWakesForNothing, WaitForCompleted, ConsumerWakesForNothing,
     rPool, rNext, Filled, mainVars, args, jobs
<1>9. CASE (ReaderStarts \/ ReaderCompletes \/ ReaderEnds) /\ UNCHANGED mainVars
  <2>1. rNext' = rNext /\ UNCHANGED <<src, readJob, rOffsets, reachedEof, newRead, rAccepted, rQueued, held,
                                      rAvailable, pc, turn>>
    BY <1>3, <1>9 DEF ReaderStarts, ReaderCompletes, ReaderEnds, rNext, ReadQueue!Start, ReadQueue!Finish,
       ReadQueue!Same, rPool, mainVars, args, jobs, ReaderInv, AddJobToCompleted
  <2>2. Filled' = Filled
    BY <1>3, <1>9, <2>1 DEF ReaderStarts, ReaderCompletes, ReaderEnds, AddJobToCompleted, Filled, rPool
  <2> QED BY <1>5, <1>6, <2>1, <2>2
<1>10. CASE ReaderReads /\ UNCHANGED mainVars
  <2> DEFINE j == rQueued[rStarted]
  <2>1. /\ rStage = "read" /\ rStage' = "add" /\ Fread(j)
        /\ UNCHANGED <<rPool, rAvailable, completed, held, rOffsets, newRead, pc, turn>>
    BY <1>10 DEF ReaderReads, mainVars, args, jobs
  <2>2. /\ rNext = rStarted /\ rNext' = rStarted + 1 /\ rStarted \in rNext..rAccepted
        /\ rAccepted' = rAccepted /\ rQueued' = rQueued /\ rStarted' = rStarted /\ rAccepted \in Nat
        /\ rStarted \in Nat /\ newRead' = newRead
    BY <1>3, <2>1 DEF rNext, ReaderInv, rPool
  <2>3. /\ \A i \in rNext..rAccepted : rQueued[i] \in JobIds /\ rQueued[i] \notin Filled
        /\ Filled \subseteq JobIds
        /\ newRead # NoIOJob => newRead \in JobIds
    BY PlacesOfReads
  <2>4. j \in JobIds /\ j \notin Filled
    BY <2>2, <2>3
  <2>5. readJob[j].offset = Off(e)
    <3>1. readJob[j].offset = Off(e + (rStarted - rNext))
      BY <1>4, <2>2
    <3>2. e + (rStarted - rNext) = e
      BY <1>4, <2>2
    <3> QED BY <3>1, <3>2
  <2>6. Filled' = Filled \union {j}
    BY <2>1, <2>2 DEF Filled
  <2>7. Executed(n)' = e + 1
    <3>1. Executed(n)' = n - (rAccepted - rNext' + 1) - (IF newRead = NoIOJob THEN 0 ELSE 1)
      BY <2>2 DEF Executed
    <3> HIDE DEF e
    <3> QED BY <1>4, <2>2, <3>1
  <2>8. \A i \in JobIds : readJob'[i].offset = readJob[i].offset
    BY <1>2, <2>1, <2>4 DEF Fread
  <2>9. (\A i \in rNext..rAccepted : rQueued[i] \in JobIds /\
             readJob[rQueued[i]].offset = Off(Executed(n) + (i - rNext)))'
    <3> SUFFICES ASSUME NEW i \in (rNext..rAccepted)'
                 PROVE  rQueued'[i] \in JobIds /\ readJob'[rQueued'[i]].offset = Off(Executed(n)' + (i - rNext'))
      BY DEF Off
    <3>1. i \in rNext..rAccepted
      BY <2>2
    <3>2. Executed(n)' + (i - rNext') = e + (i - rNext)
      <4>1. e \in Nat
        BY <1>4
      <4>2. i \in Int
        BY <2>2, <3>1
      <4> HIDE DEF e
      <4> QED BY <2>2, <2>7, <4>1, <4>2
    <3> QED BY <1>4, <2>2, <2>3, <2>8, <3>1, <3>2
  <2>10. newRead' # NoIOJob => newRead' \in JobIds /\ readJob'[newRead'].offset = Off(n - 1)
    BY <1>4, <2>2, <2>3, <2>8
  <2>11. /\ ReadOrder(t, n)'
         /\ src' \in [content : Seq(Nat), pos : Nat] /\ src'.content = c
         /\ readJob' \in [JobIds -> [offset : Nat, data : Seq(Nat)]]
    <3>1. rOffsets' = rOffsets
      BY <2>1
    <3> HIDE DEF j
    <3> QED BY <1>1, <2>1, <2>3, <2>4, <2>5, <2>6, <2>7, <2>9, <2>10, <3>1, ReadExecuted
  <2>12. ReadAhead(t, n)'
    BY <1>6, <2>1
  <2> QED BY <1>0, <2>11, <2>12

<1>11. CASE StartRead \/ NextRead
  <2> DEFINE j == TopJob(rAvailable)
  <2>1. /\ rAvailable # <<>> /\ newRead = NoIOJob /\ newRead' = j
        /\ readJob' = [readJob EXCEPT ![j] = [offset |-> nextReadOffset, data |-> <<>>]]
        /\ nextReadOffset' = nextReadOffset + ReadSize
        /\ UNCHANGED <<src, rPool, rStage, completed, reachedEof, waitingOnOffset>>
    <3>1. rAvailable # <<>>
      <4>1. CASE StartRead
        <5>1. turn < Len(rAvailable) /\ turn \in Nat
          BY <1>3, <4>1 DEF StartRead, MainInv
        <5>2. rAvailable \in Seq(JobIds)
          BY <1>3 DEF ReadOwnInv
        <5> QED BY <5>1, <5>2, EmptySeq
      <4>2. CASE NextRead
        BY <1>3, <4>2 DEF NextRead, ReadOwnInv
      <4> QED BY <1>11, <4>1, <4>2
    <3>2. newRead = NoIOJob
      BY <1>3, <1>11 DEF StartRead, NextRead, MainInv
    <3> QED BY <1>11, <3>1, <3>2 DEF StartRead, NextRead, AcquireRead
  <2>2. j \in ToSet(rAvailable) /\ j \in JobIds /\ j # NoIOJob
    BY <1>3, <2>1, PoppedJob, IOPoolAssumption DEF ReadOwnInv, JobIds
  <2>3. /\ Filled \subseteq JobIds /\ j \notin Filled
        /\ \A i \in rNext..rAccepted : rQueued[i] \in JobIds /\ rQueued[i] # j
        /\ rNext \in Nat /\ rAccepted \in Nat
    BY <2>2, PlacesOfReads
  <2>4. /\ rNext' = rNext /\ Filled' = Filled /\ rAccepted' = rAccepted /\ rQueued' = rQueued /\ src' = src
        /\ waitingOnOffset' = waitingOnOffset /\ (reachedEof' <=> reachedEof)
    BY <2>1 DEF rNext, Filled, rPool
  <2>5. /\ readJob' \in [JobIds -> [offset : Nat, data : Seq(Nat)]]
        /\ \A i \in JobIds \ {j} : readJob'[i] = readJob[i]
        /\ readJob'[j].offset = Off(n)
    <3>1. nextReadOffset = Off(n) /\ Off(n) \in Nat
      BY <1>4, Offsets
    <3>2. <<>> \in Seq(Nat)
      BY EmptySeq
    <3> QED BY <1>2, <2>1, <2>2, <3>1, <3>2
  <2> HIDE DEF j
  <2>6. Executed(n + 1)' = e
    <3>1. Executed(n + 1)' = n + 1 - (rAccepted - rNext + 1) - 1
      <4>1. newRead' # NoIOJob /\ rNext' = rNext /\ rAccepted' = rAccepted
        BY <2>1, <2>2, <2>4
      <4> QED BY <1>4, <2>3, <4>1 DEF Executed
    <3>2. e = n - (rAccepted - rNext + 1) - 0
      BY <1>4, <2>1
    <3> HIDE DEF e
    <3> QED BY <2>3, <3>1, <3>2
  <2>7. ReadOrder(t, n + 1)'
    <3>1. HoldReads(c, Filled, readJob', t, e)
      <4>1. \A i \in Filled : readJob'[i] = readJob[i]
        BY <2>3, <2>5
      <4> HIDE DEF e, c
      <4> QED BY <1>4, <4>1, SameReads
    <3>2. HoldReads(src.content, Filled, readJob, t, Executed(n + 1))'
      BY <2>4, <2>6, <3>1 DEF HoldReads, Part, UpTo, Off
    <3>3. nextReadOffset' = Off(n + 1)'
      <4>1. Off(n + 1) = Off(n) + ReadSize
        BY Offsets
      <4> QED BY <1>4, <2>1, <4>1 DEF Off
    <3>4. /\ UpTo(src.content, Off(t))' = UpTo(c, Off(t))
          /\ UpTo(src.content, Off(Executed(n + 1)))' = UpTo(c, Off(e))
          /\ Off(Executed(n + 1))' = Off(e)
      BY <2>4, <2>6 DEF UpTo, Off
    <3>5. (\A i \in rNext..rAccepted : readJob[rQueued[i]].offset = Off(Executed(n + 1) + (i - rNext)))'
      <4>1. \A i \in rNext..rAccepted : readJob'[rQueued[i]].offset = Off(e + (i - rNext))
        BY <1>4, <2>3, <2>5
      <4> QED BY <2>4, <2>6, <4>1 DEF Off
    <3>6. (newRead # NoIOJob => readJob[newRead].offset = Off(n + 1 - 1))'
      <4>1. n + 1 - 1 = n
        OBVIOUS
      <4> QED BY <2>1, <2>5, <4>1 DEF Off
    <3> HIDE DEF e
    <3> QED BY <1>4, <2>4, <2>6, <3>2, <3>3, <3>4, <3>5, <3>6 DEF ReadOrder
  <2>8. ReadAhead(t, n + 1)'
    <3>1. pc \in {"start", "startAdd"} => t = 0
      BY <1>1 DEF ReadAhead
    <3>2. t < n + 1
      BY <1>4
    <3>3. turn \in Nat
      BY <1>3 DEF MainInv
    <3>4. CASE StartRead
      BY <3>1, <3>2, <3>3, <3>4 DEF StartRead, ReadAhead
    <3>5. CASE NextRead
      BY <3>1, <3>2, <3>5 DEF NextRead, ReadAhead
    <3> QED BY <1>11, <3>4, <3>5
  <2>9. n + 1 \in Nat /\ src' \in [content : Seq(Nat), pos : Nat]
    BY <1>2, <2>4
  <2> QED BY <1>0, <2>5, <2>7, <2>8, <2>9
<1>12. ASSUME AddStartRead \/ AddNextRead PROVE ReadAhead(t, n)'
  BY <1>1, <1>12 DEF ReadAhead, AddStartRead, AddNextRead, args
<1>13. CASE (AddStartRead \/ AddNextRead) /\ asyncIO
  <2>1. /\ newRead \in JobIds /\ newRead # NoIOJob /\ newRead' = NoIOJob
        /\ ReadQueue!Accept /\ rQueued' = Append(rQueued, newRead)
        /\ UNCHANGED <<src, rStage, readJob, completed, reachedEof, rOffsets>>
    BY <1>3, <1>13 DEF AddStartRead, AddNextRead, EnqueueRead, MainInv
  <2>2. rAccepted' = rAccepted + 1 /\ rStarted' = rStarted
    BY <2>1 DEF ReadQueue!Accept, ReadQueue!Same
  <2>3. /\ rNext \in Nat /\ rAccepted \in Nat /\ rNext <= rAccepted + 1 /\ rNext >= 1
        /\ rStarted \in Nat
    BY PlacesOfReads
  <2>4. /\ \A i \in 1..rAccepted : rQueued'[i] = rQueued[i]
        /\ rQueued'[rAccepted + 1] = newRead
    <3>1. rQueued \in Seq(JobIds) /\ Len(rQueued) = rAccepted
      BY <1>3 DEF ReaderInv
    <3> QED BY <2>1, <3>1, AppendProperties
  <2>5. rNext' = rNext /\ Filled' = Filled
    <3>1. rNext' = rNext
      BY <2>1, <2>2 DEF rNext
    <3>2. CASE rStage = "add"
      <4>1. rStarted \in 1..rAccepted
        BY <1>3, <3>2 DEF ReaderInv
      <4> QED BY <2>1, <2>2, <2>4, <3>1, <4>1 DEF Filled
    <3>3. CASE rStage # "add"
      BY <2>1, <3>1, <3>3 DEF Filled
    <3> QED BY <3>1, <3>2, <3>3
  <2>6. Executed(n)' = e
    <3>1. Executed(n)' = n - (rAccepted + 1 - rNext + 1) - 0
      <4>1. newRead' = NoIOJob /\ rNext' = rNext /\ rAccepted' = rAccepted + 1
        BY <2>1, <2>2, <2>5
      <4> QED BY <1>4, <2>3, <4>1 DEF Executed
    <3>2. e = n - (rAccepted - rNext + 1) - 1
      BY <1>4, <2>1
    <3> HIDE DEF e
    <3> QED BY <2>3, <3>1, <3>2
  <2>7. (\A i \in rNext..rAccepted : readJob[rQueued[i]].offset = Off(Executed(n) + (i - rNext)))'
    <3> SUFFICES ASSUME NEW i \in rNext..(rAccepted + 1)
                 PROVE  readJob[rQueued'[i]].offset = Off(e + (i - rNext))
      BY <2>1, <2>2, <2>5, <2>6 DEF Off
    <3>1. CASE i = rAccepted + 1
      <4>1. e + (i - rNext) = n - 1
        <5>1. e = n - (rAccepted - rNext + 1) - 1
          BY <1>4, <2>1
        <5> HIDE DEF e
        <5> QED BY <2>3, <3>1, <5>1
      <4> QED BY <1>4, <2>1, <2>4, <3>1, <4>1
    <3>2. CASE i # rAccepted + 1
      <4>1. i \in rNext..rAccepted /\ i \in 1..rAccepted
        BY <2>3, <3>2
      <4> QED BY <1>4, <2>4, <4>1
    <3> QED BY <3>1, <3>2
  <2>8. ReadOrder(t, n)'
    <3>1. HoldReads(src.content, Filled, readJob, t, Executed(n))'
      BY <1>4, <2>1, <2>5, <2>6 DEF HoldReads, Part, UpTo, Off
    <3>2. /\ UpTo(src.content, Off(t))' = UpTo(c, Off(t))
          /\ UpTo(src.content, Off(Executed(n)))' = UpTo(c, Off(e))
          /\ Off(Executed(n))' = Off(e) /\ Off(n)' = Off(n)
      BY <2>1, <2>6 DEF UpTo, Off
    <3>3. /\ src' = src /\ (reachedEof' <=> reachedEof) /\ nextReadOffset' = nextReadOffset
          /\ waitingOnOffset' = waitingOnOffset
      BY <2>1 DEF rOffsets
    <3> HIDE DEF e
    <3> QED BY <1>4, <2>1, <2>6, <2>7, <3>1, <3>2, <3>3 DEF ReadOrder
  <2>9. src' = src /\ readJob' = readJob
    BY <2>1
  <2> QED BY <1>0, <1>2, <1>12, <1>13, <2>8, <2>9
<1>14. CASE (AddStartRead \/ AddNextRead) /\ ~asyncIO
  <2> DEFINE j == newRead
  <2>1. /\ j \in JobIds /\ j # NoIOJob /\ newRead' = NoIOJob /\ j \notin Filled
        /\ Fread(j) /\ completed' = completed \union {j}
        /\ UNCHANGED <<rPool, rStage, rOffsets>>
    BY <1>3, <1>14, PlacesOfReads DEF AddStartRead, AddNextRead, EnqueueRead, MainInv, AddJobToCompleted
  <2>2. /\ rAccepted = 0 /\ rStarted = 0 /\ rStage = "idle" /\ rNext = 1 /\ rNext' = 1 /\ rAccepted' = 0
    BY <1>3, <1>14, <2>1 DEF ReaderInv, rNext, rPool
  <2>3. Filled' = Filled \union {j} /\ Filled \subseteq JobIds
    BY <2>1, <2>2, PlacesOfReads DEF Filled
  <2>4. e = n - 1 /\ Executed(n)' = n
    <3>1. e = n - (0 - 1 + 1) - 1
      BY <1>4, <2>1, <2>2
    <3>2. Executed(n)' = n - (0 - 1 + 1) - 0
      BY <2>1, <2>2 DEF Executed
    <3> QED BY <3>1, <3>2
  <2>5. readJob[j].offset = Off(Executed(n)) /\ Executed(n)' = Executed(n) + 1
    BY <1>4, <2>1, <2>4
  <2>6. (\A i \in rNext..rAccepted : rQueued[i] \in JobIds /\
             readJob[rQueued[i]].offset = Off(Executed(n) + (i - rNext)))'
    BY <2>2
  <2>7. rOffsets' = rOffsets /\ newRead' = NoIOJob /\ Fread(j)
    BY <2>1
  <2>8. j \in JobIds /\ j \notin Filled
    BY <2>1
  <2> HIDE DEF j
  <2>9. /\ ReadOrder(t, n)'
        /\ src' \in [content : Seq(Nat), pos : Nat] /\ src'.content = c
        /\ readJob' \in [JobIds -> [offset : Nat, data : Seq(Nat)]]
    BY <1>1, <2>3, <2>5, <2>6, <2>7, <2>8, ReadExecuted
  <2> QED BY <1>0, <1>12, <1>14, <2>9

<1>15. CASE LoadRead
  <2>1. PICK j \in NextCompleted : TakeCompleted(j)
    BY <1>15 DEF LoadRead
  <2>2. /\ j \in completed /\ readJob[j].offset = UpTo(c, Off(t))
        /\ completed' = completed \ {j} /\ held' = j /\ waitingOnOffset' = waitingOnOffset + Len(readJob[j].data)
        /\ UNCHANGED <<src, rPool, rStage, readJob, rAvailable, reachedEof, nextReadOffset>>
    BY <1>4, <2>1 DEF TakeCompleted, NextCompleted
  <2>3. /\ Filled' = Filled \ {j} /\ j \in Filled /\ rNext' = rNext /\ rAccepted' = rAccepted
        /\ rQueued' = rQueued /\ j \in JobIds
    <3>1. j \notin rFlying /\ j \in JobIds
      BY <2>2, PlacesOfReads
    <3>2. rStage = "add" => rQueued[rStarted] \in rFlying
      BY <1>3 DEF rFlying, rFirst, ReaderInv
    <3> QED BY <2>2, <3>1, <3>2 DEF Filled, rNext, rPool
  <2>4. newRead' = newRead /\ newRead = NoIOJob /\ pc' \in {"magic", "copy"} /\ turn' = turn
    BY <1>3, <1>15 DEF LoadRead, MainInv, jobs, args, AfterFill
  <2>5. c \in Seq(Nat)
    BY <1>2
  <2>6. /\ t < e /\ HoldReads(c, Filled \ {j}, readJob, t + 1, e)
        /\ readJob[j].data = Part(c, Off(t), Off(t + 1))
    <3>1. t \in Nat /\ e \in Nat /\ HoldReads(c, Filled, readJob, t, e)
      BY <1>4
    <3>2. j \in Filled /\ readJob[j].offset = UpTo(c, Off(t))
      BY <2>2, <2>3
    <3> HIDE DEF c, e
    <3> QED BY <2>5, <3>1, <3>2, OneReadLess
  <2>7. waitingOnOffset' = UpTo(c, Off(t + 1))
    <3>1. Off(t) \in Nat /\ Off(t + 1) \in Nat /\ Off(t) <= Off(t + 1)
      BY <1>4, Offsets, ReadAssumption
    <3>2. /\ Len(readJob[j].data) = UpTo(c, Off(t + 1)) - UpTo(c, Off(t))
          /\ UpTo(c, Off(t)) \in 0..Len(c) /\ UpTo(c, Off(t + 1)) \in 0..Len(c)
      BY <2>5, <2>6, <3>1, PartOfFile
    <3>3. Len(c) \in Nat
      BY <2>5, LenProperties
    <3> HIDE DEF c
    <3> QED BY <1>4, <2>2, <3>2, <3>3
  <2>8. Executed(n)' = e
    BY <2>3, <2>4 DEF Executed
  <2>9. ReadOrder(t + 1, n)'
    <3>1. HoldReads(src.content, Filled, readJob, t + 1, Executed(n))'
      BY <2>2, <2>3, <2>6, <2>8 DEF HoldReads, Part, UpTo, Off
    <3>2. /\ UpTo(src.content, Off(t + 1))' = UpTo(c, Off(t + 1))
          /\ UpTo(src.content, Off(Executed(n)))' = UpTo(c, Off(e))
          /\ Off(Executed(n))' = Off(e) /\ Off(n)' = Off(n)
      BY <2>2, <2>8 DEF UpTo, Off
    <3>3. (\A i \in rNext..rAccepted : readJob[rQueued[i]].offset = Off(Executed(n) + (i - rNext)))'
      BY <1>4, <2>2, <2>3, <2>8 DEF Off
    <3>4. src' = src /\ (reachedEof' <=> reachedEof) /\ nextReadOffset' = nextReadOffset
      BY <2>2
    <3>5. newRead' = NoIOJob
      BY <2>4
    <3>6. t + 1 <= e
      BY <1>4, <2>6
    <3> HIDE DEF e
    <3> QED BY <1>4, <2>7, <2>8, <3>1, <3>2, <3>3, <3>4, <3>5, <3>6 DEF ReadOrder
  <2>10. ReadAhead(t + 1, n)'
    <3>1. held' # NoIOJob
      BY <2>2, <2>3, IOPoolAssumption DEF JobIds
    <3> QED BY <2>4, <3>1 DEF ReadAhead
  <2>11. t + 1 \in Nat /\ src' = src /\ readJob' = readJob
    BY <2>2
  <2> QED BY <1>0, <1>2, <2>9, <2>10, <2>11
<1>16. CASE OpenSource \/ CloseSource
  <2>1. /\ ReadQueue!Idle /\ completed' = {} /\ held' = NoIOJob
        /\ nextReadOffset' = 0 /\ waitingOnOffset' = 0 /\ reachedEof' = FALSE
        /\ UNCHANGED <<rPool, rStage, readJob>> /\ newRead' = newRead
    BY <1>16 DEF OpenSource, CloseSource, SetSource, jobs
  <2>2. newRead = NoIOJob
    BY <1>3, <1>16 DEF OpenSource, CloseSource, MainInv
  <2>3. rStage = "idle" /\ rStarted = rAccepted /\ rAccepted \in Nat
    BY <1>3, <2>1, IdleMeans DEF ReaderInv
  <2>4. rNext' = rAccepted + 1 /\ rAccepted' = rAccepted /\ Filled' = {}
    BY <2>1, <2>3 DEF rNext, Filled, rPool
  <2>5. Executed(0)' = 0
    <3>1. Executed(0)' = 0 - (rAccepted - (rAccepted + 1) + 1) - 0
      <4>1. newRead' = NoIOJob
        BY <2>1, <2>2
      <4> QED BY <2>4, <4>1 DEF Executed
    <3> QED BY <2>3, <3>1
  <2>6. src' \in [content : Seq(Nat), pos : Nat] /\ src'.pos = 0
    <3>1. ASSUME NEW f \in Seq(Nat), SetSource(f) PROVE src' \in [content : Seq(Nat), pos : Nat] /\ src'.pos = 0
      BY <3>1 DEF SetSource
    <3>2. CASE OpenSource
      BY <3>1, <3>2, FilesStay DEF OpenSource
    <3>3. CASE CloseSource
      <4>1. <<>> \in Seq(Nat)
        BY EmptySeq
      <4> QED BY <3>1, <3>3, <4>1 DEF CloseSource
    <3> QED BY <1>16, <3>2, <3>3
  <2>7. UpTo(src'.content, 0) = 0
    BY <2>6, LenProperties DEF UpTo
  <2>8. HoldReads(src.content, Filled, readJob, 0, Executed(0))'
    BY <2>4, <2>5 DEF HoldReads
  <2>9. Off(0) = 0
    BY Offsets
  <2>10. ReadOrder(0, 0)'
    <3>1. /\ Off(0)' = 0 /\ Off(Executed(0))' = 0
          /\ UpTo(src.content, Off(0))' = 0 /\ UpTo(src.content, Off(Executed(0)))' = 0
      BY <2>5, <2>7, <2>9 DEF Off, UpTo
    <3>2. (\A i \in rNext..rAccepted : readJob[rQueued[i]].offset = Off(Executed(0) + (i - rNext)))'
      BY <2>3, <2>4
    <3>3. Len(src'.content) \in Nat /\ ~reachedEof'
      BY <2>1, <2>6, LenProperties
    <3>4. newRead' = NoIOJob
      BY <2>1, <2>2
    <3> QED BY <2>1, <2>5, <2>6, <2>8, <3>1, <3>2, <3>3, <3>4 DEF ReadOrder
  <2>11. ReadAhead(0, 0)'
    <3>1. CASE CloseSource
      BY <3>1 DEF CloseSource, ReadAhead
    <3>2. CASE OpenSource
      <4>1. pc' = "start" /\ turn' = 0
        BY <3>2 DEF OpenSource
      <4>2. rAvailable' # <<>>
        <5>1. rFlying' = {}
          BY <2>1, <2>3, <2>4 DEF rFlying, rFirst, rPool
        <5>2. ToSet(rAvailable') = 1..totalIoJobs'
          <6>1. ReadOwners(ToSet(rAvailable), completed, rFlying, held, newRead)'
            BY <1>3 DEF ReadOwnInv
          <6> QED BY <2>1, <2>2, <5>1, <6>1 DEF ReadOwners
        <5>3. 1 \in 1..totalIoJobs'
          BY IOPoolAssumption DEF totalIoJobs
        <5>4. ToSet(<<>>) = {}
          BY DEF ToSet
        <5> QED BY <5>2, <5>3, <5>4
      <4> QED BY <4>1, <4>2 DEF ReadAhead
    <3> QED BY <1>16, <3>1, <3>2
  <2>12. readJob' = readJob
    BY <2>1
  <2> QED BY <1>0, <1>2, <2>6, <2>10, <2>11, <2>12
<1>17. ASSUME UNCHANGED <<readVars, newRead>>, ReadAhead(t, n)' PROVE ReadOrderInv'
  BY <1>5, <1>17 DEF readVars, rPool, rNext, Filled
<1>18. CASE OpenDestination
  <2>1. t < n
    <3>1. rAvailable \in Seq(JobIds) /\ (rAvailable # <<>> => Len(rAvailable) >= 1)
      BY <1>3, EmptySeq DEF ReadOwnInv
    <3> QED BY <1>1, <1>18, <3>1 DEF OpenDestination, ReadAhead
  <2> QED BY <1>17, <1>18, <2>1 DEF OpenDestination, ReadAhead, jobs
<1>19. CASE NothingHeld \/ FillIsEnough \/ Coalesce \/ SourceIsOver
  <2>1. held' = held /\ (held = NoIOJob => t < n)
    BY <1>1, <1>19 DEF NothingHeld, FillIsEnough, Coalesce, SourceIsOver, ReadAhead, NoMoreReads, readVars
  <2>2. pc' \in {"next", "magic", "copy", "release"} /\ (pc' = "next" => held = NoIOJob)
    BY <1>19 DEF NothingHeld, FillIsEnough, Coalesce, SourceIsOver, AfterFill
  <2>3. ReadAhead(t, n)'
    BY <2>1, <2>2 DEF ReadAhead
  <2> QED BY <1>17, <1>19, <2>3 DEF NothingHeld, FillIsEnough, Coalesce, SourceIsOver, NoMoreReads, jobs
<1>20. CASE ReleaseRead
  <2>1. ReadAhead(t, n)'
    BY <1>20 DEF ReleaseRead, ReadAhead
  <2> QED BY <1>5, <1>20, <2>1 DEF ReleaseRead, ReleaseHeld, rPool, rNext, Filled, jobs
<1>21. CASE BeginCopy \/ CopyBlock \/ ConsumeBlock
  <2>1. held' = held /\ (held = NoIOJob => t < n) /\ pc' \in {"fill", "consume"}
    BY <1>1, <1>21 DEF BeginCopy, CopyBlock, ConsumeBlock, ReadAhead, readVars
  <2>2. ReadAhead(t, n)'
    BY <2>1 DEF ReadAhead
  <2> QED BY <1>17, <1>21, <2>2 DEF BeginCopy, CopyBlock, ConsumeBlock, jobs
<1>22. CASE EmptySource \/ EndCopy \/ EndSparse \/ CloseDestination
  <2>1. ReadAhead(t, n)'
    BY <1>22 DEF EmptySource, EndCopy, EndSparse, CloseDestination, ReadAhead
  <2> QED BY <1>17, <1>22, <2>1 DEF EmptySource, EndCopy, EndSparse, CloseDestination, jobs
<1>23. CASE MainStep
  BY <1>8, <1>11, <1>13, <1>14, <1>15, <1>16, <1>18, <1>19, <1>20, <1>21, <1>22, <1>23 DEF MainStep
<1>24. CASE ReaderRuns
  BY <1>9, <1>10, <1>24 DEF ReaderRuns, ReaderStep
<1>25. CASE WriterRuns \/ CopyIsDone \/ UNCHANGED copyVars
  BY <1>7, <1>25 DEF WriterRuns, CopyIsDone, copyVars, mainVars, args, jobs
<1> QED BY <1>8, <1>23, <1>24, <1>25 DEF CopyNext

\* Before the first file nothing is read.
LEMMA StartInOrder ==
  ASSUME CopyInit
  PROVE  ReadOrderInv
<1>1. /\ src = [content |-> <<>>, pos |-> 0] /\ rAccepted = 0 /\ rNext = 1 /\ rStage = "idle"
      /\ completed = {} /\ held = NoIOJob /\ ~reachedEof /\ nextReadOffset = 0 /\ waitingOnOffset = 0
      /\ newRead = NoIOJob /\ pc = "open"
  BY DEF CopyInit, ReadInit, ReadQueue!JobPoolInit, rNext
<1>2. <<>> \in Seq(Nat) /\ Len(<<>>) = 0
  BY EmptySeq
<1>3. readJob \in [JobIds -> [offset : Nat, data : Seq(Nat)]]
  BY <1>2 DEF CopyInit, ReadInit
<1>4. Executed(0) = 0 /\ Filled = {} /\ Off(0) = 0
  BY <1>1, Offsets DEF Executed, Filled
<1>5. HoldReads(src.content, Filled, readJob, 0, 0)
  BY <1>4 DEF HoldReads
<1>6. UpTo(src.content, 0) = 0
  BY <1>1, <1>2 DEF UpTo
<1>7. ReadOrder(0, 0)
  BY <1>1, <1>2, <1>4, <1>5, <1>6 DEF ReadOrder
<1>8. ReadAhead(0, 0)
  BY <1>1 DEF ReadAhead
<1> QED BY <1>1, <1>2, <1>3, <1>7, <1>8 DEF ReadOrderInv

\* An injective list is as long as the set of what is in it.
LEMMA ListSize ==
  ASSUME NEW S, NEW s \in Seq(S), IsInjective(s)
  PROVE  IsFiniteSet(ToSet(s)) /\ Cardinality(ToSet(s)) = Len(s)
<1> DEFINE T == ToSet(s)
<1>1. Len(s) \in Nat /\ DOMAIN s = 1..Len(s) /\ s = [i \in 1..Len(s) |-> s[i]]
  BY LenProperties
<1>2. T = {s[i] : i \in 1..Len(s)}
  BY <1>1 DEF ToSet
<1>3. s \in [1..Len(s) -> T]
  BY <1>1, <1>2
<1>4. \A t \in T : \E i \in 1..Len(s) : s[i] = t
  BY <1>2
<1>5. \A i, k \in 1..Len(s) : s[i] = s[k] => i = k
  BY <1>1 DEF IsInjective
<1> HIDE DEF T
<1>6. s \in Bijection(1..Len(s), T)
  BY <1>3, <1>4, <1>5 DEF Bijection, Injection, Surjection, IsInjective
<1>7. Cardinality(T) = Len(s)
  BY <1>1, <1>6, FS_CountingElements DEF ExistsBijection
<1>8. IsFiniteSet(T)
  BY <1>1, <1>6, FS_NatBijection DEF ExistsBijection
<1> QED BY <1>7, <1>8 DEF T

\* Two sets that share nothing are together as large as the two.
LEMMA DisjointSize ==
  ASSUME NEW S, NEW T, IsFiniteSet(S), IsFiniteSet(T), S \intersect T = {}
  PROVE  /\ Cardinality(S) \in Nat /\ Cardinality(T) \in Nat
         /\ IsFiniteSet(S \union T)
         /\ Cardinality(S \union T) = Cardinality(S) + Cardinality(T)
<1>1. Cardinality(S) \in Nat /\ Cardinality(T) \in Nat
  BY FS_CardinalityType
<1>2. IsFiniteSet(S \union T)
      /\ Cardinality(S \union T) = Cardinality(S) + Cardinality(T) - Cardinality(S \intersect T)
  BY FS_Union
<1>3. Cardinality(S \intersect T) = 0
  BY FS_EmptySet
<1>4. Cardinality(S \union T) = Cardinality(S) + Cardinality(T) - 0
  BY <1>2, <1>3
<1> QED BY <1>1, <1>2, <1>4

\* When the consumer gives up, the pool's thread has read all it was told to
\* and met the end of the file.
LEMMA SourceIsRead ==
  ASSUME JobsInvs, ReadOrderInv, pc = "next", NextCompleted = {}, ReadsInFlight = 0
  PROVE  reachedEof /\ waitingOnOffset = Len(src.content)
<1>1. /\ ReaderInv /\ MainInv /\ ReadOwnInv
  BY DEF JobsInvs
<1>2. newRead = NoIOJob /\ held = NoIOJob
  BY <1>1 DEF MainInv
<1> DEFINE A == ToSet(rAvailable)
           C == completed
           F == rFlying
<1>3. A \union C \union F = 1..totalIoJobs /\ A \intersect C = {} /\ A \intersect F = {} /\ C \intersect F = {}
  BY <1>1, <1>2 DEF ReadOwnInv, ReadOwners
<1>4. totalIoJobs \in Nat
  BY IOPoolAssumption DEF totalIoJobs
<1>5. IsFiniteSet(1..totalIoJobs) /\ Cardinality(1..totalIoJobs) = totalIoJobs
  BY <1>4, FinishedCount, FS_Interval
<1>6. Cardinality(A) = Len(rAvailable) /\ Len(rAvailable) \in Nat
  BY <1>1, ListSize, LenProperties DEF ReadOwnInv
<1>7. totalIoJobs - (Len(rAvailable) + Cardinality(C) + 0) = 0
  BY <1>2 DEF ReadsInFlight
<1> HIDE DEF A, C, F
<1>8. IsFiniteSet(A) /\ IsFiniteSet(C) /\ IsFiniteSet(F)
  BY <1>3, <1>5, FS_Subset
<1>9. /\ Cardinality(A) \in Nat /\ Cardinality(C) \in Nat
      /\ IsFiniteSet(A \union C) /\ Cardinality(A \union C) = Cardinality(A) + Cardinality(C)
  BY <1>3, <1>8, DisjointSize
<1>10. (A \union C) \intersect F = {}
  BY <1>3
<1>11. Cardinality(F) \in Nat /\ Cardinality((A \union C) \union F) = Cardinality(A \union C) + Cardinality(F)
  <2> DEFINE AC == A \union C
  <2>1. IsFiniteSet(AC) /\ AC \intersect F = {}
    BY <1>9, <1>10
  <2> HIDE DEF AC
  <2>2. Cardinality(F) \in Nat /\ Cardinality(AC \union F) = Cardinality(AC) + Cardinality(F)
    BY <1>8, <2>1, DisjointSize
  <2> QED BY <2>2 DEF AC
<1>12. F = {}
  <2>1. totalIoJobs = Cardinality(A) + Cardinality(C) + Cardinality(F)
    BY <1>3, <1>5, <1>9, <1>11
  <2>2. totalIoJobs - (Cardinality(A) + Cardinality(C) + 0) = 0
    BY <1>6, <1>7
  <2>3. Cardinality(F) = 0
    BY <1>4, <1>9, <1>11, <2>1, <2>2
  <2> QED BY <1>8, <2>3, FS_EmptySet
<1>13. rFirst \in Nat /\ rAccepted \in Nat /\ rFirst > rAccepted
  <2>1. rFirst \notin rFirst..rAccepted
    BY <1>12 DEF F, rFlying
  <2> QED BY <1>1, <2>1 DEF rFirst, ReaderInv
<1>14. rNext = rAccepted + 1 /\ Filled = completed
  BY <1>1, <1>13 DEF rNext, rFirst, Filled, ReaderInv
<1>15. PICK t \in Nat, n \in Nat : ReadOrder(t, n) /\ ReadAhead(t, n)
  BY DEF ReadOrderInv
<1>16. Executed(n) = n /\ t < n
  BY <1>2, <1>13, <1>14, <1>15 DEF Executed, ReadAhead
<1>17. PICK j \in completed : readJob[j].offset = Off(t)
  <2>1. t \in t..(n - 1)
    BY <1>15, <1>16
  <2> QED BY <1>14, <1>15, <1>16, <2>1 DEF ReadOrder, HoldReads
<1>18. waitingOnOffset = UpTo(src.content, Off(t)) /\ waitingOnOffset # Off(t)
  BY <1>15, <1>17 DEF ReadOrder, NextCompleted
<1>19. Off(t) > Len(src.content) /\ waitingOnOffset = Len(src.content)
  <2>1. Off(t) \in Nat /\ Len(src.content) \in Nat
    BY <1>15, Offsets, LenProperties DEF ReadOrderInv
  <2> QED BY <1>18, <2>1 DEF UpTo
<1>20. Off(n) > Len(src.content)
  <2>1. Off(t) + ReadSize <= Off(n) /\ Off(t) \in Nat /\ Off(n) \in Nat /\ Len(src.content) \in Nat
    BY <1>16, Offsets, LenProperties DEF ReadOrderInv
  <2> QED BY <1>19, <2>1, ReadAssumption
<1> QED BY <1>15, <1>16, <1>19, <1>20 DEF ReadOrder

\* What the consumer takes is the part of the file that it waited for, empty
\* only at the end.
LEMMA TakenRead ==
  ASSUME JobsInvs, ReadOrderInv, NEW j, j \in NextCompleted
  PROVE  /\ j \in JobIds /\ readJob[j].data \in Seq(Nat)
         /\ waitingOnOffset \in Nat
         /\ waitingOnOffset + Len(readJob[j].data) <= Len(src.content)
         /\ readJob[j].data = SubSeq(src.content, waitingOnOffset + 1, waitingOnOffset + Len(readJob[j].data))
         /\ Len(readJob[j].data) = 0 => reachedEof /\ waitingOnOffset = Len(src.content)
<1> DEFINE d == readJob[j].data
           c == src.content
<1>1. PICK t \in Nat, n \in Nat : ReadOrder(t, n) /\ ReadAhead(t, n)
  BY DEF ReadOrderInv
<1>2. c \in Seq(Nat) /\ Len(c) \in Nat
  BY LenProperties DEF ReadOrderInv
<1>3. j \in completed /\ j \in Filled /\ j \in JobIds
  BY PlacesOfReads DEF NextCompleted, Filled
<1>4. d \in Seq(Nat) /\ Len(d) \in Nat
  BY <1>3, LenProperties DEF ReadOrderInv
<1> DEFINE e == Executed(n)
<1>5. /\ readJob[j].offset = UpTo(c, Off(t)) /\ waitingOnOffset = UpTo(c, Off(t))
      /\ e \in Nat /\ HoldReads(c, Filled, readJob, t, e) /\ (reachedEof <=> Off(e) > Len(c))
  BY <1>1 DEF ReadOrder, NextCompleted
<1> HIDE DEF e, c
<1>6. t < e /\ d = Part(c, Off(t), Off(t + 1))
  <2> HIDE DEF d
  <2>1. readJob[j].offset = UpTo(c, Off(t)) /\ t \in Nat /\ e \in Nat /\ HoldReads(c, Filled, readJob, t, e)
    BY <1>1, <1>5
  <2>2. c \in Seq(Nat) /\ j \in Filled
    BY <1>2, <1>3
  <2>3. /\ t < e /\ HoldReads(c, Filled \ {j}, readJob, t + 1, e)
        /\ readJob[j].data = Part(c, Off(t), Off(t + 1))
    BY <2>1, <2>2, OneReadLess
  <2> QED BY <2>3 DEF d
<1>7. Off(t) \in Nat /\ Off(t + 1) = Off(t) + ReadSize /\ Off(t + 1) \in Nat /\ Off(e) \in Nat
      /\ (t + 1 < e => Off(t + 1) + ReadSize <= Off(e))
  BY <1>5, Offsets
<1>8. /\ UpTo(c, Off(t)) \in 0..Len(c) /\ UpTo(c, Off(t + 1)) \in 0..Len(c)
      /\ Len(Part(c, Off(t), Off(t + 1))) = UpTo(c, Off(t + 1)) - UpTo(c, Off(t))
  <2>1. Off(t) <= Off(t + 1)
    BY <1>7, ReadAssumption
  <2> QED BY <1>2, <1>7, <2>1, PartOfFile
<1>9. waitingOnOffset \in Nat /\ waitingOnOffset + Len(d) = UpTo(c, Off(t + 1))
  <2>1. Len(d) = UpTo(c, Off(t + 1)) - UpTo(c, Off(t))
    BY <1>6, <1>8
  <2> HIDE DEF d
  <2> QED BY <1>2, <1>5, <1>8, <2>1
<1>10. d = SubSeq(c, waitingOnOffset + 1, waitingOnOffset + Len(d))
  BY <1>5, <1>6, <1>9 DEF Part
<1>11. ASSUME Len(d) = 0 PROVE reachedEof /\ waitingOnOffset = Len(c)
  <2>1. UpTo(c, Off(t)) = UpTo(c, Off(t + 1))
    BY <1>2, <1>5, <1>8, <1>9, <1>11
  <2>2. Off(t + 1) > Len(c) /\ UpTo(c, Off(t)) = Len(c)
    BY <1>2, <1>7, <2>1, ReadAssumption DEF UpTo
  <2>3. Off(e) > Len(c)
    <3>1. CASE t + 1 = e
      BY <2>2, <3>1
    <3>2. CASE t + 1 < e
      BY <1>2, <1>7, <2>2, <3>2, ReadAssumption
    <3> QED BY <1>5, <1>6, <3>1, <3>2
  <2> QED BY <1>5, <2>2, <2>3
<1>12. waitingOnOffset + Len(d) <= Len(c)
  BY <1>2, <1>8, <1>9
<1> QED BY <1>3, <1>4, <1>9, <1>10, <1>11, <1>12 DEF c

-----------------------------------------------------------------------------
(***************************************************************************)
(* The source buffer.                                                      *)
(***************************************************************************)

\* What the main thread has in its source buffer at each place: nothing before
\* the first fill and after the last block, at least a block of free room in
\* front of what is left in the coalesce buffer, and nothing to copy only at
\* the end of the file.
BufferInv ==
  /\ srcBuffer \in [job : JobIds \union {NoIOJob}, from : Nat, loaded : Nat]
  /\ pc \in {"open", "start", "startAdd", "endSparse", "closeDst", "closeSrc", "done"}
       => srcBuffer.loaded = 0
  /\ pc \in {"fill", "release", "reacquire", "readAdd", "next"} /\ writeJob = NoIOJob
       => srcBuffer.loaded = 0
  /\ pc = "magic" /\ srcBuffer.loaded > 0 => srcBuffer.job # NoIOJob
  /\ pc = "fill" /\ srcBuffer.job = NoIOJob /\ srcBuffer.loaded > 0 => srcBuffer.from >= BlockSize
  /\ pc = "consume" => srcBuffer.loaded > 0
  /\ pc \in {"magic", "copy", "endSparse", "closeDst", "closeSrc"} /\ srcBuffer.loaded = 0
       => reachedEof /\ waitingOnOffset = Len(src.content)

\* The buffer stays as it is, and so does what was found of the file's end.
LEMMA SameBuffer ==
  ASSUME BufferInv, srcBuffer' = srcBuffer, reachedEof => reachedEof',
         waitingOnOffset' = waitingOnOffset, src'.content = src.content,
         \/ pc' = pc /\ writeJob' = writeJob
         \/ /\ writeJob' = writeJob /\ pc \in {"fill", "release", "reacquire", "readAdd"}
            /\ pc' \in {"release", "reacquire", "readAdd", "next"}
         \/ /\ pc \in {"open", "start", "startAdd"} /\ pc' \in {"start", "startAdd", "fill"}
         \/ /\ pc \in {"copy", "endSparse", "closeDst", "magic"} /\ srcBuffer.loaded = 0
            /\ pc' \in {"endSparse", "closeDst", "closeSrc"}
  PROVE  BufferInv'
<1>1. srcBuffer' \in [job : JobIds \union {NoIOJob}, from : Nat, loaded : Nat]
  BY DEF BufferInv, JobIds
<1>2. CASE pc' = pc /\ writeJob' = writeJob
  BY <1>1, <1>2 DEF BufferInv, JobIds
<1>3. CASE /\ writeJob' = writeJob /\ pc \in {"fill", "release", "reacquire", "readAdd"}
           /\ pc' \in {"release", "reacquire", "readAdd", "next"}
  BY <1>1, <1>3 DEF BufferInv, JobIds
<1>4. CASE pc \in {"open", "start", "startAdd"} /\ pc' \in {"start", "startAdd", "fill"}
  BY <1>1, <1>4 DEF BufferInv, JobIds
<1>5. CASE /\ pc \in {"copy", "endSparse", "closeDst", "magic"} /\ srcBuffer.loaded = 0
           /\ pc' \in {"endSparse", "closeDst", "closeSrc"}
  BY <1>1, <1>5 DEF BufferInv, JobIds
<1> QED BY <1>2, <1>3, <1>4, <1>5

\* The block that is copied next.
LEMMA BlockToWrite ==
  ASSUME srcBuffer.loaded \in Nat
  PROVE  /\ WriteSize = IF BlockSize <= srcBuffer.loaded THEN BlockSize ELSE srcBuffer.loaded
         /\ WriteSize \in 0..srcBuffer.loaded /\ BlockSize \in Nat \ {0} /\ MagicSize \in Nat \ {0}
<1>1. BlockSize \in Nat \ {0} /\ MagicSize \in Nat \ {0}
  BY ReadAssumption, PassThroughAssumption
<1>2. WriteSize = IF BlockSize <= srcBuffer.loaded THEN BlockSize ELSE srcBuffer.loaded
  BY <1>1, LesserOf DEF WriteSize
<1> QED BY <1>1, <1>2

\* The end of the file, once met, stays met until another one is opened.
LEMMA EofStays ==
  ASSUME ReadOrderInv, CopyNext \/ UNCHANGED copyVars, ~(OpenSource \/ CloseSource)
  PROVE  /\ reachedEof => reachedEof'
         /\ src'.content = src.content
<1>1. src \in [content : Seq(Nat), pos : Nat]
  BY DEF ReadOrderInv
<1>2. ASSUME NEW j, Fread(j) PROVE (reachedEof => reachedEof') /\ src'.content = src.content
  <2> DEFINE to == IF reachedEof THEN src.pos ELSE Min({src.pos + ReadSize, Len(src.content)})
  <2>1. src' = [src EXCEPT !.pos = to] /\ (reachedEof' <=> to - src.pos < ReadSize)
    BY <1>2 DEF Fread
  <2>2. ASSUME reachedEof PROVE reachedEof'
    <3>1. to = src.pos
      BY <2>2
    <3> HIDE DEF to
    <3>2. to - src.pos < ReadSize
      BY <1>1, <3>1, ReadAssumption
    <3> QED BY <2>1, <3>2
  <2> QED BY <1>1, <2>1, <2>2
<1>3. CASE AddStartRead \/ AddNextRead
  BY <1>2, <1>3 DEF AddStartRead, AddNextRead, EnqueueRead
<1>4. CASE ReaderRuns
  BY <1>2, <1>4 DEF ReaderRuns, ReaderStep, ReaderStarts, ReaderReads, ReaderCompletes, ReaderEnds
<1>5. CASE MainStep /\ ~(AddStartRead \/ AddNextRead)
  BY <1>5 DEF MainStep, StartRead, OpenDestination, FillIsEnough,
       Coalesce, ReleaseRead, NothingHeld, NextRead, WaitForRead, LoadRead, SourceIsOver,
       EmptySource, BeginCopy, CopyBlock, ConsumeBlock, EndCopy, EndSparse, CloseDestination,
       AcquireRead, ReleaseHeld, WaitForCompleted, TakeCompleted, NoMoreReads, readVars
<1>6. CASE WriterRuns \/ MainWakesForNothing \/ CopyIsDone \/ UNCHANGED copyVars
  BY <1>6 DEF WriterRuns, MainWakesForNothing, ConsumerWakesForNothing, CopyIsDone, copyVars, readVars
<1> QED BY <1>3, <1>4, <1>5, <1>6 DEF CopyNext

\* The source buffer stays as BufferInv says.
LEMMA BufferStays ==
  ASSUME JobsInvs, ReadOrderInv, BufferInv, CopyNext \/ UNCHANGED copyVars
  PROVE  BufferInv'
<1> DEFINE b == srcBuffer
<1>1. MainInv /\ b \in [job : JobIds \union {NoIOJob}, from : Nat, loaded : Nat]
  BY DEF JobsInvs, BufferInv
<1>2. b.loaded \in Nat /\ b.from \in Nat /\ BlockSize \in Nat \ {0} /\ MagicSize \in Nat \ {0}
  BY <1>1, BlockToWrite
<1>3. ASSUME ~(OpenSource \/ CloseSource)
      PROVE  (reachedEof => reachedEof') /\ src'.content = src.content
  BY <1>3, EofStays
<1>4. CASE OpenSource \/ CloseSource
  <2>1. srcBuffer' = EmptyBuffer /\ pc' \in {"start", "open", "done"}
    BY <1>4 DEF OpenSource, CloseSource
  <2> QED BY <2>1 DEF BufferInv, EmptyBuffer, JobIds
<1>5. CASE StartRead \/ NextRead
  BY <1>3, <1>5, SameBuffer DEF StartRead, NextRead, OpenSource, CloseSource, AcquireRead, buffers
<1>6. CASE AddStartRead \/ AddNextRead
  BY <1>3, <1>6, SameBuffer DEF AddStartRead, AddNextRead, OpenSource, CloseSource, EnqueueRead, buffers,
     rOffsets
<1>7. CASE OpenDestination \/ NothingHeld
  BY <1>3, <1>7, SameBuffer DEF OpenDestination, NothingHeld, OpenSource, CloseSource, buffers, jobs,
     readVars, rOffsets
<1>8. CASE ReleaseRead
  BY <1>3, <1>8, SameBuffer DEF ReleaseRead, ReleaseHeld, OpenSource, CloseSource, buffers, jobs, rOffsets
<1>9. CASE EmptySource \/ EndCopy \/ EndSparse \/ CloseDestination
  <2>1. srcBuffer.loaded = 0
    BY <1>9 DEF EmptySource, EndCopy, EndSparse, CloseDestination, BufferInv
  <2> QED BY <1>3, <1>9, <2>1, SameBuffer DEF EmptySource, EndCopy, EndSparse, CloseDestination, OpenSource,
       CloseSource, buffers, readVars, rOffsets
<1>10. CASE WaitForRead \/ MainWakesForNothing
  <2>1. pc' = pc /\ writeJob' = writeJob /\ srcBuffer' = srcBuffer /\ waitingOnOffset' = waitingOnOffset
        /\ reachedEof' = reachedEof /\ src' = src
    BY <1>10 DEF WaitForRead, WaitForCompleted, MainWakesForNothing, ConsumerWakesForNothing, mainVars, jobs,
       buffers, rOffsets
  <2> QED BY <2>1, SameBuffer
<1>11. CASE ReaderRuns
  <2>1. pc' = pc /\ writeJob' = writeJob /\ srcBuffer' = srcBuffer /\ waitingOnOffset' = waitingOnOffset
    BY <1>11 DEF ReaderRuns, ReaderStep, ReaderStarts, ReaderReads, ReaderCompletes, ReaderEnds, mainVars,
       jobs, buffers, rOffsets
  <2>2. ~(OpenSource \/ CloseSource)
    BY <2>1 DEF OpenSource, CloseSource
  <2> QED BY <1>3, <2>1, <2>2, SameBuffer
<1>12. CASE WriterRuns \/ CopyIsDone \/ UNCHANGED copyVars
  <2>1. pc' = pc /\ writeJob' = writeJob /\ srcBuffer' = srcBuffer /\ waitingOnOffset' = waitingOnOffset
        /\ reachedEof' = reachedEof /\ src' = src
    BY <1>12 DEF WriterRuns, CopyIsDone, copyVars, mainVars, jobs, buffers, readVars, rOffsets
  <2> QED BY <2>1, SameBuffer
<1>13. CASE FillIsEnough
  <2>1. /\ b.loaded >= want /\ pc = "fill" /\ srcBuffer' = srcBuffer /\ writeJob' = writeJob
        /\ pc' = IF writeJob = NoIOJob THEN "magic" ELSE "copy"
    BY <1>13 DEF FillIsEnough, AfterFill, buffers, jobs
  <2>2. b.loaded > 0
    BY <1>1, <1>2, <2>1 DEF MainInv
  <2>3. pc' = "copy"
    BY <1>2, <2>1, <2>2 DEF BufferInv
  <2> QED BY <2>1, <2>2, <2>3 DEF BufferInv, JobIds
<1>14. CASE Coalesce
  <2>1. /\ pc = "fill" /\ pc' = "release" /\ writeJob' = writeJob
        /\ IF b.loaded > 0 THEN srcBuffer' = [EmptyBuffer EXCEPT !.loaded = b.loaded]
                           ELSE srcBuffer' = srcBuffer
    BY <1>14 DEF Coalesce, buffers, jobs
  <2> QED BY <1>1, <1>2, <2>1 DEF BufferInv, EmptyBuffer, JobIds
<1>15. CASE LoadRead
  <2>1. PICK j \in NextCompleted :
          /\ TakeCompleted(j)
          /\ IF b.loaded > 0
             THEN srcBuffer' = [b EXCEPT !.loaded = @ + Len(readJob[j].data)]
             ELSE srcBuffer' = [job |-> j, from |-> 0, loaded |-> Len(readJob[j].data)]
    BY <1>15 DEF LoadRead
  <2> DEFINE d == readJob[j].data
  <2>2. /\ j \in JobIds /\ d \in Seq(Nat) /\ Len(d) \in Nat
        /\ Len(d) = 0 => reachedEof /\ waitingOnOffset = Len(src.content)
        /\ waitingOnOffset \in Nat
    BY TakenRead, LenProperties
  <2>3. /\ reachedEof' = reachedEof /\ src' = src /\ waitingOnOffset' = waitingOnOffset + Len(d)
    BY <2>1 DEF TakeCompleted
  <2>4. /\ writeJob' = writeJob /\ pc = "next" /\ pc' = IF writeJob = NoIOJob THEN "magic" ELSE "copy"
    BY <1>15 DEF LoadRead, AfterFill, jobs
  <2> HIDE DEF d
  <2>5. CASE b.loaded > 0
    <3>1. srcBuffer' = [b EXCEPT !.loaded = b.loaded + Len(d)]
      BY <2>1, <2>5 DEF d
    <3>2. writeJob # NoIOJob
      BY <2>4, <2>5, <1>2 DEF BufferInv
    <3>3. b.loaded + Len(d) \in Nat /\ b.loaded + Len(d) > 0
      BY <1>2, <2>2, <2>5
    <3>4. srcBuffer' \in [job : JobIds \union {NoIOJob}, from : Nat, loaded : Nat] /\ srcBuffer'.loaded > 0
      BY <1>1, <3>1, <3>3
    <3>5. pc' = "copy"
      BY <2>4, <3>2
    <3> QED BY <3>4, <3>5 DEF BufferInv, JobIds
  <2>6. CASE ~(b.loaded > 0)
    <3>1. srcBuffer' = [job |-> j, from |-> 0, loaded |-> Len(d)]
      BY <2>1, <2>6 DEF d
    <3>2. Len(d) = 0 => reachedEof' /\ waitingOnOffset' = Len(src'.content)
      BY <2>2, <2>3
    <3>3. j # NoIOJob
      BY <2>2, IOPoolAssumption DEF JobIds
    <3> QED BY <2>2, <2>4, <3>1, <3>2, <3>3 DEF BufferInv, JobIds
  <2> QED BY <2>5, <2>6
<1>16. CASE SourceIsOver
  <2>1. /\ pc = "next" /\ NextCompleted = {} /\ ReadsInFlight = 0 /\ UNCHANGED readVars
        /\ writeJob' = writeJob /\ pc' = IF writeJob = NoIOJob THEN "magic" ELSE "copy"
        /\ srcBuffer' = srcBuffer
    BY <1>16 DEF SourceIsOver, NoMoreReads, AfterFill, jobs, buffers
  <2>2. reachedEof' /\ waitingOnOffset' = Len(src'.content)
    BY <2>1, SourceIsRead DEF readVars, rOffsets
  <2> QED BY <1>1, <1>2, <2>1, <2>2 DEF BufferInv, JobIds
<1>17. CASE BeginCopy
  <2>1. /\ pc = "magic" /\ b.loaded > 0 /\ pc' = "fill" /\ srcBuffer' = srcBuffer
        /\ writeJob' = TopJob(wAvailable)
    BY <1>17 DEF BeginCopy, buffers
  <2>2. writeJob' \in JobIds /\ writeJob' # NoIOJob
    BY <2>1, WriteJobIsThere, IOPoolAssumption DEF JobsInvs, JobIds
  <2>3. b.job # NoIOJob
    BY <2>1 DEF BufferInv
  <2> QED BY <1>1, <2>1, <2>2, <2>3 DEF BufferInv, JobIds
<1>18. CASE CopyBlock
  <2>1. pc' = "consume" /\ srcBuffer' = srcBuffer /\ b.loaded > 0
    BY <1>18 DEF CopyBlock, buffers
  <2> QED BY <1>1, <2>1 DEF BufferInv, JobIds
<1>19. CASE ConsumeBlock
  <2>1. /\ pc = "consume" /\ pc' = "fill" /\ writeJob' = TopJob(wAvailable)
        /\ srcBuffer' = [b EXCEPT !.from = b.from + WriteSize, !.loaded = b.loaded - WriteSize]
    BY <1>19 DEF ConsumeBlock
  <2>2. writeJob' \in JobIds /\ writeJob' # NoIOJob
    BY <2>1, WriteJobIsThere, IOPoolAssumption DEF JobsInvs, JobIds
  <2>3. /\ WriteSize = IF BlockSize <= b.loaded THEN BlockSize ELSE b.loaded
        /\ WriteSize \in 0..b.loaded
    BY <1>2, BlockToWrite
  <2>4. srcBuffer' \in [job : JobIds \union {NoIOJob}, from : Nat, loaded : Nat]
    <3>1. b.from + WriteSize \in Nat /\ b.loaded - WriteSize \in Nat
      BY <1>2, <2>3
    <3> QED BY <1>1, <2>1, <3>1
  <2>5. srcBuffer'.loaded > 0 => srcBuffer'.from >= BlockSize
    BY <1>1, <1>2, <2>1, <2>3
  <2> QED BY <2>1, <2>2, <2>4, <2>5 DEF BufferInv, JobIds
<1>20. CASE MainStep
  BY <1>4, <1>5, <1>6, <1>7, <1>8, <1>9, <1>10, <1>13, <1>14, <1>15, <1>16, <1>17, <1>18, <1>19, <1>20
  DEF MainStep
<1> QED BY <1>10, <1>11, <1>12, <1>20 DEF CopyNext

\* The invariants of the copy up to its source buffer.
CopyInvs == JobsInvs /\ FilesInv /\ ReadOrderInv /\ BufferInv

\* They are invariants.
LEMMA CopyInvsHold == CopySpec => []CopyInvs
<1>1. ASSUME CopyInit PROVE CopyInvs
  <2>1. JobsInvs /\ FilesInv /\ ReadOrderInv
    BY <1>1, StartOwned, FilesStay, StartInOrder
  <2>2. BufferInv
    BY <1>1 DEF CopyInit, BufferInv, EmptyBuffer, JobIds
  <2> QED BY <2>1, <2>2 DEF CopyInvs
<1>2. ASSUME CopyInvs, [CopyNext]_copyVars PROVE CopyInvs'
  <2>1. JobsInvs'
    BY <1>2, ReaderStays, WriterStays, MainStays, ReadJobsKeepOwner, WriteJobsKeepOwner DEF JobsInvs, CopyInvs
  <2>2. FilesInv'
    BY <1>2, FilesStay DEF CopyInvs
  <2>3. ReadOrderInv'
    BY <1>2, <2>1, ReadsStayInOrder DEF CopyInvs
  <2>4. BufferInv'
    BY <1>2, BufferStays DEF CopyInvs
  <2> QED BY <2>1, <2>2, <2>3, <2>4 DEF CopyInvs
<1> QED BY <1>1, <1>2, PTL DEF CopySpec

\* The assertions of AIO_IOPool_acquireJob and FIO_passThrough never fail, and
\* AIO_ReadPool_fillBuffer never copies onto what it copies: whatever the
\* number of jobs, the sizes of reads and blocks, and the files.
THEOREM CopyAsserts == CopySpec => []AssertionsHold
<1>1. ASSUME CopyInvs PROVE AssertionsHold
  <2>1. /\ JobsInvs /\ MainInv /\ BufferInv
    BY <1>1 DEF CopyInvs, JobsInvs
  <2>2. pc = "reacquire" => rAvailable # <<>>
    BY <2>1 DEF JobsInvs, ReadOwnInv
  <2>3. pc \in {"magic", "consume"} => wAvailable # <<>>
    BY <2>1, WriteJobIsThere DEF JobsInvs
  <2>4. pc = "copy" /\ srcBuffer.loaded = 0 => reachedEof
    BY <2>1 DEF BufferInv
  <2>5. ASSUME pc = "fill", srcBuffer.job = NoIOJob, srcBuffer.loaded \in 1..(want - 1)
        PROVE  srcBuffer.from >= srcBuffer.loaded
    <3>1. srcBuffer.loaded \in Nat /\ srcBuffer.from \in Nat
      BY <2>1 DEF BufferInv
    <3>2. BlockSize \in Nat /\ MagicSize \in Nat
      BY <3>1, BlockToWrite
    <3>3. srcBuffer.loaded > 0
      BY <2>1, <2>5, <3>1, <3>2 DEF MainInv
    <3>4. writeJob # NoIOJob /\ srcBuffer.from >= BlockSize
      BY <2>1, <2>5, <3>1, <3>3 DEF BufferInv
    <3>5. want = BlockSize
      BY <2>1, <3>4 DEF MainInv
    <3> QED BY <2>5, <3>1, <3>2, <3>4, <3>5
  <2> QED BY <2>2, <2>3, <2>4, <2>5 DEF AssertionsHold
<1> QED BY <1>1, CopyInvsHold, PTL

\* Facts on recursive functions and on numbers.
Data == INSTANCE PlanLemmas WITH Null <- NoIOJob

-----------------------------------------------------------------------------
(***************************************************************************)
(* What the sparse write leaves in the file.                               *)
(***************************************************************************)

\* d is what c has between the places x and y.
IsPiece(d, c, x, y) ==
  /\ d \in Seq(Nat) /\ x \in Nat /\ y \in Nat /\ y <= Len(c)
  /\ Len(d) = y - x
  /\ \A i \in 1..Len(d) : d[i] = c[x + i]

\* Pieces that meet are one piece when they are joined.
LEMMA PiecesJoin ==
  ASSUME NEW c \in Seq(Nat), NEW d, NEW f, NEW x, NEW y, NEW z, IsPiece(d, c, x, y), IsPiece(f, c, y, z)
  PROVE  IsPiece(d \o f, c, x, z)
<1>1. /\ d \in Seq(Nat) /\ f \in Seq(Nat) /\ x \in Nat /\ y \in Nat /\ z \in Nat /\ z <= Len(c)
      /\ Len(d) = y - x /\ Len(f) = z - y
      /\ Len(d) \in Nat /\ Len(f) \in Nat
  BY LenProperties DEF IsPiece
<1>2. /\ d \o f \in Seq(Nat) /\ Len(d \o f) = Len(d) + Len(f)
      /\ \A i \in 1..(Len(d) + Len(f)) : (d \o f)[i] = IF i <= Len(d) THEN d[i] ELSE f[i - Len(d)]
  BY <1>1, ConcatProperties
<1>3. ASSUME NEW i \in 1..Len(d \o f) PROVE (d \o f)[i] = c[x + i]
  <2>1. CASE i <= Len(d)
    <3>1. i \in 1..Len(d) /\ i \in 1..(Len(d) + Len(f))
      BY <1>1, <1>2, <2>1
    <3>2. (d \o f)[i] = d[i]
      BY <1>2, <2>1, <3>1
    <3> QED BY <3>1, <3>2 DEF IsPiece
  <2>2. CASE ~(i <= Len(d))
    <3>1. i - Len(d) \in 1..Len(f) /\ y + (i - Len(d)) = x + i /\ i \in 1..(Len(d) + Len(f))
      BY <1>1, <1>2, <2>2
    <3>2. (d \o f)[i] = f[i - Len(d)]
      BY <1>2, <2>2, <3>1
    <3>3. f[i - Len(d)] = c[y + (i - Len(d))]
      BY <3>1 DEF IsPiece
    <3> QED BY <3>1, <3>2, <3>3
  <2> QED BY <2>1, <2>2
<1>4. Len(d \o f) = z - x
  BY <1>1, <1>2
<1> QED BY <1>1, <1>2, <1>3, <1>4 DEF IsPiece

\* A part of a sequence is a piece of it, and so is a part of a piece.
LEMMA PartIsPiece ==
  ASSUME NEW c \in Seq(Nat), NEW x \in Nat, NEW y \in Nat, x <= y, y <= Len(c)
  PROVE  IsPiece(SubSeq(c, x + 1, y), c, x, y)
<1>1. \A i \in (x + 1)..y : c[i] \in Nat
  <2>1. \A i \in (x + 1)..y : i \in 1..Len(c)
    BY LenProperties
  <2> QED BY <2>1, ElementOfSeq
<1>2. /\ SubSeq(c, x + 1, y) \in Seq(Nat)
      /\ Len(SubSeq(c, x + 1, y)) = IF x + 1 <= y THEN y - (x + 1) + 1 ELSE 0
      /\ \A i \in 1..(y - (x + 1) + 1) : SubSeq(c, x + 1, y)[i] = c[(x + 1) + i - 1]
  BY <1>1, SubSeqProperties
<1>3. Len(SubSeq(c, x + 1, y)) = y - x
  BY <1>2
<1>4. \A i \in 1..(y - x) : SubSeq(c, x + 1, y)[i] = c[x + i]
  <2>1. \A i \in 1..(y - x) : i \in 1..(y - (x + 1) + 1) /\ (x + 1) + i - 1 = x + i
    OBVIOUS
  <2> QED BY <1>2, <2>1
<1> QED BY <1>2, <1>3, <1>4 DEF IsPiece

\* The piece that starts at the beginning and has all is the sequence.
LEMMA WholePiece ==
  ASSUME NEW c \in Seq(Nat), NEW d, IsPiece(d, c, 0, Len(c))
  PROVE  d = c
<1>1. d \in Seq(Nat) /\ Len(d) = Len(c)
  BY LenProperties DEF IsPiece
<1>2. \A i \in 1..Len(d) : d[i] = c[i]
  <2>1. \A i \in 1..Len(d) : 0 + i = i
    OBVIOUS
  <2> QED BY <2>1 DEF IsPiece
<1> QED BY <1>1, <1>2, SeqEqual

\* What a sequence begins with.
LEMMA FirstPiece ==
  ASSUME NEW c \in Seq(Nat), NEW d \in Seq(Nat)
  PROVE  /\ IsPiece(c, c \o d, 0, Len(c))
         /\ IsPiece(d, c \o d, Len(c), Len(c \o d))
         /\ c \o d \in Seq(Nat) /\ Len(c \o d) = Len(c) + Len(d)
<1>1. Len(c) \in Nat /\ Len(d) \in Nat
  BY LenProperties
<1>2. /\ c \o d \in Seq(Nat) /\ Len(c \o d) = Len(c) + Len(d)
      /\ \A i \in 1..(Len(c) + Len(d)) : (c \o d)[i] = IF i <= Len(c) THEN c[i] ELSE d[i - Len(c)]
  BY ConcatProperties
<1>3. \A i \in 1..Len(c) : c[i] = (c \o d)[0 + i]
  BY <1>1, <1>2
<1>4. \A i \in 1..Len(d) : d[i] = (c \o d)[Len(c) + i]
  <2>1. \A i \in 1..Len(d) : Len(c) + i \in 1..(Len(c) + Len(d)) /\ ~(Len(c) + i <= Len(c))
                             /\ (Len(c) + i) - Len(c) = i
    BY <1>1
  <2> QED BY <1>2, <2>1
<1> QED BY <1>1, <1>2, <1>3, <1>4 DEF IsPiece

\* A number of zeros.
LEMMA ZerosAre ==
  ASSUME NEW n \in Nat
  PROVE  Zeros(n) \in Seq(Nat) /\ Len(Zeros(n)) = n /\ \A i \in 1..n : Zeros(n)[i] = 0
BY DEF Zeros

\* Zeros joined with zeros.
LEMMA ZerosJoin ==
  ASSUME NEW n \in Nat, NEW m \in Nat
  PROVE  Zeros(n) \o Zeros(m) = Zeros(n + m)
<1>1. /\ Zeros(n) \in Seq(Nat) /\ Len(Zeros(n)) = n
      /\ Zeros(m) \in Seq(Nat) /\ Len(Zeros(m)) = m
      /\ Zeros(n + m) \in Seq(Nat) /\ Len(Zeros(n + m)) = n + m
      /\ \A i \in 1..n : Zeros(n)[i] = 0
      /\ \A i \in 1..m : Zeros(m)[i] = 0
      /\ \A i \in 1..(n + m) : Zeros(n + m)[i] = 0
  BY ZerosAre
<1>2. /\ Zeros(n) \o Zeros(m) \in Seq(Nat) /\ Len(Zeros(n) \o Zeros(m)) = n + m
      /\ \A i \in 1..(n + m) : (Zeros(n) \o Zeros(m))[i] = IF i <= n THEN Zeros(n)[i] ELSE Zeros(m)[i - n]
  <2> DEFINE a == Zeros(n)
             b == Zeros(m)
  <2>1. a \in Seq(Nat) /\ Len(a) = n /\ b \in Seq(Nat) /\ Len(b) = m
    BY <1>1
  <2> HIDE DEF a, b
  <2>2. /\ a \o b \in Seq(Nat) /\ Len(a \o b) = Len(a) + Len(b)
        /\ \A i \in 1..(Len(a) + Len(b)) : (a \o b)[i] = IF i <= Len(a) THEN a[i] ELSE b[i - Len(a)]
    BY <2>1, ConcatProperties
  <2>3. /\ a \o b \in Seq(Nat) /\ Len(a \o b) = n + m
        /\ \A i \in 1..(n + m) : (a \o b)[i] = IF i <= n THEN a[i] ELSE b[i - n]
    BY <2>1, <2>2
  <2> QED BY <2>3 DEF a, b
<1>3. \A i \in 1..(n + m) : (Zeros(n) \o Zeros(m))[i] = 0
  BY <1>1, <1>2
<1> QED BY <1>1, <1>2, <1>3, SeqEqual

\* Three sequences, joined in either order.
LEMMA ThreeJoin ==
  ASSUME NEW a \in Seq(Nat), NEW b \in Seq(Nat), NEW c \in Seq(Nat)
  PROVE  (a \o b) \o c = a \o (b \o c)
BY ConcatAssociative

\* A file and the skips before its next write.
IsSkipped(acc) ==
  /\ acc \in [file : [content : Seq(Nat), gap : Nat], skips : Nat]
  /\ acc.skips = 0 => acc.file.gap = 0

\* What the file will be with its skips, and with more of them.
LEMMA PaddedIs ==
  ASSUME NEW file \in [content : Seq(Nat), gap : Nat], NEW n \in Nat, NEW m \in Nat
  PROVE  /\ Padded(file, n) \in Seq(Nat)
         /\ Padded(file, n) \o Zeros(m) = Padded(file, n + m)
         /\ Padded(Seek(file, n), m) = Padded(file, n + m)
         /\ Seek(file, n) \in [content : Seq(Nat), gap : Nat]
<1>1. /\ file.content \in Seq(Nat) /\ file.gap \in Nat /\ file.gap + n \in Nat /\ (file.gap + n) + m \in Nat
      /\ (file.gap + n) + m = file.gap + (n + m)
  OBVIOUS
<1>2. Zeros(file.gap + n) \in Seq(Nat) /\ Zeros(m) \in Seq(Nat)
  BY <1>1, ZerosAre
<1>3. Padded(file, n) \in Seq(Nat)
  BY <1>1, <1>2, ConcatProperties DEF Padded
<1>4. Padded(file, n) \o Zeros(m) = Padded(file, n + m)
  <2>1. (file.content \o Zeros(file.gap + n)) \o Zeros(m) = file.content \o (Zeros(file.gap + n) \o Zeros(m))
    <3> DEFINE a == Zeros(file.gap + n)
               b == Zeros(m)
               f == file.content
    <3>1. a \in Seq(Nat) /\ b \in Seq(Nat) /\ f \in Seq(Nat)
      BY <1>1, <1>2
    <3> HIDE DEF a, b, f
    <3>2. (f \o a) \o b = f \o (a \o b)
      BY <3>1, ThreeJoin
    <3> QED BY <3>2 DEF a, b, f
  <2>2. Zeros(file.gap + n) \o Zeros(m) = Zeros(file.gap + (n + m))
    BY <1>1, ZerosJoin
  <2> QED BY <2>1, <2>2 DEF Padded
<1>5. /\ Seek(file, n) \in [content : Seq(Nat), gap : Nat]
      /\ Seek(file, n).content = file.content /\ Seek(file, n).gap = file.gap + n
  BY <1>1 DEF Seek
<1>6. Padded(Seek(file, n), m) = Padded(file, n + m)
  BY <1>1, <1>5 DEF Padded
<1> QED BY <1>3, <1>4, <1>5, <1>6

\* A write fills what was skipped with zeros.
LEMMA FwriteIs ==
  ASSUME NEW file \in [content : Seq(Nat), gap : Nat], NEW data \in Seq(Nat), data # <<>> \/ file.gap = 0
  PROVE  /\ Fwrite(file, data) \in [content : Seq(Nat), gap : Nat]
         /\ Fwrite(file, data).gap = 0
         /\ Padded(Fwrite(file, data), 0) = Padded(file, 0) \o data
<1>1. Zeros(0) = <<>> /\ 0 + 0 = 0
  BY DEF Zeros
<1>2. ASSUME NEW f \in [content : Seq(Nat), gap : Nat], f.gap = 0 PROVE Padded(f, 0) = f.content
  BY <1>1, <1>2, ConcatEmptySeq DEF Padded
<1>3. Padded(file, 0) \in Seq(Nat)
  BY PaddedIs
<1>4. CASE data = <<>>
  BY <1>3, <1>4, ConcatEmptySeq DEF Fwrite
<1>5. CASE data # <<>>
  <2>1. Fwrite(file, data) = [content |-> Padded(file, 0) \o data, gap |-> 0]
    BY <1>5 DEF Fwrite
  <2>2. Padded(file, 0) \o data \in Seq(Nat)
    BY <1>3, ConcatProperties
  <2> DEFINE f == Fwrite(file, data)
             all == Padded(file, 0) \o data
  <2>3. f = [content |-> all, gap |-> 0] /\ all \in Seq(Nat)
    BY <2>1, <2>2
  <2> HIDE DEF f, all
  <2>4. f \in [content : Seq(Nat), gap : Nat] /\ f.gap = 0 /\ f.content = all
    BY <2>3
  <2>5. Padded(f, 0) = all
    BY <1>2, <2>4
  <2> QED BY <2>4, <2>5 DEF f, all
<1> QED BY <1>4, <1>5

\* A set of natural numbers with a bound has a largest one.
LEMMA GreatestOf ==
  ASSUME NEW b \in Nat, NEW M, M \subseteq 0..b, M # {}
  PROVE  Max(M) \in M
<1> DEFINE K == {b - x : x \in M}
<1>1. K \subseteq Nat /\ K # {}
  <2>1. ASSUME NEW x \in M PROVE b - x \in Nat
    <3>1. x \in 0..b
      OBVIOUS
    <3> QED BY <3>1
  <2> QED BY <2>1
<1> HIDE DEF K
<1>2. PICK k \in K : \A j \in K : k <= j
  BY <1>1, Data!SmallestExists
<1>3. PICK x \in M : k = b - x
  BY <1>2 DEF K
<1>4. ASSUME NEW y \in M PROVE x >= y
  <2>1. b - y \in K
    BY DEF K
  <2>2. b - x <= b - y
    BY <1>2, <1>3, <2>1
  <2>3. x \in 0..b /\ y \in 0..b
    OBVIOUS
  <2> QED BY <2>2, <2>3
<1> QED BY <1>3, <1>4 DEF Max

\* What is skipped at the start of a part are zeros.
LEMMA LeadingZerosAre ==
  ASSUME NEW part \in Seq(Nat), NEW unit \in Nat \ {0}
  PROVE  /\ LeadingZeros(part, unit) \in 0..Len(part)
         /\ \A i \in 1..LeadingZeros(part, unit) : part[i] = 0
<1> DEFINE M == {n \in 0..Len(part) : n % unit = 0 /\ \A i \in 1..n : part[i] = 0}
<1>1. Len(part) \in Nat
  BY LenProperties
<1>2. 0 \in M
  <2>1. 0 % unit = 0
    OBVIOUS
  <2> QED BY <1>1, <2>1
<1>3. M \subseteq 0..Len(part) /\ M # {}
  BY <1>2
<1>4. LeadingZeros(part, unit) = Max(M)
  BY DEF LeadingZeros
<1>5. Max(M) \in M
  <2> HIDE DEF M
  <2> QED BY <1>1, <1>3, GreatestOf
<1> QED BY <1>4, <1>5

\* Skipping the zeros of a part and writing the rest adds the part to what the
\* file will be.
LEMMA SkipOrWriteAdds ==
  ASSUME NEW acc, IsSkipped(acc), NEW part \in Seq(Nat), NEW unit \in Nat \ {0}
  PROVE  LET r == SkipOrWrite(acc, part, unit)
         IN  /\ IsSkipped(r)
             /\ Padded(r.file, r.skips) = Padded(acc.file, acc.skips) \o part
<1> DEFINE z == LeadingZeros(part, unit)
           r == SkipOrWrite(acc, part, unit)
           rest == SubSeq(part, z + 1, Len(part))
           file == acc.file
           skips == acc.skips
<1>1. /\ file \in [content : Seq(Nat), gap : Nat] /\ skips \in Nat /\ (skips = 0 => file.gap = 0)
      /\ acc = [file |-> file, skips |-> skips]
  BY DEF IsSkipped
<1>2. /\ Len(part) \in Nat /\ z \in 0..Len(part) /\ \A i \in 1..z : part[i] = 0
  BY LeadingZerosAre, LenProperties
<1>3. r = IF z = Len(part)
          THEN [acc EXCEPT !.skips = skips + z]
          ELSE [file |-> Fwrite(Seek(file, skips + z), rest), skips |-> 0]
  BY DEF SkipOrWrite
<1>4. part = Zeros(z) \o rest /\ rest \in Seq(Nat) /\ (z # Len(part) => rest # <<>>)
  <2>2. z \in Nat /\ z <= Len(part)
    BY <1>2
  <2> HIDE DEF z
  <2>1. Zeros(z) \in Seq(Nat) /\ Len(Zeros(z)) = z /\ \A i \in 1..z : Zeros(z)[i] = 0
    BY <2>2, ZerosAre
  <2>3. IsPiece(Zeros(z), part, 0, z)
    <3>1. \A i \in 1..z : 0 + i = i
      BY <2>2
    <3> QED BY <1>2, <2>1, <2>2, <3>1 DEF IsPiece
  <2>4. IsPiece(rest, part, z, Len(part))
    BY <1>2, <2>2, PartIsPiece
  <2> HIDE DEF rest
  <2>5. IsPiece(Zeros(z) \o rest, part, 0, Len(part))
    BY <2>3, <2>4, PiecesJoin
  <2>6. part = Zeros(z) \o rest
    BY <2>5, WholePiece
  <2>7. rest \in Seq(Nat) /\ Len(rest) = Len(part) - z
    BY <2>4 DEF IsPiece
  <2>8. ASSUME rest = <<>> PROVE z = Len(part)
    <3>1. Len(rest) = 0
      BY <2>8, EmptySeq
    <3> QED BY <1>2, <2>2, <2>7, <3>1
  <2> QED BY <2>6, <2>7, <2>8
<1> HIDE DEF r, rest, z, file, skips
<1>5. z \in Nat /\ skips + z \in Nat
  BY <1>1, <1>2
<1>6. CASE z = Len(part)
  <2>1. r = [file |-> file, skips |-> skips + z]
    BY <1>1, <1>3, <1>6
  <2>2. IsSkipped(r)
    BY <1>1, <1>5, <2>1 DEF IsSkipped
  <2>3. part = Zeros(z)
    <3>1. Len(part) <= z /\ rest = SubSeq(part, z + 1, Len(part))
      BY <1>5, <1>6 DEF rest
    <3>2. rest = <<>>
      BY <1>2, <1>5, <3>1, SubSeqEmpty
    <3>3. Zeros(z) \in Seq(Nat)
      BY <1>5, ZerosAre
    <3> QED BY <1>4, <3>2, <3>3, ConcatEmptySeq
  <2>4. Padded(file, skips + z) = Padded(file, skips) \o Zeros(z)
    BY <1>1, <1>5, PaddedIs
  <2> QED BY <2>1, <2>2, <2>3, <2>4 DEF r, file, skips
<1>7. CASE z # Len(part)
  <2> DEFINE g == Seek(file, skips + z)
             f == Fwrite(g, rest)
  <2>1. r = [file |-> f, skips |-> 0]
    BY <1>3, <1>7
  <2>2. g \in [content : Seq(Nat), gap : Nat] /\ Padded(g, 0) = Padded(file, (skips + z) + 0)
    BY <1>1, <1>5, PaddedIs
  <2> HIDE DEF g
  <2>3. /\ f \in [content : Seq(Nat), gap : Nat] /\ f.gap = 0
        /\ Padded(f, 0) = Padded(g, 0) \o rest
    BY <1>4, <1>7, <2>2, FwriteIs
  <2> HIDE DEF f
  <2>4. IsSkipped(r)
    BY <2>1, <2>3 DEF IsSkipped
  <2>5. Padded(g, 0) = Padded(file, skips) \o Zeros(z)
    <3>1. (skips + z) + 0 = skips + z
      BY <1>5
    <3>2. Padded(file, skips) \o Zeros(z) = Padded(file, skips + z)
      BY <1>1, <1>5, PaddedIs
    <3> QED BY <2>2, <3>1, <3>2
  <2>6. (Padded(file, skips) \o Zeros(z)) \o rest = Padded(file, skips) \o (Zeros(z) \o rest)
    <3> DEFINE a == Padded(file, skips)
               b == Zeros(z)
    <3>1. a \in Seq(Nat) /\ b \in Seq(Nat)
      BY <1>1, <1>5, PaddedIs, ZerosAre
    <3> HIDE DEF a, b
    <3>2. (a \o b) \o rest = a \o (b \o rest)
      BY <1>4, <3>1, ThreeJoin
    <3> QED BY <3>2 DEF a, b
  <2>7. Padded(f, 0) = Padded(file, skips) \o part
    BY <1>4, <2>3, <2>5, <2>6
  <2>8. r.file = f /\ r.skips = 0
    BY <2>1
  <2> QED BY <2>4, <2>7, <2>8 DEF r, file, skips
<1> QED BY <1>6, <1>7

\* The seek that takes a part of a long skip changes nothing of it.
LEMMA LongSkipKept ==
  ASSUME NEW acc, IsSkipped(acc)
  PROVE  LET r == TakeLongSkip(acc)
         IN  IsSkipped(r) /\ Padded(r.file, r.skips) = Padded(acc.file, acc.skips)
<1> DEFINE file == acc.file
           skips == acc.skips
<1>1. /\ file \in [content : Seq(Nat), gap : Nat] /\ skips \in Nat
  BY DEF IsSkipped
<1>2. SkipLimit \in Nat
  BY SparseAssumption
<1>3. CASE skips > SkipLimit
  <2> DEFINE g == Seek(file, SkipLimit)
  <2>1. TakeLongSkip(acc) = [file |-> g, skips |-> skips - SkipLimit]
    BY <1>3 DEF TakeLongSkip
  <2>2. skips - SkipLimit \in Nat /\ skips - SkipLimit > 0 /\ SkipLimit + (skips - SkipLimit) = skips
    BY <1>1, <1>2, <1>3
  <2> HIDE DEF file, skips
  <2>3. /\ g \in [content : Seq(Nat), gap : Nat]
        /\ Padded(g, skips - SkipLimit) = Padded(file, SkipLimit + (skips - SkipLimit))
    BY <1>1, <1>2, <2>2, PaddedIs
  <2> HIDE DEF g
  <2>4. IsSkipped(TakeLongSkip(acc))
    BY <2>1, <2>2, <2>3 DEF IsSkipped
  <2> QED BY <2>1, <2>2, <2>3, <2>4 DEF file, skips
<1>4. CASE ~(skips > SkipLimit)
  BY <1>4 DEF TakeLongSkip
<1> QED BY <1>3, <1>4

\* Where segment k of a block ends.
SegmentEnd(data, k) ==
  LET size == SegmentWords * WordSize
  IN IF k * size <= WholeWords(data) THEN k * size ELSE WholeWords(data)

\* The segments are the whole words of a block, one after the other.
LEMMA SegmentsAre ==
  ASSUME NEW data \in Seq(Nat)
  PROVE  /\ WholeWords(data) \in 0..Len(data)
         /\ Len(Segments(data)) \in Nat
         /\ SegmentEnd(data, 0) = 0
         /\ SegmentEnd(data, Len(Segments(data))) = WholeWords(data)
         /\ \A k \in 1..Len(Segments(data)) :
              IsPiece(Segments(data)[k], data, SegmentEnd(data, k - 1), SegmentEnd(data, k))
<1> DEFINE W == WholeWords(data)
           size == SegmentWords * WordSize
           n == (W + size - 1) \div size
<1>1. Len(data) \in Nat /\ WordSize \in Nat \ {0} /\ SegmentWords \in Nat \ {0}
  BY LenProperties, SparseAssumption
<1>2. W \in 0..Len(data)
  BY <1>1 DEF WholeWords
<1>3. size \in Nat \ {0}
  BY <1>1
<1>4. Segments(data) = [i \in 1..n |-> SubSeq(data, (i - 1) * size + 1, Min({i * size, W}))]
  BY DEF Segments
<1>5. \A k : SegmentEnd(data, k) = IF k * size <= W THEN k * size ELSE W
  BY DEF SegmentEnd
<1> HIDE DEF size, W
<1>6. n \in Nat /\ n * size >= W
  BY <1>2, <1>3
<1>7. ASSUME NEW k \in 1..n PROVE (k - 1) * size < W /\ (k - 1) * size \in Nat /\ k * size = (k - 1) * size + size
  BY <1>2, <1>3, <1>7
<1> HIDE DEF n
<1>8. Len(Segments(data)) = n
  BY <1>4, <1>6
<1>9. SegmentEnd(data, 0) = 0 /\ SegmentEnd(data, n) = W
  <2>1. 0 * size = 0
    BY <1>3
  <2>2. n * size \in Nat
    BY <1>3, <1>6
  <2> QED BY <1>2, <1>5, <1>6, <2>1, <2>2
<1>10. ASSUME NEW k \in 1..n
       PROVE  IsPiece(Segments(data)[k], data, SegmentEnd(data, k - 1), SegmentEnd(data, k))
  <2> DEFINE x == (k - 1) * size
             y == k * size
             z == IF y <= W THEN y ELSE W
  <2>1. x < W /\ x \in Nat /\ y = x + size
    BY <1>7
  <2>2. Segments(data)[k] = SubSeq(data, x + 1, Min({y, W}))
    BY <1>4
  <2>3. SegmentEnd(data, k - 1) = x /\ SegmentEnd(data, k) = z
    BY <1>2, <1>5, <2>1
  <2>4. z = IF y <= W THEN y ELSE W
    OBVIOUS
  <2> HIDE DEF x, y, z
  <2>5. y \in Nat /\ W \in Nat
    BY <1>2, <1>3, <2>1
  <2>6. Min({y, W}) = z
    BY <2>4, <2>5 DEF Min
  <2>7. z \in Nat /\ x <= z /\ z <= Len(data)
    BY <1>1, <1>2, <1>3, <2>1, <2>4, <2>5
  <2>8. IsPiece(SubSeq(data, x + 1, z), data, x, z)
    BY <2>1, <2>7, PartIsPiece
  <2> QED BY <2>2, <2>3, <2>6, <2>8
<1> QED BY <1>2, <1>6, <1>8, <1>9, <1>10 DEF W

\* AIO_fwriteSparse adds the block to what the file will be, whatever it
\* skips of it and however long the skip before it was.
LEMMA SparseWriteAdds ==
  ASSUME NEW file \in [content : Seq(Nat), gap : Nat], NEW skips \in Nat, skips = 0 => file.gap = 0,
         NEW data \in Seq(Nat), NEW holes, ~holes => skips = 0
  PROVE  LET r == fwriteSparse(file, data, holes, skips)
         IN  /\ IsSkipped(r) /\ (~holes => r.skips = 0)
             /\ Padded(r.file, r.skips) = Padded(file, skips) \o data
<1> DEFINE parts == Segments(data)
           n == Len(parts)
           first == TakeLongSkip([file |-> file, skips |-> skips])
           F(f) == [k \in 0..n |-> IF k = 0 THEN first ELSE SkipOrWrite(f[k - 1], parts[k], WordSize)]
           words == CHOOSE f : f = F(f)
           W == WholeWords(data)
           rest == SubSeq(data, W + 1, Len(data))
           r == fwriteSparse(file, data, holes, skips)
           base == Padded(file, skips)
           all == base \o data
           Done(k, acc) == IsSkipped(acc) /\ IsPiece(Padded(acc.file, acc.skips), all, 0, Len(base) + SegmentEnd(data, k))
<1>1. /\ Len(data) \in Nat /\ W \in 0..Len(data) /\ n \in Nat
      /\ SegmentEnd(data, 0) = 0 /\ SegmentEnd(data, n) = W
      /\ \A k \in 1..n : IsPiece(parts[k], data, SegmentEnd(data, k - 1), SegmentEnd(data, k))
  BY SegmentsAre, LenProperties
<1>2. /\ base \in Seq(Nat) /\ all \in Seq(Nat) /\ Len(base) \in Nat /\ Len(all) = Len(base) + Len(data)
      /\ IsPiece(base, all, 0, Len(base))
      /\ IsPiece(data, all, Len(base), Len(all))
  <2>1. base \in Seq(Nat)
    BY PaddedIs
  <2> HIDE DEF base
  <2> QED BY <2>1, FirstPiece, LenProperties
<1>3. r = IF holes THEN IF rest = <<>> THEN words[n] ELSE SkipOrWrite(words[n], rest, 1)
                   ELSE [file |-> Fwrite(file, data), skips |-> 0]
  BY DEF fwriteSparse
<1>4. CASE ~holes
  <2>1. skips = 0 /\ file.gap = 0
    BY <1>4
  <2> DEFINE f == Fwrite(file, data)
  <2>2. f \in [content : Seq(Nat), gap : Nat] /\ f.gap = 0 /\ Padded(f, 0) = Padded(file, 0) \o data
    BY <2>1, FwriteIs
  <2>3. r = [file |-> f, skips |-> 0]
    BY <1>3, <1>4
  <2> HIDE DEF f, r
  <2>4. r.file = f /\ r.skips = 0 /\ IsSkipped(r)
    BY <2>2, <2>3 DEF IsSkipped
  <2> QED BY <2>1, <2>2, <2>4 DEF r
<1>6. ASSUME NEW d, NEW x, NEW y, IsPiece(d, data, x, y)
      PROVE  IsPiece(d, all, Len(base) + x, Len(base) + y)
  <2>1. /\ d \in Seq(Nat) /\ x \in Nat /\ y \in Nat /\ y <= Len(data) /\ Len(d) = y - x
        /\ \A i \in 1..Len(d) : d[i] = data[x + i]
    BY <1>6 DEF IsPiece
  <2>2. \A i \in 1..Len(data) : data[i] = all[Len(base) + i]
    BY <1>2 DEF IsPiece
  <2> HIDE DEF all, base
  <2>3. \A i \in 1..Len(d) : x + i \in 1..Len(data) /\ Len(base) + (x + i) = (Len(base) + x) + i
    <3> SUFFICES ASSUME NEW i \in 1..Len(d)
                 PROVE  x + i \in 1..Len(data) /\ Len(base) + (x + i) = (Len(base) + x) + i
      OBVIOUS
    <3>1. x \in Nat /\ y \in Nat /\ y <= Len(data) /\ Len(d) = y - x /\ Len(data) \in Nat /\ Len(base) \in Nat
      BY <1>1, <1>2, <2>1
    <3> QED BY <3>1
  <2>4. \A i \in 1..Len(d) : d[i] = all[(Len(base) + x) + i]
    BY <2>1, <2>2, <2>3
  <2>5. /\ Len(base) + x \in Nat /\ Len(base) + y \in Nat /\ Len(base) + y <= Len(all)
        /\ Len(d) = (Len(base) + y) - (Len(base) + x)
    BY <1>1, <1>2, <2>1
  <2> QED BY <2>1, <2>4, <2>5 DEF IsPiece
<1>7. ASSUME NEW acc, NEW part, NEW unit \in Nat \ {0}, NEW x, NEW y, IsSkipped(acc),
             IsPiece(Padded(acc.file, acc.skips), all, 0, Len(base) + x), IsPiece(part, data, x, y)
      PROVE  LET s == SkipOrWrite(acc, part, unit)
             IN  IsSkipped(s) /\ IsPiece(Padded(s.file, s.skips), all, 0, Len(base) + y)
  <2> DEFINE s == SkipOrWrite(acc, part, unit)
  <2>1. part \in Seq(Nat) /\ IsPiece(part, all, Len(base) + x, Len(base) + y)
    <3>1. part \in Seq(Nat)
      BY <1>7 DEF IsPiece
    <3> HIDE DEF all, base
    <3> QED BY <1>6, <1>7, <3>1
  <2>2. IsSkipped(s) /\ Padded(s.file, s.skips) = Padded(acc.file, acc.skips) \o part
    BY <1>7, <2>1, SkipOrWriteAdds
  <2> HIDE DEF s, all, base
  <2>3. IsPiece(Padded(acc.file, acc.skips) \o part, all, 0, Len(base) + y)
    BY <1>2, <1>7, <2>1, PiecesJoin
  <2> QED BY <2>2, <2>3 DEF s
<1>8. Done(0, first)
  <2> DEFINE start == [file |-> file, skips |-> skips]
  <2>1. IsSkipped(start) /\ start.file = file /\ start.skips = skips
    BY DEF IsSkipped
  <2> HIDE DEF start
  <2>2. IsSkipped(first) /\ Padded(first.file, first.skips) = base
    BY <2>1, LongSkipKept DEF start
  <2>3. Len(base) + SegmentEnd(data, 0) = Len(base)
    BY <1>1, <1>2
  <2> QED BY <1>2, <2>2, <2>3
<1>9. ASSUME NEW k \in 1..n, NEW acc, Done(k - 1, acc) PROVE Done(k, SkipOrWrite(acc, parts[k], WordSize))
  <2>1. IsPiece(parts[k], data, SegmentEnd(data, k - 1), SegmentEnd(data, k)) /\ WordSize \in Nat \ {0}
    BY <1>1, SparseAssumption
  <2> HIDE DEF parts, all, base
  <2> QED BY <1>7, <1>9, <2>1
<1>10. Done(n, words[n])
  <2> DEFINE V == {acc \in [file : [content : Seq(Nat), gap : Nat], skips : Nat] : IsSkipped(acc)}
             step == [k \in 1..n |-> [a \in V |-> SkipOrWrite(a, parts[k], WordSize)]]
  <2>1. \A acc : acc \in V <=> IsSkipped(acc)
    BY DEF IsSkipped
  <2>2. first \in V
    BY <1>8, <2>1
  <2>3. ASSUME NEW k \in 1..n, NEW a \in V PROVE SkipOrWrite(a, parts[k], WordSize) \in V
    <3>1. IsSkipped(a) /\ parts[k] \in Seq(Nat) /\ WordSize \in Nat \ {0}
      BY <1>1, <2>1, SparseAssumption DEF IsPiece
    <3> HIDE DEF V, parts
    <3> QED BY <2>1, <3>1, SkipOrWriteAdds
  <2>4. step \in [1..n -> [V -> V]]
    <3> HIDE DEF V, n, parts
    <3> QED BY <2>3
  <2>5. PICK h : Data!IsRecursion(h, n, V, first, step)
    <3> HIDE DEF V, step, first, n
    <3> QED BY <1>1, <2>2, <2>4, Data!RecursionExists
  <2>6. h \in [0..n -> V] /\ h[0] = first /\ \A k \in 1..n : h[k] = step[k][h[k - 1]]
    <3> HIDE DEF V, step, first, n
    <3> QED BY <2>5 DEF Data!IsRecursion
  <2>7. \A k \in 1..n : h[k] = SkipOrWrite(h[k - 1], parts[k], WordSize)
    <3> SUFFICES ASSUME NEW k \in 1..n PROVE h[k] = SkipOrWrite(h[k - 1], parts[k], WordSize)
      OBVIOUS
    <3>1. k - 1 \in 0..n
      BY <1>1
    <3>2. h[k - 1] \in V
      <4> HIDE DEF V, n, first, step
      <4> QED BY <2>6, <3>1
    <3>3. step[k][h[k - 1]] = SkipOrWrite(h[k - 1], parts[k], WordSize)
      <4> HIDE DEF V, n, parts
      <4> QED BY <3>2
    <3> QED BY <2>6, <3>3
  <2>8. h = F(h)
    <3> HIDE DEF V, first, n, parts, step
    <3>1. DOMAIN h = 0..n /\ h = [k \in 0..n |-> h[k]]
      BY <2>6
    <3>2. \A k \in 0..n : h[k] = IF k = 0 THEN first ELSE SkipOrWrite(h[k - 1], parts[k], WordSize)
      <4> SUFFICES ASSUME NEW k \in 0..n, k # 0 PROVE h[k] = SkipOrWrite(h[k - 1], parts[k], WordSize)
        BY <2>6
      <4>1. k \in 1..n
        BY <1>1
      <4> QED BY <2>7, <4>1
    <3> QED BY <3>1, <3>2
  <2>9. words = F(words)
    <3> HIDE DEF F
    <3> QED BY <2>8
  <2> HIDE DEF words
  <2>10. /\ words[0] = first
         /\ \A k \in 1..n : words[k] = SkipOrWrite(words[k - 1], parts[k], WordSize)
    <3> HIDE DEF first, n, parts
    <3>1. 0 \in 0..n /\ \A k \in 1..n : k \in 0..n /\ k # 0
      BY <1>1
    <3>2. \A k \in 0..n : words[k] = IF k = 0 THEN first ELSE SkipOrWrite(words[k - 1], parts[k], WordSize)
      BY <2>9
    <3> QED BY <3>1, <3>2
  <2> DEFINE S == {k \in 0..n : Done(k, words[k])}
  <2>11. 0 \in S
    <3> HIDE DEF Done, first, n
    <3>1. 0 \in 0..n
      BY <1>1
    <3> QED BY <1>8, <2>10, <3>1
  <2>12. \A k \in 0..(n - 1) : k \in S => k + 1 \in S
    <3> HIDE DEF Done, first, n, parts
    <3> SUFFICES ASSUME NEW k \in 0..(n - 1), k \in S PROVE k + 1 \in S
      OBVIOUS
    <3>1. k + 1 \in 1..n /\ k + 1 \in 0..n /\ (k + 1) - 1 = k
      BY <1>1
    <3>2. Done(k, words[k])
      OBVIOUS
    <3>3. Done(k + 1, SkipOrWrite(words[k], parts[k + 1], WordSize))
      BY <1>9, <3>1, <3>2
    <3>4. words[k + 1] = SkipOrWrite(words[k], parts[k + 1], WordSize)
      BY <2>10, <3>1
    <3> QED BY <3>1, <3>3, <3>4
  <2> HIDE DEF S, n
  <2>13. 0..n \subseteq S
    BY <1>1, <2>11, <2>12, Data!IntervalInduction
  <2>14. n \in S
    BY <1>1, <2>13
  <2> HIDE DEF Done
  <2> QED BY <2>14 DEF S
<1>11. CASE holes
  <2> DEFINE whole == words[n]
  <2>1. IsSkipped(whole) /\ IsPiece(Padded(whole.file, whole.skips), all, 0, Len(base) + W)
    BY <1>1, <1>10
  <2>2. IsPiece(rest, data, W, Len(data))
    BY <1>1, PartIsPiece
  <2>3. r = IF rest = <<>> THEN whole ELSE SkipOrWrite(whole, rest, 1)
    BY <1>3, <1>11
  <2> HIDE DEF r, whole, rest, all, base
  <2>4. IsSkipped(r) /\ IsPiece(Padded(r.file, r.skips), all, 0, Len(all))
    <3>1. CASE rest = <<>>
      <4>1. Len(rest) = 0
        BY <3>1, EmptySeq
      <4>2. W = Len(data)
        <5>1. Len(rest) = Len(data) - W
          BY <2>2 DEF IsPiece
        <5> HIDE DEF W
        <5> QED BY <1>1, <4>1, <5>1
      <4> QED BY <1>2, <2>1, <2>3, <3>1, <4>2
    <3>2. CASE rest # <<>>
      <4>1. /\ IsSkipped(SkipOrWrite(whole, rest, 1))
            /\ IsPiece(Padded(SkipOrWrite(whole, rest, 1).file, SkipOrWrite(whole, rest, 1).skips), all, 0,
                       Len(base) + Len(data))
        BY <1>7, <2>1, <2>2
      <4> QED BY <1>2, <2>3, <3>2, <4>1
    <3> QED BY <3>1, <3>2
  <2>5. Padded(r.file, r.skips) = all
    BY <1>2, <2>4, WholePiece
  <2> QED BY <1>11, <2>4, <2>5 DEF r, all, base
<1> QED BY <1>4, <1>11

\* AIO_fwriteSparseEnd leaves nothing to skip.
LEMMA SparseWriteEnds ==
  ASSUME NEW file \in [content : Seq(Nat), gap : Nat], NEW skips \in Nat, skips = 0 => file.gap = 0
  PROVE  LET r == fwriteSparseEnd(file, skips)
         IN  /\ r \in [content : Seq(Nat), gap : Nat] /\ r.gap = 0
             /\ r.content = Padded(file, skips) /\ Padded(r, 0) = Padded(file, skips)
<1> DEFINE r == fwriteSparseEnd(file, skips)
<1>1. ASSUME NEW f \in [content : Seq(Nat), gap : Nat], f.gap = 0 PROVE Padded(f, 0) = f.content
  <2>1. Zeros(0) = <<>> /\ 0 + 0 = 0
    BY DEF Zeros
  <2> QED BY <1>1, <2>1, ConcatEmptySeq DEF Padded
<1>2. CASE skips = 0
  <2>1. r = file /\ file.gap = 0
    BY <1>2 DEF fwriteSparseEnd
  <2> QED BY <1>1, <1>2, <2>1
<1>3. CASE skips > 0
  <2> DEFINE g == Seek(file, skips - 1)
             f == Fwrite(g, <<0>>)
  <2>1. r = f
    BY <1>3 DEF fwriteSparseEnd
  <2> DEFINE k == skips - 1
  <2>2. k \in Nat /\ k + 0 = k /\ k + 1 = skips
    BY <1>3
  <2> HIDE DEF k
  <2>3. g \in [content : Seq(Nat), gap : Nat] /\ Padded(g, 0) = Padded(file, k)
    <3>1. g \in [content : Seq(Nat), gap : Nat] /\ Padded(g, 0) = Padded(file, k + 0)
      <4>1. g = Seek(file, k)
        BY DEF k
      <4>2. k \in Nat /\ 0 \in Nat
        BY <2>2
      <4>3. Seek(file, k) \in [content : Seq(Nat), gap : Nat] /\ Padded(Seek(file, k), 0) = Padded(file, k + 0)
        BY <4>2, PaddedIs
      <4> HIDE DEF g
      <4> QED BY <4>1, <4>3
    <3> QED BY <2>2, <3>1
  <2>4. <<0>> \in Seq(Nat) /\ <<0>> # <<>> /\ <<0>> = Zeros(1)
    BY DEF Zeros
  <2> HIDE DEF g
  <2>5. /\ f \in [content : Seq(Nat), gap : Nat] /\ f.gap = 0
        /\ Padded(f, 0) = Padded(g, 0) \o <<0>>
    BY <2>3, <2>4, FwriteIs
  <2>6. Padded(file, k) \o Zeros(1) = Padded(file, k + 1)
    <3>1. 1 \in Nat
      OBVIOUS
    <3> QED BY <2>2, <3>1, PaddedIs
  <2>7. Padded(f, 0) = Padded(file, skips)
    BY <2>2, <2>3, <2>4, <2>5, <2>6
  <2> HIDE DEF f
  <2> QED BY <1>1, <2>1, <2>5, <2>7 DEF r
<1> QED BY <1>2, <1>3

-----------------------------------------------------------------------------
(***************************************************************************)
(* What is copied.                                                         *)
(***************************************************************************)

\* Where the source buffer's bytes are.
buffer == IF srcBuffer.job = NoIOJob THEN coalesceBuffer ELSE readJob[srcBuffer.job].data

\* The places of the main thread between the opening of a source and the first
\* look at it, and those where it fills the buffer.
BeforeCopy == {"start", "startAdd", "fill", "release", "reacquire", "readAdd", "next", "magic"}
Filling == {"release", "reacquire", "readAdd", "next"}

\* What is loaded is what the source has before the place that is read next,
\* and it stays where it is until it is used.
LoadedInv ==
  /\ coalesceBuffer \in Seq(Nat)
  /\ srcBuffer.loaded <= waitingOnOffset
  /\ srcBuffer.loaded > 0 =>
       /\ srcBuffer.from + srcBuffer.loaded = Len(buffer)
       /\ srcBuffer.job # NoIOJob => held = srcBuffer.job
       /\ \A i \in 1..srcBuffer.loaded :
            buffer[srcBuffer.from + i] = src.content[(waitingOnOffset - srcBuffer.loaded) + i]
  /\ pc \in Filling /\ srcBuffer.loaded > 0 => srcBuffer.job = NoIOJob /\ srcBuffer.from = 0
  /\ writeJob = NoIOJob /\ pc \in BeforeCopy => waitingOnOffset = srcBuffer.loaded

\* Nothing that is loaded changes.
LEMMA SameLoaded ==
  ASSUME LoadedInv, srcBuffer' = srcBuffer, coalesceBuffer' = coalesceBuffer,
         waitingOnOffset' = waitingOnOffset, src'.content = src.content,
         srcBuffer.loaded > 0 /\ srcBuffer.job # NoIOJob =>
           held' = held /\ readJob'[srcBuffer.job].data = readJob[srcBuffer.job].data,
         pc' \in Filling => pc \in Filling,
         writeJob' = NoIOJob /\ pc' \in BeforeCopy => writeJob = NoIOJob /\ pc \in BeforeCopy
  PROVE  LoadedInv'
<1>1. srcBuffer.loaded > 0 => buffer' = buffer
  BY DEF buffer
<1>2. srcBuffer.loaded > 0 =>
       /\ srcBuffer'.from + srcBuffer'.loaded = Len(buffer')
       /\ srcBuffer'.job # NoIOJob => held' = srcBuffer'.job
       /\ \A i \in 1..srcBuffer'.loaded :
            buffer'[srcBuffer'.from + i] = src'.content[(waitingOnOffset' - srcBuffer'.loaded) + i]
  BY <1>1 DEF LoadedInv
<1>3. /\ coalesceBuffer' \in Seq(Nat)
      /\ srcBuffer'.loaded <= waitingOnOffset'
      /\ pc' \in Filling /\ srcBuffer'.loaded > 0 => srcBuffer'.job = NoIOJob /\ srcBuffer'.from = 0
      /\ writeJob' = NoIOJob /\ pc' \in BeforeCopy => waitingOnOffset' = srcBuffer'.loaded
  BY DEF LoadedInv
<1> QED BY <1>2, <1>3 DEF LoadedInv, Filling, BeforeCopy

\* The place that is read next is one of the file.
LEMMA ReadPlace ==
  ASSUME ReadOrderInv
  PROVE  /\ waitingOnOffset \in Nat /\ waitingOnOffset <= Len(src.content)
         /\ src.content \in Seq(Nat) /\ Len(src.content) \in Nat
<1>1. PICK t \in Nat, n \in Nat : ReadOrder(t, n) /\ ReadAhead(t, n)
  BY DEF ReadOrderInv
<1>2. src.content \in Seq(Nat) /\ Len(src.content) \in Nat
  BY LenProperties DEF ReadOrderInv
<1>3. Off(t) \in Nat /\ waitingOnOffset = UpTo(src.content, Off(t))
  BY <1>1, Offsets DEF ReadOrder
<1> QED BY <1>2, <1>3 DEF UpTo

\* The first bytes that are loaded.
LEMMA LoadedIsPiece ==
  ASSUME ReadOrderInv, BufferInv, LoadedInv, NEW n \in 0..srcBuffer.loaded, srcBuffer.loaded > 0
  PROVE  IsPiece(Loaded(n), src.content, waitingOnOffset - srcBuffer.loaded,
                 (waitingOnOffset - srcBuffer.loaded) + n)
<1> DEFINE from == srcBuffer.from
           loaded == srcBuffer.loaded
           x == waitingOnOffset - loaded
           c == src.content
<1>1. /\ from \in Nat /\ loaded \in Nat /\ srcBuffer.job \in JobIds \union {NoIOJob}
  BY DEF BufferInv
<1>2. /\ waitingOnOffset \in Nat /\ waitingOnOffset <= Len(c) /\ c \in Seq(Nat) /\ Len(c) \in Nat
  BY ReadPlace
<1>3. buffer \in Seq(Nat)
  BY <1>1 DEF buffer, LoadedInv, ReadOrderInv
<1>4. from + loaded = Len(buffer) /\ loaded <= waitingOnOffset
      /\ \A i \in 1..loaded : buffer[from + i] = c[x + i]
  BY DEF LoadedInv
<1>5. Loaded(n) = SubSeq(buffer, from + 1, from + n)
  BY DEF Loaded, buffer
<1> HIDE DEF from, loaded, c, x
<1>6. n \in Nat /\ n <= loaded
  BY <1>1 DEF loaded
<1>7. IsPiece(Loaded(n), buffer, from, from + n)
  <2>1. from + n \in Nat /\ from <= from + n /\ from + n <= Len(buffer)
    BY <1>1, <1>4, <1>6
  <2> QED BY <1>1, <1>3, <1>5, <2>1, PartIsPiece
<1>8. /\ Loaded(n) \in Seq(Nat) /\ Len(Loaded(n)) = n
      /\ \A i \in 1..n : Loaded(n)[i] = buffer[from + i]
  <2>1. /\ Loaded(n) \in Seq(Nat) /\ Len(Loaded(n)) = (from + n) - from
        /\ \A i \in 1..Len(Loaded(n)) : Loaded(n)[i] = buffer[from + i]
    BY <1>7 DEF IsPiece
  <2> QED BY <1>1, <1>6, <2>1
<1>9. x \in Nat /\ x + n \in Nat /\ x + n <= Len(c) /\ (x + n) - x = n
  BY <1>1, <1>2, <1>4, <1>6 DEF x
<1>10. \A i \in 1..n : Loaded(n)[i] = c[x + i]
  BY <1>1, <1>4, <1>6, <1>8
<1>11. IsPiece(Loaded(n), c, x, x + n)
  BY <1>8, <1>9, <1>10 DEF IsPiece
<1> QED BY <1>11 DEF c, x, loaded

\* The loaded bytes stay those of the source.
LEMMA LoadedStays ==
  ASSUME CopyInvs, LoadedInv, CopyNext \/ UNCHANGED copyVars
  PROVE  LoadedInv'
<1> DEFINE b == srcBuffer
<1> USE DEF Filling, BeforeCopy
<1>1. /\ JobsInvs /\ MainInv /\ ReadOwnInv /\ ReaderInv /\ ReadOrderInv /\ BufferInv
  BY DEF CopyInvs, JobsInvs
<1>2. /\ b \in [job : JobIds \union {NoIOJob}, from : Nat, loaded : Nat]
      /\ readJob \in [JobIds -> [offset : Nat, data : Seq(Nat)]]
      /\ src \in [content : Seq(Nat), pos : Nat]
  BY <1>1 DEF BufferInv, ReadOrderInv
<1>3. /\ waitingOnOffset \in Nat /\ waitingOnOffset <= Len(src.content)
      /\ src.content \in Seq(Nat) /\ Len(src.content) \in Nat
  BY <1>1, ReadPlace
<1>4. CASE OpenSource \/ CloseSource
  <2>1. /\ srcBuffer' = EmptyBuffer /\ waitingOnOffset' = 0 /\ coalesceBuffer' = coalesceBuffer
        /\ pc' \notin Filling
    BY <1>4 DEF OpenSource, CloseSource, SetSource
  <2> QED BY <2>1 DEF LoadedInv, EmptyBuffer
<1>5. CASE StartRead \/ NextRead
  <2>1. b.loaded > 0 /\ b.job # NoIOJob => FALSE
    BY <1>1, <1>5 DEF StartRead, NextRead, BufferInv, LoadedInv
  <2> QED BY <1>5, <2>1, SameLoaded DEF StartRead, NextRead, AcquireRead, buffers
<1>6. CASE AddStartRead \/ AddNextRead
  <2>1. b.loaded > 0 /\ b.job # NoIOJob => FALSE
    BY <1>1, <1>6 DEF AddStartRead, AddNextRead, BufferInv, LoadedInv
  <2>2. src'.content = src.content
    BY <1>1, <1>6, EofStays DEF AddStartRead, AddNextRead, OpenSource, CloseSource, CopyNext, MainStep
  <2> QED BY <1>6, <2>1, <2>2, SameLoaded DEF AddStartRead, AddNextRead, EnqueueRead, buffers, rOffsets
<1>7. CASE OpenDestination \/ EmptySource \/ CopyBlock \/ EndSparse \/ CloseDestination \/ FillIsEnough \/ EndCopy
           \/ NothingHeld \/ SourceIsOver
  <2>1. UNCHANGED <<readVars, buffers>> /\ (writeJob' = writeJob \/ pc' = "endSparse")
    BY <1>7 DEF OpenDestination, EmptySource, CopyBlock, EndSparse, CloseDestination, FillIsEnough, EndCopy,
       NothingHeld, SourceIsOver, NoMoreReads, jobs, readVars
  <2>2. /\ pc' \in Filling => pc \in Filling
        /\ pc' \in BeforeCopy => pc \in BeforeCopy
    BY <1>7 DEF OpenDestination, EmptySource, CopyBlock, EndSparse, CloseDestination, FillIsEnough, EndCopy,
       NothingHeld, SourceIsOver, AfterFill
  <2> QED BY <2>1, <2>2, SameLoaded DEF readVars, buffers, rOffsets
<1>8. CASE ReleaseRead
  <2>1. b.loaded > 0 /\ b.job # NoIOJob => FALSE
    BY <1>1, <1>8 DEF ReleaseRead, BufferInv, LoadedInv
  <2> QED BY <1>8, <2>1, SameLoaded DEF ReleaseRead, ReleaseHeld, buffers, jobs, rOffsets
<1>9. CASE WaitForRead \/ MainWakesForNothing \/ WriterRuns \/ CopyIsDone \/ UNCHANGED copyVars
  <2>1. /\ pc' = pc /\ writeJob' = writeJob /\ srcBuffer' = srcBuffer /\ coalesceBuffer' = coalesceBuffer
        /\ waitingOnOffset' = waitingOnOffset /\ src' = src /\ held' = held /\ readJob' = readJob
    BY <1>9 DEF WaitForRead, WaitForCompleted, MainWakesForNothing, ConsumerWakesForNothing, WriterRuns,
       CopyIsDone, copyVars, mainVars, jobs, buffers, rOffsets, readVars
  <2> QED BY <2>1, SameLoaded
<1>10. CASE ReaderRuns
  <2>1. /\ pc' = pc /\ writeJob' = writeJob /\ srcBuffer' = srcBuffer /\ coalesceBuffer' = coalesceBuffer
        /\ waitingOnOffset' = waitingOnOffset /\ held' = held
    BY <1>10 DEF ReaderRuns, ReaderStep, ReaderStarts, ReaderReads, ReaderCompletes, ReaderEnds, mainVars,
       jobs, buffers, rOffsets
  <2>2. src'.content = src.content
    <3>1. ~(OpenSource \/ CloseSource)
      BY <2>1 DEF OpenSource, CloseSource
    <3> QED BY <1>1, <3>1, EofStays
  <2>3. ASSUME held # NoIOJob PROVE readJob'[held] = readJob[held]
    <3>1. CASE rStage = "read"
      <4>1. rStarted \in rFirst..rAccepted
        BY <1>1, <3>1 DEF rFirst, ReaderInv
      <4>2. rQueued[rStarted] \in rFlying
        BY <4>1 DEF rFlying
      <4>3. held \in JobIds /\ held # rQueued[rStarted]
        BY <1>1, <2>3, <4>2, PlacesOfReads
      <4> QED BY <1>2, <1>10, <4>3 DEF ReaderRuns, ReaderStep, ReaderStarts, ReaderReads, ReaderCompletes,
           ReaderEnds, Fread
    <3>2. CASE rStage # "read"
      BY <1>10, <3>2 DEF ReaderRuns, ReaderStep, ReaderStarts, ReaderReads, ReaderCompletes, ReaderEnds
    <3> QED BY <3>1, <3>2
  <2>4. b.loaded > 0 /\ b.job # NoIOJob => held = b.job
    BY DEF LoadedInv
  <2> QED BY <2>1, <2>2, <2>3, <2>4, SameLoaded
<1>11. CASE Coalesce
  <2>1. /\ pc = "fill" /\ pc' = "release" /\ writeJob' = writeJob /\ UNCHANGED readVars
        /\ b.loaded > 0 => coalesceBuffer' = Loaded(b.loaded) /\ srcBuffer' = [EmptyBuffer EXCEPT !.loaded = b.loaded]
        /\ ~(b.loaded > 0) => UNCHANGED buffers
    BY <1>11 DEF Coalesce, jobs
  <2>2. waitingOnOffset' = waitingOnOffset /\ src' = src
    BY <2>1 DEF readVars, rOffsets
  <2>3. CASE b.loaded > 0
    <3> DEFINE n == b.loaded
               x == waitingOnOffset - n
    <3>1. n \in Nat /\ n \in 0..n /\ x \in Nat /\ n <= waitingOnOffset
      BY <1>2, <1>3, <2>3 DEF LoadedInv
    <3>2. IsPiece(coalesceBuffer', src.content, x, x + n)
      <4>1. IsPiece(Loaded(n), src.content, x, x + n)
        BY <1>1, <2>3, <3>1, LoadedIsPiece
      <4> QED BY <2>1, <2>3, <4>1
    <3>3. srcBuffer' = [job |-> NoIOJob, from |-> 0, loaded |-> n]
      BY <2>1, <2>3 DEF EmptyBuffer
    <3> HIDE DEF n, x
    <3>4. /\ coalesceBuffer' \in Seq(Nat) /\ Len(coalesceBuffer') = n
          /\ \A i \in 1..n : coalesceBuffer'[0 + i] = src.content[x + i]
      <4>1. /\ coalesceBuffer' \in Seq(Nat) /\ Len(coalesceBuffer') = (x + n) - x
            /\ \A i \in 1..Len(coalesceBuffer') : coalesceBuffer'[i] = src.content[x + i]
        BY <3>2 DEF IsPiece
      <4>2. Len(coalesceBuffer') = n
        BY <3>1, <4>1
      <4>3. \A i \in 1..n : 0 + i = i
        BY <3>1
      <4> QED BY <4>1, <4>2, <4>3
    <3>5. buffer' = coalesceBuffer' /\ srcBuffer'.from = 0 /\ srcBuffer'.loaded = n /\ srcBuffer'.job = NoIOJob
      BY <3>3 DEF buffer
    <3>6. waitingOnOffset' - srcBuffer'.loaded = x
      BY <2>2, <3>5 DEF x
    <3>7. writeJob' = NoIOJob => waitingOnOffset' = srcBuffer'.loaded
      BY <2>1, <2>2, <3>5 DEF LoadedInv, n
    <3> QED BY <2>2, <3>1, <3>4, <3>5, <3>6, <3>7 DEF LoadedInv
  <2>4. CASE ~(b.loaded > 0)
    <3>1. srcBuffer' = srcBuffer /\ coalesceBuffer' = coalesceBuffer
      BY <2>1, <2>4 DEF buffers
    <3> QED BY <2>1, <2>2, <2>4, <3>1 DEF LoadedInv
  <2> QED BY <2>3, <2>4
<1>12. CASE BeginCopy \/ ConsumeBlock
  <2>1. /\ pc \in {"magic", "consume"} /\ pc' = "fill" /\ UNCHANGED readVars /\ coalesceBuffer' = coalesceBuffer
        /\ writeJob' = TopJob(wAvailable)
    BY <1>12 DEF BeginCopy, ConsumeBlock, buffers
  <2>2. writeJob' # NoIOJob
    <3>1. TopJob(wAvailable) \in JobIds
      BY <1>1, <2>1, WriteJobIsThere DEF JobsInvs
    <3> QED BY <2>1, <3>1, IOPoolAssumption DEF JobIds
  <2>3. CASE BeginCopy
    BY <2>1, <2>2, <2>3, SameLoaded DEF BeginCopy, buffers, readVars, rOffsets
  <2>4. CASE ConsumeBlock
    <3> DEFINE w == WriteSize
    <3>1. srcBuffer' = [b EXCEPT !.from = b.from + w, !.loaded = b.loaded - w]
      BY <2>4 DEF ConsumeBlock
    <3>2. w \in 0..b.loaded /\ b.loaded \in Nat /\ b.from \in Nat
      BY <1>2, BlockToWrite
    <3> HIDE DEF w
    <3>3. /\ srcBuffer'.job = b.job /\ srcBuffer'.from = b.from + w /\ srcBuffer'.loaded = b.loaded - w
      BY <1>2, <3>1
    <3>4. buffer' = buffer /\ held' = held /\ waitingOnOffset' = waitingOnOffset /\ src' = src
      BY <2>1, <3>3 DEF buffer, readVars, rOffsets
    <3>5. srcBuffer'.loaded <= waitingOnOffset'
      BY <1>3, <3>2, <3>3, <3>4 DEF LoadedInv
    <3>6. ASSUME srcBuffer'.loaded > 0
          PROVE  /\ srcBuffer'.from + srcBuffer'.loaded = Len(buffer')
                 /\ srcBuffer'.job # NoIOJob => held' = srcBuffer'.job
                 /\ \A i \in 1..srcBuffer'.loaded :
                      buffer'[srcBuffer'.from + i] = src'.content[(waitingOnOffset' - srcBuffer'.loaded) + i]
      <4>1. b.loaded > 0
        BY <3>2, <3>3, <3>6
      <4>2. /\ b.from + b.loaded = Len(buffer) /\ (b.job # NoIOJob => held = b.job)
            /\ b.loaded <= waitingOnOffset
            /\ \A i \in 1..b.loaded : buffer[b.from + i] = src.content[(waitingOnOffset - b.loaded) + i]
        BY <4>1 DEF LoadedInv
      <4>3. srcBuffer'.from + srcBuffer'.loaded = Len(buffer')
        BY <3>2, <3>3, <3>4, <4>2
      <4>4. ASSUME NEW i \in 1..(b.loaded - w)
            PROVE  buffer[(b.from + w) + i] = src.content[(waitingOnOffset - (b.loaded - w)) + i]
        <5>1. w + i \in 1..b.loaded /\ (b.from + w) + i = b.from + (w + i)
              /\ (waitingOnOffset - (b.loaded - w)) + i = (waitingOnOffset - b.loaded) + (w + i)
          BY <1>3, <3>2
        <5> QED BY <4>2, <5>1
      <4> QED BY <3>3, <3>4, <4>2, <4>3, <4>4
    <3> QED BY <2>1, <2>2, <3>5, <3>6 DEF LoadedInv
  <2> QED BY <1>12, <2>3, <2>4
<1>13. CASE LoadRead
  <2>1. PICK j \in NextCompleted :
          /\ TakeCompleted(j)
          /\ IF b.loaded > 0
             THEN /\ coalesceBuffer' = coalesceBuffer \o readJob[j].data
                  /\ srcBuffer' = [b EXCEPT !.loaded = @ + Len(readJob[j].data)]
             ELSE /\ srcBuffer' = [job |-> j, from |-> 0, loaded |-> Len(readJob[j].data)]
                  /\ coalesceBuffer' = coalesceBuffer
    BY <1>13 DEF LoadRead
  <2> DEFINE d == readJob[j].data
             c == src.content
             w == waitingOnOffset
  <2>2. /\ j \in JobIds /\ d \in Seq(Nat) /\ Len(d) \in Nat /\ w + Len(d) <= Len(c)
        /\ d = SubSeq(c, w + 1, w + Len(d))
    BY <1>1, TakenRead, LenProperties
  <2>3. /\ held' = j /\ readJob' = readJob /\ src' = src /\ waitingOnOffset' = w + Len(d)
    BY <2>1 DEF TakeCompleted
  <2>4. pc = "next" /\ pc' \in {"magic", "copy"} /\ writeJob' = writeJob
    BY <1>13 DEF LoadRead, AfterFill, jobs
  <2>5. c \in Seq(Nat) /\ w \in Nat /\ w + Len(d) \in Nat /\ w <= w + Len(d)
    BY <1>3, <2>2
  <2> HIDE DEF d, c, w
  <2>6. IsPiece(d, c, w, w + Len(d))
    BY <2>2, <2>5, PartIsPiece
  <2>7. CASE b.loaded > 0
    <3> DEFINE n == b.loaded
    <3>1. n \in Nat /\ b.job = NoIOJob /\ b.from = 0 /\ n <= w /\ buffer = coalesceBuffer
          /\ 0 + n = Len(coalesceBuffer) /\ coalesceBuffer \in Seq(Nat)
          /\ \A i \in 1..n : coalesceBuffer[0 + i] = c[(w - n) + i]
      <4>1. b.job = NoIOJob /\ b.from = 0
        BY <2>4, <2>7 DEF LoadedInv
      <4> QED BY <1>2, <2>7, <4>1 DEF LoadedInv, buffer, w, c
    <3>2. srcBuffer' = [job |-> NoIOJob, from |-> 0, loaded |-> n + Len(d)] /\ coalesceBuffer' = coalesceBuffer \o d
      <4>1. srcBuffer' = [b EXCEPT !.loaded = b.loaded + Len(d)]
        BY <2>1, <2>7 DEF d
      <4>2. b = [job |-> b.job, from |-> b.from, loaded |-> b.loaded]
        BY <1>2
      <4> QED BY <2>1, <2>7, <3>1, <4>1, <4>2 DEF d
    <3> HIDE DEF n
    <3>3. IsPiece(coalesceBuffer, c, w - n, w)
      <4>1. \A i \in 1..n : 0 + i = i
        BY <3>1
      <4>2. \A i \in 1..n : coalesceBuffer[i] = c[(w - n) + i]
        BY <3>1, <4>1
      <4>3. Len(coalesceBuffer) = w - (w - n) /\ w - n \in Nat /\ Len(coalesceBuffer) = n
        BY <2>5, <3>1
      <4>4. w <= Len(c)
        BY <1>3 DEF w, c
      <4> QED BY <2>5, <3>1, <4>2, <4>3, <4>4 DEF IsPiece
    <3>4. IsPiece(coalesceBuffer \o d, c, w - n, w + Len(d))
      BY <2>5, <2>6, <3>3, PiecesJoin
    <3>5. /\ coalesceBuffer' \in Seq(Nat) /\ Len(coalesceBuffer') = n + Len(d)
          /\ \A i \in 1..(n + Len(d)) : coalesceBuffer'[0 + i] = c[(w - n) + i]
      <4>1. /\ coalesceBuffer' \in Seq(Nat) /\ Len(coalesceBuffer') = (w + Len(d)) - (w - n)
            /\ \A i \in 1..Len(coalesceBuffer') : coalesceBuffer'[i] = c[(w - n) + i]
        BY <3>2, <3>4 DEF IsPiece
      <4>2. Len(coalesceBuffer') = n + Len(d)
        BY <2>2, <2>5, <3>1, <4>1
      <4>3. \A i \in 1..(n + Len(d)) : 0 + i = i
        BY <2>2, <3>1
      <4> QED BY <4>1, <4>2, <4>3
    <3>6. /\ srcBuffer'.job = NoIOJob /\ srcBuffer'.from = 0 /\ srcBuffer'.loaded = n + Len(d)
          /\ buffer' = coalesceBuffer'
      BY <3>2 DEF buffer
    <3>7. waitingOnOffset' - srcBuffer'.loaded = w - n /\ srcBuffer'.loaded <= waitingOnOffset'
          /\ 0 + (n + Len(d)) = n + Len(d)
      BY <2>2, <2>3, <2>5, <3>1, <3>6
    <3>8. writeJob' # NoIOJob
      BY <1>1, <2>4, <2>7, <1>2 DEF BufferInv
    <3>9. src'.content = c
      BY <2>3 DEF c
    <3> QED BY <2>4, <3>5, <3>6, <3>7, <3>8, <3>9 DEF LoadedInv
  <2>8. CASE ~(b.loaded > 0)
    <3>1. srcBuffer' = [job |-> j, from |-> 0, loaded |-> Len(d)] /\ coalesceBuffer' = coalesceBuffer
      BY <2>1, <2>8 DEF d
    <3>2. /\ srcBuffer'.job = j /\ srcBuffer'.from = 0 /\ srcBuffer'.loaded = Len(d)
      BY <3>1
    <3>3. j # NoIOJob
      BY <2>2, IOPoolAssumption DEF JobIds
    <3>4. buffer' = d
      BY <2>3, <3>2, <3>3 DEF buffer, d
    <3>5. waitingOnOffset' - srcBuffer'.loaded = w /\ srcBuffer'.loaded <= waitingOnOffset'
          /\ 0 + Len(d) = Len(d)
      BY <2>2, <2>3, <2>5, <3>2
    <3>6. \A i \in 1..Len(d) : d[0 + i] = c[w + i]
      <4>1. \A i \in 1..Len(d) : 0 + i = i
        BY <2>2
      <4> QED BY <2>6, <4>1 DEF IsPiece
    <3>7. writeJob' = NoIOJob => waitingOnOffset' = srcBuffer'.loaded
      <4>1. writeJob = NoIOJob => w = 0
        BY <1>2, <2>4, <2>8 DEF LoadedInv, w
      <4> QED BY <2>2, <2>3, <2>4, <3>2, <4>1
    <3>8. coalesceBuffer' \in Seq(Nat)
      BY <3>1 DEF LoadedInv
    <3>9. src'.content = c
      BY <2>3 DEF c
    <3> QED BY <2>3, <2>4, <3>2, <3>4, <3>5, <3>6, <3>7, <3>8, <3>9 DEF LoadedInv
  <2> QED BY <2>7, <2>8
<1>14. CASE MainStep
  BY <1>4, <1>5, <1>6, <1>7, <1>8, <1>9, <1>11, <1>12, <1>13, <1>14 DEF MainStep
<1> QED BY <1>9, <1>10, <1>14 DEF CopyNext

-----------------------------------------------------------------------------
(***************************************************************************)
(* What is written.                                                        *)
(***************************************************************************)

\* The places of the main thread where no destination is written.
Apart == {"open", "start", "startAdd", "closeSrc", "done"}

\* How much of the source was handed to the write pool.
Taken == waitingOnOffset - srcBuffer.loaded + (IF pc = "consume" THEN WriteSize ELSE 0)

\* The file that is written; it is the source when it is closed.
DstInv ==
  /\ sparse \in BOOLEAN
  /\ dst \in [content : Seq(Nat), gap : Nat] /\ storedSkips \in Nat
  /\ storedSkips = 0 => dst.gap = 0
  /\ ~sparse => storedSkips = 0
  /\ writeData \in [JobIds -> Seq(Nat)]
  /\ pc \in Apart => storedSkips = 0
  /\ pc \notin {"open", "done"} => src.content = files[fileNo]
  /\ pc \in {"closeSrc", "done"} => dst.content = files[fileNo]

\* The destination has the source up to the first block that is queued, each
\* queued block is the next piece of it, and block i begins at b[i].
WriteOrder(b) ==
  /\ b \in [Nat -> Nat]
  /\ IsPiece(Padded(dst, storedSkips), src.content, 0, b[wNext])
  /\ b[wAccepted + 1] = Taken
  /\ \A i \in wNext..wAccepted : IsPiece(writeData[wQueued[i]], src.content, b[i], b[i + 1])

WriteOrderInv == pc \notin Apart => \E b : WriteOrder(b)

\* Only a block that is copied adds to what was taken.
LEMMA TakenStays ==
  ASSUME JobsInvs, ReadOrderInv, BufferInv, LoadedInv, CopyNext \/ UNCHANGED copyVars,
         ~(OpenSource \/ CloseSource \/ CopyBlock)
  PROVE  Taken' = Taken
<1>1. /\ srcBuffer \in [job : JobIds \union {NoIOJob}, from : Nat, loaded : Nat]
      /\ waitingOnOffset \in Nat
  BY ReadPlace DEF BufferInv
<1>2. CASE ConsumeBlock
  <2>1. pc = "consume" /\ pc' = "fill" /\ waitingOnOffset' = waitingOnOffset
        /\ srcBuffer' = [srcBuffer EXCEPT !.from = srcBuffer.from + WriteSize, !.loaded = srcBuffer.loaded - WriteSize]
    BY <1>2 DEF ConsumeBlock, readVars, rOffsets
  <2>2. WriteSize \in 0..srcBuffer.loaded
    BY <1>1, BlockToWrite
  <2> DEFINE w == WriteSize
  <2>3. w \in Nat /\ srcBuffer'.loaded = srcBuffer.loaded - w /\ Taken = waitingOnOffset - srcBuffer.loaded + w
    BY <1>1, <2>1, <2>2 DEF Taken
  <2> HIDE DEF w
  <2>4. Taken' = waitingOnOffset' - srcBuffer'.loaded + 0
    BY <2>1 DEF Taken
  <2> QED BY <1>1, <2>1, <2>3, <2>4
<1>3. CASE LoadRead
  <2>1. PICK j \in NextCompleted :
          /\ TakeCompleted(j)
          /\ IF srcBuffer.loaded > 0
             THEN srcBuffer' = [srcBuffer EXCEPT !.loaded = @ + Len(readJob[j].data)]
             ELSE srcBuffer' = [job |-> j, from |-> 0, loaded |-> Len(readJob[j].data)]
    BY <1>3 DEF LoadRead
  <2>2. Len(readJob[j].data) \in Nat
    BY TakenRead, LenProperties
  <2>3. waitingOnOffset' = waitingOnOffset + Len(readJob[j].data)
    BY <2>1 DEF TakeCompleted
  <2>4. srcBuffer'.loaded = srcBuffer.loaded + Len(readJob[j].data)
    BY <1>1, <2>1, <2>2
  <2>5. pc = "next" /\ pc' # "consume"
    BY <1>3 DEF LoadRead, AfterFill
  <2> QED BY <1>1, <2>2, <2>3, <2>4, <2>5 DEF Taken
<1>4. CASE Coalesce
  <2>1. pc = "fill" /\ pc' = "release" /\ waitingOnOffset' = waitingOnOffset
        /\ srcBuffer'.loaded = srcBuffer.loaded
    BY <1>1, <1>4 DEF Coalesce, EmptyBuffer, readVars, rOffsets, buffers
  <2> QED BY <2>1 DEF Taken
<1>5. ASSUME srcBuffer' = srcBuffer, waitingOnOffset' = waitingOnOffset, pc' = "consume" <=> pc = "consume"
      PROVE  Taken' = Taken
  BY <1>5 DEF Taken, WriteSize
<1>6. CASE StartRead \/ AddStartRead \/ OpenDestination \/ FillIsEnough \/ ReleaseRead \/ NothingHeld
  BY <1>5, <1>6 DEF StartRead, AddStartRead, OpenDestination, FillIsEnough, ReleaseRead, NothingHeld, AfterFill,
     AcquireRead, EnqueueRead, ReleaseHeld, readVars, rOffsets, buffers
<1>7. CASE NextRead \/ AddNextRead \/ WaitForRead \/ SourceIsOver \/ EmptySource \/ BeginCopy
  BY <1>5, <1>7 DEF NextRead, AddNextRead, WaitForRead, SourceIsOver, EmptySource, BeginCopy, AfterFill,
     AcquireRead, EnqueueRead, WaitForCompleted, NoMoreReads, readVars, rOffsets, buffers, mainVars
<1>8. CASE EndCopy \/ EndSparse \/ CloseDestination
  BY <1>5, <1>8 DEF EndCopy, EndSparse, CloseDestination, readVars, rOffsets, buffers
<1>9. CASE ReaderRuns \/ WriterRuns \/ MainWakesForNothing \/ CopyIsDone \/ UNCHANGED copyVars
  BY <1>5, <1>9 DEF ReaderRuns, WriterRuns, MainWakesForNothing, CopyIsDone, copyVars, mainVars, readVars, rOffsets,
     ReaderStep, ReaderStarts, ReaderReads, ReaderCompletes, ReaderEnds, ConsumerWakesForNothing, buffers
<1> QED BY <1>2, <1>3, <1>4, <1>6, <1>7, <1>8, <1>9 DEF CopyNext, MainStep

\* A write adds its block to the file.
LEMMA WriteAdds ==
  ASSUME DstInv, NEW data \in Seq(Nat),
         dst' = fwriteSparse(dst, data, sparse, storedSkips).file,
         storedSkips' = fwriteSparse(dst, data, sparse, storedSkips).skips
  PROVE  /\ dst' \in [content : Seq(Nat), gap : Nat] /\ storedSkips' \in Nat
         /\ storedSkips' = 0 => dst'.gap = 0
         /\ ~sparse => storedSkips' = 0
         /\ Padded(dst', storedSkips') = Padded(dst, storedSkips) \o data
<1> DEFINE r == fwriteSparse(dst, data, sparse, storedSkips)
<1>1. /\ IsSkipped(r) /\ (~sparse => r.skips = 0)
      /\ Padded(r.file, r.skips) = Padded(dst, storedSkips) \o data
  BY SparseWriteAdds DEF DstInv
<1> HIDE DEF r
<1>2. dst' = r.file /\ storedSkips' = r.skips
  BY DEF r
<1>3. /\ r.file \in [content : Seq(Nat), gap : Nat] /\ r.skips \in Nat
      /\ r.skips = 0 => r.file.gap = 0
  BY <1>1 DEF IsSkipped
<1> QED BY <1>1, <1>2, <1>3

\* The end of a sparse write writes the skips.
LEMMA EndAdds ==
  ASSUME DstInv, SparseWriteEnd
  PROVE  /\ dst' \in [content : Seq(Nat), gap : Nat] /\ dst'.gap = 0 /\ storedSkips' = 0
         /\ dst'.content = Padded(dst, storedSkips)
         /\ Padded(dst', storedSkips') = Padded(dst, storedSkips)
<1> DEFINE r == fwriteSparseEnd(dst, storedSkips)
<1>1. /\ r \in [content : Seq(Nat), gap : Nat] /\ r.gap = 0
      /\ r.content = Padded(dst, storedSkips) /\ Padded(r, 0) = Padded(dst, storedSkips)
  BY SparseWriteEnds DEF DstInv
<1> HIDE DEF r
<1>2. dst' = r /\ storedSkips' = 0
  BY DEF r, SparseWriteEnd
<1> QED BY <1>1, <1>2

\* Nothing that the order of the writes is about changes.
LEMMA WritesKept ==
  ASSUME NEW b, WriteOrder(b), Padded(dst', storedSkips') = Padded(dst, storedSkips),
         src'.content = src.content, Taken' = Taken,
         UNCHANGED <<wAccepted, wQueued, writeData>>, wNext' = wNext
  PROVE  WriteOrder(b)'
<1>1. IsPiece(Padded(dst', storedSkips'), src'.content, 0, b[wNext'])
  BY DEF WriteOrder
<1>2. b[wAccepted' + 1] = Taken' /\ b \in [Nat -> Nat]
  BY DEF WriteOrder
<1>3. \A i \in wNext'..wAccepted' : IsPiece(writeData'[wQueued'[i]], src'.content, b[i], b[i + 1])
  BY DEF WriteOrder
<1> QED BY <1>1, <1>2, <1>3 DEF WriteOrder

\* The file that is written is the source at the end, if the writes are in order.
LEMMA DstStays ==
  ASSUME CopyInvs, LoadedInv, DstInv, WriteOrderInv, CopyNext \/ UNCHANGED copyVars
  PROVE  DstInv'
<1> USE DEF Apart
<1>1. /\ JobsInvs /\ MainInv /\ WriterInv /\ WriteOwnInv /\ FilesInv /\ ReadOrderInv /\ BufferInv
      /\ srcBuffer \in [job : JobIds \union {NoIOJob}, from : Nat, loaded : Nat]
  BY DEF CopyInvs, JobsInvs, BufferInv
<1>2. \A i \in 1..wAccepted : wQueued[i] \in JobIds
  BY <1>1, ElementOfSeq DEF WriterInv
<1>3. ASSUME ~(OpenSource \/ CloseSource), files' = files, fileNo' = fileNo,
             pc' \notin {"open", "done"} => pc \notin {"open", "done"}
      PROVE  pc' \notin {"open", "done"} => src'.content = files'[fileNo']
  BY <1>1, <1>3, EofStays DEF DstInv
<1>4. ASSUME UNCHANGED <<sparse, dst, storedSkips, writeData, files, fileNo>>, ~(OpenSource \/ CloseSource),
             pc' \in Apart => pc \in Apart, pc' \notin {"open", "done"} => pc \notin {"open", "done"},
             pc' \in {"closeSrc", "done"} => pc \in {"closeSrc", "done"}
      PROVE  DstInv'
  <2>1. pc' \notin {"open", "done"} => src'.content = files'[fileNo']
    BY <1>3, <1>4
  <2> QED BY <1>4, <2>1 DEF DstInv, JobIds
<1>5. ASSUME dst' \in [content : Seq(Nat), gap : Nat], storedSkips' \in Nat, storedSkips' = 0 => dst'.gap = 0,
             ~sparse => storedSkips' = 0, UNCHANGED <<sparse, files, fileNo>>, ~(OpenSource \/ CloseSource),
             writeData' \in [JobIds -> Seq(Nat)], pc \notin {"open", "done"},
             pc' \notin Apart \/ (pc' = "closeSrc" /\ storedSkips' = 0 /\ dst'.content = files[fileNo])
      PROVE  DstInv'
  <2>1. pc' \notin {"open", "done"} => src'.content = files'[fileNo']
    BY <1>3, <1>5
  <2>2. writeData' \in [JobIds' -> Seq(Nat)]
    BY <1>5 DEF JobIds
  <2> QED BY <1>5, <2>1, <2>2 DEF DstInv
<1>6. CASE OpenSource
  <2>1. src'.content = files[fileNo] /\ files' = files /\ fileNo' = fileNo
    BY <1>6 DEF OpenSource, SetSource
  <2>2. pc = "open" /\ pc' = "start" /\ UNCHANGED <<sparse, dst, storedSkips, writeData>>
    BY <1>6 DEF OpenSource, writeVars
  <2> QED BY <2>1, <2>2 DEF DstInv, JobIds
<1>7. CASE CloseSource
  <2>1. pc = "closeSrc" /\ files' = files /\ UNCHANGED <<sparse, dst, storedSkips, writeData>>
        /\ (pc' = "open" \/ (pc' = "done" /\ fileNo' = fileNo))
    BY <1>7 DEF CloseSource, writeVars
  <2> QED BY <2>1 DEF DstInv, JobIds
<1>8. CASE OpenDestination
  <2>1. pc = "start" /\ pc' = "fill" /\ dst' = EmptyFile /\ UNCHANGED <<sparse, storedSkips, writeData, files, fileNo>>
    BY <1>8 DEF OpenDestination, SetDestination, args
  <2>2. dst' \in [content : Seq(Nat), gap : Nat] /\ dst'.gap = 0
    BY <2>1, EmptySeq DEF EmptyFile
  <2>3. ~(OpenSource \/ CloseSource)
    BY <2>1 DEF OpenSource, CloseSource
  <2>4. storedSkips' \in Nat /\ (~sparse => storedSkips' = 0) /\ writeData' \in [JobIds -> Seq(Nat)]
    BY <2>1 DEF DstInv
  <2> QED BY <1>5, <2>1, <2>2, <2>3, <2>4
<1>9. CASE CopyBlock
  <2> DEFINE data == Loaded(WriteSize)
  <2>1. pc = "copy" /\ pc' = "consume" /\ srcBuffer.loaded > 0 /\ EnqueueWrite(writeJob, data)
        /\ UNCHANGED <<files, fileNo>>
    BY <1>9 DEF CopyBlock, args
  <2>2. data \in Seq(Nat)
    BY <1>1, <2>1, BlockToWrite, LoadedIsPiece DEF IsPiece
  <2>3. ~(OpenSource \/ CloseSource)
    BY <2>1 DEF OpenSource, CloseSource
  <2> HIDE DEF data
  <2>4. sparse' = sparse /\ writeData' \in [JobIds -> Seq(Nat)]
    BY <2>1, <2>2 DEF EnqueueWrite, DstInv
  <2>5. CASE asyncIO
    <3>1. dst' = dst /\ storedSkips' = storedSkips
      BY <2>1, <2>5 DEF EnqueueWrite
    <3>2. /\ dst' \in [content : Seq(Nat), gap : Nat] /\ storedSkips' \in Nat /\ (storedSkips' = 0 => dst'.gap = 0)
          /\ ~sparse => storedSkips' = 0
      BY <3>1 DEF DstInv
    <3> QED BY <1>5, <2>1, <2>3, <2>4, <3>2
  <2>6. CASE ~asyncIO
    <3>1. /\ dst' = fwriteSparse(dst, data, sparse, storedSkips).file
          /\ storedSkips' = fwriteSparse(dst, data, sparse, storedSkips).skips
      BY <2>1, <2>6 DEF EnqueueWrite
    <3>2. /\ dst' \in [content : Seq(Nat), gap : Nat] /\ storedSkips' \in Nat /\ (storedSkips' = 0 => dst'.gap = 0)
          /\ ~sparse => storedSkips' = 0
      BY <2>2, <3>1, WriteAdds
    <3> QED BY <1>5, <2>1, <2>3, <2>4, <3>2
  <2> QED BY <2>5, <2>6
<1>10. CASE EndSparse
  <2>1. pc = "endSparse" /\ pc' = "closeDst" /\ SparseWriteEnd /\ UNCHANGED <<files, fileNo, sparse, writeData>>
    BY <1>10 DEF EndSparse, SparseWriteEnd, args
  <2>2. dst' \in [content : Seq(Nat), gap : Nat] /\ dst'.gap = 0 /\ storedSkips' = 0
    BY <2>1, EndAdds
  <2>3. ~(OpenSource \/ CloseSource)
    BY <2>1 DEF OpenSource, CloseSource
  <2>4. writeData' \in [JobIds -> Seq(Nat)]
    BY <2>1 DEF DstInv
  <2> QED BY <1>5, <2>1, <2>2, <2>3, <2>4
<1>11. CASE CloseDestination
  <2>1. pc = "closeDst" /\ pc' = "closeSrc" /\ SparseWriteEnd /\ UNCHANGED <<files, fileNo, sparse, writeData>>
    BY <1>11 DEF CloseDestination, SparseWriteEnd, args
  <2>2. dst' \in [content : Seq(Nat), gap : Nat] /\ dst'.gap = 0 /\ storedSkips' = 0
        /\ dst'.content = Padded(dst, storedSkips)
    BY <2>1, EndAdds
  <2>3. ~(OpenSource \/ CloseSource)
    BY <2>1 DEF OpenSource, CloseSource
  <2>4. writeData' \in [JobIds -> Seq(Nat)]
    BY <2>1 DEF DstInv
  <2>5. PICK b : WriteOrder(b)
    BY <2>1 DEF WriteOrderInv
  <2>6. wNext = wAccepted + 1
    BY <1>1, <2>1 DEF wNext, MainInv
  <2>7. srcBuffer.loaded = 0 /\ waitingOnOffset = Len(src.content)
    BY <1>1, <2>1 DEF BufferInv
  <2>8. src.content \in Seq(Nat) /\ Len(src.content) \in Nat
    BY <1>1, ReadPlace
  <2>9. Taken = Len(src.content)
    BY <2>1, <2>7, <2>8 DEF Taken
  <2>10. IsPiece(Padded(dst, storedSkips), src.content, 0, Len(src.content))
    BY <2>5, <2>6, <2>9 DEF WriteOrder
  <2>11. Padded(dst, storedSkips) = src.content
    BY <2>8, <2>10, WholePiece
  <2>12. dst'.content = files[fileNo]
    BY <2>1, <2>2, <2>11 DEF DstInv
  <2> QED BY <1>5, <2>1, <2>2, <2>3, <2>4, <2>12
<1>12. CASE WriterRuns
  <2>1. UNCHANGED <<sparse, writeData, files, fileNo, pc, asyncIO>>
    BY <1>12 DEF WriterRuns, WriterStep, WriterStarts, WriterWrites, WriterReleases, WriterEnds, mainVars, args
  <2>2. ~(OpenSource \/ CloseSource)
    BY <2>1 DEF OpenSource, CloseSource
  <2>3. CASE WriterWrites
    <3>1. wStage = "write" /\ WriteOut(wQueued[wStarted])
      BY <2>3 DEF WriterWrites
    <3>2. pc \notin Apart
      BY <1>1, <3>1 DEF MainInv
    <3>3. wStarted \in 1..wAccepted
      BY <1>1, <3>1 DEF WriterInv
    <3>4. writeData[wQueued[wStarted]] \in Seq(Nat)
      BY <1>2, <3>3 DEF DstInv
    <3>5. /\ dst' \in [content : Seq(Nat), gap : Nat] /\ storedSkips' \in Nat /\ (storedSkips' = 0 => dst'.gap = 0)
          /\ ~sparse => storedSkips' = 0
      BY <3>1, <3>4, WriteAdds DEF WriteOut
    <3>6. writeData' \in [JobIds -> Seq(Nat)]
      BY <2>1 DEF DstInv
    <3> QED BY <1>5, <2>1, <2>2, <3>2, <3>5, <3>6
  <2>4. CASE WriterStarts \/ WriterReleases \/ WriterEnds
    <3>1. UNCHANGED <<dst, storedSkips>>
      BY <2>4 DEF WriterStarts, WriterReleases, WriterEnds
    <3> QED BY <1>4, <2>1, <2>2, <3>1
  <2> QED BY <1>12, <2>3, <2>4 DEF WriterRuns, WriterStep
<1>13. CASE StartRead \/ AddStartRead \/ FillIsEnough \/ Coalesce \/ ReleaseRead \/ NothingHeld
            \/ NextRead \/ AddNextRead \/ WaitForRead \/ LoadRead \/ SourceIsOver
            \/ EmptySource \/ BeginCopy \/ ConsumeBlock \/ EndCopy
  <2>1. UNCHANGED <<sparse, dst, storedSkips, writeData, files, fileNo>>
    BY <1>13 DEF StartRead, AddStartRead, FillIsEnough, Coalesce, ReleaseRead, NothingHeld, NextRead, AddNextRead,
       WaitForRead, LoadRead, SourceIsOver, EmptySource, BeginCopy, ConsumeBlock, EndCopy, writeVars, args,
       mainVars, AcquireWrite, ReleaseWrite
  <2>2. \/ pc \in {"start", "startAdd"} /\ pc' \in {"start", "startAdd"}
        \/ pc \notin Apart /\ pc' \notin Apart
    BY <1>13 DEF StartRead, AddStartRead, FillIsEnough, Coalesce, ReleaseRead, NothingHeld, NextRead, AddNextRead,
       WaitForRead, LoadRead, SourceIsOver, EmptySource, BeginCopy, ConsumeBlock, EndCopy, AfterFill, mainVars
  <2>3. ~(OpenSource \/ CloseSource)
    BY <2>2 DEF OpenSource, CloseSource
  <2> QED BY <1>4, <2>1, <2>2, <2>3
<1>14. CASE ReaderRuns \/ MainWakesForNothing \/ CopyIsDone \/ UNCHANGED copyVars
  <2>1. UNCHANGED <<sparse, dst, storedSkips, writeData, files, fileNo, pc>>
    BY <1>14 DEF ReaderRuns, MainWakesForNothing, CopyIsDone, copyVars, mainVars, writeVars, args
  <2>2. ~(OpenSource \/ CloseSource)
    BY <2>1 DEF OpenSource, CloseSource
  <2> QED BY <1>4, <2>1, <2>2
<1>15. CASE MainStep
  BY <1>6, <1>7, <1>8, <1>9, <1>10, <1>11, <1>13, <1>15 DEF MainStep
<1> QED BY <1>12, <1>14, <1>15 DEF CopyNext

\* The source is written in the order it was read.
LEMMA WritesStayInOrder ==
  ASSUME CopyInvs, LoadedInv, DstInv, WriteOrderInv, CopyNext \/ UNCHANGED copyVars
  PROVE  WriteOrderInv'
<1> USE DEF Apart
<1>1. /\ JobsInvs /\ MainInv /\ WriterInv /\ WriteOwnInv /\ FilesInv /\ ReadOrderInv /\ BufferInv
      /\ srcBuffer \in [job : JobIds \union {NoIOJob}, from : Nat, loaded : Nat]
  BY DEF CopyInvs, JobsInvs, BufferInv
<1>2. /\ waitingOnOffset \in Nat /\ waitingOnOffset <= Len(src.content)
      /\ src.content \in Seq(Nat) /\ Len(src.content) \in Nat
  BY <1>1, ReadPlace
<1>3. ASSUME UNCHANGED <<wAccepted, wQueued, writeData>>, Padded(dst', storedSkips') = Padded(dst, storedSkips),
             wNext' = wNext, pc \notin Apart, ~(OpenSource \/ CloseSource \/ CopyBlock)
      PROVE  WriteOrderInv'
  <2>1. PICK b : WriteOrder(b)
    BY <1>3 DEF WriteOrderInv
  <2>2. src'.content = src.content
    BY <1>1, <1>3, EofStays
  <2>3. Taken' = Taken
    BY <1>1, <1>3, TakenStays
  <2>4. WriteOrder(b)'
    BY <1>3, <2>1, <2>2, <2>3, WritesKept
  <2> QED BY <2>4 DEF WriteOrderInv
<1>4. CASE OpenSource \/ CloseSource \/ CloseDestination \/ StartRead \/ AddStartRead
  <2>1. pc' \in Apart
    BY <1>4 DEF OpenSource, CloseSource, CloseDestination, StartRead, AddStartRead
  <2> QED BY <2>1 DEF WriteOrderInv
<1>5. CASE OpenDestination
  <2>1. pc = "start" /\ pc' = "fill" /\ dst' = EmptyFile /\ storedSkips' = storedSkips /\ src' = src
        /\ UNCHANGED <<wAccepted, wNext, srcBuffer, waitingOnOffset>>
    BY <1>5 DEF OpenDestination, SetDestination, readVars, rOffsets, wPool, wNext, buffers
  <2>2. storedSkips' = 0
    BY <2>1 DEF DstInv
  <2>3. wNext' = wAccepted' + 1 /\ wAccepted \in Nat
    BY <1>1, <2>1 DEF wNext, MainInv, WriterInv
  <2>4. Taken' = 0
    <3>1. srcBuffer.loaded = 0 /\ waitingOnOffset = 0
      BY <1>1, <2>1 DEF BufferInv, LoadedInv, BeforeCopy, MainInv
    <3> QED BY <2>1, <3>1 DEF Taken
  <2>5. Padded(dst', storedSkips') = <<>>
    <3>1. Padded([content |-> <<>>, gap |-> 0], 0) = <<>> \o Zeros(0)
      BY DEF Padded
    <3>2. Zeros(0) = <<>>
      BY DEF Zeros
    <3>3. <<>> \o <<>> = <<>>
      BY EmptySeq, ConcatEmptySeq
    <3> QED BY <2>1, <2>2, <3>1, <3>2, <3>3 DEF EmptyFile
  <2> DEFINE b == [i \in Nat |-> 0]
  <2>6. b \in [Nat -> Nat] /\ b[wNext'] = 0 /\ b[wAccepted' + 1] = 0
    BY <2>1, <2>3
  <2>7. IsPiece(<<>>, src'.content, 0, 0)
    BY <1>2, <2>1, EmptySeq DEF IsPiece
  <2>8. wNext'..wAccepted' = {}
    BY <2>1, <2>3
  <2> HIDE DEF b
  <2>9. WriteOrder(b)'
    BY <2>4, <2>5, <2>6, <2>7, <2>8 DEF WriteOrder
  <2> QED BY <2>9 DEF WriteOrderInv
<1>6. CASE CopyBlock
  <2> DEFINE data == Loaded(WriteSize)
             n == wAccepted'
             to == Taken + WriteSize
  <2>1. pc = "copy" /\ pc' = "consume" /\ srcBuffer.loaded > 0 /\ EnqueueWrite(writeJob, data)
        /\ UNCHANGED <<srcBuffer, waitingOnOffset, src>>
    BY <1>6 DEF CopyBlock, buffers, readVars, rOffsets
  <2>2. PICK b : WriteOrder(b)
    BY <2>1 DEF WriteOrderInv
  <2>3. /\ WriteSize \in Nat /\ Taken = waitingOnOffset - srcBuffer.loaded /\ Taken \in Nat
        /\ WriteSize \in 0..srcBuffer.loaded /\ srcBuffer.loaded \in Nat
    BY <1>1, <1>2, <2>1, BlockToWrite DEF Taken, LoadedInv
  <2>4. Taken' = to
    BY <2>1, <2>3 DEF Taken, WriteSize
  <2>5. IsPiece(data, src.content, Taken, to)
    BY <1>1, <2>1, <2>3, LoadedIsPiece
  <2>6. data \in Seq(Nat) /\ to \in Nat /\ Taken \in Nat
    BY <2>5 DEF IsPiece
  <2> HIDE DEF data, to
  <2>7. /\ b \in [Nat -> Nat] /\ IsPiece(Padded(dst, storedSkips), src.content, 0, b[wNext])
        /\ b[wAccepted + 1] = Taken
        /\ \A i \in wNext..wAccepted : IsPiece(writeData[wQueued[i]], src.content, b[i], b[i + 1])
    BY <2>2 DEF WriteOrder
  <2>8. wAccepted \in Nat /\ wNext \in Nat /\ wNext <= wAccepted + 1 /\ wNext >= wFirst /\ wFirst \in Nat
        /\ wQueued \in Seq(JobIds) /\ Len(wQueued) = wAccepted /\ wNext >= 1
    BY <1>1 DEF wNext, wFirst, WriterInv
  <2>9. writeJob \in JobIds /\ writeData' = [writeData EXCEPT ![writeJob] = data]
        /\ writeData \in [JobIds -> Seq(Nat)]
    BY <1>1, <2>1 DEF MainInv, DstInv, EnqueueWrite
  <2>10. CASE asyncIO
    <3>1. /\ n = wAccepted + 1 /\ wQueued' = Append(wQueued, writeJob) /\ wNext' = wNext
          /\ dst' = dst /\ storedSkips' = storedSkips
      BY <2>1, <2>10 DEF EnqueueWrite, WriteQueue!Accept, wNext
    <3> HIDE DEF n
    <3>2. PICK c \in [Nat -> Nat] : c[n + 1] = to /\ \A i \in 1..n : c[i] = b[i]
      <4> DEFINE e == [b EXCEPT ![n + 1] = to]
      <4>1. n + 1 \in Nat /\ \A i \in 1..n : i \in Nat /\ i # n + 1
        BY <2>8, <3>1
      <4>2. e \in [Nat -> Nat]
        BY <2>6, <2>7
      <4>3. e[n + 1] = to /\ \A i \in 1..n : e[i] = b[i]
        BY <2>7, <4>1
      <4> QED BY <4>2, <4>3
    <3>3. c[wNext'] = b[wNext]
      <4>1. wNext \in 1..n
        BY <2>8, <3>1
      <4>2. c[wNext] = b[wNext]
        BY <3>2, <4>1
      <4> QED BY <3>1, <4>2
    <3>4. ASSUME NEW i \in wNext..wAccepted PROVE IsPiece(writeData'[wQueued'[i]], src.content, c[i], c[i + 1])
      <4>1. i \in 1..wAccepted /\ i \in 1..n /\ i + 1 \in 1..n /\ i \in wFirst..wAccepted
        BY <2>8, <3>1
      <4>2. wQueued'[i] = wQueued[i] /\ wQueued[i] \in JobIds
        BY <2>8, <2>9, <3>1, <4>1, AppendProperties, ElementOfSeq
      <4>3. wQueued[i] # writeJob
        <5>1. wQueued[i] \in wFlying
          BY <4>1 DEF wFlying
        <5>2. filling = writeJob
          BY <2>1 DEF filling
        <5> QED BY <1>1, <5>1, <5>2 DEF WriteOwnInv, WriteOwners
      <4>4. writeData'[wQueued'[i]] = writeData[wQueued[i]]
        BY <2>9, <4>2, <4>3
      <4> QED BY <2>7, <3>2, <4>1, <4>4
    <3>5. IsPiece(writeData'[wQueued'[n]], src.content, c[n], c[n + 1])
      <4>1. wQueued'[n] = writeJob
        <5>1. Append(wQueued, writeJob)[Len(wQueued) + 1] = writeJob
          BY <2>8, <2>9, AppendProperties
        <5> QED BY <2>8, <3>1, <5>1
      <4>2. writeData'[writeJob] = data
        BY <2>9
      <4>3. c[n] = Taken
        BY <2>7, <2>8, <3>1, <3>2
      <4> QED BY <2>5, <3>2, <4>1, <4>2, <4>3
    <3>6. \A i \in wNext'..n : IsPiece(writeData'[wQueued'[i]], src'.content, c[i], c[i + 1])
      <4>1. \A i \in wNext'..n : i \in wNext..wAccepted \/ i = n
        BY <2>8, <3>1
      <4> QED BY <2>1, <3>4, <3>5, <4>1
    <3>7. IsPiece(Padded(dst', storedSkips'), src'.content, 0, c[wNext'])
      BY <2>1, <2>7, <3>1, <3>3
    <3>8. WriteOrder(c)'
      BY <2>4, <3>2, <3>6, <3>7 DEF WriteOrder, n
    <3> QED BY <3>8 DEF WriteOrderInv
  <2>11. CASE ~asyncIO
    <3>1. /\ n = wAccepted /\ wNext' = wNext
          /\ dst' = fwriteSparse(dst, data, sparse, storedSkips).file
          /\ storedSkips' = fwriteSparse(dst, data, sparse, storedSkips).skips
      BY <2>1, <2>11 DEF EnqueueWrite, wPool, wNext
    <3>2. wAccepted = 0 /\ wNext = 1
      BY <1>1, <2>11 DEF wNext, WriterInv
    <3>3. Padded(dst', storedSkips') = Padded(dst, storedSkips) \o data
      BY <2>6, <3>1, WriteAdds
    <3>4. IsPiece(Padded(dst, storedSkips), src.content, 0, Taken)
      BY <2>7, <3>2
    <3>5. IsPiece(Padded(dst', storedSkips'), src'.content, 0, to)
      BY <1>2, <2>1, <2>5, <3>3, <3>4, PiecesJoin
    <3> HIDE DEF n
    <3>6. PICK c \in [Nat -> Nat] : c[n + 1] = to /\ n + 1 = wNext'
      <4> DEFINE e == [b EXCEPT ![n + 1] = to]
      <4>1. n + 1 \in Nat /\ n + 1 = wNext'
        BY <3>1, <3>2
      <4>2. e \in [Nat -> Nat] /\ e[n + 1] = to
        BY <2>6, <2>7, <4>1
      <4> QED BY <4>1, <4>2
    <3>7. wNext'..n = {}
      BY <3>1, <3>2
    <3>8. IsPiece(Padded(dst', storedSkips'), src'.content, 0, c[wNext'])
      BY <3>5, <3>6
    <3>9. WriteOrder(c)'
      BY <2>4, <3>6, <3>7, <3>8 DEF WriteOrder, n
    <3> QED BY <3>9 DEF WriteOrderInv
  <2> QED BY <2>10, <2>11
<1>7. CASE EndSparse
  <2>1. pc = "endSparse" /\ SparseWriteEnd /\ UNCHANGED <<wAccepted, wQueued, writeData>> /\ wNext' = wNext
    BY <1>7 DEF EndSparse, SparseWriteEnd, wPool, wNext
  <2>2. Padded(dst', storedSkips') = Padded(dst, storedSkips)
    BY <2>1, EndAdds
  <2>3. ~(OpenSource \/ CloseSource \/ CopyBlock)
    BY <2>1 DEF OpenSource, CloseSource, CopyBlock
  <2> QED BY <1>3, <2>1, <2>2, <2>3
<1>8. CASE WriterWrites /\ WriterRuns
  <2> DEFINE k == wStarted
             data == writeData[wQueued[k]]
  <2>1. /\ wStage = "write" /\ wStage' = "release" /\ WriteOut(wQueued[k])
        /\ UNCHANGED <<wAccepted, wStarted, wQueued, writeData, pc>>
    BY <1>8 DEF WriterWrites, WriterRuns, wPool, mainVars
  <2>2. pc \notin Apart
    BY <1>1, <2>1 DEF MainInv
  <2>3. PICK b : WriteOrder(b)
    BY <2>2 DEF WriteOrderInv
  <2>4. ~(OpenSource \/ CloseSource \/ CopyBlock)
    BY <2>1 DEF OpenSource, CloseSource, CopyBlock
  <2>5. src'.content = src.content
    BY <1>1, <2>4, EofStays
  <2>6. Taken' = Taken
    BY <1>1, <2>4, TakenStays
  <2>7. k \in 1..wAccepted /\ wAccepted \in Nat /\ wNext = k /\ wNext' = k + 1
    BY <1>1, <2>1 DEF WriterInv, wNext
  <2> HIDE DEF k
  <2>8. IsPiece(data, src.content, b[k], b[k + 1])
    BY <2>3, <2>7 DEF WriteOrder
  <2>9. IsPiece(Padded(dst, storedSkips), src.content, 0, b[k])
    BY <2>3, <2>7 DEF WriteOrder
  <2> HIDE DEF data
  <2>10. data \in Seq(Nat)
    BY <2>8 DEF IsPiece
  <2>11. Padded(dst', storedSkips') = Padded(dst, storedSkips) \o data
    BY <2>1, <2>10, WriteAdds DEF WriteOut, data, k
  <2>12. IsPiece(Padded(dst', storedSkips'), src'.content, 0, b[wNext'])
    BY <1>2, <2>5, <2>7, <2>8, <2>9, <2>11, PiecesJoin
  <2>13. \A i \in wNext'..wAccepted' : IsPiece(writeData'[wQueued'[i]], src'.content, b[i], b[i + 1])
    <3>1. \A i \in wNext'..wAccepted' : i \in wNext..wAccepted
      BY <2>1, <2>7
    <3> QED BY <2>1, <2>3, <2>5, <3>1 DEF WriteOrder
  <2>14. b \in [Nat -> Nat] /\ b[wAccepted' + 1] = Taken'
    BY <2>1, <2>3, <2>6 DEF WriteOrder
  <2>15. WriteOrder(b)'
    BY <2>12, <2>13, <2>14 DEF WriteOrder
  <2> QED BY <2>15 DEF WriteOrderInv
<1>9. CASE WriterRuns /\ (WriterStarts \/ WriterReleases \/ WriterEnds)
  <2>1. UNCHANGED <<dst, storedSkips, wAccepted, wQueued, writeData, pc>>
    BY <1>9 DEF WriterRuns, WriterStarts, WriterReleases, WriterEnds, wPool, mainVars, WriteQueue!Start, WriteQueue!Finish
  <2>2. wNext' = wNext
    BY <1>1, <1>9 DEF wNext, WriterStarts, WriterReleases, WriterEnds, wPool, WriteQueue!Start, WriteQueue!Finish, WriterInv
  <2>3. ~(OpenSource \/ CloseSource \/ CopyBlock)
    BY <2>1 DEF OpenSource, CloseSource, CopyBlock
  <2>4. CASE pc \in Apart
    BY <2>1, <2>4 DEF WriteOrderInv
  <2> QED BY <1>3, <2>1, <2>2, <2>3, <2>4
<1>10. CASE FillIsEnough \/ Coalesce \/ ReleaseRead \/ NothingHeld \/ NextRead \/ AddNextRead \/ WaitForRead
            \/ LoadRead \/ SourceIsOver \/ EmptySource \/ BeginCopy \/ ConsumeBlock \/ EndCopy
  <2>1. UNCHANGED <<dst, storedSkips, wAccepted, wQueued, writeData, wStage, wStarted>>
    BY <1>10 DEF FillIsEnough, Coalesce, ReleaseRead, NothingHeld, NextRead, AddNextRead,
       WaitForRead, LoadRead, SourceIsOver, EmptySource, BeginCopy, ConsumeBlock, EndCopy, writeVars, wPool,
       AcquireWrite, ReleaseWrite
  <2>2. pc \notin Apart
    BY <1>10 DEF FillIsEnough, Coalesce, ReleaseRead, NothingHeld, NextRead, AddNextRead,
       WaitForRead, LoadRead, SourceIsOver, EmptySource, BeginCopy, ConsumeBlock, EndCopy
  <2>3. ~CopyBlock
    BY <1>10 DEF FillIsEnough, Coalesce, ReleaseRead, NothingHeld, NextRead, AddNextRead,
       WaitForRead, LoadRead, SourceIsOver, EmptySource, BeginCopy, ConsumeBlock, EndCopy, CopyBlock, AfterFill, mainVars
  <2>4. ~(OpenSource \/ CloseSource)
    BY <2>2 DEF OpenSource, CloseSource
  <2>5. wNext' = wNext
    BY <2>1 DEF wNext
  <2> QED BY <1>3, <2>1, <2>2, <2>3, <2>4, <2>5
<1>11. CASE ReaderRuns \/ MainWakesForNothing \/ CopyIsDone \/ UNCHANGED copyVars
  <2>1. UNCHANGED <<dst, storedSkips, wAccepted, wQueued, writeData, wStage, wStarted, pc>>
    BY <1>11 DEF ReaderRuns, MainWakesForNothing, CopyIsDone, copyVars, writeVars, wPool, mainVars
  <2>2. ~(OpenSource \/ CloseSource \/ CopyBlock)
    BY <2>1 DEF OpenSource, CloseSource, CopyBlock
  <2>3. wNext' = wNext
    BY <2>1 DEF wNext
  <2>4. CASE pc \in Apart
    BY <2>1, <2>4 DEF WriteOrderInv
  <2> QED BY <1>3, <2>1, <2>2, <2>3, <2>4
<1>12. CASE MainStep
  BY <1>4, <1>5, <1>6, <1>7, <1>10, <1>12 DEF MainStep
<1>13. CASE WriterRuns
  BY <1>8, <1>9, <1>13 DEF WriterRuns, WriterStep
<1> QED BY <1>11, <1>12, <1>13 DEF CopyNext

\* What the copy keeps, the data in it included.
CopiedInv == CopyInvs /\ LoadedInv /\ DstInv /\ WriteOrderInv

\* The data is in order in every state of the copy.
LEMMA CopiedAlways == CopySpec => []CopiedInv
<1>1. ASSUME CopyInit PROVE LoadedInv /\ DstInv /\ WriteOrderInv
  <2>1. /\ coalesceBuffer = <<>> /\ srcBuffer.loaded = 0 /\ waitingOnOffset = 0 /\ pc = "open"
    BY <1>1 DEF CopyInit, ReadInit, EmptyBuffer
  <2>2. LoadedInv
    BY <2>1, EmptySeq DEF LoadedInv, Filling, BeforeCopy
  <2>3. WriteOrderInv
    BY <2>1 DEF WriteOrderInv, Apart
  <2>4. /\ sparse \in BOOLEAN /\ dst = EmptyFile /\ storedSkips = 0 /\ writeData = [j \in JobIds |-> <<>>]
    BY <1>1 DEF CopyInit, WriteInit
  <2>5. dst \in [content : Seq(Nat), gap : Nat] /\ dst.gap = 0
    BY <2>4, EmptySeq DEF EmptyFile
  <2>6. writeData \in [JobIds -> Seq(Nat)]
    BY <2>4, EmptySeq
  <2>7. DstInv
    BY <2>1, <2>4, <2>5, <2>6 DEF DstInv
  <2> QED BY <2>2, <2>3, <2>7
<1>2. ASSUME CopyInvs, LoadedInv, DstInv, WriteOrderInv, [CopyNext]_copyVars
      PROVE  LoadedInv' /\ DstInv' /\ WriteOrderInv'
  BY <1>2, LoadedStays, DstStays, WritesStayInOrder
<1> QED BY <1>1, <1>2, CopyInvsHold, PTL DEF CopySpec, CopiedInv

\* A first piece is what a sequence begins with.
LEMMA FirstPieceIsPrefix ==
  ASSUME NEW c \in Seq(Nat), NEW d, NEW y, IsPiece(d, c, 0, y)
  PROVE  IsPrefix(d, c)
<1>1. /\ d \in Seq(Nat) /\ y \in Nat /\ y <= Len(c) /\ Len(d) = y /\ Len(c) \in Nat
      /\ \A i \in 1..Len(d) : d[i] = c[i]
  <2>1. /\ d \in Seq(Nat) /\ y \in Nat /\ y <= Len(c) /\ Len(d) = y - 0
        /\ \A i \in 1..Len(d) : d[i] = c[0 + i]
    BY DEF IsPiece
  <2>2. \A i \in 1..Len(d) : 0 + i = i
    OBVIOUS
  <2> QED BY <2>1, <2>2, LenProperties
<1>2. IsPiece(SubSeq(d, 0 + 1, y), d, 0, y) /\ IsPiece(SubSeq(c, 0 + 1, y), c, 0, y)
  BY <1>1, PartIsPiece
<1> DEFINE a == SubSeq(d, 1, y)
           b == SubSeq(c, 1, y)
<1>3. IsPiece(a, d, 0, y) /\ IsPiece(b, c, 0, y)
  BY <1>2
<1> HIDE DEF a, b
<1>4. /\ a \in Seq(Nat) /\ b \in Seq(Nat) /\ Len(a) = y /\ Len(b) = y
      /\ \A i \in 1..y : a[i] = d[i] /\ b[i] = c[i]
  <2>1. \A i \in 1..y : 0 + i = i
    OBVIOUS
  <2>2. Len(a) = y - 0 /\ Len(b) = y - 0 /\ a \in Seq(Nat) /\ b \in Seq(Nat)
        /\ (\A i \in 1..Len(a) : a[i] = d[0 + i]) /\ (\A i \in 1..Len(b) : b[i] = c[0 + i])
    BY <1>3 DEF IsPiece
  <2>3. Len(a) = y /\ Len(b) = y
    BY <1>1, <2>2
  <2> QED BY <2>1, <2>2, <2>3
<1>5. a = b
  <2>1. \A i \in 1..Len(a) : a[i] = b[i]
    BY <1>1, <1>4
  <2> QED BY <1>4, <2>1, SeqEqual
<1>6. SubSeq(d, 1, Len(d)) = SubSeq(c, 1, Len(d))
  BY <1>1, <1>5 DEF a, b
<1> QED BY <1>1, <1>6 DEF IsPrefix

\* FIO_passThrough copies its source, for every size of a read, a block, a
\* word, a segment and the pools, with and without holes in the file and
\* whatever the three threads do: what was written is what the source begins
\* with, and all of it when the destination is closed.
THEOREM CopyIsSource == CopySpec => []CopiesSource
<1>1. ASSUME CopiedInv PROVE CopiesSource
  <2>1. /\ DstInv /\ WriteOrderInv /\ FilesInv /\ ReadOrderInv
        /\ files[fileNo] \in Seq(Nat)
    BY <1>1, FilesStay DEF CopiedInv, CopyInvs
  <2>2. dst \in [content : Seq(Nat), gap : Nat] /\ storedSkips \in Nat
    BY <2>1 DEF DstInv
  <2>3. ASSUME pc \in {"closeSrc", "done"}
        PROVE  dst.content = files[fileNo] /\ dst.gap = 0 /\ storedSkips = 0
    BY <2>1, <2>3 DEF DstInv, Apart
  <2>4. ASSUME pc = "closeSrc" PROVE dst = [content |-> files[fileNo], gap |-> 0]
    BY <2>2, <2>3, <2>4
  <2>5. ASSUME pc \notin {"open", "start", "startAdd"} PROVE IsPrefix(Padded(dst, storedSkips), files[fileNo])
    <3>1. CASE pc \in {"closeSrc", "done"}
      <4> DEFINE c == files[fileNo]
      <4>1. Padded(dst, storedSkips) = c \o Zeros(0 + 0)
        BY <2>3, <3>1 DEF Padded
      <4>2. Zeros(0 + 0) = <<>>
        BY DEF Zeros
      <4> HIDE DEF c
      <4>3. c \o <<>> = c
        BY <2>1, ConcatEmptySeq DEF c
      <4>4. IsPrefix(c, c)
        <5>1. Len(c) <= Len(c)
          BY <2>1, LenProperties DEF c
        <5> QED BY <5>1 DEF IsPrefix
      <4> QED BY <4>1, <4>2, <4>3, <4>4 DEF c
    <3>2. CASE pc \notin {"closeSrc", "done"}
      <4>1. PICK b : WriteOrder(b)
        BY <2>1, <2>5, <3>2 DEF WriteOrderInv, Apart
      <4>2. IsPiece(Padded(dst, storedSkips), src.content, 0, b[wNext])
        BY <4>1 DEF WriteOrder
      <4>3. src.content = files[fileNo]
        BY <2>1, <2>5, <3>2 DEF DstInv
      <4> QED BY <2>1, <4>2, <4>3, FirstPieceIsPrefix
    <3> QED BY <3>1, <3>2
  <2> QED BY <2>4, <2>5 DEF CopiesSource
<1> QED BY <1>1, CopiedAlways, PTL

=============================================================================
