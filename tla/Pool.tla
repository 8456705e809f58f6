-------------------------------- MODULE Pool --------------------------------
(***************************************************************************)
(* The thread pool of zstd (lib/common/pool.c): a circular queue of jobs,  *)
(* workers that wait on queuePopCond, callers that wait on queuePushCond,  *)
(* and a number of threads that POOL_resize changes while they run.        *)
(*                                                                         *)
(* A critical section of queueMutex is one step, from the lock (or the     *)
(* return of cond_wait) to the unlock (or the next cond_wait).  A job is   *)
(* its number in the order of acceptance.                                  *)
(***************************************************************************)
EXTENDS Integers, Sequences, FiniteSets

CONSTANTS
  MaxThreads,   \* bound: no call asks for more threads
  MaxJobs,      \* bound: jobs submitted
  MaxResizes,   \* bound: calls of POOL_resize
  QueueSizes,   \* values of the queueSize argument
  Callers,      \* threads that use the pool
  NoJob

ASSUME PoolAssumption ==
  /\ MaxThreads \in Nat \ {0}
  /\ MaxJobs \in Nat
  /\ MaxResizes \in Nat
  /\ QueueSizes \subseteq Nat
  /\ NoJob \notin Nat

Workers == 1..MaxThreads
Jobs == 1..MaxJobs

VARIABLES
  queueSize,   \* length of queue: one more than the argument
  queue, queueHead, queueTail, queueEmpty,
  numThreadsBusy, threadLimit, threadCapacity, shutdown,
  phase,       \* of the pool's life: POOL_create, in use, POOL_free
  wpc,         \* where each worker is
  job,         \* the job it runs
  cpc,         \* where each caller is
  resizes,
  accepted, started, finished   \* history

ctxVars == <<queueSize, queue, queueHead, queueTail, queueEmpty,
             numThreadsBusy, threadLimit, threadCapacity, shutdown>>
history == <<accepted, started, finished>>
vars == <<ctxVars, phase, wpc, job, cpc, resizes, history>>

Waiting == {w \in Workers : wpc[w] = "popWait"}
Pushing == {c \in Callers : cpc[c] \in {"addWait", "joinWait"}}
Created == {w \in Workers : wpc[w] # "absent"}

\* The place of a caller in its call when it is woken.
Woken(place) == IF place = "addWait" THEN "add" ELSE "join"

\* cond_signal: one of the waiting threads, if there is one.
SignalPop(from) ==
  IF \E w \in Workers : from[w] = "popWait"
  THEN \E w \in Workers : from[w] = "popWait" /\ wpc' = [from EXCEPT ![w] = "ready"]
  ELSE wpc' = from

SignalPush ==
  IF Pushing = {}
  THEN cpc' = cpc
  ELSE \E c \in Pushing : cpc' = [cpc EXCEPT ![c] = Woken(@)]

\* cond_broadcast: all of them.
BroadcastPop(from) ==
  wpc' = [w \in Workers |-> IF from[w] = "popWait" THEN "ready" ELSE from[w]]

BroadcastPush ==
  cpc' = [c \in Callers |-> IF c \in Pushing THEN Woken(cpc[c]) ELSE cpc[c]]

-----------------------------------------------------------------------------
(***************************************************************************)
(* POOL_create_advanced.                                                   *)
(***************************************************************************)

Init ==
  /\ \E size \in QueueSizes :
       /\ queueSize = size + 1
       /\ queue = [i \in 0..size |-> NoJob]
  /\ queueHead = 0
  /\ queueTail = 0
  /\ queueEmpty = TRUE
  /\ numThreadsBusy = 0
  /\ threadLimit = 0
  /\ threadCapacity = 0
  /\ shutdown = FALSE
  /\ phase = "create"
  /\ wpc = [w \in Workers |-> "absent"]
  /\ job = [w \in Workers |-> NoJob]
  /\ cpc = [c \in Callers |-> "idle"]
  /\ resizes = 0
  /\ accepted = 0
  /\ started = <<>>
  /\ finished = {}

\* One turn of the loop that creates the threads.
CreateThread ==
  /\ phase = "create"
  /\ Created # Workers
  /\ wpc' = [wpc EXCEPT ![Cardinality(Created) + 1] = "ready"]
  /\ UNCHANGED <<ctxVars, phase, job, cpc, resizes, history>>

\* All numThreads of them are there.
CreateReturns ==
  /\ phase = "create"
  /\ Created # {}
  /\ threadCapacity' = Cardinality(Created)
  /\ threadLimit' = Cardinality(Created)
  /\ phase' = "open"
  /\ UNCHANGED <<queueSize, queue, queueHead, queueTail, queueEmpty, numThreadsBusy,
                 shutdown, wpc, job, cpc, resizes, history>>

\* A thread cannot be created: POOL_free joins the ones that were.
CreateFails ==
  /\ phase = "create"
  /\ Created # Workers
  /\ threadCapacity' = Cardinality(Created)
  /\ phase' = "free"
  /\ UNCHANGED <<queueSize, queue, queueHead, queueTail, queueEmpty, numThreadsBusy,
                 threadLimit, shutdown, wpc, job, cpc, resizes, history>>

-----------------------------------------------------------------------------
(***************************************************************************)
(* POOL_thread.                                                            *)
(***************************************************************************)

NothingToPop == queueEmpty \/ numThreadsBusy >= threadLimit

\* Mutant of Exit: the shutdown is seen before the queue is looked at.
ExitAtOnce(w) ==
  /\ wpc[w] = "ready"
  /\ shutdown
  /\ wpc' = [wpc EXCEPT ![w] = "exited"]
  /\ UNCHANGED <<ctxVars, phase, job, cpc, resizes, history>>

Exit(w) ==
  /\ wpc[w] = "ready"
  /\ NothingToPop /\ shutdown
  /\ wpc' = [wpc EXCEPT ![w] = "exited"]
  /\ UNCHANGED <<ctxVars, phase, job, cpc, resizes, history>>

WaitForJob(w) ==
  /\ wpc[w] = "ready"
  /\ NothingToPop /\ ~shutdown
  /\ wpc' = [wpc EXCEPT ![w] = "popWait"]
  /\ UNCHANGED <<ctxVars, phase, job, cpc, resizes, history>>

\* Mutant of Pop: no pusher is told of the free slot.
PopSilently(w) ==
  /\ wpc[w] = "ready" /\ ~NothingToPop
  /\ job' = [job EXCEPT ![w] = queue[queueHead]]
  /\ queueHead' = (queueHead + 1) % queueSize
  /\ numThreadsBusy' = numThreadsBusy + 1
  /\ queueEmpty' = (queueHead' = queueTail)
  /\ wpc' = [wpc EXCEPT ![w] = "running"]
  /\ started' = Append(started, queue[queueHead])
  /\ UNCHANGED <<queueSize, queue, queueTail, threadLimit, threadCapacity, shutdown,
                 phase, cpc, resizes, accepted, finished>>

\* Mutant of Pop: queueEmpty is computed before the head moves.
PopEmptyTooLate(w) ==
  /\ wpc[w] = "ready" /\ ~NothingToPop
  /\ job' = [job EXCEPT ![w] = queue[queueHead]]
  /\ queueHead' = (queueHead + 1) % queueSize
  /\ numThreadsBusy' = numThreadsBusy + 1
  /\ queueEmpty' = (queueHead = queueTail)
  /\ SignalPush
  /\ wpc' = [wpc EXCEPT ![w] = "running"]
  /\ started' = Append(started, queue[queueHead])
  /\ UNCHANGED <<queueSize, queue, queueTail, threadLimit, threadCapacity, shutdown,
                 phase, resizes, accepted, finished>>

\* Pop a job off the queue and signal a pusher.
Pop(w) ==
  /\ wpc[w] = "ready" /\ ~NothingToPop
  /\ job' = [job EXCEPT ![w] = queue[queueHead]]
  /\ queueHead' = (queueHead + 1) % queueSize
  /\ numThreadsBusy' = numThreadsBusy + 1
  /\ queueEmpty' = (queueHead' = queueTail)
  /\ SignalPush
  /\ wpc' = [wpc EXCEPT ![w] = "running"]
  /\ started' = Append(started, queue[queueHead])
  /\ UNCHANGED <<queueSize, queue, queueTail, threadLimit, threadCapacity, shutdown,
                 phase, resizes, accepted, finished>>

\* The job's function returned: one thread less is busy, signal a pusher.
FinishJob(w) ==
  /\ wpc[w] = "running"
  /\ numThreadsBusy' = numThreadsBusy - 1
  /\ SignalPush
  /\ wpc' = [wpc EXCEPT ![w] = "ready"]
  /\ job' = [job EXCEPT ![w] = NoJob]
  /\ finished' = finished \union {job[w]}
  /\ UNCHANGED <<queueSize, queue, queueHead, queueTail, queueEmpty, threadLimit,
                 threadCapacity, shutdown, phase, resizes, accepted, started>>

-----------------------------------------------------------------------------
(***************************************************************************)
(* The calls.                                                              *)
(***************************************************************************)

isQueueFull ==
  IF queueSize > 1
  THEN queueHead = (queueTail + 1) % queueSize
  ELSE numThreadsBusy = threadLimit \/ ~queueEmpty

(***************************************************************************)
(* How the pool is used: calls are made between POOL_create and POOL_free, *)
(* and POOL_joinJobs only by a caller that shares the pool with nobody     *)
(* (programs/fileio_asyncio.c); the callers that share one add and resize  *)
(* (ZSTD_CCtx_refThreadPool).                                              *)
(***************************************************************************)
MayCall(c) ==
  /\ phase = "open" /\ cpc[c] = "idle"
  /\ \A d \in Callers : cpc[d] \notin {"join", "joinWait"}

MayJoin(c) == MayCall(c) /\ \A d \in Callers : cpc[d] = "idle"

\* Bound: the jobs accepted and the ones of pending calls.
MayAdd(c) ==
  /\ MayCall(c)
  /\ accepted + Cardinality({d \in Callers : cpc[d] \in {"add", "addWait"}}) < MaxJobs

\* Mutant of AddInternal: the worker that waits is not told of the job.
AddInternalSilently ==
  IF shutdown
  THEN UNCHANGED <<queue, queueTail, queueEmpty, wpc, accepted>>
  ELSE /\ queueEmpty' = FALSE
       /\ queue' = [queue EXCEPT ![queueTail] = accepted + 1]
       /\ queueTail' = (queueTail + 1) % queueSize
       /\ accepted' = accepted + 1
       /\ UNCHANGED wpc

\* POOL_add_internal.
AddInternal ==
  IF shutdown
  THEN UNCHANGED <<queue, queueTail, queueEmpty, wpc, accepted>>
  ELSE /\ queueEmpty' = FALSE
       /\ queue' = [queue EXCEPT ![queueTail] = accepted + 1]
       /\ queueTail' = (queueTail + 1) % queueSize
       /\ SignalPop(wpc)
       /\ accepted' = accepted + 1

\* POOL_add finds room, at once or when it wakes.
Add(c) ==
  /\ MayAdd(c) \/ cpc[c] = "add"
  /\ ~isQueueFull \/ shutdown
  /\ AddInternal
  /\ cpc' = [cpc EXCEPT ![c] = "idle"]
  /\ UNCHANGED <<queueSize, queueHead, numThreadsBusy, threadLimit, threadCapacity,
                 shutdown, phase, job, resizes, started, finished>>

\* POOL_add waits for room.
AddWaits(c) ==
  /\ MayAdd(c) \/ cpc[c] = "add"
  /\ isQueueFull /\ ~shutdown
  /\ cpc' = [cpc EXCEPT ![c] = "addWait"]
  /\ UNCHANGED <<ctxVars, phase, wpc, job, resizes, history>>

\* POOL_tryAdd, when there is room; it does nothing when there is none.
TryAdd(c) ==
  /\ MayAdd(c)
  /\ ~isQueueFull
  /\ AddInternal
  /\ UNCHANGED <<queueSize, queueHead, numThreadsBusy, threadLimit, threadCapacity,
                 shutdown, phase, job, cpc, resizes, started, finished>>

\* Mutant of JobsLeft: POOL_joinJobs looks at the queue alone.
JobsInQueue == ~queueEmpty

JobsLeft == ~queueEmpty \/ numThreadsBusy > 0

JoinJobsWaits(c) ==
  /\ MayJoin(c) \/ cpc[c] = "join"
  /\ JobsLeft
  /\ cpc' = [cpc EXCEPT ![c] = "joinWait"]
  /\ UNCHANGED <<ctxVars, phase, wpc, job, resizes, history>>

\* POOL_joinJobs returns to the caller that waited.
JoinJobsReturns(c) ==
  /\ cpc[c] = "join"
  /\ ~JobsLeft
  /\ cpc' = [cpc EXCEPT ![c] = "idle"]
  /\ UNCHANGED <<ctxVars, phase, wpc, job, resizes, history>>

(***************************************************************************)
(* POOL_resize.  A lower number of threads only lowers the limit; a higher *)
(* one creates the missing threads, as many as the system gives.           *)
(***************************************************************************)

\* Mutant of ResizeWithin: the workers that the limit held back sleep on.
ResizeSilently(n) ==
  /\ n <= threadCapacity
  /\ threadLimit' = IF n = 0 THEN threadLimit ELSE n
  /\ UNCHANGED <<numThreadsBusy, threadCapacity, wpc>>

ResizeWithin(n) ==
  /\ n <= threadCapacity
  /\ threadLimit' = IF n = 0 THEN threadLimit ELSE n
  /\ UNCHANGED numThreadsBusy
  /\ BroadcastPop(wpc)
  /\ UNCHANGED threadCapacity

ResizeBeyond(n) ==
  /\ n > threadCapacity
  /\ \E got \in threadCapacity..n :
       /\ BroadcastPop([w \in Workers |-> IF wpc[w] = "absent" /\ w <= got
                                          THEN "ready" ELSE wpc[w]])
       /\ threadCapacity' = got
       /\ threadLimit' = IF got = n THEN n ELSE threadLimit
       /\ UNCHANGED numThreadsBusy

Resize(c) ==
  /\ MayCall(c)
  /\ resizes < MaxResizes
  /\ resizes' = resizes + 1
  /\ \E n \in 0..MaxThreads : ResizeWithin(n) \/ ResizeBeyond(n)
  /\ UNCHANGED <<queueSize, queue, queueHead, queueTail, queueEmpty,
                 shutdown, phase, job, cpc, history>>

-----------------------------------------------------------------------------
(***************************************************************************)
(* POOL_free and POOL_join: shut down under the lock, the two broadcasts   *)
(* outside of it, then join every thread.                                  *)
(***************************************************************************)

BeginFree ==
  /\ phase = "open"
  /\ \A c \in Callers : cpc[c] = "idle"
  /\ phase' = "free"
  /\ UNCHANGED <<ctxVars, wpc, job, cpc, resizes, history>>

ShutDown ==
  /\ phase = "free"
  /\ shutdown' = TRUE
  /\ phase' = "wakePushers"
  /\ UNCHANGED <<queueSize, queue, queueHead, queueTail, queueEmpty, numThreadsBusy,
                 threadLimit, threadCapacity, wpc, job, cpc, resizes, history>>

WakePushers ==
  /\ phase = "wakePushers"
  /\ BroadcastPush
  /\ phase' = "wakePoppers"
  /\ UNCHANGED <<ctxVars, wpc, job, resizes, history>>

\* Mutant of WakePoppers: one worker is woken for all of them.
WakeOnePopper ==
  /\ phase = "wakePoppers"
  /\ SignalPop(wpc)
  /\ phase' = "join"
  /\ UNCHANGED <<ctxVars, job, cpc, resizes, history>>

WakePoppers ==
  /\ phase = "wakePoppers"
  /\ BroadcastPop(wpc)
  /\ phase' = "join"
  /\ UNCHANGED <<ctxVars, job, cpc, resizes, history>>

\* The threads are joined one by one and the context is given back.
FreeReturns ==
  /\ phase = "join"
  /\ \A w \in 1..threadCapacity : wpc[w] = "exited"
  /\ phase' = "freed"
  /\ UNCHANGED <<ctxVars, wpc, job, cpc, resizes, history>>

-----------------------------------------------------------------------------
\* cond_wait may return without a signal.
WakeForNothing ==
  /\ \/ \E w \in Waiting : wpc' = [wpc EXCEPT ![w] = "ready"] /\ UNCHANGED cpc
     \/ \E c \in Pushing : cpc' = [cpc EXCEPT ![c] = Woken(@)] /\ UNCHANGED wpc
  /\ UNCHANGED <<ctxVars, phase, job, resizes, history>>

Terminated == phase = "freed" /\ UNCHANGED vars

WorkerStep(w) == Exit(w) \/ WaitForJob(w) \/ Pop(w) \/ FinishJob(w)

InCall(c) == Add(c) \/ AddWaits(c) \/ JoinJobsWaits(c) \/ JoinJobsReturns(c)

CallerStep(c) == InCall(c) \/ TryAdd(c) \/ Resize(c)

LifeStep == \/ CreateThread
            \/ CreateReturns
            \/ CreateFails
            \/ BeginFree
            \/ ShutDown
            \/ WakePushers
            \/ WakePoppers
            \/ FreeReturns

Next == \/ LifeStep
        \/ \E w \in Workers : WorkerStep(w)
        \/ \E c \in Callers : CallerStep(c)
        \/ WakeForNothing
        \/ Terminated

Spec == Init /\ [][Next]_vars

(***************************************************************************)
(* Every thread that can run does: the workers, a caller woken inside a    *)
(* call, and the thread that frees the pool.  Nobody has to begin a call,  *)
(* and no wake-up comes for nothing because it is needed.                  *)
(***************************************************************************)
FairSpec ==
  /\ Spec
  /\ \A w \in Workers : WF_vars(WorkerStep(w))
  /\ \A c \in Callers : WF_vars(cpc[c] # "idle" /\ InCall(c))
  /\ WF_vars(ShutDown \/ WakePushers \/ WakePoppers \/ FreeReturns)

-----------------------------------------------------------------------------
(***************************************************************************)
(* Properties.                                                             *)
(***************************************************************************)

\* Every variable has its type (struct POOL_ctx_s, and the threads).
TypeOK ==
  /\ queueSize \in Nat \ {0}
  /\ queue \in [0..(queueSize - 1) -> Nat \union {NoJob}]
  /\ queueHead \in 0..(queueSize - 1)
  /\ queueTail \in 0..(queueSize - 1)
  /\ queueEmpty \in BOOLEAN
  /\ numThreadsBusy \in Nat
  /\ threadLimit \in 0..threadCapacity
  /\ threadCapacity \in 0..MaxThreads
  /\ shutdown \in BOOLEAN
  /\ phase \in {"create", "open", "free", "wakePushers", "wakePoppers", "join", "freed"}
  /\ wpc \in [Workers -> {"absent", "ready", "popWait", "running", "exited"}]
  /\ job \in [Workers -> Nat \union {NoJob}]
  /\ cpc \in [Callers -> {"idle", "add", "addWait", "join", "joinWait"}]
  /\ resizes \in 0..MaxResizes
  /\ accepted \in Nat
  /\ started \in Seq(Nat)
  /\ finished \subseteq Nat

\* The circular queue holds the jobs that were accepted and not begun, in
\* their order, and no job was overwritten or begun twice: head and tail may
\* be equal for an empty queue and, in a queue of one slot, for a full one,
\* and queueEmpty has to tell which (POOL_thread, POOL_add_internal).
JobsRunInOrder ==
  /\ started = [i \in 1..Len(started) |-> i]
  /\ queueEmpty <=> (Len(started) = accepted)
  /\ \A i \in (Len(started) + 1)..accepted :
       queue[(queueHead + (i - Len(started) - 1)) % queueSize] = i

\* A job that may run is never left to sleeping workers: when the queue holds
\* one and fewer threads are busy than the limit allows, a worker is awake
\* (add and resize signal, a worker that ends a job looks again).
NoWorkerOversleeps ==
  ~queueEmpty /\ numThreadsBusy < threadLimit => \E w \in Workers : wpc[w] = "ready"

\* No pusher sleeps on while the queue has room: a caller of POOL_add is
\* awake.  Without a queue a raised limit makes room that nobody signals, and
\* the pusher sleeps until a busy worker ends its job.
NoPusherOversleeps ==
  (\E c \in Callers : cpc[c] = "addWait") /\ ~isQueueFull
    => \/ \E c \in Callers : cpc[c] = "add"
       \/ queueSize = 1 /\ numThreadsBusy > 0

\* The pool keeps the promise of pool.h: jobs begin once and in the order of
\* acceptance, no more wait than the queue has slots, and POOL_free gives back
\* control only when all of them are finished, also after POOL_resize lowered
\* the number of threads.
Promise == INSTANCE JobPool WITH
  room <- IF queueSize = 1 THEN 1 ELSE queueSize - 1,
  started <- Len(started),
  open <- phase # "freed"

KeepsPromise == Promise!JobPoolSpec

\* POOL_joinJobs returns when every job accepted so far is finished, not when
\* the queue is empty.
JoinWaitsForAll ==
  [][\A c \in Callers : cpc[c] = "join" /\ cpc'[c] = "idle" => finished = 1..accepted]_vars

\* Every accepted job is run to its end, whoever else calls or sleeps.
JobsFinish == \A n \in Jobs : accepted >= n ~> n \in finished

\* Every call comes back: POOL_add when the queue is full, POOL_joinJobs, and
\* POOL_free with threads asleep or held back by the limit.
CallsReturn ==
  /\ \A c \in Callers : cpc[c] # "idle" ~> cpc[c] = "idle"
  /\ phase = "free" ~> phase = "freed"

=============================================================================
