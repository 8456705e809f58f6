------------------------------- MODULE IOPool -------------------------------
(***************************************************************************)
(* What the read pool and the write pool of zstd's programs share          *)
(* (IOPoolCtx_t of programs/fileio_asyncio.c): a fixed number of jobs with *)
(* a buffer each, acquired and released by number, and a thread pool of    *)
(* one thread whose queue leaves two of the jobs out.  Without asyncIO     *)
(* there are two jobs and no thread.                                       *)
(***************************************************************************)
EXTENDS Integers, Sequences, SequencesExt, FiniteSetsExt

CONSTANTS MaxIOJobs,  \* MAX_IO_JOBS
          NoIOJob       \* no job is held

ASSUME IOPoolAssumption == MaxIOJobs \in Nat /\ MaxIOJobs > 2 /\ NoIOJob \notin Nat

VARIABLE asyncIO  \* FIO_prefs_t.asyncIO

JobIds == 1..MaxIOJobs

totalIoJobs == IF asyncIO THEN MaxIOJobs ELSE 2

\* Mutant of QueueRoom: one more job waits than the comment allows.
QueueRoomPlusOne == MaxIOJobs - 1

\* POOL_create(1, MAX_IO_JOBS - 2): one buffer is being filled and one is in
\* the hands of the thread.
QueueRoom == MaxIOJobs - 2

\* availableJobs is used as a stack.
Released(available, job) == Append(available, job)
Acquired(available) == Front(available)
TopJob(available) == Last(available)

\* A pool that was just created.
NewAvailable == [i \in 1..totalIoJobs |-> i]

=============================================================================
