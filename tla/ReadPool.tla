------------------------------ MODULE ReadPool ------------------------------
(***************************************************************************)
(* The read pool (programs/fileio_asyncio.c): its thread reads ahead into  *)
(* the buffers of queued jobs, and the consumer takes completed jobs in    *)
(* the order of their offsets.  The thread pool is the one JobPool         *)
(* promises, with one worker.                                              *)
(***************************************************************************)
EXTENDS IOPool

CONSTANT ReadSize   \* jobBufferSize: ZSTD_DStreamInSize

ASSUME ReadAssumption == ReadSize \in Nat \ {0}

VARIABLES
  src,                 \* the source file: its content and the read position
  rAccepted, rStarted, rFinished,   \* the thread pool
  rQueued,             \* the job behind each number of the thread pool
  rStage,              \* where its thread is
  readJob,             \* IOJob_t: offset and the bytes read
  rAvailable, completed, held, waiting,
  reachedEof, nextReadOffset, waitingOnOffset

rPool == <<rAccepted, rStarted, rFinished, rQueued>>
rOffsets == <<nextReadOffset, waitingOnOffset>>
readVars == <<src, rPool, rStage, readJob, rAvailable, completed, held, waiting,
              reachedEof, rOffsets>>

ReadQueue == INSTANCE JobPool WITH
  room <- QueueRoom, accepted <- rAccepted, started <- rStarted,
  finished <- rFinished, open <- TRUE

ReadInit ==
  /\ src = [content |-> <<>>, pos |-> 0]
  /\ ReadQueue!JobPoolInit
  /\ rQueued = <<>>
  /\ rStage = "idle"
  /\ readJob = [j \in JobIds |-> [offset |-> 0, data |-> <<>>]]
  /\ rAvailable = NewAvailable
  /\ completed = {}
  /\ held = NoIOJob
  /\ waiting = FALSE
  /\ reachedEof = FALSE
  /\ nextReadOffset = 0
  /\ waitingOnOffset = 0

-----------------------------------------------------------------------------
(***************************************************************************)
(* AIO_ReadPool_executeReadJob.                                            *)
(***************************************************************************)

\* What fread leaves in the job; a short read is the end of the file.
Fread(job) ==
  LET to == IF reachedEof THEN src.pos
            ELSE Min({src.pos + ReadSize, Len(src.content)})
  IN /\ readJob' = [readJob EXCEPT ![job].data = SubSeq(src.content, src.pos + 1, to)]
     /\ src' = [src EXCEPT !.pos = to]
     /\ reachedEof' = (to - src.pos < ReadSize)

\* Mutant of AddJobToCompleted: the consumer is not signalled.
AddJobToCompletedSilently(job) ==
  /\ completed' = completed \union {job}
  /\ UNCHANGED waiting

\* AIO_ReadPool_addJobToCompleted, with the signal to the consumer.
AddJobToCompleted(job) ==
  /\ completed' = completed \union {job}
  /\ waiting' = FALSE

ReaderStarts ==
  /\ rStage = "idle"
  /\ ReadQueue!Start
  /\ rStage' = "read"
  /\ UNCHANGED <<src, rQueued, readJob, rAvailable, completed, held, waiting,
                 reachedEof, rOffsets>>

ReaderReads ==
  /\ rStage = "read"
  /\ Fread(rQueued[rStarted])
  /\ rStage' = "add"
  /\ UNCHANGED <<rPool, rAvailable, completed, held, waiting, rOffsets>>

ReaderCompletes ==
  /\ rStage = "add"
  /\ AddJobToCompleted(rQueued[rStarted])
  /\ rStage' = "end"
  /\ UNCHANGED <<src, rPool, readJob, rAvailable, held, reachedEof, rOffsets>>

\* The job's function returned to the thread pool.
ReaderEnds ==
  /\ rStage = "end"
  /\ ReadQueue!Finish(rStarted)
  /\ rStage' = "idle"
  /\ UNCHANGED <<src, rQueued, readJob, rAvailable, completed, held, waiting,
                 reachedEof, rOffsets>>

ReaderStep == ReaderStarts \/ ReaderReads \/ ReaderCompletes \/ ReaderEnds

-----------------------------------------------------------------------------
(***************************************************************************)
(* What the consumer's thread does with the pool.                          *)
(***************************************************************************)

\* Mutant of SetSource: the job that is held is forgotten.
SetSourceLeakingHeld(content) ==
  /\ ReadQueue!Idle
  /\ rAvailable' = rAvailable \o SetToSeq(completed)
  /\ completed' = {}
  /\ held' = NoIOJob
  /\ src' = [content |-> content, pos |-> 0]
  /\ nextReadOffset' = 0
  /\ waitingOnOffset' = 0
  /\ reachedEof' = FALSE
  /\ UNCHANGED <<rPool, rStage, readJob, waiting>>

\* AIO_ReadPool_setFile: all queued reads are over, every job is released,
\* the new file is read from its start.
SetSource(content) ==
  LET left == SetToSeq(completed) \o IF held = NoIOJob THEN <<>> ELSE <<held>>
  IN /\ ReadQueue!Idle
     /\ rAvailable' = rAvailable \o left
     /\ completed' = {}
     /\ held' = NoIOJob
     /\ src' = [content |-> content, pos |-> 0]
     /\ nextReadOffset' = 0
     /\ waitingOnOffset' = 0
     /\ reachedEof' = FALSE
     /\ UNCHANGED <<rPool, rStage, readJob, waiting>>

\* The first half of AIO_ReadPool_enqueueRead: acquire a job for the next offset.
AcquireRead ==
  LET job == TopJob(rAvailable)
  IN /\ rAvailable' = Acquired(rAvailable)
     /\ readJob' = [readJob EXCEPT ![job] = [offset |-> nextReadOffset, data |-> <<>>]]
     /\ nextReadOffset' = nextReadOffset + ReadSize
     /\ UNCHANGED <<src, rPool, rStage, completed, held, waiting, reachedEof, waitingOnOffset>>

\* The second half: POOL_add, or the read itself when there is no thread.
EnqueueRead(job) ==
  \/ /\ asyncIO
     /\ ReadQueue!Accept
     /\ rQueued' = Append(rQueued, job)
     /\ UNCHANGED <<src, rStage, readJob, rAvailable, completed, held, waiting,
                    reachedEof, rOffsets>>
  \/ /\ ~asyncIO
     /\ Fread(job)
     /\ AddJobToCompleted(job)
     /\ UNCHANGED <<rPool, rStage, rAvailable, held, rOffsets>>

ReleaseHeld ==
  /\ held # NoIOJob
  /\ rAvailable' = Released(rAvailable, held)
  /\ held' = NoIOJob
  /\ UNCHANGED <<src, rPool, rStage, readJob, completed, waiting, reachedEof, rOffsets>>

\* The jobs whose offset is the next one the consumer needs.
NextCompleted == {j \in completed : readJob[j].offset = waitingOnOffset}

\* AIO_ReadPool_numReadsInFlight, when no job is held.
ReadsInFlight == totalIoJobs - (Len(rAvailable) + Cardinality(completed)
                                + (IF held = NoIOJob THEN 0 ELSE 1))

\* AIO_ReadPool_getNextCompletedJob finds the job, has to wait, or gives up.
TakeCompleted(job) ==
  /\ ~waiting
  /\ job \in NextCompleted
  /\ completed' = completed \ {job}
  /\ held' = job
  /\ waitingOnOffset' = waitingOnOffset + Len(readJob[job].data)
  /\ UNCHANGED <<src, rPool, rStage, readJob, rAvailable, waiting, reachedEof, nextReadOffset>>

WaitForCompleted ==
  /\ ~waiting
  /\ NextCompleted = {}
  /\ ReadsInFlight > 0
  /\ waiting' = TRUE
  /\ UNCHANGED <<src, rPool, rStage, readJob, rAvailable, completed, held, reachedEof, rOffsets>>

\* cond_wait may return without a signal.
ConsumerWakesForNothing ==
  /\ waiting
  /\ waiting' = FALSE
  /\ UNCHANGED <<src, rPool, rStage, readJob, rAvailable, completed, held, reachedEof, rOffsets>>

NoMoreReads ==
  /\ ~waiting
  /\ NextCompleted = {}
  /\ ReadsInFlight = 0
  /\ UNCHANGED readVars

=============================================================================
