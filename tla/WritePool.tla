----------------------------- MODULE WritePool -----------------------------
(***************************************************************************)
(* The write pool (programs/fileio_asyncio.c): the producer hands a full   *)
(* buffer over and takes the next one, the pool's thread writes the        *)
(* buffers in the order they were queued and releases them.                *)
(***************************************************************************)
EXTENDS IOPool, SparseWrite

VARIABLES
  sparse,              \* FIO_prefs_t.sparseFileSupport
  dst,                 \* the file that is written
  storedSkips,
  wAccepted, wStarted, wFinished,   \* the thread pool
  wQueued,             \* the job behind each number of the thread pool
  wStage,              \* where its thread is
  writeData,           \* what the buffer of each job holds
  wAvailable

wPool == <<wAccepted, wStarted, wFinished, wQueued>>
writeVars == <<sparse, dst, storedSkips, wPool, wStage, writeData, wAvailable>>

WriteQueue == INSTANCE JobPool WITH
  room <- QueueRoom, accepted <- wAccepted, started <- wStarted,
  finished <- wFinished, open <- TRUE

EmptyFile == [content |-> <<>>, gap |-> 0]

WriteInit ==
  /\ sparse \in BOOLEAN
  /\ dst = EmptyFile
  /\ storedSkips = 0
  /\ WriteQueue!JobPoolInit
  /\ wQueued = <<>>
  /\ wStage = "idle"
  /\ writeData = [j \in JobIds |-> <<>>]
  /\ wAvailable = NewAvailable

-----------------------------------------------------------------------------
(***************************************************************************)
(* AIO_WritePool_executeWriteJob.                                          *)
(***************************************************************************)

WriteOut(job) ==
  LET result == fwriteSparse(dst, writeData[job], sparse, storedSkips)
  IN dst' = result.file /\ storedSkips' = result.skips

WriterStarts ==
  /\ wStage = "idle"
  /\ WriteQueue!Start
  /\ wStage' = "write"
  /\ UNCHANGED <<sparse, dst, storedSkips, wQueued, writeData, wAvailable>>

WriterWrites ==
  /\ wStage = "write"
  /\ WriteOut(wQueued[wStarted])
  /\ wStage' = "release"
  /\ UNCHANGED <<sparse, wPool, writeData, wAvailable>>

WriterReleases ==
  /\ wStage = "release"
  /\ wAvailable' = Released(wAvailable, wQueued[wStarted])
  /\ wStage' = "end"
  /\ UNCHANGED <<sparse, dst, storedSkips, wPool, writeData>>

\* The job's function returned to the thread pool.
WriterEnds ==
  /\ wStage = "end"
  /\ WriteQueue!Finish(wStarted)
  /\ wStage' = "idle"
  /\ UNCHANGED <<sparse, dst, storedSkips, wQueued, writeData, wAvailable>>

WriterStep == WriterStarts \/ WriterWrites \/ WriterReleases \/ WriterEnds

-----------------------------------------------------------------------------
(***************************************************************************)
(* What the producer's thread does with the pool.                          *)
(***************************************************************************)

\* AIO_WritePool_setFile, with all queued writes over.
SetDestination ==
  /\ WriteQueue!Idle
  /\ dst' = EmptyFile
  /\ UNCHANGED <<sparse, storedSkips, wPool, wStage, writeData, wAvailable>>

\* AIO_WritePool_acquireJob.
AcquireWrite ==
  /\ wAvailable' = Acquired(wAvailable)
  /\ UNCHANGED <<sparse, dst, storedSkips, wPool, wStage, writeData>>

\* POOL_add of a job filled with data, or the write itself when there is no
\* thread.
EnqueueWrite(job, data) ==
  \/ /\ asyncIO
     /\ WriteQueue!Accept
     /\ wQueued' = Append(wQueued, job)
     /\ writeData' = [writeData EXCEPT ![job] = data]
     /\ UNCHANGED <<sparse, dst, storedSkips, wStage, wAvailable>>
  \/ /\ ~asyncIO
     /\ LET result == fwriteSparse(dst, data, sparse, storedSkips)
        IN dst' = result.file /\ storedSkips' = result.skips
     /\ writeData' = [writeData EXCEPT ![job] = data]
     /\ wAvailable' = Released(wAvailable, job)
     /\ UNCHANGED <<sparse, wPool, wStage>>

ReleaseWrite(job) ==
  /\ wAvailable' = Released(wAvailable, job)
  /\ UNCHANGED <<sparse, dst, storedSkips, wPool, wStage, writeData>>

\* AIO_WritePool_sparseWriteEnd.
SparseWriteEnd ==
  /\ WriteQueue!Idle
  /\ dst' = fwriteSparseEnd(dst, storedSkips)
  /\ storedSkips' = 0
  /\ UNCHANGED <<sparse, wPool, wStage, writeData, wAvailable>>

=============================================================================
