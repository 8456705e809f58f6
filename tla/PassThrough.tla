---------------------------- MODULE PassThrough ----------------------------
(***************************************************************************)
(* FIO_passThrough (programs/fileio.c) between a read pool and a write     *)
(* pool, for one source file after the other: the main thread fills its    *)
(* source buffer from completed reads, joining two of them in the coalesce *)
(* buffer when a block spans both, and hands blocks to the write pool,     *)
(* while the two pool threads read ahead and write behind.                 *)
(***************************************************************************)
EXTENDS ReadPool, WritePool

CONSTANTS
  BlockSize,   \* the block copied at a time, at most a read's or a write's size
  MagicSize,   \* the bytes FIO_decompressFrames looks at first
  FileLists    \* the contents of the source files, one list for each behaviour

ASSUME PassThroughAssumption ==
  /\ BlockSize \in 1..ReadSize
  /\ MagicSize \in 1..ReadSize
  /\ \A list \in FileLists : list \in Seq(Seq(Nat)) /\ list # <<>>

VARIABLES
  files,      \* contents of the source files
  fileNo,     \* the one that is copied
  pc,         \* where the main thread is
  want,       \* the argument of fillBuffer
  turn,       \* i of AIO_ReadPool_startReading
  newRead,    \* the read job it has acquired and not queued
  writeJob,   \* the write job it holds
  srcBuffer,  \* job (NoIOJob: the coalesce buffer), start in it, bytes loaded
  coalesceBuffer

args == <<files, fileNo, want, turn>>
jobs == <<newRead, writeJob>>
buffers == <<srcBuffer, coalesceBuffer>>
mainVars == <<pc, args, jobs, buffers>>
copyVars == <<asyncIO, readVars, writeVars, mainVars>>

EmptyBuffer == [job |-> NoIOJob, from |-> 0, loaded |-> 0]

CopyInit ==
  /\ asyncIO \in BOOLEAN
  /\ ReadInit
  /\ WriteInit
  /\ files \in FileLists
  /\ fileNo = 1
  /\ pc = "open"
  /\ want = MagicSize
  /\ turn = 0
  /\ newRead = NoIOJob
  /\ writeJob = NoIOJob
  /\ srcBuffer = EmptyBuffer
  /\ coalesceBuffer = <<>>

\* The first n bytes of the source buffer.
Loaded(n) ==
  LET buffer == IF srcBuffer.job = NoIOJob THEN coalesceBuffer ELSE readJob[srcBuffer.job].data
  IN SubSeq(buffer, srcBuffer.from + 1, srcBuffer.from + n)

-----------------------------------------------------------------------------
(***************************************************************************)
(* AIO_ReadPool_setFile and the reads it starts.                           *)
(***************************************************************************)

OpenSource ==
  /\ pc = "open"
  /\ SetSource(files[fileNo])
  /\ srcBuffer' = EmptyBuffer
  /\ turn' = 0
  /\ want' = MagicSize
  /\ pc' = "start"
  /\ UNCHANGED <<asyncIO, writeVars, files, fileNo, jobs, coalesceBuffer>>

\* One turn of a loop that compares i with a count every turn lowers.
StartRead ==
  /\ pc = "start" /\ turn < Len(rAvailable)
  /\ AcquireRead
  /\ newRead' = TopJob(rAvailable)
  /\ turn' = turn + 1
  /\ pc' = "startAdd"
  /\ UNCHANGED <<asyncIO, writeVars, files, fileNo, want, writeJob, buffers>>

AddStartRead ==
  /\ pc = "startAdd"
  /\ EnqueueRead(newRead)
  /\ newRead' = NoIOJob
  /\ pc' = "start"
  /\ UNCHANGED <<asyncIO, writeVars, args, writeJob, buffers>>

OpenDestination ==
  /\ pc = "start" /\ turn >= Len(rAvailable)
  /\ SetDestination
  /\ pc' = "fill"
  /\ UNCHANGED <<asyncIO, readVars, args, jobs, buffers>>

-----------------------------------------------------------------------------
(***************************************************************************)
(* AIO_ReadPool_fillBuffer.                                                *)
(***************************************************************************)

\* What follows its return: the magic number was looked at, or a block.
AfterFill == IF writeJob = NoIOJob THEN "magic" ELSE "copy"

FillIsEnough ==
  /\ pc = "fill" /\ srcBuffer.loaded >= want
  /\ pc' = AfterFill
  /\ UNCHANGED <<asyncIO, readVars, writeVars, args, jobs, buffers>>

\* The bytes that are left move to the start of the coalesce buffer.
Coalesce ==
  /\ pc = "fill" /\ srcBuffer.loaded < want
  /\ IF srcBuffer.loaded > 0
     THEN /\ coalesceBuffer' = Loaded(srcBuffer.loaded)
          /\ srcBuffer' = [EmptyBuffer EXCEPT !.loaded = srcBuffer.loaded]
     ELSE UNCHANGED buffers
  /\ pc' = "release"
  /\ UNCHANGED <<asyncIO, readVars, writeVars, args, jobs>>

\* AIO_ReadPool_releaseCurrentHeldAndGetNext, and the read it enqueues.
ReleaseRead ==
  /\ pc = "release"
  /\ ReleaseHeld
  /\ pc' = "reacquire"
  /\ UNCHANGED <<asyncIO, writeVars, args, jobs, buffers>>

NothingHeld ==
  /\ pc = "release" /\ held = NoIOJob
  /\ pc' = "next"
  /\ UNCHANGED <<asyncIO, readVars, writeVars, args, jobs, buffers>>

NextRead ==
  /\ pc = "reacquire"
  /\ AcquireRead
  /\ newRead' = TopJob(rAvailable)
  /\ pc' = "readAdd"
  /\ UNCHANGED <<asyncIO, writeVars, args, writeJob, buffers>>

AddNextRead ==
  /\ pc = "readAdd"
  /\ EnqueueRead(newRead)
  /\ newRead' = NoIOJob
  /\ pc' = "next"
  /\ UNCHANGED <<asyncIO, writeVars, args, writeJob, buffers>>

WaitForRead ==
  /\ pc = "next"
  /\ WaitForCompleted
  /\ UNCHANGED <<asyncIO, writeVars, mainVars>>

\* The next read is there: it joins the bytes that were left, or is used in
\* its own buffer.
LoadRead ==
  /\ pc = "next"
  /\ \E job \in NextCompleted :
       LET data == readJob[job].data
       IN /\ TakeCompleted(job)
          /\ IF srcBuffer.loaded > 0
             THEN /\ coalesceBuffer' = coalesceBuffer \o data
                  /\ srcBuffer' = [srcBuffer EXCEPT !.loaded = @ + Len(data)]
             ELSE /\ srcBuffer' = [job |-> job, from |-> 0, loaded |-> Len(data)]
                  /\ UNCHANGED coalesceBuffer
  /\ pc' = AfterFill
  /\ UNCHANGED <<asyncIO, writeVars, args, jobs>>

SourceIsOver ==
  /\ pc = "next"
  /\ NoMoreReads
  /\ pc' = AfterFill
  /\ UNCHANGED <<asyncIO, writeVars, args, jobs, buffers>>

-----------------------------------------------------------------------------
(***************************************************************************)
(* FIO_decompressFrames up to FIO_passThrough, and its loop.               *)
(***************************************************************************)

\* An empty source is an error; nothing is written.
EmptySource ==
  /\ pc = "magic" /\ srcBuffer.loaded = 0
  /\ pc' = "closeDst"
  /\ UNCHANGED <<asyncIO, readVars, writeVars, args, jobs, buffers>>

BeginCopy ==
  /\ pc = "magic" /\ srcBuffer.loaded > 0
  /\ AcquireWrite
  /\ writeJob' = TopJob(wAvailable)
  /\ want' = BlockSize
  /\ pc' = "fill"
  /\ UNCHANGED <<asyncIO, readVars, files, fileNo, turn, newRead, buffers>>

WriteSize == Min({BlockSize, srcBuffer.loaded})

\* The block is copied into the write job and queued.
CopyBlock ==
  /\ pc = "copy" /\ srcBuffer.loaded > 0
  /\ EnqueueWrite(writeJob, Loaded(WriteSize))
  /\ pc' = "consume"
  /\ UNCHANGED <<asyncIO, readVars, args, jobs, buffers>>

\* The next write job is acquired, the block consumed.
ConsumeBlock ==
  /\ pc = "consume"
  /\ AcquireWrite
  /\ writeJob' = TopJob(wAvailable)
  /\ srcBuffer' = [srcBuffer EXCEPT !.from = @ + WriteSize, !.loaded = @ - WriteSize]
  /\ pc' = "fill"
  /\ UNCHANGED <<asyncIO, readVars, args, newRead, coalesceBuffer>>

EndCopy ==
  /\ pc = "copy" /\ srcBuffer.loaded = 0
  /\ ReleaseWrite(writeJob)
  /\ writeJob' = NoIOJob
  /\ pc' = "endSparse"
  /\ UNCHANGED <<asyncIO, readVars, args, newRead, buffers>>

EndSparse ==
  /\ pc = "endSparse"
  /\ SparseWriteEnd
  /\ pc' = "closeDst"
  /\ UNCHANGED <<asyncIO, readVars, args, jobs, buffers>>

\* AIO_WritePool_closeFile ends the sparse write once more.
CloseDestination ==
  /\ pc = "closeDst"
  /\ SparseWriteEnd
  /\ pc' = "closeSrc"
  /\ UNCHANGED <<asyncIO, readVars, args, jobs, buffers>>

\* AIO_ReadPool_setFile without a file, then the next source.
CloseSource ==
  /\ pc = "closeSrc"
  /\ SetSource(<<>>)
  /\ srcBuffer' = EmptyBuffer
  /\ IF fileNo < Len(files)
     THEN fileNo' = fileNo + 1 /\ pc' = "open"
     ELSE fileNo' = fileNo /\ pc' = "done"
  /\ UNCHANGED <<asyncIO, writeVars, files, want, turn, jobs, coalesceBuffer>>

-----------------------------------------------------------------------------
MainStep == \/ OpenSource \/ StartRead \/ AddStartRead \/ OpenDestination
            \/ FillIsEnough \/ Coalesce \/ ReleaseRead \/ NothingHeld
            \/ NextRead \/ AddNextRead \/ WaitForRead \/ LoadRead \/ SourceIsOver
            \/ EmptySource \/ BeginCopy \/ CopyBlock \/ ConsumeBlock \/ EndCopy
            \/ EndSparse \/ CloseDestination \/ CloseSource

ReaderRuns == ReaderStep /\ UNCHANGED <<asyncIO, writeVars, mainVars>>

WriterRuns == WriterStep /\ UNCHANGED <<asyncIO, readVars, mainVars>>

MainWakesForNothing == ConsumerWakesForNothing /\ UNCHANGED <<asyncIO, writeVars, mainVars>>

CopyIsDone == pc = "done" /\ UNCHANGED copyVars

CopyNext == MainStep \/ ReaderRuns \/ WriterRuns \/ MainWakesForNothing \/ CopyIsDone

CopySpec == CopyInit /\ [][CopyNext]_copyVars

\* The three threads run when they can; no wake-up comes for nothing because
\* it is needed.
FairCopySpec ==
  /\ CopySpec
  /\ WF_copyVars(MainStep) /\ WF_copyVars(ReaderRuns) /\ WF_copyVars(WriterRuns)

-----------------------------------------------------------------------------
(***************************************************************************)
(* Properties.                                                             *)
(***************************************************************************)

\* At every moment the destination holds a first part of the source, the
\* skipped zeros included, whatever the three threads did and in whatever
\* sizes the reads and the blocks came; when it is closed it holds all of it,
\* and nothing is left to a seek.
CopiesSource ==
  /\ pc \notin {"open", "start", "startAdd"} /\ fileNo = Len(files) =>
       IsPrefix(Padded(dst, storedSkips), files[fileNo])
  /\ pc = "closeSrc" => dst = [content |-> files[fileNo], gap |-> 0]

\* The jobs queued in a thread pool and not yet given back by its thread.
InFlight(queued, finished, gone) ==
  SubSeq(queued, Cardinality(finished) + (IF gone THEN 2 ELSE 1), Len(queued))

\* The places share no job, and together they have all.
OneOwner(places) ==
  /\ UNION {places[i] : i \in DOMAIN places} = 1..totalIoJobs
  /\ \A i, j \in DOMAIN places : i # j => places[i] \intersect places[j] = {}

ReadsInFlightNow == InFlight(rQueued, rFinished, rStage = "end")
WritesInFlightNow == InFlight(wQueued, wFinished, wStage = "end")

\* Every job is in one place: available, queued or with the pool's thread,
\* completed, held, or acquired by the main thread, and it is there once.  So
\* none leaks (the assertions of AIO_IOPool_setFile and AIO_IOPool_destroy) and
\* no buffer is used by two threads.
JobsHaveOneOwner ==
  /\ OneOwner(<<ToSet(rAvailable), completed, {held} \ {NoIOJob},
                {newRead} \ {NoIOJob}, ToSet(ReadsInFlightNow)>>)
  /\ OneOwner(<<ToSet(wAvailable), ToSet(WritesInFlightNow),
                IF pc = "consume" THEN {} ELSE {writeJob} \ {NoIOJob}>>)
  /\ IsInjective(rAvailable) /\ IsInjective(ReadsInFlightNow)
  /\ IsInjective(wAvailable) /\ IsInjective(WritesInFlightNow)

\* The assertions of AIO_IOPool_acquireJob and FIO_passThrough hold: a job is
\* available whenever one is acquired, since the queue has room for all but two
\* of them, and the end of the source was seen when nothing is left to copy.
\* Neither does the copy into the coalesce buffer overlap what it copies.
AssertionsHold ==
  /\ pc = "reacquire" => rAvailable # <<>>
  /\ pc \in {"magic", "consume"} => wAvailable # <<>>
  /\ pc = "copy" /\ srcBuffer.loaded = 0 => reachedEof
  /\ pc = "fill" /\ srcBuffer.job = NoIOJob /\ srcBuffer.loaded \in 1..(want - 1)
       => srcBuffer.from >= srcBuffer.loaded

\* All files are copied: nobody waits for a read that does not come, for room
\* in a queue or for the end of the writes for ever.
CopyEnds == <>(pc = "done")

=============================================================================
