---------------------------- MODULE MThreadApply ----------------------------
(***************************************************************************)
(* MThreadApply.deltaApply and the MTCompressWorker threads it starts: the *)
(* main thread runs hpatchz, splits the recompression plan, starts a       *)
(* worker per sublist, waits on a CountDownLatch and concatenates the      *)
(* files the workers wrote.  Each worker recompresses one chunk of the     *)
(* delta-friendly new blob through a stream of its own.                    *)
(***************************************************************************)
EXTENDS PartialCompression, ListSplit, FiniteSets

CONSTANTS Plans,       \* recompression plans, as PatchReader lets through
          BlobLen,     \* length of the delta-friendly new blob
          BlockSize,   \* the 1024 bytes a worker reads at a time
          ThreadArgs,  \* values of the threadNum argument, all above 1
          MaxThreads,  \* the largest of them
          Stale,       \* what an earlier run left in a newPatchFile_sub file
          Faults       \* subset of {"hpatchz", "7z", "io", "merge"}

ASSUME MTAssumption ==
  /\ BlobLen \in Nat
  /\ BlockSize \in Nat \ {0}
  /\ MaxThreads \in Nat
  /\ ThreadArgs \subseteq 2..MaxThreads
  /\ Faults \subseteq {"hpatchz", "7z", "io", "merge"}
  /\ \A p \in Plans : p \in Seq(Ranges) /\ InOrder(p)
  /\ Null \notin Params
  /\ Stale \in Items

\* The ranges lie in the blob; as the central directory of the archive
\* follows its entries, none begins where the blob ends.
ASSUME BlobAssumption ==
  \A p \in Plans : \A k \in 1..Len(p) : p[k].offset < BlobLen /\ End(p[k]) <= BlobLen

VARIABLES
  plan,       \* fullList
  threadNum,  \* the argument, then the number of workers
  pc,         \* where the main thread is
  no,         \* the loop variable i of the main thread
  lastProcessPos,
  split,      \* the fields of MTlistSplit
  latch,      \* count of the CountDownLatch
  blobLen,    \* length of the file hpatchz really produced
  newBlob,    \* what the main thread wrote to newBlobOut
  wpc,        \* where each worker is
  chunk,      \* each worker's startIndex and processNum
  haveProcess,
  buffer,     \* the part of tmpdata a worker has not handed to write()
  stream      \* each worker's stream; out is its newPatchFile_sub file

mainVars == <<plan, threadNum, pc, no, lastProcessPos, split, latch, blobLen, newBlob>>
workerVars == <<wpc, chunk, haveProcess, buffer, stream>>
vars == <<mainVars, workerVars>>

Workers == 1..MaxThreads

Init ==
  /\ plan \in Plans
  /\ threadNum \in ThreadArgs
  /\ pc = "diff"
  /\ no = 1
  /\ lastProcessPos = 0
  /\ split = NewSplit(plan)
  /\ latch = 0
  /\ blobLen = 0
  /\ newBlob = <<>>
  /\ wpc = [w \in Workers |-> "new"]
  /\ chunk = [w \in Workers |-> [start |-> 0, processNum |-> 0]]
  /\ haveProcess = [w \in Workers |-> 0]
  /\ buffer = [w \in Workers |-> <<>>]
  /\ stream = [w \in Workers |->
                 [NewStream(<<>>, 0, <<>>) EXCEPT !.out = <<Stale>>]]

-----------------------------------------------------------------------------
(***************************************************************************)
(* The main thread.                                                        *)
(***************************************************************************)

\* exec(hpatchz): only its stderr is read, so a failure is a short file.
RunHpatchz ==
  /\ pc = "diff"
  /\ blobLen' \in IF "hpatchz" \in Faults THEN 0..BlobLen ELSE {BlobLen}
  /\ pc' = "split"
  /\ UNCHANGED <<plan, threadNum, no, lastProcessPos, split, latch, newBlob, workerVars>>

\* Mutant of SplitPlan: the latch is created with the argument.
SplitPlanLatchOfArgument ==
  LET threads == Lesser(threadNum, Len(plan))
  IN /\ pc = "split"
     /\ threadNum' = threads
     /\ IF ConstructorThrows(plan, threads)
        THEN pc' = "threw" /\ UNCHANGED <<latch, split>>
        ELSE pc' = "start" /\ latch' = threadNum /\ split' = NewSplit(plan)
     /\ UNCHANGED <<plan, no, lastProcessPos, blobLen, newBlob, workerVars>>

\* The lesser of the two counts of threads, the MTlistSplit and the latch.
SplitPlan ==
  LET threads == Lesser(threadNum, Len(plan))
  IN /\ pc = "split"
     /\ threadNum' = threads
     /\ IF ConstructorThrows(plan, threads)
        THEN pc' = "threw" /\ UNCHANGED <<latch, split>>
        ELSE pc' = "start" /\ latch' = threads /\ split' = NewSplit(plan)
     /\ UNCHANGED <<plan, no, lastProcessPos, blobLen, newBlob, workerVars>>

\* Mutant of ChunkEnd: what follows the last range is left out.
ChunkEndOfRanges(partEnd) == partEnd

\* The last worker takes what follows the last range, too.
ChunkEnd(partEnd) == IF no = threadNum THEN blobLen ELSE partEnd

(***************************************************************************)
(* One turn of the loop: the sublist, the end of its last range, a worker  *)
(* for the bytes from the previous end to it (to the end of the file for   *)
(* the last one).  The worker runs from here on.                           *)
(***************************************************************************)
StartWorker ==
  LET sub == GetSubList(plan, threadNum, no - 1, split)
      partEnd == End(plan[sub.to])
  IN /\ pc = "start" /\ no <= threadNum
     /\ ~Rejected(plan, sub)
     /\ split' = sub.split
     /\ chunk' = [chunk EXCEPT ![no] =
                    [start |-> lastProcessPos,
                     processNum |-> ChunkEnd(partEnd) - lastProcessPos]]
     /\ stream' = [stream EXCEPT ![no].ranges = SubSeq(plan, sub.from + 1, sub.to),
                                 ![no].chunkOffset = lastProcessPos]
     /\ wpc' = [wpc EXCEPT ![no] = "open"]
     /\ lastProcessPos' = partEnd
     /\ no' = no + 1
     /\ UNCHANGED <<plan, threadNum, pc, latch, blobLen, newBlob, haveProcess, buffer>>

\* The sublist is refused; the workers already started go on.
RejectSubList ==
  /\ pc = "start" /\ no <= threadNum
  /\ Rejected(plan, GetSubList(plan, threadNum, no - 1, split))
  /\ pc' = "threw"
  /\ UNCHANGED <<plan, threadNum, no, lastProcessPos, split, latch, blobLen, newBlob, workerVars>>

\* Mutant of Await: it returns as soon as the last worker was started.
AwaitNothing ==
  /\ pc = "start" /\ no > threadNum
  /\ pc' = "merge"
  /\ no' = 1
  /\ UNCHANGED <<plan, threadNum, lastProcessPos, split, latch, blobLen, newBlob, workerVars>>

\* latch.await() returns when the count is zero.
Await ==
  /\ pc = "start" /\ no > threadNum
  /\ latch = 0
  /\ pc' = "merge"
  /\ no' = 1
  /\ UNCHANGED <<plan, threadNum, lastProcessPos, split, latch, blobLen, newBlob, workerVars>>

(***************************************************************************)
(* readFile copies one file and deletes it.  An IOException on the way is  *)
(* printed and dropped, so that only a part of the file was copied.        *)
(***************************************************************************)
MergeFile ==
  /\ pc = "merge" /\ no <= threadNum
  /\ LET file == stream[no].out
     IN \E n \in IF "merge" \in Faults THEN 0..Len(file) ELSE {Len(file)} :
          newBlob' = newBlob \o SubSeq(file, 1, n)
  /\ no' = no + 1
  /\ UNCHANGED <<plan, threadNum, pc, lastProcessPos, split, latch, blobLen, workerVars>>

Return ==
  /\ pc = "merge" /\ no > threadNum
  /\ pc' = "returned"
  /\ UNCHANGED <<plan, threadNum, no, lastProcessPos, split, latch, blobLen, newBlob, workerVars>>

-----------------------------------------------------------------------------
(***************************************************************************)
(* A worker.                                                               *)
(***************************************************************************)

\* new FileOutputStream(subFileName) empties the file.
OpenFile(w) ==
  /\ wpc[w] = "open"
  /\ wpc' = [wpc EXCEPT ![w] = "read"]
  /\ stream' = [stream EXCEPT ![w].out = <<>>]
  /\ UNCHANGED <<mainVars, chunk, haveProcess, buffer>>

\* Mutant of BlockLen: the worker reads to the end of the file.
BlockLenToEndOfFile(w) ==
  Lesser(BlockSize, blobLen - (chunk[w].start + haveProcess[w]))

\* What the loop condition of run() finds to read.
BlockLen(w) ==
  LET wanted == chunk[w].processNum - haveProcess[w]
      left == blobLen - (chunk[w].start + haveProcess[w])
  IN Lesser(Lesser(BlockSize, left), wanted)

ReadBlock(w) ==
  LET from == chunk[w].start + haveProcess[w]
  IN /\ wpc[w] = "read" /\ BlockLen(w) > 0
     /\ wpc' = [wpc EXCEPT ![w] = "write"]
     /\ buffer' = [buffer EXCEPT ![w] = Bytes(from, from + BlockLen(w))]
     /\ haveProcess' = [haveProcess EXCEPT ![w] = @ + BlockLen(w)]
     /\ UNCHANGED <<mainVars, chunk, stream>>

\* One turn of the loop of write().
Write(w) ==
  LET rest == Unwritten(stream[w], buffer[w])
  IN /\ wpc[w] = "write"
     /\ stream' = [stream EXCEPT ![w] = WriteChunk(@, buffer[w])]
     /\ buffer' = [buffer EXCEPT ![w] = rest]
     /\ wpc' = [wpc EXCEPT ![w] = IF rest = <<>> THEN "read" ELSE "write"]
     /\ UNCHANGED <<mainVars, chunk, haveProcess>>

\* 7zz leaves no archive: a NullPointerException ends the thread.
SevenZipFails(w) ==
  /\ "7z" \in Faults
  /\ wpc[w] = "write" /\ RunsSevenZip(stream[w], buffer[w])
  /\ stream' = [stream EXCEPT ![w] = AbandonRange(@, buffer[w])]
  /\ wpc' = [wpc EXCEPT ![w] = "dead"]
  /\ UNCHANGED <<mainVars, chunk, haveProcess, buffer>>

\* An IOException is printed and ends the thread.
IOFails(w) ==
  /\ "io" \in Faults
  /\ wpc[w] \in {"open", "read", "write"}
  /\ wpc' = [wpc EXCEPT ![w] = "dead"]
  /\ UNCHANGED <<mainVars, chunk, haveProcess, buffer, stream>>

\* Nothing is left to read: flush, and count the latch down.
CountDown(w) ==
  /\ wpc[w] = "read" /\ BlockLen(w) <= 0
  /\ wpc' = [wpc EXCEPT ![w] = "done"]
  /\ latch' = IF latch > 0 THEN latch - 1 ELSE latch
  /\ UNCHANGED <<plan, threadNum, pc, no, lastProcessPos, split, blobLen, newBlob,
                 chunk, haveProcess, buffer, stream>>

-----------------------------------------------------------------------------
MainStep == \/ RunHpatchz
            \/ SplitPlan
            \/ StartWorker
            \/ RejectSubList
            \/ Await
            \/ MergeFile
            \/ Return

WorkerStep(w) == OpenFile(w) \/ ReadBlock(w) \/ Write(w) \/ CountDown(w)

Fault(w) == SevenZipFails(w) \/ IOFails(w)

Terminated ==
  /\ pc \in {"returned", "threw"}
  /\ \A w \in Workers : wpc[w] \in {"new", "done", "dead"}
  /\ UNCHANGED vars

Next == \/ MainStep
        \/ \E w \in Workers : WorkerStep(w) \/ Fault(w)
        \/ Terminated

Spec == Init /\ [][Next]_vars

\* The scheduler does not idle: while a thread can run, one runs.  Faults need
\* not happen.
FairSpec == Spec /\ WF_vars(MainStep \/ \E w \in Workers : WorkerStep(w))

-----------------------------------------------------------------------------
(***************************************************************************)
(* Properties.                                                             *)
(***************************************************************************)

\* The main thread reads the workers' files only when every one of them is
\* complete: whatever a worker does or fails to do, latch.await() lets the
\* main thread on after the last countDown and not before.
MergeOnlyCompleteFiles ==
  pc \in {"merge", "returned"} => \A w \in 1..threadNum : wpc[w] = "done"

\* The count of the latch is the number of workers that have not finished,
\* the ones that are not started yet included; a worker that died is counted
\* for ever.
LatchCountsUnfinished ==
  pc \in {"start", "merge", "returned"} =>
    latch = Cardinality({w \in 1..threadNum : wpc[w] # "done"})

\* No stream runs past the start of its next range while copying, nor past
\* its end while compressing: the offset a worker's stream was given, the
\* sublist and the bytes the worker feeds it agree.  Past it, writeChunk
\* would be asked for a negative number of bytes.
NeverPastRange ==
  \A w \in Workers : wpc[w] # "new" => WithinRange(stream[w])

\* deltaApply has returned, for a blob that hpatchz wrote completely.
Delivered == pc = "returned" /\ blobLen = BlobLen

\* What deltaApply leaves in newBlobOut when it returns: with any number of
\* threads and in any order of their steps, the bytes one thread would have
\* written, provided hpatchz produced the whole blob.
ReturnsRecompressed == Delivered => newBlob = Recompressed(plan, BlobLen)

\* deltaApply comes to an end, by returning or by throwing, however its
\* threads are scheduled: all of them in time, if no worker dies.
Terminates == <>(pc \in {"returned", "threw"} \/ \E w \in Workers : wpc[w] = "dead")

\* An error in a worker reaches the caller of applyDelta as an exception
\* (DeltaApplier: "@throws IOException in the event of an I/O error").
WorkerErrorReported == \A w \in Workers : wpc[w] = "dead" ~> pc = "threw"

\* MThreadApply keeps the contract of DeltaApplier, whatever the workers do
\* and in whatever order.  A call for which hpatchz fell short may return with
\* anything: for the contract it does not return.
Contract == INSTANCE DeltaApplier WITH
  status <- CASE Delivered     -> "returned"
              [] pc = "threw"  -> "threw"
              [] OTHER         -> "applying",
  newBlob <- IF Delivered THEN newBlob ELSE <<>>

KeepsContract == Contract!ContractSpec

=============================================================================
