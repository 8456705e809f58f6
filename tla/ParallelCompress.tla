-------------------------- MODULE ParallelCompress --------------------------
(***************************************************************************)
(* parallel_compress_blocks of HDiffPatch (compress_parallel.cpp): threads *)
(* take a work buffer from a channel, read the next block under            *)
(* readLocker, compress it, and put it into a list that is written in      *)
(* order under writeLocker; buffers that are written go back to the        *)
(* channel.  The calling thread starts the others and is the last of them. *)
(***************************************************************************)
EXTENDS BlockCompress, Channel

CONSTANTS
  StreamSizes,    \* of the inputs
  ThreadNums,     \* values of the threadNum argument
  Faults,         \* what may fail: "open", "thread", "read", "compress", "write"
  MaxFaults,      \* bound: how often something fails
  NoThread, NoBuf

ASSUME ParallelAssumption ==
  /\ StreamSizes \subseteq Nat
  /\ ThreadNums \subseteq Nat \ {0}
  /\ NoThread \notin Nat
  /\ NoBuf \notin Nat

VARIABLES
  threadNum,
  work_chan, end_chan,
  mpc,                 \* where the calling thread is
  turn,                \* i of start_threads
  is_thread_on, is_on_error,
  wpc,                 \* where each thread is
  workBuf,             \* the buffer it has
  resume,              \* where it goes on after on_error
  bufs,                \* TWorkBuf: workIndex, dictionary, data
  curReadBlockIndex, curWriteBlockIndex, dict,
  dataBufList,         \* buffers in the order of their blocks
  readLocker, writeLocker,
  faults               \* how often something failed

callVars == <<streamSize, threadNum>>
mainVars == <<mpc, turn, is_thread_on, result>>
chans == <<work_chan, end_chan>>
readSide == <<curReadBlockIndex, dict, readLocker>>
writeSide == <<curWriteBlockIndex, dataBufList, writeLocker, out>>
vars == <<callVars, mainVars, chans, is_on_error, wpc, workBuf, resume, bufs,
          readSide, writeSide, faults>>

\* No more threads than blocks.
ThreadsFor(arg, size) ==
  Min({arg, (size + BlockSize - 1) \div BlockSize})

\* Mutant of WorkBufCount: each thread but the calling one has a buffer.
WorkBufCountOfOthers(threads) == threads - 1

WorkBufCount(threads) == threads + (threads + 2) \div 3

Threads == 1..threadNum
Buffers == 1..WorkBufCount(threadNum)

EmptyBuf == [index |-> 0, dict |-> <<>>, data |-> <<>>]

Init ==
  /\ streamSize \in StreamSizes
  /\ BlockInit
  /\ \E arg \in ThreadNums : threadNum = ThreadsFor(arg, streamSize)
  /\ work_chan = [NewChannel EXCEPT !.list = [i \in Buffers |-> i]]
  /\ end_chan = NewChannel
  /\ mpc = IF threadNum = 0 THEN "wait" ELSE "start"
  /\ turn = 1
  /\ is_thread_on = 0
  /\ is_on_error = FALSE
  /\ wpc = [t \in Threads |-> "absent"]
  /\ workBuf = [t \in Threads |-> NoBuf]
  /\ resume = [t \in Threads \union {NoThread} |-> "end"]
  /\ bufs = [b \in Buffers |-> EmptyBuf]
  /\ curReadBlockIndex = 0
  /\ curWriteBlockIndex = 0
  /\ dict = <<>>
  /\ dataBufList = <<>>
  /\ readLocker = NoThread
  /\ writeLocker = NoThread
  /\ faults = 0

\* Something of this kind may fail, and does.
Fails(kind) ==
  /\ kind \in Faults
  /\ faults < MaxFaults
  /\ faults' = faults + 1

-----------------------------------------------------------------------------
(***************************************************************************)
(* The calling thread: start_threads, its own share of the work,           *)
(* wait_all_thread_end and the destructor of TMt.                          *)
(***************************************************************************)

\* A block compressor cannot be opened: no thread is started.
OpenFails ==
  /\ Fails("open")
  /\ mpc = "start" /\ turn = 1
  /\ result' = 0
  /\ mpc' = "done"
  /\ UNCHANGED <<callVars, turn, is_thread_on, chans, is_on_error, wpc,
                 workBuf, resume,
                 bufs, readSide, writeSide>>

\* Mutant of StartThread: the calling thread does not count itself.
StartThreadCountingOthers ==
  /\ mpc = "start"
  /\ is_thread_on' = IF turn = threadNum THEN is_thread_on ELSE is_thread_on + 1
  /\ wpc' = [wpc EXCEPT ![turn] = "accept"]
  /\ turn' = turn + 1
  /\ mpc' = IF turn = threadNum THEN "work" ELSE "start"
  /\ UNCHANGED <<callVars, result, chans, is_on_error, workBuf, resume, bufs,
                 readSide, writeSide, faults>>

\* The last one is the calling thread itself.
StartThread ==
  /\ mpc = "start"
  /\ is_thread_on' = is_thread_on + 1
  /\ wpc' = [wpc EXCEPT ![turn] = "accept"]
  /\ turn' = turn + 1
  /\ mpc' = IF turn = threadNum THEN "work" ELSE "start"
  /\ UNCHANGED <<callVars, result, chans, is_on_error, workBuf, resume, bufs,
                 readSide, writeSide, faults>>

\* thread_parallel throws: the ones that were started are told.
StartFails ==
  /\ Fails("thread")
  /\ mpc = "start" /\ turn < threadNum
  /\ mpc' = "raise"
  /\ resume' = [resume EXCEPT ![NoThread] = "wait"]
  /\ UNCHANGED <<callVars, turn, is_thread_on, result, chans, is_on_error,
                 wpc, workBuf,
                 bufs, readSide, writeSide>>

WorkIsOver ==
  /\ mpc = "work"
  /\ wpc[threadNum] = "exited"
  /\ mpc' = "wait"
  /\ UNCHANGED <<callVars, turn, is_thread_on, result, chans, is_on_error,
                 wpc, workBuf,
                 resume, bufs, readSide, writeSide, faults>>

\* One turn of wait_all_thread_end: the message of a thread that ended.
AcceptEnd ==
  /\ mpc = "wait"
  /\ is_thread_on > 0
  /\ NoThread \notin end_chan.waiting
  /\ \/ /\ HasData(end_chan)
        /\ end_chan' = Accepted(end_chan)
        /\ is_thread_on' = is_thread_on - 1
     \/ /\ MustWait(end_chan)
        /\ end_chan' = Waiting(end_chan, NoThread)
        /\ is_thread_on' = is_thread_on
  /\ UNCHANGED <<callVars, mpc, turn, result, work_chan, is_on_error, wpc,
                 workBuf,
                 resume, bufs, readSide, writeSide, faults>>

\* The result, and the channels closed and cleared.
Return ==
  /\ mpc = "wait"
  /\ is_thread_on = 0
  /\ result' = IF is_on_error THEN 0 ELSE Len(out)
  /\ work_chan' = [Closed(work_chan) EXCEPT !.list = <<>>]
  /\ end_chan' = [Closed(end_chan) EXCEPT !.list = <<>>]
  /\ mpc' = "done"
  /\ UNCHANGED <<callVars, turn, is_thread_on, is_on_error, wpc, workBuf,
                 resume, bufs,
                 readSide, writeSide, faults>>

-----------------------------------------------------------------------------
(***************************************************************************)
(* on_error, of a thread t or (NoThread) of the calling thread while it    *)
(* starts the others.  A thread calls it with the lock it holds.           *)
(***************************************************************************)

At(t, place) == IF t = NoThread THEN mpc = place ELSE wpc[t] = place

GoTo(t, place) ==
  IF t = NoThread
  THEN mpc' = place /\ UNCHANGED wpc
  ELSE wpc' = [wpc EXCEPT ![t] = place] /\ UNCHANGED mpc

\* The locks are released when the thread leaves their block.
Resume(t) ==
  /\ GoTo(t, resume[t])
  /\ readLocker' = IF readLocker = t THEN NoThread ELSE readLocker
  /\ writeLocker' = IF writeLocker = t THEN NoThread ELSE writeLocker

onErrorLeaves == <<callVars, turn, is_thread_on, result, end_chan, workBuf, resume, bufs,
                   curReadBlockIndex, dict, curWriteBlockIndex, dataBufList, out, faults>>

Raise(t) ==
  /\ At(t, "raise")
  /\ is_on_error' = TRUE
  /\ IF is_on_error
     THEN Resume(t)
     ELSE GoTo(t, "close") /\ UNCHANGED <<readLocker, writeLocker>>
  /\ UNCHANGED <<onErrorLeaves, work_chan>>

CloseWork(t) ==
  /\ At(t, "close")
  /\ work_chan' = Closed(work_chan)
  /\ GoTo(t, "clear")
  /\ UNCHANGED <<onErrorLeaves, is_on_error, readLocker, writeLocker>>

ClearWork(t) ==
  /\ At(t, "clear")
  /\ IF HasData(work_chan)
     THEN /\ work_chan' = Accepted(work_chan)
          /\ UNCHANGED <<mpc, wpc, readLocker, writeLocker>>
     ELSE UNCHANGED work_chan /\ Resume(t)
  /\ UNCHANGED <<onErrorLeaves, is_on_error>>

OnError(t) == Raise(t) \/ CloseWork(t) \/ ClearWork(t)

-----------------------------------------------------------------------------
(***************************************************************************)
(* _threadRunCallBack.                                                     *)
(***************************************************************************)

\* A check fails: on_error, then what the break leads to.
CheckFails(t, next) ==
  /\ wpc' = [wpc EXCEPT ![t] = "raise"]
  /\ resume' = [resume EXCEPT ![t] = next]

Accept(t) ==
  /\ wpc[t] = "accept"
  /\ t \notin work_chan.waiting
  /\ \/ /\ HasData(work_chan)
        /\ work_chan' = Accepted(work_chan)
        /\ workBuf' = [workBuf EXCEPT ![t] = Head(work_chan.list)]
        /\ wpc' = [wpc EXCEPT ![t] = "read"]
     \/ /\ IsOver(work_chan)
        /\ wpc' = [wpc EXCEPT ![t] = "end"]
        /\ UNCHANGED <<work_chan, workBuf>>
     \/ /\ MustWait(work_chan)
        /\ work_chan' = Waiting(work_chan, t)
        /\ UNCHANGED <<wpc, workBuf>>
  /\ UNCHANGED <<callVars, mainVars, end_chan, is_on_error, resume, bufs,
                 readSide, writeSide, faults>>

\* All blocks are read: the thread ends and keeps its buffer.
NothingToRead(t) ==
  /\ wpc[t] = "read" /\ readLocker = NoThread
  /\ curReadBlockIndex >= BlockCount
  /\ wpc' = [wpc EXCEPT ![t] = "end"]
  /\ UNCHANGED <<callVars, mainVars, chans, is_on_error, workBuf, resume,
                 bufs, readSide,
                 writeSide, faults>>

\* The last bytes of what the buffer holds are the next dictionary.
NextDict(last, data) ==
  LET all == last \o data
  IN SubSeq(all, Len(all) - Min({DictSize, Len(all)}) + 1, Len(all))

ReadBlock(t) ==
  /\ wpc[t] = "read" /\ readLocker = NoThread
  /\ curReadBlockIndex < BlockCount
  /\ LET pos == curReadBlockIndex * BlockSize
         to == IF curReadBlockIndex + 1 < BlockCount THEN pos + BlockSize ELSE streamSize
         data == Bytes(pos, to)
     IN /\ bufs' = [bufs EXCEPT ![workBuf[t]] =
                      [index |-> curReadBlockIndex, dict |-> dict, data |-> data]]
        /\ dict' = IF curReadBlockIndex + 1 < BlockCount THEN NextDict(dict, data) ELSE dict
  /\ curReadBlockIndex' = curReadBlockIndex + 1
  /\ wpc' = [wpc EXCEPT ![t] = "compress"]
  /\ UNCHANGED <<callVars, mainVars, chans, is_on_error, workBuf, resume,
                 readLocker, writeSide, faults>>

ReadFails(t) ==
  /\ Fails("read")
  /\ wpc[t] = "read" /\ readLocker = NoThread
  /\ curReadBlockIndex < BlockCount
  /\ readLocker' = t
  /\ CheckFails(t, "end")
  /\ UNCHANGED <<callVars, mainVars, chans, is_on_error, workBuf, bufs,
                 curReadBlockIndex, dict,
                 writeSide>>

CompressFails(t) ==
  /\ Fails("compress")
  /\ wpc[t] = "compress"
  /\ CheckFails(t, "end")
  /\ UNCHANGED <<callVars, mainVars, chans, is_on_error, workBuf, bufs,
                 readSide, writeSide>>

\* The compressed block goes before the first one of a later block.
Insert(t) ==
  /\ wpc[t] = "compress" /\ writeLocker = NoThread
  /\ writeLocker' = t
  /\ LET Before(i) == bufs[dataBufList[i]].index < bufs[workBuf[t]].index
     IN \E n \in 0..Len(dataBufList) :
          /\ \A i \in 1..n : Before(i)
          /\ n < Len(dataBufList) => ~Before(n + 1)
          /\ dataBufList' = SubSeq(dataBufList, 1, n) \o <<workBuf[t]>>
                              \o SubSeq(dataBufList, n + 1, Len(dataBufList))
  /\ workBuf' = [workBuf EXCEPT ![t] = NoBuf]
  /\ wpc' = [wpc EXCEPT ![t] = "write"]
  /\ UNCHANGED <<callVars, mainVars, chans, is_on_error, resume, bufs,
                 readSide,
                 curWriteBlockIndex, out, faults>>

\* Mutant of IsNext: whatever is first in the list.
IsFirst == dataBufList # <<>>

IsNext == dataBufList # <<>> /\ bufs[Head(dataBufList)].index = curWriteBlockIndex

\* Mutant of WriteBlock: the block that is written stays in the list.
WriteBlockLeavingIt(t) ==
  /\ wpc[t] = "write"
  /\ IsNext
  /\ LET b == Head(dataBufList)
     IN /\ out' = Append(out, [dict |-> bufs[b].dict, data |-> bufs[b].data])
        /\ workBuf' = [workBuf EXCEPT ![t] = b]
  /\ curWriteBlockIndex' = curWriteBlockIndex + 1
  /\ wpc' = [wpc EXCEPT ![t] = "send"]
  /\ UNCHANGED <<callVars, mainVars, chans, is_on_error, resume, bufs,
                 readSide, writeLocker,
                 dataBufList, faults>>

WriteBlock(t) ==
  /\ wpc[t] = "write"
  /\ IsNext
  /\ LET b == Head(dataBufList)
     IN /\ out' = Append(out, [dict |-> bufs[b].dict, data |-> bufs[b].data])
        /\ workBuf' = [workBuf EXCEPT ![t] = b]
  /\ dataBufList' = Tail(dataBufList)
  /\ curWriteBlockIndex' = curWriteBlockIndex + 1
  /\ wpc' = [wpc EXCEPT ![t] = "send"]
  /\ UNCHANGED <<callVars, mainVars, chans, is_on_error, resume, bufs,
                 readSide, writeLocker, faults>>

\* The break leaves the inner loop alone: the thread looks for more work.
WriteFails(t) ==
  /\ Fails("write")
  /\ wpc[t] = "write"
  /\ IsNext
  /\ workBuf' = [workBuf EXCEPT ![t] = Head(dataBufList)]
  /\ dataBufList' = Tail(dataBufList)
  /\ CheckFails(t, "accept")
  /\ UNCHANGED <<callVars, mainVars, chans, is_on_error, bufs, readSide,
                 curWriteBlockIndex,
                 writeLocker, out>>

WriteIsOver(t) ==
  /\ wpc[t] = "write"
  /\ ~IsNext
  /\ writeLocker' = NoThread
  /\ wpc' = [wpc EXCEPT ![t] = "accept"]
  /\ UNCHANGED <<callVars, mainVars, chans, is_on_error, workBuf, resume,
                 bufs, readSide,
                 curWriteBlockIndex, dataBufList, out, faults>>

\* The buffer goes back, what is in it will not be read again; a channel that
\* was closed meanwhile refuses it.
SendBack(t) ==
  /\ wpc[t] = "send"
  /\ IF work_chan.closed
     THEN CheckFails(t, "accept") /\ UNCHANGED <<work_chan, workBuf, bufs>>
     ELSE /\ work_chan' \in Sent(work_chan, workBuf[t])
          /\ workBuf' = [workBuf EXCEPT ![t] = NoBuf]
          /\ bufs' = [bufs EXCEPT ![workBuf[t]] = EmptyBuf]
          /\ wpc' = [wpc EXCEPT ![t] = "write"]
          /\ UNCHANGED resume
  /\ UNCHANGED <<callVars, mainVars, end_chan, is_on_error, readSide,
                 writeSide, faults>>

\* The destructor of _auto_thread_end_t.
ThreadEnd(t) ==
  /\ wpc[t] = "end"
  /\ end_chan' \in Sent(end_chan, t)
  /\ wpc' = [wpc EXCEPT ![t] = "exited"]
  /\ UNCHANGED <<callVars, mainVars, work_chan, is_on_error, workBuf, resume,
                 bufs, readSide,
                 writeSide, faults>>

-----------------------------------------------------------------------------
MainStep == \/ OpenFails \/ StartThread \/ StartFails \/ OnError(NoThread)
            \/ WorkIsOver \/ AcceptEnd \/ Return

ThreadStep(t) == \/ Accept(t) \/ NothingToRead(t) \/ ReadBlock(t) \/ ReadFails(t)
                 \/ CompressFails(t) \/ Insert(t)
                 \/ WriteBlock(t) \/ WriteFails(t) \/ WriteIsOver(t) \/ SendBack(t)
                 \/ OnError(t) \/ ThreadEnd(t)

\* condvar_wait may return without a signal.
WakeForNothing ==
  /\ \/ \E t \in work_chan.waiting :
          work_chan' = [work_chan EXCEPT !.waiting = @ \ {t}] /\ UNCHANGED end_chan
     \/ \E t \in end_chan.waiting :
          end_chan' = [end_chan EXCEPT !.waiting = @ \ {t}] /\ UNCHANGED work_chan
  /\ UNCHANGED <<callVars, mainVars, is_on_error, wpc, workBuf, resume, bufs,
                 readSide,
                 writeSide, faults>>

Terminated == mpc = "done" /\ UNCHANGED vars

Next == MainStep \/ (\E t \in Threads : ThreadStep(t)) \/ WakeForNothing \/ Terminated

Spec == Init /\ [][Next]_vars

\* Every thread runs when it can; nothing has to fail, and no wake-up comes
\* for nothing because it is needed.
FairSpec ==
  /\ Spec
  /\ WF_vars(MainStep)
  /\ \A t \in 1..Max(ThreadNums) : WF_vars(t \in Threads /\ ThreadStep(t))

-----------------------------------------------------------------------------
(***************************************************************************)
(* Properties.                                                             *)
(***************************************************************************)

\* The threads together do what one would do alone: whatever the order in
\* which blocks are compressed, they are written in the order of the stream,
\* each with the bytes before it as its dictionary, and a size is returned
\* only when all of them are written (parallel_compress_blocks).
Sequential == INSTANCE BlockCompress

WritesLikeOneThread == Sequential!BlockSpec

\* A work buffer is in one place: the channel, the hands of one thread, or
\* the list; and none is lost as long as nothing failed, so that a thread
\* never compresses into a buffer that another one writes.
BuffersHaveOneOwner ==
  LET inHands(t) == IF workBuf[t] = NoBuf THEN {} ELSE {workBuf[t]}
      inChannel == {work_chan.list[i] : i \in DOMAIN work_chan.list}
      inList == {dataBufList[i] : i \in DOMAIN dataBufList}
  IN /\ \A t, u \in Threads : t # u => inHands(t) \intersect inHands(u) = {}
     /\ \A t \in Threads : inHands(t) \intersect (inChannel \union inList) = {}
     /\ inChannel \intersect inList = {}
     /\ Len(work_chan.list) = Cardinality(inChannel)
     /\ Len(dataBufList) = Cardinality(inList)
     /\ ~is_on_error /\ mpc # "done" =>
          inChannel \union inList \union UNION {inHands(t) : t \in Threads} = Buffers

\* When the call returns no thread is left that would use its locks, its
\* channels and its buffers, also when a thread could not be started
\* (_is_thread_on and the messages of _end_chan agree).
ThreadsAreGone == mpc = "done" => \A t \in Threads : wpc[t] \in {"absent", "exited"}

\* The call returns: no thread waits for a buffer that nobody gives back,
\* for a lock, or for the end of a thread that never ran, whatever failed.
CallReturns == <>(mpc = "done")

=============================================================================
