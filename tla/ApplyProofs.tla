---------------------------- MODULE ApplyProofs ----------------------------
(***************************************************************************)
(* Proofs about Apply, for every plan, blob length, block size and number  *)
(* of runs, and with every fault.                                          *)
(***************************************************************************)
EXTENDS Apply, PlanLemmas

\* Between two steps the stream is consistent, wherever the run was
\* interrupted and whatever it found in 7ztmpfile.
StreamInv == TypeOK /\ Consistent(stream)

\* A new PartiallyCompressingOutputStream is consistent.
LEMMA FreshStream ==
  ASSUME NEW p \in Plans, NEW spool \in Seq(Nat)
  PROVE  Consistent(NewStream(p, 0, spool))
<1>1. p \in Seq(Ranges) /\ InOrder(p)
  BY ApplyAssumption
<1> QED BY <1>1, InOrderRanges, NewStreamConsistent

\* The invariant holds before the first call of apply.
LEMMA StreamInit == Init => StreamInv /\ plan \in Plans
<1> SUFFICES ASSUME Init PROVE StreamInv /\ plan \in Plans
  OBVIOUS
<1>1. plan \in Plans /\ stream = NewStream(plan, 0, <<>>)
  BY DEF Init
<1>2. Consistent(stream)
  BY <1>1, FreshStream, EmptySeq
<1>3. TypeOK
  BY <1>1, <1>2, ApplyAssumption, EmptySeq DEF Init, TypeOK, Consistent
<1> QED BY <1>1, <1>2, <1>3 DEF StreamInv

\* Every step of apply, and every failure, preserves it.
LEMMA StreamStep ==
  StreamInv /\ plan \in Plans /\ [Next]_vars => (StreamInv /\ plan \in Plans)'
<1> SUFFICES ASSUME StreamInv, plan \in Plans, [Next]_vars
             PROVE  StreamInv' /\ plan' \in Plans
  OBVIOUS
<1> USE ApplyAssumption DEF StreamInv
<1>1. CASE RunHpatchz
  BY <1>1 DEF RunHpatchz, TypeOK
<1>2. CASE ReadBlock
  <2> DEFINE to == Lesser(haveRead + BlockSize, blobLen)
  <2>1. haveRead \in Nat /\ to \in Nat /\ haveRead <= to /\ to \in 0..BlobLen
    BY <1>2 DEF ReadBlock, TypeOK, Lesser
  <2>2. Bytes(haveRead, to) \in Seq(Nat)
    BY <2>1, BytesType
  <2>3. TypeOK'
    BY <1>2, <2>1, <2>2 DEF ReadBlock, TypeOK
  <2> QED BY <1>2, <2>3 DEF ReadBlock
<1>3. CASE Write
  <2>1. Consistent(WriteChunk(stream, buffer)) /\ Unwritten(stream, buffer) \in Seq(Nat)
    BY WriteChunkConsistent, UnwrittenType DEF TypeOK
  <2>2. Consistent(stream')
    BY <1>3, <2>1 DEF Write
  <2>3. TypeOK'
    BY <1>3, <2>1, <2>2 DEF Write, TypeOK, Consistent
  <2> QED BY <1>3, <2>2, <2>3 DEF Write
<1>4. CASE Return
  BY <1>4 DEF Return, TypeOK
<1>5. CASE SevenZipFails
  <2>1. Consistent(stream')
    BY <1>5, TakenConsistent DEF SevenZipFails, AbandonRange, TypeOK
  <2>2. TypeOK'
    BY <1>5, <2>1 DEF SevenZipFails, TypeOK, Consistent
  <2> QED BY <1>5, <2>1, <2>2 DEF SevenZipFails
<1>6. CASE IOFails
  BY <1>6 DEF IOFails, Stop, TypeOK
<1>7. CASE Kill
  BY <1>7 DEF Kill, Stop, TypeOK
<1>8. CASE Rerun
  <2>1. stream.spool \in Seq(Nat)
    BY DEF TypeOK, Stream
  <2>2. Consistent(stream')
    BY <1>8, <2>1, FreshStream DEF Rerun
  <2>3. TypeOK'
    BY <1>8, <2>1, <2>2, EmptySeq DEF Rerun, TypeOK, Consistent
  <2> QED BY <1>8, <2>2, <2>3 DEF Rerun
<1>9. CASE UNCHANGED vars
  BY <1>9 DEF vars, TypeOK
<1> QED BY <1>1, <1>2, <1>3, <1>4, <1>5, <1>6, <1>7, <1>8, <1>9
        DEF Next, ApplyStep, Terminated

\* So it holds in every state of apply.
LEMMA StreamInvariant == Spec => []StreamInv
  BY StreamInit, StreamStep, PTL DEF Spec

\* Every variable of Apply always has its type.
THEOREM TypeCorrect == Spec => []TypeOK
  BY StreamInvariant, PTL DEF StreamInv

\* The stream never leaves the range it is in, nor enters one late, and
\* compresses each range with a deflater that has the range's settings.
THEOREM FitsRange == Spec => []DeflaterFitsRange
  BY StreamInvariant, PTL DEF StreamInv, Consistent, DeflaterFitsRange
-----------------------------------------------------------------------------
(***************************************************************************)
(* What a run puts out.  While a run goes on, and unless it may meet what  *)
(* an interrupted one left in 7ztmpfile, the stream has put out the        *)
(* recompressed blob up to the range it is in or before; what it was given *)
(* and what is left in the buffer are the bytes read so far.               *)
(***************************************************************************)
Running == pc \in {"diff", "read", "write", "returned"}

PlaceInv ==
  /\ pc = "diff" => haveRead = 0
  /\ pc # "diff" => haveRead <= blobLen
  /\ pc \in {"diff", "read", "returned"} => Position(stream) = haveRead
  /\ pc = "write" => Position(stream) <= haveRead /\ buffer = Bytes(Position(stream), haveRead)
  /\ pc = "returned" => haveRead = blobLen

OutputInv ==
  Running /\ CleanRun =>
    OnPlan(stream, plan, RecompressedUpTo(plan), <<>>, Len(plan))

RunInv == PlaceInv /\ OutputInv

\* The recompression of a plan is what its streams are measured against.
LEMMA PlanTask ==
  ASSUME NEW p \in Plans
  PROVE  Task(p, RecompressedUpTo(p), <<>>, Len(p))
<1>1. p \in Seq(Ranges) /\ InOrder(p)
  BY ApplyAssumption
<1>2. IsRecompression(RecompressedUpTo(p), p) /\ <<>> \in Seq(Items)
  BY <1>1, RecompressionExists, EmptySeq
<1>3. Len(p) \in 0..Len(p)
  BY <1>1
<1> QED BY <1>1, <1>2, <1>3 DEF Task

\* A new stream stands at the beginning of the blob, and of the plan if the
\* spool file is clean.
LEMMA FreshOnPlan ==
  ASSUME NEW p \in Plans, NEW spool \in Seq(Nat)
  PROVE  /\ Position(NewStream(p, 0, spool)) = 0
         /\ CleanSpool(NewStream(p, 0, spool), p) =>
              OnPlan(NewStream(p, 0, spool), p, RecompressedUpTo(p), <<>>, Len(p))
<1> DEFINE s == NewStream(p, 0, spool)
           h == RecompressedUpTo(p)
           n == Len(p)
<1>1. p \in Seq(Ranges) /\ n \in Nat /\ Task(p, h, <<>>, n)
  BY ApplyAssumption, PlanTask
<1>2. /\ s.ranges = p /\ ~s.deflating /\ ~s.seven /\ s.out = <<>> /\ s.pending = <<>>
      /\ Position(s) = 0
  BY DEF NewStream, Position
<1>3. s \in Stream
  BY FreshStream DEF Consistent
<1>4. StartOfGap(p, 0 + 1) = 0 /\ SubSeq(p, 0 + 1, n) = p
  BY <1>1, SubSeqFull DEF StartOfGap
<1>5. h[0] = <<>>
  BY <1>1 DEF Task, IsRecompression
<1>6. ASSUME CleanSpool(s, p) PROVE OnPlan(s, p, h, <<>>, n)
  <2>1. PICK from \in Nat : from = 0
    OBVIOUS
  <2>2. /\ from <= n /\ h[from] = <<>> /\ s.ranges = SubSeq(p, from + 1, n)
        /\ Position(s) = StartOfGap(p, from + 1) /\ Task(p, h, h[from], n)
    BY <1>1, <1>2, <1>4, <1>5, <2>1
  <2> HIDE DEF s, h, n
  <2>3. OnPlan(s, p, h, h[from], n)
    BY <1>2, <1>3, <1>6, <2>2, NewOnPlan
  <2> QED BY <2>2, <2>3
<1> QED BY <1>2, <1>6

\* The first run starts so.
LEMMA RunInit == Init => RunInv
<1> SUFFICES ASSUME Init PROVE RunInv
  OBVIOUS
<1>1. /\ plan \in Plans /\ stream = NewStream(plan, 0, <<>>) /\ <<>> \in Seq(Nat)
      /\ pc = "diff" /\ haveRead = 0
  BY EmptySeq DEF Init
<1>2. CleanSpool(stream, plan)
  BY <1>1 DEF CleanSpool, NewStream
<1>3. Position(stream) = 0 /\ OnPlan(stream, plan, RecompressedUpTo(plan), <<>>, Len(plan))
  BY <1>1, <1>2, FreshOnPlan
<1> QED BY <1>1, <1>3 DEF RunInv, PlaceInv, OutputInv

\* Every step keeps it so; another run starts afresh.
LEMMA RunStep ==
  StreamInv /\ plan \in Plans /\ RunInv /\ [Next]_vars => RunInv'
<1> SUFFICES ASSUME StreamInv, plan \in Plans, RunInv, [Next]_vars
             PROVE  RunInv'
  OBVIOUS
<1> USE ApplyAssumption DEF StreamInv
<1>1. haveRead \in Nat /\ blobLen \in Nat /\ BlockSize \in Nat \ {0} /\ Position(stream) \in Nat
  BY PositionType DEF TypeOK
<1>2. CASE RunHpatchz
  <2>1. /\ UNCHANGED <<plan, haveRead, buffer, stream, residue>> /\ pc = "diff" /\ pc' = "read"
        /\ blobLen' \in Nat
    BY <1>2 DEF RunHpatchz
  <2> QED BY <1>1, <2>1 DEF RunInv, PlaceInv, OutputInv, Running, CleanRun
<1>3. CASE ReadBlock
  <2>1. /\ UNCHANGED <<plan, blobLen, stream, residue>> /\ pc = "read" /\ pc' = "write"
        /\ haveRead < blobLen /\ haveRead' = Lesser(haveRead + BlockSize, blobLen)
        /\ buffer' = Bytes(haveRead, haveRead')
    BY <1>3 DEF ReadBlock
  <2>2. haveRead <= haveRead' /\ haveRead' <= blobLen
    BY <1>1, <2>1 DEF Lesser
  <2> QED BY <1>1, <2>1, <2>2 DEF RunInv, PlaceInv, OutputInv, Running, CleanRun
<1>4. CASE Write
  <2> DEFINE h == RecompressedUpTo(plan)
             n == Len(plan)
  <2>1. /\ UNCHANGED <<plan, blobLen, haveRead, residue>> /\ pc = "write"
        /\ stream' = WriteChunk(stream, buffer) /\ buffer' = Unwritten(stream, buffer)
        /\ pc' = IF buffer' = <<>> THEN "read" ELSE "write"
    BY <1>4 DEF Write
  <2>2. Position(stream) <= haveRead /\ buffer = Bytes(Position(stream), haveRead)
        /\ haveRead <= blobLen
    BY <2>1 DEF RunInv, PlaceInv
  <2>3. buffer' = Bytes(Position(stream'), haveRead) /\ Position(stream') \in 0..haveRead
    <3>1. /\ Unwritten(stream, buffer) = Bytes(Position(WriteChunk(stream, buffer)), haveRead)
          /\ Position(WriteChunk(stream, buffer)) \in Position(stream)..haveRead
      BY <1>1, <2>2, RestOfBlock
    <3> QED BY <1>1, <2>1, <3>1
  <2>4. buffer' = <<>> => Position(stream') = haveRead
    <3> DEFINE pos == Position(stream')
    <3>1. pos \in Nat /\ pos <= haveRead
      BY <1>1, <2>3
    <3> HIDE DEF pos
    <3>2. Len(Bytes(pos, haveRead)) = haveRead - pos
      BY <1>1, <3>1, BytesType
    <3>3. Len(<<>>) = 0
      BY EmptySeq
    <3>4. Bytes(pos, haveRead) = <<>> => haveRead - pos = 0
      BY <3>2, <3>3
    <3> QED BY <1>1, <2>3, <3>1, <3>4 DEF pos
  <2>5. PlaceInv'
    BY <1>1, <2>1, <2>2, <2>3, <2>4 DEF PlaceInv
  <2>6. ASSUME CleanRun PROVE OnPlan(stream', plan, h, <<>>, n)
    <3>1. OnPlan(stream, plan, h, <<>>, n) /\ Task(plan, h, <<>>, n)
      BY <2>1, <2>6, PlanTask DEF RunInv, OutputInv, Running
    <3> HIDE DEF h, n
    <3>2. OnPlan(WriteChunk(stream, Bytes(Position(stream), haveRead)), plan, h, <<>>, n)
      BY <1>1, <2>2, <3>1, WriteKeepsPlan
    <3> QED BY <2>1, <2>2, <3>2
  <2> QED BY <2>1, <2>5, <2>6 DEF RunInv, OutputInv, CleanRun
<1>5. CASE Return
  <2>1. /\ UNCHANGED <<plan, blobLen, haveRead, buffer, stream, residue>>
        /\ pc = "read" /\ haveRead >= blobLen /\ pc' = "returned"
    BY <1>5 DEF Return
  <2> QED BY <1>1, <2>1 DEF RunInv, PlaceInv, OutputInv, Running, CleanRun
<1>6. CASE SevenZipFails \/ IOFails \/ Kill
  <2>1. pc' \in {"threw", "killed"} /\ UNCHANGED <<blobLen, haveRead>>
    BY <1>6 DEF SevenZipFails, IOFails, Kill, Stop
  <2>2. haveRead <= blobLen
    BY <1>1, <1>6 DEF SevenZipFails, IOFails, Kill, Stop, RunInv, PlaceInv
  <2> QED BY <2>1, <2>2 DEF RunInv, PlaceInv, OutputInv, Running
<1>7. CASE Rerun
  <2>1. /\ stream' = NewStream(plan, 0, stream.spool) /\ residue' = stream.spool
        /\ pc' = "diff" /\ haveRead' = 0 /\ UNCHANGED plan
    BY <1>7 DEF Rerun
  <2>2. stream.spool \in Seq(Nat)
    BY DEF TypeOK, Stream
  <2>3. CleanRun' => CleanSpool(stream', plan)
    BY <2>1 DEF CleanRun, CleanSpool, NewStream
  <2>4. /\ Position(stream') = 0
        /\ CleanRun' => OnPlan(stream', plan, RecompressedUpTo(plan), <<>>, Len(plan))
    BY <2>1, <2>2, <2>3, FreshOnPlan
  <2> QED BY <2>1, <2>4 DEF RunInv, PlaceInv, OutputInv
<1>8. CASE UNCHANGED vars
  BY <1>8 DEF vars, RunInv, PlaceInv, OutputInv, Running, CleanRun
<1> QED BY <1>2, <1>3, <1>4, <1>5, <1>6, <1>7, <1>8 DEF Next, ApplyStep, Terminated

\* When a run has read the whole blob, the output is the recompressed blob.
LEMMA OutputAtTheEnd ==
  ASSUME StreamInv, plan \in Plans, RunInv, pc \in {"read", "returned"},
         haveRead = BlobLen, CleanRun
  PROVE  stream.out = Recompressed(plan, BlobLen)
<1> DEFINE h == RecompressedUpTo(plan)
           n == Len(plan)
           rest == Copied(Bytes(StartOfGap(plan, n + 1), BlobLen))
<1>1. OnPlan(stream, plan, h, <<>>, n) /\ Position(stream) = BlobLen /\ Consistent(stream)
  BY DEF RunInv, PlaceInv, OutputInv, Running, StreamInv
<1>2. Task(plan, h, <<>>, n)
  BY PlanTask
<1>3. \A k \in 1..n : plan[k].offset < BlobLen /\ End(plan[k]) <= BlobLen
  BY BlobAssumption
<1>4. BlobLen \in Nat
  BY ApplyAssumption
<1>5. <<>> \o stream.out = h[n] \o rest
  <2> HIDE DEF h
  <2> QED BY <1>1, <1>2, <1>3, <1>4, OutputToTheEnd
<1>6. <<>> \o stream.out = stream.out
  <2>1. stream.out \in Seq(Items)
    BY <1>1 DEF Consistent, Stream
  <2> QED BY <2>1, ConcatEmptySeq
<1> QED BY <1>5, <1>6 DEF Recompressed

\* A run that returns has written the new archive into the output, whatever
\* happened to the runs before it, if hpatchz has written the whole blob and
\* no 7z range met a spool file that was left behind.
THEOREM RunsRecompress == Spec => []RerunRecompresses
<1>1. StreamInv /\ plan \in Plans /\ RunInv => RerunRecompresses
  <2> SUFFICES ASSUME StreamInv, plan \in Plans, RunInv, pc = "returned",
                      blobLen = BlobLen, CleanRun
               PROVE  stream.out = Recompressed(plan, BlobLen)
    BY DEF RerunRecompresses, Delivered
  <2>1. haveRead = BlobLen
    BY DEF RunInv, PlaceInv
  <2> QED BY <2>1, OutputAtTheEnd
<1> QED BY <1>1, StreamInit, StreamStep, RunInit, RunStep, PTL DEF Spec

-----------------------------------------------------------------------------
(***************************************************************************)
(* Apply implements the contract of DeltaApplier, through any number of    *)
(* interruptions: a run delivers what the contract promises, or throws, or *)
(* is killed, and another one begins from the start.                       *)
(***************************************************************************)

\* Every step is a step of the contract, or one it does not see.
LEMMA StepsOfContract ==
  ASSUME StreamInv, plan \in Plans, RunInv, [Next]_vars
  PROVE  [Contract!ContractNext]_(Contract!contractVars)
<1> USE DEF Contract!contractVars
<1>1. CASE Return
  <2>1. /\ pc = "read" /\ haveRead >= blobLen /\ pc' = "returned" /\ ~Delivered
        /\ UNCHANGED <<plan, blobLen, stream>> /\ CleanRun' = CleanRun
    BY <1>1 DEF Return, Delivered, CleanRun
  <2>2. CASE blobLen = BlobLen /\ CleanRun
    <3>1. haveRead = BlobLen
      <4>1. haveRead \in Nat /\ blobLen \in Nat
        BY ApplyAssumption DEF StreamInv, TypeOK
      <4> QED BY <2>1, <2>2, <4>1 DEF RunInv, PlaceInv
    <3>2. stream.out = Recompressed(plan, BlobLen)
      BY <2>1, <2>2, <3>1, OutputAtTheEnd
    <3>3. Contract!Recompressed(plan, BlobLen) = Recompressed(plan, BlobLen)
      BY DEF Contract!Recompressed, Recompressed, Contract!RecompressedUpTo, RecompressedUpTo,
             Contract!Codec, Codec, Contract!Bytes, Bytes, Contract!Copied, Copied,
             Contract!StartOfGap, StartOfGap, Contract!End, End,
             Contract!SevenZip, SevenZip
    <3>4. Delivered'
      BY <2>1, <2>2 DEF Delivered
    <3> QED BY <2>1, <3>2, <3>3, <3>4 DEF Contract!ContractNext, Contract!Return
  <2>3. CASE ~(blobLen = BlobLen /\ CleanRun)
    <3>1. ~Delivered'
      BY <2>1, <2>3 DEF Delivered
    <3> QED BY <2>1, <3>1
  <2> QED BY <2>2, <2>3
<1>2. CASE SevenZipFails \/ IOFails
  <2>1. pc \in {"read", "write"} /\ pc' = "threw" /\ UNCHANGED plan
    BY <1>2 DEF SevenZipFails, IOFails, Stop
  <2>2. ~Delivered /\ ~Delivered'
    BY <2>1 DEF Delivered
  <2> QED BY <2>1, <2>2 DEF Contract!ContractNext, Contract!Throw
<1>3. CASE RunHpatchz \/ ReadBlock \/ Write \/ Kill
  <2>1. /\ pc \in {"diff", "read", "write"} /\ pc' \in {"read", "write", "killed"}
        /\ UNCHANGED plan
    BY <1>3 DEF RunHpatchz, ReadBlock, Write, Kill, Stop
  <2>2. ~Delivered /\ ~Delivered'
    BY <2>1 DEF Delivered
  <2> QED BY <2>1, <2>2
<1>4. CASE Rerun
  <2>1. pc \in {"threw", "killed"} /\ pc' = "diff" /\ UNCHANGED plan
    BY <1>4 DEF Rerun
  <2>2. ~Delivered /\ ~Delivered'
    BY <2>1 DEF Delivered
  <2> QED BY <2>1, <2>2 DEF Contract!ContractNext, Contract!Retry
<1>5. CASE UNCHANGED vars
  <2>1. UNCHANGED <<plan, pc, stream>> /\ Delivered' = Delivered
    BY <1>5 DEF vars, Delivered, CleanRun
  <2> QED BY <2>1
<1> QED BY <1>1, <1>2, <1>3, <1>4, <1>5 DEF Next, ApplyStep, Terminated

\* Apply keeps the contract of DeltaApplier with every fault, hpatchz failing
\* included, and through every number of runs: what it delivers is the new
\* archive, and what an interrupted run has put out is never taken for it.
THEOREM ImplementsContract == Spec => KeepsContract
<1>1. Init => Contract!ContractInit
  BY DEF Init, Contract!ContractInit, Delivered
<1>2. StreamInv /\ plan \in Plans /\ RunInv /\ [Next]_vars
        => [Contract!ContractNext]_(Contract!contractVars)
  BY StepsOfContract
<1> QED BY <1>1, <1>2, StreamInit, StreamStep, RunInit, RunStep, PTL
        DEF Spec, KeepsContract, Contract!ContractSpec

=============================================================================
