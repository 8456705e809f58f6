------------------------------- MODULE Apply -------------------------------
(***************************************************************************)
(* Apply.deltaApply, the single-threaded way to the new archive, run by    *)
(* the process of SamplePatchApplier: hpatchz writes the delta-friendly    *)
(* new blob, which is then fed block by block to one stream.  The process  *)
(* may be killed, or end on an exception, and be started again in the same *)
(* directory: the spool file of an unfinished 7z range (7ztmpfile) is then *)
(* still there, and is appended to.                                        *)
(***************************************************************************)
EXTENDS PartialCompression

CONSTANTS Plans, BlobLen, BlockSize,
          MaxRuns,   \* bound: how often the process is started
          Faults     \* subset of {"hpatchz", "7z", "io", "kill"}

ASSUME ApplyAssumption == /\ BlobLen \in Nat
                          /\ BlockSize \in Nat \ {0}
                          /\ MaxRuns \in Nat \ {0}
                          /\ Faults \subseteq {"hpatchz", "7z", "io", "kill"}
                          /\ \A p \in Plans : p \in Seq(Ranges) /\ InOrder(p)
                          /\ Null \notin Params

\* The ranges lie in the blob; as the central directory of the archive
\* follows its entries, none begins where the blob ends.
ASSUME BlobAssumption ==
  \A p \in Plans : \A k \in 1..Len(p) : p[k].offset < BlobLen /\ End(p[k]) <= BlobLen

VARIABLES
  plan,
  pc,         \* where the process is
  blobLen,    \* length of the file hpatchz really produced
  haveRead,   \* bytes read from that file
  buffer,     \* the part of tmpdata not handed to write() yet
  stream,     \* newBlobOut; stream.out is the file the user asked for
  runs,       \* how often the process has been started
  residue     \* what 7ztmpfile held when this run began

vars == <<plan, pc, blobLen, haveRead, buffer, stream, runs, residue>>

Init == /\ plan \in Plans
        /\ pc = "diff"
        /\ blobLen = 0
        /\ haveRead = 0
        /\ buffer = <<>>
        /\ stream = NewStream(plan, 0, <<>>)
        /\ runs = 1
        /\ residue = <<>>

\* exec(hpatchz): its exit code is not looked at.
RunHpatchz ==
  /\ pc = "diff"
  /\ blobLen' \in IF "hpatchz" \in Faults THEN 0..BlobLen ELSE {BlobLen}
  /\ pc' = "read"
  /\ UNCHANGED <<plan, haveRead, buffer, stream, runs, residue>>

\* Mutant of ReadBlock: a short last block counts as a whole one.
ReadBlockCountingBuffer ==
  LET to == Lesser(haveRead + BlockSize, blobLen)
  IN /\ pc = "read" /\ haveRead < blobLen
     /\ buffer' = Bytes(haveRead, to)
     /\ haveRead' = haveRead + BlockSize
     /\ pc' = "write"
     /\ UNCHANGED <<plan, blobLen, stream, runs, residue>>

ReadBlock ==
  LET to == Lesser(haveRead + BlockSize, blobLen)
  IN /\ pc = "read" /\ haveRead < blobLen
     /\ buffer' = Bytes(haveRead, to)
     /\ haveRead' = to
     /\ pc' = "write"
     /\ UNCHANGED <<plan, blobLen, stream, runs, residue>>

\* One turn of the loop of write().
Write ==
  /\ pc = "write"
  /\ stream' = WriteChunk(stream, buffer)
  /\ buffer' = Unwritten(stream, buffer)
  /\ pc' = IF buffer' = <<>> THEN "read" ELSE "write"
  /\ UNCHANGED <<plan, blobLen, haveRead, runs, residue>>

Return ==
  /\ pc = "read" /\ haveRead >= blobLen
  /\ pc' = "returned"
  /\ UNCHANGED <<plan, blobLen, haveRead, buffer, stream, runs, residue>>

-----------------------------------------------------------------------------
\* 7zz leaves no archive: a NullPointerException goes up to main.
SevenZipFails ==
  /\ "7z" \in Faults
  /\ pc = "write" /\ RunsSevenZip(stream, buffer)
  /\ stream' = AbandonRange(stream, buffer)
  /\ pc' = "threw"
  /\ UNCHANGED <<plan, blobLen, haveRead, buffer, runs, residue>>

\* An IOException goes up to main, or the process is killed.
Stop(fault, how, at) ==
  /\ fault \in Faults
  /\ pc \in at
  /\ pc' = how
  /\ UNCHANGED <<plan, blobLen, haveRead, buffer, stream, runs, residue>>

IOFails == Stop("io", "threw", {"read", "write"})

Kill == Stop("kill", "killed", {"diff", "read", "write"})

\* The user starts the applier again: the output file is truncated and the
\* delta applied from its beginning, in the directory as it was left.
Rerun ==
  /\ pc \in {"threw", "killed"} /\ runs < MaxRuns
  /\ runs' = runs + 1
  /\ pc' = "diff"
  /\ blobLen' = 0
  /\ haveRead' = 0
  /\ buffer' = <<>>
  /\ stream' = NewStream(plan, 0, stream.spool)
  /\ residue' = stream.spool
  /\ UNCHANGED plan

Terminated == /\ \/ pc = "returned"
                 \/ pc \in {"threw", "killed"} /\ runs = MaxRuns
              /\ UNCHANGED vars

ApplyStep == RunHpatchz \/ ReadBlock \/ Write \/ Return

Next == \/ ApplyStep
        \/ SevenZipFails
        \/ IOFails
        \/ Kill
        \/ Rerun
        \/ Terminated

Spec == Init /\ [][Next]_vars

\* A process that can go on does; faults and users need not.
FairSpec == Spec /\ WF_vars(ApplyStep)

-----------------------------------------------------------------------------
\* Every variable has its type.
TypeOK ==
  /\ plan \in Seq(Ranges)
  /\ pc \in {"diff", "read", "write", "returned", "threw", "killed"}
  /\ blobLen \in 0..BlobLen
  /\ haveRead \in 0..BlobLen
  /\ buffer \in Seq(Nat)
  /\ stream \in Stream
  /\ runs \in 1..MaxRuns
  /\ residue \in Seq(Nat)

\* No 7z range of this run meets a spool file that was left behind.
CleanRun == residue = <<>> \/ \A k \in 1..Len(plan) : plan[k].params.strategy # SevenZip

\* A run has returned, for a blob that hpatchz wrote completely.
Delivered == pc = "returned" /\ blobLen = BlobLen /\ CleanRun

\* However the process was interrupted before, a run leaves the blob
\* recompressed as the plan says in newBlobOut when it returns, if hpatchz did
\* its work: of what an interrupted run leaves behind only the spool file can
\* reach a later run, and that only if the plan has a 7z range.
RerunRecompresses == Delivered => stream.out = Recompressed(plan, BlobLen)

\* The stream is inside a range exactly while it compresses and never past
\* its end, and the deflater in use has the settings of that range: whatever
\* ranges came before, of whatever kinds, and whichever deflater was kept.
DeflaterFitsRange == WithinRange(stream) /\ RightDeflater(stream)

\* Every run ends, with the archive or with an exception, if it is not
\* killed: the loop of write() makes progress over ranges of any length, empty
\* ones included, and whatever an earlier run has left in the spool file.
Terminates == pc = "diff" ~> pc \in {"returned", "threw", "killed"}

\* Apply keeps the contract of DeltaApplier, however often it is interrupted
\* and run again; a run that is killed and started again is one call.  A run
\* for which hpatchz fell short, or whose spool file was not its own, may
\* return with anything: for the contract it does not return.
Contract == INSTANCE DeltaApplier WITH
  status <- CASE Delivered     -> "returned"
              [] pc = "threw"  -> "threw"
              [] OTHER         -> "applying",
  newBlob <- IF Delivered THEN stream.out ELSE <<>>

KeepsContract == Contract!ContractSpec

=============================================================================
