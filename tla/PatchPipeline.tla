---------------------------- MODULE PatchPipeline ----------------------------
(***************************************************************************)
(* From the uncompression plan of the new file to the plans the applier    *)
(* has in hand: PreDiffExecutor.generateDeltaFriendlyFiles has czlib write *)
(* the delta-friendly new file and turn the plan into the recompression    *)
(* plan, FileByFileV1DeltaGenerator writes the patch, the patch gets to    *)
(* the applier, whole or damaged, and PatchReader reads it.                *)
(***************************************************************************)
EXTENDS CzlibProcess, PatchFormat

CONSTANTS
  OldPlans,     \* uncompression plans of the old file
  Metadata,     \* the parameters of the ranges of the new file, in order
  OldSize,      \* length of the delta-friendly old file
  DeltaLength,  \* length of the delta
  BadValues     \* what a damaged field may hold

\* PreDiffPlanner puts the ranges of a plan in order, and parameters that were
\* divined are instances of JreDeflateParameters.
ASSUME PipelineAssumption ==
  /\ \A p \in OldPlans : /\ p \in Seq([offset : Nat, length : Nat])
                         /\ Compression!InOrder(p)
  /\ Metadata \in Seq(Compression!Params)
  /\ \A k \in 1..Len(Metadata) : Exist(Metadata[k].level, Metadata[k].strategy)
  /\ \A l \in RangeLists : Len(l) <= Len(Metadata)
  /\ OldSize \in Nat /\ DeltaLength \in Nat
  /\ BadValues \subseteq Int

VARIABLES
  oldPlan,   \* the uncompression plan of the old file
  patch,     \* Null, then the patch as it was written
  received   \* Null, then the patch as it has arrived

pipelineVars == <<oldPlan, patch, received, readerVars, vars>>

PipelineInit == /\ Init
                /\ reverse
                /\ oldPlan \in OldPlans
                /\ patch = Null
                /\ received = Null
                /\ file = <<>>
                /\ ReaderInit

-----------------------------------------------------------------------------
Process == /\ pc # "returned"
           /\ \/ EnterRange
              \/ LeaveLoop
              \/ CopyBytes
              \/ GapCopied
              \/ InflateRange
              \/ InflateFails
              \/ StartTail
              \/ Return
           /\ UNCHANGED <<oldPlan, patch, received, readerVars>>

\* myGenerateDeltaFriendlyFile: the arrays with the metadata of the ranges,
\* whatever the result of process() was.
RecompressionPlan ==
  [k \in 1..Len(ranges) |->
     [offset |-> pos[k], length |-> length[k], params |-> Metadata[k]]]

\* PreDiffPlan.ensureOrdered: no range before the first one.  The constructor
\* would throw; but no step of process() makes such a plan, or the pipeline
\* would stop here.
Ordered(plan) == \A k \in 1..Len(plan) : plan[1].offset <= plan[k].offset

\* What may arrive of a patch: all of it, its beginning, or with one field
\* changed.
Arrivals(p) ==
  {p} \union {SubSeq(p, 1, n) : n \in 0..Len(p)}
      \union {[p EXCEPT ![k] = v] : k \in 1..Len(p), v \in BadValues}

WritePatch ==
  /\ pc = "returned" /\ patch = Null
  /\ Ordered(RecompressionPlan)
  /\ patch' = Patch(oldPlan, RecompressionPlan, OldSize, Len(friBlob), DeltaLength)
  /\ received' \in Arrivals(patch')
  /\ file' = received'
  /\ UNCHANGED <<oldPlan, reading, toRead, lastReadOffset,
                 oldPlanRead, newPlanRead, vars>>

ReadPatch == patch # Null /\ ReaderNext /\ UNCHANGED <<oldPlan, patch, received, vars>>

PipelineTerminated ==
  /\ reading \in {"accepted", "refused", "crashed"}
  /\ UNCHANGED pipelineVars

PipelineNext == Process \/ WritePatch \/ ReadPatch \/ PipelineTerminated

PipelineSpec == PipelineInit /\ [][PipelineNext]_pipelineVars

-----------------------------------------------------------------------------
Intact == received = patch /\ patch # Null

\* No patch that arrived intact makes the reader throw what it does not declare:
\* the generator writes no parameters that only JreDeflateParameters.of rejects.
\* If all the ranges could be inflated, the applier does not refuse the patch,
\* either: the places the arrays were overwritten with pass every check it
\* makes.  And whenever it accepts a patch that arrived intact, it has the
\* plans of the generator: every range, with its parameters, 7z ones included.
GoodPatchIsRead ==
  Intact =>
    /\ reading # "crashed"
    /\ flag => reading # "refused"
    /\ reading = "accepted" => oldPlanRead = oldPlan /\ newPlanRead = RecompressionPlan

\* generateDeltaFriendlyFiles: "@throws IOException if anything goes wrong".  A
\* range that cannot be inflated would then end the generation, and no patch
\* would come of it.
NoPatchAfterFailure == patch # Null => flag

\* A patch that was cut off anywhere before its delta is refused.
CutPatchRefused ==
  patch # Null /\ Len(received) < Len(patch) => reading # "accepted"

=============================================================================
