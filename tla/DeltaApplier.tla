---------------------------- MODULE DeltaApplier ----------------------------
(***************************************************************************)
(* The contract of DeltaApplier.applyDelta, for a patch whose recompression*)
(* plan is plan: it either returns, and then newBlobOut holds the delta-   *)
(* friendly new blob of BlobLen bytes recompressed as the plan says, or it *)
(* throws, and then the caller may try again.  Apply and MThreadApply are  *)
(* both shown to implement it.                                             *)
(***************************************************************************)
EXTENDS PartialCompression

CONSTANT BlobLen     \* length of the delta-friendly new blob

VARIABLES plan, status, newBlob

contractVars == <<plan, status, newBlob>>

ContractInit == status = "applying" /\ newBlob = <<>>

Return == /\ status = "applying"
          /\ status' = "returned"
          /\ newBlob' = Recompressed(plan, BlobLen)
          /\ UNCHANGED plan

Throw == /\ status = "applying"
         /\ status' = "threw"
         /\ UNCHANGED <<plan, newBlob>>

\* The caller applies the same delta again, to an output of its own.
Retry == /\ status = "threw"
         /\ status' = "applying"
         /\ newBlob' = <<>>
         /\ UNCHANGED plan

ContractNext == Return \/ Throw \/ Retry

ContractSpec == ContractInit /\ [][ContractNext]_contractVars

=============================================================================
