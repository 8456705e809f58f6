--------------------------- MODULE MCMThreadApply ---------------------------
(* MThreadApply on plans that PlanSpace enumerates: short ones of all kinds, *)
(* and longer ones, all of whose ranges but one are alike.                   *)
EXTENDS MThreadApply, PlanSpace

CONSTANTS PlanSizes, RangeLengths, Kinds, LongPlanSizes

MCPlans == PlansWithin(BlobLen, PlanSizes, RangeLengths, Kinds)
             \union LongPlansWithin(BlobLen, LongPlanSizes, Kinds)

\* One item: what a file of an earlier run may begin with.
MCStale == <<<<"copy">>, <<0>>>>

=============================================================================
