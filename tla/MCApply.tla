------------------------------ MODULE MCApply -------------------------------
(* Apply on plans that PlanSpace enumerates: short ones of all kinds, and   *)
(* longer ones, all of whose ranges but one are alike.                      *)
EXTENDS Apply, PlanSpace

CONSTANTS PlanSizes, RangeLengths, Kinds, LongPlanSizes

MCPlans == PlansWithin(BlobLen, PlanSizes, RangeLengths, Kinds)
             \union LongPlansWithin(BlobLen, LongPlanSizes, Kinds)

=============================================================================
