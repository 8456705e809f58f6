-------------------------- MODULE MCPatchPipeline --------------------------
(* PatchPipeline on every list of at most MaxRanges ranges, in order, in a  *)
(* file of FileLen bytes; a compressed range inflates to at most MaxSize.   *)
EXTENDS PatchPipeline

CONSTANTS MaxRanges, MaxSize

MCRanges ==
  {r \in [offset : 0..(FileLen - 1), length : 1..(FileLen - 1),
          size : 0..MaxSize, valid : BOOLEAN] : r.offset + r.length <= FileLen}

MCRangeLists ==
  {l \in UNION {[1..n -> MCRanges] : n \in 0..MaxRanges} :
     \A k \in 1..Len(l) : LastReadOffset(l, k - 1) <= l[k].offset}

\* No range of the old file, and two.
MCOldPlans == {<<>>, <<[offset |-> 1, length |-> 2], [offset |-> 3, length |-> 1]>>}

\* A 7z range and one of strategy 0.
MCMetadata == <<[level |-> 9, strategy |-> 7, nowrap |-> TRUE],
                [level |-> 6, strategy |-> 0, nowrap |-> TRUE]>>

\* Damage: too small, a small number, too large.
MCBadValues == {-1, 3, MaxLong}

=============================================================================
