--------------------------- MODULE MCCzlibProcess ---------------------------
(* CzlibProcess on every list of at most MaxRanges ranges, in order, inside *)
(* a file of FileLen bytes; a compressed byte inflates to at most MaxSize.  *)
EXTENDS CzlibProcess

CONSTANTS MaxRanges, MaxSize

MCRanges ==
  {r \in [offset : 0..(FileLen - 1), length : 1..(FileLen - 1),
          size : 0..MaxSize, valid : BOOLEAN] : r.offset + r.length <= FileLen}

MCRangeLists ==
  {l \in UNION {[1..n -> MCRanges] : n \in 0..MaxRanges} :
     \A k \in 1..Len(l) : LastReadOffset(l, k - 1) <= l[k].offset}

=============================================================================
