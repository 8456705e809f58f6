---------------------------- MODULE MCSplitLoop ----------------------------
(* SplitLoop on every list of MixedSizes ranges, zlib of length 1 or 7z of  *)
(* a length in SevenZipLengths, and on longer ones without 7z.              *)
EXTENDS SplitLoop

CONSTANTS MixedSizes, SevenZipLengths, ZlibSizes

Zlib == [params |-> [strategy |-> 0], length |-> 1]

MCRanges ==
  {Zlib} \union {[params |-> [strategy |-> 7], length |-> n] : n \in SevenZipLengths}

MCLists ==
  UNION {[1..size -> MCRanges] : size \in MixedSizes}
    \union {[k \in 1..size |-> Zlib] : size \in ZlibSizes}

=============================================================================
