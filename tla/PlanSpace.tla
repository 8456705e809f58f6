----------------------------- MODULE PlanSpace -----------------------------
(***************************************************************************)
(* The recompression plans of the small instances: ranges in order, of     *)
(* the lengths and kinds given, that leave the last byte of the blob       *)
(* uncompressed (an archive ends with its central directory).              *)
(***************************************************************************)
EXTENDS PartialCompression

\* zlib at two levels, zlib with its header (nowrap off), and 7z.
KindParams ==
  [zlib   |-> [level |-> 6, strategy |-> 0, nowrap |-> TRUE],
   best   |-> [level |-> 9, strategy |-> 0, nowrap |-> TRUE],
   header |-> [level |-> 9, strategy |-> 1, nowrap |-> FALSE],
   seven  |-> [level |-> 9, strategy |-> 7, nowrap |-> TRUE]]

RangesWithin(blobLen, lengths, kinds) ==
  {r \in [offset : 0..(blobLen - 1), length : lengths,
          params : {KindParams[k] : k \in kinds}] : End(r) < blobLen}

\* Plans of a number of ranges in sizes.
PlansWithin(blobLen, sizes, lengths, kinds) ==
  LET all == RangesWithin(blobLen, lengths, kinds)
      Extensions(p) == {Append(p, r) : r \in
                          {q \in all : StartOfGap(p, Len(p) + 1) <= q.offset}}
      ofSize[k \in Nat] ==
        IF k = 0 THEN {<<>>} ELSE UNION {Extensions(p) : p \in ofSize[k - 1]}
  IN UNION {ofSize[k] : k \in sizes}

\* All ranges but one have the same parameters.
AlmostUniform(p) ==
  \E k \in 1..Len(p) : \A i, j \in (1..Len(p)) \ {k} : p[i].params = p[j].params

\* Longer plans, of ranges of one byte.
LongPlansWithin(blobLen, sizes, kinds) ==
  {p \in PlansWithin(blobLen, sizes, {1}, kinds) : AlmostUniform(p)}

=============================================================================
