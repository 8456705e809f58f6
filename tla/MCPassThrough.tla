--------------------------- MODULE MCPassThrough ---------------------------
(* PassThrough on files that the reads, the blocks and the words cut in     *)
(* every way.                                                               *)
EXTENDS PassThrough

CONSTANTS Lengths,       \* lengths of a file copied alone
          SecondLengths  \* lengths of two files copied in a row

\* A file of n bytes, the ones at the places of a pattern being zero.
FileOf(n, pattern) == [i \in 1..n |-> IF i \in pattern THEN 0 ELSE i]

Patterns(n) == {{}, 1..n, {i \in 1..n : i \in 2..8}}

Single(n) == {FileOf(n, p) : p \in Patterns(n)}

MCFileLists ==
  {<<f>> : f \in UNION {Single(n) : n \in Lengths}}
    \union {<<FileOf(n, 1..n), FileOf(m, {})>> : n, m \in SecondLengths}

=============================================================================
