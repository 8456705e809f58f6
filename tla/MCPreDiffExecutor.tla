------------------------- MODULE MCPreDiffExecutor -------------------------
(* PreDiffExecutor on archives of a few entries, one after the other from   *)
(* the start of the file, of the kinds of content and compression below,    *)
(* with paths in increasing order.                                          *)
EXTENDS PreDiffExecutor

CONSTANTS OldSizes, OldKinds, OldPaths, NewPaths, Budgets,
  NewKinds,      \* kinds of the only entry of a new archive
  SeveralSizes,  \* numbers of entries of the others, of SeveralKinds
  SeveralKinds

\* zlib on three contents: X and Y shrink by an amount that depends on the
\* level, L grows.  Strategy 2 and the low levels of 1 are as zlib has them.
MCContents == {"X", "Y", "L"}

Class(s) == CASE s.strategy = 2 -> <<"huffman", 1>>
              [] s.strategy = 1 /\ s.level > 3 -> <<"filtered", s.level>>
              [] OTHER -> <<"default", s.level>>

Header(s) == IF s.nowrap THEN <<>> ELSE <<<<"header", 0>>>>

Body(s, c) ==
  LET class == Class(s)
      length == IF c = "L" THEN 6 ELSE IF class[2] = 9 THEN 1 ELSE 2
  IN [k \in 1..length |-> IF k = 1 THEN class ELSE <<c, k>>]

MCBytes == {<<"header", 0>>} \union ({"default", "filtered", "huffman", "junk"} \X (0..9))
             \union (MCContents \X (2..6))

MCDeflated == [s \in Settings |-> [c \in MCContents |-> Header(s) \o Body(s, c)]]

Zlib(level, strategy, nowrap, crc) ==
  MCDeflated[[level |-> level, strategy |-> strategy, nowrap |-> nowrap]][crc]

Junk == <<"junk", 0>>

Plain(crc) == IF crc = "X" THEN 4 ELSE IF crc = "Y" THEN 3 ELSE 5

Kind(crc, method, form, bytes) ==
  [crc |-> crc, method |-> method, form |-> form, bytes |-> bytes,
   compressedSize |-> Len(bytes), uncompressedSize |-> Plain(crc), params |-> Null]

\* junk has a byte after the end of the deflate stream, foreign comes from
\* another compressor, cut is short of its end; unpacked is deflate of level
\* 0, alien a method that is not supported.
Kinds ==
  [fast     |-> Kind("X", Deflate, "raw", Zlib(2, 0, TRUE, "X")),
   best     |-> Kind("X", Deflate, "raw", Zlib(9, 0, TRUE, "X")),
   filtered |-> Kind("Y", Deflate, "raw", Zlib(5, 1, TRUE, "Y")),
   huffman  |-> Kind("Y", Deflate, "raw", Zlib(3, 2, TRUE, "Y")),
   wrapped  |-> Kind("Y", Deflate, "wrapped", Zlib(9, 0, FALSE, "Y")),
   junk     |-> Kind("X", Deflate, "raw", Append(Zlib(6, 0, TRUE, "X"), Junk)),
   foreign  |-> Kind("Y", Deflate, "raw", <<Junk, Junk>>),
   cut      |-> Kind("X", Deflate, "truncated", <<Zlib(1, 0, TRUE, "X")[1]>>),
   longer   |-> Kind("L", Deflate, "raw", Zlib(6, 0, TRUE, "L")),
   stored   |-> Kind("X", Stored, "corrupt", <<Junk, Junk, Junk, Junk>>),
   unpacked |-> Kind("Y", Deflate, "raw", <<Junk, Junk, Junk>>),
   alien    |-> Kind("X", 12, "corrupt", <<Junk, Junk>>)]

\* The entries of the kinds and paths given.
Archive(kinds, paths) ==
  LET size(k) == Kinds[kinds[k]].compressedSize
      offset[k \in Nat] == IF k = 1 THEN 0 ELSE offset[k - 1] + size(k - 1)
  IN {[path |-> paths[k], offset |-> offset[k]] @@ Kinds[kinds[k]] : k \in DOMAIN kinds}

\* Some of the paths, which are numbers here, in increasing order.
Increasing(paths) == {SetToSortSeq(some, LAMBDA p, q : p < q) : some \in SUBSET paths}

Archives(sizes, kinds, paths) ==
  UNION {{Archive(ks, ps) : ks \in [1..n -> kinds],
                            ps \in {p \in Increasing(paths) : Len(p) = n}} : n \in sizes}

MCOldArchives == Archives(OldSizes, OldKinds, OldPaths)
MCNewArchives ==
  Archives({1}, NewKinds, NewPaths) \union Archives(SeveralSizes, SeveralKinds, NewPaths)

MCModifierLists ==
  {<<>>} \union {<<m>> : m \in [kind : {"total", "oldBlob"}, max : Budgets]}
    \union {<<m, n>> : m, n \in [kind : {"total", "oldBlob"}, max : Budgets]}

=============================================================================
