------------------------------- MODULE Diviner -------------------------------
(***************************************************************************)
(* DefaultDeflateCompressionDiviner: the search for the settings that a    *)
(* deflated entry was compressed with.  Each candidate inflates the entry, *)
(* deflates the content again and has a MatchingOutputStream compare what  *)
(* comes out with the entry's bytes.                                       *)
(*                                                                         *)
(* zlib is external: Deflated gives the bytes that it makes of a content   *)
(* with the settings, and the form of an entry is what an inflater finds   *)
(* in it: a deflate stream without a zlib header ("raw") or with one       *)
(* ("wrapped"), neither ("corrupt"), or one that is cut off ("truncated"). *)
(***************************************************************************)
EXTENDS Integers, Sequences, SequencesExt

CONSTANTS
  Bytes,
  Contents,   \* contents of entries, named by their crc
  Deflated,   \* zlib: from settings and contents to sequences of bytes
  SmallSize,  \* 100 * 1024: a smaller entry is read into memory first
  NoSettings  \* null: none were found

\* The settings of java.util.zip.Deflater.
Settings == [level : 1..9, strategy : 0..2, nowrap : BOOLEAN]

\* The settings that the search leaves out make the same bytes as others.
ASSUME ZlibAssumption ==
  /\ Deflated \in [Settings -> [Contents -> Seq(Bytes)]]
  /\ SmallSize \in Nat
  /\ \A s \in Settings :
       /\ s.strategy = 1 /\ s.level <= 3 => Deflated[s] = Deflated[[s EXCEPT !.strategy = 0]]
       /\ s.strategy = 2 => Deflated[s] = Deflated[[s EXCEPT !.level = 1]]

\* In the order in which they are tried.
LevelsByStrategy ==
  [strategy \in 0..2 |-> CASE strategy = 0 -> <<6, 9, 1, 4, 2, 3, 5, 7, 8>>
                           [] strategy = 1 -> <<6, 9, 4, 5, 7, 8>>
                           [] strategy = 2 -> <<1>>]

\* The candidates of one turn of the outer loop.
Candidates(nowrap) ==
  LET of(strategy) ==
        [k \in DOMAIN LevelsByStrategy[strategy] |->
           [level |-> LevelsByStrategy[strategy][k], strategy |-> strategy, nowrap |-> nowrap]]
  IN of(0) \o of(1) \o of(2)

\* The inflater reads the entry to the end of the deflate stream.
Inflates(entry, nowrap) == entry.form = IF nowrap THEN "raw" ELSE "wrapped"

\* Mutant of Matches: expectEof is not called.
MatchesUpToEnd(entry, setting) == IsPrefix(Deflated[setting][entry.crc], entry.bytes)

\* Every byte written to the MatchingOutputStream is the expected one, and
\* expectEof finds that there are no more.
Matches(entry, setting) ==
  LET out == Deflated[setting][entry.crc]
  IN IsPrefix(out, entry.bytes) /\ Len(out) = Len(entry.bytes)

\* The first candidate that matches, or null; a ZipException ends the turn.
FirstMatch(entry, nowrap) ==
  LET tried == Candidates(nowrap)
      matching == {k \in DOMAIN tried : Matches(entry, tried[k])}
  IN IF Inflates(entry, nowrap) /\ matching # {}
     THEN tried[CHOOSE k \in matching : \A j \in matching : k <= j]
     ELSE NoSettings

Divined(entry) ==
  IF FirstMatch(entry, TRUE) # NoSettings THEN FirstMatch(entry, TRUE)
                                    ELSE FirstMatch(entry, FALSE)

\* The EOFException at a cut is not a ZipException: it leaves the search,
\* unless every candidate has failed to match before the cut, and for a
\* small entry means null.
MayThrow(entry) == entry.form = "truncated" /\ Len(entry.bytes) >= SmallSize

=============================================================================
