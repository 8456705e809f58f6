--------------------------- MODULE PreDiffPlanner ---------------------------
(***************************************************************************)
(* PreDiffPlanner.generatePreDiffPlan: each entry of the new archive is    *)
(* paired with an entry of the old one and recommended for uncompression   *)
(* or not, the RecommendationModifiers (the two limiters) change the       *)
(* recommendations in turn, and the two uncompression plans are made.      *)
(*                                                                         *)
(* An archive is a set of entries with distinct paths, the values of the   *)
(* maps by path, in the order of whose iteration entries are handled.      *)
(* An entry's crc stands for its content, and bytes for what is stored of  *)
(* it in the archive.                                                      *)
(***************************************************************************)
EXTENDS Integers, Sequences, FiniteSets, FiniteSetsExt, Functions

CONSTANTS
  OldArchives,    \* sets of entries
  NewArchives,    \* sets of entries, params being what was divined
  ModifierLists,  \* sequences of limiters
  OldLength,      \* length of the old file
  Null

Stored == 0       \* compression methods
Deflate == 8

Recommendations ==
  {"UNCOMPRESS_OLD", "UNCOMPRESS_NEW", "UNCOMPRESS_BOTH", "UNCOMPRESS_NEITHER"}

\* A deflate entry as long as its content was stored with level 0.
IsDeflateCompressed(e) == e.method = Deflate /\ e.compressedSize # e.uncompressedSize

\* Every offset is that of the compressed data; no two entries overlap.
IsArchive(entries) ==
  /\ IsFiniteSet(entries)
  /\ \A e \in entries :
       /\ {e.offset, e.compressedSize, e.uncompressedSize} \subseteq Nat
       /\ e.method = Stored => e.compressedSize = e.uncompressedSize
  /\ \A e, f \in entries :
       e # f => /\ e.path # f.path
                /\ \/ e.offset + e.compressedSize <= f.offset /\ e.offset < f.offset
                   \/ f.offset + f.compressedSize <= e.offset /\ f.offset < e.offset

ASSUME PlannerAssumption ==
  /\ \A a \in OldArchives \union NewArchives : IsArchive(a)
  /\ \A m \in ModifierLists : m \in Seq([kind : {"total", "oldBlob"}, max : Nat])
  /\ OldLength \in Nat
  /\ \A e \in UNION OldArchives : e.offset + e.compressedSize <= OldLength

VARIABLES
  oldEntries,       \* oldArchiveZipEntriesByPath
  newEntries,       \* newArchiveZipEntriesByPath, with the divined parameters
  pending,          \* new entries the loop has not come to
  recommendations,  \* QualifiedRecommendations made so far
  modifiers,        \* recommendationModifiers
  applied,          \* how many of them have been applied
  plan              \* Null, then the PreDiffPlan

vars == <<oldEntries, newEntries, pending, recommendations, modifiers, applied, plan>>

Init == /\ oldEntries \in OldArchives
        /\ newEntries \in NewArchives
        /\ pending = newEntries
        /\ recommendations = <<>>
        /\ modifiers \in ModifierLists
        /\ applied = 0
        /\ plan = Null

-----------------------------------------------------------------------------
\* The new entry was deflated with parameters nobody could divine.
UnsuitableDeflate(new) == IsDeflateCompressed(new) /\ new.params = Null

\* Mutant of Unsuitable: only the new entry is looked at.
UnsuitableNew(old, new) == new.method # Stored /\ ~IsDeflateCompressed(new)

\* One of the entries is compressed in a way that is not supported.
Unsuitable(old, new) ==
  \E e \in {old, new} : e.method # Stored /\ ~IsDeflateCompressed(e)

\* The lengths differ, or the bytes do.
CompressedBytesChanged(old, new) ==
  old.compressedSize # new.compressedSize \/ old.bytes # new.bytes

\* getRecommendation: the first rule that applies.
Recommended(old, new) ==
  IF UnsuitableDeflate(new) \/ Unsuitable(old, new) THEN "UNCOMPRESS_NEITHER"
  ELSE CASE old.method = Stored /\ new.method = Stored -> "UNCOMPRESS_NEITHER"
         [] old.method = Stored /\ new.method # Stored -> "UNCOMPRESS_NEW"
         [] old.method # Stored /\ new.method = Stored -> "UNCOMPRESS_OLD"
         [] old.method # Stored /\ new.method # Stored ->
              IF CompressedBytesChanged(old, new)
              THEN "UNCOMPRESS_BOTH" ELSE "UNCOMPRESS_NEITHER"

UncompressOld(rec) == rec.recommendation \in {"UNCOMPRESS_OLD", "UNCOMPRESS_BOTH"}
UncompressNew(rec) == rec.recommendation \in {"UNCOMPRESS_NEW", "UNCOMPRESS_BOTH"}

\* The entry of the same path or, if there is none, one of the same crc.
DiffBases(new) ==
  LET samePath == {old \in oldEntries : old.path = new.path}
  IN IF samePath # {} THEN samePath ELSE {old \in oldEntries : old.crc = new.crc}

\* One turn of the loop of getDefaultRecommendations.
Recommend(new) ==
  /\ new \in pending
  /\ pending' = pending \ {new}
  /\ IF DiffBases(new) = {}
     THEN UNCHANGED recommendations
     ELSE \E old \in DiffBases(new) :
            recommendations' =
              Append(recommendations,
                     [old |-> old, new |-> new, recommendation |-> Recommended(old, new)])
  /\ UNCHANGED <<oldEntries, newEntries, modifiers, applied, plan>>

-----------------------------------------------------------------------------
Recs == {recommendations[k] : k \in DOMAIN recommendations}

\* The recommendations by decreasing size: sorted, which is stable, and then
\* reversed.
Decreasing(size) ==
  LET Before(i, j) ==
        LET a == size[recommendations[i]]
            b == size[recommendations[j]]
        IN a > b \/ (a = b /\ i > j)
      order == CHOOSE p \in Bijection(DOMAIN recommendations, DOMAIN recommendations) :
                 \A i, j \in DOMAIN recommendations : i < j => Before(p[i], p[j])
  IN [k \in DOMAIN recommendations |-> recommendations[order[k]]]

\* Mutant of Refused: the old entry is uncompressed all the same.
RefusedNew(rec) == [rec EXCEPT !.recommendation =
                      IF @ = "UNCOMPRESS_BOTH" THEN "UNCOMPRESS_NEW" ELSE "UNCOMPRESS_NEITHER"]

\* What a limiter makes of a recommendation there is no room for.
Refused(rec) == [rec EXCEPT !.recommendation = "UNCOMPRESS_NEITHER"]

\* Mutant of Fits: off by one.
FitsAlmost(left, cost) == left - cost >= -1

\* An exact fit is kept, although the comments of both limiters say that an
\* entry is retained if it takes less than what is left (RetainedOnlyBelowCap).
Fits(left, cost) == left - cost >= 0

\* Mutant of Limited: a refused recommendation is charged, too.
LimitedChargingRefused(sorted, counted, cost, budget) ==
  LET left[k \in 0..Len(sorted)] ==
        IF k = 0 THEN budget
        ELSE IF sorted[k] \in counted THEN left[k - 1] - cost[sorted[k]] ELSE left[k - 1]
  IN [k \in DOMAIN sorted |->
        IF sorted[k] \in counted /\ ~Fits(left[k - 1], cost[sorted[k]])
        THEN Refused(sorted[k]) ELSE sorted[k]]

\* The greedy loop of both limiters: of the recommendations that count, one
\* whose cost fits in what is left of the budget is kept, another refused.
Limited(sorted, counted, cost, budget) ==
  LET left[k \in 0..Len(sorted)] ==
        IF k = 0 THEN budget
        ELSE IF sorted[k] \in counted /\ Fits(left[k - 1], cost[sorted[k]])
             THEN left[k - 1] - cost[sorted[k]] ELSE left[k - 1]
  IN [k \in DOMAIN sorted |->
        IF sorted[k] \in counted /\ ~Fits(left[k - 1], cost[sorted[k]])
        THEN Refused(sorted[k]) ELSE sorted[k]]

NewSize == [rec \in Recs |-> rec.new.uncompressedSize]
OldSize == [rec \in Recs |-> rec.old.uncompressedSize]

\* Mutant of ExtraBytes: the sizes are taken the wrong way round.
ExtraBytesOfContent(rec) == rec.old.compressedSize - rec.old.uncompressedSize

\* What uncompressing the old entry adds to the delta-friendly old blob.
ExtraBytes(rec) == rec.old.uncompressedSize - rec.old.compressedSize

Modifier == modifiers[applied + 1]

NextModifier(kind) ==
  /\ pending = {} /\ applied < Len(modifiers) /\ Modifier.kind = kind
  /\ applied' = applied + 1
  /\ UNCHANGED <<oldEntries, newEntries, pending, modifiers, plan>>

\* TotalRecompressionLimiter.getModifiedRecommendations.
LimitTotalRecompression ==
  /\ NextModifier("total")
  /\ recommendations' =
       Limited(Decreasing(NewSize), {rec \in Recs : UncompressNew(rec)},
               NewSize, Modifier.max)

\* DeltaFriendlyOldBlobSizeLimiter.getModifiedRecommendations.
LimitOldBlobSize ==
  /\ NextModifier("oldBlob")
  /\ recommendations' =
       Limited(Decreasing(OldSize), {rec \in Recs : UncompressOld(rec)},
               [rec \in Recs |-> ExtraBytes(rec)], Modifier.max - OldLength)

-----------------------------------------------------------------------------
\* A range of a plan; the parameters of an old one are not looked at.
RangeOf(entry, params) ==
  [offset |-> entry.offset, length |-> entry.compressedSize, params |-> params]

InFileOrder(ranges) ==
  CHOOSE s \in [1..Cardinality(ranges) -> ranges] :
    \A i, j \in DOMAIN s : i < j => s[i].offset < s[j].offset

\* The plans are made of sets, so that an old entry two new ones are paired
\* with is uncompressed once.
OldRanges == {RangeOf(rec.old, Null) : rec \in {r \in Recs : UncompressOld(r)}}
NewRanges == {RangeOf(rec.new, rec.new.params) : rec \in {r \in Recs : UncompressNew(r)}}

MakePlan ==
  /\ pending = {} /\ applied = Len(modifiers) /\ plan = Null
  /\ plan' = [old |-> InFileOrder(OldRanges), new |-> InFileOrder(NewRanges)]
  /\ UNCHANGED <<oldEntries, newEntries, pending, recommendations, modifiers, applied>>

Terminated == plan # Null /\ UNCHANGED vars

Next == \/ \E new \in pending : Recommend(new)
        \/ LimitTotalRecompression
        \/ LimitOldBlobSize
        \/ MakePlan
        \/ Terminated

Spec == Init /\ [][Next]_vars

-----------------------------------------------------------------------------
(***************************************************************************)
(* Properties.                                                             *)
(***************************************************************************)
EntriesOf(entries, ranges) ==
  {e \in entries : \E k \in DOMAIN ranges : ranges[k].offset = e.offset}

SumOver(entries, size) == FoldSet(LAMBDA e, sum : sum + size[e], 0, entries)

\* The bytes that applying the patch will have to recompress.
BytesToRecompress ==
  SumOver(EntriesOf(newEntries, plan.new), [e \in newEntries |-> e.uncompressedSize])

OldBlobSize ==
  OldLength + SumOver(EntriesOf(oldEntries, plan.old),
                      [e \in oldEntries |-> e.uncompressedSize - e.compressedSize])

Maxima(kind) == {modifiers[k].max : k \in {j \in DOMAIN modifiers : modifiers[j].kind = kind}}

\* A TotalRecompressionLimiter anywhere among the modifiers bounds what the
\* final plan recompresses: the modifiers after it do not undo its work.
RecompressionWithinLimit ==
  plan # Null => \A max \in Maxima("total") : BytesToRecompress <= max

\* A DeltaFriendlyOldBlobSizeLimiter, wherever it stands, bounds the size of
\* the delta-friendly old blob, which is never below that of the old file,
\* although an old entry may be paired with several new ones; provided no
\* old entry is longer compressed than uncompressed.
OldBlobWithinLimit ==
  plan # Null /\ (\A e \in oldEntries : e.compressedSize <= e.uncompressedSize) =>
    \A max \in Maxima("oldBlob") : OldBlobSize <= max \/ OldBlobSize = OldLength

\* Both plans can be executed and undone: in file order, without overlap,
\* only of deflated data and, in the new file, with the parameters to
\* compress it again, whichever entries were paired.
PlansAreExecutable ==
  plan # Null =>
    /\ \A ranges \in {plan.old, plan.new} :
         \A k \in 2..Len(ranges) :
           ranges[k - 1].offset + ranges[k - 1].length <= ranges[k].offset
    /\ \A e \in EntriesOf(oldEntries, plan.old) : IsDeflateCompressed(e)
    /\ \A e \in EntriesOf(newEntries, plan.new) :
         IsDeflateCompressed(e) /\ e.params # Null

\* A new entry is uncompressed only to be compared with plain bytes: those of
\* an entry that was stored or that is uncompressed, too.  No limiter leaves
\* one half of a pair.
UncompressedMeetsPlain ==
  plan # Null =>
    \A rec \in Recs : rec.new \in EntriesOf(newEntries, plan.new) =>
      rec.old.method = Stored \/ rec.old \in EntriesOf(oldEntries, plan.old)

\* A TotalRecompressionLimiter on its own is maximal: a pair that the rules
\* would have uncompressed is left only if the final plan with it would pass
\* the maximum.  A plan that just reaches the maximum counts as within it, as
\* in the code; RetainedOnlyBelowCap is what the class comment says.
RefusedOnlyForSpace ==
  plan # Null /\ Len(modifiers) = 1 /\ modifiers[1].kind = "total" =>
    \A rec \in Recs :
      /\ Recommended(rec.old, rec.new) \in {"UNCOMPRESS_NEW", "UNCOMPRESS_BOTH"}
      /\ ~UncompressNew(rec)
      => BytesToRecompress + NewSize[rec] > modifiers[1].max

\* TotalRecompressionLimiter's comment: "if the uncompressed size is less than
\* the number of uncompressed bytes remaining before hitting the cap, retain
\* it; else, discard it".  What is retained then never uses up the cap.
RetainedOnlyBelowCap ==
  plan # Null /\ plan.new # <<>> =>
    \A max \in Maxima("total") : BytesToRecompress < max

=============================================================================
