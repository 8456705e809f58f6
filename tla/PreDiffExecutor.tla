--------------------------- MODULE PreDiffExecutor ---------------------------
(***************************************************************************)
(* PreDiffExecutor.generatePreDiffPlan: the entries of the new archive go  *)
(* through the diviner one by one, in file order, and what it finds is     *)
(* given to the planner.                                                   *)
(***************************************************************************)
EXTENDS PreDiffPlanner, Diviner

\* The entries are records of these fields, and an inflater finds in them
\* what zlib made.
ASSUME ExecutorAssumption ==
  /\ NoSettings = Null
  /\ \A e \in UNION NewArchives :
       /\ {"path", "offset", "method", "compressedSize", "uncompressedSize", "crc", "bytes",
           "params"} \subseteq DOMAIN e
       /\ e.bytes \in Seq(Bytes)
       /\ e.method = Deflate => e.crc \in Contents
  /\ \A e \in UNION NewArchives : e.method = Deflate =>
       \A s \in Settings : Deflated[s][e.crc] = e.bytes =>
         e.form = IF s.nowrap THEN "raw" ELSE "wrapped"

VARIABLES
  undivined,  \* entries of the new archive the diviner has not come to
  threw       \* an IOException has gone up to the caller

executorVars == <<undivined, threw, vars>>

\* The archives as they are listed, before any parameters are known.
ExecutorInit == /\ Init
                /\ \A e \in newEntries : e.params = Null
                /\ undivined = newEntries
                /\ threw = FALSE

\* The next entry in the file.
IsNext(entry) ==
  /\ ~threw
  /\ entry \in undivined
  /\ \A other \in undivined : entry.offset <= other.offset

Divine(entry) ==
  /\ IsNext(entry)
  /\ undivined' = undivined \ {entry}
  /\ newEntries' = (newEntries \ {entry}) \union
       {[entry EXCEPT !.params = IF IsDeflateCompressed(entry) THEN Divined(entry) ELSE Null]}
  /\ pending' = newEntries'
  /\ UNCHANGED <<oldEntries, recommendations, modifiers, applied, plan, threw>>

\* The exception is not caught for a large entry, and ends the generation.
DivinationThrows(entry) ==
  /\ IsNext(entry) /\ IsDeflateCompressed(entry) /\ MayThrow(entry)
  /\ threw' = TRUE
  /\ UNCHANGED <<undivined, vars>>

GeneratePreDiffPlan ==
  /\ undivined = {}
  /\ \/ \E new \in pending : Recommend(new)
     \/ LimitTotalRecompression
     \/ LimitOldBlobSize
     \/ MakePlan
  /\ UNCHANGED <<undivined, threw>>

ExecutorTerminated == (plan # Null \/ threw) /\ UNCHANGED executorVars

ExecutorNext == \/ \E entry \in undivined : Divine(entry) \/ DivinationThrows(entry)
                \/ GeneratePreDiffPlan
                \/ ExecutorTerminated

ExecutorSpec == ExecutorInit /\ [][ExecutorNext]_executorVars

-----------------------------------------------------------------------------
\* A range of the new file is planned only with settings that reproduce it:
\* all of its bytes, those after the end of the deflate stream too.
RangesReproduce ==
  plan # Null =>
    \A k \in DOMAIN plan.new :
      LET r == plan.new[k]
      IN \E e \in newEntries :
           r.offset = e.offset /\ Deflated[r.params][e.crc] = e.bytes

=============================================================================
