----------------------------- MODULE PatchFormat -----------------------------
(***************************************************************************)
(* The patch file up to its delta: what PatchWriter.writeV1Patch writes    *)
(* and PatchReader.readPatchApplyPlan reads.  A file is the sequence of    *)
(* the values of its fields; the delta, which the reader does not touch,   *)
(* is left out.                                                            *)
(***************************************************************************)
EXTENDS Integers, Sequences

CONSTANTS
  MaxLong,    \* the largest long, 2^63 - 1
  Null

ASSUME FormatAssumption == MaxLong \in Nat

Compression == INSTANCE PartialCompression

Identifier == 17       \* the fields that are the same in every patch
DefaultDeflate == 0
Bsdiff == 0

-----------------------------------------------------------------------------
\* Mutant of ParamFields: nowrap is written the wrong way round.
ParamFieldsOfWrap(p) ==
  <<DefaultDeflate, p.level, p.strategy, IF p.nowrap THEN 0 ELSE 1>>

ParamFields(p) ==
  <<DefaultDeflate, p.level, p.strategy, IF p.nowrap THEN 1 ELSE 0>>

\* An instruction of either plan; the old one has no parameters.
OldInstruction(r) == <<r.offset, r.length>>
NewInstruction(r) == <<r.offset, r.length>> \o ParamFields(r.params)

OldInstructions(plan) ==
  [i \in 1..(2 * Len(plan)) |-> OldInstruction(plan[(i + 1) \div 2])[1 + ((i + 1) % 2)]]

NewInstructions(plan) ==
  [i \in 1..(6 * Len(plan)) |-> NewInstruction(plan[(i + 5) \div 6])[1 + ((i + 5) % 6)]]

\* writeV1Patch, for delta-friendly blobs of the sizes given.
Patch(oldPlan, newPlan, oldSize, newSize, deltaLength) ==
  <<Identifier, 0, oldSize, Len(oldPlan)>> \o OldInstructions(oldPlan)
    \o <<Len(newPlan)>> \o NewInstructions(newPlan)
    \o <<1, Bsdiff, 0, oldSize, 0, newSize, deltaLength>>

-----------------------------------------------------------------------------
VARIABLES
  file,            \* fields still to be read
  reading,         \* "header", "old", "new", "accepted", "refused" for an
                   \* IOException, "crashed" for one that nobody declares
  toRead,          \* instructions of the plan at hand still to be read
  lastReadOffset,
  oldPlanRead, newPlanRead

readerVars == <<file, reading, toRead, lastReadOffset, oldPlanRead, newPlanRead>>

ReaderInit == /\ reading = "header"
              /\ toRead = 0
              /\ lastReadOffset = -1
              /\ oldPlanRead = <<>>
              /\ newPlanRead = <<>>

\* A long sum.
Long(n) == IF n > MaxLong THEN n - 2 * (MaxLong + 1) ELSE n

Rest(n) == SubSeq(file, n + 1, Len(file))

\* The flags are skipped.
HeaderIsGood ==
  /\ Len(file) >= 4
  /\ file[1] = Identifier
  /\ file[3] >= 0 /\ file[4] >= 0

ReadHeader ==
  /\ reading = "header" /\ HeaderIsGood
  /\ reading' = "old"
  /\ toRead' = file[4]
  /\ lastReadOffset' = -1
  /\ file' = Rest(4)
  /\ UNCHANGED <<oldPlanRead, newPlanRead>>

\* Mutant of RangeIsGood: overlapping ranges pass.
RangeIsNonNegative == file[1] >= 0 /\ file[2] >= 0

RangeIsGood == file[1] >= 0 /\ file[2] >= 0 /\ file[1] >= lastReadOffset

ReadOldInstruction ==
  /\ reading = "old" /\ toRead > 0
  /\ Len(file) >= 2 /\ RangeIsGood
  /\ oldPlanRead' = Append(oldPlanRead, [offset |-> file[1], length |-> file[2]])
  /\ lastReadOffset' = Long(file[1] + file[2])
  /\ toRead' = toRead - 1
  /\ file' = Rest(2)
  /\ UNCHANGED <<reading, newPlanRead>>

CountIsGood == Len(file) >= 1 /\ file[1] >= 0

ReadNewCount ==
  /\ reading = "old" /\ toRead = 0 /\ CountIsGood
  /\ reading' = "new"
  /\ toRead' = file[1]
  /\ lastReadOffset' = -1
  /\ file' = Rest(1)
  /\ UNCHANGED <<oldPlanRead, newPlanRead>>

ParamsAreGood == /\ file[3] = DefaultDeflate
                 /\ file[4] \in 1..9
                 /\ file[5] \in 0..7
                 /\ file[6] \in 0..1

\* The parameters that JreDeflateParameters.of has an instance for.
Exist(level, strategy) == strategy <= 2 \/ (strategy = 7 /\ level % 2 = 1)

ReadNewInstruction ==
  /\ reading = "new" /\ toRead > 0
  /\ Len(file) >= 6 /\ RangeIsGood /\ ParamsAreGood
  /\ Exist(file[4], file[5])
  /\ newPlanRead' = Append(newPlanRead,
       [offset |-> file[1], length |-> file[2],
        params |-> [level |-> file[4], strategy |-> file[5], nowrap |-> file[6] = 1]])
  /\ lastReadOffset' = Long(file[1] + file[2])
  /\ toRead' = toRead - 1
  /\ file' = Rest(6)
  /\ UNCHANGED <<reading, oldPlanRead>>

\* JreDeflateParameters.of throws an IllegalArgumentException.
NoSuchParameters ==
  /\ reading = "new" /\ toRead > 0
  /\ Len(file) >= 6 /\ RangeIsGood /\ ParamsAreGood
  /\ ~Exist(file[4], file[5])
  /\ reading' = "crashed"
  /\ UNCHANGED <<file, toRead, lastReadOffset, oldPlanRead, newPlanRead>>

\* Mutant of DescriptorIsGood: the length of the delta is not read.
DescriptorWithoutLength ==
  Len(file) >= 6 /\ file[1] = 1 /\ file[2] = Bsdiff /\ \A k \in 3..6 : file[k] >= 0

\* One descriptor of a bsdiff delta, of which nothing can be negative.
DescriptorIsGood ==
  /\ Len(file) >= 7
  /\ file[1] = 1 /\ file[2] = Bsdiff
  /\ \A k \in 3..7 : file[k] >= 0

ReadDescriptor ==
  /\ reading = "new" /\ toRead = 0 /\ DescriptorIsGood
  /\ reading' = "accepted"
  /\ file' = Rest(7)
  /\ UNCHANGED <<toRead, lastReadOffset, oldPlanRead, newPlanRead>>

\* The file ends early, or a value fails its check.
Refuse ==
  /\ \/ reading = "header" /\ ~HeaderIsGood
     \/ reading = "old" /\ toRead > 0 /\ ~(Len(file) >= 2 /\ RangeIsGood)
     \/ reading = "old" /\ toRead = 0 /\ ~CountIsGood
     \/ reading = "new" /\ toRead > 0 /\ ~(Len(file) >= 6 /\ RangeIsGood /\ ParamsAreGood)
     \/ reading = "new" /\ toRead = 0 /\ ~DescriptorIsGood
  /\ reading' = "refused"
  /\ UNCHANGED <<file, toRead, lastReadOffset, oldPlanRead, newPlanRead>>

ReaderNext == \/ ReadHeader
              \/ ReadOldInstruction
              \/ ReadNewCount
              \/ ReadNewInstruction
              \/ NoSuchParameters
              \/ ReadDescriptor
              \/ Refuse

\* The reader on any file.
ReaderSpec == file \in Seq(Int) /\ ReaderInit /\ [][ReaderNext]_readerVars

-----------------------------------------------------------------------------
OldInstructionSet == [offset : Nat, length : Nat]

\* Every variable has its type.
ReaderTypeOK ==
  /\ file \in Seq(Int)
  /\ reading \in {"header", "old", "new", "accepted", "refused", "crashed"}
  /\ toRead \in Nat
  /\ lastReadOffset \in Int
  /\ oldPlanRead \in Seq(OldInstructionSet)
  /\ newPlanRead \in Seq(Compression!Ranges)

EndFits(r) == Compression!End(r) <= MaxLong

\* Each range starts where the one before it ends, or later; unless that end
\* overflows, for then the check is made against a negative number.
RangesFollow(plan) ==
  \A k \in 2..Len(plan) :
    EndFits(plan[k - 1]) => Compression!End(plan[k - 1]) <= plan[k].offset

\* Whatever the file holds, every range the reader has taken in lies after the
\* one before it, in plans with ends that overflow too: the order is lost only
\* directly after such a range.  And the parameters of every range exist.  With
\* no end that overflows, the plans are what Apply and MThreadApply assume.
PlansReadInOrder ==
  /\ RangesFollow(oldPlanRead)
  /\ RangesFollow(newPlanRead)
  /\ \A k \in 1..Len(newPlanRead) :
       Exist(newPlanRead[k].params.level, newPlanRead[k].params.strategy)

=============================================================================
