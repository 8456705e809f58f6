SPECIFICATION PipelineSpec
CONSTANTS
  Null = Null
  FileLen = 5
  Chunk = 2
  MaxRanges = 2
  MaxSize = 2
  MaxLong = 1000
  OldSize = 4
  DeltaLength = 3
  RangeLists <- MCRangeLists
  OldPlans <- MCOldPlans
  Metadata <- MCMetadata
  BadValues <- MCBadValues
  Stale = Stale
INVARIANTS
  RangesAreFriendly
  InverseLocatesEntries
  GoodPatchIsRead
  CutPatchRefused
  PlansReadInOrder
