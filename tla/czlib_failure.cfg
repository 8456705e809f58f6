SPECIFICATION PipelineSpec
CONSTANTS
  Null = Null
  FileLen = 4
  Chunk = 2
  MaxRanges = 2
  MaxSize = 2
  MaxLong = 1000
  OldSize = 4
  DeltaLength = 3
  RangeLists <- MCRangeLists
  OldPlans <- MCOldPlans
  Metadata <- MCMetadata
  BadValues <- MCBadValues
  Stale = Stale
INVARIANT NoPatchAfterFailure
