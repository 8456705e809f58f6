SPECIFICATION Spec
CONSTANTS
  FileLen = 4
  Chunk = 2
  MaxRanges = 1
  MaxSize = 2
  RangeLists <- MCRangeLists
  Stale = Stale
INVARIANT TailIsCopied
