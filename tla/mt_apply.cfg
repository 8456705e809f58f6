SPECIFICATION FairSpec
CONSTANTS
  Null = Null
  BlobLen = 6
  BlockSize = 2
  PlanSizes = {0, 1, 3}
  LongPlanSizes = {5}
  RangeLengths = {1, 2}
  Kinds = {"zlib", "seven"}
  MaxThreads = 3
  ThreadArgs = {2, 3}
  Plans <- MCPlans
  Stale <- MCStale
  Faults = {"hpatchz", "7z", "io"}
INVARIANTS
  MergeOnlyCompleteFiles
  LatchCountsUnfinished
  NeverPastRange
  ReturnsRecompressed
PROPERTIES
  Terminates
  KeepsContract
CHECK_DEADLOCK FALSE
