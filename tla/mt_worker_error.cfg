SPECIFICATION FairSpec
CONSTANTS
  Null = Null
  BlobLen = 5
  BlockSize = 2
  PlanSizes = {3}
  LongPlanSizes = {}
  RangeLengths = {1, 2}
  Kinds = {"zlib", "seven"}
  MaxThreads = 2
  ThreadArgs = {2}
  Plans <- MCPlans
  Stale <- MCStale
  Faults = {"io"}
PROPERTY WorkerErrorReported
CHECK_DEADLOCK FALSE
