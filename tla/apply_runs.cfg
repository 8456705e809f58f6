SPECIFICATION FairSpec
CONSTANTS
  Null = Null
  BlobLen = 5
  BlockSize = 2
  PlanSizes = {0, 1, 2}
  LongPlanSizes = {3}
  RangeLengths = {0, 1, 2}
  Kinds = {"zlib", "best", "header", "seven"}
  Plans <- MCPlans
  MaxRuns = 2
  Faults = {"hpatchz", "7z", "io", "kill"}
INVARIANTS
  TypeOK
  RerunRecompresses
  DeflaterFitsRange
PROPERTIES
  Terminates
  KeepsContract
