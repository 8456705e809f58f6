SPECIFICATION FairCopySpec
CONSTANTS
  MaxIOJobs = 3
  NoIOJob = NoIOJob
  ReadSize = 6
  BlockSize = 5
  MagicSize = 4
  WordSize = 2
  SegmentWords = 1
  SkipLimit = 3
  Lengths = {0, 6, 13}
  SecondLengths = {1, 6}
  FileLists <- MCFileLists
INVARIANTS
  CopiesSource
  JobsHaveOneOwner
  AssertionsHold
PROPERTY
  CopyEnds
