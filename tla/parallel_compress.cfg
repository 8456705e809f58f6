SPECIFICATION FairSpec
CONSTANTS
  BlockSize = 2
  DictSize = 3
  StreamSizes = {0, 4, 5}
  ThreadNums = {1, 2, 3}
  Faults = {"open", "thread", "read", "compress", "write"}
  MaxFaults = 1
  NoThread = NoThread
  NoBuf = NoBuf
INVARIANTS
  BuffersHaveOneOwner
  ThreadsAreGone
PROPERTIES
  WritesLikeOneThread
  CallReturns
