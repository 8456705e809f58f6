SPECIFICATION ExecutorSpec
CONSTANTS
  Null = Null
  NoSettings = Null
  OldSizes = {1, 2}
  SeveralSizes = {2, 3}
  SeveralKinds = {"best", "filtered", "stored", "junk"}
  OldKinds = {"fast", "filtered", "stored", "alien", "longer"}
  NewKinds = {"fast", "best", "filtered", "huffman", "stored", "foreign", "unpacked", "junk", "cut", "wrapped", "longer"}
  OldPaths = {1, 2}
  NewPaths = {1, 2, 3}
  Budgets = {3, 14}
  OldLength = 12
  SmallSize = 1
  Bytes <- MCBytes
  Contents <- MCContents
  Deflated <- MCDeflated
  OldArchives <- MCOldArchives
  NewArchives <- MCNewArchives
  ModifierLists <- MCModifierLists
INVARIANTS
  RecompressionWithinLimit
  OldBlobWithinLimit
  PlansAreExecutable
  UncompressedMeetsPlain
  RefusedOnlyForSpace
  RangesReproduce
