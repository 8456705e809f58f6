SPECIFICATION ExecutorSpec
CONSTANTS
  Null = Null
  NoSettings = Null
  OldSizes = {1}
  SeveralSizes = {2}
  SeveralKinds = {"best", "filtered"}
  OldKinds = {"fast", "stored"}
  NewKinds = {"fast", "best"}
  OldPaths = {1}
  NewPaths = {1, 2}
  Budgets = {3, 4, 7}
  OldLength = 12
  SmallSize = 1
  Bytes <- MCBytes
  Contents <- MCContents
  Deflated <- MCDeflated
  OldArchives <- MCOldArchives
  NewArchives <- MCNewArchives
  ModifierLists <- MCModifierLists
INVARIANT RetainedOnlyBelowCap
