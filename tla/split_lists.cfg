SPECIFICATION Spec
CONSTANTS
  MixedSizes = {1, 2, 3, 4, 5}
  SevenZipLengths = {1, 2, 3, 5}
  ZlibSizes = {6, 7, 8, 9, 10, 11, 12, 13, 14, 15, 16, 17, 18, 19, 20, 21, 22, 23, 24, 25, 26}
  Lists <- MCLists
  ThreadArgs = {2, 3, 4, 5}
INVARIANTS
  SublistsTile
  LoadIsBalanced
  EnoughRangesNeverRefused
