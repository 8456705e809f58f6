SPECIFICATION FairSpec
CONSTANTS
  MaxThreads = 3
  MaxJobs = 3
  MaxResizes = 2
  QueueSizes = {0, 1, 2}
  Callers = {c1, c2}
  NoJob = NoJob
INVARIANTS
  JobsRunInOrder
  NoWorkerOversleeps
  NoPusherOversleeps
PROPERTIES
  KeepsPromise
  JoinWaitsForAll
  JobsFinish
  CallsReturn
