SPECIFICATION Spec
CONSTANTS
  r1 = r1
  r2 = r2
  Close = Close
  Requests <- MCOne
  Script <- MCEndScript
  Deployments <- MCInProcess
  ChunkFirst = 1
  StreakMax = 1
  Lookback = 1
  FirstMaxBatch = 2
  MaxBatch = 2
  MayFail <- MCNobody
CHECK_DEADLOCK FALSE
INVARIANT
  NothingAfterClose
