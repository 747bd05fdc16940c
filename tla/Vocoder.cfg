SPECIFICATION FairSpec
CONSTANTS
  r1 = r1
  r2 = r2
  Close = Close
  Requests <- MCRequests
  Script <- MCScript
  Deployments <- MCDeployments
  ChunkFirst = 1
  StreakMax = 1
  Lookback = 1
  FirstMaxBatch = 2
  MaxBatch = 2
  MayFail <- MCMayFail
CHECK_DEADLOCK FALSE
INVARIANTS
  TypeOK
  NothingLeftBehind
PROPERTIES
  DeliversAnAudioStream
  EveryStreamEnds
