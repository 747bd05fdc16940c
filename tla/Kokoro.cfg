SPECIFICATION FairSpec
CONSTANTS
  c1 = c1
  c2 = c2
  c3 = c3
  t1 = t1
  t2 = t2
  Callers <- MCCallers
  Texts <- MCTexts
  TextOf <- MCTextOf
  PrepFails = {t1}
  PoolSize = 2
  CacheSize = 1
  Segments <- MCSegments
  Background = {}
  Slow = {c2}
  LongFrom = 2
  TooLong = {9}
  MaxBatch = 3
  BackgroundBatch = 1
  NarrowBatch = 2
  MaxQueue = 1
  Leaving = {c3}
  GpuFails = 1
CHECK_DEADLOCK FALSE
INVARIANTS
  TypeOK
  ShortOnlyForCause
  OnePlace
  BatchFits
  FuturesAnswered
  PreparedOnce
PROPERTY EveryCallEnds
