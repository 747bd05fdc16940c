SPECIFICATION FairSpec
CONSTANTS
  r1 = r1
  r2 = r2
  r3 = r3
  Requests <- MCRequests
  Urgency <- MCUrgency
  Prefix <- MCPrefix
  Budget <- MCBudget
  EarlyStop <- MCEarlyStop
  TicksMayRaise = TRUE
  TopupSizes <- MCTopupSizes
  MaxActive = 2
  PrefillMax = 2
  ChunkFirst = 1
  ChunkSecond = 2
  TopupUntil = 3
  Chunk = 3
  MaxSpeech = 3
  BlockSize = 2
  NumSteps = 2
  Schedule <- MCSchedule
  NMax = 6
INVARIANTS
  TypeOK
  SlotsMatch
  WindowCoversRows
  MirrorsAgree
  BudgetRespected
  DoneLeaves
  OnePlace
PROPERTIES
  HandsOverAStream
  EveryStreamCloses
