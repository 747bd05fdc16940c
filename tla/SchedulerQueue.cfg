SPECIFICATION FairSpec
CONSTANTS
  Requests = {1, 2, 3, 4}
  Urgency <- FourUrgency
  Compatible <- FourCompatible
  LimitFor <- FourLimit
  MaxTake = 2
INVARIANTS
  TypeOK
  NoLostWakeup
  Conservation
  QueueInArrivalOrder
  BatchCompatible
PROPERTIES
  TakeIsUrgent
  EveryRequestTaken
