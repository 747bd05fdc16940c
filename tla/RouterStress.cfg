SPECIFICATION FairSpec
CONSTANTS
  Clients = {c1, c2}
  Workers = {w1, w2}
  Operators = {op1, op2}
  NumShards = 1
  Capacity <- OneShardCapacity
  Routes = {"m1"}
  Advertised <- OneShardAdvert
  NumSegments = 1
PROPERTIES
  InteractiveServed
  StopCompletes
  ListedUnlessStartsOverlap
