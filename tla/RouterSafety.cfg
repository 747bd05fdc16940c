SPECIFICATION Spec
CONSTANTS
  Clients = {c1, c2}
  Workers = {w1, w2}
  Operators = {op1}
  NumShards = 2
  Capacity <- TwoShardCapacity
  Routes = {"m1", "m2"}
  Advertised <- TwoShardAdvert
  NumSegments = 2
SYMMETRY Symmetry
INVARIANTS
  TypeOK
  ActiveCountsHolders
  NoOvercommit
  ReserveKept
  NoMissedNotify
