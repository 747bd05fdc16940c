------------------------------ MODULE MCRouter ------------------------------
(* Instances of Router for TLC. *)
EXTENDS Router, TLC

\* Two shards of different size; the second one also serves another model.
TwoShardCapacity == <<1, 2>>
TwoShardAdvert == <<{"m1"}, {"m1", "m2"}>>

\* One shard that serves one model.
OneShardCapacity == <<2>>
OneShardAdvert == <<{"m1"}>>

Symmetry == Permutations(Clients) \cup Permutations(Workers)
=============================================================================
