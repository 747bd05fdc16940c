-------------------------- MODULE MCSchedulerQueue --------------------------
(* Instances of SchedulerQueue for TLC: interactive requests (urgency 0 and  *)
(* 1) and background ones (2), of two shapes that may not share a batch.     *)
EXTENDS SchedulerQueue, TLC

FourUrgency == 1 :> 1 @@ 2 :> 0 @@ 3 :> 1 @@ 4 :> 2
FourShape == 1 :> "a" @@ 2 :> "b" @@ 3 :> "a" @@ 4 :> "a"
FourCompatible ==
  {p \in Requests \X Requests : FourShape[p[1]] = FourShape[p[2]]}
FourLimit == 1 :> 2 @@ 2 :> 2 @@ 3 :> 2 @@ 4 :> 2
=============================================================================
