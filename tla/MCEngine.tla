------------------------------ MODULE MCEngine ------------------------------
(* Instances of Engine for TLC. Flash decodes blocks of two tokens in at     *)
(* most two denoising steps; its budgets are one or two of the three blocks  *)
(* the engine has room for, or in MCFullBudget all three.                    *)
EXTENDS Engine, TLC

CONSTANTS r1, r2, r3

\* Three requests for two slots; the second is of higher priority.
MCRequests == {r1, r2, r3}
MCUrgency == r1 :> 1 @@ r2 :> 0 @@ r3 :> 1
MCPrefix == r1 :> 1 @@ r2 :> 2 @@ r3 :> 4
MCBudget == r1 :> 4 @@ r2 :> 2 @@ r3 :> 2
MCFullBudget == r1 :> 6 @@ r2 :> 2 @@ r3 :> 2
MCEarlyStop == {r3}
MCNobody == {}
MCSchedule == <<1, 1>>

\* A first chunk of 1, top-ups of 1 and 2, then chunks of 3; or, without
\* top-ups, chunks of 2 up to token 3.
MCTopupSizes == <<1, 2>>
MCNoTopups == <<>>
=============================================================================
