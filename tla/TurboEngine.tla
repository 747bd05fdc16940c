----------------------------- MODULE TurboEngine -----------------------------
(***************************************************************************)
(* TurboEngine (server/engine_ar.py): every tick decodes one token for     *)
(* each active request. What the sampler draws is a choice among a speech  *)
(* token, a token the codec does not have, and the stop token.             *)
(***************************************************************************)
EXTENDS EngineBase

CONSTANTS
  MaxSpeech,   \* self.max_speech
  EarlyStop    \* requests whose first token may be the stop token

ASSUME TurboAssumption ==
  /\ MaxSpeech \in Nat \ {0}
  /\ EarlyStop \subseteq Requests

\* self.L
TurboL == LongestPrefix + MaxSpeech + 8

Tokens == {"speech", "special", "stop"}
Silence == 3

TurboTypeOK == row \in Seq([owner : Requests, cache : 0 .. TurboL])

-----------------------------------------------------------------------------
\* _consume for the n-th column of r: the handoff state after it. finishes
\* is what it returns.
Finishes(r, len, token) == token = "stop" \/ len - Prefix[r] >= MaxSpeech
Consume(r, len, token) ==
  LET st == HandoffState(r)
  IN  IF Finishes(r, len, token)
      THEN FinishT3([st EXCEPT !.n = @ + Silence])
      ELSE PushCommitted(st, IF token = "speech" THEN 1 ELSE 0)

\* What it leaves when the handoff in it raises.
ConsumeCut(r, len, token) ==
  LET st == HandoffState(r)
  IN  IF Finishes(r, len, token)
      THEN FinishCut([st EXCEPT !.n = @ + Silence])
      ELSE PushCut(st, IF token = "speech" THEN 1 ELSE 0)

FirstTokens(fresh) ==
  {f \in [fresh -> Tokens] : \A r \in fresh : f[r] = "stop" => r \in EarlyStop}

\* _admit: prefill, and the first token, whose verdict is dropped.
TurboAdmit ==
  /\ phase = "admit"
  /\ Batch # <<>> \/ active # <<>>
  /\ phase' = "step"
  /\ LET fresh == Members(Batch)
     IN  /\ Place(Batch, [r \in fresh |-> [owner |-> r, cache |-> Prefix[r]]])
         /\ cpu_len' = [r \in Requests |->
                          IF r \in fresh THEN Prefix[r] + 1 ELSE cpu_len[r]]
         /\ \E token \in FirstTokens(fresh) :
              Hand([r \in fresh |-> Consume(r, Prefix[r] + 1, token[r])])
  /\ UNCHANGED <<submitted, to_free, endVars>>

\* The rest of a tick up to the release of slots.
TurboStep ==
  /\ phase = "step"
  /\ phase' = "free"
  /\ row' = [i \in DOMAIN row |-> [row[i] EXCEPT !.cache = @ + 1]]
  /\ cpu_len' = [r \in Requests |->
                   IF r \in Members(active) THEN cpu_len[r] + 1 ELSE cpu_len[r]]
  /\ \E token \in [Members(active) -> Tokens] :
       /\ Hand([r \in Members(active) |-> Consume(r, cpu_len'[r], token[r])])
       /\ to_free' = Keep(active, {r \in Members(active) :
                                  Finishes(r, cpu_len'[r], token[r])})
  /\ UNCHANGED <<waiting, submitted, active, slot, endVars>>

\* Admission raises, before the first request is in its slot or in the handoff
\* of the first token of the n-th.
TurboAdmitRaises ==
  \/ AdmitRaises(0) /\ UNCHANGED <<cpu_len, handoffVars>>
  \/ \E n \in DOMAIN Batch :
       LET last == Batch[n]
           entered == Members(SubSeq(Batch, 1, n))
       IN  /\ AdmitRaises(n)
           /\ cpu_len' = [r \in Requests |->
                            IF r \in entered THEN Prefix[r] + 1 ELSE cpu_len[r]]
           /\ \E token \in FirstTokens(entered) :
              \E cut \in ConsumeCut(last, Prefix[last] + 1, token[last]) :
                Hand([r \in entered |->
                        IF r = last THEN cut ELSE Consume(r, Prefix[r] + 1, token[r])])

\* The handoff of the n-th active request raises. Those before it have got
\* their token, those behind it have not.
TurboStepRaises ==
  /\ TicksMayRaise
  /\ phase = "step"
  /\ \E n \in DOMAIN active :
       LET last == active[n]
           reached == Members(SubSeq(active, 1, n))
       IN  /\ cpu_len' = [r \in Requests |->
                            IF r \in reached THEN cpu_len[r] + 1 ELSE cpu_len[r]]
           /\ \E token \in [reached -> Tokens] :
              \E cut \in ConsumeCut(last, cpu_len'[last], token[last]) :
                Hand([r \in reached |->
                        IF r = last THEN cut ELSE Consume(r, cpu_len'[r], token[r])])
  /\ EmptySlots(active)
  /\ UNCHANGED <<waiting, lost>>

TurboTick == TurboAdmit \/ TurboStep \/ FreeOne \/ TickEnd
TurboRaises == TurboAdmitRaises \/ TurboStepRaises
=============================================================================
