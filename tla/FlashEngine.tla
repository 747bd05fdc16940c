----------------------------- MODULE FlashEngine -----------------------------
(***************************************************************************)
(* FlashEngine (server/engine.py): block diffusion. Each tick advances the *)
(* current block of every active request by one denoising step, or, for a  *)
(* block whose tokens are all chosen, runs the commit step that writes it  *)
(* to the KV cache, hands its tokens over and moves to the next block.     *)
(* Which tokens are sampled is a choice; the step is modelled by how many  *)
(* positions of the block stay masked and whether a stop token shows up.   *)
(***************************************************************************)
EXTENDS EngineBase

CONSTANTS
  BlockSize,       \* self.BS
  NumSteps,        \* self.K
  Schedule,        \* self.sched_t: least number of positions to unmask
  NMax,            \* self.N_max = max_speech_tokens
  Budget           \* r.n_speech

ASSUME FlashAssumption ==
  /\ BlockSize \in Nat \ {0} /\ NumSteps \in Nat \ {0}
  /\ Schedule \in [1 .. NumSteps -> Nat]
  /\ NMax \in Nat /\ NMax >= BlockSize
  /\ Budget \in [Requests -> Nat]

\* self.L
FlashL == LongestPrefix + NMax + BlockSize

\* A row: blk_start, the masked positions of that block of xt, k_step,
\* is_commit, n_speech and cache_len.
FlashRow ==
  [owner : Requests, start : 0 .. NMax, masked : 0 .. BlockSize,
   k : 0 .. NumSteps, commit : BOOLEAN, budget : Nat, cache : 0 .. FlashL]

FlashTypeOK == row \in Seq(FlashRow)

-----------------------------------------------------------------------------
Fresh(r) ==
  [owner |-> r, start |-> 0, masked |-> BlockSize, k |-> 0, commit |-> FALSE,
   budget |-> Budget[r], cache |-> Prefix[r]]

FlashAdmit ==
  /\ phase = "admit"
  /\ Batch # <<>> \/ active # <<>>
  /\ phase' = "step"
  /\ LET fresh == Members(Batch)
     IN  /\ Place(Batch, [r \in fresh |-> Fresh(r)])
         /\ cpu_len' = [r \in Requests |-> IF r \in fresh THEN Prefix[r] ELSE cpu_len[r]]
  /\ UNCHANGED <<submitted, to_free, handoffVars, endVars>>

\* Mutant: the step counter is not reset for the next block.
CommittedKeepsStep(w) ==
  LET start == Smaller(w.start + BlockSize, NMax - BlockSize)
  IN  [w EXCEPT !.start = start, !.commit = FALSE,
                !.cache = Smaller(@ + BlockSize, FlashL - BlockSize),
                !.masked = IF start = w.start THEN @ ELSE BlockSize]

\* A commit step: both lengths are clamped so that they stay in range for a
\* row nobody uses. The next block is all masked, unless it is the same one.
Committed(w) ==
  LET start == Smaller(w.start + BlockSize, NMax - BlockSize)
  IN  [w EXCEPT !.start = start, !.k = 0, !.commit = FALSE,
                !.cache = Smaller(@ + BlockSize, FlashL - BlockSize),
                !.masked = IF start = w.start THEN @ ELSE BlockSize]

\* What a denoising step may unmask in row w: at least what the schedule says,
\* and in the last step everything.
Unmaskable(w) ==
  IF w.k >= NumSteps - 1
  THEN {w.masked}
  ELSE Smaller(Schedule[w.k + 1], w.masked) .. w.masked

\* A denoising step that unmasks n positions, eos: the stop token among them.
Denoised(w, n, eos) ==
  [w EXCEPT !.masked = @ - n, !.k = @ + 1,
            !.commit = ~eos /\ (n = w.masked \/ w.k + 1 >= NumSteps)]

\* Mutant: the budget is compared with >.
OutcomesPastBudget(w) ==
  IF w.commit
  THEN {[row |-> Committed(w), push |-> p, pushes |-> TRUE,
         finish |-> Committed(w).start > w.budget] : p \in 0 .. BlockSize}
  ELSE {[row |-> Denoised(w, n, FALSE), push |-> 0, pushes |-> FALSE,
         finish |-> FALSE] : n \in Unmaskable(w)}

\* What can happen to a row in a step: its next state, the tokens it hands
\* over (those the codec does not have are filtered), and whether its request
\* finishes. Behind a stop token all are cut off.
Outcomes(w) ==
  IF w.commit
  THEN {[row |-> Committed(w), push |-> p, pushes |-> TRUE,
         finish |-> Committed(w).start >= w.budget] : p \in 0 .. BlockSize}
  ELSE {[row |-> Denoised(w, n, FALSE), push |-> 0, pushes |-> FALSE,
         finish |-> FALSE] : n \in Unmaskable(w)}
       \cup
       UNION {{[row |-> Denoised(w, n, TRUE), push |-> p, pushes |-> TRUE,
                finish |-> TRUE] : p \in 0 .. BlockSize - (w.masked - n) - 1} :
              n \in Unmaskable(w) \ {0}}

\* The handoff state of r after outcome o.
HandedOver(r, o) ==
  LET st == IF o.pushes THEN PushCommitted(HandoffState(r), o.push) ELSE HandoffState(r)
  IN  IF o.finish THEN FinishT3(st) ELSE st

\* What is left of it when one of its handoffs raises.
HandedOverCut(r, o) ==
  LET st == HandoffState(r)
  IN  (IF o.pushes THEN PushCut(st, o.push) ELSE {}) \cup
      (IF o.finish THEN FinishCut(PushCommitted(st, o.push)) ELSE {})

\* The rest of a tick up to the release of slots.
FlashStep ==
  /\ phase = "step"
  /\ phase' = "free"
  /\ \E o \in {f \in [DOMAIN row -> UNION {Outcomes(row[i]) : i \in DOMAIN row}] :
                 \A i \in DOMAIN row : f[i] \in Outcomes(row[i])} :
       LET at(r) == o[slot[r]]
       IN  /\ row' = [i \in DOMAIN row |-> o[i].row]
           /\ cpu_len' = [r \in Requests |->
                            IF r \in Members(active) /\ row[slot[r]].commit
                            THEN Prefix[r] + at(r).row.start ELSE cpu_len[r]]
           /\ Hand([r \in Members(active) |-> HandedOver(r, at(r))])
           /\ to_free' = Keep(active, {r \in Members(active) : at(r).finish})
  /\ UNCHANGED <<waiting, submitted, active, slot, endVars>>

\* Admission raises, in the prefill or at the n + 1st request.
FlashAdmitRaises ==
  \E n \in 0 .. Len(Batch) - 1 :
    /\ AdmitRaises(n)
    /\ cpu_len' = [r \in Requests |-> IF r \in Members(SubSeq(Batch, 1, n))
                                      THEN Prefix[r] ELSE cpu_len[r]]
    /\ UNCHANGED handoffVars

\* The handoff of the n-th active request raises. Those before it have been
\* handed over, those behind it have not.
FlashStepRaises ==
  /\ TicksMayRaise
  /\ phase = "step"
  /\ \E n \in DOMAIN active :
       LET last == active[n]
           reached == Members(SubSeq(active, 1, n))
       IN  \E o \in {f \in [1 .. n -> UNION {Outcomes(row[i]) : i \in 1 .. n}] :
                     \A i \in 1 .. n : f[i] \in Outcomes(row[i])} :
           \E cut \in HandedOverCut(last, o[n]) :
             LET at(r) == o[slot[r]]
             IN  /\ cpu_len' = [r \in Requests |->
                                  IF r \in reached /\ row[slot[r]].commit
                                  THEN Prefix[r] + at(r).row.start ELSE cpu_len[r]]
                 /\ Hand([r \in reached |->
                            IF r = last THEN cut ELSE HandedOver(r, at(r))])
  /\ EmptySlots(active)
  /\ UNCHANGED <<waiting, lost>>

FlashTick == FlashAdmit \/ FlashStep \/ FreeOne \/ TickEnd
FlashRaises == FlashAdmitRaises \/ FlashStepRaises
=============================================================================
