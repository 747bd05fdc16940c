------------------------------- MODULE Engine -------------------------------
(***************************************************************************)
(* The engine a worker process runs (build in server/app.py): one of the   *)
(* two kinds, on a thread of its own, fed by the handlers' threads.        *)
(***************************************************************************)
EXTENDS TurboEngine, FlashEngine

VARIABLE kind

vars == <<baseVars, kind>>

TypeOK ==
  /\ kind \in {"turbo", "flash"}
  /\ BaseTypeOK
  /\ kind = "turbo" => TurboTypeOK
  /\ kind = "flash" => FlashTypeOK

Init ==
  /\ BaseInit
  /\ kind \in {"turbo", "flash"}

Tick ==
  /\ \/ kind = "turbo" /\ TurboTick
     \/ kind = "flash" /\ FlashTick
  /\ UNCHANGED kind

\* A tick that raises, with what the run loop does then. The handler itself is
\* taken not to raise; the thread would end with it.
TickRaises ==
  /\ \/ StepRaises
     \/ FreeRaises
     \/ kind = "turbo" /\ TurboRaises
     \/ kind = "flash" /\ FlashRaises
  /\ UNCHANGED kind

Next ==
  \/ \E r \in Requests : Submit(r) /\ UNCHANGED kind
  \/ Tick
  \/ TickRaises
  \/ Idle /\ UNCHANGED kind

Spec == Init /\ [][Next]_vars

\* There is something for a tick to do.
Busy == phase # "admit" \/ active # <<>> \/ Batch # <<>>

\* The loop of the engine thread calls tick() again and again, and each call
\* goes on to its end or raises: weak fairness of Tick \/ TickRaises, which is
\* enabled when Busy and takes the steps that submit nothing. (TLC evaluates
\* this form much faster than WF_vars.)
Ticking == []<>~Busy \/ []<><<UNCHANGED submitted>>_vars

FairSpec == Spec /\ Ticking

-----------------------------------------------------------------------------
\* Every active request knows its slot, and that slot's KV row is its own:
\* what the swaps of _free_slot must preserve when several requests leave in
\* one tick. A request that is not active has no slot.
SlotsMatch ==
  /\ Len(row) = Len(active)
  /\ \A i \in DOMAIN active : slot[active[i]] = i /\ row[i].owner = active[i]
  /\ \A r \in Requests : r \notin Members(active) => slot[r] = NoSlot

\* The columns the batched forward attends to, l_used of tick, are computed
\* from the host's mirror and include every column that some row reads or
\* writes. Were one missing, its request would silently decode from a
\* truncated context.
WindowCoversRows ==
  LET width == IF kind = "turbo" THEN 1 ELSE BlockSize
      columns == IF kind = "turbo" THEN TurboL ELSE FlashL
  IN  phase = "step" =>
        \A i \in DOMAIN row :
          row[i].cache + width <= Smaller(columns, LongestCpuLen + width)

\* Flash computes a row's length twice, on the GPU by adding blocks and on
\* the host from blk_start: the two agree.
MirrorsAgree ==
  kind = "flash" /\ phase = "admit" =>
    \A i \in DOMAIN row : row[i].cache = cpu_len[active[i]]

\* A Flash request never commits more tokens than its budget.
BudgetRespected ==
  kind = "flash" => \A r \in Requests : committed[r] <= Budget[r]

\* Requests that Turbo may have finished at admission without noticing.
Overlooked == IF kind = "turbo" THEN EarlyStop ELSE {}

\* Requests leave on the stop token or at their cap: between ticks no slot is
\* held by one that has finished decoding.
LeavesWhenDone == phase = "admit" => \A r \in Members(active) : ~t3_done[r]
DoneLeaves ==
  phase = "admit" => \A r \in Members(active) \ Overlooked : ~t3_done[r]

\* A request is at any time waiting, active, over or lost, and only one of
\* these, however ticks and submits interleave and wherever a tick raises. Over
\* is who has been decoded or aborted; in a slot it only is while it is listed
\* to be freed.
OnePlace ==
  \A r \in submitted \ Overlooked :
    LET places == << r \in Members(waiting),
                     r \in Members(active) \ Members(to_free),
                     t3_done[r] \/ r \in aborted,
                     r \in lost >>
    IN  \E i \in DOMAIN places : \A j \in DOMAIN places : places[j] <=> j = i

\* Chunks are handed over in order, without gap or overlap, and end once: the
\* engine implements ChunkStream.
ChunkSpec == INSTANCE ChunkStream WITH
  chunks <- [r \in Requests |-> IF r \in Overlooked THEN <<>> ELSE chunks[r]]
HandsOverAStream == ChunkSpec!Spec

\* The stream of every request that is submitted is closed in the end, by its
\* last chunk or by the run loop, unless its admission raised.
StreamClosed(r) ==
  \/ r \in aborted
  \/ \E i \in DOMAIN chunks[r] : chunks[r][i].final
EveryStreamCloses ==
  \A r \in Requests : r \in submitted ~> StreamClosed(r) \/ r \in lost
=============================================================================
