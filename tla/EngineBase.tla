----------------------------- MODULE EngineBase -----------------------------
(***************************************************************************)
(* What FlashEngine and TurboEngine share (EngineBase in server/engine.py, *)
(* and _admit and _free_slot, which the two repeat): the waiting queue,    *)
(* the slots and their KV rows, and the handoff of chunks to the vocoder.  *)
(*                                                                         *)
(* The engine thread runs tick() after tick(); other threads only append   *)
(* to the waiting queue. A tick is cut into phases, admission, the step on *)
(* the GPU with its bookkeeping, and the release of slots, which is where  *)
(* another thread's submit or an exception can fall in between.            *)
(***************************************************************************)
EXTENDS QueueOps

CONSTANTS
  Requests,
  Prefix,       \* r.lp: KV columns that conditioning and text take
  Urgency,      \* rank of (priority, t_recv, rid)
  MaxActive,    \* max_active: number of slots
  PrefillMax,   \* prefill_max: most requests admitted in a tick
  ChunkFirst,   \* tokens in the first chunk
  TopupSizes,   \* topup_sizes
  ChunkSecond,  \* chunk_second, 0 if unused
  TopupUntil,   \* topup_until
  Chunk,        \* tokens in every later chunk
  TicksMayRaise \* may a tick raise?

ASSUME EngineAssumption ==
  /\ IsFiniteSet(Requests)
  /\ Urgency \in [Requests -> Nat] /\ Prefix \in [Requests -> Nat]
  /\ MaxActive \in Nat \ {0} /\ PrefillMax \in Nat \ {0}
  /\ ChunkFirst \in Nat \ {0} /\ Chunk \in Nat \ {0}
  /\ TopupSizes \in Seq(Nat \ {0})
  /\ ChunkSecond \in Nat /\ TopupUntil \in Nat
  /\ TicksMayRaise \in BOOLEAN

VARIABLES
  waiting,    \* the queue of the scheduler
  submitted,  \* requests that have been submitted
  active,     \* self.active: the requests in the slots, in slot order
  slot,       \* slot[r], 0 for none (-1 in the code, which counts from 0)
  row,        \* row[i]: the KV row and the other tensors of slot i; rows
              \* past the last slot hold garbage that admission overwrites
  cpu_len,    \* r.cpu_len, the host's mirror of the row's length
  phase,      \* where the engine thread is in its tick
  to_free,    \* requests that finished in this tick
  committed,  \* length of r.committed
  emitted,    \* r.emitted_tok
  t3_done,    \* r.t3_done
  chunks,     \* what has been handed to the vocoder for r, oldest first
  aborted,    \* requests whose sink the run loop has closed
  lost        \* requests taken by an admission that raised

handoffVars == <<committed, emitted, t3_done, chunks>>
slotVars == <<active, slot, row>>
endVars == <<aborted, lost>>
baseVars == <<waiting, submitted, slotVars, cpu_len, phase, to_free, handoffVars,
              endVars>>

\* Columns of a KV row are enough for the longest prefix, see TurboL and FlashL.
LongestPrefix ==
  CHOOSE n \in {Prefix[r] : r \in Requests} : \A r \in Requests : Prefix[r] <= n

Slots == 1 .. MaxActive
Smaller(m, n) == IF m < n THEN m ELSE n
NoSlot == 0
ChunkRecord == [from : Nat, to : Nat, final : BOOLEAN]

BaseTypeOK ==
  /\ waiting \in Seq(Requests)
  /\ submitted \subseteq Requests
  /\ active \in Seq(Requests) /\ Len(active) <= MaxActive
  /\ cpu_len \in [Requests -> Nat]
  /\ slot \in [Requests -> Slots \cup {NoSlot}]
  /\ phase \in {"admit", "step", "free"}
  /\ to_free \in Seq(Requests)
  /\ committed \in [Requests -> Nat]
  /\ emitted \in [Requests -> Nat]
  /\ t3_done \in [Requests -> BOOLEAN]
  /\ chunks \in [Requests -> Seq(ChunkRecord)]
  /\ aborted \subseteq Requests /\ lost \subseteq Requests

BaseInit ==
  /\ waiting = <<>>
  /\ submitted = {}
  /\ active = <<>>
  /\ slot = [r \in Requests |-> NoSlot]
  /\ row = <<>>
  /\ cpu_len = [r \in Requests |-> 0]
  /\ phase = "admit"
  /\ to_free = <<>>
  /\ committed = [r \in Requests |-> 0]
  /\ emitted = [r \in Requests |-> 0]
  /\ t3_done = [r \in Requests |-> FALSE]
  /\ chunks = [r \in Requests |-> <<>>]
  /\ aborted = {} /\ lost = {}

-----------------------------------------------------------------------------
(* _maybe_vocode *)

\* Size of the chunk that starts at token e. The n-th top-up starts where the
\* first chunk and the top-ups before it end; e is 0 as long as no chunk has
\* been sent.
SumTo[n \in 0 .. Len(TopupSizes)] ==
  IF n = 0 THEN ChunkFirst ELSE SumTo[n - 1] + TopupSizes[n]

Topups(e) == {n \in DOMAIN TopupSizes : e < SumTo[n]}

Target(e) ==
  IF e = 0 THEN ChunkFirst
  ELSE IF TopupSizes # <<>>
  THEN IF Topups(e) = {}
       THEN Chunk
       ELSE TopupSizes[CHOOSE n \in Topups(e) : \A m \in Topups(e) : n <= m]
  ELSE IF ChunkSecond > 0 /\ e < TopupUntil THEN ChunkSecond
  ELSE Chunk

ChunkOf(from, to, final) == [from |-> from, to |-> to, final |-> final]

\* Mutants: the loop goes on after the final chunk; no end marker.
HandoffNoReturn(n, e, done) ==
  LET send[f \in 0 .. n] ==
        IF done /\ f < n /\ n - f <= Target(f)
        THEN <<ChunkOf(f, n, TRUE), ChunkOf(n, n, TRUE)>>
        ELSE IF n - f >= Target(f)
        THEN <<ChunkOf(f, f + Target(f), FALSE)>> \o send[f + Target(f)]
        ELSE IF done /\ f = n THEN <<ChunkOf(n, n, TRUE)>>
        ELSE <<>>
  IN  send[e]
HandoffNoEnd(n, e, done) ==
  LET send[f \in 0 .. n] ==
        IF done /\ f < n /\ n - f <= Target(f)
        THEN <<ChunkOf(f, n, TRUE)>>
        ELSE IF n - f >= Target(f)
        THEN <<ChunkOf(f, f + Target(f), FALSE)>> \o send[f + Target(f)]
        ELSE <<>>
  IN  send[e]

\* The chunks the loop sends for n committed tokens of which e are sent: whole
\* chunks, and when decoding is done the rest as the final one, or the end
\* marker if there is no rest.
Handoff(n, e, done) ==
  LET send[f \in 0 .. n] ==
        IF done /\ f < n /\ n - f <= Target(f)
        THEN <<ChunkOf(f, n, TRUE)>>
        ELSE IF n - f >= Target(f)
        THEN <<ChunkOf(f, f + Target(f), FALSE)>> \o send[f + Target(f)]
        ELSE IF done /\ f = n THEN <<ChunkOf(n, n, TRUE)>>
        ELSE <<>>
  IN  send[e]

\* emitted_tok afterwards.
SentUpTo(sent, e) == IF sent = <<>> THEN e ELSE sent[Len(sent)].to

\* The part of a request that the handoff reads and writes, and what it sends.
HandoffState(r) ==
  [n |-> committed[r], e |-> emitted[r], done |-> t3_done[r], sent |-> <<>>]

Sent(st, new) == [st EXCEPT !.sent = @ \o new, !.e = SentUpTo(new, @)]
MaybeVocode(st) == Sent(st, Handoff(st.n, st.e, st.done))

\* Mutant: the end of decoding does not look for tokens to hand over.
FinishT3Silently(st) == [st EXCEPT !.done = TRUE]

\* _push_committed with k tokens that are in the codec's range, _finish_t3.
PushCommitted(st, k) == MaybeVocode([st EXCEPT !.n = @ + k])
FinishT3(st) == MaybeVocode([st EXCEPT !.done = TRUE])

\* A later chunk of SplitVoc is in its queue already when the flush raises.
Flushed(chunk) == 0 < chunk.from /\ chunk.from < chunk.to

\* What a raise leaves of _maybe_vocode: the chunks before it are handed over,
\* and so may be the one whose enqueue raises. (emitted_tok is then behind by
\* that chunk; nobody hands anything over for the request any more.)
Cut(st) ==
  LET all == Handoff(st.n, st.e, st.done)
  IN  {Sent(st, SubSeq(all, 1, k)) :
         k \in {n \in 0 .. Len(all) : n < Len(all) \/ (n > 0 /\ Flushed(all[n]))}}

PushCut(st, k) == Cut([st EXCEPT !.n = @ + k])
FinishCut(st) == Cut([st EXCEPT !.done = TRUE])

\* The requests in the domain of new get their new handoff state.
Hand(new) ==
  /\ committed' = [r \in Requests |-> IF r \in DOMAIN new THEN new[r].n ELSE committed[r]]
  /\ emitted' = [r \in Requests |-> IF r \in DOMAIN new THEN new[r].e ELSE emitted[r]]
  /\ t3_done' = [r \in Requests |-> IF r \in DOMAIN new THEN new[r].done ELSE t3_done[r]]
  /\ chunks' = [r \in Requests |-> IF r \in DOMAIN new
                                   THEN chunks[r] \o new[r].sent ELSE chunks[r]]

-----------------------------------------------------------------------------
(* Admission and release of slots *)

Submit(r) ==
  /\ r \notin submitted
  /\ submitted' = submitted \cup {r}
  /\ waiting' = Append(waiting, r)
  /\ UNCHANGED <<slotVars, cpu_len, phase, to_free, handoffVars, endVars>>

\* Mutant: slots in use are not subtracted.
BatchPastSlots == Take(waiting, Urgency, PrefillMax)

\* Nothing to admit and nothing to decode: the tick waits and returns.
Batch == Take(waiting, Urgency, Smaller(MaxActive - Len(active), PrefillMax))
Idle == phase = "admit" /\ active = <<>> /\ Batch = <<>> /\ UNCHANGED baseVars

\* The batch goes to the slots after those in use, each row as fresh says.
Place(batch, fresh) ==
  LET base == Len(active)
  IN  /\ waiting' = Without(waiting, Members(batch))
      /\ active' = active \o batch
      /\ slot' = [r \in Requests |-> IF r \in Members(batch)
                                     THEN base + Position(batch, r) ELSE slot[r]]
      /\ row' = row \o [k \in DOMAIN batch |-> fresh[batch[k]]]

\* Mutants: the request that moves keeps its old slot number; the length of
\* its row is not moved with it.
FreeSlotKeepsNumber(r) ==
  LET i == slot[r]
      last == Len(active)
  IN  /\ active' = SubSeq([active EXCEPT ![i] = active[last]], 1, last - 1)
      /\ slot' = [slot EXCEPT ![r] = NoSlot]
      /\ row' = SubSeq([row EXCEPT ![i] = row[last]], 1, last - 1)
FreeSlotKeepsLength(r) ==
  LET i == slot[r]
      last == Len(active)
      mv == active[last]
  IN  /\ active' = SubSeq([active EXCEPT ![i] = mv], 1, last - 1)
      /\ slot' = [slot EXCEPT ![mv] = i, ![r] = NoSlot]
      /\ row' = SubSeq([row EXCEPT ![i] = [row[last] EXCEPT !.cache = row[i].cache]],
                       1, last - 1)

\* _free_slot: the last slot is moved into the freed one.
FreeSlot(r) ==
  LET i == slot[r]
      last == Len(active)
      mv == active[last]
  IN  /\ active' = SubSeq([active EXCEPT ![i] = mv], 1, last - 1)
      /\ slot' = [slot EXCEPT ![mv] = i, ![r] = NoSlot]
      /\ row' = SubSeq([row EXCEPT ![i] = row[last]], 1, last - 1)

\* The last phase of a tick, one finished request at a time.
FreeOne ==
  /\ phase = "free" /\ to_free # <<>>
  /\ FreeSlot(Head(to_free))
  /\ to_free' = Tail(to_free)
  /\ UNCHANGED <<waiting, submitted, cpu_len, phase, handoffVars, endVars>>

\* Mutant: a tick releases at most one slot.
TickEndEarly ==
  /\ phase = "free"
  /\ phase' = "admit"
  /\ to_free' = <<>>
  /\ UNCHANGED <<waiting, submitted, slotVars, cpu_len, handoffVars, endVars>>

TickEnd ==
  /\ phase = "free" /\ to_free = <<>>
  /\ phase' = "admit"
  /\ UNCHANGED <<waiting, submitted, slotVars, cpu_len, to_free, handoffVars, endVars>>

\* Mutant: the loop runs over the list that _free_slot shortens, and skips
\* every second request.
EmptySlotsSkips(held) ==
  /\ aborted' = aborted \cup {held[i] : i \in {j \in DOMAIN held : j % 2 = 1}}
  /\ active' = <<>> /\ row' = <<>>
  /\ slot' = [r \in Requests |-> IF r \in Members(active) THEN NoSlot ELSE slot[r]]
  /\ phase' = "admit"
  /\ to_free' = <<>>
  /\ UNCHANGED submitted

\* The tick raises: the run loop frees the requests it finds active, those
\* among them that have finished decoding too, and closes their streams.
EmptySlots(held) ==
  /\ aborted' = aborted \cup Members(held)
  /\ active' = <<>> /\ row' = <<>>
  /\ slot' = [r \in Requests |-> IF r \in Members(active) THEN NoSlot ELSE slot[r]]
  /\ phase' = "admit"
  /\ to_free' = <<>>
  /\ UNCHANGED submitted

\* The forward raises, before any token is looked at.
StepRaises ==
  /\ TicksMayRaise
  /\ phase = "step"
  /\ EmptySlots(active)
  /\ UNCHANGED <<waiting, lost, cpu_len, handoffVars>>

\* The copy that moves the last slot into a freed one raises.
FreeRaises ==
  /\ TicksMayRaise
  /\ phase = "free" /\ to_free # <<>>
  /\ slot[Head(to_free)] # Len(active)
  /\ EmptySlots(active)
  /\ UNCHANGED <<waiting, lost, cpu_len, handoffVars>>

\* Admission raises when the first n of its batch are in their slots. The rest
\* of the batch is in no list by then.
AdmitRaises(n) ==
  /\ TicksMayRaise
  /\ phase = "admit" /\ Batch # <<>>
  /\ waiting' = Without(waiting, Members(Batch))
  /\ lost' = lost \cup Members(SubSeq(Batch, n + 1, Len(Batch)))
  /\ EmptySlots(active \o SubSeq(Batch, 1, n))

\* Mutant: the length of the first row for that of the longest.
FirstCpuLen == cpu_len[active[1]]

\* max(r.cpu_len for r in self.active), from which a tick computes l_used.
LongestCpuLen ==
  CHOOSE n \in {cpu_len[r] : r \in Members(active)} :
    \A r \in Members(active) : cpu_len[r] <= n
=============================================================================
