------------------------------- MODULE Kokoro -------------------------------
(***************************************************************************)
(* The Kokoro worker (server/kokoro_app.py): its HTTP handlers, which      *)
(* prepare a text and then stream, and the one engine thread, which takes  *)
(* batches of requests whose next segments have one exact length, runs     *)
(* them, and puts a request back for its next segment.                     *)
(*                                                                         *)
(* Preparation is PrepCache; the queue's selections are QueueOps.  A       *)
(* request is its own caller of prepare_cached.                            *)
(***************************************************************************)
EXTENDS PrepCache, QueueOps

CONSTANTS
  Segments,    \* [Texts -> sequences of token lengths], empty: no phonemes
  Background,  \* callers with priority 1
  Slow,        \* callers with a speed below 0.9
  Leaving,     \* callers whose client may go away
  LongFrom,    \* token lengths from which the narrow limit holds, above 128
  TooLong,     \* token lengths no forward accepts
  MaxBatch, BackgroundBatch, NarrowBatch,
  MaxQueue,    \* depth from which new calls are refused
  GpuFails     \* how many forwards may fail on valid input

ASSUME KokoroAssumption ==
  /\ Segments \in [Texts -> Seq(Nat)]
  /\ Background \subseteq Callers /\ Slow \subseteq Callers /\ Leaving \subseteq Callers
  /\ LongFrom \in Nat /\ TooLong \subseteq Nat
  /\ MaxBatch \in Nat \ {0} /\ BackgroundBatch \in 1 .. MaxBatch
  /\ NarrowBatch \in 1 .. MaxBatch
  /\ MaxQueue \in Nat \ {0} /\ GpuFails \in Nat

VARIABLES
  handler,    \* where the handler of a request is
  rid,        \* order in which the requests were created
  started,    \* order in which the calls came in: request_started
  left,       \* segments still to do: phonemes and token_ids
  cancelled,  \* job.cancelled
  queue,      \* scheduler._items
  batch,      \* requests the engine thread has in hand
  engine,     \* where the engine thread is
  stream,     \* what the sink has put in the asyncio queue of a request
  faults,     \* forwards that failed on valid input so far
  hit         \* history: requests that were in such a batch

workVars == <<left, cancelled, queue, batch, engine, stream, faults, hit>>
vars == <<prepVars, handler, rid, started, workVars>>

SegmentsOf(c) == Segments[TextOf[c]]
Sent(c) == Len(SegmentsOf(c)) - Len(left[c])

Init ==
  /\ PrepInit
  /\ handler = [c \in Callers |-> "new"]
  /\ rid = [c \in Callers |-> 0]
  /\ started = [c \in Callers |-> 0]
  /\ left = [c \in Callers |-> SegmentsOf(c)]
  /\ cancelled = {} /\ queue = << >> /\ batch = << >> /\ engine = "take"
  /\ stream = [c \in Callers |-> << >>]
  /\ faults = 0 /\ hit = {}

-----------------------------------------------------------------------------
(* The handlers, on the event loop. *)

(* create_pcm_stream up to its await: the depth is looked at now, the request *)
(* is submitted only after the preparation.                                   *)
Arrive(c) ==
  /\ handler[c] = "new"
  /\ IF Len(queue) >= MaxQueue
       THEN /\ handler' = [handler EXCEPT ![c] = "refused"]
            /\ UNCHANGED <<prepVars, started>>
       ELSE /\ handler' = [handler EXCEPT ![c] = "preparing"]
            /\ started' = [started EXCEPT ![c] =
                 Cardinality({d \in Callers : started[d] > 0}) + 1]
            /\ Call(c)
  /\ UNCHANGED <<rid, workVars>>

(* After the await: nothing to say is an error, else the job gets its number. *)
Create(c) ==
  /\ handler[c] = "preparing" /\ stage[c] \in Finished
  /\ IF stage[c] = "raised" \/ SegmentsOf(c) = << >>
       THEN handler' = [handler EXCEPT ![c] = "failed"] /\ UNCHANGED rid
       ELSE /\ handler' = [handler EXCEPT ![c] = "created"]
            /\ rid' = [rid EXCEPT ![c] = Cardinality({d \in Callers : rid[d] > 0}) + 1]
  /\ UNCHANGED <<prepVars, started, workVars>>

(* The response is prepared, the generator's first step submits the job; a   *)
(* client that is gone by then leaves a generator nobody ever starts.        *)
Submit(c) ==
  /\ handler[c] = "created"
  /\ \/ /\ handler' = [handler EXCEPT ![c] = "streaming"]
        /\ queue' = Append(queue, c)
     \/ /\ c \in Leaving /\ handler' = [handler EXCEPT ![c] = "left"]
        /\ UNCHANGED queue
  /\ UNCHANGED <<prepVars, rid, started, left, cancelled, batch, engine,
                 stream, faults, hit>>

(* queue.get() and the write to the client, or the end of the response. *)
Receive(c) ==
  /\ handler[c] = "streaming" /\ stream[c] # << >>
  /\ stream' = [stream EXCEPT ![c] = Tail(@)]
  /\ handler' = [handler EXCEPT ![c] = IF Head(stream[c]) = "end" THEN "ended" ELSE @]
  /\ UNCHANGED <<prepVars, rid, started, left, cancelled, queue, batch, engine,
                 faults, hit>>

(* A write fails, the handler is cancelled or 300 s pass without data: the   *)
(* generator is closed before it saw the end.                                *)
Abort(c) ==
  /\ handler[c] = "streaming" /\ c \in Leaving
  /\ handler' = [handler EXCEPT ![c] = "left"]
  /\ cancelled' = cancelled \cup {c}
  /\ UNCHANGED <<prepVars, rid, started, left, queue, batch, engine, stream,
                 faults, hit>>

-----------------------------------------------------------------------------
(* The engine thread. *)

Length(c) == Head(left[c])

(* _batch_limit, for the next segment. *)
BatchLimit(c) ==
  IF c \in Background THEN BackgroundBatch
  ELSE IF Length(c) < LongFrom /\ c \notin Slow THEN MaxBatch
  ELSE NarrowBatch

\* Mutants of Compatible: padded batches of any length; limits not compared.
CompatibleAnyLength ==
  {p \in Members(queue \o batch) \X Members(queue \o batch) :
     /\ (p[1] \in Background) = (p[2] \in Background)
     /\ BatchLimit(p[1]) = BatchLimit(p[2])}
CompatibleAnyLimit ==
  {p \in Members(queue \o batch) \X Members(queue \o batch) :
     /\ (p[1] \in Background) = (p[2] \in Background)
     /\ Length(p[1]) = Length(p[2])}

(* _compatible: one priority, one exact length, one limit. *)
Compatible ==
  {p \in Members(queue \o batch) \X Members(queue \o batch) :
     /\ (p[1] \in Background) = (p[2] \in Background)
     /\ Length(p[1]) = Length(p[2])
     /\ BatchLimit(p[1]) = BatchLimit(p[2])}

(* The key of take_group: priority, then when the audio sent so far runs out, *)
(* then rid.  A segment counts as one unit of audio.                          *)
Sooner(c, d) ==
  \/ c \notin Background /\ d \in Background
  \/ /\ c \in Background <=> d \in Background
     /\ \/ started[c] + Sent(c) < started[d] + Sent(d)
        \/ started[c] + Sent(c) = started[d] + Sent(d) /\ rid[c] < rid[d]

\* The same as one number: how many calls are sooner.
Urgency == [c \in Callers |-> Cardinality({d \in Callers : Sooner(d, c)})]

Limits == [c \in Callers |-> IF left[c] = << >> THEN 0 ELSE BatchLimit(c)]

(* _take_batch: the most urgent request and what is compatible with it; the  *)
(* limit that goes for extending is the one of the first in queue order.     *)
TakeBatch ==
  /\ engine = "take" /\ queue # << >>
  /\ LET group == Group(queue, Urgency, Compatible, Limits)
     IN /\ batch' = group
        /\ queue' = Without(queue, Members(group))
        /\ engine' = IF Len(group) < BatchLimit(group[1]) THEN "extend" ELSE "filter"
  /\ UNCHANGED <<prepVars, handler, rid, started, left, cancelled, stream,
                 faults, hit>>

(* A round of extend_group that finds something. *)
ExtendBatch ==
  /\ engine = "extend"
  /\ LET added == Joining(queue, batch, Compatible, BatchLimit(batch[1]))
     IN /\ added # << >>
        /\ batch' = batch \o added
        /\ queue' = Without(queue, Members(added))
        /\ engine' = IF Len(batch') < BatchLimit(batch[1]) THEN "extend" ELSE "filter"
  /\ UNCHANGED <<prepVars, handler, rid, started, left, cancelled, stream,
                 faults, hit>>

(* The deadline, or five quiet rounds. *)
StopExtending ==
  /\ engine = "extend" /\ engine' = "filter"
  /\ UNCHANGED <<prepVars, handler, rid, started, left, cancelled, queue, batch,
                 stream, faults, hit>>

(* The requests whose client has gone are left out, without a word. *)
FilterCancelled ==
  /\ engine = "filter"
  /\ batch' = Without(batch, cancelled)
  /\ engine' = IF batch' = << >> THEN "take" ELSE "forward"
  /\ UNCHANGED <<prepVars, handler, rid, started, left, cancelled, queue, stream,
                 faults, hit>>

Invalid(c) == Length(c) = 0 \/ Length(c) \in TooLong

\* Mutants: the sinks are given the error; only the first request is told.
ForwardRaisesAloud ==
  /\ engine = "forward" /\ \E i \in DOMAIN batch : Invalid(batch[i])
  /\ stream' = [c \in Callers |-> IF c \in Members(batch)
                                  THEN Append(stream[c], "error") ELSE stream[c]]
  /\ batch' = << >> /\ engine' = "take"
  /\ UNCHANGED <<prepVars, handler, rid, started, left, cancelled, queue, faults, hit>>
ForwardRaisesToOne ==
  /\ engine = "forward" /\ faults < GpuFails
  /\ faults' = faults + 1 /\ hit' = hit \cup Members(batch)
  /\ stream' = [stream EXCEPT ![Head(batch)] = Append(@, "end")]
  /\ batch' = << >> /\ engine' = "take"
  /\ UNCHANGED <<prepVars, handler, rid, started, left, cancelled, queue>>

(* A forward that raises ends the stream of every request in the batch. *)
ForwardRaises ==
  /\ engine = "forward"
  /\ \/ /\ \E i \in DOMAIN batch : Invalid(batch[i])
        /\ UNCHANGED <<faults, hit>>
     \/ /\ faults < GpuFails
        /\ faults' = faults + 1 /\ hit' = hit \cup Members(batch)
  /\ stream' = [c \in Callers |-> IF c \in Members(batch)
                                  THEN Append(stream[c], "end") ELSE stream[c]]
  /\ batch' = << >> /\ engine' = "take"
  /\ UNCHANGED <<prepVars, handler, rid, started, left, cancelled, queue>>

ForwardDone ==
  /\ engine = "forward" /\ \A i \in DOMAIN batch : ~ Invalid(batch[i])
  /\ engine' = "deliver"
  /\ UNCHANGED <<prepVars, handler, rid, started, left, cancelled, queue, batch,
                 stream, faults, hit>>

(* The rows in turn: the segment is done, its PCM goes to the sink ... *)
Deliver ==
  /\ engine = "deliver"
  /\ LET c == Head(batch)
     IN /\ left' = [left EXCEPT ![c] = Tail(@)]
        /\ stream' = [stream EXCEPT ![c] = Append(@, "pcm")]
  /\ engine' = "settle"
  /\ UNCHANGED <<prepVars, handler, rid, started, cancelled, queue, batch,
                 faults, hit>>

\* Mutant: a cancelled request is told the end and queued nevertheless.
SettleTwice ==
  /\ engine = "settle"
  /\ LET c == Head(batch)
     IN /\ queue' = IF left[c] # << >> THEN Append(queue, c) ELSE queue
        /\ stream' = IF left[c] # << >> /\ c \notin cancelled THEN stream
                     ELSE [stream EXCEPT ![c] = Append(@, "end")]
  /\ batch' = Tail(batch)
  /\ engine' = IF Len(batch) = 1 THEN "take" ELSE "deliver"
  /\ UNCHANGED <<prepVars, handler, rid, started, left, cancelled, faults, hit>>

(* ... and it is queued for its next one, or its stream ends. *)
Settle ==
  /\ engine = "settle"
  /\ LET c == Head(batch)
     IN IF left[c] # << >> /\ c \notin cancelled
          THEN queue' = Append(queue, c) /\ UNCHANGED stream
          ELSE /\ stream' = [stream EXCEPT ![c] = Append(@, "end")]
               /\ UNCHANGED queue
  /\ batch' = Tail(batch)
  /\ engine' = IF Len(batch) = 1 THEN "take" ELSE "deliver"
  /\ UNCHANGED <<prepVars, handler, rid, started, left, cancelled, faults, hit>>

PoolStep(c) == PrepStep(c) /\ UNCHANGED <<handler, rid, started, workVars>>
HandlerStep(c) == Create(c) \/ Submit(c) \/ Receive(c)
EngineStep == \/ TakeBatch \/ ExtendBatch \/ FilterCancelled
              \/ ForwardRaises \/ ForwardDone \/ Deliver \/ Settle

Next ==
  \/ \E c \in Callers : Arrive(c) \/ Abort(c) \/ PoolStep(c) \/ HandlerStep(c)
  \/ EngineStep \/ StopExtending

Spec == Init /\ [][Next]_vars
FairSpec ==
  /\ Spec /\ WF_vars(EngineStep) /\ WF_vars(StopExtending)
  /\ \A c \in Callers : WF_vars(PoolStep(c)) /\ WF_vars(HandlerStep(c))

-----------------------------------------------------------------------------
TypeOK ==
  /\ PrepTypeOK
  /\ handler \in [Callers -> {"new", "refused", "preparing", "failed", "created",
                              "streaming", "ended", "left"}]
  /\ rid \in [Callers -> 0 .. Cardinality(Callers)]
  /\ started \in [Callers -> 0 .. Cardinality(Callers)]
  /\ left \in [Callers -> Seq(Nat)]
  /\ cancelled \subseteq Callers
  /\ queue \in Seq(Callers) /\ batch \in Seq(Callers)
  /\ engine \in {"take", "extend", "filter", "forward", "deliver", "settle"}
  /\ stream \in [Callers -> Seq({"pcm", "end"})]
  /\ faults \in 0 .. GpuFails /\ hit \subseteq Callers

(* A response is only cut short for a reason of its own: its client left, its *)
(* own next segment is invalid, or a forward failed on the GPU with it in the *)
(* batch.  A segment another request should not have sent ends nobody else's  *)
(* stream, since a batch has one exact length and validity is a matter of     *)
(* length (kokoro_app.py:141, 203, 316).                                      *)
ShortOnlyForCause ==
  \A c \in Callers :
    (left[c] # << >> /\ (handler[c] = "ended" \/ "end" \in Members(stream[c]))) =>
      c \in cancelled \/ c \in hit \/ Invalid(c)

(* A streaming request is in one place: waiting in the queue, in the batch,   *)
(* or told the end; it is in the queue or the batch once, and after the end   *)
(* nothing follows (kokoro_app.py:304-320, scheduler.py:16).                  *)
OnePlace ==
  /\ \A i, j \in DOMAIN (queue \o batch) :
       (queue \o batch)[i] = (queue \o batch)[j] => i = j
  /\ \A c \in Callers :
       LET told == handler[c] = "ended" \/ "end" \in Members(stream[c])
           waits == c \in Members(queue \o batch)
       IN /\ handler[c] = "streaming" => told # waits
          /\ told => ~ waits
          /\ \A i \in DOMAIN stream[c] : stream[c][i] = "end" => i = Len(stream[c])

(* What a forward is given fits it: rows of one length and one priority, no   *)
(* more of them than the limit of any of them, though the limit that goes for *)
(* extending is read from the first in queue order and not from the request   *)
(* the batch was taken for (kokoro_app.py:168).                               *)
BatchFits ==
  engine \in {"extend", "filter", "forward"} =>
    \A i, j \in DOMAIN batch :
      /\ Length(batch[i]) = Length(batch[j])
      /\ (batch[i] \in Background) = (batch[j] \in Background)
      /\ Len(batch) <= BatchLimit(batch[i])

(* Every call ends: refused, failed, or its response complete or abandoned,   *)
(* whatever is shared in the pool, extended, cancelled or raised meanwhile.   *)
EveryCallEnds ==
  \A c \in Callers :
    handler[c] # "new" ~> handler[c] \in {"refused", "failed", "ended", "left"}
=============================================================================
