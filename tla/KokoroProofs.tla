---------------------------- MODULE KokoroProofs ----------------------------
(***************************************************************************)
(* The worker implements the preparation cache: whatever the handlers and  *)
(* the engine thread do, each of their steps is one of the cache or leaves *)
(* it alone, so that what holds of every execution of the cache holds of   *)
(* every execution of the worker. And its queue and batch, for any         *)
(* requests, limits and interleaving: every request is in one place, and a *)
(* batch has one shape and not more than its limit.                        *)
(***************************************************************************)
EXTENDS Kokoro, PrepCacheProofs, QueueFacts

\* The preparations start as in PrepCache.
LEMMA InitPrep == Init => PrepInit
BY DEF Init

\* Every step of the worker is a step of PrepCache or leaves it alone.
LEMMA NextPrep == [Next]_vars => [PrepNext]_prepVars
<1> SUFFICES ASSUME [Next]_vars PROVE [PrepNext]_prepVars
  OBVIOUS
<1>1. CASE UNCHANGED vars
  BY <1>1 DEF vars
<1>2. ASSUME NEW c \in Callers, Arrive(c) PROVE [PrepNext]_prepVars
  <2>1. CASE Len(queue) >= MaxQueue
    BY <1>2, <2>1 DEF Arrive
  <2>2. CASE ~ (Len(queue) >= MaxQueue)
    <3>1. Call(c)
      BY <1>2, <2>2 DEF Arrive
    <3>2. QED
      BY <3>1 DEF PrepNext
  <2>3. QED
    BY <2>1, <2>2
<1>3. ASSUME NEW c \in Callers, PoolStep(c) PROVE [PrepNext]_prepVars
  BY <1>3 DEF PoolStep, PrepNext
<1>4. ASSUME NEW c \in Callers, Abort(c) \/ HandlerStep(c) PROVE UNCHANGED prepVars
  BY <1>4 DEF Abort, HandlerStep, Create, Submit, Receive
<1>5. ASSUME EngineStep \/ StopExtending PROVE UNCHANGED prepVars
  BY <1>5 DEF EngineStep, StopExtending, TakeBatch, ExtendBatch, FilterCancelled,
              ForwardRaises, ForwardDone, Deliver, Settle
<1>6. QED
  BY <1>1, <1>2, <1>3, <1>4, <1>5 DEF Next

(* The worker implements PrepSpec: create_pcm_stream calls prepare_cached at  *)
(* most once for a request, and only the threads of prep_pool touch the cache *)
(* after that (kokoro_app.py:508-545).                                        *)
THEOREM WorkerImplementsPrep == Spec => PrepSpec
<1>1. Init => PrepInit
  BY InitPrep
<1>2. [Next]_vars => [PrepNext]_prepVars
  BY NextPrep
<1>3. QED
  BY <1>1, <1>2, PTL DEF Spec, PrepSpec

(* Whoever waits for a future in the worker waits for a call that has a       *)
(* thread or is over, whatever leaves, fails or is refused meanwhile          *)
(* (kokoro_app.py:508-532).                                                   *)
THEOREM WorkerAnswers == Spec => []FuturesAnswered
BY WorkerImplementsPrep, PrepAnswers, PTL

(* And a text in preparation is not prepared again, except after a failure on *)
(* the same text (kokoro_app.py:524-531).                                     *)
THEOREM WorkerPreparesOnce == Spec => []PreparedOnce
BY WorkerImplementsPrep, PrepKeeps, PTL

-----------------------------------------------------------------------------
(* The engine thread and the handlers: what they share. *)

Told(c) == handler[c] = "ended" \/ "end" \in Members(stream[c])
Waits(c) == c \in Members(queue) \/ c \in Members(batch)
EndLast(s) == \A i \in DOMAIN s : s[i] = "end" => i = Len(s)
Unsent == {"new", "refused", "preparing", "failed", "created"}

\* The variables of the worker that are not the cache's have their types.
WorkTypes ==
  /\ handler \in [Callers -> Unsent \cup {"streaming", "ended", "left"}]
  /\ rid \in [Callers -> 0 .. Cardinality(Callers)]
  /\ started \in [Callers -> 0 .. Cardinality(Callers)]
  /\ left \in [Callers -> Seq(Nat)]
  /\ cancelled \subseteq Callers
  /\ queue \in Seq(Callers) /\ batch \in Seq(Callers)
  /\ engine \in {"take", "extend", "filter", "forward", "deliver", "settle"}
  /\ stream \in [Callers -> Seq({"pcm", "end"})]
  /\ faults \in 0 .. GpuFails /\ hit \subseteq Callers

\* A request is in the queue or in the batch at most once, and the engine
\* thread has a batch in hand unless it takes one.
Apart ==
  /\ Distinct(queue) /\ Distinct(batch)
  /\ Members(queue) \cap Members(batch) = {}
  /\ engine = "take" <=> batch = << >>

\* A call before its job is submitted: nothing has been done for it.
Numbered(c) ==
  /\ handler[c] = "new" => started[c] = 0
  /\ handler[c] \in {"new", "preparing"} => rid[c] = 0
Untouched(c) ==
  handler[c] \in Unsent =>
    /\ left[c] = SegmentsOf(c) /\ stream[c] = << >>
    /\ handler[c] = "created" => left[c] # << >>

\* A call after that: it waits until it is told the end, unless its client left.
Served(c) ==
  /\ c \in cancelled => handler[c] = "left"
  /\ handler[c] = "ended" => stream[c] = << >>
  /\ handler[c] = "streaming" => Told(c) \/ Waits(c)
  /\ Waits(c) => ~ Told(c) /\ (handler[c] = "streaming" \/ c \in cancelled)
  /\ EndLast(stream[c])

\* What waits has a next segment, and what was told the end without having got
\* everything was told so for a reason of its own.
Whole(c) ==
  /\ Waits(c) /\ left[c] = << >> => engine = "settle" /\ c = Head(batch)
  /\ Told(c) /\ left[c] # << >> => c \in cancelled \/ c \in hit \/ Invalid(c)

\* The requests of a batch that is still put together have one length, one
\* priority and one limit, and the batch keeps to that.
Alike ==
  engine \in {"extend", "filter", "forward"} =>
    \A r, s \in Members(batch) :
      /\ Length(r) = Length(s) /\ BatchLimit(r) = BatchLimit(s)
      /\ r \in Background <=> s \in Background
      /\ Len(batch) <= BatchLimit(r)

CallInv(c) == Numbered(c) /\ Untouched(c) /\ Served(c) /\ Whole(c)

\* What every step of the worker keeps.
KInv ==
  /\ WorkTypes /\ Apart /\ Alike
  /\ \A c \in Callers : CallInv(c)

(* Streams: an end that is put behind no other, or with the first element
   taken off, is still the last. *)
LEMMA StreamFacts ==
  ASSUME NEW s \in Seq({"pcm", "end"}), EndLast(s)
  PROVE  /\ \A x \in {"pcm", "end"} : "end" \notin Members(s) => EndLast(Append(s, x))
         /\ s # << >> =>
              /\ EndLast(Tail(s))
              /\ Head(s) = "end" => Tail(s) = << >>
              /\ Head(s) # "end" =>
                   ("end" \in Members(s) <=> "end" \in Members(Tail(s)))
<1> DEFINE X == {"pcm", "end"}
<1>1. Len(s) \in Nat /\ DOMAIN s = 1 .. Len(s)
  BY LenProperties
<1>2. ASSUME NEW x \in X, "end" \notin Members(s) PROVE EndLast(Append(s, x))
  <2>1. /\ Append(s, x) \in Seq(X) /\ Len(Append(s, x)) = Len(s) + 1
        /\ \A i \in 1 .. Len(s) : Append(s, x)[i] = s[i]
    BY AppendProperties
  <2>2. DOMAIN Append(s, x) = 1 .. Len(s) + 1
    BY <2>1, LenProperties
  <2>3. \A i \in 1 .. Len(s) : s[i] # "end"
    BY <1>1, <1>2 DEF Members
  <2>4. ASSUME NEW i \in 1 .. Len(s) + 1, Append(s, x)[i] = "end" PROVE i = Len(s) + 1
    <3>1. i \notin 1 .. Len(s)
      BY <2>1, <2>3, <2>4
    <3>2. QED
      BY <1>1, <3>1
  <2>5. QED
    BY <2>1, <2>2, <2>4 DEF EndLast
<1>3. ASSUME s # << >>
      PROVE  /\ EndLast(Tail(s))
             /\ Head(s) = "end" => Tail(s) = << >>
             /\ Head(s) # "end" => ("end" \in Members(s) <=> "end" \in Members(Tail(s)))
  <2>1. /\ Head(s) = s[1] /\ Tail(s) \in Seq(X) /\ Len(Tail(s)) = Len(s) - 1
        /\ \A i \in 1 .. Len(s) - 1 : Tail(s)[i] = s[i + 1]
        /\ Members(s) = {Head(s)} \cup Members(Tail(s))
        /\ Tail(s) = <<>> <=> Len(s) = 1
    BY <1>3, HeadTailFacts
  <2>2. DOMAIN Tail(s) = 1 .. Len(s) - 1
    BY <2>1, LenProperties
  <2>3. Len(s) # 0
    BY <1>3, EmptySeq
  <2>4. ASSUME NEW i \in 1 .. Len(s) - 1, Tail(s)[i] = "end" PROVE i = Len(s) - 1
    <3>1. i + 1 \in DOMAIN s /\ s[i + 1] = "end"
      BY <1>1, <2>1, <2>4
    <3>2. i + 1 = Len(s)
      BY <3>1 DEF EndLast
    <3>3. Len(s) \in Nat /\ i \in Nat
      BY <1>1
    <3>4. QED
      BY <3>2, <3>3
  <2>5. Head(s) = "end" => Len(s) = 1
    <3>1. 1 \in DOMAIN s
      BY <1>1, <2>3
    <3>2. QED
      BY <2>1, <3>1 DEF EndLast
  <2>6. EndLast(Tail(s))
    BY <2>1, <2>2, <2>4 DEF EndLast
  <2>7. Head(s) # "end" => ("end" \in Members(s) <=> "end" \in Members(Tail(s)))
    <3> DEFINE T == Members(Tail(s))
               h == Head(s)
    <3>1. Members(s) = {h} \cup T
      BY <2>1
    <3> HIDE DEF T, h
    <3>2. h # "end" => ("end" \in Members(s) <=> "end" \in T)
      BY <3>1
    <3>3. QED
      BY <3>2 DEF T, h
  <2>8. QED
    BY <2>1, <2>5, <2>6, <2>7
<1>4. QED
  BY <1>2, <1>3

(* The next number in a count of calls, rid or request_started, is at most
   the number of calls. *)
LEMMA NextNumber ==
  ASSUME NEW f \in [Callers -> 0 .. Cardinality(Callers)], NEW c \in Callers, f[c] = 0
  PROVE  Cardinality({d \in Callers : f[d] > 0}) + 1 \in 0 .. Cardinality(Callers)
<1> DEFINE S == {d \in Callers : f[d] > 0}
<1>1. IsFiniteSet(Callers)
  BY PrepAssumption
<1>2. S \subseteq Callers \ {c}
  OBVIOUS
<1>3. /\ Cardinality(Callers) \in Nat
      /\ IsFiniteSet(Callers \ {c}) /\ Cardinality(Callers \ {c}) = Cardinality(Callers) - 1
  BY <1>1, FS_RemoveElement, FS_CardinalityType
<1> HIDE DEF S
<1>4. IsFiniteSet(S) /\ Cardinality(S) <= Cardinality(Callers \ {c})
  BY <1>2, <1>3, FS_Subset
<1>5. Cardinality(S) \in Nat
  BY <1>4, FS_CardinalityType
<1>6. QED
  BY <1>3, <1>4, <1>5 DEF S

(* The arguments of the selections: an urgency and a limit for every call. *)
LEMMA SelectionTypes ==
  /\ Urgency \in [Callers -> Nat]
  /\ \A c \in Callers : BatchLimit(c) \in Nat \ {0}
  /\ Limits \in [Callers -> Int]
  /\ \A c \in Callers : left[c] # << >> => Limits[c] = BatchLimit(c)
<1>1. ASSUME NEW c \in Callers PROVE Cardinality({d \in Callers : Sooner(d, c)}) \in Nat
  <2> DEFINE S == {d \in Callers : Sooner(d, c)}
  <2>1. S \subseteq Callers /\ IsFiniteSet(Callers)
    BY PrepAssumption
  <2> HIDE DEF S
  <2>2. Cardinality(S) \in Nat
    BY <2>1, FS_Subset, FS_CardinalityType
  <2>3. QED
    BY <2>2 DEF S
<1>2. \A c \in Callers : BatchLimit(c) \in Nat \ {0}
  BY KokoroAssumption DEF BatchLimit
<1>3. QED
  BY <1>1, <1>2 DEF Urgency, Limits

(* A call that a step does not concern. *)
LEMMA Frame ==
  ASSUME NEW d \in Callers, CallInv(d),
         handler'[d] = handler[d], rid'[d] = rid[d], started'[d] = started[d],
         left'[d] = left[d], stream'[d] = stream[d],
         d \in cancelled' <=> d \in cancelled, d \in hit => d \in hit',
         Waits(d)' <=> Waits(d),
         (Waits(d) /\ engine = "settle" /\ d = Head(batch)) =>
           (engine' = "settle" /\ d = Head(batch'))
  PROVE  CallInv(d)'
<1>1. Numbered(d)' /\ Untouched(d)'
  BY DEF CallInv, Numbered, Untouched
<1>2. Told(d)' <=> Told(d)
  BY DEF Told
<1>3. Served(d)'
  BY <1>2 DEF CallInv, Served
<1>4. Invalid(d)' <=> Invalid(d)
  BY DEF Invalid, Length
<1>5. Whole(d)'
  BY <1>2, <1>4 DEF CallInv, Whole
<1>6. QED
  BY <1>1, <1>3, <1>5 DEF CallInv

(* A batch that a step does not touch fits as before. *)
LEMMA SameAlike ==
  ASSUME Alike, UNCHANGED <<left, batch>>,
         engine' \in {"extend", "filter", "forward"} =>
           engine \in {"extend", "filter", "forward"}
  PROVE  Alike'
BY DEF Alike, Length, BatchLimit

(* A new call is refused, or numbered and given to the pool. *)
LEMMA ArriveKInv == ASSUME KInv, NEW c \in Callers, Arrive(c) PROVE KInv'
<1>1. /\ handler[c] = "new" /\ handler' = [handler EXCEPT ![c] = handler'[c]]
      /\ handler'[c] \in {"refused", "preparing"}
      /\ started' = [started EXCEPT ![c] = started'[c]]
      /\ handler'[c] = "refused" => UNCHANGED started
      /\ UNCHANGED <<rid, workVars>>
  BY DEF Arrive, KInv, WorkTypes
<1>2. started'[c] \in 0 .. Cardinality(Callers)
  <2>1. CASE Len(queue) >= MaxQueue
    BY <2>1 DEF Arrive, KInv, WorkTypes
  <2>2. CASE ~ (Len(queue) >= MaxQueue)
    <3>1. started'[c] = Cardinality({d \in Callers : started[d] > 0}) + 1
      BY <2>2 DEF Arrive, KInv, WorkTypes
    <3>2. started[c] = 0 /\ started \in [Callers -> 0 .. Cardinality(Callers)]
      BY <1>1 DEF KInv, WorkTypes, CallInv, Numbered
    <3>3. QED
      BY <3>1, <3>2, NextNumber
  <2>3. QED
    BY <2>1, <2>2
<1>3. WorkTypes'
  BY <1>1, <1>2 DEF KInv, WorkTypes, workVars, Unsent
<1>4. Apart'
  BY <1>1 DEF KInv, Apart, workVars
<1>5. Alike'
  BY <1>1, SameAlike DEF KInv, workVars
<1>6. ASSUME NEW d \in Callers PROVE CallInv(d)'
  <2>1. CallInv(d)
    BY DEF KInv
  <2>2. CASE d = c
    <3>1. handler'[d] \in {"refused", "preparing"} /\ rid[d] = 0 /\ handler[d] = "new"
      BY <1>1, <2>1, <2>2 DEF CallInv, Numbered
    <3>2. ~ Told(d) /\ ~ Waits(d) /\ d \notin cancelled
      BY <3>1, <2>1, EmptyFacts DEF CallInv, Untouched, Served, Told, Unsent
    <3>3. ~ Told(d)' /\ ~ Waits(d)' /\ d \notin cancelled'
      BY <1>1, <3>1, <3>2 DEF Told, Waits, workVars
    <3>4. Numbered(d)' /\ Untouched(d)'
      BY <1>1, <2>1, <3>1 DEF CallInv, Numbered, Untouched, Unsent, workVars
    <3>5. EndLast(stream[d])'
      BY <1>1, <2>1 DEF CallInv, Served, workVars
    <3>6. QED
      BY <3>1, <3>3, <3>4, <3>5 DEF CallInv, Served, Whole
  <2>3. CASE d # c
    <3>1. handler'[d] = handler[d] /\ started'[d] = started[d]
      BY <1>1, <2>3 DEF KInv, WorkTypes
    <3>2. Waits(d)' <=> Waits(d)
      BY <1>1 DEF Waits, workVars
    <3>3. QED
      BY <1>1, <2>1, <3>1, <3>2, Frame DEF workVars
  <2>4. QED
    BY <2>2, <2>3
<1>7. QED
  BY <1>3, <1>4, <1>5, <1>6 DEF KInv

(* A prepared call gets its number, unless there is nothing to say. *)
LEMMA CreateKInv == ASSUME KInv, NEW c \in Callers, Create(c) PROVE KInv'
<1>1. /\ handler[c] = "preparing" /\ handler' = [handler EXCEPT ![c] = handler'[c]]
      /\ handler'[c] \in {"failed", "created"}
      /\ rid' = [rid EXCEPT ![c] = rid'[c]]
      /\ handler'[c] = "created" => SegmentsOf(c) # << >>
      /\ UNCHANGED <<started, workVars>>
  BY DEF Create, KInv, WorkTypes
<1>2. rid'[c] \in 0 .. Cardinality(Callers)
  <2>1. CASE UNCHANGED rid
    BY <2>1 DEF KInv, WorkTypes
  <2>2. CASE rid' = [rid EXCEPT ![c] = Cardinality({d \in Callers : rid[d] > 0}) + 1]
    <3>1. rid'[c] = Cardinality({d \in Callers : rid[d] > 0}) + 1
      BY <2>2 DEF KInv, WorkTypes
    <3>2. rid[c] = 0 /\ rid \in [Callers -> 0 .. Cardinality(Callers)]
      BY <1>1 DEF KInv, WorkTypes, CallInv, Numbered
    <3>3. QED
      BY <3>1, <3>2, NextNumber
  <2>3. QED
    BY <2>1, <2>2 DEF Create
<1>3. WorkTypes'
  BY <1>1, <1>2 DEF KInv, WorkTypes, workVars, Unsent
<1>4. Apart'
  BY <1>1 DEF KInv, Apart, workVars
<1>5. Alike'
  BY <1>1, SameAlike DEF KInv, workVars
<1>6. ASSUME NEW d \in Callers PROVE CallInv(d)'
  <2>1. CallInv(d)
    BY DEF KInv
  <2>2. CASE d = c
    <3>1. handler'[d] \in {"failed", "created"} /\ handler[d] = "preparing"
      BY <1>1, <2>2
    <3>2. ~ Told(d) /\ ~ Waits(d) /\ d \notin cancelled
      BY <3>1, <2>1, EmptyFacts DEF CallInv, Untouched, Served, Told, Unsent
    <3>3. ~ Told(d)' /\ ~ Waits(d)' /\ d \notin cancelled'
      BY <1>1, <3>1, <3>2 DEF Told, Waits, workVars
    <3>4. left[d] = SegmentsOf(d) /\ stream[d] = << >>
      BY <2>1, <3>1 DEF CallInv, Untouched, Unsent
    <3>5. Numbered(d)' /\ Untouched(d)'
      BY <1>1, <2>2, <3>1, <3>4 DEF Numbered, Untouched, workVars, SegmentsOf
    <3>6. EndLast(stream[d])'
      BY <1>1, <2>1 DEF CallInv, Served, workVars
    <3>7. QED
      BY <3>1, <3>3, <3>5, <3>6 DEF CallInv, Served, Whole
  <2>3. CASE d # c
    <3>1. handler'[d] = handler[d] /\ rid'[d] = rid[d]
      BY <1>1, <2>3 DEF KInv, WorkTypes
    <3>2. Waits(d)' <=> Waits(d)
      BY <1>1 DEF Waits, workVars
    <3>3. QED
      BY <1>1, <2>1, <3>1, <3>2, Frame DEF workVars
  <2>4. QED
    BY <2>2, <2>3
<1>7. QED
  BY <1>3, <1>4, <1>5, <1>6 DEF KInv

(* A job joins the queue, where it was not before; or nobody submits it. *)
LEMMA SubmitKInv == ASSUME KInv, NEW c \in Callers, Submit(c) PROVE KInv'
<1>1. /\ handler[c] = "created" /\ handler' = [handler EXCEPT ![c] = handler'[c]]
      /\ \/ handler'[c] = "streaming" /\ queue' = Append(queue, c)
         \/ handler'[c] = "left" /\ UNCHANGED queue
      /\ UNCHANGED <<rid, started, left, cancelled, batch, engine, stream, faults, hit>>
  BY DEF Submit, KInv, WorkTypes
<1>2. queue \in Seq(Callers) /\ batch \in Seq(Callers)
  BY DEF KInv, WorkTypes
<1>3. CallInv(c)
  BY DEF KInv
<1>4. ~ Told(c) /\ ~ Waits(c) /\ c \notin cancelled /\ left[c] # << >> /\ stream[c] = << >>
  BY <1>1, <1>3, EmptyFacts DEF CallInv, Untouched, Served, Told, Unsent
<1>5. /\ Append(queue, c) \in Seq(Callers)
      /\ Members(Append(queue, c)) = Members(queue) \cup {c}
      /\ Distinct(Append(queue, c))
  BY <1>2, <1>4, AppendMembers DEF KInv, Apart, Waits
<1>6. WorkTypes'
  BY <1>1, <1>5 DEF KInv, WorkTypes, Unsent
<1>7. Apart'
  BY <1>1, <1>4, <1>5 DEF KInv, Apart, Waits
<1>8. Alike'
  BY <1>1, SameAlike DEF KInv
<1>9. ASSUME NEW d \in Callers PROVE CallInv(d)'
  <2>1. CallInv(d)
    BY DEF KInv
  <2>2. CASE d = c
    <3>1. handler'[d] \in {"streaming", "left"}
      BY <1>1, <2>2
    <3>2. ~ Told(d)' /\ d \notin cancelled'
      BY <1>1, <1>4, <2>2, <3>1 DEF Told
    <3>3. Waits(d)' <=> handler'[d] = "streaming"
      BY <1>1, <1>4, <1>5, <2>2, <3>1 DEF Waits
    <3>4. Numbered(d)' /\ Untouched(d)'
      BY <3>1 DEF Numbered, Untouched, Unsent
    <3>5. EndLast(stream[d])'
      BY <1>1, <2>1 DEF CallInv, Served
    <3>6. left'[d] # << >>
      BY <1>1, <1>4, <2>2
    <3>7. QED
      BY <3>1, <3>2, <3>3, <3>4, <3>5, <3>6 DEF CallInv, Served, Whole
  <2>3. CASE d # c
    <3>1. handler'[d] = handler[d]
      BY <1>1, <2>3 DEF KInv, WorkTypes
    <3>2. Waits(d)' <=> Waits(d)
      BY <1>1, <1>5, <2>3 DEF Waits
    <3>3. QED
      BY <1>1, <2>1, <3>1, <3>2, Frame
  <2>4. QED
    BY <2>2, <2>3
<1>10. QED
  BY <1>6, <1>7, <1>8, <1>9 DEF KInv

(* The handler takes what the sink put first; after the end there is nothing. *)
LEMMA ReceiveKInv == ASSUME KInv, NEW c \in Callers, Receive(c) PROVE KInv'
<1>1. /\ handler[c] = "streaming" /\ stream[c] # << >>
      /\ stream' = [stream EXCEPT ![c] = Tail(stream[c])]
      /\ handler' = [handler EXCEPT ![c] =
                       IF Head(stream[c]) = "end" THEN "ended" ELSE "streaming"]
      /\ UNCHANGED <<rid, started, left, cancelled, queue, batch, engine, faults, hit>>
  BY DEF Receive, KInv, WorkTypes
<1>2. CallInv(c) /\ stream[c] \in Seq({"pcm", "end"})
  BY DEF KInv, WorkTypes
<1>3. /\ stream'[c] = Tail(stream[c])
      /\ handler'[c] = IF Head(stream[c]) = "end" THEN "ended" ELSE "streaming"
  BY <1>1 DEF KInv, WorkTypes
<1>4. /\ Tail(stream[c]) \in Seq({"pcm", "end"})
      /\ Head(stream[c]) = "end" => "end" \in Members(stream[c])
  BY <1>1, <1>2, HeadTailFacts
<1>5. /\ EndLast(Tail(stream[c]))
      /\ Head(stream[c]) = "end" => Tail(stream[c]) = << >>
      /\ Head(stream[c]) # "end" =>
           ("end" \in Members(stream[c]) <=> "end" \in Members(Tail(stream[c])))
  BY <1>1, <1>2, StreamFacts DEF CallInv, Served
<1>6. WorkTypes'
  BY <1>1, <1>4 DEF KInv, WorkTypes, Unsent
<1>7. Apart'
  BY <1>1 DEF KInv, Apart
<1>8. Alike'
  BY <1>1, SameAlike DEF KInv
<1>9. ASSUME NEW d \in Callers PROVE CallInv(d)'
  <2>1. CallInv(d)
    BY DEF KInv
  <2>2. CASE d = c
    <3>1. Told(c)' <=> Told(c)
      BY <1>1, <1>3, <1>4, <1>5 DEF Told
    <3>2. Waits(c)' <=> Waits(c)
      BY <1>1 DEF Waits
    <3>3. Numbered(c)' /\ Untouched(c)'
      BY <1>3 DEF Numbered, Untouched, Unsent
    <3>4. Served(c)'
      <4>1. c \notin cancelled
        BY <1>1, <1>2 DEF CallInv, Served
      <4>2. EndLast(stream'[c]) /\ (handler'[c] = "ended" => stream'[c] = << >>)
        BY <1>3, <1>5
      <4>3. handler'[c] = "ended" => Told(c)
        BY <1>3, <1>4 DEF Told
      <4>4. handler'[c] \in {"ended", "streaming"} /\ c \notin cancelled'
        BY <1>1, <1>3, <4>1
      <4>5. Waits(c)' => ~ Told(c)'
        BY <1>2, <3>1, <3>2 DEF CallInv, Served
      <4>6. Waits(c)' => handler'[c] = "streaming"
        BY <3>2, <4>3, <4>4, <1>2 DEF CallInv, Served
      <4>7. Told(c)' \/ Waits(c)'
        BY <1>1, <1>2, <3>1, <3>2 DEF CallInv, Served
      <4>8. QED
        BY <4>2, <4>4, <4>5, <4>6, <4>7 DEF Served
    <3>5. Invalid(c)' <=> Invalid(c)
      BY <1>1 DEF Invalid, Length
    <3>6. Whole(c)'
      BY <1>1, <1>2, <3>1, <3>2, <3>5 DEF CallInv, Whole
    <3>7. QED
      BY <2>2, <3>3, <3>4, <3>6 DEF CallInv
  <2>3. CASE d # c
    <3>1. handler'[d] = handler[d] /\ stream'[d] = stream[d]
      BY <1>1, <2>3 DEF KInv, WorkTypes
    <3>2. Waits(d)' <=> Waits(d)
      BY <1>1 DEF Waits
    <3>3. QED
      BY <1>1, <2>1, <3>1, <3>2, Frame
  <2>4. QED
    BY <2>2, <2>3
<1>10. QED
  BY <1>6, <1>7, <1>8, <1>9 DEF KInv

(* The client goes away: its job is marked and stays where it is. *)
LEMMA AbortKInv == ASSUME KInv, NEW c \in Callers, Abort(c) PROVE KInv'
<1>1. /\ handler[c] = "streaming" /\ handler' = [handler EXCEPT ![c] = "left"]
      /\ cancelled' = cancelled \cup {c}
      /\ UNCHANGED <<rid, started, left, queue, batch, engine, stream, faults, hit>>
  BY DEF Abort
<1>2. WorkTypes'
  BY <1>1 DEF KInv, WorkTypes
<1>3. Apart'
  BY <1>1 DEF KInv, Apart
<1>4. Alike'
  BY <1>1, SameAlike DEF KInv
<1>5. ASSUME NEW d \in Callers PROVE CallInv(d)'
  <2>1. CallInv(d)
    BY DEF KInv
  <2>2. Waits(d)' <=> Waits(d)
    BY <1>1 DEF Waits
  <2>3. CASE d = c
    <3>1. handler'[d] = "left" /\ d \in cancelled'
      BY <1>1, <2>3 DEF KInv, WorkTypes
    <3>2. Told(d)' <=> Told(d)
      BY <1>1, <2>3, <3>1 DEF Told
    <3>3. Numbered(d)' /\ Untouched(d)'
      BY <3>1 DEF Numbered, Untouched, Unsent
    <3>4. EndLast(stream[d])'
      BY <1>1, <2>1 DEF CallInv, Served
    <3>5. Served(d)'
      BY <2>1, <2>2, <3>1, <3>2, <3>4 DEF CallInv, Served
    <3>6. Whole(d)'
      BY <1>1, <2>1, <2>2, <3>1 DEF CallInv, Whole
    <3>7. QED
      BY <3>3, <3>5, <3>6 DEF CallInv
  <2>4. CASE d # c
    <3>1. handler'[d] = handler[d] /\ (d \in cancelled' <=> d \in cancelled)
      BY <1>1, <2>4 DEF KInv, WorkTypes
    <3>2. QED
      BY <1>1, <2>1, <2>2, <3>1, Frame
  <2>5. QED
    BY <2>3, <2>4
<1>6. QED
  BY <1>2, <1>3, <1>4, <1>5 DEF KInv

(* A step that leaves the worker's variables alone: of the pool, or none. *)
LEMMA SameKInv == ASSUME KInv, UNCHANGED <<handler, rid, started, workVars>> PROVE KInv'
<1>1. WorkTypes' /\ Apart'
  BY DEF KInv, WorkTypes, Apart, workVars
<1>2. Alike'
  BY SameAlike DEF KInv, workVars
<1>3. ASSUME NEW d \in Callers PROVE CallInv(d)'
  <2>1. CallInv(d)
    BY DEF KInv
  <2>2. Waits(d)' <=> Waits(d)
    BY DEF Waits, workVars
  <2>3. QED
    BY <2>1, <2>2, Frame DEF workVars
<1>4. QED
  BY <1>1, <1>2, <1>3 DEF KInv

-----------------------------------------------------------------------------
(* The engine thread takes a group: all of its members are compatible with the
   one it was taken for, and no more than that one's limit. *)
LEMMA TakeBatchKInv == ASSUME KInv, TakeBatch PROVE KInv'
<1> DEFINE group == Group(queue, Urgency, Compatible, Limits)
           seed == Seed(queue, Urgency)
<1>1. /\ engine = "take" /\ queue # << >> /\ batch' = group
      /\ queue' = Without(queue, Members(group))
      /\ engine' = IF Len(group) < BatchLimit(group[1]) THEN "extend" ELSE "filter"
      /\ UNCHANGED <<handler, rid, started, left, cancelled, stream, faults, hit>>
  BY DEF TakeBatch
<1>2. queue \in Seq(Callers) /\ Distinct(queue) /\ batch = << >>
  BY <1>1 DEF KInv, WorkTypes, Apart
<1>3. /\ seed \in Callers /\ group \in Seq(Callers) /\ Distinct(group) /\ group # << >>
      /\ Members(group) \subseteq Members(queue)
      /\ \A r \in Members(group) : r = seed \/ <<seed, r>> \in Compatible
      /\ Len(group) <= 1 \/ Len(group) <= Limits[seed]
  <2> HIDE DEF group, seed
  <2>1. LET t == Group(queue, Urgency, Compatible, Limits)
            s == Seed(queue, Urgency)
        IN  /\ s \in Callers
            /\ t \in Seq(Callers) /\ Distinct(t) /\ t # <<>>
            /\ Members(t) \subseteq Members(queue)
            /\ \A r \in Members(t) : r = s \/ <<s, r>> \in Compatible
            /\ Len(t) <= 1 \/ Len(t) <= Limits[s]
    BY <1>1, <1>2, GroupFacts, SelectionTypes
  <2>2. QED
    BY <2>1 DEF group, seed
<1>4. seed \in Members(queue) /\ Members(queue) \subseteq Callers
  BY <1>1, <1>2, SeedFacts, MembersFacts, SelectionTypes
<1> HIDE DEF group, seed
<1>5. /\ Without(queue, Members(group)) \in Seq(Callers)
      /\ Distinct(Without(queue, Members(group)))
      /\ Members(Without(queue, Members(group))) = Members(queue) \ Members(group)
  BY <1>2, KeepFacts DEF Without
<1>6. WorkTypes'
  BY <1>1, <1>3, <1>5 DEF KInv, WorkTypes
<1>7. Apart'
  BY <1>1, <1>3, <1>5 DEF Apart
<1>8. ASSUME NEW d \in Callers PROVE CallInv(d)'
  <2>1. CallInv(d)
    BY DEF KInv
  <2>2. Waits(d)' <=> Waits(d)
    BY <1>1, <1>2, <1>3, <1>5, EmptyFacts DEF Waits
  <2>3. QED
    BY <1>1, <2>1, <2>2, Frame
<1>9. Alike'
  <2>1. ASSUME NEW r \in Members(group)
        PROVE  /\ Length(r) = Length(seed) /\ BatchLimit(r) = BatchLimit(seed)
               /\ r \in Background <=> seed \in Background
    <3>1. CASE r = seed
      BY <3>1
    <3>2. CASE <<seed, r>> \in Compatible
      <4> DEFINE rIn == r \in Background
                 seedIn == seed \in Background
      <4>1. /\ Length(seed) = Length(r) /\ BatchLimit(seed) = BatchLimit(r)
            /\ seedIn = rIn
        BY <3>2 DEF Compatible
      <4>2. QED
        BY <4>1
    <3>3. QED
      BY <1>3, <2>1, <3>1, <3>2
  <2>2. Len(group) <= BatchLimit(seed)
    <3>1. left[seed] # << >>
      BY <1>1, <1>4 DEF KInv, CallInv, Whole, Waits
    <3>2. Limits[seed] = BatchLimit(seed) /\ BatchLimit(seed) \in Nat \ {0}
      BY <1>3, <3>1, SelectionTypes
    <3>3. Len(group) \in Nat
      BY <1>3, LenProperties
    <3>4. QED
      BY <1>3, <3>2, <3>3
  <2>3. ASSUME NEW r \in Members(group), NEW s \in Members(group)
        PROVE  /\ Length(r) = Length(s) /\ BatchLimit(r) = BatchLimit(s)
               /\ r \in Background <=> s \in Background
               /\ Len(group) <= BatchLimit(r)
    BY <2>1, <2>2
  <2>4. \A c : Length(c)' = Length(c) /\ BatchLimit(c)' = BatchLimit(c)
    BY <1>1 DEF Length, BatchLimit
  <2>5. QED
    BY <1>1, <2>3, <2>4 DEF Alike
<1>10. QED
  BY <1>6, <1>7, <1>8, <1>9 DEF KInv

(* More requests join the batch, compatible with its first. *)
LEMMA ExtendBatchKInv == ASSUME KInv, ExtendBatch PROVE KInv'
<1> DEFINE limit == BatchLimit(batch[1])
           added == Joining(queue, batch, Compatible, limit)
<1>1. /\ engine = "extend" /\ added # << >> /\ batch' = batch \o added
      /\ queue' = Without(queue, Members(added)) /\ engine' \in {"extend", "filter"}
      /\ UNCHANGED <<handler, rid, started, left, cancelled, stream, faults, hit>>
  BY DEF ExtendBatch
<1>2. /\ queue \in Seq(Callers) /\ batch \in Seq(Callers) /\ batch # << >>
      /\ Distinct(queue) /\ Distinct(batch) /\ Members(queue) \cap Members(batch) = {}
      /\ Len(batch) \in Nat /\ DOMAIN batch = 1 .. Len(batch) /\ 1 \in DOMAIN batch
  <2>1. /\ queue \in Seq(Callers) /\ batch \in Seq(Callers) /\ batch # << >>
        /\ Distinct(queue) /\ Distinct(batch) /\ Members(queue) \cap Members(batch) = {}
    BY <1>1 DEF KInv, WorkTypes, Apart
  <2>2. Len(batch) \in Nat \ {0} /\ DOMAIN batch = 1 .. Len(batch)
    BY <2>1, LenProperties, EmptySeq
  <2>3. QED
    BY <2>1, <2>2
<1>3. batch[1] \in Callers /\ limit \in Int
  <2>1. batch[1] \in Callers
    BY <1>2, ElementOfSeq
  <2>2. QED
    BY <2>1, SelectionTypes
<1>4. /\ added \in Seq(Callers) /\ Distinct(added)
      /\ Members(added) \subseteq Members(queue)
      /\ \A r \in Members(added) : <<batch[1], r>> \in Compatible
      /\ Len(batch) + Len(added) <= limit
  <2> HIDE DEF limit
  <2>1. Joining(queue, batch, Compatible, limit) # << >>
    BY <1>1
  <2>2. LET t == Joining(queue, batch, Compatible, limit)
        IN  /\ t \in Seq(Callers) /\ Distinct(t)
            /\ Members(t) \subseteq Members(queue)
            /\ \A r \in Members(t) : <<batch[1], r>> \in Compatible
            /\ Len(batch) + Len(t) <= limit
    BY <1>2, <1>3, <2>1, JoiningFacts
  <2>3. QED
    BY <2>2
<1> HIDE DEF added, limit
<1>5. /\ batch \o added \in Seq(Callers) /\ Len(batch \o added) = Len(batch) + Len(added)
      /\ Members(batch \o added) = Members(batch) \cup Members(added)
      /\ Distinct(batch \o added)
  BY <1>2, <1>4, JoinedFacts
<1>6. /\ Without(queue, Members(added)) \in Seq(Callers)
      /\ Distinct(Without(queue, Members(added)))
      /\ Members(Without(queue, Members(added))) = Members(queue) \ Members(added)
  BY <1>2, KeepFacts DEF Without
<1>7. WorkTypes'
  BY <1>1, <1>5, <1>6 DEF KInv, WorkTypes
<1>8. Apart'
  <2>1. batch \o added # << >>
    BY <1>2, <1>4, <1>5, EmptySeq, LenProperties
  <2>2. QED
    BY <1>1, <1>2, <1>4, <1>5, <1>6, <2>1 DEF Apart
<1>9. ASSUME NEW d \in Callers PROVE CallInv(d)'
  <2>1. CallInv(d)
    BY DEF KInv
  <2>2. Waits(d)' <=> Waits(d)
    BY <1>1, <1>4, <1>5, <1>6 DEF Waits
  <2>3. QED
    BY <1>1, <2>1, <2>2, Frame
<1>10. Alike'
  <2> DEFINE new == batch \o added
  <2>1. batch[1] \in Members(batch)
    BY <1>2 DEF Members
  <2>2. ASSUME NEW r \in Members(new)
        PROVE  /\ Length(r) = Length(batch[1]) /\ BatchLimit(r) = limit
               /\ r \in Background <=> batch[1] \in Background
    <3>1. CASE r \in Members(batch)
      BY <1>1, <2>1, <3>1 DEF KInv, Alike, limit
    <3>2. CASE r \in Members(added)
      <4> DEFINE rIn == r \in Background
                 firstIn == batch[1] \in Background
      <4>1. <<batch[1], r>> \in Compatible
        BY <1>4, <3>2
      <4>2. /\ Length(batch[1]) = Length(r) /\ BatchLimit(batch[1]) = BatchLimit(r)
            /\ firstIn = rIn
        BY <4>1 DEF Compatible
      <4>3. QED
        BY <4>2 DEF limit
    <3>3. QED
      BY <1>5, <2>2, <3>1, <3>2
  <2>3. Len(new) <= limit
    BY <1>4, <1>5
  <2>4. ASSUME NEW r \in Members(new), NEW s \in Members(new)
        PROVE  /\ Length(r) = Length(s) /\ BatchLimit(r) = BatchLimit(s)
               /\ r \in Background <=> s \in Background
               /\ Len(new) <= BatchLimit(r)
    BY <2>2, <2>3
  <2>5. \A c : Length(c)' = Length(c) /\ BatchLimit(c)' = BatchLimit(c)
    BY <1>1 DEF Length, BatchLimit
  <2>6. QED
    BY <1>1, <2>4, <2>5 DEF Alike
<1>11. QED
  BY <1>7, <1>8, <1>9, <1>10 DEF KInv

(* No more request joins. *)
LEMMA StopExtendingKInv == ASSUME KInv, StopExtending PROVE KInv'
<1>1. /\ engine = "extend" /\ engine' = "filter"
      /\ UNCHANGED <<handler, rid, started, left, cancelled, queue, batch, stream,
                     faults, hit>>
  BY DEF StopExtending
<1>2. WorkTypes' /\ Apart'
  BY <1>1 DEF KInv, WorkTypes, Apart
<1>3. Alike'
  BY <1>1, SameAlike DEF KInv
<1>4. ASSUME NEW d \in Callers PROVE CallInv(d)'
  <2>1. CallInv(d)
    BY DEF KInv
  <2>2. Waits(d)' <=> Waits(d)
    BY <1>1 DEF Waits
  <2>3. QED
    BY <1>1, <2>1, <2>2, Frame
<1>5. QED
  BY <1>2, <1>3, <1>4 DEF KInv

(* What is left of the batch without the cancelled fits as before; those that
   are dropped need no word, since their clients have gone. *)
LEMMA FilterCancelledKInv == ASSUME KInv, FilterCancelled PROVE KInv'
<1> DEFINE live == Without(batch, cancelled)
<1>1. /\ engine = "filter" /\ batch' = live
      /\ engine' = IF live = << >> THEN "take" ELSE "forward"
      /\ UNCHANGED <<handler, rid, started, left, cancelled, queue, stream, faults, hit>>
  BY DEF FilterCancelled
<1>2. batch \in Seq(Callers) /\ Distinct(batch) /\ Members(queue) \cap Members(batch) = {}
  BY DEF KInv, WorkTypes, Apart
<1>3. /\ live \in Seq(Callers) /\ Distinct(live)
      /\ Members(live) = Members(batch) \ cancelled
  BY <1>2, KeepFacts DEF Without
<1>4. Len(live) <= Len(batch) /\ Len(live) \in Nat /\ Len(batch) \in Nat
  <2> HIDE DEF live
  <2>1. /\ IsFiniteSet(Members(batch)) /\ Cardinality(Members(batch)) = Len(batch)
        /\ Cardinality(Members(live)) = Len(live)
    BY <1>2, <1>3, DistinctCounts
  <2>2. Cardinality(Members(live)) <= Cardinality(Members(batch))
    BY <1>3, <2>1, FS_Subset
  <2>3. QED
    BY <1>2, <1>3, <2>1, <2>2, LenProperties
<1> HIDE DEF live
<1>5. WorkTypes'
  BY <1>1, <1>3 DEF KInv, WorkTypes
<1>6. Apart'
  BY <1>1, <1>2, <1>3 DEF KInv, Apart
<1>7. Alike'
  <2>1. ASSUME NEW r \in Members(live), NEW s \in Members(live)
        PROVE  /\ Length(r) = Length(s) /\ BatchLimit(r) = BatchLimit(s)
               /\ r \in Background <=> s \in Background
               /\ Len(live) <= BatchLimit(r)
    <3>1. r \in Members(batch) /\ s \in Members(batch)
      BY <1>3
    <3>2. /\ Length(r) = Length(s) /\ BatchLimit(r) = BatchLimit(s)
          /\ r \in Background <=> s \in Background
          /\ Len(batch) <= BatchLimit(r)
      BY <1>1, <3>1 DEF KInv, Alike
    <3>3. BatchLimit(r) \in Nat
      BY <1>2, <3>1, MembersFacts, SelectionTypes
    <3>4. QED
      BY <1>4, <3>2, <3>3
  <2>2. \A c : Length(c)' = Length(c) /\ BatchLimit(c)' = BatchLimit(c)
    BY <1>1 DEF Length, BatchLimit
  <2>3. QED
    BY <1>1, <2>1, <2>2 DEF Alike
<1>8. ASSUME NEW d \in Callers PROVE CallInv(d)'
  <2>1. CallInv(d)
    BY DEF KInv
  <2>2. CASE d \in Members(batch) /\ d \in cancelled
    <3>1. ~ Waits(d)' /\ Waits(d)
      BY <1>1, <1>2, <1>3, <2>2 DEF Waits
    <3>2. handler[d] = "left" /\ handler'[d] = "left" /\ ~ Told(d) /\ ~ Told(d)'
      BY <1>1, <2>1, <2>2, <3>1 DEF CallInv, Served, Told
    <3>3. EndLast(stream[d])'
      BY <1>1, <2>1 DEF CallInv, Served
    <3>4. QED
      BY <3>1, <3>2, <3>3 DEF CallInv, Numbered, Untouched, Served, Whole, Unsent
  <2>3. CASE ~ (d \in Members(batch) /\ d \in cancelled)
    <3>1. Waits(d)' <=> Waits(d)
      BY <1>1, <1>3, <2>3 DEF Waits
    <3>2. QED
      BY <1>1, <2>1, <3>1, Frame
  <2>4. QED
    BY <2>2, <2>3
<1>9. QED
  BY <1>5, <1>6, <1>7, <1>8 DEF KInv

(* The forward is through. *)
LEMMA ForwardDoneKInv == ASSUME KInv, ForwardDone PROVE KInv'
<1>1. /\ engine = "forward" /\ engine' = "deliver"
      /\ UNCHANGED <<handler, rid, started, left, cancelled, queue, batch, stream,
                     faults, hit>>
  BY DEF ForwardDone
<1>2. WorkTypes' /\ Apart'
  BY <1>1 DEF KInv, WorkTypes, Apart
<1>3. Alike'
  BY <1>1, SameAlike DEF KInv
<1>4. ASSUME NEW d \in Callers PROVE CallInv(d)'
  <2>1. CallInv(d)
    BY DEF KInv
  <2>2. Waits(d)' <=> Waits(d)
    BY <1>1 DEF Waits
  <2>3. QED
    BY <1>1, <2>1, <2>2, Frame
<1>5. QED
  BY <1>2, <1>3, <1>4 DEF KInv

(* The forward raises and every stream of the batch ends: either all of them
   have a segment of a length that is not valid, or all were hit. *)
LEMMA ForwardRaisesKInv == ASSUME KInv, ForwardRaises PROVE KInv'
<1>1. /\ engine = "forward" /\ engine' = "take" /\ batch' = << >>
      /\ stream' = [c \in Callers |-> IF c \in Members(batch)
                                      THEN Append(stream[c], "end") ELSE stream[c]]
      /\ UNCHANGED <<handler, rid, started, left, cancelled, queue>>
  BY DEF ForwardRaises
<1>2. /\ batch \in Seq(Callers) /\ Members(batch) \subseteq Callers
      /\ Members(queue) \cap Members(batch) = {}
      /\ stream \in [Callers -> Seq({"pcm", "end"})]
  BY MembersFacts DEF KInv, WorkTypes, Apart
<1>3. /\ faults' \in 0 .. GpuFails /\ hit \subseteq hit' /\ hit' \subseteq Callers
      /\ \/ Members(batch) \subseteq hit'
         \/ \A c \in Members(batch) : Invalid(c)
  <2>1. faults \in 0 .. GpuFails /\ hit \subseteq Callers /\ GpuFails \in Nat
    BY KokoroAssumption DEF KInv, WorkTypes
  <2>2. CASE (\E i \in DOMAIN batch : Invalid(batch[i])) /\ UNCHANGED <<faults, hit>>
    <3>1. PICK i \in DOMAIN batch : Invalid(batch[i])
      BY <2>2
    <3>2. batch[i] \in Members(batch)
      BY DEF Members
    <3>3. \A c \in Members(batch) : Length(c) = Length(batch[i])
      BY <1>1, <3>2 DEF KInv, Alike
    <3>4. QED
      BY <2>1, <2>2, <3>1, <3>3 DEF Invalid
  <2>3. CASE faults < GpuFails /\ faults' = faults + 1 /\ hit' = hit \cup Members(batch)
    BY <1>2, <2>1, <2>3
  <2>4. QED
    BY <2>2, <2>3 DEF ForwardRaises
<1>4. ASSUME NEW c \in Callers
      PROVE  /\ Append(stream[c], "end") \in Seq({"pcm", "end"})
             /\ Append(stream[c], "end") # << >>
             /\ "end" \in Members(Append(stream[c], "end"))
  <2> DEFINE X == {"pcm", "end"}
             e == "end"
  <2>1. stream[c] \in Seq(X) /\ e \in X
    BY <1>2
  <2> HIDE DEF X, e
  <2>2. /\ Append(stream[c], e) \in Seq(X) /\ Append(stream[c], e) # << >>
        /\ e \in Members(Append(stream[c], e))
    BY <2>1, AppendMembers
  <2>3. QED
    BY <2>2 DEF X, e
<1>5. WorkTypes'
  BY <1>1, <1>2, <1>3, <1>4, EmptySeq DEF KInv, WorkTypes
<1>6. Apart'
  BY <1>1, EmptyFacts DEF KInv, Apart
<1>7. Alike'
  BY <1>1 DEF Alike
<1>8. ASSUME NEW d \in Callers PROVE CallInv(d)'
  <2>1. CallInv(d)
    BY DEF KInv
  <2>2. CASE d \in Members(batch)
    <3>1. Waits(d) /\ ~ Told(d)
      BY <2>1, <2>2 DEF Waits, CallInv, Served
    <3>2. ~ Waits(d)'
      BY <1>1, <1>2, <2>2, EmptyFacts DEF Waits
    <3>3. stream'[d] = Append(stream[d], "end") /\ handler'[d] = handler[d]
      BY <1>1, <2>2
    <3>4. Told(d)'
      BY <1>4, <3>3 DEF Told
    <3>5. handler[d] = "streaming" \/ (handler[d] = "left" /\ d \in cancelled)
      BY <2>1, <3>1 DEF CallInv, Served
    <3>6. EndLast(stream'[d])
      <4> DEFINE X == {"pcm", "end"}
                 e == "end"
                 s == stream[d]
      <4>1. s \in Seq({"pcm", "end"}) /\ EndLast(s) /\ "end" \notin Members(s)
        BY <1>2, <2>1, <3>1 DEF CallInv, Served, Told
      <4> HIDE DEF s
      <4>2. \A x \in X : EndLast(Append(s, x))
        BY <4>1, StreamFacts
      <4>3. EndLast(Append(s, "end"))
        BY <4>2
      <4>4. QED
        BY <3>3, <4>3 DEF s
    <3>7. Numbered(d)' /\ Untouched(d)'
      BY <3>3, <3>5 DEF Numbered, Untouched, Unsent
    <3>8. Served(d)'
      BY <1>1, <2>1, <3>2, <3>3, <3>4, <3>5, <3>6 DEF CallInv, Served
    <3>9. Invalid(d)' <=> Invalid(d)
      BY <1>1 DEF Invalid, Length
    <3>10. Whole(d)'
      BY <1>3, <2>2, <3>2, <3>9 DEF Whole
    <3>11. QED
      BY <3>7, <3>8, <3>10 DEF CallInv
  <2>3. CASE d \notin Members(batch)
    <3>1. stream'[d] = stream[d]
      BY <1>1, <2>3
    <3>2. Waits(d)' <=> Waits(d)
      BY <1>1, <2>3, EmptyFacts DEF Waits
    <3>3. QED
      BY <1>1, <1>3, <2>1, <3>1, <3>2, Frame
  <2>4. QED
    BY <2>2, <2>3
<1>9. QED
  BY <1>5, <1>6, <1>7, <1>8 DEF KInv

(* The first of the batch gets its segment. *)
LEMMA DeliverKInv == ASSUME KInv, Deliver PROVE KInv'
<1> DEFINE c == Head(batch)
<1>1. /\ engine = "deliver" /\ engine' = "settle"
      /\ left' = [left EXCEPT ![c] = Tail(@)]
      /\ stream' = [stream EXCEPT ![c] = Append(@, "pcm")]
      /\ UNCHANGED <<handler, rid, started, cancelled, queue, batch, faults, hit>>
  BY DEF Deliver
<1>2. /\ batch \in Seq(Callers) /\ batch # << >>
      /\ left \in [Callers -> Seq(Nat)] /\ stream \in [Callers -> Seq({"pcm", "end"})]
  BY <1>1 DEF KInv, WorkTypes, Apart
<1>3. c \in Callers /\ c \in Members(batch)
  BY <1>2, HeadTailFacts
<1> HIDE DEF c
<1>4. CallInv(c) /\ Waits(c) /\ ~ Told(c)
  BY <1>3 DEF KInv, Waits, CallInv, Served
<1>5. left[c] # << >> /\ left[c] \in Seq(Nat) /\ stream[c] \in Seq({"pcm", "end"})
  BY <1>1, <1>2, <1>3, <1>4 DEF CallInv, Whole
<1>6. Tail(left[c]) \in Seq(Nat)
  BY <1>5, HeadTailFacts
<1>7. /\ Append(stream[c], "pcm") \in Seq({"pcm", "end"})
      /\ "end" \notin Members(Append(stream[c], "pcm"))
      /\ EndLast(Append(stream[c], "pcm"))
  <2> DEFINE X == {"pcm", "end"}
             p == "pcm"
             s == stream[c]
             e == "end"
  <2>1. s \in Seq(X) /\ p \in X /\ p # e /\ e \notin Members(s)
    BY <1>4, <1>5 DEF Told
  <2>2. EndLast(s)
    BY <1>4 DEF CallInv, Served
  <2>3. EndLast(Append(s, p))
    <3>1. s \in Seq({"pcm", "end"}) /\ "end" \notin Members(s) /\ p \in {"pcm", "end"}
      BY <2>1
    <3> HIDE DEF s, p, X, e
    <3>2. QED
      BY <2>2, <3>1, StreamFacts
  <2> HIDE DEF X, p, s, e
  <2>4. Append(s, p) \in Seq(X) /\ Members(Append(s, p)) = Members(s) \cup {p}
    BY <2>1, AppendMembers
  <2>5. e \notin Members(Append(s, p))
    BY <2>1, <2>4
  <2>6. QED
    BY <2>3, <2>4, <2>5 DEF X, p, s, e
<1>8. WorkTypes'
  BY <1>1, <1>2, <1>6, <1>7 DEF KInv, WorkTypes
<1>9. Apart'
  BY <1>1 DEF KInv, Apart
<1>10. Alike'
  BY <1>1 DEF Alike
<1>11. ASSUME NEW d \in Callers PROVE CallInv(d)'
  <2>1. CallInv(d)
    BY DEF KInv
  <2>2. Waits(d)' <=> Waits(d)
    BY <1>1 DEF Waits
  <2>3. CASE d = c
    <3>1. stream'[d] = Append(stream[c], "pcm") /\ handler'[d] = handler[d]
      BY <1>1, <1>2, <1>3, <2>3
    <3>2. handler[d] = "streaming" \/ (handler[d] = "left" /\ d \in cancelled)
      BY <1>4, <2>1, <2>3 DEF CallInv, Served
    <3>3. ~ Told(d)'
      BY <1>7, <3>1, <3>2 DEF Told
    <3>4. Numbered(d)' /\ Untouched(d)'
      BY <3>1, <3>2 DEF Numbered, Untouched, Unsent
    <3>5. Served(d)'
      <4>1. EndLast(stream'[d]) /\ Waits(d)'
        BY <1>4, <1>7, <2>2, <2>3, <3>1
      <4>2. (d \in cancelled' <=> d \in cancelled) /\ handler'[d] \in {"streaming", "left"}
        BY <1>1, <3>1, <3>2
      <4>3. d \in cancelled => handler[d] = "left"
        BY <2>1 DEF CallInv, Served
      <4>4. QED
        BY <3>1, <3>2, <3>3, <4>1, <4>2, <4>3 DEF Served
    <3>6. Whole(d)'
      <4>1. engine' = "settle" /\ Head(batch') = c
        BY <1>1 DEF c
      <4>2. QED
        BY <2>3, <3>3, <4>1 DEF Whole
    <3>7. QED
      BY <3>4, <3>5, <3>6 DEF CallInv
  <2>4. CASE d # c
    <3>1. left'[d] = left[d] /\ stream'[d] = stream[d]
      BY <1>1, <1>2, <2>4
    <3>2. QED
      BY <1>1, <2>1, <2>2, <3>1, Frame
  <2>5. QED
    BY <2>3, <2>4
<1>12. QED
  BY <1>8, <1>9, <1>10, <1>11 DEF KInv

(* The first of the batch is queued for its next segment, or told the end. *)
LEMMA SettleKInv == ASSUME KInv, Settle PROVE KInv'
<1> DEFINE c == Head(batch)
           again == left[c] # << >> /\ c \notin cancelled
<1>1. /\ engine = "settle" /\ batch' = Tail(batch)
      /\ engine' = IF Len(batch) = 1 THEN "take" ELSE "deliver"
      /\ again => queue' = Append(queue, c) /\ UNCHANGED stream
      /\ ~ again => stream' = [stream EXCEPT ![c] = Append(@, "end")] /\ UNCHANGED queue
      /\ UNCHANGED <<handler, rid, started, left, cancelled, faults, hit>>
  BY DEF Settle
<1>2. /\ queue \in Seq(Callers) /\ batch \in Seq(Callers) /\ batch # << >>
      /\ Distinct(queue) /\ Distinct(batch) /\ Members(queue) \cap Members(batch) = {}
      /\ stream \in [Callers -> Seq({"pcm", "end"})]
  BY <1>1 DEF KInv, WorkTypes, Apart
<1>3. /\ c \in Callers /\ Tail(batch) \in Seq(Callers) /\ Distinct(Tail(batch))
      /\ Members(batch) = {c} \cup Members(Tail(batch)) /\ c \notin Members(Tail(batch))
      /\ Tail(batch) = << >> <=> Len(batch) = 1
  BY <1>2, HeadTailFacts
<1> HIDE DEF c
<1>4. CallInv(c) /\ Waits(c) /\ ~ Told(c) /\ c \notin Members(queue)
  BY <1>2, <1>3 DEF KInv, Waits, CallInv, Served
<1>5. /\ Append(queue, c) \in Seq(Callers) /\ Distinct(Append(queue, c))
      /\ Members(Append(queue, c)) = Members(queue) \cup {c}
  BY <1>2, <1>3, <1>4, AppendMembers
<1>6. /\ Append(stream[c], "end") \in Seq({"pcm", "end"})
      /\ "end" \in Members(Append(stream[c], "end"))
      /\ Append(stream[c], "end") # << >>
      /\ EndLast(Append(stream[c], "end"))
  <2> DEFINE X == {"pcm", "end"}
             s == stream[c]
             e == "end"
  <2>1. s \in Seq(X) /\ e \in X /\ e \notin Members(s)
    BY <1>2, <1>3, <1>4 DEF Told
  <2>2. EndLast(s)
    BY <1>4 DEF CallInv, Served
  <2>3. EndLast(Append(s, e))
    <3>1. s \in Seq({"pcm", "end"}) /\ "end" \notin Members(s) /\ e \in {"pcm", "end"}
      BY <2>1
    <3> HIDE DEF s, X, e
    <3>2. QED
      BY <2>2, <3>1, StreamFacts
  <2> HIDE DEF X, s, e
  <2>4. /\ Append(s, e) \in Seq(X) /\ Members(Append(s, e)) = Members(s) \cup {e}
        /\ Append(s, e) # << >>
    BY <2>1, AppendMembers
  <2>5. e \in Members(Append(s, e))
    BY <2>4
  <2>6. QED
    BY <2>3, <2>4, <2>5 DEF X, s, e
<1> HIDE DEF again
<1>7. WorkTypes'
  <2>1. queue' \in Seq(Callers) /\ stream' \in [Callers -> Seq({"pcm", "end"})]
    BY <1>1, <1>2, <1>5, <1>6
  <2>2. QED
    BY <1>1, <1>3, <2>1 DEF KInv, WorkTypes
<1>8. Apart'
  BY <1>1, <1>2, <1>3, <1>5 DEF Apart
<1>9. Alike'
  BY <1>1 DEF Alike
<1>10. ASSUME NEW d \in Callers PROVE CallInv(d)'
  <2>1. CallInv(d)
    BY DEF KInv
  <2>2. CASE d = c
    <3>1. handler'[d] = handler[d] /\ (d \in cancelled' <=> d \in cancelled)
      BY <1>1
    <3>2. handler[d] = "streaming" \/ (handler[d] = "left" /\ d \in cancelled)
      BY <1>4, <2>1, <2>2 DEF CallInv, Served
    <3>3. Numbered(d)' /\ Untouched(d)'
      BY <3>1, <3>2 DEF Numbered, Untouched, Unsent
    <3>4. CASE again
      <4>1. Waits(d)' /\ stream'[d] = stream[d]
        BY <1>1, <1>5, <2>2, <3>4 DEF Waits
      <4>2. ~ Told(d)' /\ left'[d] # << >>
        BY <1>1, <1>4, <2>2, <3>1, <3>4, <4>1 DEF Told, again
      <4>3. Served(d)'
        BY <2>1, <3>1, <3>2, <4>1, <4>2 DEF CallInv, Served
      <4>4. QED
        BY <3>3, <4>2, <4>3 DEF CallInv, Whole
    <3>5. CASE ~ again
      <4>1. ~ Waits(d)' /\ stream'[d] = Append(stream[d], "end")
        BY <1>1, <1>2, <1>3, <1>4, <2>2, <3>5 DEF Waits
      <4>2. Told(d)'
        BY <1>6, <2>2, <4>1 DEF Told
      <4>3. EndLast(stream'[d])
        BY <1>6, <2>2, <4>1
      <4>4. Served(d)'
        BY <2>1, <3>1, <3>2, <4>1, <4>2, <4>3 DEF CallInv, Served
      <4>5. left'[d] # << >> => d \in cancelled'
        BY <1>1, <2>2, <3>5 DEF again
      <4>6. QED
        BY <3>3, <4>1, <4>4, <4>5 DEF CallInv, Whole
    <3>6. QED
      BY <3>4, <3>5
  <2>3. CASE d # c
    <3>1. stream'[d] = stream[d]
      BY <1>1, <1>2, <2>3
    <3>2. Waits(d)' <=> Waits(d)
      BY <1>1, <1>3, <1>5, <2>3 DEF Waits
    <3>3. QED
      BY <1>1, <2>1, <2>3, <3>1, <3>2, Frame DEF c
  <2>4. QED
    BY <2>2, <2>3
<1>11. QED
  BY <1>7, <1>8, <1>9, <1>10 DEF KInv

(* At the start no call has come in. *)
LEMMA InitKInv == Init => KInv
<1> SUFFICES ASSUME Init PROVE KInv
  OBVIOUS
<1>1. Cardinality(Callers) \in Nat /\ GpuFails \in Nat
  BY PrepAssumption, KokoroAssumption, FS_CardinalityType
<1>2. \A c \in Callers : SegmentsOf(c) \in Seq(Nat)
  BY PrepAssumption, KokoroAssumption DEF SegmentsOf
<1>3. WorkTypes
  BY <1>1, <1>2 DEF Init, WorkTypes, Unsent
<1>4. Apart /\ Alike
  BY EmptyFacts DEF Init, Apart, Alike
<1>5. ASSUME NEW c \in Callers PROVE CallInv(c)
  <2>1. EndLast(stream[c]) /\ ~ Told(c) /\ ~ Waits(c)
    BY EmptyFacts DEF Init, EndLast, Told, Waits
  <2>2. QED
    BY <2>1 DEF Init, CallInv, Numbered, Untouched, Served, Whole
<1>6. QED
  BY <1>3, <1>4, <1>5 DEF KInv

(* Every step of the worker keeps the invariant. *)
LEMMA NextKInv == KInv /\ [Next]_vars => KInv'
<1> SUFFICES ASSUME KInv, [Next]_vars PROVE KInv'
  OBVIOUS
<1>1. CASE UNCHANGED vars
  BY <1>1, SameKInv DEF vars
<1>2. ASSUME NEW c \in Callers, Arrive(c) \/ Abort(c) \/ PoolStep(c) \/ HandlerStep(c)
      PROVE  KInv'
  BY <1>2, ArriveKInv, AbortKInv, SameKInv, CreateKInv, SubmitKInv, ReceiveKInv
     DEF PoolStep, HandlerStep
<1>3. ASSUME EngineStep \/ StopExtending PROVE KInv'
  BY <1>3, TakeBatchKInv, ExtendBatchKInv, StopExtendingKInv, FilterCancelledKInv,
     ForwardRaisesKInv, ForwardDoneKInv, DeliverKInv, SettleKInv DEF EngineStep
<1>4. QED
  BY <1>1, <1>2, <1>3 DEF Next

(* The invariant of the worker. *)
THEOREM WorkerInvariant == Spec => []KInv
BY InitKInv, NextKInv, PTL DEF Spec

(* Type correctness: numbers never exceed the number of calls, and no sink is
   ever given anything but audio and the end. *)
THEOREM WorkerTypes == Spec => []TypeOK
<1>1. KInv /\ PInv => TypeOK
  <2>1. PInv => PrepTypeOK
    BY DEF PInv
  <2>2. Unsent \cup {"streaming", "ended", "left"} =
          {"new", "refused", "preparing", "failed", "created", "streaming", "ended", "left"}
    BY DEF Unsent
  <2>3. QED
    BY <2>1, <2>2 DEF KInv, WorkTypes, TypeOK
<1>2. QED
  BY <1>1, WorkerInvariant, WorkerImplementsPrep, PrepInvariant, PTL

(* Wherever a client leaves, a batch is extended, filtered or raises: a
   streaming request waits in one place or has been told the end, and nothing
   follows the end (kokoro_app.py:304-320, scheduler.py:16). *)
THEOREM WorkerOnePlace == Spec => []OnePlace
<1>1. KInv => OnePlace
  <2> SUFFICES ASSUME KInv PROVE OnePlace
    OBVIOUS
  <2>1. /\ queue \in Seq(Callers) /\ batch \in Seq(Callers)
        /\ Distinct(queue) /\ Distinct(batch) /\ Members(queue) \cap Members(batch) = {}
    BY DEF KInv, WorkTypes, Apart
  <2>2. /\ Distinct(queue \o batch)
        /\ Members(queue \o batch) = Members(queue) \cup Members(batch)
    BY <2>1, JoinedFacts
  <2>3. ASSUME NEW c \in Callers
        PROVE  /\ c \in Members(queue \o batch) <=> Waits(c)
               /\ handler[c] = "streaming" => Told(c) \/ Waits(c)
               /\ Told(c) => ~ Waits(c)
               /\ EndLast(stream[c])
    BY <2>2 DEF KInv, CallInv, Served, Waits
  <2>4. ASSUME NEW c \in Callers
        PROVE  LET told == handler[c] = "ended" \/ "end" \in Members(stream[c])
                   waits == c \in Members(queue \o batch)
               IN /\ handler[c] = "streaming" => told # waits
                  /\ told => ~ waits
                  /\ \A i \in DOMAIN stream[c] : stream[c][i] = "end" => i = Len(stream[c])
    <3> DEFINE told == handler[c] = "ended" \/ "end" \in Members(stream[c])
               waits == c \in Members(queue \o batch)
    <3>1. (told <=> Told(c)) /\ (waits <=> Waits(c))
      BY <2>3 DEF Told
    <3> HIDE DEF told, waits
    <3>2. (handler[c] = "streaming" => told \/ waits) /\ (told => ~ waits)
      BY <2>3, <3>1
    <3>3. told \in BOOLEAN /\ waits \in BOOLEAN
      BY DEF told, waits
    <3>4. handler[c] = "streaming" => told # waits
      BY <3>2, <3>3
    <3>5. QED
      BY <2>3, <3>2, <3>4 DEF told, waits, EndLast
  <2>5. QED
    BY <2>2, <2>4 DEF OnePlace, Distinct
<1>2. QED
  BY <1>1, WorkerInvariant, PTL

(* What a forward is given fits it: the limit of the first in queue order is the
   one of every other request of the batch (kokoro_app.py:150-184). *)
THEOREM WorkerBatchFits == Spec => []BatchFits
<1>1. KInv => BatchFits
  <2> SUFFICES ASSUME KInv, engine \in {"extend", "filter", "forward"},
                      NEW i \in DOMAIN batch, NEW j \in DOMAIN batch
               PROVE  /\ Length(batch[i]) = Length(batch[j])
                      /\ (batch[i] \in Background) = (batch[j] \in Background)
                      /\ Len(batch) <= BatchLimit(batch[i])
    BY DEF BatchFits
  <2>1. batch[i] \in Members(batch) /\ batch[j] \in Members(batch)
    BY DEF Members
  <2>2. QED
    BY <2>1 DEF KInv, Alike
<1>2. QED
  BY <1>1, WorkerInvariant, PTL

(* Nobody's response is cut short by the segment of another request: who was
   told the end early had left, shared a batch with a forward that failed on the
   GPU, or has an invalid segment next (kokoro_app.py:141, 203, 316). *)
THEOREM WorkerShortOnlyForCause == Spec => []ShortOnlyForCause
<1>1. KInv => ShortOnlyForCause
  BY DEF KInv, CallInv, Whole, ShortOnlyForCause, Told
<1>2. QED
  BY <1>1, WorkerInvariant, PTL
=============================================================================
