--------------------------- MODULE SchedulerQueue ---------------------------
(***************************************************************************)
(* SchedulerQueue (server/scheduler.py) shared by the threads that submit  *)
(* and the one engine thread that takes. A critical section under _lock is *)
(* one action; submit leaves the lock before it sets the event, and wait   *)
(* returns before it clears it, so those are steps of their own.           *)
(***************************************************************************)
EXTENDS QueueOps

CONSTANTS
  Requests,
  Urgency,     \* select_key of a request
  Compatible,  \* pairs that may share a batch
  LimitFor,    \* limit_for of a request
  MaxTake      \* largest limit passed to take

ASSUME QueueAssumption ==
  /\ IsFiniteSet(Requests)
  /\ Urgency \in [Requests -> Nat]
  /\ Compatible \subseteq Requests \X Requests
  /\ LimitFor \in [Requests -> Int]
  /\ MaxTake \in Nat \ {0}

VARIABLES
  items,      \* _items
  wake,       \* _wake
  closed,     \* _closed
  submitter,  \* where the thread that submits each request is
  engine,     \* where the engine thread is
  batch,      \* the requests the engine thread has in hand
  urgent,     \* the seed the batch was taken for; {} for a plain take
  served,     \* history: requests the engine is done with
  arrival     \* history: requests in the order they were appended

history == <<served, arrival>>
vars == <<items, wake, closed, submitter, engine, batch, urgent, history>>

TypeOK ==
  /\ items \in Seq(Requests) /\ Distinct(items)
  /\ wake \in BOOLEAN
  /\ closed \in BOOLEAN
  /\ submitter \in [Requests -> {"new", "appended", "done", "refused"}]
  /\ engine \in {"take", "wait", "clear", "hold"}
  /\ batch \in Seq(Requests) /\ Distinct(batch)
  /\ urgent \subseteq Requests
  /\ served \subseteq Requests
  /\ arrival \in Seq(Requests)

Init ==
  /\ items = <<>>
  /\ wake = FALSE
  /\ closed = FALSE
  /\ submitter = [r \in Requests |-> "new"]
  /\ engine = "take"
  /\ batch = <<>>
  /\ urgent = {}
  /\ served = {}
  /\ arrival = <<>>

-----------------------------------------------------------------------------
(* submit and close *)

Enqueue(r) ==
  /\ submitter[r] = "new"
  /\ \/ /\ closed
        /\ submitter' = [submitter EXCEPT ![r] = "refused"]
        /\ UNCHANGED <<items, arrival>>
     \/ /\ ~closed
        /\ submitter' = [submitter EXCEPT ![r] = "appended"]
        /\ items' = Append(items, r)
        /\ arrival' = Append(arrival, r)
  /\ UNCHANGED <<wake, closed, engine, batch, urgent, served>>

\* Mutant: nobody is woken once the queue is closed.
SignalUnlessClosed(r) ==
  /\ submitter[r] = "appended"
  /\ submitter' = [submitter EXCEPT ![r] = "done"]
  /\ wake' = (wake \/ ~closed)
  /\ UNCHANGED <<items, closed, engine, batch, urgent, history>>

Signal(r) ==
  /\ submitter[r] = "appended"
  /\ submitter' = [submitter EXCEPT ![r] = "done"]
  /\ wake' = TRUE
  /\ UNCHANGED <<items, closed, engine, batch, urgent, history>>

Close ==
  /\ ~closed
  /\ closed' = TRUE
  /\ UNCHANGED <<items, wake, submitter, engine, batch, urgent, history>>

\* close sets the event after it has left the lock.
CloseSignal ==
  /\ closed
  /\ wake' = TRUE
  /\ UNCHANGED <<items, closed, submitter, engine, batch, urgent, history>>

-----------------------------------------------------------------------------
(* The engine thread *)

\* Nothing to take: the engine goes to wait(timeout).
TakeNothing ==
  /\ engine = "take" /\ items = <<>>
  /\ engine' = "wait"
  /\ UNCHANGED <<items, wake, closed, submitter, batch, urgent, history>>

TakeSome(limit) ==
  /\ engine = "take" /\ items # <<>>
  /\ batch' = Take(items, Urgency, limit)
  /\ items' = Without(items, Members(batch'))
  /\ urgent' = {}
  /\ engine' = "hold"
  /\ UNCHANGED <<wake, closed, submitter, history>>

\* Mutant: the walk stops when the batch is full, and what it skipped goes to
\* the end of the queue.
TakeGroupRotates ==
  /\ engine = "take" /\ items # <<>>
  /\ batch' = Group(items, Urgency, Compatible, LimitFor)
  /\ LET last == Position(items, batch'[Len(batch')])
     IN  items' = SubSeq(items, last + 1, Len(items))
                  \o Without(SubSeq(items, 1, last), Members(batch'))
  /\ urgent' = {Seed(items, Urgency)}
  /\ engine' = "hold"
  /\ UNCHANGED <<wake, closed, submitter, history>>

TakeGroup ==
  /\ engine = "take" /\ items # <<>>
  /\ batch' = Group(items, Urgency, Compatible, LimitFor)
  /\ items' = Without(items, Members(batch'))
  /\ urgent' = {Seed(items, Urgency)}
  /\ engine' = "hold"
  /\ UNCHANGED <<wake, closed, submitter, history>>

\* Mutant: what joins the batch stays in the queue.
ExtendGroupKeeps ==
  LET joining == Joining(items, batch, Compatible, LimitFor[batch[1]]) IN
  /\ engine = "hold" /\ urgent # {}
  /\ joining # <<>>
  /\ batch' = batch \o joining
  /\ UNCHANGED <<items, wake, closed, submitter, engine, urgent, history>>

\* The caller computes the limit anew from the first member of its batch.
ExtendGroup ==
  LET joining == Joining(items, batch, Compatible, LimitFor[batch[1]]) IN
  /\ engine = "hold" /\ urgent # {}
  /\ joining # <<>>
  /\ batch' = batch \o joining
  /\ items' = Without(items, Members(joining))
  /\ UNCHANGED <<wake, closed, submitter, engine, urgent, history>>

Serve ==
  /\ engine = "hold"
  /\ served' = served \cup Members(batch)
  /\ batch' = <<>>
  /\ engine' = "take"
  /\ UNCHANGED <<items, wake, closed, submitter, urgent, arrival>>

\* _wake.wait returns because the event is set ...
Woken ==
  /\ engine = "wait" /\ wake
  /\ engine' = "clear"
  /\ UNCHANGED <<items, wake, closed, submitter, batch, urgent, history>>

\* ... or because the timeout is over.
TimedOut ==
  /\ engine = "wait"
  /\ engine' = "clear"
  /\ UNCHANGED <<items, wake, closed, submitter, batch, urgent, history>>

Clear ==
  /\ engine = "clear"
  /\ wake' = FALSE
  /\ engine' = "take"
  /\ UNCHANGED <<items, closed, submitter, batch, urgent, history>>

-----------------------------------------------------------------------------
Submit(r) == Enqueue(r) \/ Signal(r)

\* What the engine thread does of its own accord, its timeouts apart.
Engine ==
  \/ TakeNothing
  \/ \E limit \in 1 .. MaxTake : TakeSome(limit)
  \/ TakeGroup
  \/ ExtendGroup
  \/ Serve
  \/ Woken
  \/ Clear

Next ==
  \/ \E r \in Requests : Submit(r)
  \/ Close \/ CloseSignal
  \/ Engine
  \/ TimedOut

Spec == Init /\ [][Next]_vars

\* Both kinds of thread are scheduled; no timeout is relied on.
FairSpec ==
  /\ Spec
  /\ \A r \in Requests : WF_vars(Signal(r))
  /\ WF_vars(Engine)

-----------------------------------------------------------------------------
\* The engine thread never sleeps on a cleared event while a request waits,
\* unless the thread that appended it has still to set the event: the 5 ms
\* timeout of wait is not what keeps the queue moving.
NoLostWakeup ==
  engine = "wait" /\ items # <<>> /\ ~wake =>
    \E r \in Requests : submitter[r] = "appended"

\* A request that was accepted is in exactly one place: waiting, in the
\* current batch, or served.
Conservation ==
  LET accepted == {r \in Requests : submitter[r] \in {"appended", "done"}} IN
  /\ Len(items) + Len(batch) + Cardinality(served) = Cardinality(accepted)
  /\ Members(items) \cup Members(batch) \cup served = accepted

\* However batches are carved out of it, the queue keeps its order of
\* arrival, on which FIFO among equals rests.
QueueInArrivalOrder ==
  \A i, j \in DOMAIN items :
    i < j => Position(arrival, items[i]) < Position(arrival, items[j])

\* All of a batch may run together with each other, also after the batch has
\* been extended, and it is within the limit of every member.
BatchCompatible ==
  urgent # {} =>
    \A r, s \in Members(batch) :
      /\ r = s \/ <<r, s>> \in Compatible
      /\ Len(batch) <= LimitFor[r] \/ Len(batch) = 1

\* take never passes over a request for a less urgent or younger one.
TakeIsUrgent ==
  [][engine = "take" /\ engine' = "hold" /\ urgent' = {} =>
       \A r \in Members(batch'), s \in Members(items') :
         Before(items, Urgency, r, s)]_vars

\* Every accepted request is taken in the end.
EveryRequestTaken ==
  \A r \in Requests : submitter[r] = "appended" ~> r \in served
=============================================================================
