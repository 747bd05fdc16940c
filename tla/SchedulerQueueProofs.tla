------------------------ MODULE SchedulerQueueProofs ------------------------
(***************************************************************************)
(* SchedulerQueue for any number of submitting threads and requests.       *)
(*                                                                         *)
(* IInv is the wakeup argument: why the timeout of wait() is not needed.   *)
(* QInv is about the requests: each that was accepted is in one place, and *)
(* those that wait are in their order of arrival. What is taken follows    *)
(* from QInv and from what the selections return (QueueFacts).             *)
(***************************************************************************)
EXTENDS SchedulerQueue, QueueFacts

Steps == {"new", "appended", "done", "refused"}

\* NoLostWakeup is inductive by itself, given that submitter is a function.
IInv ==
  /\ submitter \in [Requests -> Steps]
  /\ NoLostWakeup

\* The queue is empty initially.
LEMMA InitIInv == Init => IInv
BY DEF Init, IInv, NoLostWakeup, Steps

\* Between append and set the submitting thread itself is the witness; set
\* makes the event true; and only an engine that has just seen the queue
\* empty goes to wait.
LEMMA NextIInv == IInv /\ [Next]_vars => IInv'
<1> SUFFICES ASSUME IInv, [Next]_vars PROVE IInv'
  OBVIOUS
<1> USE DEF IInv, NoLostWakeup, Steps, history
<1>1. ASSUME NEW r \in Requests, Enqueue(r) PROVE IInv'
  <2>1. submitter' \in [Requests -> Steps]
    BY <1>1 DEF Enqueue
  <2>2. CASE closed
    <3>1. \A s \in Requests : submitter[s] = "appended" => submitter'[s] = "appended"
      BY <1>1, <2>2 DEF Enqueue
    <3>2. QED
      BY <1>1, <2>1, <2>2, <3>1 DEF Enqueue
  <2>3. CASE ~closed
    <3>1. submitter'[r] = "appended"
      BY <1>1, <2>3 DEF Enqueue
    <3>2. QED
      BY <2>1, <3>1
  <2>4. QED
    BY <2>2, <2>3
<1>2. ASSUME NEW r \in Requests, Signal(r) PROVE IInv'
  BY <1>2 DEF Signal
<1>3. CASE Close
  BY <1>3 DEF Close
<1>4. CASE CloseSignal
  BY <1>4 DEF CloseSignal
<1>5. CASE Engine
  <2>1. CASE TakeNothing
    BY <2>1 DEF TakeNothing
  <2>2. ASSUME NEW limit \in 1 .. MaxTake, TakeSome(limit) PROVE IInv'
    BY <2>2 DEF TakeSome
  <2>3. CASE TakeGroup
    BY <2>3 DEF TakeGroup
  <2>4. CASE ExtendGroup
    BY <2>4 DEF ExtendGroup
  <2>5. CASE Serve
    BY <2>5 DEF Serve
  <2>6. CASE Woken
    BY <2>6 DEF Woken
  <2>7. CASE Clear
    BY <2>7 DEF Clear
  <2>8. QED
    BY <1>5, <2>1, <2>2, <2>3, <2>4, <2>5, <2>6, <2>7 DEF Engine
<1>6. CASE TimedOut
  BY <1>6 DEF TimedOut
<1>7. CASE UNCHANGED vars
  BY <1>7 DEF vars
<1>8. QED
  BY <1>1, <1>2, <1>3, <1>4, <1>5, <1>6, <1>7 DEF Next, Submit

\* The engine thread never sleeps on a cleared event while a request waits,
\* unless the thread that appended the request is about to set the event.
THEOREM WakeupsNotLost == Spec => []NoLostWakeup
<1>1. IInv => NoLostWakeup
  BY DEF IInv
<1>2. QED
  BY <1>1, InitIInv, NextIInv, PTL DEF Spec

-----------------------------------------------------------------------------
(* Requests *)

Accepted == {r \in Requests : submitter[r] \in {"appended", "done"}}

Ordered(q, by) == \A i, j \in DOMAIN q : i < j => Position(by, q[i]) < Position(by, q[j])

QInv ==
  /\ wake \in BOOLEAN /\ closed \in BOOLEAN
  /\ submitter \in [Requests -> {"new", "appended", "done", "refused"}]
  /\ engine \in {"take", "wait", "clear", "hold"}
  /\ items \in Seq(Requests) /\ Distinct(items)
  /\ batch \in Seq(Requests) /\ Distinct(batch)
  /\ arrival \in Seq(Requests) /\ Distinct(arrival)
  /\ urgent \subseteq Requests /\ served \subseteq Requests
  /\ Members(arrival) = Accepted
  /\ Members(items) \cup Members(batch) \cup served = Accepted
  /\ Members(items) \cap Members(batch) = {}
  /\ Members(items) \cap served = {}
  /\ Members(batch) \cap served = {}
  /\ engine # "hold" => batch = <<>>
  /\ Ordered(items, arrival)

\* The urgency of requests is a function into the numbers, and so on.
LEMMA Constants ==
  /\ Urgency \in [Requests -> Nat]
  /\ LimitFor \in [Requests -> Int]
  /\ MaxTake \in Nat \ {0}
BY QueueAssumption

\* The queue is empty initially.
LEMMA InitQInv == Init => QInv
<1> SUFFICES ASSUME Init PROVE QInv
  OBVIOUS
<1>1. /\ <<>> \in Seq(Requests) /\ DOMAIN <<>> = {}
  BY EmptySeq
<1>2. Members(<<>>) = {} /\ Distinct(<<>>) /\ Ordered(<<>>, arrival)
  BY <1>1 DEF Members, Distinct, Ordered
<1>3. Accepted = {}
  BY DEF Init, Accepted
<1>4. QED
  BY <1>1, <1>2, <1>3 DEF Init, QInv

\* An element added at the end is behind all others, which keep their places.
LEMMA AppendFacts ==
  ASSUME NEW X, NEW q \in Seq(X), Distinct(q), NEW r \in X, r \notin Members(q)
  PROVE  /\ Append(q, r) \in Seq(X) /\ Distinct(Append(q, r))
         /\ Members(Append(q, r)) = Members(q) \cup {r}
         /\ Len(Append(q, r)) = Len(q) + 1 /\ Len(q) \in Nat
         /\ \A i \in 1 .. Len(q) : Append(q, r)[i] = q[i]
         /\ Append(q, r)[Len(q) + 1] = r
         /\ \A s \in Members(q) :
              Position(Append(q, r), s) = Position(q, s) /\ Position(q, s) \in 1 .. Len(q)
         /\ Position(Append(q, r), r) = Len(q) + 1
<1> DEFINE a == Append(q, r)
<1>1. /\ a \in Seq(X) /\ Len(a) = Len(q) + 1
      /\ \A i \in 1 .. Len(q) : a[i] = q[i]
      /\ a[Len(q) + 1] = r
      /\ Len(q) \in Nat /\ DOMAIN q = 1 .. Len(q)
  BY AppendProperties, LenProperties
<1>2. DOMAIN a = 1 .. Len(q) + 1
  BY <1>1, LenProperties
<1> HIDE DEF a
<1>3. Members(a) = Members(q) \cup {r}
  BY <1>1, <1>2 DEF Members
<1>4. \A i \in 1 .. Len(q) : a[i] # r
  BY <1>1 DEF Members
<1>5. Distinct(a)
  BY <1>1, <1>2, <1>4 DEF Distinct
<1>6. ASSUME NEW s \in Members(q)
      PROVE  Position(a, s) = Position(q, s) /\ Position(q, s) \in 1 .. Len(q)
  <2>1. PICK i \in 1 .. Len(q) : q[i] = s
    BY <1>1 DEF Members
  <2>2. Position(q, s) = i
    BY <1>1, <2>1, PositionFacts
  <2>3. i \in DOMAIN a /\ a[i] = s
    BY <1>1, <1>2, <2>1
  <2>4. Position(a, s) = i
    BY <1>1, <1>5, <2>3, PositionFacts
  <2>5. QED
    BY <2>1, <2>2, <2>4
<1>7. Position(a, r) = Len(q) + 1
  <2>1. Len(q) + 1 \in DOMAIN a
    BY <1>1, <1>2
  <2>2. QED
    BY <1>1, <1>5, <2>1, PositionFacts
<1>8. QED
  BY <1>1, <1>3, <1>5, <1>6, <1>7 DEF a

\* What is taken out of the queue leaves the others in their order.
LEMMA OthersFacts ==
  ASSUME NEW q \in Seq(Requests), Distinct(q), NEW by, Ordered(q, by), NEW C
  PROVE  /\ Without(q, C) \in Seq(Requests) /\ Distinct(Without(q, C))
         /\ Members(Without(q, C)) = Members(q) \ C
         /\ Ordered(Without(q, C), by)
<1> DEFINE S == Members(q) \ C
           t == Keep(q, S)
<1>1. /\ t \in Seq(Requests) /\ Distinct(t) /\ Members(t) = Members(q) \cap S
  BY KeepFacts
<1>2. PICK h : Picks(q, S, Len(q), t, h)
  BY KeepPicks
<1>3. Len(t) \in Nat /\ DOMAIN t = 1 .. Len(t) /\ DOMAIN q = 1 .. Len(q)
  BY <1>1, LenProperties
<1>4. Members(t) = Members(q) \ C
  BY <1>1
<1> HIDE DEF t, S
<1>5. ASSUME NEW i \in 1 .. Len(t), NEW j \in 1 .. Len(t), i < j
      PROVE  Position(by, t[i]) < Position(by, t[j])
  <2>1. h[i] \in DOMAIN q /\ h[j] \in DOMAIN q /\ h[i] < h[j]
    BY <1>2, <1>3, <1>5 DEF Picks
  <2>2. t[i] = q[h[i]] /\ t[j] = q[h[j]]
    BY <1>2 DEF Picks
  <2>3. QED
    BY <2>1, <2>2 DEF Ordered
<1>6. QED
  BY <1>1, <1>3, <1>4, <1>5 DEF Ordered, Without, t, S

\* A request joins the queue at its end, or is refused.
LEMMA EnqueueQInv == ASSUME QInv, NEW r \in Requests, Enqueue(r) PROVE QInv'
<1> USE DEF QInv
<1>1. /\ submitter[r] = "new" /\ UNCHANGED <<wake, closed, engine, batch, urgent, served>>
      /\ submitter' \in [Requests -> {"new", "appended", "done", "refused"}]
  BY DEF Enqueue
<1>2. CASE closed
  <2>1. submitter' = [submitter EXCEPT ![r] = "refused"] /\ UNCHANGED <<items, arrival>>
    BY <1>2 DEF Enqueue
  <2>2. Accepted' = Accepted
    BY <1>1, <2>1 DEF Accepted
  <2>3. QED
    BY <1>1, <2>1, <2>2 DEF Ordered
<1>3. CASE ~ closed
  <2>1. /\ submitter' = [submitter EXCEPT ![r] = "appended"]
        /\ items' = Append(items, r) /\ arrival' = Append(arrival, r)
    BY <1>3 DEF Enqueue
  <2>2. Accepted' = Accepted \cup {r} /\ r \notin Accepted
    BY <1>1, <2>1 DEF Accepted
  <2>3. r \notin Members(arrival) /\ r \notin Members(items)
    BY <2>2
  <2>4. /\ items' \in Seq(Requests) /\ Distinct(items')
        /\ Members(items') = Members(items) \cup {r}
        /\ Len(items') = Len(items) + 1 /\ Len(items) \in Nat
        /\ \A i \in 1 .. Len(items) : items'[i] = items[i]
        /\ items'[Len(items) + 1] = r
    BY <2>1, <2>3, AppendFacts
  <2>5. /\ arrival' \in Seq(Requests) /\ Distinct(arrival')
        /\ Members(arrival') = Members(arrival) \cup {r}
        /\ Len(arrival) \in Nat
        /\ \A s \in Members(arrival) :
             Position(arrival', s) = Position(arrival, s)
             /\ Position(arrival, s) \in 1 .. Len(arrival)
        /\ Position(arrival', r) = Len(arrival) + 1
    BY <2>1, <2>3, AppendFacts
  <2>6. Ordered(items', arrival')
    <3>1. DOMAIN items' = 1 .. Len(items) + 1 /\ DOMAIN items = 1 .. Len(items)
      BY <2>4, LenProperties
    <3> SUFFICES ASSUME NEW i \in 1 .. Len(items) + 1, NEW j \in 1 .. Len(items) + 1, i < j
                 PROVE  Position(arrival', items'[i]) < Position(arrival', items'[j])
      BY <3>1 DEF Ordered
    <3>2. i \in DOMAIN items /\ items'[i] = items[i] /\ items[i] \in Members(items)
      BY <2>4, <3>1, SMTT(30) DEF Members
    <3>3. items[i] \in Members(arrival)
      BY <3>2
    <3>4. Position(arrival', items'[i]) = Position(arrival, items[i])
          /\ Position(arrival, items[i]) \in 1 .. Len(arrival)
      BY <2>5, <3>2, <3>3
    <3>5. CASE j = Len(items) + 1
      <4>1. Position(arrival', items'[j]) = Len(arrival) + 1
        BY <2>4, <2>5, <3>5
      <4>2. QED
        BY <2>5, <3>4, <4>1
    <3>6. CASE j # Len(items) + 1
      <4>1. j \in 1 .. Len(items)
        <5> HIDE DEF QInv
        <5>1. Len(items) \in Nat
          BY <2>4
        <5>2. QED
          BY <3>6, <5>1
      <4>2. j \in DOMAIN items /\ items'[j] = items[j] /\ items[j] \in Members(items)
        <5>1. j \in DOMAIN items /\ items'[j] = items[j]
          BY <2>4, <3>1, <4>1
        <5>2. QED
          BY <5>1 DEF Members
      <4>3. Position(arrival', items'[j]) = Position(arrival, items[j])
        BY <2>5, <4>2
      <4>4. Position(arrival, items[i]) < Position(arrival, items[j])
        BY <3>2, <4>2 DEF Ordered
      <4>5. QED
        BY <3>4, <4>3, <4>4
    <3>7. QED
      BY <3>5, <3>6
  <2>7. Members(batch') = Members(batch)
    BY <1>1
  <2>8. QED
    BY <1>1, <2>2, <2>4, <2>5, <2>6, <2>7
<1>4. QED
  BY <1>2, <1>3

\* A batch is taken out of the queue by an engine that has none.
LEMMA TakenQInv ==
  ASSUME QInv, engine = "take",
         batch' \in Seq(Requests), Distinct(batch'), Members(batch') \subseteq Members(items),
         items' = Without(items, Members(batch')), urgent' \subseteq Requests,
         engine' = "hold", UNCHANGED <<wake, closed, submitter, history>>
  PROVE  QInv'
<1> USE DEF QInv
<1>1. UNCHANGED <<served, arrival>>
  BY DEF history
<1>2. /\ items' \in Seq(Requests) /\ Distinct(items')
      /\ Members(items') = Members(items) \ Members(batch')
      /\ Ordered(items', arrival)
  BY OthersFacts
<1>3. Members(batch) = {}
  <2>1. batch = <<>>
    OBVIOUS
  <2>2. QED
    BY <2>1, EmptySeq DEF Members
<1>4. Accepted' = Accepted
  BY DEF Accepted
<1>5. Members(items') \cup Members(batch') \cup served' = Accepted'
  BY <1>1, <1>2, <1>3, <1>4
<1>6. /\ Members(items') \cap Members(batch') = {}
      /\ Members(items') \cap served' = {}
      /\ Members(batch') \cap served' = {}
  BY <1>1, <1>2
<1>7. QED
  BY <1>1, <1>2, <1>4, <1>5, <1>6

\* take: the most urgent ones.
LEMMA TakeSomeFacts ==
  ASSUME QInv, NEW limit \in 1 .. MaxTake, TakeSome(limit)
  PROVE  /\ QInv'
         /\ \A r \in Members(batch'), s \in Members(items') :
              Before(items, Urgency, r, s)
<1> USE DEF QInv
<1>1. /\ batch' = Take(items, Urgency, limit)
      /\ items' = Without(items, Members(batch'))
      /\ urgent' = {} /\ engine = "take" /\ engine' = "hold"
      /\ UNCHANGED <<wake, closed, submitter, history>>
  BY DEF TakeSome
<1>2. limit \in Nat
  BY Constants
<1>3. /\ batch' \in Seq(Requests) /\ Distinct(batch')
      /\ Members(batch') = Chosen(items, Urgency, limit)
      /\ Chosen(items, Urgency, limit) \subseteq Members(items)
      /\ \A r \in Chosen(items, Urgency, limit),
            s \in Members(items) \ Chosen(items, Urgency, limit) :
           Before(items, Urgency, r, s)
  BY <1>1, <1>2, Constants, TakeFacts, SMTT(30)
<1>4. QInv'
  BY <1>1, <1>3, TakenQInv
<1>5. Members(items') = Members(items) \ Members(batch')
  BY <1>1, OthersFacts
<1>6. QED
  BY <1>3, <1>4, <1>5

\* take_group: the seed and its peers.
LEMMA TakeGroupFacts ==
  ASSUME QInv, TakeGroup
  PROVE  /\ QInv' /\ batch' # <<>> /\ batch' \in Seq(Requests)
         /\ \E seed \in Requests :
              /\ \A r \in Members(batch') : r = seed \/ <<seed, r>> \in Compatible
              /\ Len(batch') <= 1 \/ Len(batch') <= LimitFor[seed]
<1> USE DEF QInv
<1>1. /\ batch' = Group(items, Urgency, Compatible, LimitFor)
      /\ items' = Without(items, Members(batch')) /\ items # <<>>
      /\ urgent' = {Seed(items, Urgency)} /\ engine = "take" /\ engine' = "hold"
      /\ UNCHANGED <<wake, closed, submitter, history>>
  BY DEF TakeGroup
<1>2. /\ Seed(items, Urgency) \in Requests
      /\ batch' \in Seq(Requests) /\ Distinct(batch') /\ batch' # <<>>
      /\ Members(batch') \subseteq Members(items)
      /\ \A r \in Members(batch') :
           r = Seed(items, Urgency) \/ <<Seed(items, Urgency), r>> \in Compatible
      /\ Len(batch') <= 1 \/ Len(batch') <= LimitFor[Seed(items, Urgency)]
  BY <1>1, Constants, GroupFacts
<1>3. QInv'
  BY <1>1, <1>2, TakenQInv
<1>4. QED
  BY <1>2, <1>3

\* extend_group: peers of the first one join.
LEMMA ExtendGroupFacts ==
  ASSUME QInv, ExtendGroup
  PROVE  /\ QInv' /\ urgent' = urgent /\ urgent # {}
         /\ \E joining \in Seq(Requests) :
              /\ Members(batch') = Members(batch) \cup Members(joining)
              /\ Len(batch') = Len(batch) + Len(joining)
              /\ batch # <<>>
              /\ \A r \in Members(joining) : <<batch[1], r>> \in Compatible
              /\ Len(batch) + Len(joining) <= LimitFor[batch[1]]
<1> USE DEF QInv
<1> DEFINE joining == Joining(items, batch, Compatible, LimitFor[batch[1]])
<1>1. /\ joining # <<>> /\ engine = "hold" /\ urgent # {}
      /\ batch' = batch \o joining
      /\ items' = Without(items, Members(joining))
      /\ UNCHANGED <<wake, closed, submitter, engine, urgent, history>>
  BY DEF ExtendGroup
<1>2. batch # <<>>
  BY <1>1 DEF Joining
<1>3. batch[1] \in Requests /\ LimitFor[batch[1]] \in Int
  <2>1. 1 \in 1 .. Len(batch)
    BY <1>2, LenProperties, EmptySeq
  <2>2. batch[1] \in Requests
    BY <2>1, ElementOfSeq
  <2>3. QED
    BY <2>2, Constants
<1>4. /\ joining \in Seq(Requests) /\ Distinct(joining)
      /\ Members(joining) \subseteq Members(items)
      /\ \A r \in Members(joining) : <<batch[1], r>> \in Compatible
      /\ Len(batch) + Len(joining) <= LimitFor[batch[1]]
  BY <1>1, <1>3, JoiningFacts
<1> HIDE DEF joining
<1>5. /\ batch' \in Seq(Requests) /\ Len(batch') = Len(batch) + Len(joining)
      /\ Members(batch') = Members(batch) \cup Members(joining)
      /\ Distinct(batch')
  <2>1. Members(batch) \cap Members(joining) = {}
    BY <1>4
  <2>2. QED
    BY <1>1, <1>4, <2>1, JoinedFacts
<1>6. /\ items' \in Seq(Requests) /\ Distinct(items')
      /\ Members(items') = Members(items) \ Members(joining)
      /\ Ordered(items', arrival)
  BY <1>1, OthersFacts
<1>7. UNCHANGED <<served, arrival>>
  BY <1>1 DEF history
<1>8. Accepted' = Accepted
  BY <1>1 DEF Accepted
<1>9. /\ Members(items') \cup Members(batch') \cup served' = Accepted'
      /\ Members(items') \cap Members(batch') = {}
      /\ Members(items') \cap served' = {}
      /\ Members(batch') \cap served' = {}
  BY <1>4, <1>5, <1>6, <1>7, <1>8
<1>10. QInv'
  BY <1>1, <1>5, <1>6, <1>7, <1>8, <1>9
<1>11. QED
  BY <1>1, <1>2, <1>4, <1>5, <1>10

\* QInv is inductive.
LEMMA NextQInv == QInv /\ [Next]_vars => QInv'
<1> SUFFICES ASSUME QInv, [Next]_vars PROVE QInv'
  OBVIOUS
<1>1. ASSUME NEW r \in Requests, Enqueue(r) PROVE QInv'
  BY <1>1, EnqueueQInv
<1>2. ASSUME NEW r \in Requests, Signal(r) PROVE QInv'
  <2>1. Accepted' = Accepted
    BY <1>2 DEF QInv, Signal, Accepted
  <2>2. QED
    BY <1>2, <2>1 DEF QInv, Signal, history
<1>3. ASSUME UNCHANGED <<items, submitter, batch, urgent, served, arrival>>,
             wake' \in BOOLEAN, closed' \in BOOLEAN,
             engine' \in {"take", "wait", "clear", "hold"},
             engine' # "hold" => engine # "hold"
      PROVE  QInv'
  BY <1>3 DEF QInv, Accepted
<1>4. CASE Close \/ CloseSignal \/ TakeNothing \/ Woken \/ TimedOut \/ Clear \/ UNCHANGED vars
  <2>1. /\ UNCHANGED <<items, submitter, batch, urgent, served, arrival>>
        /\ wake' \in BOOLEAN /\ closed' \in BOOLEAN
        /\ engine' \in {"take", "wait", "clear", "hold"}
        /\ engine' # "hold" => engine # "hold"
    BY <1>4 DEF QInv, Close, CloseSignal, TakeNothing, Woken, TimedOut, Clear, vars, history
  <2>2. QED
    BY <1>3, <2>1
<1>5. ASSUME NEW limit \in 1 .. MaxTake, TakeSome(limit) PROVE QInv'
  BY <1>5, TakeSomeFacts
<1>6. CASE TakeGroup
  BY <1>6, TakeGroupFacts
<1>7. CASE ExtendGroup
  BY <1>7, ExtendGroupFacts
<1>8. CASE Serve
  <2>1. /\ served' = served \cup Members(batch) /\ batch' = <<>> /\ engine' = "take"
        /\ UNCHANGED <<items, wake, closed, submitter, urgent, arrival>>
    BY <1>8 DEF Serve
  <2>2. /\ <<>> \in Seq(Requests) /\ Members(<<>>) = {} /\ Distinct(<<>>)
    BY EmptySeq DEF Members, Distinct
  <2>3. Accepted' = Accepted
    BY <2>1 DEF Accepted
  <2>4. Members(batch) \subseteq Requests
    BY MembersFacts DEF QInv
  <2>5. Members(batch') = {} /\ batch' \in Seq(Requests) /\ Distinct(batch')
    BY <2>1, <2>2
  <2>6. /\ Members(items') \cup Members(batch') \cup served' = Accepted'
        /\ Members(items') \cap Members(batch') = {}
        /\ Members(items') \cap served' = {}
        /\ Members(batch') \cap served' = {}
    BY <2>1, <2>3, <2>5 DEF QInv
  <2>7. QED
    BY <2>1, <2>3, <2>4, <2>5, <2>6 DEF QInv
<1>9. QED
  BY <1>1, <1>2, <1>4, <1>5, <1>6, <1>7, <1>8 DEF Next, Submit, Engine

\* The requests are always accounted for.
LEMMA QInvAlways == Spec => []QInv
BY InitQInv, NextQInv, PTL DEF Spec

\* The types of SchedulerQueue: the queue and the batch hold a request once.
THEOREM QueueTypes == Spec => []TypeOK
<1>1. QInv => TypeOK
  BY DEF QInv, TypeOK
<1>2. QED
  BY <1>1, QInvAlways, PTL

\* However its requests are carved into batches, the queue stays in the order
\* in which they were appended.
THEOREM ArrivalOrderKept == Spec => []QueueInArrivalOrder
<1>1. QInv => QueueInArrivalOrder
  BY DEF QInv, QueueInArrivalOrder, Ordered
<1>2. QED
  BY <1>1, QInvAlways, PTL

\* No request that was accepted is lost or served twice: it waits, or is in the
\* batch, or has been served.
THEOREM RequestsConserved == Spec => []Conservation
<1>1. QInv => Conservation
  <2> SUFFICES ASSUME QInv PROVE Conservation
    OBVIOUS
  <2> USE DEF QInv
  <2>1. /\ IsFiniteSet(Members(items)) /\ Cardinality(Members(items)) = Len(items)
        /\ IsFiniteSet(Members(batch)) /\ Cardinality(Members(batch)) = Len(batch)
        /\ Len(items) \in Nat /\ Len(batch) \in Nat
    BY DistinctCounts
  <2>2. IsFiniteSet(served) /\ Cardinality(served) \in Nat
    BY QueueAssumption, FS_Subset, FS_CardinalityType
  <2>3. Cardinality({}) = 0
    BY FS_EmptySet
  <2>4. LET held == Members(items) \cup Members(batch)
        IN  IsFiniteSet(held) /\ Cardinality(held) = Len(items) + Len(batch)
    <3>1. /\ IsFiniteSet(Members(items) \cup Members(batch))
          /\ Cardinality(Members(items) \cup Members(batch))
               = Cardinality(Members(items)) + Cardinality(Members(batch))
                   - Cardinality(Members(items) \cap Members(batch))
      BY <2>1, FS_Union
    <3>2. Cardinality(Members(items) \cap Members(batch)) = 0
      BY <2>3
    <3>3. QED
      BY <2>1, <3>1, <3>2
  <2>5. Cardinality(Accepted) = Len(items) + Len(batch) + Cardinality(served)
    <3> DEFINE held == Members(items) \cup Members(batch)
    <3>1. held \cap served = {} /\ held \cup served = Accepted
      OBVIOUS
    <3>2. IsFiniteSet(held) /\ Cardinality(held) = Len(items) + Len(batch)
      BY <2>4
    <3> HIDE DEF held
    <3>3. Cardinality(held \cup served)
            = Cardinality(held) + Cardinality(served) - Cardinality(held \cap served)
      BY <2>2, <3>2, FS_Union
    <3>4. Cardinality(held \cap served) = 0
      BY <2>3, <3>1
    <3>5. Cardinality(Accepted) = Cardinality(held \cup served)
      BY <3>1, Zenon
    <3>6. Cardinality(held) \in Nat
      BY <2>1, <3>2
    <3>7. Cardinality(Accepted) = Cardinality(held) + Cardinality(served) - 0
      BY <3>3, <3>4, <3>5, Zenon
    <3>8. QED
      BY <2>2, <3>2, <3>6, <3>7
  <2>6. QED
    BY <2>5 DEF Conservation, Accepted
<1>2. QED
  BY <1>1, QInvAlways, PTL

\* take never passes over a request for a less urgent or a younger one.
THEOREM TakeAlwaysUrgent == Spec => TakeIsUrgent
<1> DEFINE Urgently ==
      engine = "take" /\ engine' = "hold" /\ urgent' = {} =>
        \A r \in Members(batch'), s \in Members(items') : Before(items, Urgency, r, s)
<1>1. QInv /\ [Next]_vars => [Urgently]_vars
  <2> SUFFICES ASSUME QInv, Next, engine = "take", engine' = "hold", urgent' = {}
               PROVE  \A r \in Members(batch'), s \in Members(items') :
                        Before(items, Urgency, r, s)
    OBVIOUS
  <2>1. ~ TakeGroup
    BY DEF TakeGroup
  <2>2. PICK limit \in 1 .. MaxTake : TakeSome(limit)
    BY <2>1 DEF Next, Submit, Engine, Enqueue, Signal, Close, CloseSignal, TakeNothing,
                ExtendGroup, Serve, Woken, TimedOut, Clear
  <2>3. QED
    BY <2>2, TakeSomeFacts
<1>2. QED
  BY <1>1, QInvAlways, PTL DEF Spec, TakeIsUrgent

-----------------------------------------------------------------------------
(* Batches that run together *)

\* What the worker's compatible and limit_for are: equality of a shape that the
\* limit is a part of (kokoro_app.py:131-142).
SharedShape ==
  \E shape : \A r, s \in Requests :
    /\ <<r, s>> \in Compatible <=> shape[r] = shape[s]
    /\ shape[r] = shape[s] => LimitFor[r] = LimitFor[s]

\* All requests of a set have the shape of one of them, whose limit they keep.
LEMMA AlikeFacts ==
  ASSUME SharedShape, NEW S, S \subseteq Requests, NEW seed \in Requests, NEW n,
         \A r \in S : r = seed \/ <<seed, r>> \in Compatible,
         n <= LimitFor[seed] \/ n = 1
  PROVE  \A r, s \in S : /\ r = s \/ <<r, s>> \in Compatible
                         /\ n <= LimitFor[r] \/ n = 1
<1>1. PICK shape : \A r, s \in Requests :
                     /\ <<r, s>> \in Compatible <=> shape[r] = shape[s]
                     /\ shape[r] = shape[s] => LimitFor[r] = LimitFor[s]
  BY DEF SharedShape
<1>2. \A r \in S : shape[r] = shape[seed] /\ LimitFor[r] = LimitFor[seed]
  BY <1>1
<1>3. QED
  BY <1>1, <1>2

\* A group is of one shape when it is taken, and what joins it has that shape.
LEMMA NextCompatible ==
  ASSUME SharedShape, QInv, QInv', BatchCompatible, [Next]_vars
  PROVE  BatchCompatible'
<1> SUFFICES ASSUME urgent' # {}
             PROVE  \A r, s \in Members(batch') :
                      /\ r = s \/ <<r, s>> \in Compatible
                      /\ Len(batch') <= LimitFor[r] \/ Len(batch') = 1
  BY DEF BatchCompatible
<1>1. CASE TakeGroup
  <2>1. PICK seed \in Requests :
          /\ \A r \in Members(batch') : r = seed \/ <<seed, r>> \in Compatible
          /\ Len(batch') <= 1 \/ Len(batch') <= LimitFor[seed]
    BY <1>1, TakeGroupFacts
  <2>2. batch' \in Seq(Requests) /\ batch' # <<>>
    BY <1>1, TakeGroupFacts
  <2>3. Len(batch') \in Nat /\ Len(batch') # 0
    BY <2>2, LenProperties, EmptySeq
  <2>4. Len(batch') <= LimitFor[seed] \/ Len(batch') = 1
    <3>1. ASSUME Len(batch') <= 1 PROVE Len(batch') = 1
      BY <2>3, <3>1
    <3>2. QED
      BY <2>1, <3>1, Zenon
  <2>5. Members(batch') \subseteq Requests
    BY <2>2, MembersFacts
  <2>6. QED
    BY <2>1, <2>4, <2>5, AlikeFacts
<1>2. CASE ExtendGroup
  <2>1. PICK joining \in Seq(Requests) :
              /\ Members(batch') = Members(batch) \cup Members(joining)
              /\ Len(batch') = Len(batch) + Len(joining)
              /\ batch # <<>>
              /\ \A r \in Members(joining) : <<batch[1], r>> \in Compatible
              /\ Len(batch) + Len(joining) <= LimitFor[batch[1]]
    BY <1>2, ExtendGroupFacts
  <2>2. urgent # {}
    BY <1>2, ExtendGroupFacts
  <2>3. batch[1] \in Members(batch) /\ Members(batch) \subseteq Requests
    <3>1. 1 \in DOMAIN batch
      BY <2>1, LenProperties, EmptySeq DEF QInv
    <3>2. QED
      BY <3>1, MembersFacts DEF QInv, Members
  <2>4. \A r \in Members(batch) : r = batch[1] \/ <<batch[1], r>> \in Compatible
    BY <2>2, <2>3 DEF BatchCompatible
  <2>5. \A r \in Members(batch') : r = batch[1] \/ <<batch[1], r>> \in Compatible
    BY <2>1, <2>4
  <2>6. Members(batch') \subseteq Requests
    BY MembersFacts DEF QInv
  <2>7. Len(batch') <= LimitFor[batch[1]]
    BY <2>1
  <2>8. QED
    BY <2>3, <2>5, <2>6, <2>7, AlikeFacts
<1>3. CASE Serve
  <2>1. Members(batch') = {}
    BY <1>3, EmptySeq DEF Serve, Members
  <2>2. QED
    BY <2>1
<1>4. CASE UNCHANGED <<batch, urgent>>
  <2>1. batch' = batch /\ urgent' = urgent
    BY <1>4
  <2>2. QED
    BY <2>1 DEF BatchCompatible
<1>5. \/ TakeGroup \/ ExtendGroup \/ Serve \/ UNCHANGED <<batch, urgent>>
  BY DEF Next, Submit, Engine, Enqueue, Signal, Close, CloseSignal, TakeNothing, TakeSome,
         Woken, TimedOut, Clear, vars
<1>6. QED
  BY <1>1, <1>2, <1>3, <1>4, <1>5

\* The requests of a batch may run with each other, also with those that joined
\* later, and are no more than any of them allows.
THEOREM BatchesCompatible ==
  ASSUME SharedShape
  PROVE  Spec => []BatchCompatible
<1>1. Init => BatchCompatible
  BY DEF Init, BatchCompatible
<1>2. QInv /\ QInv' /\ BatchCompatible /\ [Next]_vars => BatchCompatible'
  BY NextCompatible
<1>3. QED
  BY <1>1, <1>2, QInvAlways, PTL DEF Spec
=============================================================================
