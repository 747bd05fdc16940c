---------------------------- MODULE RouterProofs ----------------------------
(***************************************************************************)
(* Proofs about Router for any number of shards, clients, workers and      *)
(* operators.                                                              *)
(*                                                                         *)
(* The inductive invariant IInv is written over the four values a step of  *)
(* acquire and release touches, passed as parameters: a stress worker      *)
(* releases and acquires in one step, so the state between the two is not  *)
(* a state of the specification and has to be named to be reasoned about.  *)
(***************************************************************************)
EXTENDS Router, FiniteSetTheorems, TLAPS

\* The counters act count the tasks that hold a shard according to sh.
Counted(act, sh) ==
  \A s \in Shards : act[s] = Cardinality({t \in Tasks : sh[t] = s})

Bounded(act) == \A s \in Shards : act[s] <= Capacity[s]

Reserved(sh) ==
  \A s \in Shards : Cardinality({w \in Workers : sh[w] = s}) < Capacity[s]

Notified(act, p, sup) ==
  \A t \in Tasks : p[t] = "waiting" => Choices(act, sup[t], Reserve(t)) = {}

\* A task holds a shard exactly where its code is between acquire and release.
Located(p, sh) ==
  /\ \A c \in Clients : p[c] \in ClientPC
  /\ \A w \in Workers : p[w] \in WorkerPC
  /\ \A t \in Tasks : (sh[t] # NoShard) <=> (p[t] \in HoldingPC)

Typed(act, p, sh, sup) ==
  /\ act \in [Shards -> Nat]
  /\ p \in [Tasks -> ClientPC \cup WorkerPC]
  /\ sh \in [Tasks -> Shards \cup {NoShard}]
  /\ sup \in [Tasks -> SUBSET Shards]

Core(act, p, sh, sup) ==
  /\ Typed(act, p, sh, sup)
  /\ Counted(act, sh)
  /\ Bounded(act)
  /\ Reserved(sh)
  /\ Notified(act, p, sup)
  /\ Located(p, sh)

IInv == Core(active, pc, shard, supported)

-----------------------------------------------------------------------------
\* Any set of tasks is finite, so its cardinality is a number.
LEMMA TasksFinite ==
  /\ IsFiniteSet(Tasks)
  /\ \A S \in SUBSET Tasks : IsFiniteSet(S) /\ Cardinality(S) \in Nat
<1>1. IsFiniteSet(Tasks)
  BY TasksAssumption, FS_Union DEF Tasks
<1>2. ASSUME NEW S \in SUBSET Tasks
      PROVE  IsFiniteSet(S) /\ Cardinality(S) \in Nat
  BY <1>1, FS_Subset, FS_CardinalityType
<1>3. QED
  BY <1>1, <1>2

\* NoShard is not a shard.
LEMMA ShardsAreNat == Shards \subseteq Nat \ {NoShard}
BY ShardsAssumption DEF Shards, NoShard

\* The background holders of a shard are among its holders.
LEMMA BackgroundBound ==
  ASSUME NEW act, NEW sh, Counted(act, sh), NEW s \in Shards
  PROVE  Cardinality({w \in Workers : sh[w] = s}) <= act[s]
<1> DEFINE B == {w \in Workers : sh[w] = s}
           H == {t \in Tasks : sh[t] = s}
<1>1. B \in SUBSET H /\ H \in SUBSET Tasks
  BY DEF Tasks
<1>2. Cardinality(B) <= Cardinality(H)
  BY <1>1, TasksFinite, FS_Subset
<1>3. QED
  BY <1>2 DEF Counted

-----------------------------------------------------------------------------
\* Giving a shard back: counters, notification and program counter together.
LEMMA ReleaseCore ==
  ASSUME IInv, NEW t \in Tasks, shard[t] \in Shards,
         NEW q, q \notin HoldingPC, q # "waiting",
         t \in Clients => q \in ClientPC, t \in Workers => q \in WorkerPC
  PROVE  Core(Released(shard[t]), [NotifyAll EXCEPT ![t] = q],
              [shard EXCEPT ![t] = NoShard], supported)
<1> DEFINE a == Released(shard[t])
           p == [NotifyAll EXCEPT ![t] = q]
           h == [shard EXCEPT ![t] = NoShard]
           H(s) == {u \in Tasks : shard[u] = s}
           G(s) == {u \in Tasks : h[u] = s}
<1> USE DEF IInv, Core
<1>1. \A s \in Shards : G(s) = IF s = shard[t] THEN H(s) \ {t} ELSE H(s)
  BY ShardsAreNat DEF Typed
<1>2. \A s \in Shards : IsFiniteSet(H(s)) /\ Cardinality(H(s)) \in Nat
  BY TasksFinite
<1>3. \A s \in Shards : active[s] = Cardinality(H(s))
  BY DEF Counted
<1>4. Cardinality(H(shard[t]) \ {t}) = active[shard[t]] - 1
  BY <1>2, <1>3, FS_RemoveElement
<1>5. active[shard[t]] # 0
  <2>1. t \in H(shard[t])
    OBVIOUS
  <2>2. QED
    BY <2>1, <1>2, <1>3, FS_EmptySet
<1>6. Typed(a, p, h, supported)
  <2>1. a \in [Shards -> Nat]
    BY <1>5 DEF Typed, Released
  <2>2. p \in [Tasks -> ClientPC \cup WorkerPC]
    BY DEF Typed, NotifyAll, ClientPC, WorkerPC, Tasks
  <2>3. QED
    BY <2>1, <2>2 DEF Typed
<1>7. Counted(a, h)
  <2> SUFFICES ASSUME NEW s \in Shards PROVE a[s] = Cardinality(G(s))
    BY DEF Counted
  <2>1. CASE s = shard[t]
    BY <2>1, <1>1, <1>4 DEF Released, Typed
  <2>2. CASE s # shard[t]
    BY <2>2, <1>1, <1>3 DEF Released, Typed
  <2>3. QED
    BY <2>1, <2>2
<1>8. Bounded(a)
  BY ShardsAssumption DEF Bounded, Released, Typed
<1>9. Reserved(h)
  <2> SUFFICES ASSUME NEW s \in Shards
               PROVE  Cardinality({w \in Workers : h[w] = s}) < Capacity[s]
    BY DEF Reserved
  <2> DEFINE B == {w \in Workers : shard[w] = s}
             C == {w \in Workers : h[w] = s}
  <2>1. C \in SUBSET B /\ B \in SUBSET Tasks
    BY ShardsAreNat DEF Typed, Tasks
  <2>2. Cardinality(C) <= Cardinality(B)
    BY <2>1, TasksFinite, FS_Subset
  <2>3. Cardinality(B) < Capacity[s] /\ Cardinality(B) \in Nat /\ Cardinality(C) \in Nat
    BY <2>1, TasksFinite DEF Reserved
  <2>4. QED
    BY <2>2, <2>3, ShardsAssumption
<1>10. Notified(a, p, supported)
  BY DEF Notified, NotifyAll, Typed
<1>11. Located(p, h)
  BY DEF Located, NotifyAll, Typed, HoldingPC, ClientPC, WorkerPC, Tasks
<1>12. QED
  BY <1>6, <1>7, <1>8, <1>9, <1>10, <1>11

\* wait_for's predicate is false: the task waits.
LEMMA WaitCore ==
  ASSUME NEW a, NEW p, NEW h, NEW sup, Core(a, p, h, sup),
         NEW t \in Tasks, h[t] = NoShard, NEW among \in SUBSET Shards,
         Choices(a, among, Reserve(t)) = {}
  PROVE  Core(a, [p EXCEPT ![t] = "waiting"], h, [sup EXCEPT ![t] = among])
<1> DEFINE p2 == [p EXCEPT ![t] = "waiting"]
           sup2 == [sup EXCEPT ![t] = among]
<1> USE DEF Core
<1>1. Typed(a, p2, h, sup2)
  BY DEF Typed, ClientPC, WorkerPC
<1>2. Notified(a, p2, sup2)
  BY DEF Notified, Typed
<1>3. Located(p2, h)
  BY DEF Located, Typed, HoldingPC, ClientPC, WorkerPC, Tasks
<1>4. QED
  BY <1>1, <1>2, <1>3

\* It is true: the task takes a slot of a shard that has room for it.
LEMMA TakeCore ==
  ASSUME NEW a, NEW p, NEW h, NEW sup, Core(a, p, h, sup),
         NEW t \in Tasks, h[t] = NoShard, NEW among \in SUBSET Shards,
         NEW s \in Choices(a, among, Reserve(t))
  PROVE  Core([a EXCEPT ![s] = @ + 1], [p EXCEPT ![t] = "posting"],
              [h EXCEPT ![t] = s], [sup EXCEPT ![t] = among])
<1> DEFINE a2 == [a EXCEPT ![s] = @ + 1]
           p2 == [p EXCEPT ![t] = "posting"]
           h2 == [h EXCEPT ![t] = s]
           sup2 == [sup EXCEPT ![t] = among]
<1> USE DEF Core
<1> DEFINE H(u) == {v \in Tasks : h[v] = u}
           G(u) == {v \in Tasks : h2[v] = u}
<1>1. s \in Shards /\ a[s] < Capacity[s] - Reserve(t) /\ Reserve(t) \in {0, 1}
  BY DEF Choices, Reserve
<1>2. Typed(a2, p2, h2, sup2)
  BY <1>1 DEF Typed, ClientPC, WorkerPC
<1>3. Counted(a2, h2)
  <2> SUFFICES ASSUME NEW u \in Shards PROVE a2[u] = Cardinality(G(u))
    BY DEF Counted
  <2>1. G(u) = IF u = s THEN H(u) \cup {t} ELSE H(u)
    BY <1>1, ShardsAreNat DEF Typed
  <2>2. IsFiniteSet(H(u)) /\ t \notin H(u) /\ a[u] = Cardinality(H(u))
    BY TasksFinite, ShardsAreNat DEF Counted
  <2>3. Cardinality(H(u) \cup {t}) = Cardinality(H(u)) + 1
    BY <2>2, FS_AddElement
  <2>4. QED
    BY <1>1, <2>1, <2>2, <2>3 DEF Typed
<1>4. Bounded(a2) /\ a2[s] + Reserve(t) <= Capacity[s]
  <2>1. a2[s] = a[s] + 1 /\ a[s] \in Nat
    BY <1>1 DEF Typed
  <2>2. Capacity[s] \in Nat
    BY <1>1, ShardsAssumption
  <2>3. a2[s] + Reserve(t) <= Capacity[s]
    BY <1>1, <2>1, <2>2
  <2>4. ASSUME NEW u \in Shards PROVE a2[u] <= Capacity[u]
    <3>1. CASE u = s
      BY <1>1, <2>1, <2>2, <2>3, <3>1
    <3>2. CASE u # s
      BY <3>2 DEF Bounded, Typed
    <3>3. QED
      BY <3>1, <3>2
  <2>5. QED
    BY <2>3, <2>4 DEF Bounded
<1>5. Reserved(h2)
  <2> SUFFICES ASSUME NEW u \in Shards
               PROVE  Cardinality({w \in Workers : h2[w] = u}) < Capacity[u]
    BY DEF Reserved
  <2> DEFINE B == {w \in Workers : h[w] = u}
             C == {w \in Workers : h2[w] = u}
  <2>1. CASE u = s /\ t \in Workers
    <3>1. a2[s] < Capacity[s] /\ a2[s] \in Nat /\ Capacity[s] \in Nat
      BY <1>1, <1>2, <1>4, <2>1, ShardsAssumption DEF Typed, Reserve
    <3>2. Cardinality(C) <= a2[s]
      BY <1>3, <2>1, BackgroundBound
    <3>3. Cardinality(C) \in Nat
      BY TasksFinite DEF Tasks
    <3>4. QED
      BY <2>1, <3>1, <3>2, <3>3
  <2>2. CASE ~(u = s /\ t \in Workers)
    <3>1. C = B
      BY <1>1, <2>2, ShardsAreNat DEF Typed, Tasks
    <3>2. QED
      BY <3>1 DEF Reserved
  <2>3. QED
    BY <2>1, <2>2
<1>6. Notified(a2, p2, sup2)
  <2> SUFFICES ASSUME NEW v \in Tasks, p2[v] = "waiting",
                      NEW u \in Choices(a2, sup2[v], Reserve(v))
               PROVE  FALSE
    BY DEF Notified
  <2>1. v # t /\ p[v] = "waiting" /\ sup2[v] = sup[v] /\ sup[v] \in SUBSET Shards
    BY DEF Typed
  <2>2. u \in Shards /\ u \in sup[v] /\ a2[u] < Capacity[u] - Reserve(v)
    BY <2>1 DEF Choices
  <2>3. a[u] <= a2[u]
    BY <1>1, <2>2 DEF Typed
  <2>4. a[u] \in Nat /\ a2[u] \in Nat /\ Capacity[u] \in Nat /\ Reserve(v) \in Nat
    BY <1>2, <2>2, ShardsAssumption DEF Typed, Reserve
  <2>5. u \in Choices(a, sup[v], Reserve(v))
    BY <2>2, <2>3, <2>4 DEF Choices
  <2>6. QED
    BY <2>1, <2>5 DEF Notified
<1>7. Located(p2, h2)
  BY <1>1, ShardsAreNat DEF Located, Typed, HoldingPC, ClientPC, WorkerPC, Tasks
<1>8. QED
  BY <1>2, <1>3, <1>4, <1>5, <1>6, <1>7
-----------------------------------------------------------------------------
\* Nobody holds or waits for a shard initially.
LEMMA InitIInv == Init => IInv
<1> SUFFICES ASSUME Init PROVE IInv
  OBVIOUS
<1>1. Typed(active, pc, shard, supported)
  BY DEF Init, Typed, ClientPC, WorkerPC
<1>2. Counted(active, shard)
  <2> SUFFICES ASSUME NEW s \in Shards
               PROVE  active[s] = Cardinality({t \in Tasks : shard[t] = s})
    BY DEF Counted
  <2>1. {t \in Tasks : shard[t] = s} = {}
    BY ShardsAreNat DEF Init
  <2>2. QED
    BY <2>1, FS_EmptySet DEF Init
<1>3. Bounded(active)
  BY ShardsAssumption DEF Init, Bounded
<1>4. Reserved(shard)
  <2> SUFFICES ASSUME NEW s \in Shards
               PROVE  Cardinality({w \in Workers : shard[w] = s}) < Capacity[s]
    BY DEF Reserved
  <2>1. {w \in Workers : shard[w] = s} = {}
    BY ShardsAreNat DEF Init, Tasks
  <2>2. QED
    BY <2>1, FS_EmptySet, ShardsAssumption
<1>5. Notified(active, pc, supported)
  BY DEF Init, Notified
<1>6. Located(pc, shard)
  BY TasksAssumption DEF Init, Located, HoldingPC, ClientPC, WorkerPC, Tasks
<1>7. QED
  BY <1>1, <1>2, <1>3, <1>4, <1>5, <1>6 DEF IInv, Core

\* The program counter of a task that holds nothing moves between places where
\* it holds nothing and does not start to wait.
LEMMA MoveCore ==
  ASSUME IInv, NEW t \in Tasks, NEW q,
         shard[t] = NoShard <=> q \notin HoldingPC, q # "waiting",
         t \in Clients => q \in ClientPC, t \in Workers => q \in WorkerPC
  PROVE  Core(active, [pc EXCEPT ![t] = q], shard, supported)
<1> DEFINE p == [pc EXCEPT ![t] = q]
<1> USE DEF IInv, Core
<1>1. Typed(active, p, shard, supported)
  BY DEF Typed, ClientPC, WorkerPC, Tasks
<1>2. Notified(active, p, supported)
  BY DEF Notified, Typed
<1>3. Located(p, shard)
  BY DEF Located, Typed, ClientPC, WorkerPC, Tasks
<1>4. QED
  BY <1>1, <1>2, <1>3

\* Attempt, as a task that holds nothing makes it on the current counters.
LEMMA AttemptStep ==
  ASSUME NEW a, NEW p, NEW h, Core(a, p, h, supported),
         NEW t \in Tasks, h = [shard EXCEPT ![t] = NoShard],
         shard \in [Tasks -> Shards \cup {NoShard}],
         NEW among \in SUBSET Shards,
         Attempt(t, a, p, among, Reserve(t)),
         supported' = [supported EXCEPT ![t] = among]
  PROVE  IInv'
<1>1. h[t] = NoShard
  OBVIOUS
<1>2. CASE Choices(a, among, Reserve(t)) = {}
  <2>1. active' = a /\ pc' = [p EXCEPT ![t] = "waiting"] /\ shard' = h
    BY <1>2 DEF Attempt
  <2>2. Core(active', pc', shard', supported')
    BY <1>1, <1>2, <2>1, WaitCore
  <2>3. QED
    BY <2>2 DEF IInv, Core, Typed, Counted, Bounded, Reserved, Notified, Located
<1>3. CASE Choices(a, among, Reserve(t)) # {}
  <2>1. PICK s \in Choices(a, among, Reserve(t)) :
          /\ active' = [a EXCEPT ![s] = @ + 1]
          /\ pc' = [p EXCEPT ![t] = "posting"]
          /\ shard' = [shard EXCEPT ![t] = s]
    BY <1>3 DEF Attempt
  <2>2. shard' = [h EXCEPT ![t] = s]
    BY <2>1
  <2>3. Core([a EXCEPT ![s] = @ + 1], [p EXCEPT ![t] = "posting"],
             [h EXCEPT ![t] = s], [supported EXCEPT ![t] = among])
    BY <1>1, TakeCore
  <2>4. Core(active', pc', shard', supported')
    BY <2>1, <2>2, <2>3
  <2>5. QED
    BY <2>4 DEF IInv, Core, Typed, Counted, Bounded, Reserved, Notified, Located
<1>4. QED
  BY <1>2, <1>3

\* What IInv says where a step changes none of the four.
LEMMA SameCore ==
  ASSUME IInv, UNCHANGED <<active, pc, shard, supported>>
  PROVE  IInv'
BY DEF IInv, Core, Typed, Counted, Bounded, Reserved, Notified, Located

\* The new values satisfy Core, hence IInv holds after the step.
LEMMA CorePrime ==
  ASSUME NEW a, NEW p, NEW h, NEW sup, Core(a, p, h, sup),
         active' = a, pc' = p, shard' = h, supported' = sup
  PROVE  IInv'
BY DEF IInv, Core, Typed, Counted, Bounded, Reserved, Notified, Located

\* The finally clauses: a task gives its shard back and ends.
LEMMA LeaveStep ==
  ASSUME IInv, NEW t \in Tasks, shard[t] # NoShard,
         NEW q, q \notin HoldingPC, q # "waiting",
         t \in Clients => q \in ClientPC, t \in Workers => q \in WorkerPC,
         Leave(t, q), UNCHANGED supported
  PROVE  IInv'
<1>1. shard[t] \in Shards
  BY DEF IInv, Core, Typed
<1>2. Core(Released(shard[t]), [NotifyAll EXCEPT ![t] = q],
           [shard EXCEPT ![t] = NoShard], supported)
  BY <1>1, ReleaseCore
<1>3. QED
  BY <1>2, CorePrime DEF Leave

\* MoveCore for a step of the specification.
LEMMA MoveStep ==
  ASSUME IInv, NEW t \in Tasks, NEW q,
         shard[t] = NoShard <=> q \notin HoldingPC, q # "waiting",
         t \in Clients => q \in ClientPC, t \in Workers => q \in WorkerPC,
         pc' = [pc EXCEPT ![t] = q], UNCHANGED <<active, shard, supported>>
  PROVE  IInv'
<1>1. Core(active, [pc EXCEPT ![t] = q], shard, supported)
  BY MoveCore
<1>2. QED
  BY <1>1, CorePrime

\* A request, or a notified task, evaluates the predicate of wait_for.
LEMMA TryStep ==
  ASSUME IInv, NEW t \in Tasks, shard[t] = NoShard,
         NEW among \in SUBSET Shards,
         Attempt(t, active, pc, among, Reserve(t)),
         supported' = [supported EXCEPT ![t] = among]
  PROVE  IInv'
<1>1. /\ shard \in [Tasks -> Shards \cup {NoShard}]
      /\ shard = [shard EXCEPT ![t] = NoShard]
      /\ Core(active, pc, shard, supported)
  BY DEF IInv, Core, Typed
<1>2. QED
  BY <1>1, AttemptStep

\* A notified task tries again.
LEMMA WakeStep ==
  ASSUME IInv, NEW t \in Tasks, Wake(t)
  PROVE  IInv'
<1>1. supported[t] \in SUBSET Shards /\ supported = [supported EXCEPT ![t] = supported[t]]
  BY DEF IInv, Core, Typed
<1>2. shard[t] = NoShard
  BY DEF Wake, IInv, Core, Located, HoldingPC
<1>3. QED
  BY <1>1, <1>2, TryStep DEF Wake

\* The top of the worker's loop, from counters that satisfy Core and in which
\* the worker holds nothing.
LEMMA LoopStep ==
  ASSUME IInv, NEW w \in Workers, NEW a, NEW p0, NEW p,
         Core(a, p0, [shard EXCEPT ![w] = NoShard], supported),
         p0 = [p EXCEPT ![w] = "dead"], p \in [Tasks -> ClientPC \cup WorkerPC],
         WorkerLoop(w, a, p)
  PROVE  IInv'
<1> DEFINE h == [shard EXCEPT ![w] = NoShard]
           among == Supported(stress_route, 1)
<1>1. w \in Tasks /\ Reserve(w) = 1 /\ among \in SUBSET Shards
  BY DEF Tasks, Reserve, Supported
<1>2. CASE /\ active' = a
           /\ pc' = [p EXCEPT ![w] = "dead"]
           /\ shard' = h
           /\ UNCHANGED supported
  BY <1>2, CorePrime
<1>3. CASE /\ Attempt(w, a, p, among, 1)
           /\ supported' = [supported EXCEPT ![w] = among]
  <2>1. shard \in [Tasks -> Shards \cup {NoShard}]
    BY DEF IInv, Core, Typed
  <2>2. \A x : [p0 EXCEPT ![w] = x] = [p EXCEPT ![w] = x]
    OBVIOUS
  <2>3. Attempt(w, a, p0, among, Reserve(w))
    BY <1>1, <1>3, <2>2 DEF Attempt
  <2>4. QED
    BY <1>1, <1>3, <2>1, <2>3, AttemptStep
<1>4. QED
  BY <1>2, <1>3 DEF WorkerLoop

\* New workers are created; they hold nothing and do not wait.
LEMMA LaunchStep ==
  ASSUME IInv, NEW o \in Operators, NEW new, Launch(o, new),
         UNCHANGED <<active, shard, supported>>
  PROVE  IInv'
<1> DEFINE p == [t \in Tasks |-> IF t \in new THEN "created" ELSE pc[t]]
<1> USE DEF IInv, Core
<1>1. new \subseteq Workers /\ \A w \in new : pc[w] = "dead"
  BY DEF Launch, Unused, Live
<1>2. Typed(active, p, shard, supported)
  BY DEF Typed, ClientPC, WorkerPC
<1>3. Notified(active, p, supported)
  BY DEF Notified
<1>4. Located(p, shard)
  BY <1>1, TasksAssumption DEF Located, ClientPC, WorkerPC, HoldingPC, Tasks
<1>5. Core(active, p, shard, supported)
  BY <1>2, <1>3, <1>4
<1>6. QED
  BY <1>5, CorePrime DEF Launch

-----------------------------------------------------------------------------
\* No step of a tts handler or disconnect breaks IInv.
LEMMA ClientStepIInv ==
  ASSUME IInv, NEW c \in Clients, ClientStep(c) \/ Disconnect(c)
  PROVE  IInv'
<1>1. c \in Tasks /\ c \notin Workers /\ Reserve(c) = 0
  BY TasksAssumption DEF Tasks, Reserve
<1>2. (shard[c] # NoShard) <=> (pc[c] \in HoldingPC)
  BY <1>1 DEF IInv, Core, Located
<1>3. ASSUME NEW route \in Routes, Request(c, route) PROVE IInv'
  <2>1. shard[c] = NoShard
    BY <1>2, <1>3 DEF Request, HoldingPC
  <2>2. CASE GiveUp(c, "done") /\ UNCHANGED supported
    BY <1>1, <2>1, <2>2, MoveStep DEF GiveUp, ClientPC, HoldingPC
  <2>3. CASE /\ Attempt(c, active, pc, Supported(route, 0), 0)
             /\ supported' = [supported EXCEPT ![c] = Supported(route, 0)]
    BY <1>1, <2>1, <2>3, TryStep DEF Supported
  <2>4. QED
    BY <1>3, <2>2, <2>3 DEF Request
<1>4. CASE Wake(c)
  BY <1>1, <1>4, WakeStep
<1>5. CASE BackendOK(c)
  BY <1>1, <1>2, <1>5, MoveStep DEF BackendOK, ClientPC, HoldingPC
<1>6. ASSUME NEW answer, BackendError(c, answer) PROVE IInv'
  BY <1>1, <1>2, <1>6, LeaveStep DEF BackendError, ClientPC, HoldingPC
<1>7. CASE SegmentEnd(c)
  <2>1. CASE Leave(c, "done") /\ UNCHANGED supported
    BY <1>1, <1>2, <1>7, <2>1, LeaveStep DEF SegmentEnd, ClientPC, HoldingPC
  <2>2. ASSUME NEW q \in {"pacing", "posting"}, pc' = [pc EXCEPT ![c] = q],
               UNCHANGED <<active, shard, supported>>
        PROVE  IInv'
    BY <1>1, <1>2, <1>7, <2>2, MoveStep DEF SegmentEnd, ClientPC, HoldingPC
  <2>3. QED
    BY <1>7, <2>1, <2>2 DEF SegmentEnd
<1>8. CASE PaceEnd(c)
  BY <1>1, <1>2, <1>8, MoveStep DEF PaceEnd, ClientPC, HoldingPC
<1>9. CASE Disconnect(c)
  <2>1. CASE pc[c] \in {"waiting", "woken"} /\ GiveUp(c, "done") /\ UNCHANGED supported
    BY <1>1, <1>2, <2>1, MoveStep DEF GiveUp, ClientPC, HoldingPC
  <2>2. CASE pc[c] \in HoldingPC /\ Leave(c, "done") /\ UNCHANGED supported
    BY <1>1, <1>2, <2>2, LeaveStep DEF ClientPC, HoldingPC
  <2>3. QED
    BY <1>9, <2>1, <2>2 DEF Disconnect, HoldingPC
<1>10. QED
  BY <1>3, <1>4, <1>5, <1>6, <1>7, <1>8, <1>9 DEF ClientStep

\* No step of a stress worker breaks IInv.
LEMMA WorkerStepIInv ==
  ASSUME IInv, NEW w \in Workers, WorkerStep(w)
  PROVE  IInv'
<1>1. w \in Tasks /\ w \notin Clients
  BY TasksAssumption DEF Tasks
<1>2. /\ (shard[w] # NoShard) <=> (pc[w] \in HoldingPC)
      /\ shard \in [Tasks -> Shards \cup {NoShard}]
      /\ pc \in [Tasks -> ClientPC \cup WorkerPC]
  BY <1>1 DEF IInv, Core, Located, Typed
<1>3. CASE WorkerStart(w)
  <2>1. shard[w] = NoShard /\ shard = [shard EXCEPT ![w] = NoShard]
    BY <1>2, <1>3 DEF WorkerStart, HoldingPC
  <2>2. Core(active, [pc EXCEPT ![w] = "dead"], shard, supported)
    BY <1>1, <2>1, MoveCore DEF HoldingPC, WorkerPC
  <2>3. QED
    BY <1>2, <1>3, <2>1, <2>2, LoopStep DEF WorkerStart
<1>4. CASE Wake(w)
  BY <1>1, <1>4, WakeStep
<1>5. CASE WorkerTurn(w)
  <2>1. shard[w] \in Shards
    BY <1>1, <1>2, <1>5 DEF WorkerTurn, HoldingPC
  <2>2. Core(Released(shard[w]), [NotifyAll EXCEPT ![w] = "dead"],
             [shard EXCEPT ![w] = NoShard], supported)
    BY <1>1, <2>1, ReleaseCore DEF HoldingPC, WorkerPC
  <2>3. NotifyAll \in [Tasks -> ClientPC \cup WorkerPC]
    BY <1>2 DEF NotifyAll, ClientPC, WorkerPC
  <2>4. QED
    BY <1>5, <2>2, <2>3, LoopStep DEF WorkerTurn
<1>6. CASE WorkerCancelled(w)
  <2>1. CASE shard[w] = NoShard
    BY <1>1, <1>6, <2>1, MoveStep DEF WorkerCancelled, GiveUp, HoldingPC, WorkerPC
  <2>2. CASE shard[w] # NoShard
    BY <1>1, <1>6, <2>2, LeaveStep DEF WorkerCancelled, HoldingPC, WorkerPC
  <2>3. QED
    BY <2>1, <2>2
<1>7. QED
  BY <1>3, <1>4, <1>5, <1>6 DEF WorkerStep

\* No step of a stress handler breaks IInv.
LEMMA OperatorStepIInv ==
  ASSUME IInv, NEW o \in Operators, OperatorStep(o)
  PROVE  IInv'
<1>1. ASSUME NEW route, StressStart(o, route) PROVE IInv'
  BY <1>1, SameCore DEF StressStart
<1>2. ASSUME NEW new, StressRefreshed(o, new) PROVE IInv'
  <2>1. CASE Launch(o, new)
    BY <1>2, <2>1, LaunchStep DEF StressRefreshed
  <2>2. CASE UNCHANGED pc
    BY <1>2, <2>2, SameCore DEF StressRefreshed
  <2>3. QED
    BY <1>2, <2>1, <2>2 DEF StressRefreshed
<1>3. ASSUME NEW new, StressLaunch(o, new) PROVE IInv'
  BY <1>3, LaunchStep DEF StressLaunch
<1>4. CASE StressStop(o)
  BY <1>4, SameCore DEF StressStop
<1>5. CASE StressStopped(o)
  BY <1>5, SameCore DEF StressStopped
<1>6. QED
  BY <1>1, <1>2, <1>3, <1>4, <1>5 DEF OperatorStep

\* IInv is inductive.
LEMMA NextIInv == IInv /\ [Next]_vars => IInv'
<1> SUFFICES ASSUME IInv, [Next]_vars PROVE IInv'
  OBVIOUS
<1>1. ASSUME NEW c \in Clients, ClientStep(c) \/ Disconnect(c) PROVE IInv'
  BY <1>1, ClientStepIInv
<1>2. ASSUME NEW w \in Workers, WorkerStep(w) PROVE IInv'
  BY <1>2, WorkerStepIInv
<1>3. ASSUME NEW o \in Operators, OperatorStep(o) PROVE IInv'
  BY <1>3, OperatorStepIInv
<1>4. CASE RefreshModels
  BY <1>4, SameCore DEF RefreshModels
<1>5. CASE UNCHANGED vars
  BY <1>5, SameCore DEF vars
<1>6. QED
  BY <1>1, <1>2, <1>3, <1>4, <1>5 DEF Next

\* IInv: who holds, who waits and what is counted agree in every state.
THEOREM IInvAlways == Spec => []IInv
<1>1. QED
  BY InitIInv, NextIInv, PTL DEF Spec

-----------------------------------------------------------------------------
\* Every slot counted in `active' is held by exactly one task, for any number
\* of shards, clients and stress workers: the finally clauses of tts and
\* _stress_worker release what acquire took on every path.
THEOREM NoSlotLeaks == Spec => []ActiveCountsHolders
<1>1. IInv => ActiveCountsHolders
  <2> SUFFICES ASSUME IInv, NEW s \in Shards
               PROVE  active[s] = Cardinality(Holders(s))
    BY DEF ActiveCountsHolders
  <2>1. Holders(s) = {t \in Tasks : shard[t] = s}
    BY ShardsAreNat DEF IInv, Core, Located, Holders
  <2>2. QED
    BY <2>1 DEF IInv, Core, Counted
<1>2. QED
  BY <1>1, IInvAlways, PTL

\* acquire never hands out more slots of a shard than its capacity.
THEOREM CapacityRespected == Spec => []NoOvercommit
<1>1. IInv => NoOvercommit
  BY DEF IInv, Core, Bounded, NoOvercommit
<1>2. QED
  BY <1>1, IInvAlways, PTL

\* Stress workers, which acquire with reserve=1, never hold all slots of a
\* shard, whatever their number.
THEOREM InteractiveReserve == Spec => []ReserveKept
<1>1. IInv => ReserveKept
  BY DEF IInv, Core, Reserved, ReserveKept, Background
<1>2. QED
  BY <1>1, IInvAlways, PTL

\* No task waits un-notified while a shard it supports has room: release
\* notifies everyone and a task only waits after it has seen no room.
THEOREM WakeupsNotLost == Spec => []NoMissedNotify
<1>1. IInv => NoMissedNotify
  BY DEF IInv, Core, Notified, NoMissedNotify
<1>2. QED
  BY <1>1, IInvAlways, PTL

\* The remaining variables keep their types.
THEOREM TypeCorrect == Spec => []TypeOK
<1> DEFINE Rest == /\ serves \in [Shards -> SUBSET Routes]
                   /\ segment \in [Clients -> 1 .. NumSegments]
                   /\ response \in [Clients -> Answers]
                   /\ stress_tasks \subseteq Workers
                   /\ stress_route \in Routes
                   /\ cancelling \subseteq Workers
                   /\ asked \in [Operators -> Routes]
                   /\ operator \in [Operators -> {"idle", "refreshing", "restarting", "stopping"}]
                   /\ gathering \in [Operators -> SUBSET Workers]
<1>1. Init => Rest
  BY ShardsAssumption, TasksAssumption DEF Init, Answers
<1>2. Rest /\ [Next]_vars => Rest'
  <2> SUFFICES ASSUME Rest, [Next]_vars PROVE Rest'
    OBVIOUS
  <2>1. ASSUME NEW c \in Clients, ClientStep(c) \/ Disconnect(c) PROVE Rest'
    <3>1. segment' \in [Clients -> 1 .. NumSegments]
      BY <2>1, TasksAssumption DEF ClientStep, Request, Wake, BackendOK, BackendError,
         SegmentEnd, PaceEnd, Disconnect, clientVars
    <3>2. response' \in [Clients -> Answers]
      BY <2>1 DEF ClientStep, Request, Wake, BackendOK, BackendError,
         SegmentEnd, PaceEnd, Disconnect, clientVars, Answers
    <3>3. UNCHANGED <<serves, stressVars, cancelling>>
      BY <2>1 DEF ClientStep, Request, Wake, BackendOK, BackendError,
         SegmentEnd, PaceEnd, Disconnect
    <3>4. QED
      BY <3>1, <3>2, <3>3 DEF stressVars
  <2>2. ASSUME NEW w \in Workers, WorkerStep(w) PROVE Rest'
    BY <2>2 DEF WorkerStep, WorkerStart, Wake, WorkerTurn, WorkerCancelled,
       clientVars, stressVars
  <2>3. ASSUME NEW o \in Operators, OperatorStep(o) PROVE Rest'
    <3>1. ASSUME NEW route \in Routes, StressStart(o, route) PROVE Rest'
      BY <3>1 DEF StressStart, clientVars
    <3>2. ASSUME NEW new, StressRefreshed(o, new) PROVE Rest'
      BY <3>2 DEF StressRefreshed, Probe, Launch, Unused, CancelTasks, clientVars
    <3>3. ASSUME NEW new, StressLaunch(o, new) PROVE Rest'
      BY <3>3 DEF StressLaunch, Launch, Unused, clientVars
    <3>4. CASE StressStop(o)
      BY <3>4 DEF StressStop, CancelTasks, clientVars
    <3>5. CASE StressStopped(o)
      BY <3>5 DEF StressStopped, clientVars
    <3>6. QED
      BY <2>3, <3>1, <3>2, <3>3, <3>4, <3>5 DEF OperatorStep
  <2>4. CASE RefreshModels
    BY <2>4 DEF RefreshModels, Probe, clientVars, stressVars
  <2>5. CASE UNCHANGED vars
    BY <2>5 DEF vars, clientVars, stressVars
  <2>6. QED
    BY <2>1, <2>2, <2>3, <2>4, <2>5 DEF Next
<1>3. IInv /\ Rest => TypeOK
  BY DEF IInv, Core, Typed, TypeOK
<1>4. QED
  BY <1>1, <1>2, <1>3, IInvAlways, PTL DEF Spec
-----------------------------------------------------------------------------
\* A background task that runs on is in the list or has been cancelled, and a
\* start that waits for the old tasks finds the list empty when it stores its
\* own. The second part is what another start breaks.
Restarting(o) == operator[o] = "restarting" => stress_tasks = {}

ListInv ==
  /\ LoadIsListed
  /\ \A o \in Operators : Restarting(o)

\* No client and no worker step brings a dead worker to life or changes what
\* the handlers refer to, and only a dead one leaves `cancelling'.
LEMMA TasksKeepList ==
  ASSUME TypeOK, ListInv,
         \/ \E c \in Clients : ClientStep(c) \/ Disconnect(c)
         \/ \E w \in Workers : WorkerStep(w)
  PROVE  ListInv'
<1>1. /\ UNCHANGED <<stress_tasks, operator, gathering>>
      /\ cancelling' \subseteq cancelling
      /\ \A w \in cancelling \ cancelling' : pc'[w] = "dead"
      /\ \A w \in Workers : pc[w] = "dead" => pc'[w] = "dead"
  <2>1. ASSUME NEW c \in Clients, ClientStep(c) \/ Disconnect(c)
        PROVE  /\ UNCHANGED <<stressVars, cancelling>>
               /\ \A w \in Workers : pc[w] = "dead" => pc'[w] = "dead"
    <3>1. pc \in [Tasks -> ClientPC \cup WorkerPC] /\ c \notin Workers
          /\ Workers \subseteq Tasks
      BY TasksAssumption DEF TypeOK, Tasks
    <3>2. UNCHANGED <<stressVars, cancelling>>
      BY <2>1 DEF ClientStep, Request, Wake, BackendOK, BackendError, SegmentEnd,
         PaceEnd, Disconnect
    <3>3. \A w \in Workers : pc[w] = "dead" => pc'[w] = "dead"
      BY <2>1, <3>1 DEF ClientStep, Request, Wake, Attempt, BackendOK, BackendError,
         SegmentEnd, PaceEnd, Disconnect, Leave, GiveUp, NotifyAll
    <3>4. QED
      BY <3>2, <3>3
  <2>2. ASSUME NEW w \in Workers, WorkerStep(w)
        PROVE  /\ UNCHANGED stressVars
               /\ cancelling' \subseteq cancelling
               /\ \A x \in cancelling \ cancelling' : pc'[x] = "dead"
               /\ \A x \in Workers : pc[x] = "dead" => pc'[x] = "dead"
    <3>1. pc \in [Tasks -> ClientPC \cup WorkerPC] /\ Workers \subseteq Tasks
      BY DEF TypeOK, Tasks
    <3>2. CASE WorkerStart(w)
      BY <3>1, <3>2 DEF WorkerStart, WorkerLoop, Attempt
    <3>3. CASE Wake(w)
      BY <3>1, <3>3 DEF Wake, Attempt
    <3>4. CASE WorkerTurn(w)
      BY <3>1, <3>4 DEF WorkerTurn, WorkerLoop, Attempt, NotifyAll
    <3>5. CASE WorkerCancelled(w)
      BY <3>1, <3>5 DEF WorkerCancelled, GiveUp, Leave, NotifyAll
    <3>6. QED
      BY <2>2, <3>2, <3>3, <3>4, <3>5 DEF WorkerStep
  <2>3. QED
    BY <2>1, <2>2 DEF stressVars
<1>2. LoadIsListed'
  BY <1>1 DEF ListInv, LoadIsListed, Live
<1>3. \A o \in Operators : Restarting(o)'
  BY <1>1 DEF ListInv, Restarting
<1>4. QED
  BY <1>2, <1>3 DEF ListInv

\* New tasks are stored while no other start waits, over an empty list: those
\* that still run have been cancelled.
LEMMA LaunchLists ==
  ASSUME TypeOK, ListInv, NEW o \in Operators, NEW new, Launch(o, new),
         stress_tasks = {}, UNCHANGED cancelling,
         \A p \in Operators \ {o} : operator[p] # "restarting"
  PROVE  ListInv'
<1>1. operator' = [operator EXCEPT ![o] = "idle"] /\ stress_tasks' = new
  BY DEF Launch
<1>2. \A w \in Workers : pc'[w] # "dead" => w \in new \/ pc[w] # "dead"
  BY DEF Launch, Live, Tasks
<1>3. LoadIsListed'
  BY <1>1, <1>2 DEF ListInv, LoadIsListed, Live
<1>4. \A p \in Operators : operator'[p] # "restarting"
  BY <1>1 DEF TypeOK
<1>5. QED
  BY <1>3, <1>4 DEF ListInv, Restarting

\* What was in the list is cancelled when the list is emptied.
LEMMA CancelLists ==
  ASSUME TypeOK, ListInv, NEW o \in Operators, CancelTasks(o), UNCHANGED pc
  PROVE  ListInv'
<1>1. /\ stress_tasks' = {}
      /\ \A w \in stress_tasks : Live(w) => w \in cancelling'
      /\ cancelling \subseteq cancelling'
  BY DEF CancelTasks
<1>2. QED
  BY <1>1 DEF ListInv, LoadIsListed, Restarting, Live

LEMMA OperatorKeepsList ==
  ASSUME TypeOK, ListInv, ~StartsOverlap, NEW o \in Operators, OperatorStep(o)
  PROVE  ListInv'
<1>1. operator \in [Operators -> {"idle", "refreshing", "restarting", "stopping"}]
  BY DEF TypeOK
<1>2. ASSUME operator[o] \in {"refreshing", "restarting"}
      PROVE  \A p \in Operators \ {o} : operator[p] # "restarting"
  BY <1>2 DEF StartsOverlap
<1>3. ASSUME UNCHANGED <<pc, stress_tasks, cancelling>>,
             NEW q, operator' = [operator EXCEPT ![o] = q], q # "restarting"
      PROVE  ListInv'
  BY <1>1, <1>3 DEF ListInv, LoadIsListed, Restarting, Live
<1>4. ASSUME NEW route, StressStart(o, route) PROVE ListInv'
  BY <1>3, <1>4 DEF StressStart
<1>5. ASSUME NEW new, StressRefreshed(o, new) PROVE ListInv'
  <2>1. operator[o] = "refreshing"
    BY <1>5 DEF StressRefreshed
  <2>2. CASE /\ operator' = [operator EXCEPT ![o] = "idle"]
             /\ UNCHANGED <<pc, stress_tasks, cancelling>>
    BY <1>3, <2>2
  <2>3. CASE stress_tasks = {} /\ Launch(o, new) /\ UNCHANGED cancelling
    BY <1>2, <2>1, <2>3, LaunchLists
  <2>4. CASE CancelTasks(o) /\ UNCHANGED pc
    BY <2>4, CancelLists
  <2>5. QED
    BY <1>5, <2>2, <2>3, <2>4 DEF StressRefreshed
<1>6. ASSUME NEW new, StressLaunch(o, new) PROVE ListInv'
  <2>1. operator[o] = "restarting" /\ Launch(o, new) /\ UNCHANGED cancelling
    BY <1>6 DEF StressLaunch
  <2>2. stress_tasks = {}
    BY <2>1 DEF ListInv, Restarting
  <2>3. QED
    BY <1>2, <2>1, <2>2, LaunchLists
<1>7. CASE StressStop(o)
  BY <1>7, CancelLists DEF StressStop
<1>8. CASE StressStopped(o)
  BY <1>3, <1>8 DEF StressStopped
<1>9. QED
  BY <1>4, <1>5, <1>6, <1>7, <1>8 DEF OperatorStep

\* While no two starts overlap, no stress task that runs is lost sight of: it
\* is in the list that /stress/stop will cancel, or has been cancelled. For
\* any number of callers of start and stop, of tasks, shards and clients, and
\* with any other interleaving of theirs.
THEOREM LoadStaysListed == Spec => ListedUnlessStartsOverlap
<1>1. Init => ListInv
  <2> SUFFICES ASSUME Init PROVE ListInv
    OBVIOUS
  <2>1. \A w \in Workers : ~Live(w)
    BY TasksAssumption DEF Init, Live, Tasks
  <2>2. \A o \in Operators : operator[o] = "idle"
    BY DEF Init
  <2>3. QED
    BY <2>1, <2>2 DEF ListInv, LoadIsListed, Restarting
<1>2. TypeOK /\ ListInv /\ ~StartsOverlap /\ [Next]_vars => ListInv'
  <2> SUFFICES ASSUME TypeOK, ListInv, ~StartsOverlap, [Next]_vars PROVE ListInv'
    OBVIOUS
  <2>1. ASSUME NEW c \in Clients, ClientStep(c) \/ Disconnect(c) PROVE ListInv'
    BY <2>1, TasksKeepList
  <2>2. ASSUME NEW w \in Workers, WorkerStep(w) PROVE ListInv'
    BY <2>2, TasksKeepList
  <2>3. ASSUME NEW o \in Operators, OperatorStep(o) PROVE ListInv'
    BY <2>3, OperatorKeepsList
  <2>4. CASE RefreshModels
    BY <2>4 DEF RefreshModels, stressVars, ListInv, LoadIsListed, Restarting, Live
  <2>5. CASE UNCHANGED vars
    BY <2>5 DEF vars, stressVars, ListInv, LoadIsListed, Restarting, Live
  <2>6. QED
    BY <2>1, <2>2, <2>3, <2>4, <2>5 DEF Next
<1>3. ListInv => LoadIsListed
  BY DEF ListInv
<1>4. QED
  BY <1>1, <1>2, <1>3, TypeCorrect, PTL DEF Spec, ListedUnlessStartsOverlap
=============================================================================
