------------------------------- MODULE Router -------------------------------
(***************************************************************************)
(* The streaming router of server/router.py: admission of interactive      *)
(* requests and background stress workers onto worker shards, and the      *)
(* stress controls.                                                        *)
(*                                                                         *)
(* Everything runs on one asyncio loop, so a task runs alone from one      *)
(* await that suspends to the next; an action below is one such stretch.   *)
(* The lock of the condition `changed' is never held across a suspension   *)
(* (the bodies of acquire and release only suspend inside wait_for, which  *)
(* gives the lock up), hence it is never contended and is not a variable:  *)
(* what is left of the condition is who waits and who has been notified.   *)
(***************************************************************************)
EXTENDS Integers, FiniteSets

CONSTANTS
  Clients,     \* interactive /tts requests, each a handler task run once
  Workers,     \* identities that background stress tasks may take
  Operators,   \* callers of /stress/start and /stress/stop
  NumShards,   \* number of upstreams
  Capacity,    \* capacities[i] of every shard
  Routes,      \* what a request can ask for: a model, or a model with a voice
  Advertised,  \* the routes a healthy shard reports on /healthz
  NumSegments  \* pieces split_text cuts a request into

Shards == 1 .. NumShards
Tasks == Clients \cup Workers
NoShard == 0

ASSUME ShardsAssumption ==
  /\ NumShards \in Nat \ {0}
  /\ Capacity \in [Shards -> Nat \ {0}]
  /\ Advertised \in [Shards -> SUBSET Routes]

ASSUME TasksAssumption ==
  /\ IsFiniteSet(Clients)
  /\ IsFiniteSet(Workers)
  /\ Clients \cap Workers = {}
  /\ NumSegments \in Nat \ {0}

VARIABLES
  active,        \* active[s]: slots of shard s handed out
  serves,        \* model_sets and voice_sets as of the last refresh
  pc,            \* where each task is suspended
  shard,         \* the shard a task holds, NoShard otherwise
  supported,     \* the shards acquire computed before it began to wait
  segment,       \* segment a client is at
  response,      \* what the client has been answered so far
  stress_tasks,  \* the tasks Router.stress_tasks refers to
  stress_route,  \* stress_model
  cancelling,    \* tasks cancelled but not yet resumed
  asked,         \* the model a start handler was called with
  operator,      \* where each stress handler is suspended
  gathering      \* the tasks a stress handler awaits

clientVars == <<segment, response>>
stressVars == <<stress_tasks, stress_route, asked, operator, gathering>>
vars == <<active, serves, pc, shard, supported, clientVars, stressVars,
          cancelling>>

ClientPC == {"new", "waiting", "woken", "posting", "streaming", "pacing", "done"}
WorkerPC == {"dead", "created", "waiting", "woken", "posting"}
HoldingPC == {"posting", "streaming", "pacing"}
Answers == {"none", "streaming", "eof", "rejected", "bad_gateway", "aborted"}

TypeOK ==
  /\ active \in [Shards -> Nat]
  /\ serves \in [Shards -> SUBSET Routes]
  /\ pc \in [Tasks -> ClientPC \cup WorkerPC]
  /\ shard \in [Tasks -> Shards \cup {NoShard}]
  /\ supported \in [Tasks -> SUBSET Shards]
  /\ segment \in [Clients -> 1 .. NumSegments]
  /\ response \in [Clients -> Answers]
  /\ stress_tasks \subseteq Workers
  /\ stress_route \in Routes
  /\ cancelling \subseteq Workers
  /\ asked \in [Operators -> Routes]
  /\ operator \in [Operators -> {"idle", "refreshing", "restarting", "stopping"}]
  /\ gathering \in [Operators -> SUBSET Workers]

Init ==
  /\ active = [s \in Shards |-> 0]
  /\ serves = Advertised
  /\ pc = [t \in Tasks |-> IF t \in Clients THEN "new" ELSE "dead"]
  /\ shard = [t \in Tasks |-> NoShard]
  /\ supported = [t \in Tasks |-> {}]
  /\ segment = [c \in Clients |-> 1]
  /\ response = [c \in Clients |-> "none"]
  /\ stress_tasks = {}
  /\ stress_route \in Routes
  /\ cancelling = {}
  /\ asked = [o \in Operators |-> stress_route]
  /\ operator = [o \in Operators |-> "idle"]
  /\ gathering = [o \in Operators |-> {}]

-----------------------------------------------------------------------------
(* acquire and release *)

\* Slots of each shard that the task must leave free.
Reserve(t) == IF t \in Workers THEN 1 ELSE 0

\* The shards acquire considers, fixed before it waits.
Supported(route, r) == {s \in Shards : route \in serves[s] /\ Capacity[s] > r}

\* Mutants of Choices: a limit that is off by one; a reserve nobody looks at.
ChoicesOneMore(act, among, r) == {s \in among : act[s] <= Capacity[s] - r}
ChoicesNoReserve(act, among, r) == {s \in among : act[s] < Capacity[s]}

\* The condition waited for is that this set is not empty.
Choices(act, among, r) == {s \in among : act[s] < Capacity[s] - r}

\* min() by active/capacity, the first of equals.
LeastLoaded(act, among) ==
  CHOOSE s \in among : \A o \in among :
    \/ act[s] * Capacity[o] < act[o] * Capacity[s]
    \/ act[s] * Capacity[o] = act[o] * Capacity[s] /\ s <= o

\* One evaluation of wait_for's predicate by t, and the admission when it is
\* true; act and p are the counters and program counters it runs on.
Attempt(t, act, p, among, r) ==
  LET choices == Choices(act, among, r) IN
  \/ /\ choices = {}
     /\ active' = act
     /\ pc' = [p EXCEPT ![t] = "waiting"]
     /\ shard' = [shard EXCEPT ![t] = NoShard]
  \/ /\ choices # {}
     /\ \E s \in choices :
          /\ s = LeastLoaded(act, choices)
          /\ active' = [act EXCEPT ![s] = @ + 1]
          /\ shard' = [shard EXCEPT ![t] = s]
     /\ pc' = [p EXCEPT ![t] = "posting"]

\* Mutants: release runs twice; notify(1) for notify_all().
ReleasedTwice(s) == [active EXCEPT ![s] = @ - 2]
NotifyOne ==
  LET asleep == {t \in Tasks : pc[t] = "waiting"}
  IN  IF asleep = {} THEN pc
      ELSE [pc EXCEPT ![CHOOSE t \in asleep : TRUE] = "woken"]

\* What release does: the counters after it, and everyone notified.
Released(s) == [active EXCEPT ![s] = @ - 1]
NotifyAll == [t \in Tasks |-> IF pc[t] = "waiting" THEN "woken" ELSE pc[t]]

\* The finally clause of a task that ends in state q.
Leave(t, q) ==
  /\ active' = Released(shard[t])
  /\ pc' = [NotifyAll EXCEPT ![t] = q]
  /\ shard' = [shard EXCEPT ![t] = NoShard]

\* A task that never got a shard ends.
GiveUp(t, q) ==
  /\ pc' = [pc EXCEPT ![t] = q]
  /\ UNCHANGED <<active, shard>>

-----------------------------------------------------------------------------
(* Interactive requests: tts *)

\* The request is parsed and asks for a shard; ValueError is a 404.
Request(c, route) ==
  LET among == Supported(route, 0) IN
  /\ pc[c] = "new"
  /\ \/ /\ among = {}
        /\ GiveUp(c, "done")
        /\ response' = [response EXCEPT ![c] = "rejected"]
        /\ UNCHANGED supported
     \/ /\ among # {}
        /\ Attempt(c, active, pc, among, 0)
        /\ supported' = [supported EXCEPT ![c] = among]
        /\ UNCHANGED response
  /\ UNCHANGED <<serves, segment, stressVars, cancelling>>

\* A notified task re-evaluates the predicate it waits for.
Wake(t) ==
  /\ pc[t] = "woken" /\ t \notin cancelling
  /\ Attempt(t, active, pc, supported[t], Reserve(t))
  /\ UNCHANGED <<serves, supported, clientVars, stressVars, cancelling>>

\* The backend answers 200: the first time the response is started.
BackendOK(c) ==
  /\ pc[c] = "posting"
  /\ pc' = [pc EXCEPT ![c] = "streaming"]
  /\ response' = [response EXCEPT ![c] = "streaming"]
  /\ UNCHANGED <<active, serves, shard, supported, segment, stressVars,
                 cancelling>>

\* The backend answers another status, or the connection to it fails: an
\* error if nothing has been sent, otherwise a truncated stream closed
\* cleanly.
BackendError(c, answer) ==
  /\ \/ pc[c] = "posting" /\ answer \in {"rejected", "bad_gateway"}
     \/ pc[c] = "streaming" /\ answer = "bad_gateway"
  /\ Leave(c, "done")
  /\ response' = [response EXCEPT ![c] = IF @ = "none" THEN answer ELSE "eof"]
  /\ UNCHANGED <<serves, supported, segment, stressVars, cancelling>>

\* The segment has been relayed. Before the next one the handler sleeps when
\* the client is far enough ahead.
SegmentEnd(c) ==
  /\ pc[c] = "streaming"
  /\ \/ /\ segment[c] < NumSegments
        /\ segment' = [segment EXCEPT ![c] = @ + 1]
        /\ \E q \in {"pacing", "posting"} : pc' = [pc EXCEPT ![c] = q]
        /\ UNCHANGED <<active, shard, response>>
     \/ /\ segment[c] = NumSegments
        /\ Leave(c, "done")
        /\ response' = [response EXCEPT ![c] = "eof"]
        /\ UNCHANGED segment
  /\ UNCHANGED <<serves, supported, stressVars, cancelling>>

PaceEnd(c) ==
  /\ pc[c] = "pacing"
  /\ pc' = [pc EXCEPT ![c] = "posting"]
  /\ UNCHANGED <<active, serves, shard, supported, clientVars, stressVars,
                 cancelling>>

\* Mutant: a request whose response is being relayed is not released.
DisconnectLeaks(c) ==
  /\ \/ pc[c] \in {"waiting", "woken", "streaming"} /\ GiveUp(c, "done")
     \/ pc[c] \in {"posting", "pacing"} /\ Leave(c, "done")
  /\ response' = [response EXCEPT ![c] = "aborted"]
  /\ UNCHANGED <<serves, supported, segment, stressVars, cancelling>>

\* The client disconnects or its handler is cancelled at any suspension.
Disconnect(c) ==
  /\ \/ pc[c] \in {"waiting", "woken"} /\ GiveUp(c, "done")
     \/ pc[c] \in {"posting", "streaming", "pacing"} /\ Leave(c, "done")
  /\ response' = [response EXCEPT ![c] = "aborted"]
  /\ UNCHANGED <<serves, supported, segment, stressVars, cancelling>>

-----------------------------------------------------------------------------
(* Background load: _stress_worker *)

\* The top of the worker's loop: acquire with one slot in reserve. Nothing
\* catches the ValueError of acquire, so the worker dies of it.
WorkerLoop(w, act, p) ==
  LET among == Supported(stress_route, 1) IN
  \/ /\ among = {}
     /\ active' = act
     /\ pc' = [p EXCEPT ![w] = "dead"]
     /\ shard' = [shard EXCEPT ![w] = NoShard]
     /\ UNCHANGED supported
  \/ /\ among # {}
     /\ Attempt(w, act, p, among, 1)
     /\ supported' = [supported EXCEPT ![w] = among]

WorkerStart(w) ==
  /\ pc[w] = "created" /\ w \notin cancelling
  /\ WorkerLoop(w, active, pc)
  /\ UNCHANGED <<serves, clientVars, stressVars, cancelling>>

\* The generation has been drained or has failed: release and, without a
\* suspension in between, acquire again.
WorkerTurn(w) ==
  /\ pc[w] = "posting" /\ w \notin cancelling
  /\ WorkerLoop(w, Released(shard[w]), NotifyAll)
  /\ UNCHANGED <<serves, clientVars, stressVars, cancelling>>

\* CancelledError is raised where the worker is suspended.
WorkerCancelled(w) ==
  /\ w \in cancelling
  /\ IF shard[w] = NoShard THEN GiveUp(w, "dead") ELSE Leave(w, "dead")
  /\ cancelling' = cancelling \ {w}
  /\ UNCHANGED <<serves, supported, clientVars, stressVars>>

-----------------------------------------------------------------------------
(* /stress/start, /stress/stop and the refresh of what the shards serve *)

Live(w) == pc[w] # "dead"

\* What the shards answer to /healthz; one that fails to serves nothing.
Probe == serves' \in {f \in [Shards -> SUBSET Routes] :
                        \A s \in Shards : f[s] \in {Advertised[s], {}}}

\* GET /v1/models
RefreshModels ==
  /\ Probe
  /\ UNCHANGED <<active, pc, shard, supported, clientVars, stressVars,
                 cancelling>>

\* Mutant: stop_stress waits for the tasks without cancelling them.
CancelNothing(o) ==
  /\ stress_tasks' = {}
  /\ cancelling' = cancelling
  /\ gathering' = [gathering EXCEPT ![o] = stress_tasks]

\* The first half of stop_stress: take the list, cancel what is in it.
CancelTasks(o) ==
  /\ stress_tasks' = {}
  /\ cancelling' = cancelling \cup {w \in stress_tasks : Live(w)}
  /\ gathering' = [gathering EXCEPT ![o] = stress_tasks]

StressStart(o, route) ==
  /\ operator[o] = "idle"
  /\ operator' = [operator EXCEPT ![o] = "refreshing"]
  /\ asked' = [asked EXCEPT ![o] = route]
  /\ UNCHANGED <<active, serves, pc, shard, supported, clientVars,
                 stress_tasks, stress_route, cancelling, gathering>>

\* Identities free for new tasks: the task of that name has ended and nothing
\* refers to it any more.
Unused(o) == {w \in Workers : /\ ~Live(w)
                              /\ w \notin stress_tasks
                              /\ \A p \in Operators \ {o} : w \notin gathering[p]}

\* New tasks are created; their list replaces whatever is in place.
Launch(o, new) ==
  /\ new # {} /\ new \subseteq Unused(o)
  /\ stress_route' = asked[o]
  /\ stress_tasks' = new
  /\ pc' = [t \in Tasks |-> IF t \in new THEN "created" ELSE pc[t]]
  /\ operator' = [operator EXCEPT ![o] = "idle"]
  /\ gathering' = [gathering EXCEPT ![o] = {}]

\* Mutant: start forgets to stop the tasks that run already.
StartOverOld(o, new) ==
  /\ operator[o] = "refreshing"
  /\ Probe
  /\ \E s \in Shards : asked[o] \in serves'[s]
  /\ Launch(o, new)
  /\ UNCHANGED <<active, shard, supported, clientVars, asked, cancelling>>

\* The refresh is back: an unserved model is a 400; with no old tasks the new
\* ones start at once, otherwise the old ones are cancelled and awaited.
StressRefreshed(o, new) ==
  /\ operator[o] = "refreshing"
  /\ Probe
  /\ \/ /\ \A s \in Shards : asked[o] \notin serves'[s]
        /\ operator' = [operator EXCEPT ![o] = "idle"]
        /\ UNCHANGED <<pc, stress_tasks, stress_route, cancelling, gathering>>
     \/ /\ \E s \in Shards : asked[o] \in serves'[s]
        /\ \/ /\ stress_tasks = {}
              /\ Launch(o, new)
              /\ UNCHANGED cancelling
           \/ /\ stress_tasks # {}
              /\ operator' = [operator EXCEPT ![o] = "restarting"]
              /\ CancelTasks(o)
              /\ UNCHANGED <<pc, stress_route>>
  /\ UNCHANGED <<active, shard, supported, clientVars, asked>>

Gathered(o) == \A w \in gathering[o] : ~Live(w)

StressLaunch(o, new) ==
  /\ operator[o] = "restarting" /\ Gathered(o)
  /\ Launch(o, new)
  /\ UNCHANGED <<active, serves, shard, supported, clientVars, cancelling, asked>>

\* Without tasks there is nothing to await and nothing changes.
StressStop(o) ==
  /\ operator[o] = "idle" /\ stress_tasks # {}
  /\ operator' = [operator EXCEPT ![o] = "stopping"]
  /\ CancelTasks(o)
  /\ UNCHANGED <<active, serves, pc, shard, supported, clientVars,
                 stress_route, asked>>

StressStopped(o) ==
  /\ operator[o] = "stopping" /\ Gathered(o)
  /\ operator' = [operator EXCEPT ![o] = "idle"]
  /\ gathering' = [gathering EXCEPT ![o] = {}]
  /\ UNCHANGED <<active, serves, pc, shard, supported, clientVars,
                 stress_tasks, stress_route, cancelling, asked>>

-----------------------------------------------------------------------------
ClientStep(c) ==
  \/ \E route \in Routes : Request(c, route)
  \/ Wake(c)
  \/ BackendOK(c)
  \/ \E answer \in {"rejected", "bad_gateway"} : BackendError(c, answer)
  \/ SegmentEnd(c)
  \/ PaceEnd(c)

WorkerStep(w) ==
  \/ WorkerStart(w)
  \/ Wake(w)
  \/ WorkerTurn(w)
  \/ WorkerCancelled(w)

OperatorStep(o) ==
  \/ \E route \in Routes : StressStart(o, route)
  \/ \E new \in SUBSET Workers : StressRefreshed(o, new)
  \/ \E new \in SUBSET Workers : StressLaunch(o, new)
  \/ StressStop(o)
  \/ StressStopped(o)

Next ==
  \/ \E c \in Clients : ClientStep(c) \/ Disconnect(c)
  \/ \E w \in Workers : WorkerStep(w)
  \/ \E o \in Operators : OperatorStep(o)
  \/ RefreshModels

Spec == Init /\ [][Next]_vars

\* The loop resumes every task that can run, and the 600 s timeout of the
\* session makes every backend answer or fail. Nobody is obliged to call the
\* stress endpoints, to disconnect, or to list the models.
Fairness ==
  /\ \A c \in Clients : WF_vars(ClientStep(c))
  /\ \A w \in Workers : WF_vars(WorkerStep(w))
  /\ \A o \in Operators : WF_vars(StressStopped(o))

FairSpec == Spec /\ Fairness

-----------------------------------------------------------------------------
Holders(s) == {t \in Tasks : pc[t] \in HoldingPC /\ shard[t] = s}
Background(s) == {w \in Workers : shard[w] = s}

\* Every slot counted in active is held by exactly one live task and every
\* holder is counted, whatever was cancelled, failed or disconnected: the
\* release in the finally clauses of tts and _stress_worker never leaks a slot.
ActiveCountsHolders == \A s \in Shards : active[s] = Cardinality(Holders(s))

\* No shard is given more streams than its configured capacity, although
\* acquire chooses only after an arbitrary wait.
NoOvercommit == \A s \in Shards : active[s] <= Capacity[s]

\* reserve=1: background load alone never fills a shard, so that an
\* interactive request finds a slot unless other interactive ones hold them.
ReserveKept == \A s \in Shards : Cardinality(Background(s)) < Capacity[s]

\* A task that waits un-notified would find no slot if it looked: no wakeup of
\* the condition is ever lost between release and wait_for.
NoMissedNotify ==
  \A t \in Tasks : pc[t] = "waiting" =>
    Choices(active, supported[t], Reserve(t)) = {}

\* A background task that runs on is in the list the stress handlers can
\* cancel, or has been cancelled already.
LoadIsListed ==
  \A w \in Workers : Live(w) => w \in stress_tasks \cup cancelling

\* A start waits for the tasks it has cancelled while another is under way.
StartsOverlap ==
  \E o, p \in Operators :
    /\ o # p
    /\ operator[o] = "restarting"
    /\ operator[p] \in {"refreshing", "restarting"}

\* No background load is lost sight of, however the callers of start and stop
\* interleave, unless two starts overlap: nothing else makes stress_start
\* store its tasks over others that run.
ListedUnlessStartsOverlap == []~StartsOverlap => []LoadIsListed

\* What the console shows for an empty list: Stopped. No load runs then but
\* tasks that have been cancelled. False when starts overlap.
StoppedMeansNoLoad ==
  stress_tasks = {} => \A w \in Workers : Live(w) => w \in cancelling

\* However long the background load runs, an interactive request that waits
\* gets its slot.
InteractiveServed ==
  \A c \in Clients :
    pc[c] = "waiting" ~> pc[c] \in {"posting", "streaming", "pacing", "done"}

\* A stress handler that cancels the load sees it end.
StopCompletes == \A o \in Operators : operator[o] = "stopping" ~> operator[o] = "idle"

=============================================================================
