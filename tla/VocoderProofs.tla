---------------------------- MODULE VocoderProofs ----------------------------
(***************************************************************************)
(* The vocoder, for any requests, any scripts and batch sizes and in every *)
(* deployment.  The invariant follows a request whose chunks keep an order *)
(* (Regular) along its way: what the engine has handed over and no lane    *)
(* has finished is in one place of it, the places hold the chunks in       *)
(* order, and what has been emitted is on its way to the sink or there.    *)
(***************************************************************************)
EXTENDS Vocoder, QueueFacts

-----------------------------------------------------------------------------
(* Types *)

Data == {Close} \cup [chunk : Nat, tail : Nat]
Calls == [r : Requests, data : Data]
Messages == [job : Jobs, tail : {Absent} \cup Nat]
LaneStates ==
  {ln \in [stage : {"idle", "taken", "gpu"}, jobs : Seq(Jobs), todo : Seq(Jobs)] :
     /\ ln.stage = "idle" <=> ln.jobs = <<>>
     /\ ln.stage = "gpu" <=> ln.todo # <<>>}
VocStates == [tail : Nat, audio : BOOLEAN, finished : BOOLEAN]

Typed ==
  /\ deployment \in Deployments
  /\ handed \in [Requests -> Nat] /\ \A r \in Requests : handed[r] <= Len(Script[r])
  /\ q_first \in [Procs -> Seq(Jobs)]
  /\ q_topup \in [Procs -> Seq(Jobs)]
  /\ q \in [Procs -> Seq(Jobs)]
  /\ streak \in [Procs -> 0 .. StreakMax]
  /\ last_width \in [Procs -> Int]
  /\ lane \in [Procs -> [Lanes -> LaneStates]]
  /\ voc \in [Procs -> [Requests -> VocStates]]
  /\ delivered \in [Requests -> Seq(Data)]
  /\ failed \subseteq Requests
  /\ pending \in Seq(Jobs) /\ sent_tail \subseteq Requests
  /\ parent \in [Requests -> [tail : Nat, audio : BOOLEAN]]
  /\ registered \in [Procs -> SUBSET Requests]
  /\ in_q \in [Procs -> Seq(Messages)] /\ out_q \in [Procs -> Seq(Calls)]

-----------------------------------------------------------------------------
(* The way of a request *)

Count(r) == Len(Script[r])
Job(r, k) == [r |-> r, k |-> k]

(* The elements of the stream: the chunks, and Close behind the last. The
   note with the tail of the first chunk is for SplitVoc. *)
Item(r, i) == IF i = Count(r) + 1 THEN Close ELSE [chunk |-> i, tail |-> i - 1]
Note == [chunk |-> 0, tail |-> 1]

(* Job k of r, or element k of its stream, passes through one process. *)
Route(where, r, k) ==
  IF where = "split" /\ (k = 1 \/ Count(r) = 1) THEN "first" ELSE "remote"
Through(where, r, p) == {k \in 1 .. Count(r) : Route(where, r, k) = p}
LaneOf(k) == IF k = 1 THEN "priority" ELSE "bulk"

\* The jobs of r are in order, each once; and so are messages and calls.
JobOrder(r) == {o \in Jobs \X Jobs : o[1].r = r /\ o[2].r = r => o[1].k < o[2].k}
MessageOrder(r) ==
  {o \in Messages \X Messages : <<o[1].job, o[2].job>> \in JobOrder(r)}
NumberOf(r, data) == IF data = Close THEN Count(r) + 1 ELSE data.chunk
CallOrder(r) ==
  {o \in Calls \X Calls :
     o[1].r = r /\ o[2].r = r => NumberOf(r, o[1].data) < NumberOf(r, o[2].data)}

\* Of r only jobs in K are in s, and they are in order.
Lined(s, r, K) ==
  InOrder(s, JobOrder(r)) /\ \A j \in Members(s) : j.r = r => j.k \in K

\* The four places, one after the other, hold the numbers from e + 1 to h.
Path(hand, queue, pipe, kept, e, h) ==
  /\ hand \cup queue \cup pipe \cup kept = e + 1 .. h
  /\ \A a \in hand, b \in queue \cup pipe \cup kept : a < b
  /\ \A a \in queue, b \in pipe \cup kept : a < b
  /\ \A a \in pipe, b \in kept : a < b

HandOf(r) ==
  {k \in 1 .. Count(r) : Job(r, k) \in Members(Hand(lane[Route(Where, r, k)][LaneOf(k)]))}
QueueOf(r) ==
  {k \in 1 .. Count(r) : \/ Job(r, k) \in Members(q_first[Route(Where, r, k)])
                         \/ Job(r, k) \in Members(q[Route(Where, r, k)])}
PipeOf(r) ==
  {k \in 1 .. Count(r) : \E m \in Members(in_q[Route(Where, r, k)]) : m.job = Job(r, k)}
KeptOf(r) == {k \in 1 .. Count(r) : Job(r, k) \in Members(pending)}

-----------------------------------------------------------------------------
(* What is known when the elements up to e of the stream have been emitted. *)

Counts(r, e) ==
  /\ e \in 0 .. Count(r) + 1 /\ e # Count(r)
  /\ handed[r] \in 0 .. Count(r) /\ (e <= handed[r] \/ handed[r] = Count(r))
  /\ Len(delivered[r]) <= e
  /\ \A i \in 1 .. Len(delivered[r]) : delivered[r][i] = Item(r, i)

\* What has been handed over and not yet emitted is on the way.
OnTheWay(r, e) == Path(HandOf(r), QueueOf(r), PipeOf(r), KeptOf(r), e, handed[r])

\* And nowhere else.
KeptPlaced(r) == Lined(pending, r, IF Where = "split" THEN 2 .. Count(r) ELSE {})
QueuesPlaced(r) ==
  \A p \in Procs :
    /\ Lined(q_first[p], r, Through(Where, r, p) \cap {1})
    /\ Lined(q[p], r, Through(Where, r, p) \ {1})
    /\ Lined(q_topup[p], r, {})
LanesPlaced(r) ==
  \A p \in Procs, l \in Lanes :
    Lined(Hand(lane[p][l]), r, {k \in Through(Where, r, p) : LaneOf(k) = l})
PipesPlaced(r) ==
  \A p \in Procs :
    /\ InOrder(in_q[p], MessageOrder(r))
    /\ \A m \in Members(in_q[p]) : m.job.r = r =>
         /\ Where # "in_process" /\ m.job.k \in Through(Where, r, p)
         /\ m.tail = IF Where = "split" /\ m.job.k = 2 THEN 1 ELSE Absent

\* What has been emitted and not delivered is in a subprocess's queue, with
\* the note about the first chunk before that chunk.
Emitted(r, e, p, data) ==
  \/ data = Note /\ e >= 1 /\ Len(delivered[r]) = 0 /\ Route(Where, r, 1) = p
  \/ \E i \in Len(delivered[r]) + 1 .. e : data = Item(r, i) /\ Route(Where, r, i) = p
Outgoing(r, e) ==
  /\ \A p \in Procs :
       /\ InOrder(out_q[p], CallOrder(r))
       /\ \A c \in Members(out_q[p]) : c.r = r =>
            Where # "in_process" /\ Emitted(r, e, p, c.data)
  /\ \A i \in Len(delivered[r]) + 1 .. e :
       /\ Where # "in_process"
       /\ Call(r, Item(r, i)) \in Members(out_q[Route(Where, r, i)])

\* A bulk chunk is taken when there is audio before it, and is blended with
\* its tail.
Blended(r, e) ==
  /\ \A p \in Procs : voc[p][r].finished => e = Count(r) + 1
  /\ voc["remote"][r].audio =>
       e >= 1 /\ (e < Count(r) => voc["remote"][r].tail = e)
  /\ \A k \in HandOf(r) : k # 1 => voc["remote"][r].audio

\* What the engine's side knows: the requests it listens for ...
Listening(r) ==
  Where # "in_process" /\ Len(delivered[r]) <= Count(r) =>
    \A k \in 1 .. handed[r] : k \notin KeptOf(r) => r \in registered[Route(Where, r, k)]

\* ... and, of SplitVoc, the tail that goes out with the second chunk.
FirstHeard(r, e) ==
  /\ parent[r].audio => Len(delivered[r]) >= 1
  /\ Where = "split" /\ e >= 1 /\ Count(r) > 1 =>
       parent[r].tail = 1 \/ Call(r, Note) \in Members(out_q["first"])
  /\ Where = "split" =>
       \A k \in 2 .. handed[r] : k \notin KeptOf(r) => Len(delivered[r]) >= 1
TailSent(r) ==
  r \in sent_tail <=>
    /\ Where = "split" /\ 2 <= handed[r] /\ 2 \notin KeptOf(r)
    /\ handed[r] = Count(r) => Count(r) \in KeptOf(r)

Flow(r, e) ==
  /\ Counts(r, e) /\ OnTheWay(r, e)
  /\ KeptPlaced(r) /\ QueuesPlaced(r) /\ LanesPlaced(r) /\ PipesPlaced(r)
  /\ Outgoing(r, e) /\ Blended(r, e)
  /\ Listening(r) /\ FirstHeard(r, e) /\ TailSent(r)

Flows == \A r \in Regular : \E e \in 0 .. Count(r) + 1 : Flow(r, e)

VInv == Typed /\ Flows

-----------------------------------------------------------------------------
(* Jobs *)

(* A job is the number of a chunk of its request's script. *)
LEMMA JobFacts ==
  /\ \A r \in Requests : Count(r) \in Nat \ {0}
  /\ \A j \in Jobs : /\ j.r \in Requests /\ j.k \in 1 .. Count(j.r)
                     /\ j = Job(j.r, j.k)
                     /\ ChunkOf(j) \in [from : Nat, to : Nat, final : BOOLEAN]
  /\ \A r \in Requests : \A k \in 1 .. Count(r) :
       /\ Job(r, k) \in Jobs /\ Job(r, k) \in JobsOf(r)
       /\ Job(r, k).r = r /\ Job(r, k).k = k
<1>1. \A r \in Requests : Script[r] \in Seq([from : Nat, to : Nat, final : BOOLEAN])
  BY VocoderAssumption
<1>2. \A r \in Requests :
        /\ Count(r) \in Nat \ {0} /\ DOMAIN Script[r] = 1 .. Count(r)
        /\ \A k \in 1 .. Count(r) : Script[r][k] \in [from : Nat, to : Nat, final : BOOLEAN]
  <2> SUFFICES ASSUME NEW r \in Requests
               PROVE  /\ Len(Script[r]) \in Nat \ {0}
                      /\ DOMAIN Script[r] = 1 .. Len(Script[r])
                      /\ \A k \in 1 .. Len(Script[r]) :
                           Script[r][k] \in [from : Nat, to : Nat, final : BOOLEAN]
    BY DEF Count
  <2>1. Len(Script[r]) > 0
    BY ScriptAssumption
  <2>2. /\ Len(Script[r]) \in Nat /\ DOMAIN Script[r] = 1 .. Len(Script[r])
        /\ \A k \in 1 .. Len(Script[r]) :
             Script[r][k] \in [from : Nat, to : Nat, final : BOOLEAN]
    BY <1>1, LenProperties, ElementOfSeq
  <2>3. QED
    BY <2>1, <2>2
<1>3. \A j \in Jobs : \E r \in Requests : \E k \in 1 .. Count(r) : j = [r |-> r, k |-> k]
  BY <1>2 DEF Jobs, JobsOf
<1>4. \A r \in Requests : \A k \in 1 .. Count(r) :
        [r |-> r, k |-> k] \in Jobs /\ [r |-> r, k |-> k] \in JobsOf(r)
  BY <1>2 DEF Jobs, JobsOf
<1>5. QED
  BY <1>2, <1>3, <1>4 DEF Job, ChunkOf

(* The chunks of a regular request: none is an end marker or a top-up, the
   first one is the first chunk, and the last one is final. *)
LEMMA RegularFacts ==
  ASSUME NEW r \in Regular
  PROVE  /\ r \in Requests /\ r \notin MayFail /\ Count(r) \in Nat \ {0}
         /\ \A k \in 1 .. Count(r) :
              /\ ~ IsEnd(Job(r, k)) /\ ~ IsTopup(Job(r, k))
              /\ IsFirst(Job(r, k)) <=> k = 1
              /\ ChunkOf(Job(r, k)).final <=> k = Count(r)
<1>1. r \in Requests /\ r \notin MayFail /\ ~ Unordered(r)
  BY DEF Regular
<1>2. Count(r) \in Nat \ {0}
  BY <1>1, JobFacts
<1>3. \A k \in 1 .. Count(r) : ~ IsEnd(Job(r, k)) /\ ~ IsTopup(Job(r, k))
  BY <1>1, JobFacts DEF Unordered
<1>4. \A k \in 1 .. Count(r) :
        /\ ChunkOf(Job(r, k)) = Script[r][k]
        /\ Script[r][k].from \in Nat /\ Script[r][k].to \in Nat
  BY <1>1, JobFacts DEF ChunkOf
<1>5. \A k \in 1 .. Count(r) :
        /\ Script[r][k].from = (IF k = 1 THEN 0 ELSE Script[r][k - 1].to)
        /\ Script[r][k].to >= Script[r][k].from
        /\ Script[r][k].final <=> k = Count(r)
  BY <1>1, ScriptAssumption DEF Count
<1>6. \A k \in 1 .. Count(r) : Script[r][k].from # Script[r][k].to
  BY <1>3, <1>4 DEF IsEnd
<1>7. \A k \in 1 .. Count(r) : Script[r][k].from = 0 <=> k = 1
  <2> SUFFICES ASSUME NEW k \in 1 .. Count(r), k # 1 PROVE Script[r][k].from # 0
    BY <1>5
  <2>1. k - 1 \in 1 .. Count(r)
    BY <1>2
  <2>2. /\ Script[r][k].from = Script[r][k - 1].to
        /\ Script[r][k - 1].to > Script[r][k - 1].from
        /\ Script[r][k - 1].from \in Nat
    BY <1>4, <1>5, <1>6, <2>1
  <2>3. QED
    BY <1>4, <2>2
<1>8. QED
  BY <1>1, <1>2, <1>3, <1>4, <1>5, <1>7 DEF IsFirst

(* The stream's elements differ, and none is the note. *)
LEMMA ItemFacts ==
  ASSUME NEW r \in Requests
  PROVE  /\ Close \in Data /\ Note \in Data /\ Note # Close /\ NumberOf(r, Note) = 0
         /\ Note.chunk = 0 /\ Note.tail = 1
         /\ \A i \in 1 .. Count(r) + 1 :
              /\ Item(r, i) \in Data /\ NumberOf(r, Item(r, i)) = i
              /\ Item(r, i) # Note
              /\ Item(r, i) = Close <=> i = Count(r) + 1
              /\ Item(r, i) # Close => Item(r, i).chunk = i
<1>1. Close \notin [chunk : Nat, tail : Nat]
  BY VocoderAssumption
<1>2. Count(r) \in Nat \ {0}
  BY JobFacts
<1>3. Note \in [chunk : Nat, tail : Nat] /\ Note.chunk = 0 /\ Note.tail = 1
  BY DEF Note
<1>4. \A i \in 1 .. Count(r) : /\ [chunk |-> i, tail |-> i - 1] \in [chunk : Nat, tail : Nat]
                               /\ [chunk |-> i, tail |-> i - 1].chunk = i
  BY <1>2
<1>5. ASSUME NEW i \in 1 .. Count(r) + 1
      PROVE  /\ Item(r, i) \in Data /\ NumberOf(r, Item(r, i)) = i
             /\ Item(r, i) # Note
             /\ Item(r, i) = Close <=> i = Count(r) + 1
             /\ Item(r, i) # Close => Item(r, i).chunk = i
  <2>1. CASE i = Count(r) + 1
    BY <1>1, <1>3, <2>1 DEF Item, Data, NumberOf
  <2>2. CASE i # Count(r) + 1
    <3>1. i \in 1 .. Count(r) /\ Item(r, i) = [chunk |-> i, tail |-> i - 1]
      BY <1>2, <2>2 DEF Item
    <3>2. Item(r, i) \in [chunk : Nat, tail : Nat] /\ Item(r, i).chunk = i /\ i # 0
      BY <1>4, <3>1
    <3>3. QED
      BY <1>1, <1>3, <2>2, <3>2 DEF Data, NumberOf
  <2>3. QED
    BY <2>1, <2>2
<1>6. QED
  BY <1>1, <1>3, <1>5 DEF Data, NumberOf

(* Where a request's jobs go. *)
LEMMA RouteFacts ==
  ASSUME NEW r \in Requests, NEW where
  PROVE  /\ \A k : Route(where, r, k) \in Procs /\ LaneOf(k) \in Lanes
         /\ \A k \in 2 .. Count(r) : Route(where, r, k) = "remote" /\ LaneOf(k) = "bulk"
         /\ Route(where, r, Count(r) + 1) = Route(where, r, Count(r))
         /\ where # "split" => \A k : Route(where, r, k) = "remote"
         /\ LaneOf(1) = "priority"
         /\ Count(r) > 1 /\ where = "split" => Route(where, r, 1) = "first"
<1>1. Count(r) \in Nat \ {0}
  BY JobFacts
<1>2. QED
  BY <1>1 DEF Route, LaneOf, Procs, Lanes

-----------------------------------------------------------------------------
(* Types *)

(* What the sink of a request gets of some calls. *)
LEMMA DataOfFacts ==
  ASSUME NEW calls \in Seq(Calls), NEW r \in Requests
  PROVE  /\ DataOf(calls, r) \in Seq(Data)
         /\ (\A c \in Members(calls) : c.r # r) => DataOf(calls, r) = <<>>
         /\ (\A c \in Members(calls) : c.r = r) =>
              /\ Len(DataOf(calls, r)) = Len(calls)
              /\ \A i \in 1 .. Len(calls) : DataOf(calls, r)[i] = calls[i].data
<1> DEFINE S == {c \in Members(calls) : c.r = r}
           mine == Keep(calls, S)
           d == DataOf(calls, r)
<1>1. mine \in Seq(Calls)
  BY KeepFacts
<1>2. d = [i \in DOMAIN mine |-> mine[i].data]
  BY DEF DataOf
<1>3. (\A c \in Members(calls) : c.r # r) => mine = <<>>
  <2>1. ASSUME \A c \in Members(calls) : c.r # r PROVE Members(calls) \cap S = {}
    BY <2>1
  <2> HIDE DEF S
  <2>2. QED
    BY <2>1, KeepNone
<1>4. (\A c \in Members(calls) : c.r = r) => mine = calls
  <2>1. ASSUME \A c \in Members(calls) : c.r = r PROVE Members(calls) \subseteq S
    BY <2>1
  <2> HIDE DEF S
  <2>2. QED
    BY <2>1, KeepAll
<1> HIDE DEF mine, d
<1>5. /\ Len(mine) \in Nat /\ DOMAIN mine = 1 .. Len(mine)
      /\ \A i \in 1 .. Len(mine) : mine[i].data \in Data
  <2>1. \A i \in 1 .. Len(mine) : mine[i] \in Calls
    BY <1>1, ElementOfSeq
  <2>2. QED
    BY <1>1, <2>1, LenProperties DEF Calls
<1>6. d \in Seq(Data) /\ Len(d) = Len(mine)
  BY <1>2, <1>5
<1>7. mine = <<>> => d = <<>>
  <2>1. mine = <<>> => Len(d) = 0
    BY <1>6, EmptySeq
  <2>2. d # <<>> => Len(d) # 0
    BY <1>6, EmptySeq
  <2>3. QED
    BY <2>1, <2>2
<1>8. mine = calls => /\ Len(d) = Len(calls)
                      /\ \A i \in 1 .. Len(calls) : d[i] = calls[i].data
  BY <1>2, <1>5, <1>6
<1>9. QED
  BY <1>3, <1>4, <1>6, <1>7, <1>8 DEF d

(* Calls of the sinks of a process go to the callers or to the other process. *)
LEMMA EmitFacts ==
  ASSUME Typed, NEW p \in Procs, NEW calls \in Seq(Calls), Emit(p, calls)
  PROVE  /\ delivered' \in [Requests -> Seq(Data)] /\ out_q' \in [Procs -> Seq(Calls)]
         /\ Where = "in_process" => /\ out_q' = out_q
                                    /\ \A r \in Requests :
                                         delivered'[r] = delivered[r] \o DataOf(calls, r)
         /\ Where # "in_process" => /\ delivered' = delivered
                                    /\ out_q' = [out_q EXCEPT ![p] = @ \o calls]
         /\ \A r \in Requests : Len(delivered[r]) <= Len(delivered'[r])
<1>1. delivered \in [Requests -> Seq(Data)] /\ out_q \in [Procs -> Seq(Calls)]
  BY DEF Typed
<1>2. \A r \in Requests :
        /\ delivered[r] \o DataOf(calls, r) \in Seq(Data)
        /\ Len(delivered[r]) <= Len(delivered[r] \o DataOf(calls, r))
  <2> SUFFICES ASSUME NEW r \in Requests
               PROVE  /\ delivered[r] \o DataOf(calls, r) \in Seq(Data)
                      /\ Len(delivered[r]) <= Len(delivered[r] \o DataOf(calls, r))
    OBVIOUS
  <2>1. delivered[r] \in Seq(Data) /\ DataOf(calls, r) \in Seq(Data)
    BY <1>1, DataOfFacts
  <2>2. Len(delivered[r]) \in Nat /\ Len(DataOf(calls, r)) \in Nat
    BY <2>1, LenProperties
  <2>3. QED
    BY <2>1, <2>2, ConcatProperties
<1>3. \A r \in Requests : Len(delivered[r]) \in Nat
  BY <1>1, LenProperties
<1>4. CASE Where = "in_process"
  <2>1. /\ delivered' = [r \in Requests |-> delivered[r] \o DataOf(calls, r)]
        /\ out_q' = out_q
    BY <1>4 DEF Emit, Deliver
  <2>2. QED
    BY <1>1, <1>2, <1>4, <2>1
<1>5. CASE Where # "in_process"
  <2>1. delivered' = delivered /\ out_q' = [out_q EXCEPT ![p] = @ \o calls]
    BY <1>5 DEF Emit
  <2>2. out_q[p] \o calls \in Seq(Calls)
    BY <1>1, ConcatProperties
  <2>3. QED
    BY <1>1, <1>3, <1>5, <2>1, <2>2
<1>6. QED
  BY <1>4, <1>5

(* Into one queue of a vocoder. *)
LEMMA EnqueueTypes ==
  ASSUME Typed, NEW p \in Procs, NEW j \in Jobs, Enqueue(j, p)
  PROVE  /\ q_first' \in [Procs -> Seq(Jobs)]
         /\ q_topup' \in [Procs -> Seq(Jobs)]
         /\ q' \in [Procs -> Seq(Jobs)]
<1>1. /\ q_first \in [Procs -> Seq(Jobs)]
      /\ q_topup \in [Procs -> Seq(Jobs)]
      /\ q \in [Procs -> Seq(Jobs)]
  BY DEF Typed
<1>2. /\ Append(q_first[p], j) \in Seq(Jobs)
      /\ Append(q_topup[p], j) \in Seq(Jobs)
      /\ Append(q[p], j) \in Seq(Jobs)
  BY <1>1, AppendProperties
<1>3. QED
  BY <1>1, <1>2 DEF Enqueue

(* The job that is handed over, and the types after it. *)
LEMMA HandOverTypes ==
  ASSUME Typed, NEW r \in Requests, HandOver(r)
  PROVE  /\ handed[r] + 1 \in 1 .. Count(r) /\ Job(r, handed[r] + 1) \in Jobs
         /\ Typed'
<1> DEFINE j == Job(r, handed[r] + 1)
           p == IF Where = "split" /\ IsFirst(j) THEN "first" ELSE "remote"
           kept == Where = "split" /\ ~IsFirst(j) /\ ~IsEnd(j)
<1>1. handed[r] \in Nat /\ handed[r] < Count(r) /\ Count(r) \in Nat
  BY JobFacts DEF Typed, HandOver, Count
<1>2. handed[r] + 1 \in 1 .. Count(r) /\ j \in Jobs
  BY <1>1, JobFacts
<1>3. /\ handed' = [handed EXCEPT ![r] = @ + 1]
      /\ IF Where = "in_process" THEN Enqueue(j, p)
         ELSE UNCHANGED <<q_first, q_topup, q>>
      /\ IF Where = "in_process" \/ kept THEN UNCHANGED <<in_q, registered>>
         ELSE /\ in_q' = [in_q EXCEPT ![p] = Append(@, Message(j, Absent))]
              /\ registered' = [registered EXCEPT ![p] = @ \cup {r}]
      /\ pending' = IF kept THEN Append(pending, j) ELSE pending
      /\ UNCHANGED <<deployment, streak, last_width, lane, voc, delivered, failed,
                     sent_tail, parent, out_q>>
  BY DEF HandOver, Job
<1>4. p \in Procs
  BY DEF Procs
<1> HIDE DEF j, p, kept
<1>5. /\ q_first' \in [Procs -> Seq(Jobs)]
      /\ q_topup' \in [Procs -> Seq(Jobs)]
      /\ q' \in [Procs -> Seq(Jobs)]
  <2>1. CASE Where = "in_process"
    BY <1>2, <1>3, <1>4, <2>1, EnqueueTypes
  <2>2. CASE Where # "in_process"
    BY <1>3, <2>2 DEF Typed
  <2>3. QED
    BY <2>1, <2>2
<1>6. in_q' \in [Procs -> Seq(Messages)] /\ registered' \in [Procs -> SUBSET Requests]
  <2>1. in_q \in [Procs -> Seq(Messages)] /\ registered \in [Procs -> SUBSET Requests]
    BY DEF Typed
  <2>2. Message(j, Absent) \in Messages
    BY <1>2 DEF Message, Messages
  <2>3. Append(in_q[p], Message(j, Absent)) \in Seq(Messages)
    BY <1>4, <2>1, <2>2, AppendProperties
  <2>4. QED
    BY <1>3, <1>4, <2>1, <2>3
<1>7. pending' \in Seq(Jobs)
  BY <1>2, <1>3, AppendProperties DEF Typed
<1>8. /\ handed' \in [Requests -> Nat]
      /\ \A i \in Requests : handed'[i] <= Len(Script[i])
  BY <1>1, <1>3 DEF Typed, Count
<1>9. /\ deployment' = deployment /\ streak' = streak /\ last_width' = last_width
      /\ lane' = lane /\ voc' = voc /\ delivered' = delivered /\ failed' = failed
      /\ sent_tail' = sent_tail /\ parent' = parent /\ out_q' = out_q
  BY <1>3
<1>10. Typed'
  BY <1>5, <1>6, <1>7, <1>8, <1>9 DEF Typed
<1>11. QED
  BY <1>2, <1>10 DEF j

-----------------------------------------------------------------------------
\* What leaves with a flush, and with which tails.
Ready == Keep(pending, {j \in Members(pending) : parent[j.r].audio})
Heralds(i) ==
  Ready[i].r \notin sent_tail /\ \A h \in 1 .. i - 1 : Ready[h].r # Ready[i].r
Sent == [i \in DOMAIN Ready |->
           Message(Ready[i], IF Heralds(i) THEN parent[Ready[i].r].tail ELSE Absent)]

(* A flush, in these terms. *)
LEMMA FlushIs ==
  ASSUME Flush
  PROVE  /\ Ready # <<>>
         /\ pending' = Without(pending, Members(Ready))
         /\ in_q' = [in_q EXCEPT !["remote"] = @ \o Sent]
         /\ registered' = [registered EXCEPT !["remote"] = @ \cup {j.r : j \in Members(Ready)}]
         /\ sent_tail' = SentTail(Members(Ready))
         /\ UNCHANGED <<deployment, handed, localVars, delivered, parent, out_q>>
BY DEF Flush, Ready, Sent, Heralds

(* What leaves, and its messages. *)
LEMMA FlushFacts ==
  ASSUME Typed, Flush
  PROVE  /\ Ready \in Seq(Jobs) /\ Members(Ready) = {j \in Members(pending) : parent[j.r].audio}
         /\ Sent \in Seq(Messages) /\ Len(Sent) = Len(Ready) /\ Len(Ready) \in Nat
         /\ \A i \in 1 .. Len(Ready) :
              /\ Sent[i].job = Ready[i]
              /\ Sent[i].tail = IF Heralds(i) THEN parent[Ready[i].r].tail ELSE Absent
         /\ pending' \in Seq(Jobs) /\ Members(pending') = Members(pending) \ Members(Ready)
         /\ Typed'
<1>1. pending \in Seq(Jobs) /\ parent \in [Requests -> [tail : Nat, audio : BOOLEAN]]
  BY DEF Typed
<1>2. Ready \in Seq(Jobs) /\ Members(Ready) = {j \in Members(pending) : parent[j.r].audio}
  <2> DEFINE S == {j \in Members(pending) : parent[j.r].audio}
  <2>1. S \subseteq Members(pending)
    OBVIOUS
  <2>2. Ready = Keep(pending, S)
    BY DEF Ready
  <2> HIDE DEF S
  <2>3. Ready \in Seq(Jobs) /\ Members(Ready) = Members(pending) \cap S
    BY <1>1, <2>2, KeepFacts
  <2>4. QED
    BY <2>1, <2>3 DEF S
<1>3. /\ Len(Ready) \in Nat /\ DOMAIN Ready = 1 .. Len(Ready)
      /\ \A i \in 1 .. Len(Ready) : Ready[i] \in Jobs /\ Ready[i].r \in Requests
  BY <1>2, LenProperties, ElementOfSeq, JobFacts
<1>4. \A i \in 1 .. Len(Ready) :
        Message(Ready[i], IF Heralds(i) THEN parent[Ready[i].r].tail ELSE Absent) \in Messages
  <2> SUFFICES ASSUME NEW i \in 1 .. Len(Ready)
               PROVE  Message(Ready[i], IF Heralds(i) THEN parent[Ready[i].r].tail
                                        ELSE Absent) \in Messages
    OBVIOUS
  <2>1. parent[Ready[i].r].tail \in Nat
    BY <1>1, <1>3
  <2>2. QED
    BY <1>3, <2>1 DEF Message, Messages
<1>5. Sent \in Seq(Messages) /\ Len(Sent) = Len(Ready)
  BY <1>3, <1>4 DEF Sent
<1>6. \A i \in 1 .. Len(Ready) :
        /\ Sent[i].job = Ready[i]
        /\ Sent[i].tail = IF Heralds(i) THEN parent[Ready[i].r].tail ELSE Absent
  BY <1>3 DEF Sent, Message
<1>7. pending' \in Seq(Jobs) /\ Members(pending') = Members(pending) \ Members(Ready)
  <2> DEFINE S == Members(pending) \ Members(Ready)
  <2>1. pending' = Keep(pending, S)
    BY FlushIs DEF Without
  <2> HIDE DEF S
  <2>2. pending' \in Seq(Jobs) /\ Members(pending') = Members(pending) \cap S
    BY <1>1, <2>1, KeepFacts
  <2>3. QED
    BY <2>2 DEF S
<1>8. in_q' \in [Procs -> Seq(Messages)]
  <2>1. in_q \in [Procs -> Seq(Messages)] /\ "remote" \in Procs
    BY DEF Typed, Procs
  <2>2. in_q["remote"] \o Sent \in Seq(Messages)
    BY <1>5, <2>1, ConcatProperties
  <2>3. QED
    BY <2>1, <2>2, FlushIs
<1>9. \A j \in Members(Ready) : j \in Jobs /\ j.r \in Requests
  BY <1>2, MembersFacts, JobFacts
<1>10. registered' \in [Procs -> SUBSET Requests]
  <2>1. registered \in [Procs -> SUBSET Requests] /\ "remote" \in Procs
    BY DEF Typed, Procs
  <2>2. {j.r : j \in Members(Ready)} \subseteq Requests
    BY <1>9
  <2>3. QED
    BY <2>1, <2>2, FlushIs
<1>11. sent_tail' \subseteq Requests
  <2>1. sent_tail \subseteq Requests /\ {j.r : j \in Members(Ready)} \subseteq Requests
    BY <1>9 DEF Typed
  <2>2. SentTail(Members(Ready)) \subseteq sent_tail \cup {j.r : j \in Members(Ready)}
    BY DEF SentTail
  <2>3. QED
    BY <2>1, <2>2, FlushIs
<1>12. /\ UNCHANGED <<deployment, handed, delivered, parent, out_q>>
       /\ UNCHANGED <<q_first, q_topup, q, streak, last_width, lane, voc, failed>>
  BY FlushIs DEF localVars
<1>13. Typed'
  BY <1>7, <1>8, <1>10, <1>11, <1>12 DEF Typed
<1>14. QED
  BY <1>2, <1>3, <1>5, <1>6, <1>7, <1>13

-----------------------------------------------------------------------------
(* A tail that comes with a job becomes the tail of its request. *)
LEMMA SetTail ==
  ASSUME NEW f \in [Procs -> [Requests -> VocStates]], NEW p \in Procs,
         NEW x \in Requests, NEW t \in Nat
  PROVE  LET g == [f EXCEPT ![p][x].tail = t, ![p][x].audio = TRUE]
         IN  /\ g \in [Procs -> [Requests -> VocStates]]
             /\ \A s \in Procs, r \in Requests : s # p \/ r # x => g[s][r] = f[s][r]
             /\ g[p][x].tail = t /\ g[p][x].audio
             /\ g[p][x].finished <=> f[p][x].finished
<1> DEFINE g == [f EXCEPT ![p][x].tail = t, ![p][x].audio = TRUE]
           v == [f[p][x] EXCEPT !.tail = t, !.audio = TRUE]
<1>1. f[p] \in [Requests -> VocStates] /\ f[p][x] \in VocStates
  OBVIOUS
<1>2. v \in VocStates /\ v.tail = t /\ v.audio /\ (v.finished <=> f[p][x].finished)
  BY <1>1 DEF VocStates
<1>3. g = [f EXCEPT ![p] = [f[p] EXCEPT ![x] = v]]
  OBVIOUS
<1> HIDE DEF v, g
<1>4. [f[p] EXCEPT ![x] = v] \in [Requests -> VocStates]
  BY <1>1, <1>2
<1>5. QED
  BY <1>1, <1>2, <1>3, <1>4 DEF g

(* The message that a subprocess takes, and the types after it. *)
LEMMA PumpTypes ==
  ASSUME Typed, NEW p \in Procs, Pump(p)
  PROVE  /\ in_q[p] # <<>> /\ Head(in_q[p]) \in Messages /\ Head(in_q[p]).job \in Jobs
         /\ Typed'
<1> DEFINE m == Head(in_q[p])
<1>1. /\ in_q \in [Procs -> Seq(Messages)]
      /\ voc \in [Procs -> [Requests -> VocStates]]
  BY DEF Typed
<1>2. /\ in_q[p] # <<>>
      /\ in_q' = [in_q EXCEPT ![p] = Tail(@)]
      /\ voc' = IF m.tail = Absent THEN voc
                ELSE [voc EXCEPT ![p][m.job.r].tail = m.tail, ![p][m.job.r].audio = TRUE]
      /\ Enqueue(m.job, p)
      /\ UNCHANGED <<deployment, handed, streak, last_width, lane, delivered, failed>>
      /\ UNCHANGED <<pending, sent_tail, parent, registered, out_q>>
  BY DEF Pump, clientVars
<1>3. m \in Messages /\ Tail(in_q[p]) \in Seq(Messages)
  BY <1>1, <1>2, HeadTailFacts
<1> HIDE DEF m
<1>4. m.job \in Jobs /\ m.tail \in {Absent} \cup Nat
  BY <1>3 DEF Messages
<1>5. m.job.r \in Requests
  BY <1>4, JobFacts
<1>6. voc' \in [Procs -> [Requests -> VocStates]]
  <2>1. CASE m.tail = Absent
    BY <1>1, <1>2, <2>1
  <2>2. CASE m.tail # Absent
    <3>1. m.tail \in Nat
      BY <1>4, <2>2
    <3> DEFINE x == m.job.r
               t == m.tail
    <3>2. [voc EXCEPT ![p][x].tail = t, ![p][x].audio = TRUE]
            \in [Procs -> [Requests -> VocStates]]
      <4>1. x \in Requests /\ t \in Nat
        BY <1>5, <3>1
      <4> HIDE DEF x, t
      <4>2. QED
        BY <1>1, <4>1, SetTail
    <3>3. QED
      BY <1>2, <2>2, <3>2
  <2>3. QED
    BY <2>1, <2>2
<1>7. /\ q_first' \in [Procs -> Seq(Jobs)]
      /\ q_topup' \in [Procs -> Seq(Jobs)]
      /\ q' \in [Procs -> Seq(Jobs)]
  BY <1>2, <1>4, EnqueueTypes
<1>8. in_q' \in [Procs -> Seq(Messages)]
  BY <1>1, <1>2, <1>3
<1>9. Typed'
  BY <1>2, <1>6, <1>7, <1>8 DEF Typed
<1>10. QED
  BY <1>2, <1>3, <1>4, <1>9 DEF m

-----------------------------------------------------------------------------
(* The states of a lane, and what it has in hand in each. *)
LEMMA LaneFacts ==
  /\ Idle \in LaneStates /\ Hand(Idle) = <<>>
  /\ \A jobs \in Seq(Jobs) : jobs # <<>> =>
       LET ln == [stage |-> "taken", jobs |-> jobs, todo |-> <<>>]
       IN  ln \in LaneStates /\ Hand(ln) = jobs
  /\ \A jobs, todo \in Seq(Jobs) : jobs # <<>> /\ todo # <<>> =>
       LET ln == [stage |-> "gpu", jobs |-> jobs, todo |-> todo]
       IN  ln \in LaneStates /\ Hand(ln) = todo
  /\ \A ln \in LaneStates :
       /\ ln.jobs \in Seq(Jobs) /\ ln.todo \in Seq(Jobs)
       /\ ln.stage = "taken" => ln.jobs # <<>> /\ Hand(ln) = ln.jobs
       /\ ln.stage = "gpu" => ln.jobs # <<>> /\ ln.todo # <<>> /\ Hand(ln) = ln.todo
       /\ Hand(ln) \in Seq(Jobs)
<1>1. <<>> \in Seq(Jobs)
  BY EmptySeq
<1>2. QED
  BY <1>1 DEF LaneStates, Idle, Hand

(* The first job is done: what remains is in hand. *)
LEMMA OneDoneFacts ==
  ASSUME NEW ln \in LaneStates, ln.stage = "gpu"
  PROVE  /\ Head(ln.todo) \in Jobs
         /\ OneDone(ln) \in LaneStates
         /\ Hand(OneDone(ln)) = Tail(ln.todo)
<1>1. /\ ln.jobs \in Seq(Jobs) /\ ln.jobs # <<>>
      /\ ln.todo \in Seq(Jobs) /\ ln.todo # <<>>
  BY LaneFacts
<1>2. /\ Head(ln.todo) \in Jobs /\ Tail(ln.todo) \in Seq(Jobs)
      /\ Tail(ln.todo) = <<>> <=> Len(ln.todo) = 1
  BY <1>1, HeadTailFacts
<1>3. CASE Len(ln.todo) = 1
  <2>1. OneDone(ln) = Idle
    BY <1>3 DEF OneDone
  <2>2. QED
    BY <1>2, <1>3, <2>1, LaneFacts
<1>4. CASE Len(ln.todo) # 1
  <2> DEFINE t == Tail(ln.todo)
             n == [stage |-> "gpu", jobs |-> ln.jobs, todo |-> t]
  <2>1. ln \in [stage : {"idle", "taken", "gpu"}, jobs : Seq(Jobs), todo : Seq(Jobs)]
    BY DEF LaneStates
  <2>2. OneDone(ln) = [ln EXCEPT !.todo = t]
    BY <1>4 DEF OneDone
  <2>3. t \in Seq(Jobs) /\ t # <<>>
    BY <1>2, <1>4
  <2> HIDE DEF t
  <2>4. OneDone(ln) = n
    BY <1>1, <2>1, <2>2
  <2>5. n \in LaneStates /\ Hand(n) = t
    BY <1>1, <2>3, LaneFacts
  <2> HIDE DEF n
  <2>6. QED
    BY <1>2, <2>4, <2>5 DEF t
<1>5. QED
  BY <1>3, <1>4

(* What stays in a queue when some jobs are taken. *)
LEMMA WithoutFacts ==
  ASSUME NEW X, NEW s \in Seq(X), NEW S
  PROVE  /\ Without(s, S) \in Seq(X) /\ Members(Without(s, S)) = Members(s) \ S
         /\ \A R : InOrder(s, R) => InOrder(Without(s, S), R)
<1> DEFINE K == Members(s) \ S
<1>1. Without(s, S) = Keep(s, K)
  BY DEF Without
<1> HIDE DEF K
<1>2. /\ Keep(s, K) \in Seq(X) /\ Members(Keep(s, K)) = Members(s) \cap K
      /\ \A R : InOrder(s, R) => InOrder(Keep(s, K), R)
  BY KeepFacts, OrderKept
<1>3. QED
  BY <1>1, <1>2 DEF K

(* The priority lane takes first chunks or top-ups. *)
LEMMA TakeFirstFacts ==
  ASSUME Typed, NEW p \in Procs, TakeFirst(p)
  PROVE  /\ \E jobs \in Seq(Jobs) :
              /\ jobs # <<>>
              /\ Members(jobs) \subseteq Members(q_first[p]) \/ Members(jobs) \subseteq Members(q_topup[p])
              /\ \A R : InOrder(q_first[p], R) /\ InOrder(q_topup[p], R) => InOrder(jobs, R)
              /\ lane[p]["priority"] = Idle
              /\ lane' = [lane EXCEPT ![p]["priority"] =
                            [stage |-> "taken", jobs |-> jobs, todo |-> <<>>]]
              /\ q_first' = [q_first EXCEPT ![p] = Without(@, Members(jobs))]
              /\ q_topup' = [q_topup EXCEPT ![p] = Without(@, Members(jobs))]
         /\ Typed'
<1> DEFINE use_first == q_first[p] # <<>> /\ (q_topup[p] = <<>> \/ streak[p] < StreakMax)
           A == {j \in Members(q_first[p]) : TRUE}
           B == {j \in Members(q_topup[p]) : Width(j) = NextWidth(p)}
           n == FirstMaxBatch
           a == SubSeq(Keep(q_first[p], A), 1,
                       IF Len(Keep(q_first[p], A)) < n THEN Len(Keep(q_first[p], A)) ELSE n)
           b == SubSeq(Keep(q_topup[p], B), 1,
                       IF Len(Keep(q_topup[p], B)) < n THEN Len(Keep(q_topup[p], B)) ELSE n)
           jobs == IF use_first THEN a ELSE b
<1>1. /\ lane[p]["priority"] = Idle
      /\ jobs # <<>>
      /\ lane' = [lane EXCEPT ![p]["priority"] =
                    [stage |-> "taken", jobs |-> jobs, todo |-> <<>>]]
      /\ q_first' = [q_first EXCEPT ![p] = Without(@, Members(jobs))]
      /\ q_topup' = [q_topup EXCEPT ![p] = Without(@, Members(jobs))]
      /\ streak' = [streak EXCEPT ![p] = IF ~use_first THEN 0
                                         ELSE IF @ < StreakMax THEN @ + 1 ELSE @]
      /\ last_width' = IF use_first THEN last_width
                       ELSE [last_width EXCEPT ![p] = NextWidth(p)]
      /\ UNCHANGED <<deployment, handed, q, voc, delivered, failed, clientVars,
                     in_q, out_q>>
  BY DEF TakeFirst, FirstThat
<1>2. /\ q_first[p] \in Seq(Jobs) /\ q_topup[p] \in Seq(Jobs) /\ n \in Nat
      /\ StreakMax \in Nat
  BY VocoderAssumption DEF Typed
<1>3. \A j \in B : j \in Jobs /\ NextWidth(p) = Width(j)
  BY <1>2, MembersFacts
<1> HIDE DEF A, B, n, use_first
<1>4. /\ a \in Seq(Jobs) /\ Members(a) \subseteq Members(q_first[p]) \cap A
      /\ \A R : InOrder(q_first[p], R) => InOrder(a, R)
  BY <1>2, FirstFew, OrderFirstKept
<1>5. /\ b \in Seq(Jobs) /\ Members(b) \subseteq Members(q_topup[p]) \cap B
      /\ \A R : InOrder(q_topup[p], R) => InOrder(b, R)
  BY <1>2, FirstFew, OrderFirstKept
<1> HIDE DEF a, b
<1>6. /\ jobs \in Seq(Jobs)
      /\ Members(jobs) \subseteq Members(q_first[p]) \/ Members(jobs) \subseteq Members(q_topup[p])
      /\ \A R : InOrder(q_first[p], R) /\ InOrder(q_topup[p], R) => InOrder(jobs, R)
  BY <1>4, <1>5
<1>7. last_width' \in [Procs -> Int]
  <2>1. CASE use_first
    BY <1>1, <2>1 DEF Typed
  <2>2. CASE ~use_first
    <3>1. jobs = b /\ b # <<>>
      BY <1>1, <2>2
    <3>2. PICK j \in Members(b) : TRUE
      BY <1>5, <3>1, MembersFacts
    <3>3. j \in Jobs /\ NextWidth(p) = Width(j)
      BY <1>3, <1>5, <3>2
    <3>4. Width(j) \in Int
      <4>1. ChunkOf(j).from \in Nat /\ ChunkOf(j).to \in Nat /\ Lookback \in Nat
        BY <3>3, JobFacts, VocoderAssumption
      <4>2. QED
        BY <4>1 DEF Width
    <3>5. QED
      BY <1>1, <2>2, <3>3, <3>4 DEF Typed
  <2>3. QED
    BY <2>1, <2>2
<1> HIDE DEF jobs
<1>8. streak' \in [Procs -> 0 .. StreakMax]
  <2>1. streak \in [Procs -> 0 .. StreakMax]
    BY DEF Typed
  <2>2. 0 \in 0 .. StreakMax /\ (streak[p] < StreakMax => streak[p] + 1 \in 0 .. StreakMax)
    BY <1>2, <2>1
  <2>3. QED
    BY <1>1, <2>1, <2>2
<1>9. lane' \in [Procs -> [Lanes -> LaneStates]]
  <2>1. [stage |-> "taken", jobs |-> jobs, todo |-> <<>>] \in LaneStates
    BY <1>1, <1>6, LaneFacts
  <2>2. QED
    BY <1>1, <2>1 DEF Typed, Lanes
<1>10. q_first' \in [Procs -> Seq(Jobs)] /\ q_topup' \in [Procs -> Seq(Jobs)]
  <2>1. Without(q_first[p], Members(jobs)) \in Seq(Jobs) /\ Without(q_topup[p], Members(jobs)) \in Seq(Jobs)
    BY <1>2, WithoutFacts
  <2>2. QED
    BY <1>1, <2>1 DEF Typed
<1>11. Typed'
  BY <1>1, <1>7, <1>8, <1>9, <1>10 DEF Typed, clientVars
<1>12. QED
  BY <1>1, <1>6, <1>11

(* The bulk lane takes what may go, in the order of its queue. *)
LEMMA TakeBulkFacts ==
  ASSUME Typed, NEW p \in Procs, TakeBulk(p)
  PROVE  /\ \E jobs \in Seq(Jobs) :
              /\ jobs # <<>>
              /\ \A j \in Members(jobs) : j \in Members(q[p]) /\ MayGo(j, p)
              /\ \A R : InOrder(q[p], R) =>
                   /\ InOrder(jobs, R)
                   /\ \A x \in Members(jobs), y \in Members(q[p]) \ Members(jobs) :
                        MayGo(y, p) => <<x, y>> \in R
              /\ lane[p]["bulk"] = Idle
              /\ lane' = [lane EXCEPT ![p]["bulk"] =
                            [stage |-> "taken", jobs |-> jobs, todo |-> <<>>]]
              /\ q' = [q EXCEPT ![p] = Without(@, Members(jobs))]
         /\ Typed'
<1> DEFINE A == {j \in Members(q[p]) : MayGo(j, p)}
           n == MaxBatch
           jobs == SubSeq(Keep(q[p], A), 1,
                          IF Len(Keep(q[p], A)) < n THEN Len(Keep(q[p], A)) ELSE n)
<1>1. /\ lane[p]["bulk"] = Idle
      /\ jobs # <<>>
      /\ lane' = [lane EXCEPT ![p]["bulk"] =
                    [stage |-> "taken", jobs |-> jobs, todo |-> <<>>]]
      /\ q' = [q EXCEPT ![p] = Without(@, Members(jobs))]
      /\ UNCHANGED <<deployment, handed, q_first, q_topup, streak, last_width, voc,
                     delivered, failed, clientVars, in_q, out_q>>
  BY DEF TakeBulk, FirstThat
<1>2. q[p] \in Seq(Jobs) /\ n \in Nat
  BY VocoderAssumption DEF Typed
<1>3. \A j : j \in A <=> j \in Members(q[p]) /\ MayGo(j, p)
  OBVIOUS
<1> HIDE DEF A, n
<1>4. /\ jobs \in Seq(Jobs) /\ Members(jobs) \subseteq Members(q[p]) \cap A
      /\ \A R : InOrder(q[p], R) =>
           /\ InOrder(jobs, R)
           /\ \A x \in Members(jobs), y \in (Members(q[p]) \cap A) \ Members(jobs) :
                <<x, y>> \in R
  BY <1>2, FirstFew, OrderFirstKept
<1> HIDE DEF jobs
<1>5. lane' \in [Procs -> [Lanes -> LaneStates]]
  <2>1. [stage |-> "taken", jobs |-> jobs, todo |-> <<>>] \in LaneStates
    BY <1>1, <1>4, LaneFacts
  <2>2. QED
    BY <1>1, <2>1 DEF Typed, Lanes
<1>6. q' \in [Procs -> Seq(Jobs)]
  <2>1. Without(q[p], Members(jobs)) \in Seq(Jobs)
    BY <1>2, WithoutFacts
  <2>2. QED
    BY <1>1, <2>1 DEF Typed
<1>7. Typed'
  BY <1>1, <1>5, <1>6 DEF Typed, clientVars
<1>8. /\ \A j \in Members(jobs) : j \in Members(q[p]) /\ MayGo(j, p)
      /\ \A R : InOrder(q[p], R) =>
           /\ InOrder(jobs, R)
           /\ \A x \in Members(jobs), y \in Members(q[p]) \ Members(jobs) :
                MayGo(y, p) => <<x, y>> \in R
  BY <1>3, <1>4
<1>9. QED
  BY <1>1, <1>4, <1>7, <1>8

(* The calls that close the streams of some jobs. *)
LEMMA CloseCalls ==
  ASSUME NEW jobs \in Seq(Jobs)
  PROVE  LET calls == [i \in DOMAIN jobs |-> Call(jobs[i].r, Close)]
         IN  /\ calls \in Seq(Calls)
             /\ \A c \in Members(calls) : \E j \in Members(jobs) : c.r = j.r
<1> DEFINE calls == [i \in DOMAIN jobs |-> Call(jobs[i].r, Close)]
<1>1. /\ Len(jobs) \in Nat /\ DOMAIN jobs = 1 .. Len(jobs)
      /\ \A i \in 1 .. Len(jobs) : jobs[i].r \in Requests
  <2>1. \A i \in 1 .. Len(jobs) : jobs[i] \in Jobs
    BY ElementOfSeq
  <2>2. QED
    BY <2>1, JobFacts, LenProperties
<1>2. \A r \in Requests : Call(r, Close) \in Calls /\ Call(r, Close).r = r
  BY DEF Call, Calls, Data
<1>3. calls \in Seq(Calls)
  BY <1>1, <1>2
<1>4. \A i \in 1 .. Len(jobs) : calls[i].r = jobs[i].r
  BY <1>1, <1>2
<1>5. DOMAIN calls = 1 .. Len(jobs)
  BY <1>1
<1> HIDE DEF calls
<1>6. \A c \in Members(calls) : \E j \in Members(jobs) : c.r = j.r
  BY <1>1, <1>4, <1>5 DEF Members
<1>7. QED
  BY <1>3, <1>6 DEF calls

(* End markers close their streams, the other jobs stay in hand. *)
LEMMA ProcessStartFacts ==
  ASSUME Typed, NEW p \in Procs, NEW l \in Lanes, ProcessStart(p, l)
  PROVE  /\ \E calls \in Seq(Calls) :
              /\ Emit(p, calls)
              /\ \A c \in Members(calls) :
                   \E j \in Members(Hand(lane[p][l])) : IsEnd(j) /\ c.r = j.r
         /\ \A s \in Procs, r \in Requests :
              voc'[s][r] # voc[s][r] =>
                \E j \in Members(Hand(lane[p][l])) : IsEnd(j) /\ j.r = r
         /\ Members(Hand(lane'[p][l])) = {j \in Members(Hand(lane[p][l])) : ~ IsEnd(j)}
         /\ \A R : InOrder(Hand(lane[p][l]), R) => InOrder(Hand(lane'[p][l]), R)
         /\ \A s \in Procs, m \in Lanes : s # p \/ m # l => lane'[s][m] = lane[s][m]
         /\ Typed'
<1> DEFINE jobs == lane[p][l].jobs
           N == {j \in Members(jobs) : ~IsEnd(j)}
           E == {j \in Members(jobs) : IsEnd(j) /\ ~voc[p][j.r].finished}
           real == Keep(jobs, N)
           ends == Keep(jobs, E)
           calls == [i \in DOMAIN ends |-> Call(ends[i].r, Close)]
           ln == IF real = <<>> THEN Idle
                 ELSE [stage |-> "gpu", jobs |-> jobs, todo |-> real]
<1>1. /\ lane[p][l].stage = "taken"
      /\ Emit(p, calls)
      /\ voc' = [voc EXCEPT ![p] =
                   [r \in Requests |->
                      [voc[p][r] EXCEPT !.finished = @ \/ \E j \in Members(ends) : j.r = r]]]
      /\ lane' = [lane EXCEPT ![p][l] = ln]
      /\ UNCHANGED <<deployment, handed, q_first, q_topup, q, streak, last_width,
                     failed, clientVars, in_q>>
  BY DEF ProcessStart
<1>2. lane[p][l] \in LaneStates /\ lane \in [Procs -> [Lanes -> LaneStates]]
  BY DEF Typed
<1>3. jobs \in Seq(Jobs) /\ jobs # <<>> /\ Hand(lane[p][l]) = jobs
  BY <1>1, <1>2, LaneFacts
<1>4. /\ \A j : j \in E => j \in Members(jobs) /\ IsEnd(j)
      /\ N = {j \in Members(jobs) : ~IsEnd(j)} /\ N \subseteq Members(jobs)
  OBVIOUS
<1> HIDE DEF E, N, jobs
<1>5. /\ real \in Seq(Jobs) /\ Members(real) = N
      /\ \A R : InOrder(jobs, R) => InOrder(real, R)
  BY <1>3, <1>4, KeepFacts, OrderKept
<1>6. ends \in Seq(Jobs) /\ \A j \in Members(ends) : j \in Members(jobs) /\ IsEnd(j)
  BY <1>3, <1>4, KeepFacts
<1> HIDE DEF real, ends
<1>7. calls \in Seq(Calls) /\ \A c \in Members(calls) : \E j \in Members(ends) : c.r = j.r
  BY <1>6, CloseCalls
<1>8. ln \in LaneStates /\ Hand(ln) = real
  BY <1>3, <1>5, LaneFacts
<1> HIDE DEF calls, ln
<1>9. /\ lane' \in [Procs -> [Lanes -> LaneStates]]
      /\ lane'[p][l] = ln
      /\ \A s \in Procs, m \in Lanes : s # p \/ m # l => lane'[s][m] = lane[s][m]
  BY <1>1, <1>2, <1>8
<1>10. voc \in [Procs -> [Requests -> VocStates]]
  BY DEF Typed
<1> DEFINE T(r) == \E j \in Members(ends) : j.r = r
           w == [r \in Requests |-> [voc[p][r] EXCEPT !.finished = @ \/ T(r)]]
<1>11. voc' = [voc EXCEPT ![p] = w]
  BY <1>1
<1>12. \A r \in Requests : T(r) \in BOOLEAN
  OBVIOUS
<1>13. \A r \in Requests : ~ T(r) \/ \E j \in Members(jobs) : IsEnd(j) /\ j.r = r
  BY <1>6
<1> HIDE DEF T
<1>14. ASSUME NEW r \in Requests PROVE w[r] \in VocStates /\ (~ T(r) => w[r] = voc[p][r])
  <2> DEFINE v == voc[p][r]
             b == v.finished \/ T(r)
  <2>1. v \in VocStates /\ w[r] = [v EXCEPT !.finished = b]
    BY <1>10
  <2>2. b \in BOOLEAN /\ (~ T(r) => b = v.finished)
    <3>1. v.finished \in BOOLEAN
      BY <2>1 DEF VocStates
    <3>2. QED
      BY <1>12, <3>1
  <2> HIDE DEF v, b, w
  <2>3. w[r] \in VocStates
    BY <2>1, <2>2 DEF VocStates
  <2>4. [v EXCEPT !.finished = v.finished] = v
    BY <2>1 DEF VocStates
  <2>5. QED
    BY <2>1, <2>2, <2>3, <2>4 DEF v
<1>15. w \in [Requests -> VocStates]
  BY <1>14
<1> HIDE DEF w
<1>16. /\ voc' \in [Procs -> [Requests -> VocStates]]
       /\ \A s \in Procs, r \in Requests : voc'[s][r] = IF s = p THEN w[r] ELSE voc[s][r]
  BY <1>10, <1>11, <1>15
<1>17. \A s \in Procs, r \in Requests :
         voc'[s][r] # voc[s][r] => \E j \in Members(jobs) : IsEnd(j) /\ j.r = r
  BY <1>13, <1>14, <1>16
<1>18. delivered' \in [Requests -> Seq(Data)] /\ out_q' \in [Procs -> Seq(Calls)]
  BY <1>1, <1>7, EmitFacts
<1>19. Typed'
  BY <1>1, <1>9, <1>16, <1>18 DEF Typed, clientVars
<1>20. \A c \in Members(calls) : \E j \in Members(jobs) : IsEnd(j) /\ c.r = j.r
  BY <1>6, <1>7
<1>21. Emit(p, calls)
  BY <1>1
<1>22. /\ Members(Hand(lane'[p][l])) = {j \in Members(jobs) : ~ IsEnd(j)}
       /\ \A R : InOrder(jobs, R) => InOrder(Hand(lane'[p][l]), R)
  BY <1>4, <1>5, <1>8, <1>9
<1>23. QED
  BY <1>3, <1>7, <1>9, <1>17, <1>19, <1>20, <1>21, <1>22

\* What _postprocess says of job j: a note with the tail of a first chunk,
\* the audio, and the end.
Noted(j) ==
  IF IsFirst(j) /\ ~ ChunkOf(j).final /\ j.k # NoTail /\ Where # "in_process"
  THEN <<Call(j.r, [chunk |-> 0, tail |-> j.k])>> ELSE <<>>
Audio(p, j) ==
  <<Call(j.r, [chunk |-> j.k, tail |-> IF IsFirst(j) THEN NoTail ELSE voc[p][j.r].tail])>>
Ended(p, j) ==
  IF ChunkOf(j).final /\ ~voc[p][j.r].finished THEN <<Call(j.r, Close)>> ELSE <<>>

(* A job of a batch is done. *)
LEMMA PostprocessFacts ==
  ASSUME Typed, NEW p \in Procs, NEW l \in Lanes, Postprocess(p, l)
  PROVE  LET j == Head(Hand(lane[p][l]))
         IN  /\ Hand(lane[p][l]) # <<>> /\ j \in Jobs
             /\ Emit(p, Noted(j) \o Audio(p, j) \o Ended(p, j))
             /\ Noted(j) \in Seq(Calls) /\ Audio(p, j) \in Seq(Calls) /\ Ended(p, j) \in Seq(Calls)
             /\ Hand(lane'[p][l]) = Tail(Hand(lane[p][l]))
             /\ \A s \in Procs, m \in Lanes : s # p \/ m # l => lane'[s][m] = lane[s][m]
             /\ \A s \in Procs, r \in Requests : s # p \/ r # j.r => voc'[s][r] = voc[s][r]
             /\ voc'[p][j.r].audio
             /\ voc'[p][j.r].tail = IF ChunkOf(j).final THEN NoTail ELSE j.k
             /\ voc'[p][j.r].finished => voc[p][j.r].finished \/ ChunkOf(j).final
             /\ Typed'
<1> DEFINE ln == lane[p][l]
           j == Head(ln.todo)
           st == voc[p][j.r]
           tail == IF ChunkOf(j).final THEN NoTail ELSE j.k
           send == IsFirst(j) /\ tail # NoTail /\ Where # "in_process"
           pcm == [chunk |-> j.k, tail |-> IF IsFirst(j) THEN NoTail ELSE st.tail]
           v == [tail |-> tail, audio |-> TRUE, finished |-> st.finished \/ ChunkOf(j).final]
           note == IF send THEN <<Call(j.r, [chunk |-> 0, tail |-> tail])>> ELSE <<>>
<1>1. /\ ln.stage = "gpu"
      /\ voc' = [voc EXCEPT ![p][j.r] = v]
      /\ Emit(p, note \o <<Call(j.r, pcm)>> \o Ended(p, j))
      /\ lane' = [lane EXCEPT ![p][l] = OneDone(@)]
      /\ UNCHANGED <<deployment, handed, q_first, q_topup, q, streak, last_width,
                     failed, clientVars, in_q>>
  BY DEF Postprocess, Ended
<1>2. ln \in LaneStates /\ lane \in [Procs -> [Lanes -> LaneStates]]
  BY DEF Typed
<1>3. /\ Hand(ln) = ln.todo /\ ln.todo # <<>> /\ j \in Jobs
      /\ OneDone(ln) \in LaneStates /\ Hand(OneDone(ln)) = Tail(ln.todo)
  BY <1>1, <1>2, LaneFacts, OneDoneFacts
<1>4. /\ lane' \in [Procs -> [Lanes -> LaneStates]] /\ lane'[p][l] = OneDone(ln)
      /\ \A s \in Procs, m \in Lanes : s # p \/ m # l => lane'[s][m] = lane[s][m]
  BY <1>1, <1>2, <1>3
<1> HIDE DEF ln, j
<1>5. /\ j.r \in Requests /\ j.k \in Nat \ {0} /\ ChunkOf(j).final \in BOOLEAN
      /\ voc \in [Procs -> [Requests -> VocStates]]
  <2>1. j.r \in Requests /\ j.k \in 1 .. Count(j.r) /\ ChunkOf(j).final \in BOOLEAN
    BY <1>3, JobFacts
  <2>2. Count(j.r) \in Nat
    BY <2>1, JobFacts
  <2>3. QED
    BY <2>1, <2>2 DEF Typed
<1>6. st \in VocStates /\ v \in VocStates
  BY <1>5 DEF VocStates, NoTail
<1>7. /\ v.audio
      /\ v.tail = (IF ChunkOf(j).final THEN NoTail ELSE j.k)
      /\ v.finished => voc[p][j.r].finished \/ ChunkOf(j).final
  OBVIOUS
<1>8. /\ pcm \in Data /\ Call(j.r, pcm) \in Calls
      /\ Call(j.r, Close) \in Calls /\ Call(j.r, [chunk |-> 0, tail |-> j.k]) \in Calls
  <2>1. st.tail \in Nat
    BY <1>6 DEF VocStates
  <2>2. pcm \in [chunk : Nat, tail : Nat] /\ [chunk |-> 0, tail |-> j.k] \in [chunk : Nat, tail : Nat]
    BY <1>5, <2>1 DEF NoTail
  <2>3. QED
    BY <1>5, <2>2 DEF Call, Calls, Data
<1>9. note = Noted(j) /\ <<Call(j.r, pcm)>> = Audio(p, j)
  <2>1. <<Call(j.r, pcm)>> = Audio(p, j)
    BY DEF Audio
  <2>2. send <=> IsFirst(j) /\ ~ ChunkOf(j).final /\ j.k # NoTail /\ Where # "in_process"
    OBVIOUS
  <2>3. send => tail = j.k
    OBVIOUS
  <2> HIDE DEF send, tail
  <2>4. note = Noted(j)
    BY <2>2, <2>3 DEF Noted
  <2>5. QED
    BY <2>1, <2>4
<1>10. Noted(j) \in Seq(Calls) /\ Audio(p, j) \in Seq(Calls) /\ Ended(p, j) \in Seq(Calls)
  <2> DEFINE a == Call(j.r, pcm)
             b == Call(j.r, [chunk |-> 0, tail |-> j.k])
             c == Call(j.r, Close)
  <2>1. a \in Calls /\ b \in Calls /\ c \in Calls
    BY <1>8
  <2>2. Audio(p, j) = <<a>> /\ Noted(j) \in {<<>>, <<b>>} /\ Ended(p, j) \in {<<>>, <<c>>}
    BY <1>9 DEF Noted, Ended
  <2> HIDE DEF a, b, c
  <2>3. <<a>> \in Seq(Calls) /\ <<b>> \in Seq(Calls) /\ <<c>> \in Seq(Calls) /\ <<>> \in Seq(Calls)
    BY <2>1, EmptySeq
  <2>4. QED
    BY <2>2, <2>3
<1> HIDE DEF pcm, note, v, st
<1>11. Emit(p, Noted(j) \o Audio(p, j) \o Ended(p, j))
  BY <1>1, <1>9
<1>12. /\ voc' \in [Procs -> [Requests -> VocStates]] /\ voc'[p][j.r] = v
       /\ \A s \in Procs, r \in Requests : s # p \/ r # j.r => voc'[s][r] = voc[s][r]
  BY <1>1, <1>5, <1>6
<1>13. delivered' \in [Requests -> Seq(Data)] /\ out_q' \in [Procs -> Seq(Calls)]
  <2> DEFINE calls == Noted(j) \o Audio(p, j) \o Ended(p, j)
  <2>1. calls \in Seq(Calls)
    BY <1>10, ConcatProperties
  <2>2. Emit(p, calls)
    BY <1>11
  <2> HIDE DEF calls
  <2>3. QED
    BY <2>1, <2>2, EmitFacts
<1>14. Typed'
  BY <1>1, <1>4, <1>12, <1>13 DEF Typed, clientVars
<1>15. j = Head(Hand(ln)) /\ Tail(ln.todo) = Tail(Hand(ln))
  BY <1>3 DEF j
<1>16. /\ voc'[p][j.r].audio
       /\ voc'[p][j.r].tail = IF ChunkOf(j).final THEN NoTail ELSE j.k
       /\ voc'[p][j.r].finished => voc[p][j.r].finished \/ ChunkOf(j).final
  BY <1>7, <1>12
<1>17. /\ Hand(lane[p][l]) # <<>> /\ j = Head(Hand(lane[p][l]))
       /\ Hand(lane'[p][l]) = Tail(Hand(lane[p][l]))
  BY <1>3, <1>4, <1>15 DEF ln
<1> HIDE DEF ln
<1>18. QED
  BY <1>3, <1>4, <1>10, <1>11, <1>12, <1>14, <1>16, <1>17

(* A batch fails, of requests that may. *)
LEMMA BatchFailsFacts ==
  ASSUME Typed, NEW p \in Procs, NEW l \in Lanes, BatchFails(p, l)
  PROVE  /\ \E calls \in Seq(Calls) :
              Emit(p, calls) /\ \A c \in Members(calls) : c.r \in MayFail
         /\ \A j \in Members(Hand(lane[p][l])) : j.r \in MayFail
         /\ Hand(lane'[p][l]) = <<>>
         /\ \A s \in Procs, m \in Lanes : s # p \/ m # l => lane'[s][m] = lane[s][m]
         /\ Typed'
<1> DEFINE jobs == lane[p][l].jobs
           N == {j \in Members(jobs) : ~IsEnd(j)}
<1>1. /\ lane[p][l].stage = "gpu"
      /\ {j.r : j \in Members(jobs)} \subseteq MayFail
      /\ lane[p][l].todo = Keep(jobs, N)
      /\ Emit(p, ClosedOnFailure(jobs))
      /\ failed' = failed \cup {j.r : j \in Members(jobs)}
      /\ lane' = [lane EXCEPT ![p][l] = Idle]
      /\ UNCHANGED <<deployment, handed, q_first, q_topup, q, streak, last_width,
                     voc, clientVars, in_q>>
  BY DEF BatchFails
<1>2. lane[p][l] \in LaneStates /\ lane \in [Procs -> [Lanes -> LaneStates]]
  BY DEF Typed
<1>3. jobs \in Seq(Jobs) /\ Hand(lane[p][l]) = lane[p][l].todo
  BY <1>1, <1>2, LaneFacts
<1>4. N \subseteq Members(jobs)
  OBVIOUS
<1> HIDE DEF jobs, N
<1>5. Members(Hand(lane[p][l])) \subseteq Members(jobs)
  BY <1>1, <1>3, <1>4, KeepFacts
<1>6. \A j \in Members(jobs) : j.r \in MayFail
  BY <1>1
<1>7. /\ ClosedOnFailure(jobs) \in Seq(Calls)
      /\ \A c \in Members(ClosedOnFailure(jobs)) : c.r \in MayFail
  BY <1>3, <1>6, CloseCalls DEF ClosedOnFailure
<1>8. /\ lane' \in [Procs -> [Lanes -> LaneStates]] /\ Hand(lane'[p][l]) = <<>>
      /\ \A s \in Procs, m \in Lanes : s # p \/ m # l => lane'[s][m] = lane[s][m]
  BY <1>1, <1>2, LaneFacts
<1>9. delivered' \in [Requests -> Seq(Data)] /\ out_q' \in [Procs -> Seq(Calls)]
  BY <1>1, <1>7, EmitFacts
<1>10. failed' \subseteq Requests
  BY <1>1, VocoderAssumption DEF Typed
<1>11. Typed'
  BY <1>1, <1>8, <1>9, <1>10 DEF Typed, clientVars
<1>12. QED
  BY <1>1, <1>5, <1>6, <1>7, <1>8, <1>11

(* The client of a subprocess reads a call. *)
LEMMA ReadFacts ==
  ASSUME Typed, NEW p \in Procs, Read(p)
  PROVE  LET c == Head(out_q[p])
             known == c.r \in registered[p]
             is_tail == c.data # Close /\ c.data.chunk = 0
         IN  /\ out_q[p] # <<>> /\ c \in Calls /\ c.r \in Requests /\ c.data \in Data
             /\ Tail(out_q[p]) \in Seq(Calls)
             /\ out_q' = [out_q EXCEPT ![p] = Tail(@)]
             /\ \A r \in Requests :
                  delivered'[r] = IF r = c.r /\ known /\ ~is_tail
                                  THEN Append(delivered[r], c.data) ELSE delivered[r]
             /\ registered' = IF c.data = Close THEN [registered EXCEPT ![p] = @ \ {c.r}]
                              ELSE registered
             /\ parent' = IF ~known \/ c.data = Close THEN parent
                          ELSE IF is_tail THEN [parent EXCEPT ![c.r].tail = c.data.tail]
                          ELSE [parent EXCEPT ![c.r].audio = TRUE]
             /\ UNCHANGED <<deployment, handed, q_first, q_topup, q, streak, last_width,
                            lane, voc, failed, pending, sent_tail, in_q>>
             /\ Typed'
<1> DEFINE c == Head(out_q[p])
           known == c.r \in registered[p]
           is_tail == c.data # Close /\ c.data.chunk = 0
<1>1. /\ out_q[p] # <<>>
      /\ out_q' = [out_q EXCEPT ![p] = Tail(@)]
      /\ IF known /\ ~is_tail THEN Deliver(<<c>>) ELSE UNCHANGED delivered
      /\ registered' = IF c.data = Close THEN [registered EXCEPT ![p] = @ \ {c.r}]
                       ELSE registered
      /\ parent' = IF ~known \/ c.data = Close THEN parent
                   ELSE IF is_tail THEN [parent EXCEPT ![c.r].tail = c.data.tail]
                   ELSE [parent EXCEPT ![c.r].audio = TRUE]
      /\ UNCHANGED <<deployment, handed, localVars, pending, sent_tail, in_q>>
  BY DEF Read
<1>2. out_q \in [Procs -> Seq(Calls)] /\ delivered \in [Requests -> Seq(Data)]
  BY DEF Typed
<1>3. c \in Calls /\ Tail(out_q[p]) \in Seq(Calls)
  BY <1>1, <1>2, HeadTailFacts
<1> HIDE DEF c
<1>4. c.r \in Requests /\ c.data \in Data
  BY <1>3 DEF Calls
<1>5. out_q' \in [Procs -> Seq(Calls)]
  BY <1>1, <1>2, <1>3
<1>6. \A r \in Requests : DataOf(<<c>>, r) = IF r = c.r THEN <<c.data>> ELSE <<>>
  <2> SUFFICES ASSUME NEW r \in Requests
               PROVE  DataOf(<<c>>, r) = IF r = c.r THEN <<c.data>> ELSE <<>>
    OBVIOUS
  <2>1. <<c>> \in Seq(Calls) /\ Len(<<c>>) = 1 /\ <<c>>[1] = c /\ Members(<<c>>) = {c}
    BY <1>3 DEF Members
  <2>2. CASE r # c.r
    BY <2>1, <2>2, DataOfFacts
  <2>3. CASE r = c.r
    <3> DEFINE s == <<c>>
               d == DataOf(s, r)
    <3>1. s \in Seq(Calls) /\ Len(s) = 1 /\ s[1] = c /\ \A x \in Members(s) : x.r = r
      BY <2>1, <2>3
    <3> HIDE DEF s
    <3>2. d \in Seq(Data) /\ Len(d) = 1 /\ \A i \in 1 .. 1 : d[i] = s[i].data
      BY <3>1, DataOfFacts
    <3>3. d[1] = c.data
      BY <3>1, <3>2
    <3> HIDE DEF d
    <3>4. <<c.data>> \in Seq(Data) /\ Len(<<c.data>>) = 1 /\ <<c.data>>[1] = c.data
      BY <1>4
    <3>5. d = <<c.data>>
      BY <3>2, <3>3, <3>4, SeqEqual
    <3>6. QED
      BY <2>3, <3>5 DEF s, d
  <2>4. QED
    BY <2>2, <2>3
<1>7. \A r \in Requests :
        delivered'[r] = IF r = c.r /\ known /\ ~is_tail
                        THEN Append(delivered[r], c.data) ELSE delivered[r]
  <2> SUFFICES ASSUME NEW r \in Requests
               PROVE  delivered'[r] = IF r = c.r /\ known /\ ~is_tail
                                      THEN Append(delivered[r], c.data) ELSE delivered[r]
    OBVIOUS
  <2>1. delivered[r] \in Seq(Data)
    BY <1>2
  <2>2. CASE known /\ ~is_tail
    <3>1. delivered'[r] = delivered[r] \o DataOf(<<c>>, r)
      BY <1>1, <2>2 DEF Deliver
    <3>2. delivered[r] \o <<>> = delivered[r]
      BY <2>1, ConcatEmptySeq
    <3>3. delivered[r] \o <<c.data>> = Append(delivered[r], c.data)
      BY <1>4, <2>1
    <3>4. QED
      BY <1>6, <2>2, <3>1, <3>2, <3>3
  <2>3. CASE ~ (known /\ ~is_tail)
    BY <1>1, <2>3
  <2>4. QED
    BY <2>2, <2>3
<1>8. delivered' \in [Requests -> Seq(Data)]
  <2>1. CASE known /\ ~is_tail
    <3>1. delivered' = [r \in Requests |-> delivered[r] \o DataOf(<<c>>, r)]
      BY <1>1, <2>1 DEF Deliver
    <3>2. \A r \in Requests :
            delivered[r] \in Seq(Data) /\ Append(delivered[r], c.data) \in Seq(Data)
      BY <1>2, <1>4, AppendProperties
    <3>4. \A r \in Requests : delivered'[r] \in Seq(Data)
      BY <1>7, <3>2
    <3>3. QED
      BY <3>1, <3>4
  <2>2. CASE ~ (known /\ ~is_tail)
    BY <1>1, <1>2, <2>2
  <2>3. QED
    BY <2>1, <2>2
<1>9. registered' \in [Procs -> SUBSET Requests]
  BY <1>1 DEF Typed
<1>10. parent' \in [Requests -> [tail : Nat, audio : BOOLEAN]]
  <2>1. parent \in [Requests -> [tail : Nat, audio : BOOLEAN]]
    BY DEF Typed
  <2>2. CASE ~known \/ c.data = Close
    BY <1>1, <2>1, <2>2
  <2>3. CASE known /\ c.data # Close /\ is_tail
    <3>1. c.data.tail \in Nat
      BY <1>4, <2>3 DEF Data
    <3>2. parent' = [parent EXCEPT ![c.r].tail = c.data.tail]
      BY <1>1, <2>3
    <3>3. QED
      BY <1>4, <2>1, <3>1, <3>2
  <2>4. CASE known /\ c.data # Close /\ ~is_tail
    <3>1. parent' = [parent EXCEPT ![c.r].audio = TRUE]
      BY <1>1, <2>4
    <3>2. QED
      BY <1>4, <2>1, <3>1
  <2>5. QED
    BY <2>2, <2>3, <2>4
<1>11. UNCHANGED <<deployment, handed, q_first, q_topup, q, streak, last_width,
                   lane, voc, failed, pending, sent_tail, in_q>>
  BY <1>1 DEF localVars
<1>12. Typed'
  BY <1>5, <1>8, <1>9, <1>10, <1>11 DEF Typed
<1>13. QED
  BY <1>1, <1>3, <1>4, <1>7, <1>11, <1>12 DEF c

(* A subprocess forgets what is finished. *)
LEMMA SweepFacts ==
  ASSUME Typed, NEW p \in Procs, Sweep(p)
  PROVE  /\ \A s \in Procs, r \in Requests :
              voc'[s][r] = IF s = p /\ voc[p][r].finished THEN Unknown ELSE voc[s][r]
         /\ UNCHANGED <<deployment, handed, q_first, q_topup, q, streak, last_width, lane,
                        delivered, failed, clientVars, in_q, out_q>>
         /\ Typed'
<1> DEFINE w == [r \in Requests |-> IF voc[p][r].finished THEN Unknown ELSE voc[p][r]]
<1>1. /\ voc' = [voc EXCEPT ![p] = w]
      /\ UNCHANGED <<deployment, handed, q_first, q_topup, q, streak, last_width, lane,
                     delivered, failed, clientVars, in_q, out_q>>
  BY DEF Sweep
<1>2. voc \in [Procs -> [Requests -> VocStates]]
  BY DEF Typed
<1>3. Unknown \in VocStates
  BY DEF Unknown, VocStates, NoTail
<1>4. w \in [Requests -> VocStates]
  BY <1>2, <1>3
<1>5. voc' \in [Procs -> [Requests -> VocStates]]
  BY <1>1, <1>2, <1>4
<1>6. \A s \in Procs, r \in Requests :
        voc'[s][r] = IF s = p /\ voc[p][r].finished THEN Unknown ELSE voc[s][r]
  BY <1>1, <1>2
<1>7. Typed'
  BY <1>1, <1>5 DEF Typed, clientVars
<1>8. QED
  BY <1>1, <1>6, <1>7

(* Every step keeps the types, and no step takes back what was delivered. *)
LEMMA NextTyped ==
  ASSUME Typed, [Next]_vars
  PROVE  Typed' /\ deployment' = deployment
<1>1. ASSUME NEW r \in Requests, HandOver(r) PROVE Typed' /\ deployment' = deployment
  BY <1>1, HandOverTypes DEF HandOver
<1>2. CASE Flush
  BY <1>2, FlushFacts, FlushIs
<1>3. ASSUME NEW p \in Procs, Pump(p) PROVE Typed' /\ deployment' = deployment
  BY <1>3, PumpTypes DEF Pump
<1>4. ASSUME NEW p \in Procs, Read(p) PROVE Typed' /\ deployment' = deployment
  BY <1>4, ReadFacts
<1>5. ASSUME NEW p \in Procs, Sweep(p) PROVE Typed' /\ deployment' = deployment
  BY <1>5, SweepFacts
<1>6. ASSUME NEW p \in Procs, TakeFirst(p) PROVE Typed' /\ deployment' = deployment
  BY <1>6, TakeFirstFacts DEF TakeFirst
<1>7. ASSUME NEW p \in Procs, TakeBulk(p) PROVE Typed' /\ deployment' = deployment
  BY <1>7, TakeBulkFacts DEF TakeBulk
<1>8. ASSUME NEW p \in Procs, NEW l \in Lanes, ProcessStart(p, l)
      PROVE  Typed' /\ deployment' = deployment
  BY <1>8, ProcessStartFacts DEF ProcessStart
<1>9. ASSUME NEW p \in Procs, NEW l \in Lanes, Postprocess(p, l)
      PROVE  Typed' /\ deployment' = deployment
  BY <1>9, PostprocessFacts DEF Postprocess
<1>10. ASSUME NEW p \in Procs, NEW l \in Lanes, BatchFails(p, l)
       PROVE  Typed' /\ deployment' = deployment
  BY <1>10, BatchFailsFacts DEF BatchFails
<1>11. CASE UNCHANGED vars
  BY <1>11 DEF vars, localVars, clientVars, Typed
<1>12. QED
  BY <1>1, <1>2, <1>3, <1>4, <1>5, <1>6, <1>7, <1>8, <1>9, <1>10, <1>11
     DEF Next, LaneStep

(* The first state. *)
LEMMA InitTyped == Init => Typed
<1> SUFFICES ASSUME Init PROVE Typed
  OBVIOUS
<1>1. /\ <<>> \in Seq(Jobs) /\ <<>> \in Seq(Messages) /\ <<>> \in Seq(Calls)
      /\ <<>> \in Seq(Data)
  BY EmptySeq
<1>2. StreakMax \in Nat /\ \A r \in Requests : Len(Script[r]) \in Nat
  BY VocoderAssumption, LenProperties
<1>3. lane \in [Procs -> [Lanes -> LaneStates]]
  BY LaneFacts DEF Init
<1>4. voc \in [Procs -> [Requests -> VocStates]]
  BY DEF Init, Unknown, VocStates, NoTail
<1>5. parent \in [Requests -> [tail : Nat, audio : BOOLEAN]]
  BY DEF Init, NoTail
<1>6. /\ handed \in [Requests -> Nat] /\ \A r \in Requests : handed[r] <= Len(Script[r])
      /\ streak \in [Procs -> 0 .. StreakMax]
      /\ last_width \in [Procs -> Int]
  BY <1>2 DEF Init
<1>7. QED
  BY <1>1, <1>3, <1>4, <1>5, <1>6 DEF Init, Typed

(* Typed says what the type invariant of the runs says. *)
LEMMA TypedIsTypeOK == Typed => TypeOK
<1> SUFFICES ASSUME Typed PROVE TypeOK
  OBVIOUS
<1>1. \A r \in Requests : handed[r] \in 0 .. Len(Script[r])
  <2> SUFFICES ASSUME NEW r \in Requests PROVE handed[r] \in 0 .. Len(Script[r])
    OBVIOUS
  <2>1. handed[r] \in Nat /\ handed[r] <= Len(Script[r]) /\ Len(Script[r]) \in Nat
    BY JobFacts DEF Typed, Count
  <2>2. QED
    BY <2>1
<1>2. \A p \in Procs, l \in Lanes :
        /\ lane[p][l].stage \in {"idle", "taken", "gpu"}
        /\ lane[p][l].jobs \in Seq(Jobs) /\ lane[p][l].todo \in Seq(Jobs)
        /\ lane[p][l].stage = "idle" <=> lane[p][l].jobs = <<>>
        /\ lane[p][l].stage = "gpu" <=> lane[p][l].todo # <<>>
  <2>1. \A p \in Procs, l \in Lanes : lane[p][l] \in LaneStates
    BY DEF Typed
  <2>2. QED
    BY <2>1 DEF LaneStates
<1>3. QED
  BY <1>1, <1>2 DEF Typed, TypeOK, VocStates

(* In every reachable state the variables have their types: a lane is idle
   exactly when it has no batch, and on the GPU exactly when jobs of it are
   left (_run and _process of server/vocoder.py). *)
THEOREM VocoderTypes == Spec => []TypeOK
<1>1. Typed /\ [Next]_vars => Typed'
  BY NextTyped
<1>2. Spec => []Typed
  BY <1>1, InitTyped, PTL DEF Spec
<1>3. QED
  BY <1>2, TypedIsTypeOK, PTL

-----------------------------------------------------------------------------
(* Sequences of jobs, as seen by one request *)

(* One more job, behind the others of its request. *)
LEMMA LinedAppend ==
  ASSUME NEW r, NEW K, NEW s \in Seq(Jobs), NEW j \in Jobs, Lined(s, r, K),
         j.r = r => j.k \in K /\ \A i \in Members(s) : i.r = r => i.k < j.k
  PROVE  Lined(Append(s, j), r, K)
<1>1. Members(s) \subseteq Jobs /\ Members(Append(s, j)) = Members(s) \cup {j}
  BY MembersFacts, AppendMembers
<1>2. \A i \in Members(s) : <<i, j>> \in JobOrder(r)
  <2> SUFFICES ASSUME NEW i \in Members(s) PROVE <<i, j>> \in JobOrder(r)
    OBVIOUS
  <2>1. <<i, j>> \in Jobs \X Jobs /\ (i.r = r /\ j.r = r => i.k < j.k)
    BY <1>1
  <2>2. QED
    BY <2>1 DEF JobOrder
<1>3. InOrder(Append(s, j), JobOrder(r))
  BY <1>2, OrderAppend DEF Lined
<1>4. QED
  BY <1>1, <1>3 DEF Lined

(* The first one is before the others of its request. *)
LEMMA LinedTail ==
  ASSUME NEW r, NEW K, NEW s \in Seq(Jobs), s # <<>>, Lined(s, r, K)
  PROVE  /\ Lined(Tail(s), r, K)
         /\ Members(s) = {Head(s)} \cup Members(Tail(s))
         /\ Head(s).r = r => /\ Head(s).k \in K
                             /\ \A i \in Members(Tail(s)) : i.r = r => Head(s).k < i.k
<1>1. Members(s) = {Head(s)} \cup Members(Tail(s))
  BY HeadTailFacts
<1>2. /\ InOrder(Tail(s), JobOrder(r))
      /\ \A i \in Members(Tail(s)) : <<Head(s), i>> \in JobOrder(r)
  BY OrderTail DEF Lined
<1>3. \A i \in Members(Tail(s)) : Head(s).r = r /\ i.r = r => Head(s).k < i.k
  BY <1>2 DEF JobOrder
<1>4. QED
  BY <1>1, <1>2, <1>3 DEF Lined

(* Some are taken out. *)
LEMMA LinedWithout ==
  ASSUME NEW r, NEW K, NEW s \in Seq(Jobs), NEW S, Lined(s, r, K)
  PROVE  Lined(Without(s, S), r, K)
BY WithoutFacts DEF Lined

-----------------------------------------------------------------------------
(* What a step leaves alone *)

(* The lanes. *)
LEMMA SameHand ==
  ASSUME NEW r, deployment' = deployment, lane' = lane
  PROVE  HandOf(r)' = HandOf(r) /\ (LanesPlaced(r)' <=> LanesPlaced(r))
BY DEF HandOf, LanesPlaced, Where

(* The queues of the vocoders. *)
LEMMA SameQueues ==
  ASSUME NEW r, deployment' = deployment, q_first' = q_first, q_topup' = q_topup, q' = q
  PROVE  QueueOf(r)' = QueueOf(r) /\ (QueuesPlaced(r)' <=> QueuesPlaced(r))
BY DEF QueueOf, QueuesPlaced, Where

(* The queues to the subprocesses. *)
LEMMA SamePipes ==
  ASSUME NEW r, deployment' = deployment, in_q' = in_q
  PROVE  PipeOf(r)' = PipeOf(r) /\ (PipesPlaced(r)' <=> PipesPlaced(r))
BY DEF PipeOf, PipesPlaced, Where

(* What SplitVoc keeps. *)
LEMMA SameKept ==
  ASSUME NEW r, deployment' = deployment, pending' = pending
  PROVE  KeptOf(r)' = KeptOf(r) /\ (KeptPlaced(r)' <=> KeptPlaced(r))
BY DEF KeptOf, KeptPlaced, Where

(* What is emitted and delivered. *)
LEMMA SameOut ==
  ASSUME NEW r, NEW e, deployment' = deployment, delivered'[r] = delivered[r], out_q' = out_q
  PROVE  Outgoing(r, e)' <=> Outgoing(r, e)
BY DEF Outgoing, Emitted, Where

(* Calls for other requests change nothing for this one. *)
LEMMA OutQuiet ==
  ASSUME Typed, NEW r \in Requests, NEW e, NEW p \in Procs, NEW calls \in Seq(Calls),
         Emit(p, calls), \A c \in Members(calls) : c.r # r,
         deployment' = deployment
  PROVE  /\ delivered'[r] = delivered[r]
         /\ Outgoing(r, e) => Outgoing(r, e)'
         /\ \A s \in Procs : \A c \in Members(out_q[s]) : c \in Members(out_q'[s])
<1>1. delivered[r] \in Seq(Data) /\ out_q \in [Procs -> Seq(Calls)]
  BY DEF Typed
<1>2. CASE Where = "in_process"
  <2>1. out_q' = out_q /\ delivered'[r] = delivered[r] \o DataOf(calls, r)
    BY <1>2, EmitFacts
  <2>2. DataOf(calls, r) = <<>>
    BY DataOfFacts
  <2>3. delivered'[r] = delivered[r]
    BY <1>1, <2>1, <2>2, ConcatEmptySeq
  <2>4. QED
    BY <2>1, <2>3, SameOut
<1>3. CASE Where # "in_process"
  <2>1. delivered' = delivered /\ out_q' = [out_q EXCEPT ![p] = @ \o calls]
    BY <1>3, EmitFacts
  <2>2. /\ Members(out_q[p]) \subseteq Calls /\ Members(calls) \subseteq Calls
        /\ Members(out_q[p] \o calls) = Members(out_q[p]) \cup Members(calls)
    BY <1>1, MembersFacts, JoinedFacts
  <2>3. \A x \in Members(out_q[p]) \cup Members(calls), y \in Members(calls) :
          <<x, y>> \in CallOrder(r)
    BY <2>2 DEF CallOrder
  <2>4. InOrder(calls, CallOrder(r))
    <3>1. \A i \in DOMAIN calls : calls[i] \in Members(calls)
      BY DEF Members
    <3>2. QED
      BY <2>3, <3>1 DEF InOrder
  <2>5. InOrder(out_q[p], CallOrder(r)) => InOrder(out_q[p] \o calls, CallOrder(r))
    <3>1. \A x \in Members(out_q[p]), y \in Members(calls) : <<x, y>> \in CallOrder(r)
      BY <2>3
    <3>2. QED
      BY <1>1, <2>4, <3>1, OrderJoined
  <2>6. \A s \in Procs :
          /\ \A c : c \in Members(out_q'[s]) =>
               c \in Members(out_q[s]) \/ (s = p /\ c \in Members(calls))
          /\ \A c \in Members(out_q[s]) : c \in Members(out_q'[s])
          /\ InOrder(out_q[s], CallOrder(r)) => InOrder(out_q'[s], CallOrder(r))
    <3> SUFFICES ASSUME NEW s \in Procs
                 PROVE  /\ \A c : c \in Members(out_q'[s]) =>
                             c \in Members(out_q[s]) \/ (s = p /\ c \in Members(calls))
                        /\ \A c \in Members(out_q[s]) : c \in Members(out_q'[s])
                        /\ InOrder(out_q[s], CallOrder(r)) => InOrder(out_q'[s], CallOrder(r))
      OBVIOUS
    <3>1. out_q'[s] = IF s = p THEN out_q[p] \o calls ELSE out_q[s]
      BY <1>1, <2>1
    <3>2. QED
      BY <2>2, <2>5, <3>1
  <2>7. ASSUME Outgoing(r, e) PROVE Outgoing(r, e)'
    <3>1. ASSUME NEW s \in Procs, NEW c \in Members(out_q'[s]), c.r = r
          PROVE  Where # "in_process" /\ Emitted(r, e, s, c.data)
      <4>1. c \in Members(out_q[s])
        BY <2>6, <3>1
      <4>2. QED
        BY <2>7, <3>1, <4>1 DEF Outgoing
    <3>2. \A s \in Procs : \A data : Emitted(r, e, s, data)' <=> Emitted(r, e, s, data)
      BY <2>1 DEF Emitted, Where
    <3>3. \A i \in Len(delivered[r]) + 1 .. e :
            Call(r, Item(r, i)) \in Members(out_q'[Route(Where, r, i)])
      BY <2>6, <2>7, RouteFacts DEF Outgoing
    <3>4. Where' = Where /\ delivered' = delivered
      BY <2>1 DEF Where
    <3>5. \A s \in Procs : InOrder(out_q'[s], CallOrder(r))
      BY <2>6, <2>7 DEF Outgoing
    <3>6. \A s \in Procs : \A c \in Members(out_q'[s]) : c.r = r =>
            Where # "in_process" /\ Emitted(r, e, s, c.data)'
      BY <3>1, <3>2
    <3>7. QED
      BY <1>3, <3>3, <3>4, <3>5, <3>6 DEF Outgoing
  <2>8. QED
    BY <2>1, <2>6, <2>7
<1>4. QED
  BY <1>2, <1>3

(* A job into the queue of a vocoder: behind the others of its request. *)
LEMMA EnqueueQuiet ==
  ASSUME Typed, NEW r \in Regular, NEW p \in Procs, NEW j \in Jobs, Enqueue(j, p),
         j.r # r, QueuesPlaced(r), deployment' = deployment
  PROVE  QueuesPlaced(r)' /\ QueueOf(r)' = QueueOf(r)
<1>1. /\ q_first \in [Procs -> Seq(Jobs)]
      /\ q_topup \in [Procs -> Seq(Jobs)]
      /\ q \in [Procs -> Seq(Jobs)]
  BY DEF Typed
<1>2. \A s \in Procs :
        /\ q_first'[s] \in {q_first[s], Append(q_first[s], j)}
        /\ q_topup'[s] \in {q_topup[s], Append(q_topup[s], j)}
        /\ q'[s] \in {q[s], Append(q[s], j)}
  BY <1>1 DEF Enqueue
<1>3. \A s \in Seq(Jobs) : \A K : Lined(s, r, K) => Lined(Append(s, j), r, K)
  BY LinedAppend
<1>4. Where' = Where
  BY DEF Where
<1>5. QueuesPlaced(r)'
  <2>1. ASSUME NEW s \in Procs
        PROVE  /\ Lined(q_first'[s], r, Through(Where, r, s) \cap {1})
               /\ Lined(q'[s], r, Through(Where, r, s) \ {1})
               /\ Lined(q_topup'[s], r, {})
    <3>1. /\ q_first[s] \in Seq(Jobs) /\ q_topup[s] \in Seq(Jobs) /\ q[s] \in Seq(Jobs)
          /\ q_first'[s] \in {q_first[s], Append(q_first[s], j)}
          /\ q_topup'[s] \in {q_topup[s], Append(q_topup[s], j)}
          /\ q'[s] \in {q[s], Append(q[s], j)}
      BY <1>1, <1>2
    <3>2. /\ Lined(q_first[s], r, Through(Where, r, s) \cap {1})
          /\ Lined(q[s], r, Through(Where, r, s) \ {1})
          /\ Lined(q_topup[s], r, {})
      BY DEF QueuesPlaced
    <3>3. QED
      BY <1>3, <3>1, <3>2
  <2>2. QED
    BY <1>4, <2>1 DEF QueuesPlaced
<1>6. \A k \in 1 .. Count(r) : \A s \in Seq(Jobs) :
        Job(r, k) \in Members(Append(s, j)) <=> Job(r, k) \in Members(s)
  <2>1. \A k : Job(r, k) # j
    BY DEF Job
  <2>2. \A s \in Seq(Jobs) : Members(Append(s, j)) = Members(s) \cup {j}
    BY AppendMembers
  <2>3. QED
    BY <2>1, <2>2
<1>7. \A k \in 1 .. Count(r) : Route(Where, r, k) \in Procs
  BY RouteFacts, RegularFacts
<1>8. QueueOf(r)' = QueueOf(r)
  <2>1. ASSUME NEW k \in 1 .. Count(r)
        PROVE  /\ Job(r, k) \in Members(q_first'[Route(Where, r, k)])
                    <=> Job(r, k) \in Members(q_first[Route(Where, r, k)])
               /\ Job(r, k) \in Members(q'[Route(Where, r, k)])
                    <=> Job(r, k) \in Members(q[Route(Where, r, k)])
    BY <1>1, <1>2, <1>6, <1>7
  <2>2. QED
    BY <1>4, <2>1 DEF QueueOf
<1>9. QED
  BY <1>5, <1>8

(* What is somewhere is in one of the four places. *)
LEMMA InPlace ==
  ASSUME Typed, NEW r \in Requests
  PROVE  /\ QueuesPlaced(r) => \A s \in Procs :
              /\ \A i \in Members(q_first[s]) : i.r = r =>
                   i = Job(r, i.k) /\ i.k = 1 /\ i.k \in QueueOf(r) /\ Route(Where, r, 1) = s
              /\ \A i \in Members(q[s]) : i.r = r =>
                   /\ i = Job(r, i.k) /\ i.k \in 2 .. Count(r) /\ i.k \in QueueOf(r)
                   /\ s = "remote"
              /\ \A i \in Members(q_topup[s]) : i.r # r
         /\ LanesPlaced(r) => \A s \in Procs, l \in Lanes : \A i \in Members(Hand(lane[s][l])) :
              i.r = r => /\ i = Job(r, i.k) /\ i.k \in 1 .. Count(r) /\ i.k \in HandOf(r)
                         /\ Route(Where, r, i.k) = s /\ LaneOf(i.k) = l
         /\ PipesPlaced(r) => \A s \in Procs : \A m \in Members(in_q[s]) : m.job.r = r =>
              /\ m.job = Job(r, m.job.k) /\ m.job.k \in 1 .. Count(r)
              /\ m.job.k \in PipeOf(r) /\ Route(Where, r, m.job.k) = s
         /\ KeptPlaced(r) => \A i \in Members(pending) : i.r = r =>
              /\ i = Job(r, i.k) /\ i.k \in 2 .. Count(r) /\ i.k \in KeptOf(r)
              /\ Where = "split"
<1>1. Count(r) \in Nat \ {0}
  BY JobFacts
<1>2. \A j \in Jobs : j.r = r => j = Job(r, j.k) /\ j.k \in 1 .. Count(r)
  BY JobFacts
<1>3. \A s \in Procs :
        /\ Members(q_first[s]) \subseteq Jobs /\ Members(q[s]) \subseteq Jobs
        /\ \A l \in Lanes : Members(Hand(lane[s][l])) \subseteq Jobs
        /\ \A m \in Members(in_q[s]) : m.job \in Jobs
  <2> SUFFICES ASSUME NEW s \in Procs
               PROVE  /\ Members(q_first[s]) \subseteq Jobs /\ Members(q[s]) \subseteq Jobs
                      /\ \A l \in Lanes : Members(Hand(lane[s][l])) \subseteq Jobs
                      /\ \A m \in Members(in_q[s]) : m.job \in Jobs
    OBVIOUS
  <2>1. /\ q_first[s] \in Seq(Jobs) /\ q[s] \in Seq(Jobs) /\ in_q[s] \in Seq(Messages)
        /\ \A l \in Lanes : Hand(lane[s][l]) \in Seq(Jobs)
    BY LaneFacts DEF Typed
  <2>2. Members(in_q[s]) \subseteq Messages
    BY <2>1, MembersFacts
  <2>3. QED
    BY <2>1, <2>2, MembersFacts DEF Messages
<1>4. Members(pending) \subseteq Jobs
  BY MembersFacts DEF Typed
<1>5. ASSUME QueuesPlaced(r), NEW s \in Procs
      PROVE  /\ \A i \in Members(q_first[s]) : i.r = r =>
                  i = Job(r, i.k) /\ i.k = 1 /\ i.k \in QueueOf(r) /\ Route(Where, r, 1) = s
             /\ \A i \in Members(q[s]) : i.r = r =>
                  /\ i = Job(r, i.k) /\ i.k \in 2 .. Count(r) /\ i.k \in QueueOf(r)
                  /\ s = "remote"
             /\ \A i \in Members(q_topup[s]) : i.r # r
  <2>1. ASSUME NEW i \in Members(q_first[s]), i.r = r
        PROVE  i = Job(r, i.k) /\ i.k = 1 /\ i.k \in QueueOf(r) /\ Route(Where, r, 1) = s
    <3>1. i.k \in Through(Where, r, s) /\ i.k = 1
      BY <1>5, <2>1 DEF QueuesPlaced, Lined
    <3>2. Route(Where, r, 1) = s /\ 1 \in 1 .. Count(r)
      BY <1>1, <3>1 DEF Through
    <3>3. i = Job(r, i.k)
      BY <1>2, <1>3, <2>1
    <3>4. QED
      BY <2>1, <3>1, <3>2, <3>3 DEF QueueOf
  <2>2. ASSUME NEW i \in Members(q[s]), i.r = r
        PROVE  /\ i = Job(r, i.k) /\ i.k \in 2 .. Count(r) /\ i.k \in QueueOf(r)
               /\ s = "remote"
    <3>1. i.k \in Through(Where, r, s) /\ i.k # 1
      BY <1>5, <2>2 DEF QueuesPlaced, Lined
    <3>2. i.k \in 2 .. Count(r) /\ Route(Where, r, i.k) = s
      BY <1>1, <3>1 DEF Through
    <3>3. i = Job(r, i.k) /\ s = "remote"
      BY <1>2, <1>3, <2>2, <3>2, RouteFacts
    <3>4. QED
      BY <1>1, <2>2, <3>2, <3>3 DEF QueueOf
  <2>3. \A i \in Members(q_topup[s]) : i.r # r
    BY <1>5 DEF QueuesPlaced, Lined
  <2>4. QED
    BY <2>1, <2>2, <2>3
<1>6. ASSUME LanesPlaced(r), NEW s \in Procs, NEW l \in Lanes,
             NEW i \in Members(Hand(lane[s][l])), i.r = r
      PROVE  /\ i = Job(r, i.k) /\ i.k \in 1 .. Count(r) /\ i.k \in HandOf(r)
             /\ Route(Where, r, i.k) = s /\ LaneOf(i.k) = l
  <2>1. i.k \in Through(Where, r, s) /\ LaneOf(i.k) = l
    BY <1>6 DEF LanesPlaced, Lined
  <2>2. i.k \in 1 .. Count(r) /\ Route(Where, r, i.k) = s /\ i = Job(r, i.k)
    BY <1>2, <1>3, <1>6, <2>1 DEF Through
  <2>3. i.k \in HandOf(r)
    BY <1>6, <2>1, <2>2 DEF HandOf
  <2>4. QED
    BY <2>1, <2>2, <2>3
<1>7. ASSUME PipesPlaced(r), NEW s \in Procs, NEW m \in Members(in_q[s]), m.job.r = r
      PROVE  /\ m.job = Job(r, m.job.k) /\ m.job.k \in 1 .. Count(r)
             /\ m.job.k \in PipeOf(r) /\ Route(Where, r, m.job.k) = s
  <2>1. m.job.k \in Through(Where, r, s)
    BY <1>7 DEF PipesPlaced
  <2>2. m.job.k \in 1 .. Count(r) /\ Route(Where, r, m.job.k) = s /\ m.job = Job(r, m.job.k)
    BY <1>2, <1>3, <1>7, <2>1 DEF Through
  <2>3. m.job.k \in PipeOf(r)
    BY <1>7, <2>2 DEF PipeOf
  <2>4. QED
    BY <2>2, <2>3
<1>8. ASSUME KeptPlaced(r), NEW i \in Members(pending), i.r = r
      PROVE  /\ i = Job(r, i.k) /\ i.k \in 2 .. Count(r) /\ i.k \in KeptOf(r)
             /\ Where = "split"
  <2>1. i.k \in 2 .. Count(r) /\ Where = "split"
    BY <1>8 DEF KeptPlaced, Lined
  <2>2. i = Job(r, i.k)
    BY <1>2, <1>4, <1>8
  <2>3. QED
    BY <1>1, <1>8, <2>1, <2>2 DEF KeptOf
<1>9. QED
  BY <1>5, <1>6, <1>7, <1>8

(* A job of the request goes behind its others. *)
LEMMA EnqueueOwn ==
  ASSUME Typed, NEW r \in Regular, NEW k \in 1 .. Count(r),
         Enqueue(Job(r, k), Route(Where, r, k)), \A a \in QueueOf(r) : a < k,
         QueuesPlaced(r), deployment' = deployment
  PROVE  QueuesPlaced(r)' /\ QueueOf(r)' = QueueOf(r) \cup {k}
<1> DEFINE j == Job(r, k)
           p == Route(Where, r, k)
<1>1. /\ r \in Requests /\ j \in Jobs /\ j.r = r /\ j.k = k /\ p \in Procs
      /\ IsFirst(j) <=> k = 1
      /\ ~ IsTopup(j)
  BY RegularFacts, RouteFacts, JobFacts
<1>2. /\ q_first \in [Procs -> Seq(Jobs)]
      /\ q_topup \in [Procs -> Seq(Jobs)]
      /\ q \in [Procs -> Seq(Jobs)]
  BY DEF Typed
<1>3. Enqueue(j, p)
  OBVIOUS
<1>4. Where' = Where /\ \A n : Job(r, n) = j <=> n = k
  BY DEF Where, Job
<1>5. \A n \in 1 .. Count(r) : Route(Where, r, n) \in Procs
  BY <1>1, RouteFacts
<1>6. k \in Through(Where, r, p)
  BY DEF Through
<1>7. p = Route(Where, r, k)
  OBVIOUS
<1> HIDE DEF j, p
<1>8. q_topup' = q_topup
  BY <1>1, <1>3 DEF Enqueue
<1>9. CASE k = 1
  <2>1. q_first' = [q_first EXCEPT ![p] = Append(@, j)] /\ q' = q
    BY <1>1, <1>3, <1>9 DEF Enqueue
  <2>2. \A i \in Members(q_first[p]) : i.r = r => i.k < k
    BY <1>1, InPlace
  <2>3. Lined(Append(q_first[p], j), r, Through(Where, r, p) \cap {1})
    <3>1. Lined(q_first[p], r, Through(Where, r, p) \cap {1}) /\ q_first[p] \in Seq(Jobs)
      BY <1>1, <1>2 DEF QueuesPlaced
    <3>2. k \in Through(Where, r, p) \cap {1}
      BY <1>6, <1>9
    <3>3. QED
      BY <1>1, <2>2, <3>1, <3>2, LinedAppend
  <2>4. Members(Append(q_first[p], j)) = Members(q_first[p]) \cup {j}
    BY <1>1, <1>2, AppendMembers
  <2>5. QueuesPlaced(r)'
    <3>1. ASSUME NEW s \in Procs
          PROVE  /\ Lined(q_first'[s], r, Through(Where, r, s) \cap {1})
                 /\ Lined(q'[s], r, Through(Where, r, s) \ {1})
                 /\ Lined(q_topup'[s], r, {})
      <4>1. /\ Lined(q_first[s], r, Through(Where, r, s) \cap {1})
            /\ Lined(q[s], r, Through(Where, r, s) \ {1})
            /\ Lined(q_topup[s], r, {})
        BY DEF QueuesPlaced
      <4>2. q_first'[s] = IF s = p THEN Append(q_first[p], j) ELSE q_first[s]
        BY <1>1, <1>2, <2>1
      <4>3. QED
        BY <1>8, <2>1, <2>3, <4>1, <4>2
    <3>2. QED
      BY <1>4, <3>1 DEF QueuesPlaced
  <2>6. QueueOf(r)' = QueueOf(r) \cup {k}
    <3>1. ASSUME NEW n \in 1 .. Count(r)
          PROVE  Job(r, n) \in Members(q_first'[Route(Where, r, n)])
                   <=> n = k \/ Job(r, n) \in Members(q_first[Route(Where, r, n)])
      BY <1>1, <1>2, <1>4, <1>5, <1>7, <2>1, <2>4
    <3>2. QED
      BY <1>4, <2>1, <3>1 DEF QueueOf
  <2>7. QED
    BY <2>5, <2>6
<1>10. CASE k # 1
  <2>1. q' = [q EXCEPT ![p] = Append(@, j)] /\ q_first' = q_first
    BY <1>1, <1>3, <1>10 DEF Enqueue
  <2>2. \A i \in Members(q[p]) : i.r = r => i.k < k
    BY <1>1, InPlace
  <2>3. Lined(Append(q[p], j), r, Through(Where, r, p) \ {1})
    <3>1. Lined(q[p], r, Through(Where, r, p) \ {1}) /\ q[p] \in Seq(Jobs)
      BY <1>1, <1>2 DEF QueuesPlaced
    <3>2. k \in Through(Where, r, p) \ {1}
      BY <1>6, <1>10
    <3>3. QED
      BY <1>1, <2>2, <3>1, <3>2, LinedAppend
  <2>4. Members(Append(q[p], j)) = Members(q[p]) \cup {j}
    BY <1>1, <1>2, AppendMembers
  <2>5. QueuesPlaced(r)'
    <3>1. ASSUME NEW s \in Procs
          PROVE  /\ Lined(q_first'[s], r, Through(Where, r, s) \cap {1})
                 /\ Lined(q'[s], r, Through(Where, r, s) \ {1})
                 /\ Lined(q_topup'[s], r, {})
      <4>1. /\ Lined(q_first[s], r, Through(Where, r, s) \cap {1})
            /\ Lined(q[s], r, Through(Where, r, s) \ {1})
            /\ Lined(q_topup[s], r, {})
        BY DEF QueuesPlaced
      <4>2. q'[s] = IF s = p THEN Append(q[p], j) ELSE q[s]
        BY <1>1, <1>2, <2>1
      <4>3. QED
        BY <1>8, <2>1, <2>3, <4>1, <4>2
    <3>2. QED
      BY <1>4, <3>1 DEF QueuesPlaced
  <2>6. QueueOf(r)' = QueueOf(r) \cup {k}
    <3>1. ASSUME NEW n \in 1 .. Count(r)
          PROVE  Job(r, n) \in Members(q'[Route(Where, r, n)])
                   <=> n = k \/ Job(r, n) \in Members(q[Route(Where, r, n)])
      BY <1>1, <1>2, <1>4, <1>5, <1>7, <2>1, <2>4
    <3>2. QED
      BY <1>4, <2>1, <3>1 DEF QueueOf
  <2>7. QED
    BY <2>5, <2>6
<1>11. QED
  BY <1>9, <1>10

(* A step that emits nothing of the request, and moves none of it past the
   engine's side, keeps what is known. *)
LEMMA QuietFlow ==
  ASSUME NEW r \in Requests, NEW e, Flow(r, e),
         deployment' = deployment, handed'[r] = handed[r], delivered'[r] = delivered[r],
         OnTheWay(r, e)', KeptOf(r)' = KeptOf(r),
         KeptPlaced(r)', QueuesPlaced(r)', LanesPlaced(r)', PipesPlaced(r)',
         Outgoing(r, e)',
         \A p \in Procs : voc'[p][r] = voc[p][r],
         \A k \in HandOf(r)' : k # 1 => voc["remote"][r].audio,
         parent'[r] = parent[r], r \in sent_tail' <=> r \in sent_tail,
         \A p \in Procs : r \in registered[p] => r \in registered'[p],
         \A c \in Members(out_q["first"]) : c.r = r => c \in Members(out_q'["first"])
  PROVE  Flow(r, e)'
<1>1. Where' = Where /\ "remote" \in Procs /\ "first" \in Procs
  BY DEF Where, Procs
<1>2. Counts(r, e)'
  BY DEF Flow, Counts
<1>3. Blended(r, e)'
  BY <1>1 DEF Flow, Blended
<1>4. Listening(r)'
  <2>1. \A k : Route(Where, r, k) \in Procs
    BY RouteFacts
  <2>2. Listening(r)
    BY DEF Flow
  <2>3. QED
    BY <1>1, <2>1, <2>2 DEF Listening
<1>5. FirstHeard(r, e)'
  <2>1. Call(r, Note).r = r
    BY DEF Call
  <2>2. QED
    BY <1>1, <2>1 DEF Flow, FirstHeard
<1>6. TailSent(r)'
  BY <1>1 DEF Flow, TailSent
<1>7. QED
  BY <1>2, <1>3, <1>4, <1>5, <1>6 DEF Flow

(* One more number at the end of the way. *)
LEMMA PathGrows ==
  ASSUME NEW e \in Nat, NEW h \in Nat, e <= h,
         NEW A, NEW B, NEW C, NEW D, Path(A, B, C, D, e, h)
  PROVE  /\ \A n \in A \cup B \cup C \cup D : n \in Nat /\ n < h + 1
         /\ C = {} /\ D = {} => Path(A, B \cup {h + 1}, C, D, e, h + 1)
         /\ D = {} => Path(A, B, C \cup {h + 1}, D, e, h + 1)
         /\ Path(A, B, C, D \cup {h + 1}, e, h + 1)
<1>1. A \cup B \cup C \cup D = e + 1 .. h
  BY DEF Path
<1>2. /\ \A n \in A \cup B \cup C \cup D : n \in Nat /\ n < h + 1
      /\ (e + 1 .. h) \cup {h + 1} = e + 1 .. h + 1
  BY <1>1
<1>3. C = {} /\ D = {} => Path(A, B \cup {h + 1}, C, D, e, h + 1)
  BY <1>1, <1>2 DEF Path
<1>4. D = {} => Path(A, B, C \cup {h + 1}, D, e, h + 1)
  BY <1>1, <1>2 DEF Path
<1>5. Path(A, B, C, D \cup {h + 1}, e, h + 1)
  BY <1>1, <1>2 DEF Path
<1>6. QED
  BY <1>2, <1>3, <1>4, <1>5

(* A message into the queue of a subprocess. *)
LEMMA PipeAppend ==
  ASSUME Typed, NEW r \in Requests, NEW p \in Procs, NEW m \in Messages,
         in_q' = [in_q EXCEPT ![p] = Append(@, m)], deployment' = deployment,
         PipesPlaced(r),
         m.job.r = r =>
           /\ Where # "in_process" /\ m.job.k \in Through(Where, r, p)
           /\ m.tail = IF Where = "split" /\ m.job.k = 2 THEN 1 ELSE Absent
           /\ \A a \in PipeOf(r) : a < m.job.k
  PROVE  /\ PipesPlaced(r)'
         /\ PipeOf(r)' = IF m.job.r = r THEN PipeOf(r) \cup {m.job.k} ELSE PipeOf(r)
<1>1. in_q \in [Procs -> Seq(Messages)] /\ Where' = Where
  BY DEF Typed, Where
<1>2. \A s \in Procs : in_q'[s] = IF s = p THEN Append(in_q[p], m) ELSE in_q[s]
  BY <1>1
<1>3. Members(Append(in_q[p], m)) = Members(in_q[p]) \cup {m}
  BY <1>1, AppendMembers
<1>4. \A y \in Members(in_q[p]) : <<y, m>> \in MessageOrder(r)
  <2> SUFFICES ASSUME NEW y \in Members(in_q[p]) PROVE <<y, m>> \in MessageOrder(r)
    OBVIOUS
  <2>1. y \in Messages /\ y.job \in Jobs /\ m.job \in Jobs
    <3>1. in_q[p] \in Seq(Messages)
      BY <1>1
    <3>2. y \in Messages
      BY <3>1, MembersFacts
    <3>3. QED
      BY <3>2 DEF Messages
  <2>2. y.job.r = r /\ m.job.r = r => y.job.k < m.job.k
    BY InPlace
  <2>3. <<y.job, m.job>> \in JobOrder(r)
    BY <2>1, <2>2 DEF JobOrder
  <2>4. QED
    BY <2>1, <2>3 DEF MessageOrder
<1>5. InOrder(Append(in_q[p], m), MessageOrder(r))
  <2>1. InOrder(in_q[p], MessageOrder(r))
    BY DEF PipesPlaced
  <2>2. QED
    BY <1>1, <1>4, <2>1, OrderAppend
<1>6. PipesPlaced(r)'
  BY <1>1, <1>2, <1>3, <1>5 DEF PipesPlaced
<1>7. PipeOf(r)' = IF m.job.r = r THEN PipeOf(r) \cup {m.job.k} ELSE PipeOf(r)
  <2>1. m.job.r = r => m.job = Job(r, m.job.k) /\ m.job.k \in 1 .. Count(r)
    BY JobFacts DEF Messages
  <2>2. \A k : Route(Where, r, k) \in Procs /\ Job(r, k).r = r /\ Job(r, k).k = k
    BY RouteFacts DEF Job
  <2>3. ASSUME NEW k \in 1 .. Count(r)
        PROVE  (\E y \in Members(in_q'[Route(Where, r, k)]) : y.job = Job(r, k))
                 <=> \/ \E y \in Members(in_q[Route(Where, r, k)]) : y.job = Job(r, k)
                     \/ Route(Where, r, k) = p /\ m.job = Job(r, k)
    BY <1>2, <1>3, <2>2
  <2>4. m.job.r = r => Route(Where, r, m.job.k) = p
    BY DEF Through
  <2>5. \A k \in 1 .. Count(r) :
          k \in PipeOf(r)' <=> k \in PipeOf(r) \/ (m.job.r = r /\ k = m.job.k)
    <3> SUFFICES ASSUME NEW k \in 1 .. Count(r)
                 PROVE  k \in PipeOf(r)' <=> k \in PipeOf(r) \/ (m.job.r = r /\ k = m.job.k)
      OBVIOUS
    <3>1. k \in PipeOf(r)' <=> \E y \in Members(in_q'[Route(Where, r, k)]) : y.job = Job(r, k)
      BY <1>1 DEF PipeOf
    <3>2. k \in PipeOf(r) <=> \E y \in Members(in_q[Route(Where, r, k)]) : y.job = Job(r, k)
      BY DEF PipeOf
    <3>3. Route(Where, r, k) = p /\ m.job = Job(r, k) <=> m.job.r = r /\ k = m.job.k
      BY <2>1, <2>2, <2>4
    <3>4. QED
      BY <2>3, <3>1, <3>2, <3>3
  <2>6. PipeOf(r)' \subseteq 1 .. Count(r) /\ PipeOf(r) \subseteq 1 .. Count(r)
    BY DEF PipeOf
  <2>7. QED
    BY <2>1, <2>5, <2>6
<1>8. QED
  BY <1>6, <1>7

-----------------------------------------------------------------------------
(* The engine hands a chunk over *)

(* One more job that SplitVoc keeps. *)
LEMMA KeptAppend ==
  ASSUME Typed, NEW r \in Requests, NEW j \in Jobs,
         pending' = Append(pending, j), deployment' = deployment, KeptPlaced(r),
         j.r = r => /\ Where = "split" /\ j.k \in 2 .. Count(r)
                    /\ \A a \in KeptOf(r) : a < j.k
  PROVE  /\ KeptPlaced(r)'
         /\ KeptOf(r)' = IF j.r = r THEN KeptOf(r) \cup {j.k} ELSE KeptOf(r)
<1>1. pending \in Seq(Jobs) /\ Where' = Where
  BY DEF Typed, Where
<1>2. Members(Append(pending, j)) = Members(pending) \cup {j}
  BY <1>1, AppendMembers
<1>3. \A i \in Members(pending) : i.r = r /\ j.r = r => i.k < j.k
  BY InPlace
<1>4. KeptPlaced(r)'
  <2> DEFINE K == IF Where = "split" THEN 2 .. Count(r) ELSE {}
  <2>1. Lined(pending, r, K)
    BY DEF KeptPlaced
  <2>2. j.r = r => j.k \in K
    OBVIOUS
  <2> HIDE DEF K
  <2>3. Lined(Append(pending, j), r, K)
    BY <1>1, <1>3, <2>1, <2>2, LinedAppend
  <2>4. QED
    BY <1>1, <2>3 DEF KeptPlaced, K
<1>5. KeptOf(r)' = IF j.r = r THEN KeptOf(r) \cup {j.k} ELSE KeptOf(r)
  <2>1. j.r = r => j = Job(r, j.k) /\ j.k \in 1 .. Count(r)
    BY JobFacts
  <2>2. \A k : Job(r, k).r = r /\ Job(r, k).k = k
    BY DEF Job
  <2>3. \A k \in 1 .. Count(r) : Job(r, k) = j <=> j.r = r /\ j.k = k
    BY <2>1, <2>2
  <2>4. KeptOf(r)' = {k \in 1 .. Count(r) : Job(r, k) \in Members(pending) \/ Job(r, k) = j}
    BY <1>2 DEF KeptOf
  <2>5. KeptOf(r)' = {k \in 1 .. Count(r) : k \in KeptOf(r) \/ (j.r = r /\ j.k = k)}
    BY <2>3, <2>4 DEF KeptOf
  <2>6. KeptOf(r) \subseteq 1 .. Count(r)
    BY DEF KeptOf
  <2>7. CASE j.r = r
    BY <2>1, <2>5, <2>6, <2>7
  <2>8. CASE j.r # r
    BY <2>5, <2>6, <2>8
  <2>9. QED
    BY <2>7, <2>8
<1>6. QED
  BY <1>4, <1>5

(* A chunk of another request is handed over. *)
LEMMA HandOverOther ==
  ASSUME Typed, NEW r \in Regular, NEW e, Flow(r, e),
         NEW x \in Requests, HandOver(x), x # r
  PROVE  Flow(r, e)'
<1> DEFINE j == Job(x, handed[x] + 1)
           p == IF Where = "split" /\ IsFirst(j) THEN "first" ELSE "remote"
           kept == Where = "split" /\ ~IsFirst(j) /\ ~IsEnd(j)
           m == Message(j, Absent)
<1>1. r \in Requests /\ j \in Jobs /\ p \in Procs /\ j.r # r /\ m \in Messages /\ m.job.r # r
  BY RegularFacts, HandOverTypes DEF Procs, Job, Message, Messages
<1>2. /\ handed' = [handed EXCEPT ![x] = @ + 1]
      /\ IF Where = "in_process" THEN Enqueue(j, p)
         ELSE q_first' = q_first /\ q_topup' = q_topup /\ q' = q
      /\ IF Where = "in_process" \/ kept THEN in_q' = in_q /\ registered' = registered
         ELSE /\ in_q' = [in_q EXCEPT ![p] = Append(@, m)]
              /\ registered' = [registered EXCEPT ![p] = @ \cup {x}]
      /\ pending' = IF kept THEN Append(pending, j) ELSE pending
      /\ deployment' = deployment /\ lane' = lane /\ voc' = voc
      /\ delivered' = delivered /\ sent_tail' = sent_tail /\ parent' = parent
      /\ out_q' = out_q
  BY DEF HandOver, Job
<1> HIDE DEF j, p, kept, m
<1>3. /\ KeptPlaced(r) /\ QueuesPlaced(r) /\ LanesPlaced(r) /\ PipesPlaced(r)
      /\ Outgoing(r, e) /\ OnTheWay(r, e) /\ Blended(r, e)
  BY DEF Flow
<1>4. handed'[r] = handed[r]
  BY <1>1, <1>2 DEF Typed
<1>5. QueuesPlaced(r)' /\ QueueOf(r)' = QueueOf(r)
  BY <1>1, <1>2, <1>3, EnqueueQuiet, SameQueues
<1>6. PipesPlaced(r)' /\ PipeOf(r)' = PipeOf(r)
  BY <1>1, <1>2, <1>3, PipeAppend, SamePipes
<1>7. KeptPlaced(r)' /\ KeptOf(r)' = KeptOf(r)
  BY <1>1, <1>2, <1>3, KeptAppend, SameKept
<1>8. LanesPlaced(r)' /\ HandOf(r)' = HandOf(r)
  BY <1>2, <1>3, SameHand
<1>9. OnTheWay(r, e)'
  BY <1>3, <1>4, <1>5, <1>6, <1>7, <1>8 DEF OnTheWay
<1>10. Outgoing(r, e)'
  BY <1>2, <1>3, SameOut
<1>11. \A s \in Procs : r \in registered[s] => r \in registered'[s]
  BY <1>1, <1>2 DEF Typed
<1>12. \A k \in HandOf(r)' : k # 1 => voc["remote"][r].audio
  BY <1>3, <1>8 DEF Blended
<1>13. QED
  BY <1>1, <1>2, <1>4, <1>5, <1>6, <1>7, <1>8, <1>9, <1>10, <1>11, <1>12, QuietFlow

(* The next chunk of the request goes to the end of its way. *)
LEMMA HandOverOwn ==
  ASSUME Typed, NEW r \in Regular, NEW e, Flow(r, e), HandOver(r)
  PROVE  Flow(r, e)'
<1> DEFINE h == handed[r]
           k == h + 1
           j == Job(r, k)
           p == IF Where = "split" /\ IsFirst(j) THEN "first" ELSE "remote"
           kept == Where = "split" /\ ~IsFirst(j) /\ ~IsEnd(j)
           m == Message(j, Absent)
<1>1. /\ r \in Requests /\ Count(r) \in Nat \ {0} /\ h \in Nat /\ k \in 1 .. Count(r)
      /\ j \in Jobs /\ j.r = r /\ j.k = k
      /\ IsFirst(j) <=> k = 1
      /\ ~ IsEnd(j)
  <2>1. /\ r \in Requests /\ Count(r) \in Nat \ {0} /\ h \in Nat /\ k \in 1 .. Count(r)
    BY RegularFacts, HandOverTypes DEF Typed
  <2>2. QED
    BY <2>1, RegularFacts, JobFacts
<1>2. /\ handed' = [handed EXCEPT ![r] = @ + 1]
      /\ IF Where = "in_process" THEN Enqueue(j, p)
         ELSE q_first' = q_first /\ q_topup' = q_topup /\ q' = q
      /\ IF Where = "in_process" \/ kept THEN in_q' = in_q /\ registered' = registered
         ELSE /\ in_q' = [in_q EXCEPT ![p] = Append(@, m)]
              /\ registered' = [registered EXCEPT ![p] = @ \cup {r}]
      /\ pending' = IF kept THEN Append(pending, j) ELSE pending
      /\ deployment' = deployment /\ lane' = lane /\ voc' = voc
      /\ delivered' = delivered /\ sent_tail' = sent_tail /\ parent' = parent
      /\ out_q' = out_q
  BY DEF HandOver, Job
<1>3. p = Route(Where, r, k) /\ (kept <=> Where = "split" /\ k # 1)
  BY <1>1 DEF Route
<1>4. m \in Messages /\ m.job = j /\ m.tail = Absent
  BY <1>1 DEF Message, Messages
<1>5. /\ KeptPlaced(r) /\ QueuesPlaced(r) /\ LanesPlaced(r) /\ PipesPlaced(r)
      /\ Outgoing(r, e) /\ OnTheWay(r, e) /\ Blended(r, e)
      /\ Counts(r, e) /\ Listening(r) /\ FirstHeard(r, e) /\ TailSent(r)
  BY DEF Flow
<1>6. handed'[r] = k /\ e \in Nat /\ e <= h
  BY <1>1, <1>2, <1>5 DEF Typed, Counts
<1>7. j = Job(r, k)
  OBVIOUS
<1> HIDE DEF j, p, kept, m
<1>8. /\ Path(HandOf(r), QueueOf(r), PipeOf(r), KeptOf(r), e, h)
      /\ \A a \in HandOf(r) \cup QueueOf(r) \cup PipeOf(r) \cup KeptOf(r) : a \in Nat /\ a < k
      /\ PipeOf(r) = {} /\ KeptOf(r) = {} =>
           Path(HandOf(r), QueueOf(r) \cup {k}, PipeOf(r), KeptOf(r), e, k)
      /\ KeptOf(r) = {} =>
           Path(HandOf(r), QueueOf(r), PipeOf(r) \cup {k}, KeptOf(r), e, k)
      /\ Path(HandOf(r), QueueOf(r), PipeOf(r), KeptOf(r) \cup {k}, e, k)
  <2> DEFINE A == HandOf(r)
             B == QueueOf(r)
             C == PipeOf(r)
             D == KeptOf(r)
  <2>1. Path(A, B, C, D, e, h)
    BY <1>5 DEF OnTheWay
  <2>2. h \in Nat /\ e \in Nat /\ e <= h
    BY <1>1, <1>6
  <2> HIDE DEF A, B, C, D, h
  <2>3. /\ \A n \in A \cup B \cup C \cup D : n \in Nat /\ n < h + 1
        /\ C = {} /\ D = {} => Path(A, B \cup {h + 1}, C, D, e, h + 1)
        /\ D = {} => Path(A, B, C \cup {h + 1}, D, e, h + 1)
        /\ Path(A, B, C, D \cup {h + 1}, e, h + 1)
    BY <2>1, <2>2, PathGrows
  <2>4. QED
    BY <2>1, <2>3 DEF A, B, C, D
<1>9. LanesPlaced(r)' /\ HandOf(r)' = HandOf(r)
  BY <1>2, <1>5, SameHand
<1>10. Outgoing(r, e)'
  BY <1>2, <1>5, SameOut
<1>11. Where # "split" => KeptOf(r) = {}
  BY <1>5 DEF KeptPlaced, KeptOf, Lined, Job
<1>12. Where = "in_process" => PipeOf(r) = {}
  <2>1. \A i : Route(Where, r, i) \in Procs /\ Job(r, i).r = r
    BY <1>1, RouteFacts DEF Job
  <2>2. \A s \in Procs : \A y \in Members(in_q[s]) : y.job.r = r => Where # "in_process"
    BY <1>5 DEF PipesPlaced
  <2>3. QED
    BY <2>1, <2>2 DEF PipeOf
<1>13. k = 1 => KeptOf(r) = {}
  BY <1>5, <1>8, <1>1, <1>6 DEF Path
<1>14. /\ QueuesPlaced(r)' /\ PipesPlaced(r)' /\ KeptPlaced(r)' /\ OnTheWay(r, e)'
       /\ KeptOf(r)' = IF kept THEN KeptOf(r) \cup {k} ELSE KeptOf(r)
  <2>1. CASE Where = "in_process"
    <3>1. ~ kept /\ Enqueue(j, p)
      BY <1>2, <1>3, <2>1
    <3>2. QueuesPlaced(r)' /\ QueueOf(r)' = QueueOf(r) \cup {k}
      BY <1>1, <1>2, <1>3, <1>5, <1>7, <1>8, <3>1, EnqueueOwn
    <3>3. PipesPlaced(r)' /\ PipeOf(r)' = PipeOf(r) /\ KeptPlaced(r)' /\ KeptOf(r)' = KeptOf(r)
      BY <1>2, <1>5, <2>1, <3>1, SamePipes, SameKept
    <3>4. OnTheWay(r, e)'
      BY <1>6, <1>8, <1>9, <1>11, <1>12, <2>1, <3>2, <3>3 DEF OnTheWay
    <3>5. QED
      BY <3>1, <3>2, <3>3, <3>4
  <2>2. CASE kept
    <3>1. Where = "split" /\ k \in 2 .. Count(r)
      BY <1>1, <1>3, <2>2
    <3>2. KeptPlaced(r)' /\ KeptOf(r)' = KeptOf(r) \cup {k}
      BY <1>1, <1>2, <1>5, <1>8, <2>2, <3>1, KeptAppend
    <3>3. /\ QueuesPlaced(r)' /\ QueueOf(r)' = QueueOf(r)
          /\ PipesPlaced(r)' /\ PipeOf(r)' = PipeOf(r)
      BY <1>2, <1>5, <2>2, <3>1, SamePipes, SameQueues
    <3>4. OnTheWay(r, e)'
      BY <1>6, <1>8, <1>9, <3>2, <3>3 DEF OnTheWay
    <3>5. QED
      BY <2>2, <3>2, <3>3, <3>4
  <2>3. CASE Where # "in_process" /\ ~ kept
    <3>1. /\ in_q' = [in_q EXCEPT ![p] = Append(@, m)] /\ pending' = pending
          /\ q_first' = q_first /\ q_topup' = q_topup /\ q' = q
      BY <1>2, <2>3
    <3>2. /\ QueuesPlaced(r)' /\ QueueOf(r)' = QueueOf(r)
          /\ KeptPlaced(r)' /\ KeptOf(r)' = KeptOf(r)
      BY <1>2, <1>5, <3>1, SameKept, SameQueues
    <3>3. k \in Through(Where, r, p) /\ p \in Procs
      BY <1>1, <1>3, RouteFacts DEF Through
    <3>4. ~ (Where = "split" /\ k = 2)
      BY <1>3, <2>3
    <3>5. PipesPlaced(r)' /\ PipeOf(r)' = PipeOf(r) \cup {k}
      <4>1. /\ m.job.r = r /\ m.job.k = k
            /\ m.tail = IF Where = "split" /\ m.job.k = 2 THEN 1 ELSE Absent
        BY <1>1, <1>4, <3>4
      <4>2. m.job.k \in Through(Where, r, p) /\ \A a \in PipeOf(r) : a < m.job.k
        BY <1>8, <3>3, <4>1
      <4>3. /\ PipesPlaced(r)'
            /\ PipeOf(r)' = IF m.job.r = r THEN PipeOf(r) \cup {m.job.k} ELSE PipeOf(r)
        BY <1>1, <1>2, <1>4, <1>5, <2>3, <3>1, <3>3, <4>1, <4>2, PipeAppend
      <4>4. QED
        BY <4>1, <4>3
    <3>6. KeptOf(r) = {}
      BY <1>3, <1>11, <1>13, <2>3
    <3>7. OnTheWay(r, e)'
      BY <1>6, <1>8, <1>9, <3>2, <3>5, <3>6 DEF OnTheWay
    <3>8. QED
      BY <2>3, <3>2, <3>5, <3>7
  <2>4. QED
    BY <2>1, <2>2, <2>3
<1>15. Where' = Where /\ h \in Nat /\ h < Count(r) /\ k = h + 1
  BY <1>1, <1>2 DEF Where
<1>16. Counts(r, e)'
  <2>1. k \in 0 .. Count(r) /\ e <= k
    BY <1>1, <1>6, <1>15
  <2>2. QED
    BY <1>2, <1>5, <1>6, <2>1 DEF Counts
<1>17. Blended(r, e)'
  BY <1>2, <1>5, <1>9 DEF Blended
<1>18. Listening(r)'
  <2> SUFFICES ASSUME Where # "in_process", Len(delivered[r]) <= Count(r),
                      NEW i \in 1 .. k, i \notin KeptOf(r)'
               PROVE  r \in registered'[Route(Where, r, i)]
    BY <1>2, <1>6, <1>15 DEF Listening
  <2>1. registered \in [Procs -> SUBSET Requests] /\ \A n : Route(Where, r, n) \in Procs
    BY <1>1, RouteFacts DEF Typed
  <2>2. CASE i \in 1 .. h
    <3>1. i \notin KeptOf(r)
      BY <1>14
    <3>2. r \in registered[Route(Where, r, i)]
      BY <1>5, <2>2, <3>1 DEF Listening
    <3>3. QED
      BY <1>2, <2>1, <3>2
  <2>3. CASE i = k
    <3>1. ~ kept
      BY <1>14, <2>3
    <3>2. registered' = [registered EXCEPT ![p] = @ \cup {r}]
      BY <1>2, <3>1
    <3>3. QED
      BY <1>3, <2>1, <2>3, <3>2
  <2>4. QED
    BY <1>15, <2>2, <2>3
<1>19. FirstHeard(r, e)'
  <2>1. \A i \in 2 .. k : i \in 2 .. h \/ i = k
    BY <1>15
  <2>2. Where = "split" => \A i \in 2 .. k : i \notin KeptOf(r)' => Len(delivered[r]) >= 1
    <3> SUFFICES ASSUME Where = "split", NEW i \in 2 .. k, i \notin KeptOf(r)'
                 PROVE  Len(delivered[r]) >= 1
      OBVIOUS
    <3>1. i # k /\ i \notin KeptOf(r)
      <4>1. i = k => kept
        BY <1>3
      <4>2. QED
        BY <1>14, <4>1
    <3>2. i \in 2 .. h
      BY <2>1, <3>1
    <3>3. QED
      BY <1>5, <3>1, <3>2 DEF FirstHeard
  <2>3. QED
    BY <1>2, <1>5, <1>6, <1>15, <2>2 DEF FirstHeard
<1>20. TailSent(r)'
  <2>1. CASE Where # "split"
    BY <1>2, <1>5, <1>15, <2>1 DEF TailSent
  <2>2. CASE Where = "split" /\ k = 1
    BY <1>2, <1>5, <1>6, <1>15, <2>2 DEF TailSent
  <2>3. CASE Where = "split" /\ k # 1
    <3>1. kept
      BY <1>3, <2>3
    <3>2. KeptOf(r)' = KeptOf(r) \cup {k}
      BY <1>14, <3>1
    <3>3. handed'[r] = Count(r) => Count(r) \in KeptOf(r)'
      BY <1>6, <3>2
    <3>4. r \in sent_tail <=> 2 <= h /\ 2 \notin KeptOf(r)
      BY <1>5, <1>15, <2>3 DEF TailSent
    <3>5. 2 <= k /\ (2 <= h /\ 2 \notin KeptOf(r) <=> 2 \notin KeptOf(r) \cup {k})
      <4>1. CASE h = 1
        BY <1>15, <4>1
      <4>2. CASE h # 1
        BY <1>15, <2>3, <4>2
      <4>3. QED
        BY <4>1, <4>2
    <3>6. QED
      BY <1>2, <1>6, <1>15, <2>3, <3>2, <3>3, <3>4, <3>5 DEF TailSent
  <2>4. QED
    BY <2>1, <2>2, <2>3
<1>21. QED
  BY <1>9, <1>10, <1>14, <1>16, <1>17, <1>18, <1>19, <1>20 DEF Flow

-----------------------------------------------------------------------------
(* The lanes, for a request none of whose jobs is finished *)

(* One lane has something else in hand. *)
LEMMA LaneMoves ==
  ASSUME Typed, NEW r \in Requests, NEW p \in Procs, NEW l \in Lanes,
         deployment' = deployment, LanesPlaced(r),
         \A s \in Procs, m \in Lanes : s # p \/ m # l => lane'[s][m] = lane[s][m],
         Lined(Hand(lane'[p][l]), r, {k \in Through(Where, r, p) : LaneOf(k) = l})
  PROVE  /\ LanesPlaced(r)'
         /\ \A k \in 1 .. Count(r) :
              k \in HandOf(r)' <=> IF Route(Where, r, k) = p /\ LaneOf(k) = l
                                   THEN Job(r, k) \in Members(Hand(lane'[p][l]))
                                   ELSE k \in HandOf(r)
<1>1. Where' = Where
  BY DEF Where
<1>2. \A k : Route(Where, r, k) \in Procs /\ LaneOf(k) \in Lanes
  BY RouteFacts
<1>3. LanesPlaced(r)'
  <2> SUFFICES ASSUME NEW s \in Procs, NEW m \in Lanes
               PROVE  Lined(Hand(lane'[s][m]), r, {k \in Through(Where, r, s) : LaneOf(k) = m})
    BY <1>1 DEF LanesPlaced
  <2>1. CASE s = p /\ m = l
    BY <2>1
  <2>2. CASE s # p \/ m # l
    <3>1. lane'[s][m] = lane[s][m]
      BY <2>2
    <3>2. QED
      BY <3>1 DEF LanesPlaced
  <2>3. QED
    BY <2>1, <2>2
<1>4. ASSUME NEW k \in 1 .. Count(r)
      PROVE  k \in HandOf(r)' <=> IF Route(Where, r, k) = p /\ LaneOf(k) = l
                                  THEN Job(r, k) \in Members(Hand(lane'[p][l]))
                                  ELSE k \in HandOf(r)
  <2>1. k \in HandOf(r)' <=> Job(r, k) \in Members(Hand(lane'[Route(Where, r, k)][LaneOf(k)]))
    BY <1>1 DEF HandOf
  <2>2. k \in HandOf(r) <=> Job(r, k) \in Members(Hand(lane[Route(Where, r, k)][LaneOf(k)]))
    BY DEF HandOf
  <2>3. CASE Route(Where, r, k) = p /\ LaneOf(k) = l
    BY <2>1, <2>3
  <2>4. CASE ~ (Route(Where, r, k) = p /\ LaneOf(k) = l)
    <3>1. lane'[Route(Where, r, k)][LaneOf(k)] = lane[Route(Where, r, k)][LaneOf(k)]
      BY <1>2, <2>4
    <3>2. QED
      BY <2>1, <2>2, <2>4, <3>1
  <2>5. QED
    BY <2>3, <2>4
<1>5. QED
  BY <1>3, <1>4

(* The first of a queue pass to a lane. *)
LEMMA PathMoves ==
  ASSUME NEW e, NEW h, NEW A, NEW B, NEW C, NEW D, Path(A, B, C, D, e, h),
         NEW M \in SUBSET B, \A x \in M, y \in B \ M : x < y
  PROVE  Path(A \cup M, B \ M, C, D, e, h)
BY DEF Path

(* The lanes and the calls when no job of the request is added or removed. *)
LEMMA LaneQuiet ==
  ASSUME Typed, NEW r \in Regular, NEW e, Flow(r, e),
         NEW p \in Procs, NEW l \in Lanes, NEW calls \in Seq(Calls),
         Emit(p, calls), \A c \in Members(calls) : c.r # r,
         deployment' = deployment, handed' = handed, q_first' = q_first,
         q_topup' = q_topup, q' = q, pending' = pending, sent_tail' = sent_tail,
         parent' = parent, registered' = registered, in_q' = in_q,
         \A s \in Procs : voc'[s][r] = voc[s][r],
         \A s \in Procs, m \in Lanes : s # p \/ m # l => lane'[s][m] = lane[s][m],
         InOrder(Hand(lane'[p][l]), JobOrder(r)),
         \A j : j.r = r => j \in Members(Hand(lane'[p][l])) <=> j \in Members(Hand(lane[p][l]))
  PROVE  Flow(r, e)'
<1>1. r \in Requests
  BY RegularFacts
<1>2. /\ KeptPlaced(r) /\ QueuesPlaced(r) /\ LanesPlaced(r) /\ PipesPlaced(r)
      /\ Outgoing(r, e) /\ OnTheWay(r, e) /\ Blended(r, e)
  BY DEF Flow
<1>3. /\ KeptPlaced(r)' /\ KeptOf(r)' = KeptOf(r) /\ PipesPlaced(r)' /\ PipeOf(r)' = PipeOf(r)
      /\ QueuesPlaced(r)' /\ QueueOf(r)' = QueueOf(r)
  BY <1>2, SameKept, SamePipes, SameQueues
<1>4. /\ delivered'[r] = delivered[r] /\ Outgoing(r, e)'
      /\ \A s \in Procs : \A c \in Members(out_q[s]) : c \in Members(out_q'[s])
  BY <1>1, <1>2, OutQuiet
<1>5. Lined(Hand(lane'[p][l]), r, {k \in Through(Where, r, p) : LaneOf(k) = l})
  BY <1>2 DEF LanesPlaced, Lined
<1>6. /\ LanesPlaced(r)'
      /\ \A k \in 1 .. Count(r) :
           k \in HandOf(r)' <=> IF Route(Where, r, k) = p /\ LaneOf(k) = l
                                THEN Job(r, k) \in Members(Hand(lane'[p][l]))
                                ELSE k \in HandOf(r)
  BY <1>1, <1>2, <1>5, LaneMoves
<1>7. HandOf(r)' = HandOf(r)
  <2>1. \A k \in 1 .. Count(r) : k \in HandOf(r)' <=> k \in HandOf(r)
    BY <1>6 DEF HandOf, Job
  <2>2. HandOf(r)' \subseteq 1 .. Count(r) /\ HandOf(r) \subseteq 1 .. Count(r)
    BY DEF HandOf
  <2>3. QED
    BY <2>1, <2>2
<1>8. OnTheWay(r, e)'
  BY <1>2, <1>3, <1>7 DEF OnTheWay
<1>9. \A k \in HandOf(r)' : k # 1 => voc["remote"][r].audio
  BY <1>2, <1>7 DEF Blended
<1>10. "first" \in Procs
  BY DEF Procs
<1>11. QED
  BY <1>1, <1>3, <1>4, <1>6, <1>8, <1>9, <1>10, QuietFlow

(* End markers are of other requests. *)
LEMMA ProcessStartFlow ==
  ASSUME Typed, NEW r \in Regular, NEW e, Flow(r, e),
         NEW p \in Procs, NEW l \in Lanes, ProcessStart(p, l)
  PROVE  Flow(r, e)'
<1>1. /\ deployment' = deployment /\ handed' = handed /\ q_first' = q_first
      /\ q_topup' = q_topup /\ q' = q /\ pending' = pending /\ sent_tail' = sent_tail
      /\ parent' = parent /\ registered' = registered /\ in_q' = in_q
  BY DEF ProcessStart, clientVars
<1>2. r \in Requests /\ \A k \in 1 .. Count(r) : ~ IsEnd(Job(r, k))
  BY RegularFacts
<1>3. LanesPlaced(r)
  BY DEF Flow
<1>4. \A j \in Members(Hand(lane[p][l])) : j.r = r => ~ IsEnd(j)
  BY <1>2, <1>3, InPlace
<1>5. PICK calls \in Seq(Calls) :
        /\ Emit(p, calls)
        /\ \A c \in Members(calls) :
             \E j \in Members(Hand(lane[p][l])) : IsEnd(j) /\ c.r = j.r
  BY ProcessStartFacts
<1>6. \A c \in Members(calls) : c.r # r
  BY <1>4, <1>5
<1>7. /\ \A s \in Procs, x \in Requests :
           voc'[s][x] # voc[s][x] =>
             \E j \in Members(Hand(lane[p][l])) : IsEnd(j) /\ j.r = x
      /\ Members(Hand(lane'[p][l])) = {j \in Members(Hand(lane[p][l])) : ~ IsEnd(j)}
      /\ \A R : InOrder(Hand(lane[p][l]), R) => InOrder(Hand(lane'[p][l]), R)
      /\ \A s \in Procs, m \in Lanes : s # p \/ m # l => lane'[s][m] = lane[s][m]
  BY ProcessStartFacts
<1>8. \A s \in Procs : voc'[s][r] = voc[s][r]
  BY <1>2, <1>4, <1>7
<1>9. InOrder(Hand(lane'[p][l]), JobOrder(r))
  BY <1>3, <1>7 DEF LanesPlaced, Lined
<1>10. \A j : j.r = r => j \in Members(Hand(lane'[p][l])) <=> j \in Members(Hand(lane[p][l]))
  BY <1>4, <1>7
<1>11. QED
  BY <1>1, <1>5, <1>6, <1>7, <1>8, <1>9, <1>10, LaneQuiet

(* A batch that fails has no job of the request. *)
LEMMA BatchFailsFlow ==
  ASSUME Typed, NEW r \in Regular, NEW e, Flow(r, e),
         NEW p \in Procs, NEW l \in Lanes, BatchFails(p, l)
  PROVE  Flow(r, e)'
<1>1. /\ deployment' = deployment /\ handed' = handed /\ q_first' = q_first
      /\ q_topup' = q_topup /\ q' = q /\ pending' = pending /\ sent_tail' = sent_tail
      /\ parent' = parent /\ registered' = registered /\ in_q' = in_q /\ voc' = voc
  BY DEF BatchFails, clientVars
<1>2. r \notin MayFail
  BY RegularFacts
<1>3. PICK calls \in Seq(Calls) :
        Emit(p, calls) /\ \A c \in Members(calls) : c.r \in MayFail
  BY BatchFailsFacts
<1>4. \A c \in Members(calls) : c.r # r
  BY <1>2, <1>3
<1>5. /\ \A j \in Members(Hand(lane[p][l])) : j.r \in MayFail
      /\ Hand(lane'[p][l]) = <<>>
      /\ \A s \in Procs, m \in Lanes : s # p \/ m # l => lane'[s][m] = lane[s][m]
  BY BatchFailsFacts
<1>6. InOrder(Hand(lane'[p][l]), JobOrder(r)) /\ Members(Hand(lane'[p][l])) = {}
  BY <1>5, OrderEmpty, EmptyFacts
<1>7. \A j : j.r = r => j \in Members(Hand(lane'[p][l])) <=> j \in Members(Hand(lane[p][l]))
  BY <1>2, <1>5, <1>6
<1>8. QED
  BY <1>1, <1>3, <1>4, <1>5, <1>6, <1>7, LaneQuiet

(* A job of another request is done. *)
LEMMA PostprocessOther ==
  ASSUME Typed, NEW r \in Regular, NEW e, Flow(r, e),
         NEW p \in Procs, NEW l \in Lanes, Postprocess(p, l),
         Head(Hand(lane[p][l])).r # r
  PROVE  Flow(r, e)'
<1> DEFINE s0 == Hand(lane[p][l])
           j == Head(s0)
           calls == Noted(j) \o Audio(p, j) \o Ended(p, j)
<1>1. /\ deployment' = deployment /\ handed' = handed /\ q_first' = q_first
      /\ q_topup' = q_topup /\ q' = q /\ pending' = pending /\ sent_tail' = sent_tail
      /\ parent' = parent /\ registered' = registered /\ in_q' = in_q
  BY DEF Postprocess, clientVars
<1>2. /\ s0 # <<>> /\ j \in Jobs /\ Emit(p, calls)
      /\ Noted(j) \in Seq(Calls) /\ Audio(p, j) \in Seq(Calls) /\ Ended(p, j) \in Seq(Calls)
      /\ Hand(lane'[p][l]) = Tail(s0)
      /\ \A s \in Procs, m \in Lanes : s # p \/ m # l => lane'[s][m] = lane[s][m]
      /\ \A s \in Procs, x \in Requests : s # p \/ x # j.r => voc'[s][x] = voc[s][x]
  BY PostprocessFacts
<1>3. s0 \in Seq(Jobs) /\ LanesPlaced(r) /\ r \in Requests
  BY LaneFacts, RegularFacts DEF Typed, Flow
<1>4. /\ calls \in Seq(Calls)
      /\ Members(calls) = Members(Noted(j)) \cup Members(Audio(p, j)) \cup Members(Ended(p, j))
  <2> DEFINE a == Noted(j)
             b == Audio(p, j)
             c == Ended(p, j)
  <2>1. a \in Seq(Calls) /\ b \in Seq(Calls) /\ c \in Seq(Calls)
    BY <1>2
  <2> HIDE DEF a, b, c
  <2>2. a \o b \in Seq(Calls) /\ Members(a \o b) = Members(a) \cup Members(b)
    BY <2>1, JoinedFacts
  <2>3. (a \o b) \o c \in Seq(Calls) /\ Members((a \o b) \o c) = Members(a \o b) \cup Members(c)
    BY <2>1, <2>2, JoinedFacts
  <2>4. QED
    BY <2>2, <2>3 DEF a, b, c
<1>5. j.r # r
  OBVIOUS
<1> HIDE DEF s0, j
<1>6. \A c \in Members(calls) : c.r # r
  <2>1. \A c \in Members(Noted(j)) : c.r = j.r
    BY EmptyFacts DEF Noted, Call, Members
  <2>2. \A c \in Members(Audio(p, j)) : c.r = j.r
    BY DEF Audio, Call, Members
  <2>3. \A c \in Members(Ended(p, j)) : c.r = j.r
    BY EmptyFacts DEF Ended, Call, Members
  <2>4. QED
    BY <1>4, <1>5, <2>1, <2>2, <2>3
<1> HIDE DEF calls
<1>7. InOrder(s0, JobOrder(r)) /\ s0 = Hand(lane[p][l]) /\ j = Head(s0)
  BY <1>3 DEF LanesPlaced, Lined, s0, j
<1>8. InOrder(Tail(s0), JobOrder(r)) /\ Members(s0) = {j} \cup Members(Tail(s0))
  BY <1>2, <1>3, <1>7, OrderTail, HeadTailFacts
<1>9. \A i : i.r = r => i \in Members(Hand(lane'[p][l])) <=> i \in Members(Hand(lane[p][l]))
  BY <1>2, <1>5, <1>7, <1>8
<1>10. InOrder(Hand(lane'[p][l]), JobOrder(r)) /\ \A s \in Procs : voc'[s][r] = voc[s][r]
  BY <1>2, <1>3, <1>5, <1>8
<1>11. QED
  BY <1>1, <1>2, <1>4, <1>6, <1>9, <1>10, LaneQuiet

(* Jobs pass from a queue to an idle lane. *)
LEMMA TakenFlow ==
  ASSUME Typed, NEW r \in Regular, NEW e, Flow(r, e),
         NEW p \in Procs, NEW l \in Lanes, NEW jobs \in Seq(Jobs), jobs # <<>>,
         lane[p][l] = Idle,
         lane' = [lane EXCEPT ![p][l] = [stage |-> "taken", jobs |-> jobs, todo |-> <<>>]],
         deployment' = deployment, handed' = handed, pending' = pending,
         sent_tail' = sent_tail, parent' = parent, registered' = registered,
         in_q' = in_q, out_q' = out_q, delivered' = delivered, voc' = voc,
         NEW M \in SUBSET QueueOf(r),
         \A k \in 1 .. Count(r) : k \in M <=> Job(r, k) \in Members(jobs),
         \A k \in M : Route(Where, r, k) = p /\ LaneOf(k) = l,
         \A x \in M, y \in QueueOf(r) \ M : x < y,
         \A k \in M : k # 1 => voc["remote"][r].audio,
         InOrder(jobs, JobOrder(r)),
         QueuesPlaced(r)', QueueOf(r)' = QueueOf(r) \ M
  PROVE  Flow(r, e)'
<1>1. r \in Requests /\ M \subseteq 1 .. Count(r)
  BY RegularFacts DEF QueueOf
<1>2. /\ KeptPlaced(r) /\ QueuesPlaced(r) /\ LanesPlaced(r) /\ PipesPlaced(r)
      /\ Outgoing(r, e) /\ OnTheWay(r, e) /\ Blended(r, e)
  BY DEF Flow
<1>3. /\ KeptPlaced(r)' /\ KeptOf(r)' = KeptOf(r) /\ PipesPlaced(r)' /\ PipeOf(r)' = PipeOf(r)
      /\ Outgoing(r, e)'
  BY <1>2, SameKept, SamePipes, SameOut
<1>4. /\ Hand(lane'[p][l]) = jobs /\ Hand(lane[p][l]) = <<>>
      /\ \A s \in Procs, m \in Lanes : s # p \/ m # l => lane'[s][m] = lane[s][m]
  <2> DEFINE ln == [stage |-> "taken", jobs |-> jobs, todo |-> <<>>]
  <2>1. Hand(ln) = jobs
    BY LaneFacts
  <2>2. lane \in [Procs -> [Lanes -> LaneStates]] /\ lane' = [lane EXCEPT ![p][l] = ln]
    BY DEF Typed
  <2> HIDE DEF ln
  <2>3. QED
    BY <2>1, <2>2, LaneFacts
<1>5. \A j \in Members(jobs) : j.r = r => j = Job(r, j.k) /\ j.k \in M
  <2>1. \A j \in Members(jobs) : j \in Jobs
    BY MembersFacts
  <2>2. QED
    BY <2>1, JobFacts
<1>6. Lined(Hand(lane'[p][l]), r, {k \in Through(Where, r, p) : LaneOf(k) = l})
  BY <1>1, <1>4, <1>5 DEF Lined, Through
<1>7. /\ LanesPlaced(r)'
      /\ \A k \in 1 .. Count(r) :
           k \in HandOf(r)' <=> IF Route(Where, r, k) = p /\ LaneOf(k) = l
                                THEN Job(r, k) \in Members(Hand(lane'[p][l]))
                                ELSE k \in HandOf(r)
  BY <1>1, <1>2, <1>4, <1>6, LaneMoves
<1>8. \A k \in HandOf(r) : ~ (Route(Where, r, k) = p /\ LaneOf(k) = l)
  BY <1>4, EmptyFacts DEF HandOf
<1>9. HandOf(r)' = HandOf(r) \cup M
  <2>1. \A k \in 1 .. Count(r) : k \in HandOf(r)' <=> k \in HandOf(r) \cup M
    BY <1>4, <1>7, <1>8
  <2>2. HandOf(r)' \subseteq 1 .. Count(r) /\ HandOf(r) \subseteq 1 .. Count(r)
    BY DEF HandOf
  <2>3. QED
    BY <1>1, <2>1, <2>2
<1>10. OnTheWay(r, e)'
  <2>1. Path(HandOf(r), QueueOf(r), PipeOf(r), KeptOf(r), e, handed[r])
    BY <1>2 DEF OnTheWay
  <2>2. Path(HandOf(r) \cup M, QueueOf(r) \ M, PipeOf(r), KeptOf(r), e, handed[r])
    BY <2>1, PathMoves
  <2>3. QED
    BY <1>3, <1>9, <2>2 DEF OnTheWay
<1>11. \A k \in HandOf(r)' : k # 1 => voc["remote"][r].audio
  BY <1>2, <1>9 DEF Blended
<1>12. QED
  BY <1>1, <1>3, <1>7, <1>10, <1>11, QuietFlow

(* The priority lane takes at most the first job of the request. *)
LEMMA TakeFirstFlow ==
  ASSUME Typed, NEW r \in Regular, NEW e, Flow(r, e), NEW p \in Procs, TakeFirst(p)
  PROVE  Flow(r, e)'
<1>1. PICK jobs \in Seq(Jobs) :
        /\ jobs # <<>>
        /\ Members(jobs) \subseteq Members(q_first[p]) \/ Members(jobs) \subseteq Members(q_topup[p])
        /\ \A R : InOrder(q_first[p], R) /\ InOrder(q_topup[p], R) => InOrder(jobs, R)
        /\ lane[p]["priority"] = Idle
        /\ lane' = [lane EXCEPT ![p]["priority"] =
                      [stage |-> "taken", jobs |-> jobs, todo |-> <<>>]]
        /\ q_first' = [q_first EXCEPT ![p] = Without(@, Members(jobs))]
        /\ q_topup' = [q_topup EXCEPT ![p] = Without(@, Members(jobs))]
  BY TakeFirstFacts
<1>2. /\ deployment' = deployment /\ handed' = handed /\ pending' = pending /\ q' = q
      /\ sent_tail' = sent_tail /\ parent' = parent /\ registered' = registered
      /\ in_q' = in_q /\ out_q' = out_q /\ delivered' = delivered /\ voc' = voc
  BY DEF TakeFirst, clientVars
<1> DEFINE M == {k \in 1 .. Count(r) : Job(r, k) \in Members(jobs)}
<1>3. r \in Requests /\ QueuesPlaced(r) /\ OnTheWay(r, e) /\ Counts(r, e) /\ Where' = Where
  BY <1>2, RegularFacts DEF Flow, Where
<1>4. /\ q_first \in [Procs -> Seq(Jobs)] /\ q_topup \in [Procs -> Seq(Jobs)]
      /\ "priority" \in Lanes
  BY DEF Typed, Lanes
<1>5. \A k \in M : k = 1 /\ k \in QueueOf(r) /\ Route(Where, r, k) = p /\ LaneOf(k) = "priority"
  <2> SUFFICES ASSUME NEW k \in M
               PROVE  k = 1 /\ k \in QueueOf(r) /\ Route(Where, r, k) = p
    BY DEF LaneOf
  <2>1. Job(r, k).r = r /\ Job(r, k).k = k
    BY DEF Job
  <2>2. Job(r, k) \notin Members(q_topup[p])
    BY <1>3, <2>1, InPlace
  <2>3. Job(r, k) \in Members(q_first[p])
    BY <1>1, <2>2
  <2>4. QED
    BY <1>3, <2>1, <2>3, InPlace
<1>6. \A x \in M, y \in QueueOf(r) \ M : x < y
  <2>1. \A y \in QueueOf(r) : y \in Nat /\ y >= 1
    BY DEF QueueOf
  <2>2. QED
    BY <1>5, <2>1
<1>7. InOrder(jobs, JobOrder(r))
  BY <1>1, <1>3 DEF QueuesPlaced, Lined
<1>8. QueuesPlaced(r)'
  <2> SUFFICES ASSUME NEW s \in Procs
               PROVE  /\ Lined(q_first'[s], r, Through(Where, r, s) \cap {1})
                      /\ Lined(q'[s], r, Through(Where, r, s) \ {1})
                      /\ Lined(q_topup'[s], r, {})
    BY <1>3 DEF QueuesPlaced
  <2>1. /\ Lined(q_first[s], r, Through(Where, r, s) \cap {1})
        /\ Lined(q[s], r, Through(Where, r, s) \ {1})
        /\ Lined(q_topup[s], r, {})
    BY <1>3 DEF QueuesPlaced
  <2>2. /\ q_first'[s] \in {q_first[s], Without(q_first[s], Members(jobs))}
        /\ q_topup'[s] \in {q_topup[s], Without(q_topup[s], Members(jobs))}
        /\ q_first[s] \in Seq(Jobs) /\ q_topup[s] \in Seq(Jobs)
    BY <1>1, <1>4
  <2>3. QED
    BY <1>2, <2>1, <2>2, LinedWithout
<1>9. QueueOf(r)' = QueueOf(r) \ M
  <2>1. ASSUME NEW k \in 1 .. Count(r)
        PROVE  k \in QueueOf(r)' <=> k \in QueueOf(r) /\ k \notin M
    <3>1. Route(Where, r, k) \in Procs /\ Job(r, k).r = r /\ Job(r, k).k = k
      BY <1>3, RouteFacts DEF Job
    <3>2. k \in QueueOf(r)' <=> \/ Job(r, k) \in Members(q_first'[Route(Where, r, k)])
                                \/ Job(r, k) \in Members(q[Route(Where, r, k)])
      BY <1>2, <1>3 DEF QueueOf
    <3>3. k \in QueueOf(r) <=> \/ Job(r, k) \in Members(q_first[Route(Where, r, k)])
                               \/ Job(r, k) \in Members(q[Route(Where, r, k)])
      BY DEF QueueOf
    <3>4. Members(Without(q_first[p], Members(jobs))) = Members(q_first[p]) \ Members(jobs)
      BY <1>4, WithoutFacts
    <3>5. k \in M => Job(r, k) \notin Members(q[Route(Where, r, k)])
      BY <1>3, <1>5, <3>1, InPlace
    <3>6. k \in M <=> Job(r, k) \in Members(jobs)
      OBVIOUS
    <3>7. k \in M => Route(Where, r, k) = p
      BY <1>5
    <3>8. Job(r, k) \in Members(q_first'[Route(Where, r, k)]) <=>
            Job(r, k) \in Members(q_first[Route(Where, r, k)]) /\ k \notin M
      BY <1>1, <1>4, <3>1, <3>4, <3>6, <3>7
    <3>9. QED
      BY <3>2, <3>3, <3>5, <3>8
  <2>2. QueueOf(r)' \subseteq 1 .. Count(r) /\ QueueOf(r) \subseteq 1 .. Count(r)
    BY DEF QueueOf
  <2> HIDE DEF M
  <2>3. QED
    BY <2>1, <2>2
<1>10. M \subseteq QueueOf(r) /\ \A k \in 1 .. Count(r) : k \in M <=> Job(r, k) \in Members(jobs)
  BY <1>5
<1>11. \A k \in M : k # 1 => voc["remote"][r].audio
  BY <1>5
<1>12. \A k \in M : Route(Where, r, k) = p /\ LaneOf(k) = "priority"
  BY <1>5
<1> HIDE DEF M
<1>13. M \in SUBSET QueueOf(r)
  BY <1>10
<1>14. QED
  BY <1>1, <1>2, <1>4, <1>6, <1>7, <1>8, <1>9, <1>10, <1>11, <1>12, <1>13, TakenFlow

(* The bulk lane takes jobs of the request when it has audio, the first
   ones first. *)
LEMMA TakeBulkFlow ==
  ASSUME Typed, NEW r \in Regular, NEW e, Flow(r, e), NEW p \in Procs, TakeBulk(p)
  PROVE  Flow(r, e)'
<1>1. PICK jobs \in Seq(Jobs) :
        /\ jobs # <<>>
        /\ \A j \in Members(jobs) : j \in Members(q[p]) /\ MayGo(j, p)
        /\ \A R : InOrder(q[p], R) =>
             /\ InOrder(jobs, R)
             /\ \A x \in Members(jobs), y \in Members(q[p]) \ Members(jobs) :
                  MayGo(y, p) => <<x, y>> \in R
        /\ lane[p]["bulk"] = Idle
        /\ lane' = [lane EXCEPT ![p]["bulk"] =
                      [stage |-> "taken", jobs |-> jobs, todo |-> <<>>]]
        /\ q' = [q EXCEPT ![p] = Without(@, Members(jobs))]
  BY TakeBulkFacts
<1>2. /\ deployment' = deployment /\ handed' = handed /\ pending' = pending
      /\ q_first' = q_first /\ q_topup' = q_topup
      /\ sent_tail' = sent_tail /\ parent' = parent /\ registered' = registered
      /\ in_q' = in_q /\ out_q' = out_q /\ delivered' = delivered /\ voc' = voc
  BY DEF TakeBulk, clientVars
<1> DEFINE M == {k \in 1 .. Count(r) : Job(r, k) \in Members(jobs)}
<1>3. /\ r \in Requests /\ QueuesPlaced(r) /\ OnTheWay(r, e) /\ Counts(r, e)
      /\ Blended(r, e) /\ Where' = Where
      /\ \A k \in 1 .. Count(r) : ~ IsEnd(Job(r, k))
  BY <1>2, RegularFacts DEF Flow, Where
<1>4. q \in [Procs -> Seq(Jobs)] /\ "bulk" \in Lanes
  BY DEF Typed, Lanes
<1>5. \A k \in M : /\ k \in 2 .. Count(r) /\ k \in QueueOf(r) /\ p = "remote"
                   /\ Route(Where, r, k) = p /\ LaneOf(k) = "bulk" /\ voc[p][r].audio
  <2> SUFFICES ASSUME NEW k \in M
               PROVE  /\ k \in 2 .. Count(r) /\ k \in QueueOf(r) /\ p = "remote"
                      /\ Route(Where, r, k) = p /\ LaneOf(k) = "bulk" /\ voc[p][r].audio
    OBVIOUS
  <2>1. Job(r, k).r = r /\ Job(r, k).k = k /\ k \in 1 .. Count(r)
    BY DEF Job
  <2>2. Job(r, k) \in Members(q[p]) /\ MayGo(Job(r, k), p)
    BY <1>1
  <2>3. k \in 2 .. Count(r) /\ k \in QueueOf(r) /\ p = "remote"
    BY <1>3, <2>1, <2>2, InPlace
  <2>4. QED
    BY <1>3, <2>1, <2>2, <2>3, RouteFacts DEF MayGo
<1>6. \A x \in M, y \in QueueOf(r) \ M : x < y
  <2> SUFFICES ASSUME NEW x \in M, NEW y \in QueueOf(r) \ M PROVE x < y
    OBVIOUS
  <2>1. voc["remote"][r].audio /\ p = "remote" /\ x \in 2 .. Count(r)
    BY <1>5
  <2>2. y \in 1 .. Count(r) /\ y >= e + 1 /\ e >= 1 /\ e \in Nat
    <3>1. Path(HandOf(r), QueueOf(r), PipeOf(r), KeptOf(r), e, handed[r])
      BY <1>3 DEF OnTheWay
    <3>2. y \in e + 1 .. handed[r]
      BY <3>1 DEF Path
    <3>3. QED
      BY <1>3, <2>1, <3>2 DEF Blended, QueueOf, Counts
  <2>3. Job(r, y).r = r /\ Job(r, y).k = y /\ Job(r, x).r = r /\ Job(r, x).k = x
    BY DEF Job
  <2>4. Job(r, y) \in Members(q[p]) \ Members(jobs)
    <3>1. y # 1 /\ y \in 2 .. Count(r) /\ Route(Where, r, y) = "remote"
      BY <1>3, <2>2, RouteFacts
    <3>2. Job(r, y) \notin Members(q_first["remote"])
      <4>1. "remote" \in Procs
        BY DEF Procs
      <4>2. QED
        BY <1>3, <2>3, <3>1, <4>1, InPlace
    <3>3. QED
      BY <2>1, <2>2, <3>1, <3>2 DEF QueueOf
  <2>5. MayGo(Job(r, y), p)
    BY <2>1, <2>3 DEF MayGo
  <2>6. Job(r, x) \in Members(jobs) /\ InOrder(q[p], JobOrder(r))
    BY <1>3 DEF QueuesPlaced, Lined
  <2>7. <<Job(r, x), Job(r, y)>> \in JobOrder(r)
    BY <1>1, <2>4, <2>5, <2>6
  <2>8. QED
    BY <2>3, <2>7 DEF JobOrder
<1>7. InOrder(jobs, JobOrder(r))
  BY <1>1, <1>3 DEF QueuesPlaced, Lined
<1>8. QueuesPlaced(r)'
  <2> SUFFICES ASSUME NEW s \in Procs
               PROVE  /\ Lined(q_first'[s], r, Through(Where, r, s) \cap {1})
                      /\ Lined(q'[s], r, Through(Where, r, s) \ {1})
                      /\ Lined(q_topup'[s], r, {})
    BY <1>3 DEF QueuesPlaced
  <2>1. /\ Lined(q_first[s], r, Through(Where, r, s) \cap {1})
        /\ Lined(q[s], r, Through(Where, r, s) \ {1})
        /\ Lined(q_topup[s], r, {})
    BY <1>3 DEF QueuesPlaced
  <2>2. q'[s] \in {q[s], Without(q[s], Members(jobs))} /\ q[s] \in Seq(Jobs)
    BY <1>1, <1>4
  <2>3. QED
    BY <1>2, <2>1, <2>2, LinedWithout
<1>9. QueueOf(r)' = QueueOf(r) \ M
  <2>1. ASSUME NEW k \in 1 .. Count(r)
        PROVE  k \in QueueOf(r)' <=> k \in QueueOf(r) /\ k \notin M
    <3>1. Route(Where, r, k) \in Procs /\ Job(r, k).r = r /\ Job(r, k).k = k
      BY <1>3, RouteFacts DEF Job
    <3>2. k \in QueueOf(r)' <=> \/ Job(r, k) \in Members(q_first[Route(Where, r, k)])
                                \/ Job(r, k) \in Members(q'[Route(Where, r, k)])
      BY <1>2, <1>3 DEF QueueOf
    <3>3. k \in QueueOf(r) <=> \/ Job(r, k) \in Members(q_first[Route(Where, r, k)])
                               \/ Job(r, k) \in Members(q[Route(Where, r, k)])
      BY DEF QueueOf
    <3>4. Members(Without(q[p], Members(jobs))) = Members(q[p]) \ Members(jobs)
      BY <1>4, WithoutFacts
    <3>5. k \in M => Job(r, k) \notin Members(q_first[Route(Where, r, k)])
      <4>1. k \in M => k # 1
        BY <1>5
      <4>2. QED
        BY <1>3, <3>1, <4>1, InPlace
    <3>6. k \in M <=> Job(r, k) \in Members(jobs)
      OBVIOUS
    <3>7. k \in M => Route(Where, r, k) = p
      BY <1>5
    <3>8. Job(r, k) \in Members(q'[Route(Where, r, k)]) <=>
            Job(r, k) \in Members(q[Route(Where, r, k)]) /\ k \notin M
      BY <1>1, <1>4, <3>1, <3>4, <3>6, <3>7
    <3>9. QED
      BY <3>2, <3>3, <3>5, <3>8
  <2>2. QueueOf(r)' \subseteq 1 .. Count(r) /\ QueueOf(r) \subseteq 1 .. Count(r)
    BY DEF QueueOf
  <2> HIDE DEF M
  <2>3. QED
    BY <2>1, <2>2
<1>10. M \subseteq QueueOf(r) /\ \A k \in 1 .. Count(r) : k \in M <=> Job(r, k) \in Members(jobs)
  BY <1>5
<1>11. \A k \in M : k # 1 => voc["remote"][r].audio
  BY <1>5
<1> HIDE DEF M
<1>12. M \in SUBSET QueueOf(r)
  BY <1>10
<1>13. QED
  BY <1>1, <1>2, <1>4, <1>5, <1>6, <1>7, <1>8, <1>9, <1>10, <1>11, <1>12, TakenFlow

-----------------------------------------------------------------------------
(* A subprocess takes a message *)

(* The first message leaves its queue. *)
LEMMA PipeTail ==
  ASSUME Typed, NEW r \in Requests, NEW p \in Procs, in_q[p] # <<>>,
         in_q' = [in_q EXCEPT ![p] = Tail(@)], deployment' = deployment, PipesPlaced(r)
  PROVE  LET j == Head(in_q[p]).job
         IN  /\ PipesPlaced(r)'
             /\ j.r # r => PipeOf(r)' = PipeOf(r)
             /\ j.r = r => /\ PipeOf(r)' = PipeOf(r) \ {j.k} /\ j.k \in PipeOf(r)
                           /\ \A a \in PipeOf(r)' : Route(Where, r, a) = p => j.k < a
<1> DEFINE m == Head(in_q[p])
           j == m.job
<1>1. in_q \in [Procs -> Seq(Messages)] /\ Where' = Where
  BY DEF Typed, Where
<1>2. \A s \in Procs : in_q'[s] = IF s = p THEN Tail(in_q[p]) ELSE in_q[s]
  BY <1>1
<1>3. Members(in_q[p]) = {m} \cup Members(Tail(in_q[p]))
  BY <1>1, HeadTailFacts
<1>4. /\ InOrder(Tail(in_q[p]), MessageOrder(r))
      /\ \A y \in Members(Tail(in_q[p])) : <<m, y>> \in MessageOrder(r)
  <2>1. InOrder(in_q[p], MessageOrder(r))
    BY DEF PipesPlaced
  <2>2. QED
    BY <1>1, <2>1, OrderTail
<1> HIDE DEF m
<1>5. PipesPlaced(r)'
  <2> SUFFICES ASSUME NEW s \in Procs
               PROVE  /\ InOrder(in_q'[s], MessageOrder(r))
                      /\ \A y \in Members(in_q'[s]) : y.job.r = r =>
                           /\ Where # "in_process" /\ y.job.k \in Through(Where, r, s)
                           /\ y.tail = IF Where = "split" /\ y.job.k = 2 THEN 1 ELSE Absent
    BY <1>1 DEF PipesPlaced
  <2>1. Members(in_q'[s]) \subseteq Members(in_q[s])
    BY <1>2, <1>3
  <2>2. InOrder(in_q'[s], MessageOrder(r))
    BY <1>2, <1>4 DEF PipesPlaced
  <2>3. QED
    BY <2>1, <2>2 DEF PipesPlaced
<1>6. \A k : Route(Where, r, k) \in Procs /\ Job(r, k).r = r /\ Job(r, k).k = k
  BY RouteFacts DEF Job
<1>7. \A y \in Members(Tail(in_q[p])) : y.job.r = r /\ j.r = r => j.k < y.job.k
  BY <1>4 DEF MessageOrder, JobOrder
<1>8. j.r = r => /\ j = Job(r, j.k) /\ j.k \in 1 .. Count(r) /\ j.k \in PipeOf(r)
                 /\ Route(Where, r, j.k) = p
  BY <1>3, InPlace
<1>9. ASSUME NEW k \in 1 .. Count(r)
      PROVE  /\ k \in PipeOf(r)' => k \in PipeOf(r)
             /\ k \in PipeOf(r)' /\ j.r = r /\ Route(Where, r, k) = p => j.k < k
             /\ k \in PipeOf(r) => k \in PipeOf(r)' \/ (j.r = r /\ j.k = k)
  <2>1. k \in PipeOf(r)' <=> \E y \in Members(in_q'[Route(Where, r, k)]) : y.job = Job(r, k)
    BY <1>1 DEF PipeOf
  <2>2. k \in PipeOf(r) <=> \E y \in Members(in_q[Route(Where, r, k)]) : y.job = Job(r, k)
    BY DEF PipeOf
  <2>3. CASE Route(Where, r, k) = p
    <3>1. in_q'[p] = Tail(in_q[p])
      BY <1>2
    <3>2. k \in PipeOf(r)' => k \in PipeOf(r)
      BY <1>3, <2>1, <2>2, <2>3, <3>1
    <3>3. k \in PipeOf(r)' /\ j.r = r => j.k < k
      BY <1>6, <1>7, <2>1, <2>3, <3>1
    <3>4. k \in PipeOf(r) => k \in PipeOf(r)' \/ j = Job(r, k)
      BY <1>3, <2>1, <2>2, <2>3, <3>1
    <3>5. QED
      BY <1>6, <3>2, <3>3, <3>4
  <2>4. CASE Route(Where, r, k) # p
    <3>1. in_q'[Route(Where, r, k)] = in_q[Route(Where, r, k)]
      BY <1>2, <1>6, <2>4
    <3>2. QED
      BY <2>1, <2>2, <2>4, <3>1
  <2>5. QED
    BY <2>3, <2>4
<1>10. PipeOf(r)' \subseteq 1 .. Count(r) /\ PipeOf(r) \subseteq 1 .. Count(r)
  BY DEF PipeOf
<1>11. j.r = r => j.k \notin PipeOf(r)'
  <2>1. Count(r) \in Nat
    BY JobFacts
  <2>2. j.r = r => j.k \in 1 .. Count(r) /\ Route(Where, r, j.k) = p /\ ~ (j.k < j.k)
    BY <1>8, <2>1
  <2>3. QED
    BY <1>9, <2>2
<1>12. j.r # r => PipeOf(r)' = PipeOf(r)
  BY <1>9, <1>10
<1>13. j.r = r => PipeOf(r)' = PipeOf(r) \ {j.k}
  BY <1>9, <1>10, <1>11
<1>14. j.r = r => \A a \in PipeOf(r)' : Route(Where, r, a) = p => j.k < a
  BY <1>9, <1>10
<1>15. QED
  BY <1>5, <1>8, <1>12, <1>13, <1>14 DEF m

(* The message of another request. *)
LEMMA PumpOther ==
  ASSUME Typed, NEW r \in Regular, NEW e, Flow(r, e), NEW p \in Procs, Pump(p),
         Head(in_q[p]).job.r # r
  PROVE  Flow(r, e)'
<1> DEFINE m == Head(in_q[p])
           j == m.job
<1>1. /\ in_q[p] # <<>> /\ in_q' = [in_q EXCEPT ![p] = Tail(@)]
      /\ voc' = IF m.tail = Absent THEN voc
                ELSE [voc EXCEPT ![p][j.r].tail = m.tail, ![p][j.r].audio = TRUE]
      /\ Enqueue(j, p)
      /\ deployment' = deployment /\ handed' = handed /\ lane' = lane
      /\ delivered' = delivered /\ pending' = pending /\ sent_tail' = sent_tail
      /\ parent' = parent /\ registered' = registered /\ out_q' = out_q
  BY DEF Pump, clientVars
<1>2. m \in Messages /\ j \in Jobs /\ r \in Requests
  BY PumpTypes, RegularFacts
<1>3. /\ KeptPlaced(r) /\ QueuesPlaced(r) /\ LanesPlaced(r) /\ PipesPlaced(r)
      /\ Outgoing(r, e) /\ OnTheWay(r, e) /\ Blended(r, e)
  BY DEF Flow
<1>4. /\ KeptPlaced(r)' /\ KeptOf(r)' = KeptOf(r) /\ LanesPlaced(r)' /\ HandOf(r)' = HandOf(r)
      /\ Outgoing(r, e)'
  BY <1>1, <1>3, SameKept, SameHand, SameOut
<1>5. PipesPlaced(r)' /\ PipeOf(r)' = PipeOf(r)
  BY <1>1, <1>2, <1>3, PipeTail
<1>6. j.r # r /\ voc \in [Procs -> [Requests -> VocStates]]
  BY DEF Typed
<1> HIDE DEF j, m
<1>7. QueuesPlaced(r)' /\ QueueOf(r)' = QueueOf(r)
  BY <1>1, <1>2, <1>3, <1>6, EnqueueQuiet
<1>8. \A s \in Procs : voc'[s][r] = voc[s][r]
  <2>1. CASE m.tail = Absent
    BY <1>1, <2>1
  <2>2. CASE m.tail # Absent
    <3>1. m.tail \in Nat /\ j.r \in Requests
      BY <1>2, <2>2, JobFacts DEF Messages
    <3> DEFINE x == j.r
               t == m.tail
    <3>2. /\ x \in Requests /\ t \in Nat /\ x # r
          /\ voc' = [voc EXCEPT ![p][x].tail = t, ![p][x].audio = TRUE]
      BY <1>1, <1>6, <2>2, <3>1
    <3> HIDE DEF x, t
    <3>3. QED
      BY <1>2, <1>6, <3>2, SetTail
  <2>3. QED
    BY <2>1, <2>2
<1>9. OnTheWay(r, e)'
  BY <1>1, <1>3, <1>4, <1>5, <1>7 DEF OnTheWay
<1>10. \A k \in HandOf(r)' : k # 1 => voc["remote"][r].audio
  BY <1>3, <1>4 DEF Blended
<1>11. QED
  BY <1>1, <1>2, <1>4, <1>5, <1>7, <1>8, <1>9, <1>10, QuietFlow

(* The last of the queue of messages that a subprocess takes goes behind
   what its vocoder has. *)
LEMMA PathPumps ==
  ASSUME NEW e, NEW h, NEW A, NEW B, NEW C, NEW D, Path(A, B, C, D, e, h),
         NEW k \in C, \A y \in C \ {k} : k < y
  PROVE  Path(A, B \cup {k}, C \ {k}, D, e, h) /\ \A a \in B : a < k
<1>1. (B \cup {k}) \cup (C \ {k}) = B \cup C
  OBVIOUS
<1>2. QED
  BY <1>1 DEF Path

(* The request's next job, with the tail if it is SplitVoc's first. *)
LEMMA PumpOwn ==
  ASSUME Typed, NEW r \in Regular, NEW e, Flow(r, e), NEW p \in Procs, Pump(p),
         Head(in_q[p]).job.r = r
  PROVE  Flow(r, e)'
<1> DEFINE m == Head(in_q[p])
           j == m.job
           k == j.k
<1>1. /\ in_q[p] # <<>> /\ in_q' = [in_q EXCEPT ![p] = Tail(@)]
      /\ voc' = IF m.tail = Absent THEN voc
                ELSE [voc EXCEPT ![p][r].tail = m.tail, ![p][r].audio = TRUE]
      /\ Enqueue(j, p)
      /\ deployment' = deployment /\ handed' = handed /\ lane' = lane
      /\ delivered' = delivered /\ pending' = pending /\ sent_tail' = sent_tail
      /\ parent' = parent /\ registered' = registered /\ out_q' = out_q
  BY DEF Pump, clientVars
<1>2. /\ m \in Messages /\ j \in Jobs /\ r \in Requests /\ j.r = r
      /\ Count(r) \in Nat \ {0}
  BY PumpTypes, RegularFacts
<1>3. /\ KeptPlaced(r) /\ QueuesPlaced(r) /\ LanesPlaced(r) /\ PipesPlaced(r)
      /\ Outgoing(r, e) /\ OnTheWay(r, e) /\ Blended(r, e)
      /\ Counts(r, e) /\ Listening(r) /\ FirstHeard(r, e) /\ TailSent(r)
  BY DEF Flow
<1>4. /\ KeptPlaced(r)' /\ KeptOf(r)' = KeptOf(r) /\ LanesPlaced(r)' /\ HandOf(r)' = HandOf(r)
      /\ Outgoing(r, e)'
  BY <1>1, <1>3, SameKept, SameHand, SameOut
<1>5. /\ PipesPlaced(r)' /\ PipeOf(r)' = PipeOf(r) \ {k} /\ k \in PipeOf(r)
      /\ \A a \in PipeOf(r)' : Route(Where, r, a) = p => k < a
  BY <1>1, <1>2, <1>3, PipeTail
<1>6. /\ m \in Members(in_q[p])
      /\ voc \in [Procs -> [Requests -> VocStates]]
      /\ registered \in [Procs -> SUBSET Requests]
  <2>1. in_q[p] \in Seq(Messages)
    BY DEF Typed
  <2>2. QED
    BY <1>1, <2>1, HeadTailFacts DEF Typed
<1> HIDE DEF m
<1>7. /\ j = Job(r, k) /\ k \in 1 .. Count(r) /\ Route(Where, r, k) = p
      /\ Where # "in_process" /\ m.tail = IF Where = "split" /\ k = 2 THEN 1 ELSE Absent
  <2>1. j = Job(r, k) /\ k \in 1 .. Count(r) /\ Route(Where, r, k) = p
    BY <1>2, <1>3, <1>6, InPlace
  <2>2. Where # "in_process" /\ m.tail = IF Where = "split" /\ k = 2 THEN 1 ELSE Absent
    BY <1>2, <1>3, <1>6 DEF PipesPlaced
  <2>3. QED
    BY <2>1, <2>2
<1> HIDE DEF j, k
<1>8. Path(HandOf(r), QueueOf(r), PipeOf(r), KeptOf(r), e, handed[r])
  BY <1>3 DEF OnTheWay
<1>9. e \in Nat /\ handed[r] \in Nat /\ Len(delivered[r]) \in Nat /\ Len(delivered[r]) <= e
  <2>1. delivered[r] \in Seq(Data)
    BY <1>2 DEF Typed
  <2>2. QED
    BY <1>2, <1>3, <2>1, LenProperties DEF Counts, Typed
<1>10. PipeOf(r) \subseteq e + 1 .. handed[r] /\ \A a \in PipeOf(r) : a \notin KeptOf(r)
  <2>1. PipeOf(r) \subseteq e + 1 .. handed[r]
    BY <1>8 DEF Path
  <2>2. \A a \in PipeOf(r), b \in KeptOf(r) : a < b
    BY <1>8 DEF Path
  <2>3. \A a \in PipeOf(r) : ~ (a < a)
    BY <1>9, <2>1
  <2>4. QED
    BY <2>1, <2>2, <2>3
\* In a split deployment the second chunk has not left before the first was heard.
<1>11. Where = "split" /\ k # 1 => e >= 1 /\ k \in 2 .. handed[r]
  <2> SUFFICES ASSUME Where = "split", k # 1 PROVE e >= 1 /\ k \in 2 .. handed[r]
    OBVIOUS
  <2>1. k \in 2 .. handed[r] /\ k \notin KeptOf(r)
    BY <1>2, <1>5, <1>7, <1>9, <1>10
  <2>2. Len(delivered[r]) >= 1
    BY <1>3, <2>1 DEF FirstHeard
  <2>3. QED
    BY <1>9, <2>1, <2>2
<1>12. \A a \in PipeOf(r) \ {k} : k < a
  <2> SUFFICES ASSUME NEW a \in PipeOf(r) \ {k} PROVE k < a
    OBVIOUS
  <2>1. a \in 1 .. Count(r) /\ a \in e + 1 .. handed[r]
    BY <1>10 DEF PipeOf
  <2>2. CASE Route(Where, r, a) = p
    BY <1>5, <2>2
  <2>3. CASE k = 1
    BY <1>2, <2>1, <2>3
  <2>4. CASE Route(Where, r, a) # p /\ k # 1
    <3>1. k \in 2 .. Count(r) /\ p = "remote"
      BY <1>2, <1>7, <2>4, RouteFacts
    <3>2. a = 1 /\ Where = "split"
      BY <1>2, <2>1, <2>4, <3>1, RouteFacts
    <3>3. QED
      BY <1>9, <1>11, <2>1, <2>4, <3>2
  <2>5. QED
    BY <2>2, <2>3, <2>4
<1>13. /\ Path(HandOf(r), QueueOf(r) \cup {k}, PipeOf(r) \ {k}, KeptOf(r), e, handed[r])
       /\ \A a \in QueueOf(r) : a < k
  BY <1>5, <1>8, <1>12, PathPumps
<1>14. QueuesPlaced(r)' /\ QueueOf(r)' = QueueOf(r) \cup {k}
  BY <1>1, <1>3, <1>7, <1>13, EnqueueOwn
<1>15. OnTheWay(r, e)'
  BY <1>1, <1>4, <1>5, <1>13, <1>14 DEF OnTheWay
<1>16. Where' = Where /\ "remote" \in Procs
  BY <1>1 DEF Where, Procs
<1>17. Blended(r, e)'
  <2>1. CASE m.tail = Absent
    BY <1>1, <1>3, <1>4, <1>16, <2>1 DEF Blended
  <2>2. CASE m.tail # Absent
    <3>1. Where = "split" /\ k = 2 /\ m.tail = 1
      BY <1>7, <2>2
    <3>2. e = 1
      BY <1>5, <1>9, <1>10, <1>11, <3>1
    <3>3. p = "remote"
      BY <1>2, <1>7, <3>1, RouteFacts
    <3> DEFINE t == m.tail
    <3>4. t \in Nat /\ voc' = [voc EXCEPT ![p][r].tail = t, ![p][r].audio = TRUE]
      BY <1>1, <2>2, <3>1
    <3> HIDE DEF t
    <3>5. /\ \A s \in Procs, x \in Requests : s # p \/ x # r => voc'[s][x] = voc[s][x]
          /\ voc'[p][r].tail = t /\ voc'[p][r].audio
          /\ voc'[p][r].finished <=> voc[p][r].finished
      BY <1>2, <1>6, <3>4, SetTail
    <3>6. \A s \in Procs : voc'[s][r].finished => voc[s][r].finished
      BY <1>2, <3>5
    <3>7. voc'["remote"][r].audio /\ voc'["remote"][r].tail = e
      BY <3>1, <3>2, <3>3, <3>5 DEF t
    <3>8. \A s \in Procs : voc'[s][r].finished => e = Count(r) + 1
      BY <1>3, <3>6 DEF Blended
    <3>9. QED
      BY <1>4, <3>2, <3>7, <3>8 DEF Blended
  <2>3. QED
    BY <2>1, <2>2
<1>18. Counts(r, e)' /\ Listening(r)' /\ FirstHeard(r, e)' /\ TailSent(r)'
  <2>1. Counts(r, e)'
    BY <1>1, <1>3 DEF Counts
  <2>2. Listening(r)'
    BY <1>1, <1>3, <1>4, <1>16 DEF Listening
  <2>3. FirstHeard(r, e)'
    BY <1>1, <1>3, <1>4, <1>16 DEF FirstHeard
  <2>4. TailSent(r)'
    BY <1>1, <1>3, <1>4, <1>16 DEF TailSent
  <2>5. QED
    BY <2>1, <2>2, <2>3, <2>4
<1>19. QED
  BY <1>4, <1>5, <1>14, <1>15, <1>17, <1>18 DEF Flow

-----------------------------------------------------------------------------
(* SplitVoc flushes what it has kept *)

(* Messages to the end of the queue of a subprocess. *)
LEMMA PipeJoin ==
  ASSUME Typed, NEW r \in Requests, NEW p \in Procs, NEW s \in Seq(Messages),
         in_q' = [in_q EXCEPT ![p] = @ \o s], deployment' = deployment,
         PipesPlaced(r), InOrder(s, MessageOrder(r)),
         \A m \in Members(s) : m.job.r = r =>
           /\ Where # "in_process" /\ m.job.k \in Through(Where, r, p)
           /\ m.tail = IF Where = "split" /\ m.job.k = 2 THEN 1 ELSE Absent
           /\ \A a \in PipeOf(r) : a < m.job.k
  PROVE  /\ PipesPlaced(r)'
         /\ \A k \in 1 .. Count(r) :
              k \in PipeOf(r)' <=> k \in PipeOf(r) \/ \E m \in Members(s) : m.job = Job(r, k)
<1>1. in_q \in [Procs -> Seq(Messages)] /\ Where' = Where
  BY DEF Typed, Where
<1>2. \A o \in Procs : in_q'[o] = IF o = p THEN in_q[p] \o s ELSE in_q[o]
  BY <1>1
<1>3. Members(in_q[p] \o s) = Members(in_q[p]) \cup Members(s)
  BY <1>1, JoinedFacts
<1>4. \A x \in Members(in_q[p]), y \in Members(s) : <<x, y>> \in MessageOrder(r)
  <2> SUFFICES ASSUME NEW x \in Members(in_q[p]), NEW y \in Members(s)
               PROVE  <<x, y>> \in MessageOrder(r)
    OBVIOUS
  <2>1. x \in Messages /\ y \in Messages
    <3>1. in_q[p] \in Seq(Messages)
      BY <1>1
    <3>2. QED
      BY <3>1, MembersFacts
  <2>2. x.job.r = r /\ y.job.r = r => x.job.k < y.job.k
    BY InPlace
  <2>3. <<x.job, y.job>> \in JobOrder(r)
    BY <2>1, <2>2 DEF JobOrder, Messages
  <2>4. QED
    BY <2>1, <2>3 DEF MessageOrder
<1>5. InOrder(in_q[p] \o s, MessageOrder(r))
  <2>1. InOrder(in_q[p], MessageOrder(r)) /\ in_q[p] \in Seq(Messages)
    BY <1>1 DEF PipesPlaced
  <2>2. QED
    BY <1>4, <2>1, OrderJoined
<1>6. PipesPlaced(r)'
  BY <1>1, <1>2, <1>3, <1>5 DEF PipesPlaced
<1>7. \A m \in Members(s) : m.job.r = r => Route(Where, r, m.job.k) = p
  BY DEF Through
<1>8. ASSUME NEW k \in 1 .. Count(r)
      PROVE  k \in PipeOf(r)' <=> k \in PipeOf(r) \/ \E m \in Members(s) : m.job = Job(r, k)
  <2>1. Route(Where, r, k) \in Procs /\ Job(r, k).r = r /\ Job(r, k).k = k
    BY RouteFacts DEF Job
  <2>2. k \in PipeOf(r)' <=> \E y \in Members(in_q'[Route(Where, r, k)]) : y.job = Job(r, k)
    BY <1>1 DEF PipeOf
  <2>3. k \in PipeOf(r) <=> \E y \in Members(in_q[Route(Where, r, k)]) : y.job = Job(r, k)
    BY DEF PipeOf
  <2>4. (\E m \in Members(s) : m.job = Job(r, k)) => Route(Where, r, k) = p
    BY <1>7, <2>1
  <2>5. CASE Route(Where, r, k) = p
    BY <1>2, <1>3, <2>2, <2>3, <2>5
  <2>6. CASE Route(Where, r, k) # p
    BY <1>2, <2>1, <2>2, <2>3, <2>4, <2>6
  <2>7. QED
    BY <2>5, <2>6
<1>9. QED
  BY <1>6, <1>8

(* Nothing of the request leaves. *)
LEMMA FlushOther ==
  ASSUME Typed, NEW r \in Regular, NEW e, Flow(r, e), Flush,
         \A j \in Members(Ready) : j.r # r
  PROVE  Flow(r, e)'
<1>1. /\ pending' = Without(pending, Members(Ready))
      /\ in_q' = [in_q EXCEPT !["remote"] = @ \o Sent]
      /\ registered' = [registered EXCEPT !["remote"] = @ \cup {j.r : j \in Members(Ready)}]
      /\ sent_tail' = SentTail(Members(Ready))
      /\ deployment' = deployment /\ handed' = handed /\ delivered' = delivered
      /\ parent' = parent /\ out_q' = out_q
      /\ q_first' = q_first /\ q_topup' = q_topup /\ q' = q /\ lane' = lane /\ voc' = voc
  BY FlushIs DEF localVars
<1>2. /\ Ready \in Seq(Jobs) /\ Sent \in Seq(Messages) /\ Len(Sent) = Len(Ready)
      /\ Len(Ready) \in Nat /\ \A i \in 1 .. Len(Ready) : Sent[i].job = Ready[i]
      /\ Members(pending') = Members(pending) \ Members(Ready)
  BY FlushFacts
<1>3. /\ KeptPlaced(r) /\ QueuesPlaced(r) /\ LanesPlaced(r) /\ PipesPlaced(r)
      /\ Outgoing(r, e) /\ OnTheWay(r, e) /\ Blended(r, e) /\ r \in Requests
  BY RegularFacts DEF Flow
<1>4. /\ LanesPlaced(r)' /\ HandOf(r)' = HandOf(r) /\ Outgoing(r, e)'
      /\ QueuesPlaced(r)' /\ QueueOf(r)' = QueueOf(r)
  BY <1>1, <1>3, SameQueues, SameHand, SameOut
<1>5. KeptPlaced(r)' /\ KeptOf(r)' = KeptOf(r)
  <2>1. Where' = Where /\ pending \in Seq(Jobs)
    BY <1>1 DEF Where, Typed
  <2>2. KeptPlaced(r)'
    BY <1>1, <1>3, <2>1, LinedWithout DEF KeptPlaced
  <2>3. \A k : Job(r, k) \in Members(pending') <=> Job(r, k) \in Members(pending)
    BY <1>2 DEF Job
  <2>4. QED
    BY <2>2, <2>3 DEF KeptOf
<1>6. PipesPlaced(r)' /\ PipeOf(r)' = PipeOf(r)
  <2>1. \A i \in DOMAIN Sent : Sent[i] \in Messages /\ Sent[i].job.r # r
    <3>1. DOMAIN Sent = 1 .. Len(Ready)
      BY <1>2, LenProperties
    <3>2. \A i \in 1 .. Len(Ready) : Ready[i] \in Members(Ready) /\ Sent[i] \in Messages
      BY <1>2, ElementOfSeq, LenProperties DEF Members
    <3>3. QED
      BY <1>2, <3>1, <3>2
  <2>2. \A m \in Members(Sent) : m.job.r # r
    BY <2>1 DEF Members
  <2>3. InOrder(Sent, MessageOrder(r))
    <3>1. \A x, y \in Messages : x.job.r # r => <<x, y>> \in MessageOrder(r)
      BY DEF MessageOrder, JobOrder, Messages
    <3>2. QED
      BY <2>1, <3>1 DEF InOrder
  <2>4. "remote" \in Procs
    BY DEF Procs
  <2> DEFINE p == "remote"
             s == Sent
  <2>5. /\ p \in Procs /\ s \in Seq(Messages) /\ in_q' = [in_q EXCEPT ![p] = @ \o s]
        /\ InOrder(s, MessageOrder(r)) /\ \A m \in Members(s) : m.job.r # r
    BY <1>1, <1>2, <2>2, <2>3, <2>4
  <2> HIDE DEF p, s
  <2>6. /\ PipesPlaced(r)'
        /\ \A k \in 1 .. Count(r) :
             k \in PipeOf(r)' <=> k \in PipeOf(r) \/ \E m \in Members(s) : m.job = Job(r, k)
    BY <1>1, <1>3, <2>5, PipeJoin
  <2>7. \A k \in 1 .. Count(r) : k \in PipeOf(r)' <=> k \in PipeOf(r)
    <3>1. \A k : Job(r, k).r = r
      BY DEF Job
    <3>2. \A k : ~ \E m \in Members(s) : m.job = Job(r, k)
      BY <2>5, <3>1
    <3>3. QED
      BY <2>6, <3>2
  <2>8. PipeOf(r)' \subseteq 1 .. Count(r) /\ PipeOf(r) \subseteq 1 .. Count(r)
    BY DEF PipeOf
  <2>9. QED
    BY <2>6, <2>7, <2>8
<1>7. OnTheWay(r, e)'
  BY <1>1, <1>3, <1>4, <1>5, <1>6 DEF OnTheWay
<1>8. r \in sent_tail' <=> r \in sent_tail
  BY <1>1 DEF SentTail
<1>9. \A s \in Procs : r \in registered[s] => r \in registered'[s]
  BY <1>1 DEF Typed
<1>10. \A k \in HandOf(r)' : k # 1 => voc["remote"][r].audio
  BY <1>3, <1>4 DEF Blended
<1>11. QED
  BY <1>1, <1>3, <1>4, <1>5, <1>6, <1>7, <1>8, <1>9, <1>10, QuietFlow

(* What a request's kept numbers are among those on its way. *)
LEMMA KeptNumbers ==
  ASSUME NEW e \in Nat, NEW h \in Nat,
         NEW A, NEW B, NEW C, NEW D, Path(A, B, C, D, e, h), NEW k \in D
  PROVE  /\ k \in e + 1 .. h /\ k \notin C /\ h \in D
         /\ Path(A, B, C \cup D, {}, e, h)
<1>1. A \cup B \cup C \cup D = e + 1 .. h
  BY DEF Path
<1>2. k \in e + 1 .. h /\ h \in e + 1 .. h
  BY <1>1
<1>3. h \in D
  <2>1. h \notin A \cup B \cup C
    <3>1. ~ (h < k)
      BY <1>2
    <3>2. QED
      BY <3>1 DEF Path
  <2>2. QED
    BY <1>1, <1>2, <2>1
<1>4. k \notin C
  <2>1. ~ (k < k)
    BY <1>2
  <2>2. QED
    BY <2>1 DEF Path
<1>5. Path(A, B, C \cup D, {}, e, h)
  BY DEF Path
<1>6. QED
  BY <1>2, <1>3, <1>4, <1>5

(* All that is kept of the request leaves, with the tail of the first chunk
   on the second. *)
LEMMA FlushOwn ==
  ASSUME Typed, NEW r \in Regular, NEW e, Flow(r, e), Flush,
         NEW j0 \in Members(Ready), j0.r = r
  PROVE  Flow(r, e)'
<1>1. /\ pending' = Without(pending, Members(Ready))
      /\ in_q' = [in_q EXCEPT !["remote"] = @ \o Sent]
      /\ registered' = [registered EXCEPT !["remote"] = @ \cup {j.r : j \in Members(Ready)}]
      /\ sent_tail' = SentTail(Members(Ready))
      /\ deployment' = deployment /\ handed' = handed /\ delivered' = delivered
      /\ parent' = parent /\ out_q' = out_q
      /\ q_first' = q_first /\ q_topup' = q_topup /\ q' = q /\ lane' = lane /\ voc' = voc
  BY FlushIs DEF localVars
<1>2. /\ Ready \in Seq(Jobs) /\ Sent \in Seq(Messages) /\ Len(Sent) = Len(Ready)
      /\ Len(Ready) \in Nat
      /\ \A i \in 1 .. Len(Ready) :
           /\ Sent[i].job = Ready[i]
           /\ Sent[i].tail = IF Heralds(i) THEN parent[Ready[i].r].tail ELSE Absent
      /\ Members(pending') = Members(pending) \ Members(Ready)
      /\ Members(Ready) = {j \in Members(pending) : parent[j.r].audio}
  BY FlushFacts
<1>3. /\ KeptPlaced(r) /\ QueuesPlaced(r) /\ LanesPlaced(r) /\ PipesPlaced(r)
      /\ Outgoing(r, e) /\ OnTheWay(r, e) /\ Blended(r, e)
      /\ Counts(r, e) /\ Listening(r) /\ FirstHeard(r, e) /\ TailSent(r)
      /\ r \in Requests /\ Count(r) \in Nat \ {0}
      /\ \A k \in 1 .. Count(r) : ChunkOf(Job(r, k)).final <=> k = Count(r)
  BY RegularFacts DEF Flow
<1>4. /\ LanesPlaced(r)' /\ HandOf(r)' = HandOf(r) /\ Outgoing(r, e)'
      /\ QueuesPlaced(r)' /\ QueueOf(r)' = QueueOf(r)
  BY <1>1, <1>3, SameQueues, SameHand, SameOut
<1>5. /\ Where' = Where /\ Where = "split" /\ parent[r].audio
      /\ \A j \in Members(Ready) : j.r = r =>
           j = Job(r, j.k) /\ j.k \in 2 .. Count(r) /\ j.k \in KeptOf(r)
      /\ \A k \in KeptOf(r) : Job(r, k) \in Members(Ready) /\ k \in 2 .. Count(r)
  <2>1. \A j \in Members(Ready) : j.r = r =>
          j = Job(r, j.k) /\ j.k \in 2 .. Count(r) /\ j.k \in KeptOf(r) /\ Where = "split"
    BY <1>2, <1>3, InPlace
  <2>2. parent[r].audio
    BY <1>2
  <2>3. \A k \in KeptOf(r) : Job(r, k) \in Members(pending) /\ Job(r, k).r = r /\ Job(r, k).k = k
    BY DEF KeptOf, Job
  <2>4. \A k \in KeptOf(r) : Job(r, k) \in Members(Ready)
    BY <1>2, <2>2, <2>3
  <2>5. QED
    BY <1>1, <2>1, <2>2, <2>3, <2>4 DEF Where
<1>6. /\ e \in Nat /\ handed[r] \in Nat /\ handed[r] <= Count(r)
      /\ Len(delivered[r]) \in Nat /\ Len(delivered[r]) <= e /\ Len(delivered[r]) >= 1
  <2>1. delivered[r] \in Seq(Data)
    BY <1>3 DEF Typed
  <2>2. QED
    BY <1>3, <1>5, <2>1, LenProperties DEF Counts, Typed, FirstHeard
<1>7. /\ \A k \in KeptOf(r) : k \in e + 1 .. handed[r] /\ k \notin PipeOf(r)
      /\ handed[r] \in KeptOf(r)
      /\ Path(HandOf(r), QueueOf(r), PipeOf(r) \cup KeptOf(r), {}, e, handed[r])
      /\ \A a \in PipeOf(r), b \in KeptOf(r) : a < b
  <2> DEFINE A == HandOf(r)
             B == QueueOf(r)
             C == PipeOf(r)
             D == KeptOf(r)
             h == handed[r]
  <2>1. Path(A, B, C, D, e, h) /\ h \in Nat /\ j0.k \in D
    BY <1>3, <1>5, <1>6 DEF OnTheWay
  <2> HIDE DEF A, B, C, D, h
  <2>2. /\ \A k \in D : k \in e + 1 .. h /\ k \notin C
        /\ h \in D /\ Path(A, B, C \cup D, {}, e, h)
    BY <1>6, <2>1, KeptNumbers
  <2>3. \A a \in C, b \in D : a < b
    BY <2>1 DEF Path
  <2>4. QED
    BY <2>2, <2>3 DEF A, B, C, D, h
<1>8. handed[r] = Count(r) <=> Count(r) \in KeptOf(r)
  BY <1>6, <1>7
<1>9. r \in sent_tail <=> 2 \notin KeptOf(r)
  <2>1. 2 <= handed[r]
    BY <1>5, <1>7
  <2>2. QED
    BY <1>3, <1>5, <1>8, <2>1 DEF TailSent
\* The note about the first chunk has been read before that chunk.
<1>10. 2 <= Count(r) => parent[r].tail = 1
  <2>1. "first" \in Procs /\ Call(r, Note).r = r /\ Call(r, Note).data = Note
    BY DEF Procs, Call
  <2>2. ASSUME Call(r, Note) \in Members(out_q["first"]) PROVE FALSE
    <3>1. Emitted(r, e, "first", Note)
      BY <1>3, <2>1, <2>2 DEF Outgoing
    <3>2. Len(delivered[r]) # 0
      BY <1>6
    <3>3. PICK i \in Len(delivered[r]) + 1 .. e : Note = Item(r, i)
      BY <3>1, <3>2 DEF Emitted
    <3>4. i \in 1 .. Count(r) + 1
      BY <1>3, <1>6 DEF Counts
    <3>5. QED
      BY <1>3, <3>3, <3>4, ItemFacts
  <2>3. e >= 1
    BY <1>6
  <2>4. QED
    BY <1>3, <1>5, <2>2, <2>3 DEF FirstHeard
<1>11. InOrder(Ready, JobOrder(r)) /\ DOMAIN Ready = 1 .. Len(Ready) /\ DOMAIN Sent = 1 .. Len(Ready)
  <2> DEFINE S == {j \in Members(pending) : parent[j.r].audio}
  <2>1. Ready = Keep(pending, S)
    BY DEF Ready
  <2>2. pending \in Seq(Jobs) /\ InOrder(pending, JobOrder(r))
    BY <1>3 DEF Typed, KeptPlaced, Lined
  <2> HIDE DEF S
  <2>3. InOrder(Ready, JobOrder(r))
    BY <2>1, <2>2, OrderKept
  <2>4. QED
    BY <1>2, <2>3, LenProperties
<1>12. \A i, n \in 1 .. Len(Ready) : i < n /\ Ready[i].r = r /\ Ready[n].r = r =>
         Ready[i].k < Ready[n].k
  BY <1>11 DEF InOrder, JobOrder
<1>13. \A i \in 1 .. Len(Ready) :
         /\ Ready[i] \in Members(Ready) /\ Sent[i] \in Messages
         /\ Sent[i] \in Members(Sent)
  BY <1>2, <1>11, ElementOfSeq DEF Members
<1>14. ASSUME NEW i \in 1 .. Len(Ready), Ready[i].r = r
       PROVE  Sent[i].tail = IF Ready[i].k = 2 THEN 1 ELSE Absent
  <2>1. Ready[i].k \in 2 .. Count(r) /\ Ready[i].k \in KeptOf(r)
    BY <1>5, <1>13, <1>14
  <2>2. CASE Ready[i].k = 2
    <3>1. r \notin sent_tail
      BY <1>9, <2>1, <2>2
    <3>2. ASSUME NEW n \in 1 .. i - 1 PROVE Ready[n].r # Ready[i].r
      <4>1. n \in 1 .. Len(Ready) /\ n < i
        BY <1>2
      <4>2. Ready[n].r = r => Ready[n].k \in 2 .. Count(r) /\ Ready[n].k < 2
        BY <1>5, <1>12, <1>13, <1>14, <2>2, <4>1
      <4>3. QED
        BY <1>14, <4>2
    <3>3. Heralds(i)
      BY <1>14, <3>1, <3>2 DEF Heralds
    <3>4. QED
      BY <1>2, <1>10, <1>14, <2>1, <2>2, <3>3
  <2>3. CASE Ready[i].k # 2
    <3>1. CASE 2 \notin KeptOf(r)
      BY <1>2, <1>9, <1>14, <2>3, <3>1 DEF Heralds
    <3>2. CASE 2 \in KeptOf(r)
      <4>1. Job(r, 2) \in Members(Ready) /\ Job(r, 2).r = r /\ Job(r, 2).k = 2
        BY <1>5, <3>2 DEF Job
      <4>2. PICK n \in 1 .. Len(Ready) : Ready[n] = Job(r, 2)
        BY <1>11, <4>1 DEF Members
      <4>3. n < i
        <5>1. n # i
          BY <2>3, <4>1, <4>2
        <5>2. ~ (i < n)
          <6>1. i < n => Ready[i].k < 2
            BY <1>12, <1>14, <4>1, <4>2
          <6>2. QED
            BY <2>1, <6>1
        <5>3. QED
          BY <1>2, <5>1, <5>2
      <4>4. n \in 1 .. i - 1 /\ Ready[n].r = Ready[i].r
        BY <1>2, <1>14, <4>1, <4>2, <4>3
      <4>5. ~ Heralds(i)
        BY <4>4 DEF Heralds
      <4>6. QED
        BY <1>2, <2>3, <4>5
    <3>3. QED
      BY <3>1, <3>2
  <2>4. QED
    BY <2>2, <2>3
<1>15. PipesPlaced(r)' /\ PipeOf(r)' = PipeOf(r) \cup KeptOf(r)
  <2> DEFINE p == "remote"
             s == Sent
  <2>1. p \in Procs /\ s \in Seq(Messages) /\ in_q' = [in_q EXCEPT ![p] = @ \o s]
    BY <1>1, <1>2 DEF Procs
  <2>2. InOrder(s, MessageOrder(r))
    <3> SUFFICES ASSUME NEW i \in 1 .. Len(Ready), NEW n \in 1 .. Len(Ready), i < n
                 PROVE  <<Sent[i], Sent[n]>> \in MessageOrder(r)
      BY <1>11 DEF InOrder
    <3>1. <<Ready[i], Ready[n]>> \in JobOrder(r)
      BY <1>11 DEF InOrder
    <3>2. QED
      BY <1>2, <1>13, <3>1 DEF MessageOrder
  <2>3. ASSUME NEW m \in Members(s), m.job.r = r
        PROVE  /\ Where # "in_process" /\ m.job.k \in Through(Where, r, p)
               /\ m.tail = IF Where = "split" /\ m.job.k = 2 THEN 1 ELSE Absent
               /\ \A a \in PipeOf(r) : a < m.job.k
               /\ m.job = Job(r, m.job.k) /\ m.job.k \in KeptOf(r)
    <3>1. PICK i \in 1 .. Len(Ready) : m = Sent[i]
      BY <1>11, <2>3 DEF Members
    <3>2. m.job = Ready[i] /\ Ready[i] \in Members(Ready) /\ Ready[i].r = r
      BY <1>2, <1>13, <2>3, <3>1
    <3>3. /\ m.job = Job(r, m.job.k) /\ m.job.k \in 2 .. Count(r) /\ m.job.k \in KeptOf(r)
          /\ m.tail = IF m.job.k = 2 THEN 1 ELSE Absent
      BY <1>5, <1>14, <3>1, <3>2
    <3>4. m.job.k \in Through(Where, r, p)
      <4> DEFINE n == m.job.k
      <4>1. n \in 2 .. Count(r) /\ n \in 1 .. Count(r)
        BY <3>3
      <4> HIDE DEF n
      <4>2. Route(Where, r, n) = "remote"
        BY <1>3, <4>1, RouteFacts
      <4>3. QED
        BY <4>1, <4>2 DEF Through, n
    <3>5. QED
      BY <1>5, <1>7, <3>3, <3>4
  <2>4. \A k \in KeptOf(r) : \E m \in Members(s) : m.job = Job(r, k)
    <3> SUFFICES ASSUME NEW k \in KeptOf(r) PROVE \E m \in Members(Sent) : m.job = Job(r, k)
      OBVIOUS
    <3>1. PICK i \in 1 .. Len(Ready) : Ready[i] = Job(r, k)
      BY <1>5, <1>11 DEF Members
    <3>2. QED
      BY <1>2, <1>13, <3>1
  <2> HIDE DEF p, s
  <2>5. /\ PipesPlaced(r)'
        /\ \A k \in 1 .. Count(r) :
             k \in PipeOf(r)' <=> k \in PipeOf(r) \/ \E m \in Members(s) : m.job = Job(r, k)
    <3>1. \A m \in Members(s) : m.job.r = r =>
            /\ Where # "in_process" /\ m.job.k \in Through(Where, r, p)
            /\ m.tail = IF Where = "split" /\ m.job.k = 2 THEN 1 ELSE Absent
            /\ \A a \in PipeOf(r) : a < m.job.k
      BY <2>3
    <3>2. PipesPlaced(r) /\ r \in Requests /\ deployment' = deployment
      BY <1>1, <1>3
    <3>3. QED
      BY <2>1, <2>2, <3>1, <3>2, PipeJoin
  <2>6. \A k \in 1 .. Count(r) : (\E m \in Members(s) : m.job = Job(r, k)) => k \in KeptOf(r)
    BY <2>3 DEF Job
  <2>7. \A k \in 1 .. Count(r) : k \in PipeOf(r)' <=> k \in PipeOf(r) \/ k \in KeptOf(r)
    BY <2>4, <2>5, <2>6
  <2>8. PipeOf(r)' \subseteq 1 .. Count(r) /\ PipeOf(r) \subseteq 1 .. Count(r)
        /\ KeptOf(r) \subseteq 1 .. Count(r)
    BY DEF PipeOf, KeptOf
  <2>9. PipeOf(r)' = PipeOf(r) \cup KeptOf(r)
    BY <2>7, <2>8
  <2>10. QED
    BY <2>5, <2>9
<1>16. KeptPlaced(r)' /\ KeptOf(r)' = {}
  <2>1. pending \in Seq(Jobs)
    BY DEF Typed
  <2>2. KeptPlaced(r)'
    BY <1>1, <1>3, <1>5, <2>1, LinedWithout DEF KeptPlaced
  <2>3. \A k : Job(r, k) \notin Members(pending')
    <3>1. \A k : Job(r, k).r = r
      BY DEF Job
    <3>2. QED
      BY <1>2, <1>5, <3>1
  <2>4. QED
    BY <2>2, <2>3 DEF KeptOf
<1>17. OnTheWay(r, e)'
  BY <1>1, <1>4, <1>7, <1>15, <1>16 DEF OnTheWay
<1>18. Counts(r, e)' /\ Blended(r, e)'
  <2>1. Counts(r, e)'
    BY <1>1, <1>3 DEF Counts
  <2>2. Blended(r, e)'
    BY <1>1, <1>3, <1>4 DEF Blended
  <2>3. QED
    BY <2>1, <2>2
<1>19. Listening(r)'
  <2> SUFFICES ASSUME Where # "in_process", Len(delivered[r]) <= Count(r),
                      NEW i \in 1 .. handed[r]
               PROVE  r \in registered'[Route(Where, r, i)]
    BY <1>1, <1>5 DEF Listening
  <2>1. registered \in [Procs -> SUBSET Requests] /\ \A n : Route(Where, r, n) \in Procs
    BY <1>3, RouteFacts DEF Typed
  <2>2. CASE i \notin KeptOf(r)
    <3>1. r \in registered[Route(Where, r, i)]
      BY <1>3, <2>2 DEF Listening
    <3>2. QED
      BY <1>1, <2>1, <3>1
  <2>3. CASE i \in KeptOf(r)
    <3>1. i \in 2 .. Count(r) /\ r \in {j.r : j \in Members(Ready)}
      BY <1>5, <2>3
    <3>2. Route(Where, r, i) = "remote"
      BY <1>3, <3>1, RouteFacts
    <3>3. QED
      BY <1>1, <2>1, <3>1, <3>2
  <2>4. QED
    BY <2>2, <2>3
<1>20. FirstHeard(r, e)'
  BY <1>1, <1>3, <1>5, <1>6 DEF FirstHeard
<1>21. TailSent(r)'
  <2>1. r \in sent_tail' <=> Count(r) \notin KeptOf(r)
    <3>1. r \in sent_tail' <=> ~ \E j \in Members(Ready) : j.r = r /\ ChunkOf(j).final
      BY <1>1 DEF SentTail
    <3>2. Count(r) \in KeptOf(r) =>
            /\ Job(r, Count(r)) \in Members(Ready) /\ Job(r, Count(r)).r = r
            /\ ChunkOf(Job(r, Count(r))).final
      BY <1>3, <1>5 DEF Job
    <3>3. \A j \in Members(Ready) : j.r = r /\ ChunkOf(j).final => Count(r) \in KeptOf(r)
      <4> SUFFICES ASSUME NEW j \in Members(Ready), j.r = r, ChunkOf(j).final
                   PROVE  Count(r) \in KeptOf(r)
        OBVIOUS
      <4>1. j = Job(r, j.k) /\ j.k \in 2 .. Count(r) /\ j.k \in KeptOf(r)
        BY <1>5
      <4>2. j.k = Count(r)
        BY <1>3, <4>1
      <4>3. QED
        BY <4>1, <4>2
    <3>4. QED
      BY <3>1, <3>2, <3>3
  <2>2. 2 <= handed[r]
    BY <1>5, <1>7
  <2>3. QED
    BY <1>1, <1>5, <1>8, <1>16, <2>1, <2>2 DEF TailSent
<1>22. QED
  BY <1>4, <1>15, <1>16, <1>17, <1>18, <1>19, <1>20, <1>21 DEF Flow

-----------------------------------------------------------------------------
(* A subprocess forgets, and the clients read *)

(* What is forgotten of a request is over. *)
LEMMA SweepFlow ==
  ASSUME Typed, NEW r \in Regular, NEW e, Flow(r, e), NEW p \in Procs, Sweep(p)
  PROVE  Flow(r, e)'
<1>1. /\ \A s \in Procs, x \in Requests :
           voc'[s][x] = IF s = p /\ voc[p][x].finished THEN Unknown ELSE voc[s][x]
      /\ deployment' = deployment /\ handed' = handed /\ lane' = lane
      /\ q_first' = q_first /\ q_topup' = q_topup /\ q' = q
      /\ delivered' = delivered /\ pending' = pending /\ sent_tail' = sent_tail
      /\ parent' = parent /\ registered' = registered /\ in_q' = in_q /\ out_q' = out_q
  BY SweepFacts DEF clientVars
<1>2. /\ KeptPlaced(r) /\ QueuesPlaced(r) /\ LanesPlaced(r) /\ PipesPlaced(r)
      /\ Outgoing(r, e) /\ OnTheWay(r, e) /\ Blended(r, e)
      /\ Counts(r, e) /\ Listening(r) /\ FirstHeard(r, e) /\ TailSent(r)
      /\ r \in Requests /\ Count(r) \in Nat \ {0}
  BY RegularFacts DEF Flow
<1>3. /\ LanesPlaced(r)' /\ HandOf(r)' = HandOf(r) /\ Outgoing(r, e)'
      /\ QueuesPlaced(r)' /\ QueueOf(r)' = QueueOf(r)
      /\ KeptPlaced(r)' /\ KeptOf(r)' = KeptOf(r) /\ PipesPlaced(r)' /\ PipeOf(r)' = PipeOf(r)
  BY <1>1, <1>2, SameQueues, SameHand, SameOut, SameKept, SamePipes
<1>4. OnTheWay(r, e)'
  BY <1>1, <1>2, <1>3 DEF OnTheWay
<1>5. "remote" \in Procs /\ "first" \in Procs /\ Where' = Where
  BY <1>1 DEF Procs, Where
<1>6. CASE ~ voc[p][r].finished
  <2>1. \A s \in Procs : voc'[s][r] = voc[s][r]
    BY <1>1, <1>2, <1>6
  <2>2. \A k \in HandOf(r)' : k # 1 => voc["remote"][r].audio
    BY <1>2, <1>3 DEF Blended
  <2>3. QED
    BY <1>1, <1>2, <1>3, <1>4, <2>1, <2>2, QuietFlow
<1>7. CASE voc[p][r].finished
  <2>1. e = Count(r) + 1
    BY <1>2, <1>7 DEF Blended
  <2>2. HandOf(r)' = {}
    <3>1. HandOf(r) \subseteq e + 1 .. handed[r]
      BY <1>2 DEF OnTheWay, Path
    <3>2. e + 1 .. handed[r] = {}
      BY <1>2, <2>1 DEF Counts
    <3>3. QED
      BY <1>3, <3>1, <3>2
  <2>3. ~ (e < Count(r)) /\ e >= 1
    BY <1>2, <2>1
  <2>4. Blended(r, e)'
    BY <2>1, <2>2, <2>3 DEF Blended
  <2>5. Counts(r, e)'
    BY <1>1, <1>2 DEF Counts
  <2>6. Listening(r)' /\ FirstHeard(r, e)' /\ TailSent(r)'
    BY <1>1, <1>2, <1>3, <1>5 DEF Listening, FirstHeard, TailSent
  <2>7. QED
    BY <1>3, <1>4, <2>4, <2>5, <2>6 DEF Flow
<1>8. QED
  BY <1>6, <1>7

(* The first call of a queue and the others. *)
LEMMA OutTail ==
  ASSUME Typed, NEW r \in Requests, NEW e, NEW p \in Procs, out_q[p] # <<>>,
         out_q' = [out_q EXCEPT ![p] = Tail(@)], Outgoing(r, e)
  PROVE  LET c == Head(out_q[p])
         IN  /\ c \in Calls /\ c \in Members(out_q[p])
             /\ \A s \in Procs : /\ InOrder(out_q'[s], CallOrder(r))
                                 /\ Members(out_q'[s]) \subseteq Members(out_q[s])
                                 /\ \A y \in Members(out_q[s]) :
                                      y \in Members(out_q'[s]) \/ (s = p /\ y = c)
             /\ \A y \in Members(out_q'[p]) : c.r = r /\ y.r = r =>
                  NumberOf(r, c.data) < NumberOf(r, y.data)
<1> DEFINE c == Head(out_q[p])
<1>1. out_q \in [Procs -> Seq(Calls)] /\ out_q[p] \in Seq(Calls)
  BY DEF Typed
<1>2. c \in Calls /\ Members(out_q[p]) = {c} \cup Members(Tail(out_q[p]))
  BY <1>1, HeadTailFacts
<1>3. \A s \in Procs : InOrder(out_q[s], CallOrder(r))
  BY DEF Outgoing
<1>4. /\ InOrder(Tail(out_q[p]), CallOrder(r))
      /\ \A y \in Members(Tail(out_q[p])) : <<c, y>> \in CallOrder(r)
  BY <1>1, <1>3, OrderTail
<1>5. \A s \in Procs : out_q'[s] = IF s = p THEN Tail(out_q[p]) ELSE out_q[s]
  BY <1>1
<1> HIDE DEF c
<1>6. \A y \in Members(out_q'[p]) : c.r = r /\ y.r = r =>
        NumberOf(r, c.data) < NumberOf(r, y.data)
  BY <1>4, <1>5 DEF CallOrder
<1>7. \A s \in Procs : /\ InOrder(out_q'[s], CallOrder(r))
                       /\ Members(out_q'[s]) \subseteq Members(out_q[s])
                       /\ \A y \in Members(out_q[s]) :
                            y \in Members(out_q'[s]) \/ (s = p /\ y = c)
  BY <1>2, <1>3, <1>4, <1>5
<1>8. QED
  BY <1>2, <1>6, <1>7 DEF c

(* A call for another request. *)
LEMMA ReadOther ==
  ASSUME Typed, NEW r \in Regular, NEW e, Flow(r, e), NEW p \in Procs, Read(p),
         Head(out_q[p]).r # r
  PROVE  Flow(r, e)'
<1> DEFINE c == Head(out_q[p])
           known == c.r \in registered[p]
           is_tail == c.data # Close /\ c.data.chunk = 0
<1>1. /\ out_q[p] # <<>> /\ c.r \in Requests
      /\ out_q' = [out_q EXCEPT ![p] = Tail(@)]
      /\ \A x \in Requests :
           delivered'[x] = IF x = c.r /\ known /\ ~is_tail
                           THEN Append(delivered[x], c.data) ELSE delivered[x]
      /\ registered' = IF c.data = Close THEN [registered EXCEPT ![p] = @ \ {c.r}]
                       ELSE registered
      /\ parent' = IF ~known \/ c.data = Close THEN parent
                   ELSE IF is_tail THEN [parent EXCEPT ![c.r].tail = c.data.tail]
                   ELSE [parent EXCEPT ![c.r].audio = TRUE]
      /\ deployment' = deployment /\ handed' = handed /\ lane' = lane /\ voc' = voc
      /\ q_first' = q_first /\ q_topup' = q_topup /\ q' = q
      /\ pending' = pending /\ sent_tail' = sent_tail /\ in_q' = in_q
  BY ReadFacts
<1>2. /\ KeptPlaced(r) /\ QueuesPlaced(r) /\ LanesPlaced(r) /\ PipesPlaced(r)
      /\ Outgoing(r, e) /\ OnTheWay(r, e) /\ Blended(r, e)
      /\ r \in Requests /\ c.r # r
  BY RegularFacts DEF Flow
<1>3. /\ LanesPlaced(r)' /\ HandOf(r)' = HandOf(r)
      /\ QueuesPlaced(r)' /\ QueueOf(r)' = QueueOf(r)
      /\ KeptPlaced(r)' /\ KeptOf(r)' = KeptOf(r) /\ PipesPlaced(r)' /\ PipeOf(r)' = PipeOf(r)
  BY <1>1, <1>2, SameQueues, SameHand, SameKept, SamePipes
<1>4. OnTheWay(r, e)'
  BY <1>1, <1>2, <1>3 DEF OnTheWay
<1>5. \A s \in Procs : /\ InOrder(out_q'[s], CallOrder(r))
                       /\ Members(out_q'[s]) \subseteq Members(out_q[s])
                       /\ \A y \in Members(out_q[s]) :
                            y \in Members(out_q'[s]) \/ (s = p /\ y = c)
  BY <1>1, <1>2, OutTail
<1> HIDE DEF c
<1>6. delivered'[r] = delivered[r]
  BY <1>1, <1>2
<1>7. parent'[r] = parent[r]
  BY <1>1, <1>2 DEF Typed
<1>8. \A s \in Procs : r \in registered[s] => r \in registered'[s]
  BY <1>1, <1>2 DEF Typed
<1>9. \A s \in Procs : \A y \in Members(out_q[s]) : y.r = r => y \in Members(out_q'[s])
  BY <1>2, <1>5
<1>10. Where' = Where /\ "first" \in Procs
  BY <1>1 DEF Where, Procs
<1>11. Outgoing(r, e)'
  <2>1. \A s \in Procs : \A data : Emitted(r, e, s, data)' <=> Emitted(r, e, s, data)
    BY <1>6, <1>10 DEF Emitted
  <2>2. \A s \in Procs : \A y \in Members(out_q'[s]) : y.r = r =>
          Where # "in_process" /\ Emitted(r, e, s, y.data)'
    BY <1>2, <1>5, <2>1 DEF Outgoing
  <2>3. \A i \in Len(delivered[r]) + 1 .. e :
          /\ Where # "in_process"
          /\ Call(r, Item(r, i)) \in Members(out_q'[Route(Where, r, i)])
    <3>1. \A i : Route(Where, r, i) \in Procs /\ Call(r, Item(r, i)).r = r
      BY <1>2, RouteFacts DEF Call
    <3>2. QED
      BY <1>2, <1>9, <3>1 DEF Outgoing
  <2>4. QED
    BY <1>5, <1>6, <1>10, <2>2, <2>3 DEF Outgoing
<1>12. \A k \in HandOf(r)' : k # 1 => voc["remote"][r].audio
  BY <1>2, <1>3 DEF Blended
<1>13. QED
  BY <1>1, <1>2, <1>3, <1>4, <1>6, <1>7, <1>8, <1>9, <1>10, <1>11, <1>12, QuietFlow

(* Whoever reads a call of the request is listening, and it is the note about
   the first chunk, before anything else, or the next element. *)
LEMMA NextHeard ==
  ASSUME Typed, NEW r \in Regular, NEW e, Flow(r, e), NEW p \in Procs, Read(p),
         Head(out_q[p]).r = r
  PROVE  LET c == Head(out_q[p])
             n == Len(delivered[r])
         IN  /\ r \in registered[p] /\ n \in Nat /\ n < e /\ Route(Where, r, n + 1) = p
             /\ (c.data = Note /\ n = 0) \/ c.data = Item(r, n + 1)
<1> DEFINE c == Head(out_q[p])
           n == Len(delivered[r])
<1>1. /\ out_q[p] # <<>> /\ c \in Calls /\ c.r = r
      /\ out_q' = [out_q EXCEPT ![p] = Tail(@)]
  BY ReadFacts
<1>2. /\ Outgoing(r, e) /\ OnTheWay(r, e) /\ Counts(r, e) /\ Listening(r) /\ FirstHeard(r, e)
      /\ KeptPlaced(r) /\ r \in Requests /\ Count(r) \in Nat \ {0}
  BY RegularFacts DEF Flow
<1>3. /\ e \in Nat /\ e <= Count(r) + 1 /\ handed[r] \in Nat /\ handed[r] <= Count(r)
      /\ e <= handed[r] \/ handed[r] = Count(r)
      /\ n \in Nat /\ n <= e
  <2>1. delivered[r] \in Seq(Data)
    BY <1>2 DEF Typed
  <2>2. QED
    BY <1>2, <2>1, LenProperties DEF Counts
<1>4. /\ c \in Members(out_q[p])
      /\ \A y \in Members(out_q[p]) : y \in Members(out_q'[p]) \/ y = c
      /\ \A y \in Members(out_q'[p]) : y.r = r =>
           NumberOf(r, c.data) < NumberOf(r, y.data)
  BY <1>1, <1>2, OutTail
<1> HIDE DEF c
<1>5. Where # "in_process" /\ Emitted(r, e, p, c.data)
  BY <1>1, <1>2, <1>4 DEF Outgoing
<1>6. \A k \in KeptOf(r) : k \in 2 .. Count(r) /\ k > e
  <2>1. KeptOf(r) \subseteq e + 1 .. handed[r]
    BY <1>2 DEF OnTheWay, Path
  <2>2. \A k \in KeptOf(r) : k \in 2 .. Count(r)
    BY <1>2 DEF KeptPlaced, KeptOf, Lined, Job
  <2>3. QED
    BY <1>3, <2>1, <2>2
<1>7. n <= Count(r) => \A k \in 1 .. handed[r] : k <= e => r \in registered[Route(Where, r, k)]
  BY <1>2, <1>5, <1>6, <1>3 DEF Listening
<1>8. CASE c.data = Note /\ e >= 1 /\ n = 0 /\ Route(Where, r, 1) = p
  <2>1. 1 \in 1 .. handed[r] /\ n <= Count(r) /\ n < e
    BY <1>2, <1>3, <1>8
  <2>2. QED
    BY <1>3, <1>7, <1>8, <2>1 DEF c
<1>9. ASSUME NEW i \in n + 1 .. e, c.data = Item(r, i), Route(Where, r, i) = p
      PROVE  r \in registered[p] /\ n < e /\ i = n + 1
  <2>1. n < e /\ n + 1 \in n + 1 .. e /\ n <= Count(r) /\ n + 1 \in 1 .. Count(r) + 1
        /\ i \in 1 .. Count(r) + 1
    <3> HIDE DEF n
    <3>1. QED
      BY <1>2, <1>3, <1>9
  <2>2. Call(r, Item(r, n + 1)) \in Members(out_q[Route(Where, r, n + 1)])
    BY <1>2, <2>1 DEF Outgoing
  <2>3. CASE i # n + 1 /\ Route(Where, r, n + 1) = p
    <3>1. Call(r, Item(r, n + 1)).r = r /\ Call(r, Item(r, n + 1)).data = Item(r, n + 1)
      BY DEF Call
    <3>2. NumberOf(r, Item(r, n + 1)) = n + 1 /\ NumberOf(r, Item(r, i)) = i
      BY <1>2, <2>1, ItemFacts
    <3>3. Call(r, Item(r, n + 1)) # c
      BY <1>9, <2>3, <3>1, <3>2
    <3>4. i < n + 1
      BY <1>4, <1>9, <2>2, <2>3, <3>1, <3>2, <3>3
    <3>5. QED
      BY <1>3, <3>4
  <2>4. CASE i # n + 1 /\ Route(Where, r, n + 1) # p
    <3>1. i \in 2 .. Count(r) + 1
      BY <1>3, <2>1, <2>4
    <3>2. Where = "split" /\ Count(r) > 1 /\ p = "remote" /\ n + 1 = 1
      <4>1. Where = "split" /\ (n + 1 = 1 \/ i = 1) /\ Count(r) # 1
        BY <1>9, <2>4 DEF Route
      <4>2. p = "remote"
        BY <1>9, <3>1, <4>1 DEF Route
      <4>3. QED
        BY <1>2, <3>1, <4>1, <4>2
    <3>3. e >= 2 /\ 2 \in 2 .. handed[r]
      BY <1>2, <1>3, <3>1, <3>2
    <3>4. 2 \notin KeptOf(r)
      BY <1>6, <3>3, <1>3
    <3>5. n >= 1
      BY <1>2, <3>2, <3>3, <3>4 DEF FirstHeard
    <3>6. QED
      BY <1>3, <3>2, <3>5
  <2>5. CASE i = n + 1 /\ i <= Count(r)
    <3>1. i \in 1 .. handed[r] /\ i <= e
      BY <1>3, <2>5, <1>9
    <3>2. QED
      BY <1>7, <1>9, <2>1, <2>5, <3>1
  <2>6. CASE i = n + 1 /\ i = Count(r) + 1
    <3>1. Count(r) \in 1 .. handed[r] /\ Count(r) <= e
      BY <1>2, <1>3, <1>9, <2>6
    <3>2. Route(Where, r, Count(r)) = p
      BY <1>2, <1>9, <2>6, RouteFacts
    <3>3. QED
      BY <1>7, <2>1, <2>6, <3>1, <3>2
  <2>7. QED
    BY <1>2, <2>1, <2>3, <2>4, <2>5, <2>6
<1>10. \/ c.data = Note /\ e >= 1 /\ n = 0 /\ Route(Where, r, 1) = p
       \/ \E i \in n + 1 .. e : c.data = Item(r, i) /\ Route(Where, r, i) = p
  BY <1>5 DEF Emitted
<1>11. QED
  BY <1>3, <1>8, <1>9, <1>10 DEF c

(* The tail of the first chunk is remembered. *)
LEMMA ReadNote ==
  ASSUME Typed, NEW r \in Regular, NEW e, Flow(r, e), NEW p \in Procs, Read(p),
         Head(out_q[p]).r = r, Head(out_q[p]).data = Note
  PROVE  Flow(r, e)'
<1> DEFINE c == Head(out_q[p])
           known == c.r \in registered[p]
           is_tail == c.data # Close /\ c.data.chunk = 0
<1>1. /\ out_q[p] # <<>> /\ c \in Calls
      /\ out_q' = [out_q EXCEPT ![p] = Tail(@)]
      /\ \A x \in Requests :
           delivered'[x] = IF x = c.r /\ known /\ ~is_tail
                           THEN Append(delivered[x], c.data) ELSE delivered[x]
      /\ registered' = IF c.data = Close THEN [registered EXCEPT ![p] = @ \ {c.r}]
                       ELSE registered
      /\ parent' = IF ~known \/ c.data = Close THEN parent
                   ELSE IF is_tail THEN [parent EXCEPT ![c.r].tail = c.data.tail]
                   ELSE [parent EXCEPT ![c.r].audio = TRUE]
      /\ deployment' = deployment /\ handed' = handed /\ lane' = lane /\ voc' = voc
      /\ q_first' = q_first /\ q_topup' = q_topup /\ q' = q
      /\ pending' = pending /\ sent_tail' = sent_tail /\ in_q' = in_q
  BY ReadFacts
<1>2. /\ KeptPlaced(r) /\ QueuesPlaced(r) /\ LanesPlaced(r) /\ PipesPlaced(r)
      /\ Outgoing(r, e) /\ OnTheWay(r, e) /\ Blended(r, e)
      /\ Counts(r, e) /\ Listening(r) /\ FirstHeard(r, e) /\ TailSent(r)
      /\ r \in Requests /\ Count(r) \in Nat \ {0} /\ c.r = r /\ c.data = Note
  BY RegularFacts DEF Flow
<1>3. /\ LanesPlaced(r)' /\ HandOf(r)' = HandOf(r)
      /\ QueuesPlaced(r)' /\ QueueOf(r)' = QueueOf(r)
      /\ KeptPlaced(r)' /\ KeptOf(r)' = KeptOf(r) /\ PipesPlaced(r)' /\ PipeOf(r)' = PipeOf(r)
  BY <1>1, <1>2, SameQueues, SameHand, SameKept, SamePipes
<1>4. OnTheWay(r, e)'
  BY <1>1, <1>2, <1>3 DEF OnTheWay
<1>5. \A s \in Procs : /\ InOrder(out_q'[s], CallOrder(r))
                       /\ Members(out_q'[s]) \subseteq Members(out_q[s])
                       /\ \A y \in Members(out_q[s]) :
                            y \in Members(out_q'[s]) \/ (s = p /\ y = c)
  BY <1>1, <1>2, OutTail
<1>6. r \in registered[p]
  BY <1>2, NextHeard
<1> HIDE DEF c
<1>7. c.data # Close /\ c.data.chunk = 0 /\ c.data.tail = 1
  BY <1>2, ItemFacts
<1>8. delivered'[r] = delivered[r]
  BY <1>1, <1>2, <1>7
<1>9. registered' = registered /\ parent' = [parent EXCEPT ![r].tail = 1]
  BY <1>1, <1>2, <1>6, <1>7
<1>10. parent'[r].tail = 1 /\ parent'[r].audio = parent[r].audio
  BY <1>2, <1>9 DEF Typed
<1>11. Where' = Where
  BY <1>1 DEF Where
<1>12. Outgoing(r, e)'
  <2>1. \A s \in Procs : \A data : Emitted(r, e, s, data)' <=> Emitted(r, e, s, data)
    BY <1>8, <1>11 DEF Emitted
  <2>2. \A s \in Procs : \A y \in Members(out_q'[s]) : y.r = r =>
          Where # "in_process" /\ Emitted(r, e, s, y.data)'
    BY <1>2, <1>5, <2>1 DEF Outgoing
  <2>3. ASSUME NEW i \in Len(delivered[r]) + 1 .. e
        PROVE  /\ Where # "in_process"
               /\ Call(r, Item(r, i)) \in Members(out_q'[Route(Where, r, i)])
    <3>1. i \in 1 .. Count(r) + 1
      <4>1. delivered[r] \in Seq(Data)
        BY <1>2 DEF Typed
      <4>2. QED
        BY <1>2, <4>1, LenProperties DEF Counts
    <3>2. Route(Where, r, i) \in Procs /\ Call(r, Item(r, i)).data = Item(r, i)
      BY <1>2, RouteFacts DEF Call
    <3>3. Call(r, Item(r, i)) # c
      BY <1>2, <3>1, <3>2, ItemFacts
    <3>4. QED
      BY <1>2, <1>5, <3>2, <3>3 DEF Outgoing
  <2>4. QED
    BY <1>5, <1>8, <1>11, <2>2, <2>3 DEF Outgoing
<1>13. Counts(r, e)'
  BY <1>1, <1>2, <1>8 DEF Counts
<1>14. Blended(r, e)'
  BY <1>1, <1>2, <1>3 DEF Blended
<1>15. Listening(r)' /\ TailSent(r)'
  BY <1>1, <1>2, <1>3, <1>8, <1>9, <1>11 DEF Listening, TailSent
<1>16. FirstHeard(r, e)'
  BY <1>1, <1>2, <1>3, <1>8, <1>10, <1>11 DEF FirstHeard
<1>17. QED
  BY <1>3, <1>4, <1>12, <1>13, <1>14, <1>15, <1>16 DEF Flow

(* The next element is delivered. *)
LEMMA ReadOwn ==
  ASSUME Typed, NEW r \in Regular, NEW e, Flow(r, e), NEW p \in Procs, Read(p),
         Head(out_q[p]).r = r, Head(out_q[p]).data # Note
  PROVE  Flow(r, e)'
<1> DEFINE c == Head(out_q[p])
           known == c.r \in registered[p]
           is_tail == c.data # Close /\ c.data.chunk = 0
           n == Len(delivered[r])
<1>1. /\ out_q[p] # <<>> /\ c \in Calls
      /\ out_q' = [out_q EXCEPT ![p] = Tail(@)]
      /\ \A x \in Requests :
           delivered'[x] = IF x = c.r /\ known /\ ~is_tail
                           THEN Append(delivered[x], c.data) ELSE delivered[x]
      /\ registered' = IF c.data = Close THEN [registered EXCEPT ![p] = @ \ {c.r}]
                       ELSE registered
      /\ parent' = IF ~known \/ c.data = Close THEN parent
                   ELSE IF is_tail THEN [parent EXCEPT ![c.r].tail = c.data.tail]
                   ELSE [parent EXCEPT ![c.r].audio = TRUE]
      /\ deployment' = deployment /\ handed' = handed /\ lane' = lane /\ voc' = voc
      /\ q_first' = q_first /\ q_topup' = q_topup /\ q' = q
      /\ pending' = pending /\ sent_tail' = sent_tail /\ in_q' = in_q
  BY ReadFacts
<1>2. /\ KeptPlaced(r) /\ QueuesPlaced(r) /\ LanesPlaced(r) /\ PipesPlaced(r)
      /\ Outgoing(r, e) /\ OnTheWay(r, e) /\ Blended(r, e)
      /\ Counts(r, e) /\ Listening(r) /\ FirstHeard(r, e) /\ TailSent(r)
      /\ r \in Requests /\ Count(r) \in Nat \ {0} /\ c.r = r /\ c.data # Note
  BY RegularFacts DEF Flow
<1>3. /\ LanesPlaced(r)' /\ HandOf(r)' = HandOf(r)
      /\ QueuesPlaced(r)' /\ QueueOf(r)' = QueueOf(r)
      /\ KeptPlaced(r)' /\ KeptOf(r)' = KeptOf(r) /\ PipesPlaced(r)' /\ PipeOf(r)' = PipeOf(r)
  BY <1>1, <1>2, SameQueues, SameHand, SameKept, SamePipes
<1>4. OnTheWay(r, e)'
  BY <1>1, <1>2, <1>3 DEF OnTheWay
<1>5. /\ \A s \in Procs : /\ InOrder(out_q'[s], CallOrder(r))
                          /\ Members(out_q'[s]) \subseteq Members(out_q[s])
                          /\ \A y \in Members(out_q[s]) :
                               y \in Members(out_q'[s]) \/ (s = p /\ y = c)
      /\ \A y \in Members(out_q'[p]) : y.r = r => NumberOf(r, c.data) < NumberOf(r, y.data)
  BY <1>1, <1>2, OutTail
<1>6. /\ r \in registered[p] /\ n \in Nat /\ n < e /\ Route(Where, r, n + 1) = p
      /\ c.data = Item(r, n + 1)
  BY <1>2, NextHeard
<1> HIDE DEF c
<1>7. /\ n + 1 \in 1 .. Count(r) + 1 /\ e \in Nat /\ e <= Count(r) + 1
      /\ delivered[r] \in Seq(Data)
  BY <1>2, <1>6 DEF Counts, Typed
<1>8. /\ c.data \in Data
      /\ c.data = Close <=> n + 1 = Count(r) + 1
      /\ NumberOf(r, c.data) = n + 1
      /\ ~ is_tail
  <2>1. /\ c.data \in Data /\ NumberOf(r, c.data) = n + 1
        /\ c.data = Close <=> n + 1 = Count(r) + 1
        /\ c.data # Close => c.data.chunk = n + 1
    BY <1>2, <1>6, <1>7, ItemFacts
  <2>2. n + 1 # 0
    BY <1>6
  <2>3. QED
    BY <2>1, <2>2
<1>9. delivered'[r] = Append(delivered[r], c.data)
  BY <1>1, <1>2, <1>6, <1>8
<1>10. /\ Len(delivered'[r]) = n + 1
       /\ \A i \in 1 .. n : delivered'[r][i] = delivered[r][i]
       /\ delivered'[r][n + 1] = c.data
  BY <1>7, <1>8, <1>9, AppendProperties
<1>11. Where' = Where
  BY <1>1 DEF Where
<1>12. /\ parent'[r].tail = parent[r].tail
       /\ c.data # Close => registered' = registered
  <2>1. parent \in [Requests -> [tail : Nat, audio : BOOLEAN]]
    BY DEF Typed
  <2>2. parent' \in {parent, [parent EXCEPT ![r].audio = TRUE]}
    BY <1>1, <1>2, <1>6, <1>8
  <2>3. QED
    BY <1>1, <1>2, <2>1, <2>2
<1>13. Counts(r, e)'
  <2>1. n + 1 <= e
    BY <1>6, <1>7
  <2>2. \A i \in 1 .. n + 1 : delivered'[r][i] = Item(r, i)
    <3>1. \A i \in 1 .. n + 1 : i \in 1 .. n \/ i = n + 1
      BY <1>6
    <3>2. QED
      BY <1>2, <1>6, <1>10, <3>1 DEF Counts
  <2>3. QED
    BY <1>1, <1>2, <1>10, <2>1, <2>2 DEF Counts
<1>14. Outgoing(r, e)'
  <2>1. ASSUME NEW s \in Procs, NEW y \in Members(out_q'[s]), y.r = r
        PROVE  Where # "in_process" /\ Emitted(r, e, s, y.data)'
    <3>1. Where # "in_process" /\ Emitted(r, e, s, y.data)
      BY <1>2, <1>5, <2>1 DEF Outgoing
    <3>2. ASSUME s = p PROVE n + 1 < NumberOf(r, y.data)
      BY <1>5, <1>8, <2>1, <3>2
    <3>3. CASE y.data = Note /\ n = 0 /\ Route(Where, r, 1) = s
      <4>1. s = p
        BY <1>6, <3>3
      <4>2. NumberOf(r, y.data) = 0
        BY <1>2, <3>3, ItemFacts
      <4>3. QED
        BY <3>2, <3>3, <4>1, <4>2
    <3>4. ASSUME NEW i \in n + 1 .. e, y.data = Item(r, i), Route(Where, r, i) = s
          PROVE  Emitted(r, e, s, y.data)'
      <4>1. i # n + 1
        <5>1. ASSUME i = n + 1 PROVE FALSE
          <6>1. s = p
            BY <1>6, <3>4, <5>1
          <6>2. NumberOf(r, y.data) = n + 1
            BY <1>6, <1>8, <3>4, <5>1
          <6>3. QED
            BY <1>6, <3>2, <6>1, <6>2
        <5>2. QED
          BY <5>1
      <4>2. i \in (n + 1) + 1 .. e
        BY <1>6, <1>7, <4>1
      <4>3. QED
        BY <1>10, <1>11, <3>4, <4>2 DEF Emitted
    <3>5. \/ y.data = Note /\ n = 0 /\ Route(Where, r, 1) = s
          \/ \E i \in n + 1 .. e : y.data = Item(r, i) /\ Route(Where, r, i) = s
      BY <3>1 DEF Emitted
    <3>6. QED
      BY <3>1, <3>3, <3>4, <3>5
  <2>2. ASSUME NEW i \in (n + 1) + 1 .. e
        PROVE  /\ Where # "in_process"
               /\ Call(r, Item(r, i)) \in Members(out_q'[Route(Where, r, i)])
    <3>1. i \in n + 1 .. e /\ i \in 1 .. Count(r) + 1 /\ i # n + 1
      <4>1. Count(r) \in Nat
        BY <1>2
      <4> HIDE DEF n
      <4>2. QED
        BY <1>6, <1>7, <4>1
    <3>2. Route(Where, r, i) \in Procs /\ Call(r, Item(r, i)).data = Item(r, i)
      BY <1>2, RouteFacts DEF Call
    <3>3. NumberOf(r, Item(r, i)) = i
      BY <1>2, <3>1, ItemFacts
    <3>4. Call(r, Item(r, i)) # c
      BY <1>8, <3>1, <3>2, <3>3
    <3>5. /\ Where # "in_process"
          /\ Call(r, Item(r, i)) \in Members(out_q[Route(Where, r, i)])
      BY <1>2, <3>1 DEF Outgoing
    <3>6. QED
      BY <1>5, <3>2, <3>4, <3>5
  <2>3. \A s \in Procs : \A y \in Members(out_q'[s]) : y.r = r =>
          Where # "in_process" /\ Emitted(r, e, s, y.data)'
    BY <2>1
  <2>4. QED
    BY <1>5, <1>10, <1>11, <2>2, <2>3 DEF Outgoing
<1>15. Blended(r, e)'
  BY <1>1, <1>2, <1>3 DEF Blended
<1>16. Listening(r)'
  <2>1. CASE c.data = Close
    <3>1. ~ (Len(delivered'[r]) <= Count(r))
      <4>1. Len(delivered'[r]) = Count(r) + 1 /\ Count(r) \in Nat
        BY <1>2, <1>8, <1>10, <2>1
      <4>2. QED
        BY <4>1
    <3>2. QED
      BY <3>1 DEF Listening
  <2>2. CASE c.data # Close
    <3>1. Len(delivered'[r]) <= Count(r) => n <= Count(r)
      BY <1>2, <1>6, <1>10
    <3>2. QED
      BY <1>1, <1>2, <1>3, <1>11, <1>12, <2>2, <3>1 DEF Listening
  <2>3. QED
    BY <2>1, <2>2
<1>17. FirstHeard(r, e)'
  <2>1. Len(delivered'[r]) >= 1
    BY <1>6, <1>10
  <2>2. Call(r, Note) \in Members(out_q["first"]) => Call(r, Note) \in Members(out_q'["first"])
    <3>1. Call(r, Note) # c
      BY <1>2 DEF Call
    <3>2. "first" \in Procs
      BY DEF Procs
    <3>3. QED
      BY <1>5, <3>1, <3>2
  <2>3. QED
    BY <1>2, <1>11, <1>12, <2>1, <2>2 DEF FirstHeard
<1>18. TailSent(r)'
  BY <1>1, <1>2, <1>3, <1>11 DEF TailSent
<1>19. QED
  BY <1>3, <1>4, <1>13, <1>14, <1>15, <1>16, <1>17, <1>18 DEF Flow

-----------------------------------------------------------------------------
(* A job of the request is done *)

(* It is the first that has not been emitted. *)
LEMMA LeastInHand ==
  ASSUME Typed, NEW r \in Regular, NEW e, Flow(r, e), NEW p \in Procs, NEW l \in Lanes,
         Postprocess(p, l), Head(Hand(lane[p][l])).r = r
  PROVE  LET k == Head(Hand(lane[p][l])).k
         IN  /\ Head(Hand(lane[p][l])) = Job(r, k) /\ k \in 1 .. Count(r)
             /\ k = e + 1 /\ k <= handed[r] /\ Route(Where, r, k) = p /\ LaneOf(k) = l
             /\ LanesPlaced(r)' /\ HandOf(r)' = HandOf(r) \ {k} /\ k \in HandOf(r)
<1> DEFINE s0 == Hand(lane[p][l])
           j == Head(s0)
           n == j.k
<1>1. /\ s0 # <<>> /\ j \in Jobs /\ j.r = r
      /\ Hand(lane'[p][l]) = Tail(s0)
      /\ \A s \in Procs, m \in Lanes : s # p \/ m # l => lane'[s][m] = lane[s][m]
  <2>1. /\ s0 # <<>> /\ j \in Jobs
        /\ Hand(lane'[p][l]) = Tail(s0)
        /\ \A s \in Procs, m \in Lanes : s # p \/ m # l => lane'[s][m] = lane[s][m]
    BY PostprocessFacts
  <2>2. j.r = r
    OBVIOUS
  <2>3. QED
    BY <2>1, <2>2
<1>2. deployment' = deployment /\ s0 \in Seq(Jobs)
  <2>1. deployment' = deployment
    BY DEF Postprocess
  <2>2. s0 \in Seq(Jobs)
    BY LaneFacts DEF Typed
  <2>3. QED
    BY <2>1, <2>2
<1>3. /\ LanesPlaced(r) /\ OnTheWay(r, e) /\ Counts(r, e) /\ Blended(r, e)
      /\ r \in Requests /\ Count(r) \in Nat \ {0}
  BY RegularFacts DEF Flow
<1>4. s0 = Hand(lane[p][l])
  OBVIOUS
<1> HIDE DEF s0
<1>5. /\ Lined(Tail(s0), r, {k \in Through(Where, r, p) : LaneOf(k) = l})
      /\ Members(s0) = {j} \cup Members(Tail(s0))
      /\ \A i \in Members(Tail(s0)) : i.r = r => n < i.k
  <2> DEFINE K == {k \in Through(Where, r, p) : LaneOf(k) = l}
  <2>1. Lined(s0, r, K)
    BY <1>3, <1>4 DEF LanesPlaced
  <2> HIDE DEF K
  <2>2. /\ Lined(Tail(s0), r, K)
        /\ Members(s0) = {j} \cup Members(Tail(s0))
        /\ \A i \in Members(Tail(s0)) : i.r = r => n < i.k
    BY <1>1, <1>2, <2>1, LinedTail
  <2>3. QED
    BY <2>2 DEF K
<1>6. /\ j = Job(r, n) /\ n \in 1 .. Count(r) /\ n \in HandOf(r)
      /\ Route(Where, r, n) = p /\ LaneOf(n) = l
  BY <1>1, <1>3, <1>4, <1>5, InPlace
<1> HIDE DEF j, n
<1>7. /\ LanesPlaced(r)'
      /\ \A i \in 1 .. Count(r) :
           i \in HandOf(r)' <=> IF Route(Where, r, i) = p /\ LaneOf(i) = l
                                THEN Job(r, i) \in Members(Tail(s0))
                                ELSE i \in HandOf(r)
  <2>1. Lined(Hand(lane'[p][l]), r, {k \in Through(Where, r, p) : LaneOf(k) = l})
    BY <1>1, <1>5
  <2>2. /\ LanesPlaced(r)'
        /\ \A i \in 1 .. Count(r) :
             i \in HandOf(r)' <=> IF Route(Where, r, i) = p /\ LaneOf(i) = l
                                  THEN Job(r, i) \in Members(Hand(lane'[p][l]))
                                  ELSE i \in HandOf(r)
    <3>1. /\ r \in Requests /\ LanesPlaced(r) /\ deployment' = deployment
          /\ \A s \in Procs, m \in Lanes : s # p \/ m # l => lane'[s][m] = lane[s][m]
      BY <1>1, <1>2, <1>3
    <3>2. QED
      BY <2>1, <3>1, LaneMoves
  <2>3. QED
    BY <1>1, <2>2
<1>8. \A i \in 1 .. Count(r) : Route(Where, r, i) = p /\ LaneOf(i) = l =>
        (i \in HandOf(r) <=> Job(r, i) \in Members(s0))
  BY <1>4 DEF HandOf
<1>9. \A i : Job(r, i).r = r /\ Job(r, i).k = i
  BY DEF Job
<1>10. \A i \in 1 .. Count(r) : Job(r, i) \in Members(s0) <=> i = n \/ Job(r, i) \in Members(Tail(s0))
  BY <1>5, <1>6, <1>9
<1>11. Job(r, n) \notin Members(Tail(s0))
  <2>1. ~ (n < n)
    BY <1>3, <1>6
  <2>2. QED
    BY <1>5, <1>9, <2>1
<1>12. HandOf(r)' = HandOf(r) \ {n}
  <2>1. \A i \in 1 .. Count(r) : i \in HandOf(r)' <=> i \in HandOf(r) /\ i # n
    BY <1>6, <1>7, <1>8, <1>10, <1>11
  <2>2. HandOf(r)' \subseteq 1 .. Count(r) /\ HandOf(r) \subseteq 1 .. Count(r)
    BY DEF HandOf
  <2>3. QED
    BY <2>1, <2>2
<1>13. Path(HandOf(r), QueueOf(r), PipeOf(r), KeptOf(r), e, handed[r])
  BY <1>3 DEF OnTheWay
<1>14. e \in Nat /\ handed[r] \in Nat /\ HandOf(r) \subseteq e + 1 .. handed[r]
  BY <1>3, <1>13 DEF Counts, Path
<1>15. \A i \in HandOf(r) : n <= i
  <2> SUFFICES ASSUME NEW i \in HandOf(r) PROVE n <= i
    OBVIOUS
  <2>1. i \in 1 .. Count(r) /\ i \in e + 1 .. handed[r]
    BY <1>14 DEF HandOf
  <2>2. CASE Route(Where, r, i) = p /\ LaneOf(i) = l
    <3>1. Job(r, i) \in Members(s0)
      BY <1>8, <2>1, <2>2
    <3>2. i = n \/ n < i
      BY <1>5, <1>9, <1>10, <2>1, <3>1
    <3>3. QED
      BY <1>3, <1>6, <2>1, <3>2
  <2>3. CASE n = 1
    BY <1>3, <2>1, <2>3
  <2>4. CASE n # 1 /\ ~ (Route(Where, r, i) = p /\ LaneOf(i) = l)
    <3>1. voc["remote"][r].audio /\ e >= 1
      BY <1>3, <1>6, <2>4 DEF Blended
    <3>2. n \in 2 .. Count(r) /\ p = "remote" /\ l = "bulk"
      BY <1>3, <1>6, <2>4, RouteFacts
    <3>3. i \notin 2 .. Count(r)
      BY <1>3, <2>4, <3>2, RouteFacts
    <3>4. QED
      BY <1>3, <1>14, <2>1, <3>1, <3>3
  <2>5. QED
    BY <2>2, <2>3, <2>4
<1>16. n = e + 1
  <2>1. n \in e + 1 .. handed[r] /\ e + 1 \in e + 1 .. handed[r]
    BY <1>6, <1>14
  <2>2. CASE e + 1 \in HandOf(r)
    <3>1. n <= e + 1
      BY <1>15, <2>2
    <3>2. QED
      BY <1>14, <2>1, <3>1
  <2>3. CASE e + 1 \in QueueOf(r) \cup PipeOf(r) \cup KeptOf(r)
    <3>1. n < e + 1
      BY <1>6, <1>13, <2>3 DEF Path
    <3>2. QED
      BY <1>14, <2>1, <3>1
  <2>4. QED
    BY <1>13, <2>1, <2>2, <2>3 DEF Path
<1>17. n <= handed[r]
  BY <1>6, <1>14
<1>18. QED
  BY <1>6, <1>7, <1>12, <1>16, <1>17 DEF j, n, s0

(* The number of elements emitted when chunk k of r has been: Close follows
   the last chunk at once. *)
After(r, k) == IF k = Count(r) THEN Count(r) + 1 ELSE k

(* A call and another one. *)
LEMMA TwoCalls ==
  ASSUME NEW x \in Calls, NEW y \in Calls
  PROVE  <<>> \o <<x>> \o <<y>> = <<x, y>> /\ <<x>> \o <<y>> \o <<>> = <<x, y>>
<1>1. <<x>> \in Seq(Calls) /\ <<y>> \in Seq(Calls) /\ <<x, y>> \in Seq(Calls)
  BY EmptySeq
<1>2. <<x>> \o <<y>> = <<x, y>>
  <2> DEFINE s == <<x>> \o <<y>>
  <2>1. s \in Seq(Calls) /\ Len(s) = 2 /\ \A i \in 1 .. 2 : s[i] = IF i <= 1 THEN <<x>>[i] ELSE <<y>>[i - 1]
    BY <1>1, ConcatProperties
  <2>2. s[1] = x /\ s[2] = y
    BY <2>1
  <2> HIDE DEF s
  <2>3. s = <<x, y>>
    BY <1>1, <2>1, <2>2, SeqEqual
  <2>4. QED
    BY <2>3 DEF s
<1>3. <<>> \o <<x>> = <<x>> /\ <<x, y>> \o <<>> = <<x, y>>
  BY <1>1, ConcatEmptySeq
<1>4. QED
  BY <1>2, <1>3

(* What is emitted with it. *)
LEMMA OwnCalls ==
  ASSUME Typed, NEW r \in Regular, NEW p \in Procs, NEW k \in 1 .. Count(r),
         ~ voc[p][r].finished, k # 1 => voc[p][r].tail = k - 1
  PROVE  LET calls == Noted(Job(r, k)) \o Audio(p, Job(r, k)) \o Ended(p, Job(r, k))
         IN  /\ calls \in Seq(Calls) /\ InOrder(calls, CallOrder(r))
             /\ \A c \in Members(calls) :
                  /\ c.r = r
                  /\ \/ c.data = Note /\ k = 1 /\ Where # "in_process"
                     \/ \E i \in k .. After(r, k) : c.data = Item(r, i)
             /\ \A i \in k .. After(r, k) : Call(r, Item(r, i)) \in Members(calls)
             /\ k = 1 /\ Count(r) > 1 /\ Where # "in_process" => Call(r, Note) \in Members(calls)
             /\ Where = "in_process" =>
                  /\ Len(calls) = After(r, k) - (k - 1)
                  /\ \A i \in 1 .. Len(calls) : calls[i].data = Item(r, k - 1 + i)
<1> DEFINE j == Job(r, k)
           a == Call(r, Note)
           b == Call(r, Item(r, k))
           c == Call(r, Close)
           calls == Noted(j) \o Audio(p, j) \o Ended(p, j)
<1>1. /\ r \in Requests /\ Count(r) \in Nat \ {0} /\ j.r = r /\ j.k = k
      /\ IsFirst(j) <=> k = 1
      /\ ChunkOf(j).final <=> k = Count(r)
  BY RegularFacts, JobFacts
<1>2. /\ a \in Calls /\ b \in Calls /\ c \in Calls
      /\ a.r = r /\ b.r = r /\ c.r = r
      /\ a.data = Note /\ b.data = Item(r, k) /\ c.data = Item(r, Count(r) + 1)
      /\ NumberOf(r, a.data) = 0 /\ NumberOf(r, b.data) = k
      /\ NumberOf(r, c.data) = Count(r) + 1
  <2>1. Note \in Data /\ Item(r, k) \in Data /\ Close \in Data /\ Close = Item(r, Count(r) + 1)
        /\ NumberOf(r, Note) = 0 /\ NumberOf(r, Item(r, k)) = k
        /\ NumberOf(r, Item(r, Count(r) + 1)) = Count(r) + 1
    <3>1. k \in 1 .. Count(r) + 1 /\ Count(r) + 1 \in 1 .. Count(r) + 1
      BY <1>1
    <3>2. QED
      BY <1>1, <3>1, ItemFacts
  <2>2. QED
    BY <1>1, <2>1 DEF Call, Calls
<1>3. Noted(j) = IF k = 1 /\ k # Count(r) /\ Where # "in_process" THEN <<a>> ELSE <<>>
  <2>1. IsFirst(j) /\ ~ ChunkOf(j).final /\ j.k # NoTail /\ Where # "in_process"
          <=> k = 1 /\ k # Count(r) /\ Where # "in_process"
    BY <1>1 DEF NoTail
  <2>2. k = 1 => Call(j.r, [chunk |-> 0, tail |-> j.k]) = a
    BY <1>1 DEF Note
  <2> HIDE DEF j, a
  <2>3. QED
    BY <2>1, <2>2 DEF Noted
<1>4. Audio(p, j) = <<b>>
  <2>1. (IF IsFirst(j) THEN NoTail ELSE voc[p][j.r].tail) = k - 1
    BY <1>1 DEF NoTail
  <2>2. Item(r, k) = [chunk |-> k, tail |-> k - 1]
    BY <1>1 DEF Item
  <2> HIDE DEF j
  <2>3. QED
    BY <1>1, <2>1, <2>2 DEF Audio
<1>5. Ended(p, j) = IF k = Count(r) THEN <<c>> ELSE <<>>
  <2> HIDE DEF j
  <2>1. QED
    BY <1>1 DEF Ended
<1> HIDE DEF a, b, c, j
<1>6. CASE k = Count(r)
  <2>1. calls = <<b, c>>
    <3>1. calls = <<>> \o <<b>> \o <<c>>
      BY <1>3, <1>4, <1>5, <1>6
    <3>2. <<>> \o <<b>> \o <<c>> = <<b, c>>
      BY <1>2, TwoCalls
    <3>3. QED
      BY <3>1, <3>2
  <2>2. calls \in Seq(Calls) /\ Len(calls) = 2 /\ calls[1] = b /\ calls[2] = c
        /\ DOMAIN calls = {1, 2} /\ Members(calls) = {b, c}
    BY <1>2, <2>1 DEF Members
  <2> HIDE DEF calls
  <2>3. <<b, c>> \in CallOrder(r)
    BY <1>1, <1>2, <1>6 DEF CallOrder
  <2>4. InOrder(calls, CallOrder(r))
    BY <2>2, <2>3 DEF InOrder
  <2>5. k .. After(r, k) = {k, Count(r) + 1}
    BY <1>1, <1>6 DEF After
  <2>6. /\ Len(calls) = After(r, k) - (k - 1)
        /\ \A i \in 1 .. Len(calls) : calls[i].data = Item(r, k - 1 + i)
    <3>1. k - 1 + 1 = k /\ k - 1 + 2 = Count(r) + 1 /\ After(r, k) - (k - 1) = 2
      BY <1>1, <1>6 DEF After
    <3>2. \A i \in 1 .. 2 : calls[i].data = Item(r, k - 1 + i)
      BY <1>2, <2>2, <3>1
    <3>3. QED
      BY <2>2, <3>1, <3>2
  <2>7. Call(r, Item(r, k)) = b /\ Call(r, Item(r, Count(r) + 1)) = c
    BY <1>2 DEF b, c, Item
  <2>8. ~ (k = 1 /\ Count(r) > 1)
    BY <1>1, <1>6
  <2>9. QED
    BY <1>2, <2>2, <2>4, <2>5, <2>6, <2>7, <2>8 DEF calls, j
<1>7. CASE k # Count(r) /\ k = 1 /\ Where # "in_process"
  <2>1. calls = <<a, b>>
    <3>1. calls = <<a>> \o <<b>> \o <<>>
      BY <1>3, <1>4, <1>5, <1>7
    <3>2. <<a>> \o <<b>> \o <<>> = <<a, b>>
      BY <1>2, TwoCalls
    <3>3. QED
      BY <3>1, <3>2
  <2>2. calls \in Seq(Calls) /\ Len(calls) = 2 /\ calls[1] = a /\ calls[2] = b
        /\ DOMAIN calls = {1, 2} /\ Members(calls) = {a, b}
    BY <1>2, <2>1 DEF Members
  <2> HIDE DEF calls
  <2>3. <<a, b>> \in CallOrder(r)
    BY <1>1, <1>2 DEF CallOrder
  <2>4. InOrder(calls, CallOrder(r))
    BY <2>2, <2>3 DEF InOrder
  <2>5. k .. After(r, k) = {k}
    BY <1>1, <1>7 DEF After
  <2>6. Call(r, Item(r, k)) = b /\ Call(r, Note) = a
    BY DEF a, b
  <2>7. QED
    BY <1>2, <1>7, <2>2, <2>4, <2>5, <2>6 DEF calls, j
<1>8. CASE k # Count(r) /\ ~ (k = 1 /\ Where # "in_process")
  <2>1. calls = <<b>>
    <3>1. calls = <<>> \o <<b>> \o <<>>
      BY <1>3, <1>4, <1>5, <1>8
    <3>2. QED
      BY <1>2, <3>1
  <2>2. calls \in Seq(Calls) /\ Len(calls) = 1 /\ calls[1] = b
        /\ DOMAIN calls = {1} /\ Members(calls) = {b}
    BY <1>2, <2>1 DEF Members
  <2> HIDE DEF calls
  <2>4. InOrder(calls, CallOrder(r))
    BY <2>2 DEF InOrder
  <2>5. k .. After(r, k) = {k}
    BY <1>1, <1>8 DEF After
  <2>6. Call(r, Item(r, k)) = b
    BY DEF b
  <2>7. /\ Len(calls) = After(r, k) - (k - 1)
        /\ \A i \in 1 .. Len(calls) : calls[i].data = Item(r, k - 1 + i)
    <3>1. k - 1 + 1 = k /\ After(r, k) - (k - 1) = 1
      BY <1>1, <1>8 DEF After
    <3>2. QED
      BY <1>2, <2>2, <3>1
  <2>8. QED
    BY <1>2, <1>8, <2>2, <2>4, <2>5, <2>6, <2>7 DEF calls, j
<1>9. QED
  BY <1>6, <1>7, <1>8

-----------------------------------------------------------------------------
(* The first number of the way is emitted; with the last one Close is. *)
LEMMA PathEmits ==
  ASSUME NEW e \in Nat, NEW h \in Nat, NEW A, NEW B, NEW C, NEW D, Path(A, B, C, D, e, h),
         e + 1 \in A, NEW f \in Nat, f = e + 1 \/ (f = e + 2 /\ h = e + 1)
  PROVE  Path(A \ {e + 1}, B, C, D, f, h)
<1>1. A \cup B \cup C \cup D = e + 1 .. h
  BY DEF Path
<1>2. ~ (e + 1 < e + 1)
  OBVIOUS
<1>3. e + 1 \notin B \cup C \cup D
  BY <1>2 DEF Path
<1>4. (e + 1 .. h) \ {e + 1} = f + 1 .. h
  OBVIOUS
<1>5. (A \ {e + 1}) \cup B \cup C \cup D = f + 1 .. h
  BY <1>1, <1>3, <1>4
<1>6. QED
  BY <1>5 DEF Path

(* The counts when chunk e + 1 has been emitted. *)
LEMMA AfterFacts ==
  ASSUME NEW r \in Requests, NEW e \in Nat, e + 1 \in 1 .. Count(r)
  PROVE  /\ After(r, e + 1) \in 1 .. Count(r) + 1 /\ After(r, e + 1) # Count(r)
         /\ e + 1 <= After(r, e + 1) /\ e <= After(r, e + 1)
         /\ e + 1 # Count(r) => After(r, e + 1) = e + 1
         /\ e + 1 = Count(r) => After(r, e + 1) = e + 2 /\ After(r, e + 1) = Count(r) + 1
         /\ \A i \in e + 1 .. After(r, e + 1) : Route(Where, r, i) = Route(Where, r, e + 1)
<1>1. Count(r) \in Nat \ {0} /\ Route(Where, r, Count(r) + 1) = Route(Where, r, Count(r))
  BY JobFacts, RouteFacts
<1>2. CASE e + 1 = Count(r)
  <2>1. After(r, e + 1) = Count(r) + 1
    BY <1>2 DEF After
  <2>2. \A i \in e + 1 .. After(r, e + 1) : i = Count(r) \/ i = Count(r) + 1
    BY <1>1, <1>2, <2>1
  <2>3. QED
    BY <1>1, <1>2, <2>1, <2>2
<1>3. CASE e + 1 # Count(r)
  <2>1. After(r, e + 1) = e + 1
    BY <1>3 DEF After
  <2>2. \A i \in e + 1 .. After(r, e + 1) : i = e + 1
    BY <2>1
  <2>3. QED
    BY <1>1, <1>3, <2>1, <2>2
<1>4. QED
  BY <1>2, <1>3

(* In the engine's process the caller has them at once. *)
LEMMA OwnDelivered ==
  ASSUME Typed, NEW r \in Regular, NEW e, Counts(r, e), Outgoing(r, e),
         NEW k \in 1 .. Count(r), k = e + 1, k <= handed[r], NEW p \in Procs,
         NEW calls \in Seq(Calls), Emit(p, calls), \A c \in Members(calls) : c.r = r,
         Len(calls) = After(r, k) - (k - 1),
         \A i \in 1 .. Len(calls) : calls[i].data = Item(r, k - 1 + i),
         Where = "in_process", deployment' = deployment, handed' = handed
  PROVE  Counts(r, After(r, k))' /\ Outgoing(r, After(r, k))' /\ out_q' = out_q
<1> DEFINE f == After(r, k)
<1>1. /\ r \in Requests /\ e \in Nat /\ Count(r) \in Nat \ {0} /\ Len(delivered[r]) \in Nat
      /\ delivered[r] \in Seq(Data) /\ Where' = Where /\ Len(delivered[r]) <= e
      /\ handed[r] \in 0 .. Count(r)
  BY RegularFacts, LenProperties DEF Counts, Typed, Where
<1>2. /\ f \in 1 .. Count(r) + 1 /\ f # Count(r) /\ e + 1 <= f
      /\ e + 1 # Count(r) => f = e + 1
  BY <1>1, AfterFacts
<1> HIDE DEF f
<1>3. Len(delivered[r]) = e
  <2>1. \A i \in Len(delivered[r]) + 1 .. e : FALSE
    BY DEF Outgoing
  <2>2. ~ (Len(delivered[r]) + 1 <= e)
    BY <1>1, <2>1
  <2>3. QED
    BY <1>1, <2>2
<1> DEFINE d == DataOf(calls, r)
           n == Len(calls)
<1>4. /\ d \in Seq(Data) /\ Len(d) = n /\ n = f - e
      /\ \A i \in 1 .. n : d[i] = Item(r, e + i)
  <2>1. d \in Seq(Data) /\ Len(d) = Len(calls) /\ \A i \in 1 .. Len(calls) : d[i] = calls[i].data
    BY <1>1, DataOfFacts
  <2>2. n \in Nat
    BY LenProperties
  <2>3. k - 1 = e /\ f - (k - 1) = f - e
    BY <1>1, <1>2
  <2> HIDE DEF d
  <2>4. \A i \in 1 .. n : calls[i].data = Item(r, e + i)
    BY <2>3
  <2>5. n = f - e
    BY <2>3 DEF f
  <2>6. QED
    BY <2>1, <2>4, <2>5
<1>5. out_q' = out_q /\ delivered'[r] = delivered[r] \o d
  BY <1>1, EmitFacts
<1> HIDE DEF d, n
<1>6. /\ Len(delivered'[r]) = f
      /\ \A i \in 1 .. f : delivered'[r][i] = IF i <= e THEN delivered[r][i] ELSE d[i - e]
  <2>1. /\ Len(delivered[r] \o d) = Len(delivered[r]) + Len(d)
        /\ \A i \in 1 .. Len(delivered[r]) + Len(d) : (delivered[r] \o d)[i] =
             IF i <= Len(delivered[r]) THEN delivered[r][i] ELSE d[i - Len(delivered[r])]
    BY <1>1, <1>4, ConcatProperties
  <2>2. Len(delivered[r]) + Len(d) = f
    BY <1>1, <1>2, <1>3, <1>4
  <2>3. QED
    BY <1>3, <1>5, <2>1, <2>2
<1>7. \A i \in 1 .. f : delivered'[r][i] = Item(r, i)
  <2> SUFFICES ASSUME NEW i \in 1 .. f PROVE delivered'[r][i] = Item(r, i)
    OBVIOUS
  <2>1. CASE i <= e
    <3>1. i \in 1 .. Len(delivered[r])
      BY <1>1, <1>2, <1>3, <2>1
    <3>2. QED
      BY <1>6, <2>1, <3>1 DEF Counts
  <2>2. CASE ~ (i <= e)
    <3>1. i - e \in 1 .. n /\ e + (i - e) = i
      BY <1>1, <1>2, <1>4, <2>2
    <3>2. QED
      BY <1>4, <1>6, <2>2, <3>1
  <2>3. QED
    BY <2>1, <2>2
<1>8. Counts(r, f)'
  <2>1. f <= handed[r] \/ handed[r] = Count(r)
    BY <1>1, <1>2
  <2>2. f \in 0 .. Count(r) + 1 /\ f <= f
    BY <1>1, <1>2
  <2>3. QED
    BY <1>1, <1>2, <1>6, <1>7, <2>1, <2>2 DEF Counts
<1>9. Outgoing(r, f)'
  <2>1. \A i \in Len(delivered'[r]) + 1 .. f : FALSE
    BY <1>2, <1>6
  <2>2. QED
    BY <1>1, <1>5, <2>1 DEF Outgoing
<1>10. QED
  BY <1>5, <1>8, <1>9 DEF f

\* Calls with the elements from k on that are emitted with chunk k, and
\* with the note if it is the first.
ElementsOf(r, k, calls) ==
  /\ \A c \in Members(calls) :
       /\ c.r = r
       /\ \/ c.data = Note /\ k = 1
          \/ \E i \in k .. After(r, k) : c.data = Item(r, i)
  /\ \A i \in k .. After(r, k) : Call(r, Item(r, i)) \in Members(calls)

(* From a subprocess they follow what is in its queue. *)
LEMMA OwnQueued ==
  ASSUME Typed, NEW r \in Regular, NEW e, Counts(r, e), Outgoing(r, e),
         NEW k \in 1 .. Count(r), k = e + 1, k <= handed[r],
         NEW p \in Procs, Route(Where, r, k) = p,
         NEW calls \in Seq(Calls), InOrder(calls, CallOrder(r)), Emit(p, calls),
         ElementsOf(r, k, calls),
         Where # "in_process", deployment' = deployment, handed' = handed
  PROVE  /\ Counts(r, After(r, k))' /\ Outgoing(r, After(r, k))'
         /\ delivered' = delivered
         /\ Members(out_q'[p]) = Members(out_q[p]) \cup Members(calls)
         /\ \A s \in Procs : s # p => out_q'[s] = out_q[s]
<1> DEFINE f == After(r, k)
           d == Len(delivered[r])
<1>1. /\ r \in Requests /\ e \in Nat /\ Count(r) \in Nat \ {0} /\ d \in Nat
      /\ Where' = Where /\ d <= e /\ handed[r] \in 0 .. Count(r)
      /\ out_q \in [Procs -> Seq(Calls)]
  BY RegularFacts, LenProperties DEF Counts, Typed, Where
<1>2. /\ f \in 1 .. Count(r) + 1 /\ f # Count(r) /\ e + 1 <= f
      /\ e + 1 # Count(r) => f = e + 1
      /\ \A i \in e + 1 .. f : Route(Where, r, i) = p
  BY <1>1, AfterFacts
<1> HIDE DEF f
<1>3. /\ \A c \in Members(calls) :
           /\ c.r = r
           /\ \/ c.data = Note /\ e = 0
              \/ \E i \in e + 1 .. f : c.data = Item(r, i)
      /\ \A i \in e + 1 .. f : Call(r, Item(r, i)) \in Members(calls)
  BY <1>1 DEF f, ElementsOf
<1>4. delivered' = delivered /\ out_q' = [out_q EXCEPT ![p] = @ \o calls]
  BY EmitFacts
<1>5. /\ out_q'[p] = out_q[p] \o calls
      /\ \A s \in Procs : s # p => out_q'[s] = out_q[s]
  BY <1>1, <1>4
<1>6. /\ out_q[p] \in Seq(Calls) /\ Members(out_q[p]) \subseteq Calls /\ Members(calls) \subseteq Calls
      /\ Members(out_q[p] \o calls) = Members(out_q[p]) \cup Members(calls)
  <2>1. out_q[p] \in Seq(Calls)
    BY <1>1
  <2>2. QED
    BY <2>1, MembersFacts, JoinedFacts
<1>7. \A s \in Procs : Members(out_q'[s]) = IF s = p THEN Members(out_q[p]) \cup Members(calls)
                                           ELSE Members(out_q[s])
  BY <1>5, <1>6
<1> HIDE DEF d
<1>8. d = Len(delivered[r]) /\ d = Len(delivered'[r])
  BY <1>4 DEF d
<1>9. Counts(r, f)'
  <2>1. f <= handed[r] \/ handed[r] = Count(r)
    BY <1>1, <1>2
  <2>2. f \in 0 .. Count(r) + 1 /\ d <= f
    BY <1>1, <1>2
  <2>3. QED
    BY <1>2, <1>4, <1>8, <2>1, <2>2 DEF Counts
<1>10. ASSUME NEW s \in Procs, NEW data, Emitted(r, e, s, data)
       PROVE  Emitted(r, f, s, data)'
  <2>1. e >= 1 => f >= 1
    BY <1>1, <1>2
  <2>2. d + 1 .. e \subseteq d + 1 .. f
    BY <1>1, <1>2
  <2>3. QED
    BY <1>1, <1>8, <1>10, <2>1, <2>2 DEF Emitted
<1>11. ASSUME NEW c \in Members(calls)
       PROVE  Emitted(r, f, p, c.data)'
  <2>1. CASE c.data = Note /\ e = 0
    <3>1. f >= 1 /\ d = 0 /\ 1 \in e + 1 .. f
      BY <1>1, <1>2, <2>1
    <3>2. Route(Where, r, 1) = p
      BY <1>2, <3>1
    <3>3. QED
      BY <1>1, <1>8, <2>1, <3>1, <3>2 DEF Emitted
  <2>2. ASSUME NEW i \in e + 1 .. f, c.data = Item(r, i)
        PROVE  Emitted(r, f, p, c.data)'
    <3>1. i \in d + 1 .. f /\ Route(Where, r, i) = p
      BY <1>1, <1>2
    <3>2. QED
      BY <1>1, <1>8, <2>2, <3>1 DEF Emitted
  <2>3. QED
    BY <1>3, <2>1, <2>2
<1>12. \A x \in Members(out_q[p]), y \in Members(calls) : <<x, y>> \in CallOrder(r)
  <2> SUFFICES ASSUME NEW x \in Members(out_q[p]), NEW y \in Members(calls), x.r = r
               PROVE  NumberOf(r, x.data) < NumberOf(r, y.data)
    BY <1>6 DEF CallOrder
  <2>1. Emitted(r, e, p, x.data)
    BY DEF Outgoing
  <2>2. \A i \in 1 .. Count(r) + 1 : NumberOf(r, Item(r, i)) = i
    BY <1>1, ItemFacts
  <2>3. NumberOf(r, Note) = 0
    BY <1>1, ItemFacts
  <2>4. e >= 1 /\ NumberOf(r, x.data) \in 0 .. e
    <3>1. CASE x.data = Note /\ e >= 1
      BY <1>1, <2>3, <3>1
    <3>2. ASSUME NEW i \in d + 1 .. e, x.data = Item(r, i)
          PROVE  e >= 1 /\ NumberOf(r, x.data) \in 0 .. e
      <4>1. i \in 1 .. Count(r) + 1 /\ i \in 0 .. e /\ e >= 1
        BY <1>1, <1>2
      <4>2. QED
        BY <2>2, <3>2, <4>1
    <3>3. QED
      BY <1>8, <2>1, <3>1, <3>2 DEF Emitted
  <2>5. NumberOf(r, y.data) \in e + 1 .. f
    <3>1. PICK i \in e + 1 .. f : y.data = Item(r, i)
      BY <1>1, <1>3, <2>4
    <3>2. i \in 1 .. Count(r) + 1
      BY <1>1, <1>2
    <3>3. QED
      BY <2>2, <3>1, <3>2
  <2>6. QED
    BY <1>1, <1>2, <2>4, <2>5
<1>13. Outgoing(r, f)'
  <2>1. ASSUME NEW s \in Procs
        PROVE  /\ InOrder(out_q'[s], CallOrder(r))
               /\ \A c \in Members(out_q'[s]) : c.r = r => Emitted(r, f, s, c.data)'
    <3>1. InOrder(out_q[s], CallOrder(r)) /\ \A c \in Members(out_q[s]) : c.r = r => Emitted(r, e, s, c.data)
      BY DEF Outgoing
    <3>2. CASE s = p
      <4>1. InOrder(out_q[p] \o calls, CallOrder(r))
        BY <1>6, <1>12, <3>1, <3>2, OrderJoined
      <4>2. QED
        BY <1>5, <1>7, <1>10, <1>11, <3>1, <3>2, <4>1
    <3>3. CASE s # p
      BY <1>5, <1>10, <3>1, <3>3
    <3>4. QED
      BY <3>2, <3>3
  <2>2. ASSUME NEW i \in d + 1 .. f
        PROVE  Call(r, Item(r, i)) \in Members(out_q'[Route(Where, r, i)])
    <3>1. Route(Where, r, i) \in Procs
      BY <1>1, RouteFacts
    <3>2. CASE i <= e
      <4>1. i \in d + 1 .. e
        BY <1>1, <1>2, <3>2
      <4>2. Call(r, Item(r, i)) \in Members(out_q[Route(Where, r, i)])
        BY <1>8, <4>1 DEF Outgoing
      <4>3. QED
        BY <1>7, <3>1, <4>2
    <3>3. CASE ~ (i <= e)
      <4>1. i \in e + 1 .. f
        BY <1>1, <1>2, <3>3
      <4>2. QED
        BY <1>2, <1>3, <1>7, <3>1, <4>1
    <3>4. QED
      BY <3>2, <3>3
  <2>3. QED
    BY <1>1, <1>8, <2>1, <2>2 DEF Outgoing
<1>14. QED
  BY <1>4, <1>5, <1>6, <1>9, <1>13 DEF f

-----------------------------------------------------------------------------
(* What it emits reaches the sink or the queue behind it. *)
LEMMA OwnEmits ==
  ASSUME Typed, NEW r \in Regular, NEW e, Flow(r, e), NEW p \in Procs, NEW l \in Lanes,
         Postprocess(p, l), Head(Hand(lane[p][l])) = Job(r, e + 1),
         e + 1 \in 1 .. Count(r), e + 1 <= handed[r], Route(Where, r, e + 1) = p,
         ~ voc[p][r].finished, e + 1 # 1 => voc[p][r].tail = e
  PROVE  /\ Counts(r, After(r, e + 1))' /\ Outgoing(r, After(r, e + 1))'
         /\ Len(delivered[r]) <= Len(delivered'[r])
         /\ \A s \in Procs : \A c \in Members(out_q[s]) : c \in Members(out_q'[s])
         /\ e = 0 /\ Count(r) > 1 /\ Where # "in_process" => Call(r, Note) \in Members(out_q'[p])
<1> DEFINE k == e + 1
           f == After(r, k)
           calls == Noted(Job(r, k)) \o Audio(p, Job(r, k)) \o Ended(p, Job(r, k))
<1>1. /\ r \in Requests /\ e \in Nat /\ Count(r) \in Nat \ {0} /\ Len(delivered[r]) \in Nat
      /\ Counts(r, e) /\ Outgoing(r, e) /\ Where' = Where
      /\ deployment' = deployment /\ handed' = handed
  <2>1. deployment' = deployment /\ handed' = handed /\ Where' = Where
    BY DEF Postprocess, Where
  <2>2. Counts(r, e) /\ Outgoing(r, e) /\ r \in Requests /\ Count(r) \in Nat \ {0}
    BY RegularFacts DEF Flow
  <2>3. QED
    BY <2>1, <2>2, LenProperties DEF Counts, Typed
<1>2. Emit(p, calls)
  BY PostprocessFacts
<1>3. k - 1 = e
  BY <1>1
<1>4. /\ calls \in Seq(Calls) /\ InOrder(calls, CallOrder(r))
      /\ \A c \in Members(calls) :
           /\ c.r = r
           /\ \/ c.data = Note /\ k = 1 /\ Where # "in_process"
              \/ \E i \in k .. After(r, k) : c.data = Item(r, i)
      /\ \A i \in k .. After(r, k) : Call(r, Item(r, i)) \in Members(calls)
      /\ k = 1 /\ Count(r) > 1 /\ Where # "in_process" => Call(r, Note) \in Members(calls)
      /\ Where = "in_process" =>
           /\ Len(calls) = After(r, k) - (k - 1)
           /\ \A i \in 1 .. Len(calls) : calls[i].data = Item(r, k - 1 + i)
  <2>1. k \in 1 .. Count(r) /\ (k # 1 => voc[p][r].tail = k - 1)
    BY <1>3
  <2> HIDE DEF k
  <2>2. QED
    BY <2>1, OwnCalls
<1> HIDE DEF calls, k
<1>5. k \in 1 .. Count(r) /\ k = e + 1 /\ k <= handed[r] /\ Route(Where, r, k) = p
  BY DEF k
<1>6. CASE Where = "in_process"
  <2>1. /\ Len(calls) = After(r, k) - (k - 1)
        /\ \A i \in 1 .. Len(calls) : calls[i].data = Item(r, k - 1 + i)
        /\ \A c \in Members(calls) : c.r = r
    BY <1>4, <1>6
  <2>2. Counts(r, After(r, k))' /\ Outgoing(r, After(r, k))' /\ out_q' = out_q
    BY <1>1, <1>2, <1>4, <1>5, <1>6, <2>1, OwnDelivered
  <2>3. Len(delivered[r]) <= Len(delivered'[r])
    BY <1>1, <1>2, <1>4, EmitFacts
  <2>4. QED
    BY <1>6, <2>2, <2>3 DEF k
<1>7. CASE Where # "in_process"
  <2>1. ElementsOf(r, k, calls)
    BY <1>4 DEF ElementsOf
  <2>2. /\ Counts(r, After(r, k))' /\ Outgoing(r, After(r, k))'
        /\ delivered' = delivered
        /\ Members(out_q'[p]) = Members(out_q[p]) \cup Members(calls)
        /\ \A s \in Procs : s # p => out_q'[s] = out_q[s]
    <3>1. calls \in Seq(Calls) /\ InOrder(calls, CallOrder(r))
      BY <1>4
    <3>2. Counts(r, e) /\ Outgoing(r, e) /\ deployment' = deployment /\ handed' = handed
      BY <1>1
    <3> HIDE DEF k
    <3>3. QED
      BY ONLY Typed, r \in Regular, p \in Procs, <1>2, <1>5, <1>7, <2>1, <3>1, <3>2, OwnQueued
  <2>3. e = 0 /\ Count(r) > 1 => Call(r, Note) \in Members(calls)
    BY <1>1, <1>4, <1>5, <1>7
  <2>4. Len(delivered[r]) <= Len(delivered'[r])
    BY <1>1, <2>2
  <2>5. QED
    BY <2>2, <2>3, <2>4 DEF k
<1>8. QED
  BY <1>6, <1>7

(* The next chunk is emitted. *)
LEMMA PostprocessOwn ==
  ASSUME Typed, NEW r \in Regular, NEW e, Flow(r, e), NEW p \in Procs, NEW l \in Lanes,
         Postprocess(p, l), Head(Hand(lane[p][l])).r = r
  PROVE  After(r, e + 1) \in 0 .. Count(r) + 1 /\ Flow(r, After(r, e + 1))'
<1> DEFINE f == After(r, e + 1)
           j == Head(Hand(lane[p][l]))
<1>1. /\ deployment' = deployment /\ handed' = handed /\ q_first' = q_first
      /\ q_topup' = q_topup /\ q' = q /\ pending' = pending /\ sent_tail' = sent_tail
      /\ parent' = parent /\ registered' = registered /\ in_q' = in_q /\ Where' = Where
  BY DEF Postprocess, clientVars, Where
<1>2. /\ r \in Requests /\ Count(r) \in Nat \ {0}
      /\ Counts(r, e) /\ OnTheWay(r, e) /\ Blended(r, e)
      /\ KeptPlaced(r) /\ QueuesPlaced(r) /\ PipesPlaced(r)
      /\ Listening(r) /\ FirstHeard(r, e) /\ TailSent(r)
  BY RegularFacts DEF Flow
<1>3. /\ e \in Nat /\ handed[r] \in 0 .. Count(r) /\ Len(delivered[r]) \in Nat
  BY <1>2, LenProperties DEF Counts, Typed
<1>4. /\ j = Job(r, e + 1) /\ e + 1 \in 1 .. Count(r) /\ e + 1 <= handed[r]
      /\ Route(Where, r, e + 1) = p /\ LanesPlaced(r)'
      /\ HandOf(r)' = HandOf(r) \ {e + 1} /\ e + 1 \in HandOf(r)
  BY LeastInHand
<1> HIDE DEF j
<1>5. /\ f \in 1 .. Count(r) + 1 /\ f # Count(r) /\ e + 1 <= f /\ e <= f
      /\ e + 1 # Count(r) => f = e + 1
      /\ e + 1 = Count(r) => f = e + 2 /\ f = Count(r) + 1
  BY <1>2, <1>3, <1>4, AfterFacts
<1>6. ~ voc[p][r].finished
  <2>1. voc[p][r].finished => e = Count(r) + 1
    BY <1>2 DEF Blended
  <2>2. QED
    BY <1>2, <1>3, <1>4, <2>1
<1>7. /\ e + 1 # 1 => voc[p][r].tail = e /\ p = "remote" /\ voc["remote"][r].audio
      /\ voc["remote"][r].audio => e >= 1
  <2>1. voc["remote"][r].audio => e >= 1 /\ (e < Count(r) => voc["remote"][r].tail = e)
    BY <1>2 DEF Blended
  <2>2. e + 1 # 1 => voc["remote"][r].audio
    BY <1>2, <1>4 DEF Blended
  <2>3. e + 1 # 1 => p = "remote"
    <3>1. e + 1 # 1 => e + 1 \in 2 .. Count(r)
      BY <1>3, <1>4
    <3>2. QED
      BY <1>2, <1>4, <3>1, RouteFacts
  <2>4. e < Count(r)
    BY <1>2, <1>3, <1>4
  <2>5. QED
    BY <2>1, <2>2, <2>3, <2>4
<1> HIDE DEF f
<1>8. /\ Counts(r, f)' /\ Outgoing(r, f)'
      /\ Len(delivered[r]) <= Len(delivered'[r])
      /\ \A s \in Procs : \A c \in Members(out_q[s]) : c \in Members(out_q'[s])
      /\ e = 0 /\ Count(r) > 1 /\ Where # "in_process" => Call(r, Note) \in Members(out_q'[p])
  BY <1>4, <1>6, <1>7, OwnEmits DEF f, j
<1>9. /\ j.r = r /\ ChunkOf(j).final <=> e + 1 = Count(r)
  BY <1>4, RegularFacts DEF Job
<1>10. /\ \A s \in Procs : s # p => voc'[s][r] = voc[s][r]
       /\ voc'[p][r].audio
       /\ e + 1 # Count(r) => voc'[p][r].tail = e + 1
       /\ voc'[p][r].finished => e + 1 = Count(r)
  <2>1. /\ \A s \in Procs, x \in Requests : s # p \/ x # j.r => voc'[s][x] = voc[s][x]
        /\ voc'[p][j.r].audio
        /\ voc'[p][j.r].tail = IF ChunkOf(j).final THEN NoTail ELSE j.k
        /\ voc'[p][j.r].finished => voc[p][j.r].finished \/ ChunkOf(j).final
    BY PostprocessFacts DEF j
  <2>2. j.k = e + 1 /\ j.r = r
    BY <1>4 DEF Job
  <2>3. QED
    BY <1>2, <1>6, <1>9, <2>1, <2>2
<1>11. /\ KeptPlaced(r)' /\ KeptOf(r)' = KeptOf(r) /\ PipesPlaced(r)' /\ PipeOf(r)' = PipeOf(r)
       /\ QueuesPlaced(r)' /\ QueueOf(r)' = QueueOf(r)
  BY <1>1, <1>2, SameKept, SamePipes, SameQueues
<1>12. OnTheWay(r, f)'
  <2>1. Path(HandOf(r), QueueOf(r), PipeOf(r), KeptOf(r), e, handed[r])
    BY <1>2 DEF OnTheWay
  <2>2. f \in Nat /\ handed[r] \in Nat /\ (f = e + 1 \/ (f = e + 2 /\ handed[r] = e + 1))
    BY <1>2, <1>3, <1>4, <1>5
  <2>3. Path(HandOf(r) \ {e + 1}, QueueOf(r), PipeOf(r), KeptOf(r), f, handed[r])
    BY <1>3, <1>4, <2>1, <2>2, PathEmits
  <2>4. QED
    BY <1>1, <1>4, <1>11, <2>3 DEF OnTheWay
<1>13. Blended(r, f)'
  <2>1. \A s \in Procs : voc'[s][r].finished => f = Count(r) + 1
    <3>1. \A s \in Procs : voc[s][r].finished => e = Count(r) + 1
      BY <1>2 DEF Blended
    <3>2. e # Count(r) + 1
      BY <1>2, <1>3, <1>4
    <3>3. QED
      BY <1>5, <1>10, <3>1, <3>2
  <2>2. voc'["remote"][r].audio => f >= 1 /\ (f < Count(r) => voc'["remote"][r].tail = f)
    <3>1. CASE p = "remote"
      <4>1. f < Count(r) => e + 1 # Count(r) /\ f = e + 1
        BY <1>2, <1>5
      <4>2. QED
        BY <1>2, <1>5, <1>10, <3>1, <4>1
    <3>2. CASE p # "remote"
      <4>1. voc'["remote"][r] = voc["remote"][r]
        BY <1>10, <3>2 DEF Procs
      <4>2. ~ voc["remote"][r].audio
        BY <1>3, <1>7, <3>2
      <4>3. QED
        BY <4>1, <4>2
    <3>3. QED
      BY <3>1, <3>2
  <2>3. \A k \in HandOf(r)' : k # 1 => voc'["remote"][r].audio
    <3>1. \A k \in HandOf(r) : k # 1 => voc["remote"][r].audio
      BY <1>2 DEF Blended
    <3>2. voc["remote"][r].audio => voc'["remote"][r].audio
      <4>1. CASE p = "remote"
        BY <1>10, <4>1
      <4>2. CASE p # "remote"
        BY <1>10, <4>2 DEF Procs
      <4>3. QED
        BY <4>1, <4>2
    <3>3. QED
      BY <1>4, <3>1, <3>2
  <2>4. QED
    BY <2>1, <2>2, <2>3 DEF Blended
<1>14. Len(delivered'[r]) \in Nat
  <2>1. delivered' \in [Requests -> Seq(Data)]
    BY PostprocessFacts DEF Typed
  <2>2. QED
    BY <1>2, <2>1, LenProperties
<1>15. Listening(r)'
  <2>1. Len(delivered'[r]) <= Count(r) => Len(delivered[r]) <= Count(r)
    BY <1>2, <1>3, <1>8, <1>14
  <2>2. QED
    BY <1>1, <1>2, <1>11, <2>1 DEF Listening
<1>16. FirstHeard(r, f)'
  <2>1. Len(delivered[r]) >= 1 => Len(delivered'[r]) >= 1
    BY <1>3, <1>8, <1>14
  <2>2. Where = "split" /\ Count(r) > 1 =>
          parent[r].tail = 1 \/ Call(r, Note) \in Members(out_q'["first"])
    <3>1. CASE e >= 1
      BY <1>2, <1>8, <3>1 DEF FirstHeard, Procs
    <3>2. CASE e = 0
      <4>1. Where = "split" => p = "first"
        BY <1>4, <3>2 DEF Route
      <4>2. Where = "split" => Where # "in_process"
        OBVIOUS
      <4>3. QED
        BY <1>8, <3>2, <4>1, <4>2
    <3>3. QED
      BY <1>3, <3>1, <3>2
  <2>3. QED
    BY <1>1, <1>2, <1>11, <2>1, <2>2 DEF FirstHeard
<1>17. TailSent(r)'
  BY <1>1, <1>2, <1>11 DEF TailSent
<1>18. Flow(r, f)'
  BY <1>4, <1>8, <1>11, <1>12, <1>13, <1>15, <1>16, <1>17 DEF Flow
<1>19. f \in 0 .. Count(r) + 1
  BY <1>2, <1>5
<1>20. QED
  BY <1>18, <1>19 DEF f

-----------------------------------------------------------------------------
(* Every step *)

(* Nothing is anywhere at first. *)
LEMMA InitFlows == Init => Flows
<1> SUFFICES ASSUME Init, NEW r \in Regular PROVE Flow(r, 0)
  <2>1. \A r \in Regular : 0 \in 0 .. Count(r) + 1
    BY RegularFacts
  <2>2. QED
    BY <2>1 DEF Flows
<1>1. r \in Requests /\ Count(r) \in Nat \ {0}
  BY RegularFacts
<1>2. /\ handed[r] = 0 /\ delivered[r] = <<>> /\ parent[r].audio = FALSE
      /\ pending = <<>> /\ r \notin sent_tail
      /\ \A p \in Procs :
           /\ q_first[p] = <<>> /\ q_topup[p] = <<>> /\ q[p] = <<>>
           /\ in_q[p] = <<>> /\ out_q[p] = <<>>
           /\ voc[p][r].audio = FALSE /\ voc[p][r].finished = FALSE
           /\ \A l \in Lanes : Hand(lane[p][l]) = <<>>
  BY <1>1, LaneFacts DEF Init, Unknown
<1>3. \A k : Route(Where, r, k) \in Procs /\ LaneOf(k) \in Lanes
  BY <1>1, RouteFacts
<1>4. /\ Members(<<>>) = {} /\ Len(<<>>) = 0
      /\ \A R : InOrder(<<>>, R)
  BY EmptyFacts, OrderEmpty
<1>5. /\ HandOf(r) = {} /\ QueueOf(r) = {} /\ PipeOf(r) = {} /\ KeptOf(r) = {}
  BY <1>2, <1>3, <1>4 DEF HandOf, QueueOf, PipeOf, KeptOf
<1>6. Counts(r, 0)
  BY <1>1, <1>2, <1>4 DEF Counts
<1>7. OnTheWay(r, 0)
  <2>1. 0 + 1 .. 0 = {}
    OBVIOUS
  <2>2. QED
    BY <1>2, <1>5, <2>1 DEF OnTheWay, Path
<1>8. KeptPlaced(r) /\ QueuesPlaced(r) /\ LanesPlaced(r) /\ PipesPlaced(r)
  <2>1. \A K : Lined(<<>>, r, K)
    BY <1>4 DEF Lined
  <2>2. KeptPlaced(r) /\ QueuesPlaced(r) /\ LanesPlaced(r)
    BY <1>2, <2>1 DEF KeptPlaced, QueuesPlaced, LanesPlaced
  <2>3. PipesPlaced(r)
    BY <1>2, <1>4 DEF PipesPlaced
  <2>4. QED
    BY <2>2, <2>3
<1>9. Outgoing(r, 0)
  <2>1. \A i \in Len(delivered[r]) + 1 .. 0 : FALSE
    BY <1>2, <1>4
  <2>2. QED
    BY <1>2, <1>4, <2>1 DEF Outgoing
<1>10. Blended(r, 0)
  BY <1>2, <1>5 DEF Blended, Procs
<1>11. Listening(r)
  BY <1>2 DEF Listening
<1>12. FirstHeard(r, 0)
  BY <1>2 DEF FirstHeard
<1>13. TailSent(r)
  BY <1>2 DEF TailSent
<1>14. QED
  BY <1>6, <1>7, <1>8, <1>9, <1>10, <1>11, <1>12, <1>13 DEF Flow

(* Every step keeps a request on its way. *)
LEMMA NextFlow ==
  ASSUME Typed, NEW r \in Regular, NEW e \in 0 .. Count(r) + 1, Flow(r, e), [Next]_vars
  PROVE  \E f \in 0 .. Count(r) + 1 : Flow(r, f)'
<1>1. ASSUME NEW x \in Requests, HandOver(x) PROVE Flow(r, e)'
  <2>1. CASE x = r
    BY <1>1, <2>1, HandOverOwn
  <2>2. CASE x # r
    BY <1>1, <2>2, HandOverOther
  <2>3. QED
    BY <2>1, <2>2
<1>2. CASE Flush
  <2>1. CASE \A j \in Members(Ready) : j.r # r
    BY <1>2, <2>1, FlushOther
  <2>2. ASSUME NEW j \in Members(Ready), j.r = r PROVE Flow(r, e)'
    BY <1>2, <2>2, FlushOwn
  <2>3. QED
    BY <2>1, <2>2
<1>3. ASSUME NEW p \in Procs, Pump(p) PROVE Flow(r, e)'
  BY <1>3, PumpOther, PumpOwn
<1>4. ASSUME NEW p \in Procs, Read(p) PROVE Flow(r, e)'
  BY <1>4, ReadOther, ReadNote, ReadOwn
<1>5. ASSUME NEW p \in Procs, Sweep(p) PROVE Flow(r, e)'
  BY <1>5, SweepFlow
<1>6. ASSUME NEW p \in Procs, TakeFirst(p) PROVE Flow(r, e)'
  BY <1>6, TakeFirstFlow
<1>7. ASSUME NEW p \in Procs, TakeBulk(p) PROVE Flow(r, e)'
  BY <1>7, TakeBulkFlow
<1>8. ASSUME NEW p \in Procs, NEW l \in Lanes, ProcessStart(p, l) PROVE Flow(r, e)'
  BY <1>8, ProcessStartFlow
<1>9. ASSUME NEW p \in Procs, NEW l \in Lanes, Postprocess(p, l)
      PROVE  \E f \in 0 .. Count(r) + 1 : Flow(r, f)'
  BY <1>9, PostprocessOther, PostprocessOwn
<1>10. ASSUME NEW p \in Procs, NEW l \in Lanes, BatchFails(p, l) PROVE Flow(r, e)'
  BY <1>10, BatchFailsFlow
<1>11. CASE UNCHANGED vars
  <2>1. /\ deployment' = deployment /\ handed' = handed /\ q_first' = q_first
        /\ q_topup' = q_topup /\ q' = q /\ lane' = lane /\ voc' = voc
        /\ delivered' = delivered /\ pending' = pending /\ sent_tail' = sent_tail
        /\ parent' = parent /\ registered' = registered /\ in_q' = in_q /\ out_q' = out_q
    BY <1>11 DEF vars, localVars, clientVars
  <2>2. Flow(r, e)'
    BY <2>1 DEF Flow, Counts, OnTheWay, KeptPlaced, QueuesPlaced, LanesPlaced, PipesPlaced,
                Outgoing, Emitted, Blended, Listening, FirstHeard, TailSent, HandOf, QueueOf,
                PipeOf, KeptOf, Where
  <2>3. QED
    BY <2>2
<1>12. QED
  BY <1>1, <1>2, <1>3, <1>4, <1>5, <1>6, <1>7, <1>8, <1>9, <1>10, <1>11
     DEF Next, LaneStep

(* The way of every regular request is kept. *)
LEMMA NextVInv ==
  ASSUME VInv, [Next]_vars
  PROVE  VInv' /\ Regular' = Regular
<1>1. Typed' /\ deployment' = deployment
  BY NextTyped DEF VInv
<1>2. Regular' = Regular
  BY <1>1 DEF Regular, Unordered, IsTopup, Where
<1>3. ASSUME NEW r \in Regular PROVE \E f \in 0 .. Count(r) + 1 : Flow(r, f)'
  <2>1. PICK e \in 0 .. Count(r) + 1 : Flow(r, e)
    BY DEF VInv, Flows
  <2>2. QED
    BY <2>1, NextFlow DEF VInv
<1>4. Flows'
  BY <1>2, <1>3 DEF Flows
<1>5. QED
  BY <1>1, <1>2, <1>4 DEF VInv

(* The invariant holds always. *)
LEMMA VocoderAlways == Spec => []VInv
<1>1. Init => VInv
  BY InitTyped, InitFlows DEF VInv
<1>2. VInv /\ [Next]_vars => VInv'
  BY NextVInv
<1>3. QED
  BY <1>1, <1>2, PTL DEF Spec

-----------------------------------------------------------------------------
(* What follows *)

(* A closed stream has been emitted to its end, and nothing is on the way. *)
LEMMA ClosedIsEmpty ==
  ASSUME Typed, NEW r \in Regular, NEW e, Flow(r, e), Closed(r)
  PROVE  /\ HandOf(r) = {} /\ QueueOf(r) = {} /\ PipeOf(r) = {} /\ KeptOf(r) = {}
         /\ handed[r] = Count(r)
<1>1. /\ r \in Requests /\ Count(r) \in Nat \ {0} /\ Counts(r, e) /\ OnTheWay(r, e)
      /\ delivered[r] \in Seq(Data)
  BY RegularFacts DEF Flow, Typed
<1>2. e = Count(r) + 1
  <2>1. Len(delivered[r]) \in Nat /\ DOMAIN delivered[r] = 1 .. Len(delivered[r])
    BY <1>1, LenProperties
  <2>2. PICK i \in 1 .. Len(delivered[r]) : delivered[r][i] = Close
    BY <2>1 DEF Closed, Members
  <2>3. Item(r, i) = Close /\ e \in 0 .. Count(r) + 1 /\ Len(delivered[r]) <= e
    BY <1>1, <2>2 DEF Counts
  <2>4. i \in 1 .. Count(r) + 1
    BY <1>1, <2>1, <2>3
  <2>5. i = Count(r) + 1
    BY <1>1, <2>3, <2>4, ItemFacts
  <2>6. QED
    BY <1>1, <2>1, <2>3, <2>5
<1>3. handed[r] = Count(r)
  BY <1>1, <1>2 DEF Counts
<1>4. e + 1 .. handed[r] = {}
  BY <1>1, <1>2, <1>3
<1>5. QED
  BY <1>1, <1>3, <1>4 DEF OnTheWay, Path

(* When a stream that keeps an order has been closed, no queue, no lane, no
   subprocess and not SplitVoc holds a chunk of it, and SplitVoc has forgotten
   that it sent its tail (_pending and _sent_tail of server/voc_client.py). *)
THEOREM NothingIsLeftBehind == Spec => []NothingLeftBehind
<1>1. VInv => NothingLeftBehind
  <2> SUFFICES ASSUME VInv, NEW r \in Regular, Closed(r)
               PROVE  r \notin sent_tail /\ \A j \in JobsOf(r) : ~ IsSomewhere(j)
    BY DEF NothingLeftBehind
  <2>1. PICK e \in 0 .. Count(r) + 1 : Flow(r, e)
    BY DEF VInv, Flows
  <2>2. /\ r \in Requests /\ Typed /\ QueuesPlaced(r) /\ LanesPlaced(r)
        /\ PipesPlaced(r) /\ KeptPlaced(r) /\ TailSent(r)
    BY <2>1, RegularFacts DEF Flow, VInv
  <2>3. /\ HandOf(r) = {} /\ QueueOf(r) = {} /\ PipeOf(r) = {} /\ KeptOf(r) = {}
        /\ handed[r] = Count(r)
    BY <2>1, <2>2, ClosedIsEmpty
  <2>4. r \notin sent_tail
    BY <2>2, <2>3 DEF TailSent
  <2>5. ASSUME NEW j \in JobsOf(r) PROVE ~ IsSomewhere(j)
    <3>1. j.r = r
      BY DEF JobsOf
    <3>2. \A s \in Procs : /\ j \notin Members(q_first[s]) /\ j \notin Members(q[s])
                           /\ j \notin Members(q_topup[s])
      BY <2>2, <2>3, <3>1, InPlace
    <3>3. \A s \in Procs, l \in Lanes : j \notin Members(Hand(lane[s][l]))
      BY <2>2, <2>3, <3>1, InPlace
    <3>4. \A s \in Procs : \A m \in Members(in_q[s]) : m.job # j
      BY <2>2, <2>3, <3>1, InPlace
    <3>5. j \notin Members(pending)
      BY <2>2, <2>3, <3>1, InPlace
    <3>6. QED
      BY <3>2, <3>3, <3>4, <3>5 DEF IsSomewhere
  <2>6. QED
    BY <2>4, <2>5
<1>2. QED
  BY <1>1, VocoderAlways, PTL

(* No step takes back what was delivered. *)
LEMMA NextDelivers ==
  ASSUME Typed, [Next]_vars, NEW r \in Requests
  PROVE  Len(delivered[r]) <= Len(delivered'[r])
<1>1. Len(delivered[r]) \in Nat /\ delivered[r] \in Seq(Data)
  BY LenProperties DEF Typed
<1>2. ASSUME NEW p \in Procs, NEW calls \in Seq(Calls), Emit(p, calls)
      PROVE  Len(delivered[r]) <= Len(delivered'[r])
  BY <1>2, EmitFacts
<1>3. ASSUME NEW p \in Procs, Read(p) PROVE Len(delivered[r]) <= Len(delivered'[r])
  <2>1. /\ Head(out_q[p]).data \in Data
        /\ \/ delivered'[r] = Append(delivered[r], Head(out_q[p]).data)
           \/ delivered'[r] = delivered[r]
    BY <1>3, ReadFacts
  <2>2. ASSUME NEW d \in Data PROVE Len(Append(delivered[r], d)) = Len(delivered[r]) + 1
    BY <1>1, AppendProperties
  <2>3. QED
    BY <1>1, <2>1, <2>2
<1>4. ASSUME NEW p \in Procs, NEW l \in Lanes, ProcessStart(p, l)
      PROVE  Len(delivered[r]) <= Len(delivered'[r])
  BY <1>2, <1>4, ProcessStartFacts
<1>5. ASSUME NEW p \in Procs, NEW l \in Lanes, Postprocess(p, l)
      PROVE  Len(delivered[r]) <= Len(delivered'[r])
  <2> DEFINE j == Head(Hand(lane[p][l]))
             a == Noted(j)
             b == Audio(p, j)
             c == Ended(p, j)
  <2>1. Emit(p, a \o b \o c) /\ a \in Seq(Calls) /\ b \in Seq(Calls) /\ c \in Seq(Calls)
    BY <1>5, PostprocessFacts
  <2> HIDE DEF a, b, c
  <2>2. a \o b \o c \in Seq(Calls)
    BY <2>1, ConcatProperties
  <2>3. QED
    BY <1>2, <2>1, <2>2
<1>6. ASSUME NEW p \in Procs, NEW l \in Lanes, BatchFails(p, l)
      PROVE  Len(delivered[r]) <= Len(delivered'[r])
  BY <1>2, <1>6, BatchFailsFacts
<1>7. ASSUME delivered' = delivered PROVE Len(delivered[r]) <= Len(delivered'[r])
  BY <1>1, <1>7
<1>8. CASE \E x \in Requests : HandOver(x)
  BY <1>7, <1>8 DEF HandOver
<1>9. CASE Flush
  BY <1>7, <1>9 DEF Flush
<1>10. ASSUME NEW p \in Procs, Pump(p) \/ Sweep(p) \/ TakeFirst(p) \/ TakeBulk(p)
       PROVE  Len(delivered[r]) <= Len(delivered'[r])
  BY <1>7, <1>10 DEF Pump, Sweep, TakeFirst, TakeBulk
<1>11. CASE UNCHANGED vars
  BY <1>7, <1>11 DEF vars
<1>12. QED
  BY <1>3, <1>4, <1>5, <1>6, <1>8, <1>9, <1>10, <1>11 DEF Next, LaneStep

(* What a request on its way has been delivered is well formed, and grows. *)
LEMMA DeliveredFacts ==
  ASSUME NEW r \in Requests, NEW s \in Seq(Data), NEW t \in Seq(Data),
         Len(s) <= Len(t), Len(t) <= Count(r) + 1,
         \A i \in 1 .. Len(s) : s[i] = Item(r, i), \A i \in 1 .. Len(t) : t[i] = Item(r, i)
  PROVE  Promise!WellFormed(t) /\ Promise!Extends(s, t)
<1>1. /\ Len(s) \in Nat /\ Len(t) \in Nat /\ DOMAIN t = 1 .. Len(t)
      /\ Count(r) \in Nat \ {0}
  BY LenProperties, JobFacts
<1>2. Promise!WellFormed(t)
  <2> SUFFICES ASSUME NEW i \in 1 .. Len(t)
               PROVE  IF t[i] = Close THEN i = Len(t) ELSE t[i] = [chunk |-> i, tail |-> i - 1]
    BY <1>1 DEF Promise!WellFormed
  <2>1. i \in 1 .. Count(r) + 1 /\ t[i] = Item(r, i)
    BY <1>1
  <2>2. CASE t[i] = Close
    <3>1. i = Count(r) + 1
      BY <2>1, <2>2, ItemFacts
    <3>2. QED
      BY <1>1, <2>2, <3>1
  <2>3. CASE t[i] # Close
    BY <2>1, <2>3 DEF Item
  <2>4. QED
    BY <2>2, <2>3
<1>3. Promise!Extends(s, t)
  <2> DEFINE v == SubSeq(t, 1, Len(s))
  <2>1. v \in Seq(Data) /\ Len(v) = Len(s) /\ \A i \in 1 .. Len(s) : v[i] = t[i]
    BY <1>1
  <2> HIDE DEF v
  <2>2. \A i \in 1 .. Len(s) : v[i] = s[i]
    BY <1>1, <2>1
  <2>3. v = s
    BY <2>1, <2>2, SeqEqual
  <2>4. QED
    BY <2>3 DEF Promise!Extends, v
<1>4. QED
  BY <1>2, <1>3

\* What is shown of the sinks: those of requests that keep an order.
Shown == [r \in Requests |-> IF r \in Regular THEN delivered[r] ELSE <<>>]

(* Every step is a step of AudioStream or shows nothing. *)
LEMMA StepShown ==
  ASSUME VInv, VInv', [Next]_vars
  PROVE  [Promise!Next]_Shown
<1>1. Regular' = Regular
  BY NextVInv
<1>2. ASSUME NEW r \in Requests
      PROVE  Promise!Extends(Shown[r], Shown'[r]) /\ Promise!WellFormed(Shown'[r])
  <2>1. CASE r \in Regular
    <3>1. Shown[r] = delivered[r] /\ Shown'[r] = delivered'[r]
      BY <1>1, <2>1 DEF Shown
    <3>2. PICK e \in 0 .. Count(r) + 1 : Flow(r, e)
      BY <2>1 DEF VInv, Flows
    <3>3. PICK f \in 0 .. Count(r) + 1 : Flow(r, f)'
      BY <1>1, <2>1 DEF VInv, Flows
    <3>4. /\ delivered[r] \in Seq(Data) /\ delivered'[r] \in Seq(Data)
          /\ Len(delivered[r]) <= Len(delivered'[r])
      BY NextDelivers DEF VInv, Typed
    <3>5. \A i \in 1 .. Len(delivered[r]) : delivered[r][i] = Item(r, i)
      BY <3>2 DEF Flow, Counts
    <3>6. Len(delivered'[r]) <= f /\ \A i \in 1 .. Len(delivered'[r]) : delivered'[r][i] = Item(r, i)
      BY <3>3 DEF Flow, Counts
    <3>7. Len(delivered'[r]) <= Count(r) + 1
      BY <3>4, <3>6, LenProperties, JobFacts
    <3>8. QED
      BY <3>1, <3>4, <3>5, <3>6, <3>7, DeliveredFacts
  <2>2. CASE r \notin Regular
    <3>1. Shown[r] = <<>> /\ Shown'[r] = <<>>
      BY <1>1, <2>2 DEF Shown
    <3> DEFINE s == <<>>
    <3>2. s \in Seq(Data) /\ Len(s) = 0 /\ Len(s) <= Len(s) /\ Len(s) <= Count(r) + 1
          /\ \A i \in 1 .. Len(s) : s[i] = Item(r, i)
      BY EmptySeq, JobFacts
    <3>3. Shown[r] = s /\ Shown'[r] = s
      BY <3>1
    <3> HIDE DEF s
    <3>4. Promise!WellFormed(s) /\ Promise!Extends(s, s)
      BY <3>2, DeliveredFacts
    <3>5. QED
      BY <3>3, <3>4
  <2>3. QED
    BY <2>1, <2>2
<1>3. DOMAIN Shown' = Requests
  BY DEF Shown
<1>4. QED
  BY <1>2, <1>3 DEF Promise!Next, Shown

(* The vocoder implements AudioStream, in every deployment: across two lanes,
   two subprocesses and their queues, the sink of a request that keeps an
   order is called with its chunks in order, each once and blended with the
   tail of the one before it, and then with None. *)
THEOREM VocoderDeliversAnAudioStream == Spec => DeliversAnAudioStream
<1>1. Init => Promise!Init
  BY DEF Init, Promise!Init
<1>2. VInv /\ VInv' /\ [Next]_vars => [Promise!Next]_Shown
  BY StepShown
<1>3. QED
  BY <1>1, <1>2, VocoderAlways, PTL DEF Spec, DeliversAnAudioStream, Promise!Spec, Shown
=============================================================================
