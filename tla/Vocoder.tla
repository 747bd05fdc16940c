------------------------------- MODULE Vocoder -------------------------------
(***************************************************************************)
(* The vocoder (server/vocoder.py) in the three deployments of app.build:  *)
(* in the process of the engine; in a subprocess behind VocClient          *)
(* (server/voc_client.py, server/voc_proc.py), fed and read through        *)
(* multiprocessing queues; and behind SplitVoc, with one subprocess for    *)
(* first chunks and one for the rest. In a vocoder, two lanes take jobs:   *)
(* one first chunks and top-ups, the other bulk chunks. Of the subprocesses*)
(* of a pool one is modelled: a request stays with one of them.            *)
(*                                                                         *)
(* An action is a stretch of one thread between two accesses of a lock or  *)
(* of a queue, or a pass on the GPU. What one thread does in a stretch is  *)
(* taken to be over before another thread completes a pass on the GPU: so  *)
(* _postprocess of a job, from the tail to the call of the sink, is one    *)
(* action, and so is the treatment of a message by _read_loop.             *)
(***************************************************************************)
EXTENDS QueueOps

CONSTANTS
  Requests,
  Script,         \* Script[r]: the chunks the engine hands over for r, a
                  \* complete stream of ChunkStream
  Deployments,    \* the deployments to start from: where the vocoder runs,
                  \* and the options of its top-ups
  ChunkFirst, Lookback,
  StreakMax,      \* the 3 of _take_first
  FirstMaxBatch,  \* first_max_batch
  MaxBatch,       \* max_batch
  MayFail,        \* requests whose batches may raise in _process
  Close           \* None, the end of a stream

Procs == {"first", "remote"}
Lanes == {"priority", "bulk"}

ASSUME VocoderAssumption ==
  /\ Deployments \subseteq [where : {"in_process", "pool", "split"},
                            topup_sizes : Seq(Nat \ {0}),
                            chunk_second : Nat, topup_until : Nat]
  /\ \A r \in Requests : Script[r] \in Seq([from : Nat, to : Nat, final : BOOLEAN])
  /\ ChunkFirst \in Nat \ {0} /\ Lookback \in Nat \ {0}
  /\ StreakMax \in Nat \ {0}
  /\ FirstMaxBatch \in Nat \ {0} /\ MaxBatch \in Nat \ {0}
  /\ MayFail \subseteq Requests
  /\ Close \notin [chunk : Nat, tail : Nat]

\* What ChunkStream promises of a stream, and that it is complete.
ASSUME ScriptAssumption ==
  \A r \in Requests :
    LET s == Script[r]
    IN  /\ Len(s) > 0
        /\ \A i \in 1 .. Len(s) :
             /\ s[i].from = (IF i = 1 THEN 0 ELSE s[i - 1].to)
             /\ s[i].to >= s[i].from
             /\ s[i].from = s[i].to => s[i].final
             /\ s[i].final <=> i = Len(s)

VARIABLES
  deployment,  \* which of the deployments runs
  handed,      \* handed[r]: chunks of Script[r] the engine has handed over
  q_first, q_topup, q,  \* the queues of the vocoder in each process; the
               \* top-up queues of all widths as one, in order of arrival
  streak,      \* first_streak, up to StreakMax
  last_width,  \* topup_last_width
  lane,        \* lane[p][l]: the batch a lane has in hand
  voc,         \* voc[p][r]: tail, audio_samples > 0, finished of a request
  delivered,   \* calls of the request's sink
  failed,      \* history: requests of a batch that raised
  pending,     \* SplitVoc._pending
  sent_tail,   \* SplitVoc._sent_tail
  parent,      \* parent[r]: voc_tail and audio_samples > 0 in the engine
  registered,  \* VocClient._reqs of each subprocess's client
  in_q, out_q  \* the queues to and from each subprocess

localVars == <<q_first, q_topup, q, streak, last_width, lane, voc, failed>>
clientVars == <<pending, sent_tail, parent, registered>>
vars == <<deployment, handed, localVars, delivered, clientVars, in_q, out_q>>

-----------------------------------------------------------------------------
(* Jobs *)

JobsOf(r) == {[r |-> r, k |-> k] : k \in DOMAIN Script[r]}
Jobs == UNION {JobsOf(r) : r \in Requests}
ChunkOf(j) == Script[j.r][j.k]
IsEnd(j) == ChunkOf(j).from = ChunkOf(j).to
IsFirst(j) == ~IsEnd(j) /\ ChunkOf(j).from = 0

Where == deployment.where

\* enqueue of Vocoder and of VocClient: the chunks after the first one that
\* go to the priority lane. SplitVoc asks for none.
IsTopup(j) ==
  /\ ~IsFirst(j) /\ ~IsEnd(j) /\ Where # "split"
  /\ IF deployment.topup_sizes # <<>> THEN ChunkOf(j).from = ChunkFirst
     ELSE deployment.chunk_second > 0 /\ ChunkOf(j).from < deployment.topup_until

\* The length of a top-up's window.
Width(j) ==
  LET c == ChunkOf(j)
      lookback == Lookback + c.to - c.from
  IN  IF c.to < lookback THEN c.to ELSE lookback

NoTail == 0
Idle == [stage |-> "idle", jobs |-> <<>>, todo |-> <<>>]
Unknown == [tail |-> NoTail, audio |-> FALSE, finished |-> FALSE]

TypeOK ==
  /\ deployment \in Deployments
  /\ \A r \in Requests : handed[r] \in 0 .. Len(Script[r])
  /\ \A queue \in {q_first, q_topup, q} : queue \in [Procs -> Seq(Jobs)]
  /\ streak \in [Procs -> 0 .. StreakMax]
  /\ last_width \in [Procs -> Int]
  /\ \A p \in Procs, l \in Lanes :
       /\ lane[p][l].stage \in {"idle", "taken", "gpu"}
       /\ lane[p][l].jobs \in Seq(Jobs) /\ lane[p][l].todo \in Seq(Jobs)
       /\ lane[p][l].stage = "idle" <=> lane[p][l].jobs = <<>>
       /\ lane[p][l].stage = "gpu" <=> lane[p][l].todo # <<>>
  /\ voc \in [Procs -> [Requests -> [tail : Nat, audio : BOOLEAN, finished : BOOLEAN]]]
  /\ failed \subseteq Requests /\ sent_tail \subseteq Requests
  /\ pending \in Seq(Jobs)
  /\ parent \in [Requests -> [tail : Nat, audio : BOOLEAN]]
  /\ registered \in [Procs -> SUBSET Requests]

Init ==
  /\ deployment \in Deployments
  /\ handed = [r \in Requests |-> 0]
  /\ q_first = [p \in Procs |-> <<>>]
  /\ q_topup = [p \in Procs |-> <<>>]
  /\ q = [p \in Procs |-> <<>>]
  /\ streak = [p \in Procs |-> 0]
  /\ last_width = [p \in Procs |-> -1]
  /\ lane = [p \in Procs |-> [l \in Lanes |-> Idle]]
  /\ voc = [p \in Procs |-> [r \in Requests |-> Unknown]]
  /\ delivered = [r \in Requests |-> <<>>]
  /\ failed = {}
  /\ pending = <<>> /\ sent_tail = {}
  /\ parent = [r \in Requests |-> [tail |-> NoTail, audio |-> FALSE]]
  /\ registered = [p \in Procs |-> {}]
  /\ in_q = [p \in Procs |-> <<>>]
  /\ out_q = [p \in Procs |-> <<>>]

-----------------------------------------------------------------------------
(* The producer: the engine thread *)

\* No tail comes with a job, as opposed to an empty one.
Absent == -1
Message(j, tail) == [job |-> j, tail |-> tail]

\* Into the queue of a vocoder that takes jobs like this one.
Enqueue(j, p) ==
  /\ q_first' = IF IsFirst(j) THEN [q_first EXCEPT ![p] = Append(@, j)] ELSE q_first
  /\ q_topup' = IF IsTopup(j) THEN [q_topup EXCEPT ![p] = Append(@, j)] ELSE q_topup
  /\ q' = IF IsFirst(j) \/ IsTopup(j) THEN q ELSE [q EXCEPT ![p] = Append(@, j)]

\* enqueue or finalize_empty, of Vocoder, VocClient or SplitVoc, for the next
\* chunk. SplitVoc keeps all but first chunks and end markers back.
HandOver(r) ==
  LET j == [r |-> r, k |-> handed[r] + 1]
      p == IF Where = "split" /\ IsFirst(j) THEN "first" ELSE "remote"
      kept == Where = "split" /\ ~IsFirst(j) /\ ~IsEnd(j)
  IN  /\ handed[r] < Len(Script[r])
      /\ handed' = [handed EXCEPT ![r] = @ + 1]
      /\ IF Where = "in_process" THEN Enqueue(j, p)
         ELSE UNCHANGED <<q_first, q_topup, q>>
      /\ IF Where = "in_process" \/ kept THEN UNCHANGED <<in_q, registered>>
         ELSE /\ in_q' = [in_q EXCEPT ![p] = Append(@, Message(j, Absent))]
              /\ registered' = [registered EXCEPT ![p] = @ \cup {r}]
      /\ pending' = IF kept THEN Append(pending, j) ELSE pending
      /\ UNCHANGED <<deployment, streak, last_width, lane, voc, delivered, failed,
                     sent_tail, parent, out_q>>

\* Mutant: nothing is forgotten.
SentTailKept(jobs) == sent_tail \cup {j.r : j \in jobs}

\* SplitVoc._sent_tail when jobs have left: a request is forgotten with its
\* last chunk.
SentTail(jobs) ==
  (sent_tail \cup {j.r : j \in jobs}) \ {j.r : j \in {i \in jobs : ChunkOf(i).final}}

\* SplitVoc._flush, by the engine thread or by the flush thread: the jobs
\* whose first chunk has been heard of leave, the first of a request with the
\* tail of that chunk.
Flush ==
  LET ready == Keep(pending, {j \in Members(pending) : parent[j.r].audio})
      is_first(i) ==
        /\ ready[i].r \notin sent_tail
        /\ \A h \in 1 .. i - 1 : ready[h].r # ready[i].r
      sent == [i \in DOMAIN ready |->
                 Message(ready[i],
                         IF is_first(i) THEN parent[ready[i].r].tail ELSE Absent)]
  IN  /\ ready # <<>>
      /\ pending' = Without(pending, Members(ready))
      /\ in_q' = [in_q EXCEPT !["remote"] = @ \o sent]
      /\ registered' = [registered EXCEPT !["remote"] = @ \cup {j.r : j \in Members(ready)}]
      /\ sent_tail' = SentTail(Members(ready))
      /\ UNCHANGED <<deployment, handed, localVars, delivered, parent, out_q>>

\* The pump of a subprocess.
Pump(p) ==
  LET j == Head(in_q[p]).job
      tail == Head(in_q[p]).tail
  IN  /\ in_q[p] # <<>>
      /\ in_q' = [in_q EXCEPT ![p] = Tail(@)]
      /\ voc' = IF tail = Absent THEN voc
                ELSE [voc EXCEPT ![p][j.r].tail = tail, ![p][j.r].audio = TRUE]
      /\ Enqueue(j, p)
      /\ UNCHANGED <<deployment, handed, streak, last_width, lane, delivered,
                     failed, clientVars, out_q>>

-----------------------------------------------------------------------------
(* The lanes *)

\* _take_first: first chunks, but after StreakMax batches of them a batch of
\* top-ups, all of one width, the widths taking turns.
NextWidth(p) ==
  LET widths == {Width(j) : j \in Members(q_topup[p])}
      above == {w \in widths : w > last_width[p]}
      among == IF above = {} THEN widths ELSE above
  IN  CHOOSE w \in among : \A v \in among : w <= v

TakeFirst(p) ==
  LET use_first == q_first[p] # <<>> /\ (q_topup[p] = <<>> \/ streak[p] < StreakMax)
      firsts == FirstThat(q_first[p], LAMBDA j : TRUE, FirstMaxBatch)
      topups == FirstThat(q_topup[p], LAMBDA j : Width(j) = NextWidth(p), FirstMaxBatch)
      jobs == IF use_first THEN firsts ELSE topups
  IN  /\ lane[p]["priority"] = Idle
      /\ jobs # <<>>
      /\ lane' = [lane EXCEPT ![p]["priority"] =
                    [stage |-> "taken", jobs |-> jobs, todo |-> <<>>]]
      /\ q_first' = [q_first EXCEPT ![p] = Without(@, Members(jobs))]
      /\ q_topup' = [q_topup EXCEPT ![p] = Without(@, Members(jobs))]
      /\ streak' = [streak EXCEPT ![p] = IF ~use_first THEN 0
                                         ELSE IF @ < StreakMax THEN @ + 1 ELSE @]
      /\ last_width' = IF use_first THEN last_width
                       ELSE [last_width EXCEPT ![p] = NextWidth(p)]
      /\ UNCHANGED <<deployment, handed, q, voc, delivered, failed, clientVars,
                     in_q, out_q>>

\* Mutant: nothing is held back.
MayGoAlways(j, p) == TRUE

\* _take_bulk: bulk jobs whose request has audio already, and end markers.
MayGo(j, p) == IsEnd(j) \/ voc[p][j.r].audio

TakeBulk(p) ==
  LET jobs == FirstThat(q[p], LAMBDA j : MayGo(j, p), MaxBatch)
  IN  /\ lane[p]["bulk"] = Idle
      /\ jobs # <<>>
      /\ lane' = [lane EXCEPT ![p]["bulk"] =
                    [stage |-> "taken", jobs |-> jobs, todo |-> <<>>]]
      /\ q' = [q EXCEPT ![p] = Without(@, Members(jobs))]
      /\ UNCHANGED <<deployment, handed, q_first, q_topup, streak, last_width, voc,
                     delivered, failed, clientVars, in_q, out_q>>

\* The sinks of process p are called, in this order, with calls: in the
\* engine's process the caller's own, otherwise ones that write to out_q.
DataOf(calls, r) ==
  LET mine == Keep(calls, {c \in Members(calls) : c.r = r})
  IN  [i \in DOMAIN mine |-> mine[i].data]
Deliver(calls) ==
  delivered' = [r \in Requests |-> delivered[r] \o DataOf(calls, r)]
Emit(p, calls) ==
  \/ Where = "in_process" /\ Deliver(calls) /\ UNCHANGED out_q
  \/ /\ Where # "in_process"
     /\ out_q' = [out_q EXCEPT ![p] = @ \o calls]
     /\ UNCHANGED delivered
Call(r, data) == [r |-> r, data |-> data]

\* _process up to the pass on the GPU: end markers close their streams.
ProcessStart(p, l) ==
  LET jobs == lane[p][l].jobs
      real == Keep(jobs, {j \in Members(jobs) : ~IsEnd(j)})
      ends == Keep(jobs, {j \in Members(jobs) : IsEnd(j) /\ ~voc[p][j.r].finished})
  IN  /\ lane[p][l].stage = "taken"
      /\ Emit(p, [i \in DOMAIN ends |-> Call(ends[i].r, Close)])
      /\ voc' = [voc EXCEPT ![p] =
                   [r \in Requests |->
                      [voc[p][r] EXCEPT !.finished = @ \/ \E j \in Members(ends) : j.r = r]]]
      /\ lane' = [lane EXCEPT ![p][l] =
                    IF real = <<>> THEN Idle
                    ELSE [stage |-> "gpu", jobs |-> jobs, todo |-> real]]
      /\ UNCHANGED <<deployment, handed, q_first, q_topup, q, streak, last_width,
                     failed, clientVars, in_q>>

\* Mutant: a lane does not notice that its batch is over.
OneDoneStays(ln) == [ln EXCEPT !.todo = Tail(@)]

\* A lane when the first of its remaining jobs is done.
OneDone(ln) == IF Len(ln.todo) = 1 THEN Idle ELSE [ln EXCEPT !.todo = Tail(@)]

\* _postprocess for the next job of the batch. The last samples are kept as
\* the tail that the next chunk is blended with; a first chunk's tail is also
\* sent to the engine's process.
Postprocess(p, l) ==
  LET j == Head(lane[p][l].todo)
      st == voc[p][j.r]
      tail == IF ChunkOf(j).final THEN NoTail ELSE j.k
      pcm == [chunk |-> j.k, tail |-> IF IsFirst(j) THEN NoTail ELSE st.tail]
      send_tail == IsFirst(j) /\ tail # NoTail /\ Where # "in_process"
  IN  /\ lane[p][l].stage = "gpu"
      /\ voc' = [voc EXCEPT ![p][j.r] =
                   [tail |-> tail, audio |-> TRUE,
                    finished |-> st.finished \/ ChunkOf(j).final]]
      /\ Emit(p, (IF send_tail THEN <<Call(j.r, [chunk |-> 0, tail |-> tail])>> ELSE <<>>)
                 \o <<Call(j.r, pcm)>>
                 \o (IF ChunkOf(j).final /\ ~st.finished
                     THEN <<Call(j.r, Close)>> ELSE <<>>))
      /\ lane' = [lane EXCEPT ![p][l] = OneDone(@)]
      /\ UNCHANGED <<deployment, handed, q_first, q_topup, q, streak, last_width,
                     failed, clientVars, in_q>>

\* Mutant: only last chunks close their streams.
FinalClosedOnFailure(jobs) ==
  LET last == Keep(jobs, {j \in Members(jobs) : ChunkOf(j).final})
  IN  [i \in DOMAIN last |-> Call(last[i].r, Close)]

\* The streams that a lane closes when its batch raises, one per job.
ClosedOnFailure(jobs) == [i \in DOMAIN jobs |-> Call(jobs[i].r, Close)]

\* The pass on the GPU raises.
BatchFails(p, l) ==
  LET jobs == lane[p][l].jobs
      requests == {j.r : j \in Members(jobs)}
  IN  /\ lane[p][l].stage = "gpu"
      /\ requests \subseteq MayFail
      /\ lane[p][l].todo = Keep(jobs, {j \in Members(jobs) : ~IsEnd(j)})
      /\ Emit(p, ClosedOnFailure(jobs))
      /\ failed' = failed \cup requests
      /\ lane' = [lane EXCEPT ![p][l] = Idle]
      /\ UNCHANGED <<deployment, handed, q_first, q_topup, q, streak, last_width,
                     voc, clientVars, in_q>>

-----------------------------------------------------------------------------
\* _read_loop of the client of p: data of a request it does not know, or does
\* not know any more, is dropped.
Read(p) ==
  LET r == Head(out_q[p]).r
      data == Head(out_q[p]).data
      known == r \in registered[p]
      is_tail == data # Close /\ data.chunk = 0
  IN  /\ out_q[p] # <<>>
      /\ out_q' = [out_q EXCEPT ![p] = Tail(@)]
      /\ IF known /\ ~is_tail THEN Deliver(<<Head(out_q[p])>>) ELSE UNCHANGED delivered
      /\ registered' = IF data = Close THEN [registered EXCEPT ![p] = @ \ {r}]
                       ELSE registered
      /\ parent' = IF ~known \/ data = Close THEN parent
                   ELSE IF is_tail THEN [parent EXCEPT ![r].tail = data.tail]
                   ELSE [parent EXCEPT ![r].audio = TRUE]
      /\ UNCHANGED <<deployment, handed, localVars, pending, sent_tail, in_q>>

\* sweep: a subprocess forgets what has finished.
Sweep(p) ==
  /\ Where # "in_process"
  /\ \E r \in Requests : voc[p][r].finished
  /\ voc' = [voc EXCEPT ![p] = [r \in Requests |->
                                  IF voc[p][r].finished THEN Unknown ELSE voc[p][r]]]
  /\ UNCHANGED <<deployment, handed, q_first, q_topup, q, streak, last_width, lane,
                 delivered, failed, clientVars, in_q, out_q>>

LaneStep(p, l) ==
  \/ l = "priority" /\ TakeFirst(p)
  \/ l = "bulk" /\ TakeBulk(p)
  \/ ProcessStart(p, l)
  \/ Postprocess(p, l)

Next ==
  \/ \E r \in Requests : HandOver(r)
  \/ Flush
  \/ \E p \in Procs :
       \/ Pump(p) \/ Read(p) \/ Sweep(p)
       \/ \E l \in Lanes : LaneStep(p, l) \/ BatchFails(p, l)

Spec == Init /\ [][Next]_vars

\* Every thread is scheduled; the engine may stop handing over at any time.
FairSpec ==
  /\ Spec
  /\ WF_vars(Flush)
  /\ \A p \in Procs :
       /\ WF_vars(Pump(p)) /\ WF_vars(Read(p))
       /\ \A l \in Lanes : WF_vars(LaneStep(p, l))

-----------------------------------------------------------------------------
Closed(r) == Close \in Members(delivered[r])

\* Requests with an end marker, which passes queued chunks, or a top-up, which
\* may pass a first chunk and may be passed by a bulk chunk: no order is kept.
Unordered(r) == \E j \in JobsOf(r) : IsEnd(j) \/ IsTopup(j)
Regular == {r \in Requests \ MayFail : ~Unordered(r)}

\* Across two lanes, two processes and four queues, the chunks of a request
\* reach its sink in order, each blended with the tail of the one before it
\* (kept by _postprocess, or carried by SplitVoc from one subprocess to the
\* other), and then the stream is closed, once.
Promise == INSTANCE AudioStream WITH
  delivered <- [r \in Requests |-> IF r \in Regular THEN delivered[r] ELSE <<>>]
DeliversAnAudioStream == Promise!Spec

\* None closes the stream (voc_proc.py): nothing is delivered behind it.
NothingAfterClose ==
  \A r \in Requests \ MayFail :
    \A i \in DOMAIN delivered[r] : delivered[r][i] = Close => i = Len(delivered[r])

\* When a stream has been closed nothing of it is left behind in a queue, a
\* lane, or in what SplitVoc remembers.
Hand(ln) == IF ln.stage = "taken" THEN ln.jobs ELSE ln.todo
IsSomewhere(j) ==
  \/ j \in Members(pending)
  \/ \E p \in Procs :
       \/ j \in Members(q_first[p]) \cup Members(q_topup[p]) \cup Members(q[p])
       \/ \E m \in Members(in_q[p]) : m.job = j
       \/ \E l \in Lanes : j \in Members(Hand(lane[p][l]))
NothingLeftBehind ==
  \A r \in Regular : Closed(r) =>
    r \notin sent_tail /\ \A j \in JobsOf(r) : ~IsSomewhere(j)

\* A stream that the engine has handed over completely is closed in the end,
\* also when its batches fail.
EveryStreamEnds ==
  \A r \in Requests : handed[r] = Len(Script[r]) ~> Closed(r)
=============================================================================
