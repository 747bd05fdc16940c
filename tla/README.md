# A verification project for yapd

yapd serves streaming text-to-speech: a router spreads requests over worker
processes; a worker batches them on the GPU in an engine that decodes speech
tokens (Chatterbox Flash or Turbo, or Kokoro) and a vocoder that turns the
tokens into PCM as they are committed. This directory holds TLA+ models of the
parts that are concurrent or stateful, TLC configurations that check them on
small instances, and TLAPS proofs about them. Paths below are relative to the
repository; `PROJECT.json` gives, for every definition, the lines it models.

## Inventory

| Part | State | Operations | Interacts with | What is hard, and what must hold |
|---|---|---|---|---|
| Router (`server/router.py`) | `active` slots per shard, a condition, the routes each shard serves, the list of stress tasks | `acquire`/`release`, `tts`, `_stress_worker`, `/stress/start`, `/stress/stop`, `refresh_models` | workers over HTTP, clients | cancellation at any await; slots neither leaked nor overcommitted; no lost wakeup; background load leaves room; load can always be stopped |
| Worker front (`server/app.py`, `http_api.py`, `models.py`, `serve.py`) | one queue per response | translate a request, submit it, stream what the sink is called with, 300 s timeout | engine (submit, sink), router | a late answer after the timeout; disconnects do not reach the engine |
| Request queue (`server/scheduler.py`) | a deque, a lock, an event, `closed` | `submit`, `take`, `take_group`, `extend_group`, `wait`, `close` | submitting threads, one engine thread | lost wakeups, lost or duplicated requests, order, compatible batches |
| Engines (`server/engine.py`, `engine_ar.py`) | the active list, per-slot KV rows and counters on the GPU, their mirrors on the host, per-request progress | `_admit`, `tick`, `_push_committed`, `_finish_t3`, `_maybe_vocode`, `_free_slot`, `run` | queue, vocoder, sinks | slot swaps, two copies of each length, ticks that raise, boundaries of the handoff |
| Vocoder (`server/vocoder.py`) | three queues under a lock, crossfade tail and counters per request | `enqueue`, `finalize_empty`, two lanes (`_take_first`, `_take_bulk`, `_process`, `_postprocess`) | engine, sinks | order of a request's chunks across two lanes, failing batches |
| Vocoder clients (`server/voc_client.py`, `voc_proc.py`) | `_reqs`, `_pending`, `_sent_tail`, multiprocessing queues, the subprocess's requests | `enqueue`, `_flush`, `_read_loop`; `pump`, `sweep` | engine thread, subprocesses | the tail of chunk 1 travels from one subprocess through the parent to another |
| Kokoro worker (`server/kokoro_app.py`, `kokoro_batch/`) | a `SchedulerQueue`, requests of several segments, a single-flight cache of prepared texts behind a thread pool | `create_pcm_stream`, `prepare_cached`, `_take_batch`, `run` | clients, GPU | resubmission, cancellation, failing batches, a pool full of calls that wait for each other, eviction racing preparation |
| Flash model and offline engines (`chatterbox_flash/model.py`, `tts.py`, `engines/*.py`) | the rows being decoded, an engine kept from call to call, KV caches per backend, a captured graph and its last plan | `generate`: prefix forward, denoising step, commit; `can_reuse`, `reset`, `capture_graph` | the callers in `tts.py` | memory, plans and buffers that outlive a call; rows of different lengths; what is attended must be the row's own clean context |
| Rest | | `lora.py`, `kernels.py`, `text_norm/`, `eval/`, `scripts/`, benchmarks | | tensor arithmetic, string rewriting, measurement: not modelled |

The hazards found on the way are listed, each at its line, in `PROJECT.json`
with the properties that cover them.

## The models

The router and the worker share nothing but HTTP; inside a worker the queue
feeds the engine, the engine feeds the vocoder, and the vocoder calls the sink.
Each interface has a specification of its own that the producer is shown to
implement and that says what the consumer may rely on:

    clients --> Router --HTTP--> worker: SchedulerQueue --> Engine --ChunkStream--> Vocoder --AudioStream--> sink

`Router` (instances: `MCRouter`). All of the router runs on one asyncio loop,
so an action is the stretch of a task from one await that suspends to the next.
`pc` says at which await a task is suspended: waiting in `acquire` un-notified
or notified (`waiting`, `woken`), in the request to the backend (`posting`,
`streaming`), in the sleep that paces a client (`pacing`). `Attempt` is one
evaluation of the condition's predicate with the admission that follows;
`Leave` is a `finally` clause with its `release`. A worker that releases and
re-acquires does so in one action (`WorkerTurn`), since nothing suspends in
between. `refresh_models` may find any subset of the shards down. Identities of
stress tasks are reused once a task has ended and nobody refers to it.

`QueueOps`, `SchedulerQueue` (`MCSchedulerQueue`). The selections of the queue
are operators on sequences, shared with the engine, Kokoro and vocoder models. In
`SchedulerQueue` a critical section is one action and setting or clearing the
event are separate ones, because the code does them outside the lock. The
engine thread's timeouts are possible but no liveness relies on them.

`EngineBase`, `TurboEngine`, `FlashEngine`, `Engine` (`MCEngine`). A tick is cut
into admission, step and release, since another thread's submit or an
exception may fall in between. `row` holds what the GPU knows of each slot,
`slot`, `cpu_len` and the handoff variables what the host knows. What the
model samples is a choice: Turbo draws a speech token, one the codec lacks, or
the stop token; Flash unmasks a number of positions between the schedule's and
all of them, with or without a stop token among them. `Handoff` is the loop of
`_maybe_vocode` as a recursive function. Prefix lengths and budgets are
constants per request.

The run loop catches an exception from anywhere in a tick, and the models raise
one wherever a tick makes a call: in an admission, before the first request of
the batch has its slot or when some have (`AdmitRaises`), in the forward
(`StepRaises`), inside a handoff of the n-th active request, when those before
it have been handed over and those behind it have not (`FlashStepRaises`,
`TurboStepRaises`, and `TurboAdmitRaises` for the first tokens), and in the copy
that releases a slot (`FreeRaises`). `Cut` is what a handoff leaves that raises:
the chunks before, and the one at fault too where `SplitVoc` had it in its queue
already. A raise goes with what the handler does (`EmptySlots`), for all who are
active, also those that are decoded and only wait to be freed. Whether ticks
raise is a constant (`TicksMayRaise`), and why is left open. The handler itself
is taken not to raise: nothing catches that, and the engine's thread would end.

`ChunkStream` is what an engine promises the vocoder: contiguous chunks from
token 0, the stream ended once, by its last element.

`Vocoder` (`MCVocoder`). One module for three deployments: in the engine's
process, in a subprocess behind `VocClient`, and behind `SplitVoc` (the
default), whose options of top-ups are part of the initial state. `Script` is
what the engine hands over, a complete ChunkStream per request. A lane takes a
batch, closes the streams of end markers, passes over the GPU and post-processes
job by job; in a subprocess the sinks write to `out_q`, which `Read` takes
apart. What is taken to be atomic is said at the head of the module:
`_postprocess` of a job and the treatment of a message by `_read_loop` are over
before another thread completes a pass on the GPU. The queues of top-ups, one
per width, are one queue of jobs with widths. Of a pool of subprocesses one is
modelled: a request stays with the one its id selects.

`AudioStream` is what a sink is promised: the chunks in order, each joined to
the tail of the one before, then `None`, and nothing behind it.

`PrepCache`, `Kokoro` (`MCKokoro`). `PrepCache` is `prepare_cached` by itself:
a critical section under `prep_cache_lock` is one action (`Lookup`, `Evict`,
`DropFailure`), what happens without the lock is another (`Prepare`, `Resume`),
and a call first waits for a thread of the pool (`Call`). A future is named
after the call that created it. `Kokoro` puts the handlers and the engine thread
around it: `Arrive` is `create_pcm_stream` up to its await, with its look at the
queue's depth, `Create` and `Submit` what follows, `Receive` and `Abort` the
response. The engine thread takes a batch (`TakeBatch`, with the selections of
`QueueOps`), extends it until the deadline, leaves out who has gone, runs the
forward, and delivers row by row: a segment, then either the queue again or the
end of the stream. A request is its own caller of the cache; a text is the
sequence of its segments' token lengths, which is all that batching and
validity look at. A forward fails for a length no forward accepts, or, a bounded
number of times, for reasons of the GPU.

`KvCells`, `FlashInfer`, `TorchSdpa`, `Mlx`, `BlockDecoding`
(`MCBlockDecoding`). `BlockDecoding` is `generate` of the Flash model: a call
sets up its rows and an engine (`Generate`), denoises a block in up to
`NumSteps` forwards (`DenoiseStep`), runs the block's final tokens once more and
commits them (`EndBlock`), and hands the trimmed rows to the vocoder. The engine
stays for the next call. The three engines are modules of operators on an
engine's record, one per method of the protocol in `engines/base.py`. The key
and value of a token are abstracted to where they come from (`Cell`: the row or
prefix, the position it was encoded at, the token), so that what a forward
attends to can be compared with what it should. FlashInfer's pages are found
from positions by arithmetic and kept as they are between calls; its graph reads
and writes what its last plan says, at the positions of a buffer it shares with
the eager path. The other two keep columns per row, with padding. Scores and
samples are a choice: a step unmasks at least what the schedule says
(`Unveiled`, with the code's rounding), each position an id of the codec, an id
of the dictionary that the codec lacks, or the stop (`SpeechTokens`); `Trim` cuts
at the first stop and drops the ids the codec lacks.

## The runs

| Run | Expects | What it asks |
|---|---|---|
| `RouterSafety` | pass | `ActiveCountsHolders`, `NoOvercommit`, `ReserveKept`, `NoMissedNotify`: two shards with capacities 1 and 2, of which only the second may take background load, one of the routes on the second only; clients, workers and one operator |
| `RouterStress` | pass | `InteractiveServed`, `StopCompletes`, `ListedUnlessStartsOverlap`: one shard of two slots, load that never ends, two concurrent callers of start and stop |
| `RouterOverlap` | violation | `StoppedMeansNoLoad`, with two callers whose starts overlap |
| `SchedulerQueue` | pass | `NoLostWakeup`, `Conservation`, `QueueInArrivalOrder`, `BatchCompatible`, `TakeIsUrgent`, `EveryRequestTaken`: four submitters of three urgencies and two shapes |
| `Engine` | pass | `SlotsMatch`, `WindowCoversRows`, `MirrorsAgree`, `BudgetRespected`, `DoneLeaves`, `OnePlace`, `HandsOverAStream`, `EveryStreamCloses`: three requests, two slots, ticks that may raise |
| `TurboFirstStop` | violation | `LeavesWhenDone` |
| `FlashBudget` | violation | `BudgetRespected` with a budget of all of `max_speech_tokens` |
| `Vocoder` | pass | `NothingLeftBehind`, `DeliversAnAudioStream`, `EveryStreamEnds`: five deployments, two requests |
| `VocoderEnd` | violation | `NothingAfterClose` |
| `Kokoro` | pass | `ShortOnlyForCause`, `OnePlace`, `BatchFits`, `FuturesAnswered`, `PreparedOnce`, `EveryCallEnds`: three calls, two of one text, a pool of two threads, a cache of one entry |
| `BlockDecoding` | pass | `SeesItsContext`, `NullRowsMirror`, `UtteranceWhole`, `RowsKeepTheirPages`: four calls in any order on FlashInfer, two on each of the others |
| `SdpaRagged` | violation | `SeesItsContext` for two texts of unequal prefix on the fallback engine |

Bounds, and why they are enough. Router: contention needs more tasks than slots
and two shards that differ, which the instance has; a wakeup is lost or stolen
with two waiters and one release. Pacing between segments only occurs with two
segments, in `RouterSafety`. Queue: two requests show a race of submit and
wait; four let a group skip, reorder and extend, with limits of two. Engine: a
swap needs two slots, a swap among several that leave needs them to leave
together, and a queue behind full slots needs a third request; blocks of two
tokens in two steps and three blocks per row reach every branch of the step;
chunks of 1, 1, 2 and 3 tokens reach every branch of the handoff with top-ups.
Without top-ups (`ChunkSecond`) it is only reached by the violation runs and by
the proofs, which are for any sizes. Vocoder: three chunks are the first to have a middle
one, and two requests share batches. There `StreakMax` is 1 where the code
says 3, so that the bound is met with two requests. Kokoro: a cache of one
entry and two texts make eviction meet an entry that is still prepared; two
callers of one text share a future, and with two threads the pool can be full of
one text; batches are widened, extended, narrowed (by a slow request) and
refused in one instance of three calls. One text has an invalid second segment,
one preparation may raise, one client may leave, one forward may fail. Priority
1 (`Background`) is not exercised. Block decoding: speech of 4, 6 and 7 tokens in
blocks of 3 gives whole blocks, a shorter last one and up to three blocks;
prefixes of 1 to 3 tokens in pages of 2 put a boundary within a prefix, within a
block and between them; three steps make the first, a middle and the last one
differ; `Slack` 2 and `Bucket` 4 make an engine too short for a later call, be
replaced, or be used again with its graph. Which kinds of ids a call samples is a
parameter of the call (`ids`): all of them in the two calls `OneRow` and
`Ragged`, which have one row and two of unequal length, no ids outside the codec in
the others, where they would only multiply the states.

Deadlock is checked everywhere except in `Vocoder`, `VocoderEnd` and `Kokoro`:
when all that the scripts contain has been delivered, or every call has ended,
nothing is left to do, and in `Vocoder` chunks of a failed request may stay in a
queue for ever.

Fairness. `Router`: the loop resumes each task that can run, and the session's
600 s timeout makes each backend answer or fail; no one is obliged to
disconnect or to call an endpoint. `SchedulerQueue`: a submitting thread that
has appended sets the event, and the engine thread runs. `Engine`: the run loop
ticks again and again, and each tick goes on to its end or raises (`Ticking`);
nothing is assumed of submits, nor that ticks ever stop raising.
`Vocoder`: the lanes, pumps, readers and the flush thread run; the engine may
stop handing over at any time. `Kokoro`: the engine thread, the deadline of
extending, the pool's threads and each handler go on; nobody is obliged to call
or to leave.

### What the violations show

* `RouterOverlap`: `stress_start` suspends, in `stop_stress`, between taking the
  old list and storing its own, and no lock keeps a second start out. Each
  stores its list over the other's; the tasks of the first to return run on
  unlisted, reported by nobody and cancelled by no `/stress/stop`. The console
  enables Start again as soon as the list is empty, which it is meanwhile.
  `ListedUnlessStartsOverlap` says that nothing else loses load.
* `TurboFirstStop`: the result of `_consume` on the first token is dropped in
  `_admit`; a request that ends there is decoded on in its slot and its stream
  closed again. The other engine properties except such requests (`Overlooked`).
* `FlashBudget`: a budget equal to `max_speech_tokens` is never reached, because
  `blk_start` is clamped one block short of it. `app.py` gives that budget to
  long texts. `Engine` uses smaller budgets, for which all holds.
* `VocoderEnd`: an end marker passes the first chunk and closes the stream
  before it. `Vocoder` has requests without end markers.
* `SdpaRagged`: with prefixes of unequal length the fallback engine hides the
  columns between a row's own start and the largest one. In the first block
  those are padding; from the second on, the columns of earlier blocks lie
  behind the padding, and the shorter row attends to padding instead of its own
  last tokens. `BlockDecoding` gives that engine rows of equal prefix only.

Three more behaviours are visible in the models and no run is about them. A tick
ends its requests one by one and releases their slots afterwards; if it raises in
between, in a later handoff or in a release, the run loop finds requests in
`active` whose final chunk the vocoder has already, and closes their streams as
well: their last audio comes behind the close, and the stream is closed a second
time. So no property says that a stream is closed once. `OnePlace` counts such a
request as over, decoded and aborted being one place, and `EveryStreamCloses`
says that each is closed at all.
`take_group` fills its batch in queue order, so that the most urgent request,
for which the batch was started, may be left out. And a top-up passes its own
first chunk once three batches of first chunks have been taken; in `Vocoder`
requests with top-ups are held to `EveryStreamEnds` only.

`UtteranceWhole` is stated for what the code does at the edge of a row: a stop
token that falls behind the row's own length, in the rest of its last block,
ends the row like any other, and positions of that block that were still masked
are dropped with it. And sampled ids that the codec lacks are dropped from the
speech, which is why the property counts the codec's tokens only.

## Proofs

`RouterProofs` proves, for any sets of clients, workers and operators and any
number and capacity of shards, `TypeOK`, `ActiveCountsHolders`, `NoOvercommit`,
`ReserveKept` and `NoMissedNotify`. None is inductive by itself. `IInv` adds to
them where each pc may hold a shard (`HoldingPC` exactly), that what a waiting
worker is admitted to has more than its reserve (`supported` of a worker only
has shards of capacity above 1, though the routes may have changed since), and
that only workers are cancelled. The proof goes by lemmas about the four ways in
which counters, pcs and shards change together: `ReleaseCore` (a task leaves),
`AttemptCore` and its variants (a predicate evaluated, with or without a
release right before it), and the steps that touch none of them; `IInvStep`
takes each action to one of these. Cardinalities go by the facts of
`FiniteSetTheorems` on adding and removing one element. `ShardsAssumption`
(positive capacities, which `Router.__init__` checks) and `TasksAssumption`
(finitely many tasks) are all that is assumed of the constants.

`ListedUnlessStartsOverlap` is proved for any number of concurrent callers. Its
invariant, `ListInv`, says beside `LoadIsListed` that a start which waits for
the old tasks will find the list empty (`Restarting`): so its own tasks replace
nothing. A step from a state in which no two starts overlap keeps both parts;
another start that stores its tasks while the first waits breaks the second.

`QueueFacts` holds what the selections of `QueueOps` return, for queues of any
length: `KeepPicks` gives, for what `Keep` leaves of a queue, where each element
stood, from which order, members and distinctness follow; `TakeFacts` says that
`Take` returns the most urgent, which rests on `Before` being a strict order
(`BeforeOrders`) and on ranks growing along it; `GroupFacts` and `JoiningFacts`
do the same for `take_group` and `extend_group`. The function in `Keep` is
recursive, so its existence and its values go by induction over its length. The
library's induction theorems cannot be used by the provers at hand; the module
derives `NatInductionOnSet` from the well-foundedness of `<` instead, stated for
a set rather than a predicate.

`SchedulerQueueProofs` proves every safety property of the queue for any
requests, urgencies and limits. `NoLostWakeup` has its own invariant, which says
when a cleared event can meet a non-empty queue: only with a submitter between
its append and its `set`, or with the engine thread on its way to look at the
queue. The others follow from `QInv`: the accepted requests are the disjoint
union of queue, batch and served, each of them is there once, a batch exists
only in the engine thread's hands, and the queue is in the order of arrival.
`BatchCompatible` needs `SharedShape`: compatibility is equality of some shape,
and equal shapes have equal limits, which is how `_compatible` and
`_batch_limit` of the Kokoro worker are written; with a relation that is not
transitive, two peers of the seed need not be compatible.

`EngineProofs` proves every safety property of the engine core, and that it
implements `ChunkStream`, for any requests, prefixes, slots, block and chunk
sizes and any interleaving of ticks, submits and failures. The invariants are
built one on the other:

* `SlotsInv`: who is in which slot, with whose row. Its lemmas reduce every
  action to what it does to pairs of request and row, so that the swaps of
  `_free_slot` are dealt with once (`FreeOneSlots`). `SlotsMatch` follows.
* `FlashInv`: a row of Flash against the host's mirror, with the number of
  blocks committed so far and whether the row is about to leave; `TurboInv`: a
  request has one column more than its row. `MirrorsAgree`, `BudgetRespected`
  and `WindowCoversRows` follow.
* `PlacesInv`: a request that was submitted waits, is in a slot, is over (done or
  aborted) or lost, and is done in the step that lists it to be freed. Whoever
  raises and when, the handler takes all of the active list to over, whether
  done before or not (`RaiseFacts`). `OnePlace` and `DoneLeaves`
  follow.
* `StreamInv`: the chunks of a request are one run from token 0 to `emitted`,
  open until it is done, unless a raise cut its handoff short: then they are the
  beginning of such a run (`CutChunks`), which nothing continues. `Handoff` is defined by recursion; that it sends such a
  run for every number of tokens is again an induction (`HandoffSends`). The
  refinement and `WholeWhenDone` follow.
* `TypesInv`, from which `TypeOK` of the engine follows, without any hypothesis.

Two hypotheses are assumed where they are needed. `BudgetsInBlocks`: a Flash
budget is a positive number of whole blocks and leaves a block free. The code
documents budgets as multiples of the block (`engine.py:55`); that one block
stays free is what `app.py` violates for long texts, as `FlashBudget` shows.
`MoreThanOneToken`: `max_speech_tokens` is above 1, so that only a stop token,
and not the length, ends a Turbo request with its first token. Both are true of
the instances checked.

`PrepCacheProofs` proves `FuturesAnswered` and `PreparedOnce` of `PrepSpec` for
any callers, texts, threads and any size of the cache. Neither is inductive.
`PInv` adds the `Shape` of the state: the cache has a text at most once and the
pool a call at most once, the calls in the pool have not started, and the state
of a call's future goes with its stage. One lemma per action; the ones that cut
the cache rest on what taking an element out of a sequence leaves
(`RemovedFacts`) and on eviction taking only answered entries from the front
(`EvictedFacts`, where the first entry still being prepared is found with
`LeastNat` of `QueueFacts`).

`KokoroProofs` proves that the worker implements `PrepSpec`, each of its steps
being a step of the cache or none, so that both properties hold of the worker;
and `TypeOK`, `OnePlace`, `BatchFits` and `ShortOnlyForCause`, for any requests,
texts, limits and faults. They follow from `KInv`: queue and batch are disjoint
and the engine thread has a batch in hand exactly outside `_take_batch`
(`Apart`); the requests of a batch that is still put together have one length,
one priority and one limit (`Alike`); and of each call (`CallInv`), nothing has
been done before its job is submitted, a response that waits is in queue or
batch and one that was told its end in neither, and whoever was told the end with
segments left had a reason for it. `BatchFits` is not inductive alone: a batch is extended by
the limit of its first request, which is everyone's limit only because
compatible requests have equal lengths and priorities.

`BlockDecodingProofs` proves every property of the Flash model, for any
workload, block, step and page sizes. `BInv` gives `TypeOK`, `NullRowsMirror` and
`RowsKeepTheirPages`: it adds the shape of the engine's record, and for
FlashInfer how many pages a row has (`Paged`), that speech lies in the pages of
its row (`Owned`) and that a plan that may be used again writes where its key
says (`PlanKept`). The lemmas go along the engine protocol: what building,
resetting, the prefix, the capture, a forward and a replay keep. `WrittenOwned`
is the heart: a position below the row's capacity falls into the row's pages, by
the arithmetic of `DivFacts`; `BlockFits` shows that a call never has another,
since an engine is taken only if it has room for the longest prefix and speech.

`UtteranceWhole` follows from `RowsDecoded`: while a call is decoded, a
position in front of the current block holds a sampled id, unless a stop
stands in its block or an earlier one (`Clean`); nothing is decoded beyond the
block; and a row marked as ended holds a stop, so that the batch goes on until
every row has one or is at its end, however long the others are carried along.

`SeesItsContext` says that a forward attends to the row's own prefix, its clean
earlier blocks and the current block, and to nothing else. It is about what the
next forward does with a cache, a plan and a buffer that earlier steps or calls
have left, and it is not inductive: `ContextKept` says what they left. The cache
holds, in front of the block, what is settled (`ContextOf`); the shift context
is the token before the block (`ShiftOf`); the graph's plan is none or one of
this call, for this block or an earlier one (`PlanFits`, `Behind`), so that a
plan of the same key is the plan of the same positions; and a graph that replays
was given the shift context of its block. The proof has a lemma for each thing
an engine does: what a pass writes and which cells it leaves (`WrittenCells`,
which rests on two positions never sharing a slot, `SlotApart`), what the
prefix, an eager forward, a replay and the capture attend to (`PrefixContext`,
`ForwardContext`, `GraphContext`, `CaptureContext`), and what a committed block
is to the next one (`NextContext`).

`BackendAssumption` (the three backends that `_resolve_backend` knows),
`BlockAssumption` (positive sizes) and `WorkloadAssumption` are assumed
throughout. `ContextSeen` has two hypotheses more. `RowsAlike`: the rows of a
call on the torch fallback start at one position; with others the property is
false, which the run `SdpaRagged` shows. `WarmupFits`: a block is no longer than
the room left behind the speech, and one: the capture of a graph runs a warm-up
block behind the prefix however short the speech is, and that block must stay in
the row's pages. The code has blocks of 16 and leaves 64. Both hold of the
instance checked.

`VocoderProofs` proves `TypeOK`, `NothingLeftBehind` and the refinement
`DeliversAnAudioStream`, for any requests, scripts and batch sizes and in each
deployment. `VInv` follows every request whose chunks keep an order (`Regular`:
no end marker, no top-up, not one whose pass may fail). For each there is a
number e such that the elements of its stream up to e have been emitted, and
what was handed over beyond e is on its way: `Path` says that the lane's hand,
the queue, the pipe to the subprocess and what `SplitVoc` keeps back hold
exactly the numbers e + 1 to `handed`, in this order. The rest says why the next
step keeps that: what is emitted and not delivered is in the subprocess's
queue, in order (`Outgoing`); a bulk chunk in hand has audio before it, and
the tail kept is that of the chunk before (`Blended`); the engine's side listens
for whatever it has sent (`Listening`); and of `SplitVoc`, the tail of the first
chunk is known, or is on its way ahead of that chunk, before the second is sent,
and is sent once (`FirstHeard`, `TailSent`). Nothing is left behind because a stream
that is closed has had its last element emitted, so that e is past all chunks and
no place holds one. The refinement
takes each delivery to a step of `AudioStream`. Assumed are `VocoderAssumption`
(positive sizes, and that the closing `None` is no chunk) and
`ScriptAssumption`, which is what `ChunkStream` promises of a complete stream
and `EngineProofs` proves of the engine. Irregular requests are not covered by
`DeliversAnAudioStream` itself, in the run as in the theorem.

Only model-checked are the liveness properties, which the prover cannot treat
under fairness: `EveryRequestTaken`, `EveryStreamCloses`, `InteractiveServed`,
`StopCompletes`, `EveryStreamEnds` and `EveryCallEnds`. Every other property of
a passing run is stated by a theorem. The runs that expect a violation show on
an instance what no theorem could hold.

## Not modelled

Tensor arithmetic, sampling and signal processing (their outcomes are choices),
the batched Kokoro model and the GPU kernels; HTTP parsing and the texts of
answers, the 300 s timeout of the Chatterbox worker's stream, metrics and
logging, start-up and warm-up, LoRA weights, text normalisation, evaluation and
benchmarks. Of the offline engines: `snapshot_kv` and `restore_kv`, which
`generate` does not call on the paths modelled, quantisation, the loading of
weights, and the marginal of the unconditional block, which only changes scores.
The engine and the vocoder are checked against the stream between them and not
composed.
