--------------------------- MODULE BlockDecoding ----------------------------
(***************************************************************************)
(* Offline generation of Chatterbox-Flash: ChatterboxFlashT3.generate      *)
(* (chatterbox_flash/model.py) and its callers in tts.py, over the engine  *)
(* protocol of engines/base.py and the three engines behind it.            *)
(*                                                                         *)
(* A call decodes the speech of its rows block by block.  Each block is    *)
(* denoised in up to NumSteps forwards that turn masked positions into     *)
(* tokens; the block's tokens are then run once more, so that the next     *)
(* block finds them, and not a denoising step's, in the KV cache.  The     *)
(* engine is kept on the model and used again by a later call.             *)
(***************************************************************************)
EXTENDS KvCells

CONSTANTS
  Workload,   \* which calls a deployment makes: [backend -> set of calls]
  BlockSize,  \* drf_block_size
  NumSteps,   \* num_steps, denoising steps of a block
  ShiftNum,   \* omnivoice_schedule_t_shift as a fraction, 1/2 by default
  ShiftDen,
  Slack,      \* room beyond prefix and speech, 64 in the code
  Bucket,     \* an engine that grows does so in multiples of Bucket, 512
  PageSize    \* page_size

(* A position is masked or holds an id of the dictionary: one of the codec,  *)
(* the stop, or another that the codec lacks.                                *)
SpeechTokens == {"mask", "tok", "special", "stop"}

(* A call has, per user row, the length of its prefix and of its speech; it *)
(* is cross-text or repeats one text, and may use guidance and CUDA graphs. *)
(* Its steps sample ids of the kinds in ids, any in the code, so that a     *)
(* small instance may leave some out.                                       *)
ASSUME BlockAssumption ==
  /\ BlockSize \in Nat \ {0} /\ NumSteps \in Nat \ {0}
  /\ Slack \in Nat /\ Bucket \in Nat \ {0} /\ PageSize \in Nat \ {0}
ASSUME ShiftAssumption == ShiftNum \in Nat /\ ShiftDen \in Nat \ {0}
ASSUME BackendAssumption == DOMAIN Workload \subseteq {"flashinfer", "torch", "mlx"}
ASSUME WorkloadAssumption ==
  \A b \in DOMAIN Workload : \A c \in Workload[b] :
    /\ c.prefix \in Seq(Nat \ {0}) /\ c.speech \in Seq(Nat \ {0})
    /\ Len(c.prefix) = Len(c.speech) /\ Len(c.prefix) > 0
    /\ c.cross \in BOOLEAN /\ c.guided \in BOOLEAN /\ c.graph \in BOOLEAN
    /\ c.ids \subseteq SpeechTokens \ {"mask"} /\ c.ids # {}
    /\ c.cross \/ (AllEqual(c.prefix) /\ AllEqual(c.speech))

VARIABLES
  backend,    \* what _resolve_backend settled on
  engine,     \* model._cached_engine, NoEngine at first
  call,       \* the call being served, the last one when idle
  phase,      \* "idle", "step" or "blockEnd"
  xt,         \* tokens of every forward row
  blk, k,     \* block and denoising step
  rowEos,     \* _row_eos
  blockDone,  \* _block_done
  shift,      \* shift_ctx: the hidden state before the block, per row
  used,       \* the shift context the last denoising step's logits used
  speech      \* per user row, the tokens handed to the vocoder

vars == <<backend, engine, call, phase, xt, blk, k, rowEos, blockDone,
          shift, used, speech>>

FI == INSTANCE FlashInfer
Torch == INSTANCE TorchSdpa
MLX == INSTANCE Mlx

NoEngine == [maxSeq |-> 0, batch |-> 0, graph |-> FALSE]
NoCall == [cross |-> FALSE, guided |-> FALSE, graph |-> FALSE,
           prefix |-> << >>, speech |-> << >>, ids |-> {}]

-----------------------------------------------------------------------------
(* The engine protocol, by backend. *)

Build(b, maxSeq, batch) ==
  CASE b = "flashinfer" -> FI!NewEngine(maxSeq, batch)
    [] b = "torch" -> Torch!NewEngine(maxSeq, batch)
    [] b = "mlx" -> MLX!NewEngine(maxSeq, batch)

CanReuse(b, e, maxSeq, batch) ==
  CASE b = "flashinfer" -> FI!CanReuse(e, maxSeq, batch)
    [] b = "torch" -> Torch!CanReuse(e, maxSeq, batch)
    [] b = "mlx" -> MLX!CanReuse(e, maxSeq, batch)

Reset(b, e) ==
  CASE b = "flashinfer" -> FI!Reset(e)
    [] b = "torch" -> Torch!Reset(e)
    [] b = "mlx" -> MLX!Reset(e)

PrefixForward(b, e, list, ps) ==
  CASE b = "flashinfer" -> FI!PrefixForward(e, list, ps)
    [] b = "torch" -> Torch!PrefixForward(e, list, ps)
    [] b = "mlx" -> MLX!PrefixForward(e, list, ps)

(* Only FlashInfer captures graphs. *)
Capture(b, e) == IF b = "flashinfer" THEN FI!CaptureGraph(e, BlockSize) ELSE e

BlockForward(b, e, toks, starts) ==
  CASE b = "flashinfer" -> FI!BlockForward(e, toks, starts)
    [] b = "torch" -> Torch!BlockForward(e, toks, starts)
    [] b = "mlx" -> MLX!BlockForward(e, toks, starts)

AdvanceCache(b, e, bl) ==
  CASE b = "flashinfer" -> FI!AdvanceCache(e, bl)
    [] b = "torch" -> Torch!AdvanceCache(e, bl)
    [] b = "mlx" -> MLX!AdvanceCache(e, bl)

-----------------------------------------------------------------------------
(* The shape of a call. *)

UserRows(c) == Len(c.prefix)
Rows(c) == IF c.guided THEN 2 * UserRows(c) ELSE UserRows(c)
UserOf(c, r) == IF r > UserRows(c) THEN r - UserRows(c) ELSE r
SpeechLen(c) == Largest(c.speech)
NumBlocks(c) == CeilDiv(SpeechLen(c), BlockSize)
RowBlocks(c, r) == CeilDiv(c.speech[r], BlockSize)
PrefixLen(c, r) == c.prefix[UserOf(c, r)]
BlockLen(c, b) ==
  (IF (b + 1) * BlockSize < SpeechLen(c) THEN (b + 1) * BlockSize ELSE SpeechLen(c))
    - b * BlockSize

(* Whose prefix a row has: a text's, or with its content zeroed for the null *)
(* rows, which are numbered after the user rows.                             *)
TextOf(c, r) == IF c.cross THEN r
                ELSE IF r <= UserRows(c) THEN 1 ELSE UserRows(c) + 1
Prefixes(c) == [r \in 1 .. Rows(c) |-> [src |-> TextOf(c, r), len |-> PrefixLen(c, r)]]
(* With guidance the prefixes are always a list, else only across texts. *)
PrefixIsList(c) == c.cross \/ c.guided

CacheStarts(c, b) ==
  [list |-> c.cross, at |-> [r \in 1 .. Rows(c) |-> PrefixLen(c, r) + b * BlockSize]]

\* Mutant: room for the speech alone.
NeededForSpeechOnly(c) == SpeechLen(c) + Slack

Needed(c) == Largest(c.prefix) + SpeechLen(c) + Slack

(* An engine of the same batch that is too short is replaced by a larger one. *)
Allocated(c) ==
  LET grown == CeilDiv(Needed(c), Bucket) * Bucket
      half == (engine.maxSeq * 3) \div 2
  IN IF /\ c.graph /\ engine # NoEngine
        /\ engine.maxSeq < Needed(c) /\ engine.batch = Rows(c)
       THEN IF grown > half THEN grown ELSE half
       ELSE Needed(c)

\* Mutant: an engine of the same batch is taken whatever its length.
AnyEngine(c) ==
  IF engine # NoEngine /\ engine.batch = Rows(c)
    THEN Reset(backend, engine)
    ELSE Build(backend, Allocated(c), Rows(c))

(* The engine of the last call is reset if it will do, else one is built. *)
EngineFor(c) ==
  IF engine # NoEngine /\ CanReuse(backend, engine, Needed(c), Rows(c))
    THEN Reset(backend, engine)
    ELSE Build(backend, Allocated(c), Rows(c))

-----------------------------------------------------------------------------
Positions(c, b) == b * BlockSize + 1 .. b * BlockSize + BlockLen(c, b)
Block(row, c, b) == SubSeq(row, b * BlockSize + 1, b * BlockSize + BlockLen(c, b))
Blocks(x, c, b) == [r \in 1 .. Rows(c) |-> Block(x[r], c, b)]
Stopped(toks) == \E i \in DOMAIN toks : toks[i] = "stop"
Masked(toks) == {i \in DOMAIN toks : toks[i] = "mask"}

(* Python's round: to the nearest integer, a half to the even one. *)
Round(n, d) ==
  LET q == n \div d
      twice == 2 * (n % d)
  IN IF twice < d \/ (twice = d /\ q % 2 = 0) THEN q ELSE q + 1

(* _omnivoice_unmask_schedule: of n masks, those unmasked by the end of step s  *)
(* (counted from 1) follow n * tau x / (1 + (tau - 1) x) with x = s/K, rounded, *)
(* never decreasing; the last step takes what remains.  No shift: even shares. *)
Unveiled(n) ==
  LET target(s) ==
        IF ShiftNum = 0 THEN s * (n \div NumSteps)
        ELSE Round(n * ShiftNum * s, ShiftDen * NumSteps + (ShiftNum - ShiftDen) * s)
      total[s \in 0 .. NumSteps] ==
        IF s = 0 THEN 0
        ELSE IF s = NumSteps THEN n
        ELSE IF target(s) <= total[s - 1] THEN total[s - 1]
        ELSE IF target(s) < n THEN target(s) ELSE n
  IN total
Floor(n, step) == Unveiled(n)[step + 1] - Unveiled(n)[step]

(* _pmi_count_early_step_unmask: the schedule gives the least number of      *)
(* positions a step unmasks, confident scores may add more, the last step    *)
(* unmasks all that are left.  Which positions and which ids is open.        *)
Unmasked(toks, step) ==
  LET least == IF step = NumSteps - 1 THEN Cardinality(Masked(toks))
               ELSE Floor(Len(toks), step)
  IN {b \in [DOMAIN toks -> {"mask"} \cup call.ids] :
        /\ \A i \in DOMAIN toks \ Masked(toks) : b[i] = toks[i]
        /\ \/ Masked(b) = {}
           \/ Cardinality(Masked(toks)) - Cardinality(Masked(b)) >= least}

(* tts._trim_to_eos: cut at the first stop, drop every id the codec lacks, the *)
(* mask of what no forward unmasked among them.                               *)
Trim(toks) ==
  LET stops == {i \in DOMAIN toks : toks[i] = "stop"}
      cut == IF stops = {} THEN Len(toks)
             ELSE (CHOOSE i \in stops : \A j \in stops : i <= j) - 1
      kept == {i \in 1 .. cut : toks[i] = "tok"}
  IN [i \in 1 .. Cardinality(kept) |-> "tok"]

(* Each row is cut to its own speech before it is trimmed. *)
Spoken(c, x) == [r \in 1 .. UserRows(c) |-> Trim(SubSeq(x[r], 1, c.speech[r]))]

\* Mutant: the row's blocks are counted without its last, shorter one.
DoneInLastBlock(c, b, eos) ==
  [r \in 1 .. UserRows(c) |->
     UserRows(c) > 1 /\ (eos[r] \/ (c.cross /\ b >= c.speech[r] \div BlockSize))]

(* Which rows a block starts with nothing to decode for. *)
DoneAtStart(c, b, eos) ==
  [r \in 1 .. UserRows(c) |->
     UserRows(c) > 1 /\ (eos[r] \/ (c.cross /\ b >= RowBlocks(c, r)))]

Init ==
  /\ backend \in DOMAIN Workload
  /\ engine = NoEngine /\ call = NoCall /\ phase = "idle"
  /\ xt = << >> /\ blk = 0 /\ k = 0
  /\ rowEos = << >> /\ blockDone = << >>
  /\ shift = << >> /\ used = << >> /\ speech = << >>

(* generate: set up the rows, take an engine, run the prefix, capture. *)
Generate ==
  /\ phase = "idle"
  /\ \E c \in Workload[backend] :
       LET seeded == PrefixForward(backend, EngineFor(c), PrefixIsList(c), Prefixes(c))
           noEos == [r \in 1 .. UserRows(c) |-> FALSE]
       IN /\ call' = c
          /\ engine' = IF c.graph THEN Capture(backend, seeded) ELSE seeded
          /\ shift' = [r \in 1 .. Rows(c) |->
                         Cell(TextOf(c, r), PrefixLen(c, r) - 1, "prefix")]
          /\ xt' = [r \in 1 .. Rows(c) |-> [p \in 1 .. SpeechLen(c) |-> "mask"]]
          /\ rowEos' = noEos
          /\ blockDone' = DoneAtStart(c, 0, noEos)
  /\ phase' = "step" /\ blk' = 0 /\ k' = 0
  /\ used' = << >> /\ speech' = << >>
  /\ UNCHANGED backend

(* The forward of a denoising step: the graph only for whole blocks, its shift *)
(* context staged at the first step.                                          *)
StepForward ==
  LET toks == Blocks(xt, call, blk)
      starts == CacheStarts(call, blk)
  IN IF engine.graph /\ BlockLen(call, blk) = BlockSize
       THEN LET staged == IF k = 0 THEN FI!SetShiftCtx(engine, shift) ELSE engine
            IN FI!BlockForwardGraph(staged, toks, starts)
       ELSE BlockForward(backend, engine, toks, starts)

\* Mutant: a tail block is not given to the null rows.
DecodedWithoutTail(new) ==
  [r \in 1 .. Rows(call) |->
     IF UserOf(call, r) \in DOMAIN new
       THEN [p \in DOMAIN xt[r] |->
               IF /\ p \in Positions(call, blk)
                  /\ r <= UserRows(call) \/ BlockLen(call, blk) = BlockSize
                 THEN new[UserOf(call, r)][p - blk * BlockSize] ELSE xt[r][p]]
       ELSE xt[r]]

(* The rows after a step gave the rows in DOMAIN new the tokens new[r] for the *)
(* block; the null row of a guided row is given the same.                     *)
Decoded(new) ==
  [r \in 1 .. Rows(call) |->
     IF UserOf(call, r) \in DOMAIN new
       THEN [p \in DOMAIN xt[r] |->
               IF p \in Positions(call, blk)
                 THEN new[UserOf(call, r)][p - blk * BlockSize] ELSE xt[r][p]]
       ELSE xt[r]]

(* One denoising step of a block, for every row that still decodes. *)
DenoiseStep ==
  /\ phase = "step"
  /\ LET graph == engine.graph /\ BlockLen(call, blk) = BlockSize
         active == {r \in 1 .. UserRows(call) : ~ blockDone[r]}
         old == Blocks(xt, call, blk)
     IN /\ engine' = StepForward
        /\ used' = IF graph THEN engine'.gShift ELSE shift
        /\ \E new \in [active -> [1 .. BlockLen(call, blk) -> {"mask"} \cup call.ids]] :
             /\ \A r \in active : new[r] \in Unmasked(old[r], k)
             /\ xt' = Decoded(new)
             /\ rowEos' = [r \in DOMAIN rowEos |->
                             rowEos[r] \/ (r \in active /\ Stopped(new[r]))]
             /\ blockDone' = [r \in DOMAIN blockDone |->
                   \/ blockDone[r]
                   \/ r \in active /\ (Masked(new[r]) = {} \/ Stopped(new[r]))]
  /\ IF k = NumSteps - 1 \/ \A r \in DOMAIN blockDone' : blockDone'[r]
       THEN phase' = "blockEnd" /\ k' = k
       ELSE phase' = "step" /\ k' = k + 1
  /\ UNCHANGED <<backend, call, blk, shift, speech>>

(* The clean tokens of a block that is not the last are run and committed. *)
Finalized ==
  LET bl == BlockLen(call, blk)
  IN AdvanceCache(backend,
       BlockForward(backend, engine, Blocks(xt, call, blk), CacheStarts(call, blk)), bl)

AllStopped == \A r \in DOMAIN rowEos : rowEos[r]

(* The end of a block: commit it, then return or start the next one. *)
EndBlock ==
  /\ phase = "blockEnd"
  /\ IF blk < NumBlocks(call) - 1
       THEN /\ engine' = Finalized
            /\ shift' = [r \in 1 .. Rows(call) |-> engine'.out[r][BlockLen(call, blk)]]
       ELSE UNCHANGED <<engine, shift>>
  /\ used' = << >>
  /\ IF AllStopped \/ blk = NumBlocks(call) - 1
       THEN /\ phase' = "idle"
            /\ speech' = Spoken(call, xt)
            /\ UNCHANGED <<blk, k, blockDone>>
       ELSE /\ phase' = "step" /\ blk' = blk + 1 /\ k' = 0
            /\ blockDone' = DoneAtStart(call, blk + 1, rowEos)
            /\ UNCHANGED speech
  /\ UNCHANGED <<backend, call, xt, rowEos>>

Next == Generate \/ DenoiseStep \/ EndBlock

Spec == Init /\ [][Next]_vars

-----------------------------------------------------------------------------
(* The variables of the loop; the engine's own records are described above. *)
TypeOK ==
  /\ backend \in DOMAIN Workload
  /\ call \in {NoCall} \cup Workload[backend]
  /\ phase \in {"idle", "step", "blockEnd"} /\ (call = NoCall => phase = "idle")
  /\ k \in 0 .. NumSteps - 1 /\ blk \in Nat
  /\ call # NoCall =>
       /\ blk < NumBlocks(call)
       /\ xt \in [1 .. Rows(call) -> [1 .. SpeechLen(call) -> SpeechTokens]]
       /\ rowEos \in [1 .. UserRows(call) -> BOOLEAN]
       /\ blockDone \in [1 .. UserRows(call) -> BOOLEAN]
       /\ engine.batch = Rows(call) /\ engine.maxSeq >= Needed(call)

(* What row r's cache holds at a position once that position is settled. *)
Settled(r, pos) ==
  IF pos < PrefixLen(call, r) THEN Cell(TextOf(call, r), pos, "prefix")
  ELSE Cell(r, pos, xt[r][pos - PrefixLen(call, r) + 1])

(* Every forward attends, in every row and in order, to the row's own prefix,  *)
(* the clean tokens of its earlier blocks and the block being decoded, and to  *)
(* nothing else; and the first logits of a block come from the hidden state    *)
(* of the token before it.  The context depends on which engine is used again, *)
(* what the graph was last planned for, where the pages lie and which columns  *)
(* are masked; the comment at torch_sdpa.py:311 and the clean-context comment  *)
(* at model.py:914 state it.                                                   *)
SeesItsContext ==
  ~ (call = NoCall \/ (phase = "step" /\ blk = 0 /\ k = 0)) =>
    \A r \in 1 .. Rows(call) :
      LET start == PrefixLen(call, r) + blk * BlockSize
          seen == engine.seen[r]
          between == phase = "step" /\ k = 0
      IN /\ Len(seen) = IF between THEN start ELSE start + BlockLen(call, blk)
         /\ \A i \in DOMAIN seen :
              \/ seen[i] = Settled(r, i - 1)
              \/ i > start /\ seen[i] = Cell(r, i - 1, "mask")
         /\ used # << >> => used[r] = Settled(r, start - 1)

(* With guidance the null row of every user row carries the same speech       *)
(* tokens, whichever rows have finished (model.py:895): the two distributions *)
(* that are combined are conditioned on one speech context.                   *)
NullRowsMirror ==
  (call # NoCall /\ call.guided) =>
    \A r \in 1 .. UserRows(call) : xt[r + UserRows(call)] = xt[r]

(* A finished row is decoded without a gap: up to the block in which it first *)
(* stopped, or up to its own length if it never did, every position holds a   *)
(* sampled id, and all of those that the codec has are spoken, and no more if *)
(* it never stopped.  Only the block of the stop may lose positions that were *)
(* still masked (model.py:900 ends it, tts.py:397 drops them), whatever the   *)
(* other rows of the batch did.  The stop may lie beyond the row's length, in *)
(* the rest of its last block, which is cut off.                              *)
UtteranceWhole ==
  (call # NoCall /\ phase = "idle") =>
    \A r \in 1 .. UserRows(call) :
      LET stops == {p \in DOMAIN xt[r] : xt[r][p] = "stop"}
          atStop == (((CHOOSE p \in stops : \A q \in stops : p <= q) - 1)
                        \div BlockSize) * BlockSize
          whole == IF stops # {} /\ atStop < call.speech[r] THEN atStop
                   ELSE call.speech[r]
          codec == {p \in 1 .. whole : xt[r][p] = "tok"}
      IN /\ \A p \in 1 .. whole : xt[r][p] \in {"tok", "special"}
         /\ Len(speech[r]) >= Cardinality(codec)
         /\ stops = {} => Len(speech[r]) = Cardinality(codec)

(* Paged memory is not cleared between calls and a slot is found from a        *)
(* position by arithmetic: while a call runs, every block it will write still *)
(* fits the row's own pages and the position table, and no row's speech lies  *)
(* in the pages of another (flashinfer.py:318, model.py:727).                 *)
RowsKeepTheirPages ==
  (backend = "flashinfer" /\ phase # "idle") =>
    /\ \A r \in 1 .. Rows(call) :
         LET last == PrefixLen(call, r) + SpeechLen(call)
         IN last <= engine.perRow * PageSize /\ last <= engine.maxSeq
    /\ \A s \in DOMAIN engine.kv :
         engine.kv[s].tok \in SpeechTokens =>
           engine.kv[s].src = s[1] \div engine.perRow + 1
=============================================================================
