----------------------------- MODULE FlashInfer -----------------------------
(***************************************************************************)
(* The FlashInfer engine (chatterbox_flash/engines/flashinfer.py) as       *)
(* operators on its state, a record:                                       *)
(*   maxSeq, batch, perRow  capacity, forward rows, pages of each row      *)
(*   kv                     the paged cache: <<page, offset>> to cell      *)
(*   lens                   committed length of each row                   *)
(*   rope                   the position buffer eager and graph share      *)
(*   graph                  whether a CUDA graph has been captured         *)
(*   planKey                the cache starts of the graph's last plan      *)
(*   writeAt, readLen       what that plan makes the graph write and read  *)
(*   gShift                 the shift context staged for the graph         *)
(*   seen, out              what the last forward attended and produced    *)
(* A row's slots are planned and written by position, so a wrong position  *)
(* lands in another row's pages, as it does in the code.                   *)
(***************************************************************************)
EXTENDS KvCells

CONSTANT PageSize

NoKey == [list |-> FALSE, at |-> << >>]

NewEngine(maxSeq, batch) ==
  LET perRow == CeilDiv(maxSeq, PageSize)
  IN [maxSeq |-> maxSeq, batch |-> batch, perRow |-> perRow,
      kv |-> [s \in (0 .. batch * perRow - 1) \X (0 .. PageSize - 1) |-> Stale],
      lens |-> [r \in 1 .. batch |-> 0], rope |-> [r \in 1 .. batch |-> 0],
      graph |-> FALSE, planKey |-> NoKey,
      writeAt |-> << >>, readLen |-> << >>, gShift |-> << >>,
      seen |-> << >>, out |-> << >>]

(* The slot of a position of a row. *)
SlotOf(perRow, r, pos) == <<(r - 1) * perRow + pos \div PageSize, pos % PageSize>>

(* The slots a plan for kvLen tokens makes row r attend to, in order: whole *)
(* pages and the filled part of the last one.                               *)
Planned(perRow, r, kvLen) ==
  LET used == CeilDiv(kvLen, PageSize)
      last == IF kvLen % PageSize > 0 THEN kvLen % PageSize ELSE PageSize
  IN [i \in 1 .. (used - 1) * PageSize + last |->
        <<(r - 1) * perRow + (i - 1) \div PageSize, (i - 1) % PageSize>>]

(* The cache after each row r of cells has written cells[r] from at[r] on. *)
Written(e, at, cells) ==
  LET writes == UNION {{<<r, i>> : i \in DOMAIN cells[r]} : r \in DOMAIN cells}
      slot(w) == SlotOf(e.perRow, w[1], at[w[1]] + w[2] - 1)
      hits == {slot(w) : w \in writes}
  IN [s \in DOMAIN e.kv |->
        IF s \in hits
          THEN LET w == CHOOSE x \in writes : slot(x) = s IN cells[w[1]][w[2]]
          ELSE e.kv[s]]

(* One pass through the layers: write the block's cells, attend to the plan. *)
Pass(e, toks, writeAt, readLen, rope) ==
  LET cells == [r \in DOMAIN toks |-> BlockCells(r, toks[r], rope[r])]
      kv == Written(e, writeAt, cells)
      slots == [r \in DOMAIN toks |-> Planned(e.perRow, r, readLen[r])]
  IN [e EXCEPT !.kv = kv, !.rope = rope, !.out = cells,
               !.seen = [r \in DOMAIN toks |->
                           [i \in DOMAIN slots[r] |-> kv[slots[r][i]]]]]

(* The same pass replayed as a CUDA graph: it writes and reads what the last *)
(* plan says, at the positions the shared buffer holds.                      *)
GraphBody(e, toks) == Pass(e, toks, e.writeAt, e.readLen, e.rope)

(* A prefix written at the start of row r's pages. *)
PrefixRow(e, r, p) ==
  [e EXCEPT !.kv = Written(e, [x \in {r} |-> 0], [x \in {r} |-> PrefixCells(p)]),
            !.lens[r] = p.len]

(* Same text: row 1 is computed and its pages are copied, whole, to the others. *)
PrefixShared(e, p) ==
  LET one == PrefixRow(e, 1, p)
      copied == CeilDiv(p.len, PageSize)
  IN [one EXCEPT
        !.kv = [s \in DOMAIN e.kv |->
                  IF s[1] % e.perRow < copied
                    THEN one.kv[<<s[1] % e.perRow, s[2]>>] ELSE one.kv[s]],
        !.lens = [r \in 1 .. e.batch |-> p.len]]

(* A list of prefixes: one packed prefill, scattered to each row's pages. *)
PrefixBatched(e, ps) ==
  [e EXCEPT !.kv = Written(e, [r \in DOMAIN ps |-> 0],
                              [r \in DOMAIN ps |-> PrefixCells(ps[r])]),
            !.lens = [r \in DOMAIN ps |-> ps[r].len]]

PrefixForward(e, list, ps) ==
  IF list /\ Len(ps) > 1 THEN PrefixBatched(e, ps) ELSE PrefixShared(e, ps[1])

Ends(at, bl) == [r \in DOMAIN at |-> at[r] + bl]

BlockForward(e, toks, starts) ==
  Pass(e, toks, starts.at, Ends(starts.at, Len(toks[1])), starts.at)

SetShiftCtx(e, ctx) == [e EXCEPT !.gShift = ctx]

(* A plan for the given starts, kept until they change. *)
PlanGraph(e, starts, bl) ==
  [e EXCEPT !.writeAt = starts.at, !.readLen = Ends(starts.at, bl),
            !.rope = starts.at, !.planKey = starts]

BlockForwardGraph(e, toks, starts) ==
  GraphBody(IF starts # e.planKey THEN PlanGraph(e, starts, Len(toks[1])) ELSE e, toks)

(* Capture at the committed lengths; the warm-up pass writes a block there. *)
CaptureGraph(e, blockSize) ==
  IF e.graph THEN e
  ELSE LET zeros == [r \in 1 .. e.batch |-> [i \in 1 .. blockSize |-> "warmup"]]
           planned == PlanGraph(e, [list |-> TRUE, at |-> e.lens], blockSize)
       IN [GraphBody(planned, zeros) EXCEPT !.graph = TRUE]

AdvanceCache(e, bl) == [e EXCEPT !.lens = [r \in DOMAIN e.lens |-> e.lens[r] + bl]]

CanReuse(e, maxSeq, batch) == e.maxSeq >= maxSeq /\ e.batch = batch

\* Mutant: the plan outlives the reset.
ResetKeepingPlan(e) == [e EXCEPT !.kv = [s \in DOMAIN e.kv |-> Stale],
                                 !.lens = [r \in 1 .. e.batch |-> 0],
                                 !.seen = << >>, !.out = << >>]

(* The lengths and the plan are forgotten, graph and memory are kept: what *)
(* is in the cache is from now on of an earlier call.                      *)
Reset(e) == [e EXCEPT !.kv = [s \in DOMAIN e.kv |-> Stale],
                      !.lens = [r \in 1 .. e.batch |-> 0],
                      !.planKey = NoKey, !.seen = << >>, !.out = << >>]
=============================================================================
