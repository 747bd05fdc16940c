----------------------------- MODULE TorchSdpa ------------------------------
(***************************************************************************)
(* The fallback engine (chatterbox_flash/engines/torch_sdpa.py).  It keeps *)
(* one transformers.DynamicCache for the whole batch: every row has the    *)
(* same number of columns, and a row whose prefix is shorter is padded.    *)
(*   cache[r]     the columns of row r                                     *)
(***************************************************************************)
EXTENDS KvCells

NewEngine(maxSeq, batch) ==
  [maxSeq |-> maxSeq, batch |-> batch, graph |-> FALSE,
   cache |-> [r \in 1 .. batch |-> << >>], lens |-> [r \in 1 .. batch |-> 0],
   seen |-> << >>, out |-> << >>]

(* DynamicCache.crop: a cache that is not longer is left alone. *)
Crop(cols, len) == SubSeq(cols, 1, IF Len(cols) < len THEN Len(cols) ELSE len)

(* Right-padded to the longest prefix; the padding columns exist, and every *)
(* row's length is its own.                                                 *)
PrefixRagged(e, ps) ==
  LET longest == Largest([r \in DOMAIN ps |-> ps[r].len])
  IN [e EXCEPT
        !.cache = [r \in DOMAIN ps |->
           PrefixCells(ps[r]) \o [i \in 1 .. longest - ps[r].len |->
                                    PadCell(ps[r].len + i - 1)]],
        !.lens = [r \in DOMAIN ps |-> ps[r].len]]

PrefixForward(e, list, ps) ==
  IF list /\ Len(ps) > 1
    THEN PrefixRagged(e, ps)
    ELSE [e EXCEPT !.cache = [r \in 1 .. e.batch |-> PrefixCells(ps[1])],
                   !.lens = [r \in 1 .. e.batch |-> ps[1].len]]

(* Uniform starts: crop there, append the block, attend to all of it.  Ragged *)
(* starts: crop at the largest, append, and hide from each row the columns    *)
(* between its own start and the largest.                                     *)
BlockForward(e, toks, starts) ==
  LET at == starts.at
      top == Largest(at)
      cells == [r \in DOMAIN at |-> BlockCells(r, toks[r], at[r])]
      cols == [r \in DOMAIN at |-> Crop(e.cache[r], top) \o cells[r]]
      shown(r) == IF AllEqual(at) THEN cols[r]
                  ELSE SubSeq(cols[r], 1, at[r]) \o SubSeq(cols[r], top + 1, Len(cols[r]))
  IN [e EXCEPT !.cache = cols, !.out = cells,
               !.seen = [r \in DOMAIN at |-> shown(r)]]

AdvanceCache(e, bl) == [e EXCEPT !.lens = [r \in DOMAIN e.lens |-> e.lens[r] + bl]]

CanReuse(e, maxSeq, batch) == e.maxSeq >= maxSeq /\ e.batch = batch

Reset(e) == NewEngine(e.maxSeq, e.batch)
=============================================================================
