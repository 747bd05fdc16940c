-------------------------------- MODULE Mlx ---------------------------------
(***************************************************************************)
(* The Apple-silicon engine (chatterbox_flash/engines/mlx.py).  Rows of    *)
(* one length share a cache, as in the fallback engine; rows of different  *)
(* lengths have a cache each, cut to the row's own prefix.  A token's      *)
(* position is the length of the cache it is appended to.                  *)
(*   cache[r]   row r's columns of the shared cache                        *)
(*   own        the rows' own caches, << >> until a list of prefixes ran   *)
(***************************************************************************)
EXTENDS KvCells

NewEngine(maxSeq, batch) ==
  [maxSeq |-> maxSeq, batch |-> batch, graph |-> FALSE,
   cache |-> [r \in 1 .. batch |-> << >>], own |-> << >>,
   lens |-> [r \in 1 .. batch |-> 0], seen |-> << >>, out |-> << >>]

(* Truncate; unlike DynamicCache.crop the offset becomes len in any case. *)
Crop(cols, len) == SubSeq(cols, 1, IF Len(cols) < len THEN Len(cols) ELSE len)

PrefixRagged(e, ps) ==
  LET longest == Largest([r \in DOMAIN ps |-> ps[r].len])
      padded == [r \in DOMAIN ps |->
                   PrefixCells(ps[r]) \o [i \in 1 .. longest - ps[r].len |->
                                            PadCell(ps[r].len + i - 1)]]
  IN [e EXCEPT !.cache = padded,
               !.own = [r \in DOMAIN ps |-> SubSeq(padded[r], 1, ps[r].len)],
               !.lens = [r \in DOMAIN ps |-> ps[r].len]]

PrefixForward(e, list, ps) ==
  IF list /\ Len(ps) > 1
    THEN PrefixRagged(e, ps)
    ELSE [e EXCEPT !.cache = [r \in 1 .. e.batch |-> PrefixCells(ps[1])],
                   !.lens = [r \in 1 .. e.batch |-> ps[1].len]]

(* Uniform starts use the shared cache, ragged ones each row's own. *)
BlockForward(e, toks, starts) ==
  LET at == starts.at
      base == [r \in DOMAIN at |->
                 Crop(IF AllEqual(at) THEN e.cache[r] ELSE e.own[r], at[r])]
      cells == [r \in DOMAIN at |-> BlockCells(r, toks[r], Len(base[r]))]
      cols == [r \in DOMAIN at |-> base[r] \o cells[r]]
  IN [e EXCEPT !.cache = IF AllEqual(at) THEN cols ELSE @,
               !.own = IF AllEqual(at) THEN @ ELSE cols,
               !.out = cells, !.seen = cols]

AdvanceCache(e, bl) == [e EXCEPT !.lens = [r \in DOMAIN e.lens |-> e.lens[r] + bl]]

CanReuse(e, maxSeq, batch) == e.maxSeq >= maxSeq /\ e.batch = batch

Reset(e) == NewEngine(e.maxSeq, e.batch)
=============================================================================
