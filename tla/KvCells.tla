------------------------------ MODULE KvCells ------------------------------
(***************************************************************************)
(* What the three inference engines of Chatterbox-Flash keep in their KV   *)
(* caches, and the arithmetic they share.  The key and value of a token    *)
(* are abstracted to where they come from: the prefix or row they were     *)
(* computed for, the position they were encoded at, and the token itself   *)
(* ("mask", "tok", "special" or "stop" for speech).  A hidden state is     *)
(* abstracted in the same way, to the token whose forward produced it.     *)
(***************************************************************************)
EXTENDS Integers, Sequences, FiniteSets

Cell(src, pos, tok) == [src |-> src, pos |-> pos, tok |-> tok]

(* Memory no forward of the present call has written, and a padding column. *)
Stale == Cell(0, 0, "stale")
PadCell(pos) == Cell(0, pos, "pad")

(* The largest of a sequence of numbers. *)
Largest(s) == CHOOSE m \in {s[i] : i \in DOMAIN s} : \A i \in DOMAIN s : s[i] <= m

CeilDiv(a, b) == (a + b - 1) \div b

(* The cells of one row's block: token i of the block at position from + i. *)
BlockCells(r, toks, from) == [i \in DOMAIN toks |-> Cell(r, from + i - 1, toks[i])]

(* The causal forward of a prefix of the given source and length. *)
PrefixCells(p) == [i \in 1 .. p.len |-> Cell(p.src, i - 1, "prefix")]

AllEqual(s) == \A i, j \in DOMAIN s : s[i] = s[j]
=============================================================================
