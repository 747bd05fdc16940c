------------------------------ MODULE MCVocoder ------------------------------
(* Instances of Vocoder for TLC: a first chunk of one token.                 *)
EXTENDS Vocoder, TLC

C(from, to) == [from |-> from, to |-> to, final |-> FALSE]
Last(from, to) == [from |-> from, to |-> to, final |-> TRUE]

CONSTANTS r1, r2

Plain(where) ==
  [where |-> where, topup_sizes |-> <<>>, chunk_second |-> 0, topup_until |-> 1]
TopupSizes == [Plain("in_process") EXCEPT !.topup_sizes = <<2, 2>>]
TopupUntil == [Plain("pool") EXCEPT !.chunk_second = 2, !.topup_until = 3]

\* Three chunks, with top-ups among them where there are some; and a request
\* of two chunks that may fail.
MCRequests == {r1, r2}
MCScript ==
  r1 :> <<C(0, 1), C(1, 3), Last(3, 5)>> @@
  r2 :> <<C(0, 1), Last(1, 3)>>
MCMayFail == {r2}
MCDeployments ==
  {Plain("in_process"), Plain("pool"), Plain("split"), TopupSizes, TopupUntil}

\* One request, with all its tokens in the first chunk.
MCOne == {r1}
MCEndScript == r1 :> <<C(0, 1), Last(1, 1)>>
MCNobody == {}
MCInProcess == {Plain("in_process")}
=============================================================================
