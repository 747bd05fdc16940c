----------------------------- MODULE AudioStream -----------------------------
(***************************************************************************)
(* What a caller's sink is promised (Request.sink in server/engine.py):    *)
(* the chunks of a request in order, each once, then None, and nothing     *)
(* behind it. A chunk is delivered with the number of the chunk whose tail *)
(* has been blended into its beginning; only the first has none.           *)
(***************************************************************************)
EXTENDS Integers, Sequences

CONSTANTS Requests, Close
VARIABLE delivered   \* delivered[r]: what the sink of r has been called with

WellFormed(s) ==
  \A i \in DOMAIN s :
    IF s[i] = Close THEN i = Len(s) ELSE s[i] = [chunk |-> i, tail |-> i - 1]

Extends(s, t) == Len(s) <= Len(t) /\ SubSeq(t, 1, Len(s)) = s

Init == delivered = [r \in Requests |-> <<>>]

Next ==
  /\ DOMAIN delivered' = Requests
  /\ \A r \in Requests :
       Extends(delivered[r], delivered'[r]) /\ WellFormed(delivered'[r])

Spec == Init /\ [][Next]_delivered
=============================================================================
