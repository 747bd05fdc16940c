----------------------------- MODULE ChunkStream -----------------------------
(***************************************************************************)
(* What an engine promises to the vocoder for each request: the committed  *)
(* tokens are handed over as contiguous ranges from the first token on, in *)
(* order and without gap or overlap, and the stream is closed once, by its *)
(* last element, either a chunk marked final or an empty end marker.       *)
(*                                                                         *)
(* A chunk is [from, to, final]: the tokens [from, to) are to be emitted.  *)
(* finalize_empty is the chunk with from = to.                             *)
(***************************************************************************)
EXTENDS Integers, Sequences

CONSTANT Requests
VARIABLE chunks   \* chunks[r]: what has been handed over for r so far

WellFormed(s) ==
  /\ \A i \in DOMAIN s :
       /\ s[i].from = (IF i = 1 THEN 0 ELSE s[i - 1].to)
       /\ s[i].to >= s[i].from
       /\ s[i].from = s[i].to => s[i].final
       /\ s[i].final => i = Len(s)

Extends(s, t) == Len(s) <= Len(t) /\ SubSeq(t, 1, Len(s)) = s

Init == chunks = [r \in Requests |-> <<>>]

\* One tick may hand over several chunks of several requests.
Next ==
  /\ DOMAIN chunks' = Requests
  /\ \A r \in Requests :
       Extends(chunks[r], chunks'[r]) /\ WellFormed(chunks'[r])

Spec == Init /\ [][Next]_chunks
=============================================================================
