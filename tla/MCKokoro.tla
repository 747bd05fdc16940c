------------------------------ MODULE MCKokoro ------------------------------
(***************************************************************************)
(* Three calls: two share a text of one segment, the second of them slow,  *)
(* which narrows its limit; the third can join the first in a batch, and   *)
(* no forward accepts its second segment.                                  *)
(***************************************************************************)
EXTENDS Kokoro
CONSTANTS c1, c2, c3, t1, t2

MCCallers == {c1, c2, c3}
MCTexts == {t1, t2}
MCTextOf == [c \in MCCallers |-> IF c = c3 THEN t2 ELSE t1]
MCSegments == [t \in MCTexts |-> IF t = t1 THEN <<1>> ELSE <<1, 9>>]
=============================================================================
