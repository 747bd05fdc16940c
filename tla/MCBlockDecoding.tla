-------------------------- MODULE MCBlockDecoding ---------------------------
(***************************************************************************)
(* Small calls for BlockDecoding: blocks of three tokens, up to two whole  *)
(* blocks and a shorter one, two user rows and their null rows.            *)
(***************************************************************************)
EXTENDS BlockDecoding

Call(cross, guided, graph, prefix, len, ids) ==
  [cross |-> cross, guided |-> guided, graph |-> graph,
   prefix |-> prefix, speech |-> len, ids |-> ids]

(* One text with guidance; one row; one text in two rows; two texts of unequal  *)
(* and of equal prefix.  Lengths that are no multiple of the block end in a    *)
(* shorter block, which never runs as a graph.  The one row and the two rows of *)
(* unequal prefix also sample ids that the codec lacks.                        *)
SameText == Call(FALSE, TRUE, TRUE, <<2, 2>>, <<4, 4>>, {"tok", "stop"})
OneRow == Call(FALSE, FALSE, TRUE, <<1>>, <<7>>, {"tok", "special", "stop"})
Plain == Call(FALSE, FALSE, TRUE, <<3, 3>>, <<6, 6>>, {"tok", "stop"})
Ragged == Call(TRUE, TRUE, TRUE, <<1, 3>>, <<7, 2>>, {"tok", "special", "stop"})
Uneven == Call(TRUE, FALSE, FALSE, <<2, 2>>, <<4, 7>>, {"tok", "stop"})

MCWorkload ==
  [b \in {"flashinfer", "torch", "mlx"} |->
     CASE b = "flashinfer" -> {SameText, OneRow, Plain, Ragged}
       [] b = "torch" -> {SameText, Uneven}
       [] b = "mlx" -> {SameText, Ragged}]
MCRaggedTorch == [b \in {"torch"} |-> {Ragged}]
=============================================================================
