--------------------------- MODULE MCLayerExtraction ---------------------------
(* Instances of LayerExtraction for TLC.                                   *)
EXTENDS LayerExtraction, TLC

\* Two images on one bottom layer: one removes a file of it and replaces another, one
\* brings back what the layer below has removed.
MCBase == {<<"bottom", "edit">>, <<"bottom", "edit", "restore">>}
MCFiles == [l \in {"bottom", "edit", "restore"} |->
    CASE l = "bottom" -> {"f", "g"} [] l = "edit" -> {"g"} [] l = "restore" -> {"f"}]
MCGone == [l \in {"bottom", "edit", "restore"} |-> IF l = "edit" THEN {"f"} ELSE {}]

Symmetry == Permutations(Build)
================================================================================
