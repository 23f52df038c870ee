--------------------------- MODULE MCLspHandlers ---------------------------
(* Instances of LspHandlers for TLC. *)
EXTENDS LspHandlers

CONSTANTS f1, f2, o1

TwoFiles == {f1, f2}
\* Settings that reach the server drop units even when the options are the same.
MCOptions == {o1}

\* Keys float4 and float41 differ; float41 is also the key of float, 41.
OneItem == {[label |-> "float", index |-> 4]}
EqualKeys == {[label |-> "float4", index |-> 1], [label |-> "float", index |-> 41]}

FileSymmetry == Permutations(Files)
=============================================================================
