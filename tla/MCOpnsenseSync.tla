--------------------------- MODULE MCOpnsenseSync ---------------------------
(* Instances of OpnsenseSync for TLC: two destination lists and the empty  *)
(* one.                                                                    *)
EXTENDS OpnsenseSync

CONSTANTS d1, d2, none

TwoLists == {d1, d2, none}
=============================================================================
