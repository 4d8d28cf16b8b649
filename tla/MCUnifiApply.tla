---------------------------- MODULE MCUnifiApply ----------------------------
(* Instances of UnifiApply for TLC: two destination lists and the empty    *)
(* one.                                                                    *)
EXTENDS UnifiApply

CONSTANTS d1, d2, none

TwoLists == {d1, d2, none}
=============================================================================
