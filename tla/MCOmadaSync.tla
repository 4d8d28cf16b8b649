----------------------------- MODULE MCOmadaSync -----------------------------
(* Instances of OmadaSync for TLC: no destinations, one group or two.      *)
EXTENDS OmadaSync

CONSTANTS c1, c2

SomeLists == {<<>>, <<c1>>, <<c1, c2>>, <<c2, c1>>}
FourIds == 1 .. 4
=============================================================================
