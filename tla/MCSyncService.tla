--------------------------- MODULE MCSyncService ---------------------------
(* Instances of SyncService for TLC: the container's loop, a `--once` run  *)
(* and a dry run on one state directory.                                   *)
EXTENDS SyncService

CONSTANTS loop, once, dry

AllProcs == {loop, once, dry}
TwoProcs == {loop, once}
OneLoop == {loop}
OneDry == {dry}
NoProc == {}
=============================================================================
