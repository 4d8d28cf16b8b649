------------------------------ MODULE MCReport ------------------------------
(* Two providers for TLC, and the snapshots of Report as its records.      *)
EXTENDS Report

TwoProviders == <<"gotify", "ntfy">>
MCRecords == Snapshot
MCNoRecord == EmptySnapshot
=============================================================================
