-------------------------------- MODULE Call --------------------------------
(***************************************************************************)
(* What the drivers take one call of a client for: a write is carried out  *)
(* at most once, at any time after it was sent, also after the call has    *)
(* failed; and a call succeeds only after it was carried out.              *)
(***************************************************************************)
EXTENDS Naturals

VARIABLES
    write,    \* the call changes something at the other end
    handled,  \* how often the other end carried it out
    outcome   \* "pending", "ok", or how it failed

vars == <<write, handled, outcome>>

Init == write \in BOOLEAN /\ handled = 0 /\ outcome = "pending"

CarryOut ==
    /\ write => handled = 0
    /\ handled' = handled + 1
    /\ UNCHANGED <<write, outcome>>

Succeed ==
    /\ outcome = "pending" /\ handled > 0
    /\ outcome' = "ok"
    /\ UNCHANGED <<write, handled>>

Fail ==
    /\ outcome = "pending"
    /\ outcome' \notin {"pending", "ok"}
    /\ UNCHANGED <<write, handled>>

Next == CarryOut \/ Succeed \/ Fail

Spec == Init /\ [][Next]_vars
=============================================================================
