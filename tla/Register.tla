------------------------------ MODULE Register ------------------------------
(***************************************************************************)
(* What StateStore promises: "Persist operational state atomically".  The  *)
(* file holds one whole record, replaced by another in one step or not at  *)
(* all.  A power failure may bring back the one that was durable.          *)
(***************************************************************************)
CONSTANTS
    Contents,  \* what a reader may find under the name of the file
    Records,   \* those that a write stores
    Nothing,   \* stands for a record when no write is under way
    Missing,   \* there is no such file
    Foreign    \* contents that nobody but a stranger wrote

VARIABLES
    value,    \* what a reader finds
    durable,  \* what one finds after a power failure
    request   \* the record that a write under way may store, or Nothing

vars == <<value, durable, request>>

TypeOK == value \in Contents /\ durable \in Contents /\ request \in Records \cup {Nothing}

Init == value = Missing /\ durable = Missing /\ request = Nothing

(* A write is asked for; it is done once, or given up.                     *)
Ask == request = Nothing /\ request' \in Records /\ UNCHANGED <<value, durable>>
Store ==
    /\ request # Nothing
    /\ value' = request /\ request' = Nothing
    /\ UNCHANGED durable
GiveUp == request' = Nothing /\ UNCHANGED <<value, durable>>

(* A reader moves a file that is no record aside.                          *)
Discard == value \in Foreign /\ value' = Missing /\ UNCHANGED <<durable, request>>

Flush == durable' = value /\ UNCHANGED <<value, request>>
PowerFails == value' = durable /\ request' = Nothing /\ UNCHANGED durable
Tamper == value' \in Foreign \cup {Missing} /\ UNCHANGED <<durable, request>>

Next == Ask \/ Store \/ GiveUp \/ Discard \/ Flush \/ PowerFails \/ Tamper

Spec == Init /\ [][Next]_vars
=============================================================================
