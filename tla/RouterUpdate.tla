---------------------------- MODULE RouterUpdate ----------------------------
(***************************************************************************)
(* What SyncService relies on when it calls a driver that rolls back: a    *)
(* run is one step.  It leaves the router as the feed asks and reports     *)
(* success, or fails and leaves nothing half done, or reports that it      *)
(* could do neither (a PartialUpdateError whose rollback did not complete),*)
(* or ends without a report.                                               *)
(***************************************************************************)
CONSTANTS
    States,       \* what a router may enforce
    Goals,        \* what the feed may ask for
    Fits(_, _)    \* Fits(s, g): state s is what goal g asks for

VARIABLES
    remote,       \* the state of the router, between runs
    goal,         \* what the feed asks for
    report,       \* what the last run said of itself
    misled,       \* a request of this run did not do what it reported
    edited        \* somebody else has changed the router since it began

vars == <<remote, goal, report, misled, edited>>

Reports == {"none", "success", "restored", "error", "partial", "unknown"}

Init ==
    /\ remote \in States /\ goal \in Goals
    /\ report = "none" /\ misled = FALSE /\ edited = FALSE

-----------------------------------------------------------------------------
(* How a run ends.  A failure that calls itself partial is the last one    *)
(* until somebody repaired the router.                                     *)
Run(how) ==
    /\ report # "partial" /\ report' = how
    /\ remote' \in States /\ misled' \in BOOLEAN /\ edited' \in BOOLEAN
    /\ UNCHANGED goal

(* A run reads back what it wrote: no false answer makes it succeed.       *)
Succeed == Run("success") /\ (edited' \/ Fits(remote', goal))

(* What it did it undid: a PartialUpdateError with a complete rollback, or *)
(* without a completed stage.                                              *)
Restore == Run("restored") /\ (misled' \/ edited' \/ remote' = remote)

(* Another error comes before the first change, or after the only one.     *)
FailCleanly ==
    /\ Run("error")
    /\ misled' \/ edited' \/ remote' = remote \/ Fits(remote', goal)

FailPartly == Run("partial")

Vanish == Run("unknown")

-----------------------------------------------------------------------------
(* A run begins, or a request misleads it, and nothing can be said of the  *)
(* router yet.                                                             *)
Begin == Run("none") /\ UNCHANGED remote

(* The feed changes, and the user.                                         *)
Ask ==
    /\ goal' \in Goals
    /\ report' = IF report = "partial" THEN report ELSE "none"
    /\ UNCHANGED <<remote, misled, edited>>

Edit ==
    /\ remote' \in States /\ edited' = TRUE /\ misled' \in BOOLEAN
    /\ UNCHANGED <<goal, report>>

Repair ==
    /\ report = "partial" /\ report' = "none"
    /\ remote' \in States
    /\ UNCHANGED <<goal, misled, edited>>

Next ==
    \/ Succeed \/ Restore \/ FailCleanly \/ FailPartly \/ Vanish
    \/ Begin \/ Ask \/ Edit \/ Repair

Spec == Init /\ [][Next]_vars
=============================================================================
