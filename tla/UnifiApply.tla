----------------------------- MODULE UnifiApply -----------------------------
(***************************************************************************)
(* The update of an existing UniFi traffic route: BaseRouteBackend's       *)
(* build_plan and verify, and apply_plan with its rollback, run after run  *)
(* against a controller that may fail a request after carrying it out, or  *)
(* acknowledge one and ignore it, and a user who edits the same objects.   *)
(*                                                                         *)
(* A route is "direct" (it holds its destinations) or "linked" (they are   *)
(* in a traffic matching list, which is a second object and a second       *)
(* request).  Runs do not overlap: SyncService has the lock.               *)
(***************************************************************************)
EXTENDS Naturals, Sequences, SequencesExt

CONSTANTS
    Dests,      \* the destination lists, as the feed normalizes them
    NoDest,     \* the empty one
    MaxFaults,  \* bound: requests that do not do what they report
    MaxEdits,   \* bound: edits by the user, and changes of the feed
    MaxCrashes  \* bound: processes killed

ASSUME DestsAssumption == NoDest \in Dests
ASSUME BoundsAssumption ==
    MaxFaults \in Nat /\ MaxEdits \in Nat /\ MaxCrashes \in Nat

Stage == {"route", "linked_list"}

(* What the feed asks of the route.                                        *)
Setting == [enabled : BOOLEAN, dest : Dests]

(* The route with its list.  own stands for the fields that are the user's *)
(* and that the payload of an update repeats: the description, the         *)
(* network, the devices, the kill switch.                                  *)
Own == {"as_made", "edited"}
Route == [enabled : BOOLEAN, dest : Dests, own : Own]

(* models.UpdatePlan: the route as it was read and as it is to be, and     *)
(* which of the two objects has a payload.                                 *)
Plan == [old : Route, new : Route, route : BOOLEAN, linked_list : BOOLEAN]

VARIABLES
    kind,     \* "direct" or "linked"
    remote,   \* the route that the controller enforces
    wanted,   \* the setting the feed asks for
    pc,       \* where the run is
    plan,     \* its plan
    todo,     \* the operations still to send
    done,     \* completed_steps
    undo,     \* the rollback steps still to send
    outcome,  \* how the last run ended
    faults    \* faults, edits and crashes so far

(* History variables.                                                      *)
VARIABLES
    before,     \* remote when the run started
    misled,     \* a request of this run did not do what it reported, or
                \* somebody edited the route during the run
    edited,     \* somebody has edited the route since the run started
    chosen,     \* what the user wrote into the fields that are his
    overtaken   \* he did so while a run was under way

users == <<edited, chosen, overtaken>>
vars == <<kind, remote, wanted, pc, plan, todo, done, undo, outcome, faults,
          before, misled, users>>
runVars == <<plan, todo, done, undo>>

Outcomes == {"none", "noop", "committed", "rolled_back", "nothing_done",
             "partial", "read_failed", "crashed", "uncaught"}

TypeOK ==
    /\ kind \in {"direct", "linked"}
    /\ remote \in Route /\ wanted \in Setting /\ before \in Route
    /\ pc \in {"idle", "readList", "apply", "verify", "verifyList", "rollback"}
    /\ plan \in Plan
    /\ todo \in Seq(Stage) /\ done \in Seq(Stage) /\ undo \in Seq(Stage)
    /\ outcome \in Outcomes
    /\ faults \in [{"request", "edit", "crash"} -> Nat]
    /\ misled \in BOOLEAN /\ edited \in BOOLEAN
    /\ chosen \in Own /\ overtaken \in BOOLEAN

Nothing == [enabled |-> FALSE, dest |-> NoDest, own |-> "as_made"]
NoPlan == [old |-> Nothing, new |-> Nothing, route |-> FALSE, linked_list |-> FALSE]

Init ==
    /\ kind \in {"direct", "linked"}
    /\ chosen = "as_made" /\ overtaken = FALSE
    /\ remote \in {r \in Route : r.own = chosen} /\ wanted \in Setting
    /\ pc = "idle" /\ outcome = "none"
    /\ plan = NoPlan /\ todo = <<>> /\ done = <<>> /\ undo = <<>>
    /\ faults = [k \in {"request", "edit", "crash"} |-> 0]
    /\ before = remote /\ misled = FALSE /\ edited = FALSE

-----------------------------------------------------------------------------
(* The plan                                                                *)

(* A disabled route whose feed is empty keeps the destinations it has.     *)
PreserveDestinations(s) == ~s.enabled /\ s.dest = NoDest

(* Mutant: destinations are compared only when the route is to be enabled. *)
MakePlanIfEnabled(k, o, s) ==
    LET moved == s.enabled /\ o.dest # s.dest
    IN  [old |-> o,
         new |-> [o EXCEPT !.enabled = s.enabled, !.dest = IF moved THEN s.dest ELSE @],
         route |-> o.enabled # s.enabled \/ (k = "direct" /\ moved),
         linked_list |-> k = "linked" /\ moved]

(* The run wants s and has read o; k is the kind of the route.             *)
MakePlan(k, o, s) ==
    LET moved == ~PreserveDestinations(s) /\ o.dest # s.dest
    IN  [old |-> o,
         new |-> [o EXCEPT !.enabled = s.enabled, !.dest = IF moved THEN s.dest ELSE @],
         route |-> o.enabled # s.enabled \/ (k = "direct" /\ moved),
         linked_list |-> k = "linked" /\ moved]

(* Mutant: the route always comes first.                                   *)
OperationsRouteFirst(p) ==
    (IF p.route THEN <<"route">> ELSE <<>>)
    \o (IF p.linked_list THEN <<"linked_list">> ELSE <<>>)

(* The order of the requests: a route that is going to be disabled is      *)
(* disabled before its list changes, any other after.                      *)
Operations(p) ==
    CASE p.route /\ p.linked_list ->
             IF p.old.enabled /\ ~p.new.enabled
             THEN <<"route", "linked_list">> ELSE <<"linked_list", "route">>
      [] p.linked_list /\ ~p.route -> <<"linked_list">>
      [] p.route /\ ~p.linked_list -> <<"route">>
      [] OTHER -> <<>>

(* Mutant: the payload leaves out what the run does not change.            *)
PutOfChanges(stage, r) ==
    IF stage = "linked_list" THEN [remote EXCEPT !.dest = r.dest]
    ELSE [r EXCEPT !.own = "as_made",
                   !.dest = IF kind = "direct" THEN @ ELSE remote.dest]

(* What a request does to the controller: the payload of the route is a    *)
(* copy of the record that was read, with its changes, and replaces what   *)
(* the controller has; the list of a linked route is another object.       *)
Put(stage, r) ==
    IF stage = "linked_list" THEN [remote EXCEPT !.dest = r.dest]
    ELSE [r EXCEPT !.dest = IF kind = "direct" THEN @ ELSE remote.dest]

Fault(k, bound) == /\ faults[k] < bound
                   /\ faults' = [faults EXCEPT ![k] = @ + 1]

(* A request for `after`: reported says whether the client saw a success.  *)
Request(after, reported) ==
    \/ /\ reported /\ remote' = after
       /\ UNCHANGED <<faults, misled>>
    \/ /\ ~reported /\ UNCHANGED <<remote, misled>>
       /\ Fault("request", MaxFaults)
    \/ /\ remote' = IF reported THEN remote ELSE after
       /\ misled' = TRUE
       /\ Fault("request", MaxFaults)

Finish(how) ==
    /\ pc' = "idle"
    /\ outcome' = how
    /\ plan' = NoPlan /\ todo' = <<>> /\ done' = <<>> /\ undo' = <<>>

(* The plan is made; apply_plan is called only when it has changes.        *)
Planned(p) ==
    IF Operations(p) = <<>>
    THEN Finish("noop")
    ELSE /\ pc' = "apply" /\ plan' = p /\ todo' = Operations(p)
         /\ done' = <<>> /\ undo' = <<>> /\ outcome' = "none"

-----------------------------------------------------------------------------
(* A run                                                                   *)

(* choose_existing_route_backend reads the route.                          *)
ReadRoute ==
    /\ pc = "idle"
    /\ before' = remote /\ misled' = FALSE /\ edited' = FALSE
    /\ IF kind = "direct"
       THEN Planned(MakePlan(kind, remote, wanted))
       ELSE /\ pc' = "readList" /\ outcome' = "none"
            /\ plan' = [NoPlan EXCEPT !.old = remote]
            /\ UNCHANGED <<todo, done, undo>>
    /\ UNCHANGED <<kind, remote, wanted, faults, chosen, overtaken>>

(* LinkedTrafficMatchingListHelper.build_update reads the list.            *)
ReadList ==
    /\ pc = "readList"
    /\ Planned(MakePlan(kind, [plan.old EXCEPT !.dest = remote.dest], wanted))
    /\ UNCHANGED <<kind, remote, wanted, faults, before, misled, users>>

ReadListFails ==
    /\ pc = "readList"
    /\ Fault("request", MaxFaults)
    /\ Finish("read_failed")
    /\ UNCHANGED <<kind, remote, wanted, before, misled, users>>

SendOperation ==
    /\ pc = "apply" /\ todo # <<>>
    /\ Request(Put(Head(todo), plan.new), TRUE)
    /\ done' = Append(done, Head(todo))
    /\ todo' = Tail(todo)
    /\ UNCHANGED <<kind, wanted, pc, plan, undo, outcome, before, users>>

StartVerify ==
    /\ pc = "apply" /\ todo = <<>>
    /\ pc' = "verify"
    /\ UNCHANGED <<kind, remote, wanted, runVars, outcome, faults, before, misled, users>>

(* Mutant: only the last operation is undone.                              *)
StartRollbackOfLast ==
    IF done = <<>>
    THEN Finish("nothing_done")
    ELSE /\ pc' = "rollback" /\ undo' = <<Last(done)>>
         /\ UNCHANGED <<plan, todo, done, outcome>>

(* The handler: what completed is undone in reverse order.                 *)
StartRollback ==
    IF done = <<>>
    THEN Finish("nothing_done")
    ELSE /\ pc' = "rollback" /\ undo' = Reverse(done)
         /\ UNCHANGED <<plan, todo, done, outcome>>

OperationFails ==
    /\ pc = "apply" /\ todo # <<>>
    /\ Request(Put(Head(todo), plan.new), FALSE)
    /\ StartRollback
    /\ UNCHANGED <<kind, wanted, before, users>>

(* BaseRouteBackend.verify: the route, then its linked list.  Nothing is   *)
(* asked of the destinations when they were preserved.                     *)
VerifyRoute ==
    /\ pc = "verify"
    /\ IF remote.enabled # plan.new.enabled
       THEN StartRollback
       ELSE IF PreserveDestinations(wanted)
       THEN Finish("committed")
       ELSE IF kind = "linked"
       THEN pc' = "verifyList" /\ UNCHANGED <<runVars, outcome>>
       ELSE IF remote.dest = plan.new.dest THEN Finish("committed") ELSE StartRollback
    /\ UNCHANGED <<kind, remote, wanted, faults, before, misled, users>>

VerifyList ==
    /\ pc = "verifyList"
    /\ IF remote.dest = plan.new.dest THEN Finish("committed") ELSE StartRollback
    /\ UNCHANGED <<kind, remote, wanted, faults, before, misled, users>>

VerifyReadFails ==
    /\ pc \in {"verify", "verifyList"}
    /\ Fault("request", MaxFaults)
    /\ StartRollback
    /\ UNCHANGED <<kind, remote, wanted, before, misled, users>>

SendRollback ==
    /\ pc = "rollback"
    /\ Request(Put(Head(undo), plan.old), TRUE)
    /\ IF Len(undo) > 1
       THEN undo' = Tail(undo) /\ UNCHANGED <<pc, plan, todo, done, outcome>>
       ELSE Finish("rolled_back")
    /\ UNCHANGED <<kind, wanted, before, users>>

(* Mutant: the report names the step instead of the outcome.               *)
RollbackFailsAsStage ==
    /\ pc = "rollback"
    /\ Request(Put(Head(undo), plan.old), FALSE)
    /\ Finish(Head(undo))
    /\ UNCHANGED <<kind, wanted, before, users>>

(* The first rollback step that fails ends the rollback.                   *)
RollbackFails ==
    /\ pc = "rollback"
    /\ Request(Put(Head(undo), plan.old), FALSE)
    /\ Finish("partial")
    /\ UNCHANGED <<kind, wanted, before, users>>

(* The requests that were sent when an answer is awaited: none, or the one *)
(* of this step.                                                           *)
MaybeSent ==
    {remote,
     CASE pc = "apply" /\ todo # <<>> -> Put(Head(todo), plan.new)
       [] pc = "rollback" -> Put(Head(undo), plan.old)
       [] OTHER -> remote}

(* UniFiClient.request reads the body of an HTTP error inside its handler: *)
(* a timeout there is no StopLigaError.  It passes the handler of          *)
(* apply_plan and ends the process, and nothing is undone.                 *)
ErrorBodyTimesOut ==
    /\ pc # "idle"
    /\ Fault("request", MaxFaults)
    /\ remote' \in MaybeSent
    /\ Finish("uncaught")
    /\ UNCHANGED <<kind, wanted, before, misled, users>>

Crash ==
    /\ pc # "idle"
    /\ Fault("crash", MaxCrashes)
    /\ Finish("crashed")
    /\ UNCHANGED <<kind, remote, wanted, before, misled, users>>

-----------------------------------------------------------------------------
(* The environment: the feed changes between two runs, a user edits the    *)
(* route or its list at any time.                                          *)

FeedChanges ==
    /\ pc = "idle"
    /\ Fault("edit", MaxEdits)
    /\ wanted' \in Setting \ {wanted}
    /\ outcome' = IF outcome = "partial" THEN outcome ELSE "none"
    /\ UNCHANGED <<kind, remote, pc, runVars, before, misled, users>>

UserEdits ==
    /\ Fault("edit", MaxEdits)
    /\ \E b \in BOOLEAN, d \in Dests :
           remote' \in {[remote EXCEPT !.enabled = b], [remote EXCEPT !.dest = d]}
    /\ misled' = TRUE /\ edited' = TRUE
    /\ UNCHANGED <<kind, wanted, pc, runVars, outcome, before, chosen, overtaken>>

(* The user edits a field of the route that StopLiga does not manage.      *)
UserEditsOwnFields ==
    /\ Fault("edit", MaxEdits)
    /\ chosen' \in Own
    /\ remote' = [remote EXCEPT !.own = chosen']
    /\ misled' = TRUE /\ edited' = TRUE /\ overtaken' = (pc # "idle")
    /\ UNCHANGED <<kind, wanted, pc, runVars, outcome, before>>

(* An operator repairs the route and removes the flag.                     *)
OperatorRepairs ==
    /\ outcome = "partial"
    /\ outcome' = "none"
    /\ remote' \in {r \in Route : r.own = chosen}
    /\ before' = remote'
    /\ UNCHANGED <<kind, wanted, pc, runVars, faults, misled, users>>

(* An outcome that asks for reconciliation stops the service; the steps of *)
(* the service otherwise.                                                  *)
ServiceStep ==
    \/ outcome # "partial" /\ ReadRoute
    \/ ReadList \/ ReadListFails
    \/ SendOperation \/ OperationFails
    \/ StartVerify \/ VerifyRoute \/ VerifyList \/ VerifyReadFails
    \/ SendRollback \/ RollbackFails
    \/ ErrorBodyTimesOut

Next ==
    \/ ServiceStep \/ Crash
    \/ FeedChanges \/ UserEdits \/ UserEditsOwnFields \/ OperatorRepairs

Spec == Init /\ [][Next]_vars

(* A run goes on, and the loop starts the next: all requests time out.     *)
FairSpec == Spec /\ WF_vars(ServiceStep)

-----------------------------------------------------------------------------
(* Properties                                                              *)

(* The setting is what the feed asks for, as build_plan understands it.    *)
Satisfies(s, w) ==
    s.enabled = w.enabled /\ (PreserveDestinations(w) \/ s.dest = w.dest)

(* The route never sends the wrong destinations through the VPN: in a run  *)
(* that enables the route it is enabled only with the new list, in a run   *)
(* that disables it it is enabled only with the old one; at every step,    *)
(* rollback and kill included, unless a request misled the run.            *)
EnabledOnlyWithItsList ==
    ~misled /\ pc \in {"apply", "verify", "verifyList", "rollback"}
        /\ remote.enabled
        /\ plan.old.enabled # plan.new.enabled
    => remote.dest = IF plan.new.enabled THEN plan.new.dest ELSE plan.old.dest

(* What the user writes into the fields that are his survives every update *)
(* and every rollback, unless he wrote it while a run was under way, which *)
(* then sends the record it had read before.                               *)
EditsSurvive == remote.own = chosen \/ overtaken

(* With faults that end, the route ends up as the feed asks, run after     *)
(* run, or the service stopped to ask for reconciliation.                  *)
Converges == <>[](Satisfies(remote, wanted) \/ outcome = "partial")

(* A run is one step of the contract that SyncService relies on, whatever  *)
(* its requests are: between the first read and the report the router      *)
(* counts as it was before.  A commit is real, even when the controller    *)
(* acknowledged a request and ignored it; a run that was rolled back, or   *)
(* did nothing, leaves the route as it found it; what is neither the old   *)
(* setting nor the wanted one is never left behind without a report that   *)
(* asks for reconciliation, but by a kill or an error nobody catches.      *)
Contract == INSTANCE RouterUpdate WITH
    States <- Route,
    Goals <- Setting,
    Fits <- Satisfies,
    remote <- IF pc = "idle" THEN remote ELSE before,
    goal <- wanted,
    report <- CASE outcome \in {"noop", "committed"} -> "success"
                [] outcome \in {"rolled_back", "nothing_done"} -> "restored"
                [] outcome = "read_failed" -> "error"
                [] outcome \in {"crashed", "uncaught"} -> "unknown"
                [] OTHER -> outcome,
    misled <- misled,
    edited <- edited

RunIsOneStep == Contract!Spec
=============================================================================
