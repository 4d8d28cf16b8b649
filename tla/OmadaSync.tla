------------------------------ MODULE OmadaSync ------------------------------
(***************************************************************************)
(* The Omada driver: OmadaRouterDriver.sync with its rollback and cleanup, *)
(* run after run.  The destinations are split over managed IP groups, one  *)
(* object and one request each, and a policy route refers to the groups by *)
(* id.  Groups are written first, the route last, what is left over is     *)
(* deleted after the route was verified.  Runs do not overlap: SyncService *)
(* has the lock.                                                           *)
(***************************************************************************)
EXTENDS Naturals, Sequences, SequencesExt, FiniteSets

CONSTANTS
    Lists,      \* the lists of chunks that the feed's destinations give
    MaxGroups,  \* OMADA_MAX_GROUPS
    GroupIds,   \* bound: ids of groups, used again
    MaxFaults,  \* bound: requests that do not do what they report
    MaxEdits,   \* bound: edits by the user, and changes of the feed
    MaxCrashes  \* bound: processes killed

Chunks == UNION {Range(l) : l \in Lists}

(* A longer list is an error before the first change, as in StartFails.    *)
ASSUME ListsAssumption ==
    /\ Lists \subseteq Seq(Chunks) /\ <<>> \in Lists
    /\ \A l \in Lists : Len(l) <= MaxGroups
ASSUME BoundsAssumption ==
    /\ MaxGroups \in Nat
    /\ MaxFaults \in Nat /\ MaxEdits \in Nat /\ MaxCrashes \in Nat

(* The controller has an id for a new group: one id for each other group,  *)
(* and the ids that a route may still hold of groups that are gone.        *)
ASSUME GroupIdsAssumption ==
    IsFiniteSet(GroupIds) => Cardinality(GroupIds) >= 2 * MaxGroups

(* A managed group: its name is its place in the list.                     *)
Name == 1 .. MaxGroups
Group == [id : GroupIds, name : Name, dest : Chunks]

Route == [exists : BOOLEAN, enabled : BOOLEAN, refs : SUBSET GroupIds]
NoRoute == [exists |-> FALSE, enabled |-> FALSE, refs |-> {}]

Controller == [groups : SUBSET Group, route : Route]

(* GroupMutation, and the group it restores or deletes.                    *)
Mutation == [action : {"restore", "delete"}, group : Group]

VARIABLES
    remote,    \* the groups and the route of the controller
    wanted,    \* what the feed asks for
    pc,        \* where the run is
    seen,      \* what the run read when it started; the last one, when idle
    todo,      \* names of the groups still to write
    mutations, \* group_mutations
    routeDone, \* created_route, route_changed
    extra,     \* extra_group_ids still to delete
    outcome,   \* how the last run ended
    faults     \* faults, edits and crashes so far

(* History variables.                                                      *)
VARIABLES
    misled,    \* a request of this run did not do what it reported
    edited,    \* somebody else changed the route or a group
    unseen     \* the run made a route that it could not find afterwards

locals == <<todo, mutations, routeDone, extra>>
history == <<misled, edited, unseen>>
vars == <<remote, wanted, pc, seen, locals, outcome, faults, history>>

TypeOK ==
    /\ remote \in Controller /\ seen \in Controller
    /\ wanted \in [enabled : BOOLEAN, chunks : Lists]
    /\ pc \in {"idle", "disable", "checkDisabled", "groups", "route", "findRoute",
               "verify", "cleanup", "undoRoute", "undoGroups"}
    /\ todo \subseteq Name /\ mutations \in Seq(Mutation)
    /\ routeDone \in {"none", "created", "changed"}
    /\ extra \subseteq GroupIds
    /\ outcome \in {"none", "noop", "success", "dry_run", "error", "rolled_back",
                    "nothing_done", "partial", "crashed", "uncaught"}
    /\ faults \in [{"request", "edit", "crash"} -> Nat]
    /\ misled \in BOOLEAN /\ edited \in BOOLEAN /\ unseen \in BOOLEAN

Init ==
    /\ remote = [groups |-> {}, route |-> NoRoute] /\ seen = remote
    /\ wanted \in [enabled : BOOLEAN, chunks : Lists]
    /\ pc = "idle" /\ outcome = "none"
    /\ todo = {} /\ mutations = <<>> /\ routeDone = "none" /\ extra = {}
    /\ faults = [k \in {"request", "edit", "crash"} |-> 0]
    /\ misled = FALSE /\ edited = FALSE /\ unseen = FALSE

-----------------------------------------------------------------------------
(* Helpers *)

Fault(k, bound) == /\ faults[k] < bound
                   /\ faults' = [faults EXCEPT ![k] = @ + 1]

(* A request that would bring the controller to `after`: reported says     *)
(* whether the client saw a success.                                       *)
Request(after, reported) ==
    \/ /\ reported /\ remote' = after
       /\ UNCHANGED <<faults, misled>>
    \/ /\ ~reported /\ UNCHANGED <<remote, misled>>
       /\ Fault("request", MaxFaults)
    \/ /\ remote' = IF reported THEN remote ELSE after
       /\ misled' = TRUE
       /\ Fault("request", MaxFaults)

Finish(how) ==
    /\ pc' = "idle" /\ outcome' = how
    /\ todo' = {} /\ mutations' = <<>> /\ routeDone' = "none" /\ extra' = {}

Goto(to) == pc' = to /\ UNCHANGED outcome

Destinations(c, refs) == {g.dest : g \in {h \in c.groups : h.id \in refs}}
Named(c, n) == {g \in c.groups : g.name = n}

DesiredNames == DOMAIN wanted.chunks
ExtraGroups(c) == {g.id : g \in {h \in c.groups : h.name \notin DesiredNames}}

(* Mutant: a group that exists is not compared.                            *)
GroupsMissing(c) == {n \in DesiredNames : Named(c, n) = {}}

(* The groups that a run has to make or to update.                         *)
GroupsToWrite(c) ==
    {n \in DesiredNames : \A g \in Named(c, n) : g.dest # wanted.chunks[n]}

(* final_destination_ids: groups that were there, and those made since.    *)
FinalIds ==
    {g.id : g \in {h \in seen.groups : h.name \in DesiredNames}}
    \cup {m.group.id : m \in {k \in Range(mutations) : k.action = "delete"}}

DesiredRoute == [exists |-> TRUE, enabled |-> wanted.enabled, refs |-> FinalIds]

SetRoute(r) == [remote EXCEPT !.route = r]
SetGroup(g) == [remote EXCEPT !.groups = {h \in @ : h.id # g.id} \cup {g}]
DeleteGroup(id) == [remote EXCEPT !.groups = {h \in @ : h.id # id}]

NewId == CHOOSE i \in GroupIds :
    /\ i \notin remote.route.refs \cup seen.route.refs
    /\ \A g \in remote.groups \cup seen.groups : g.id # i

-----------------------------------------------------------------------------
(* A run: what it reads, and what it decides                               *)

(* list_groups and list_policy_routes.  Without destinations the route is  *)
(* disabled, whatever the status says; a run without anything to change    *)
(* ends here.                                                              *)
Start ==
    LET reusable == {g.id : g \in {h \in remote.groups : h.name \in DesiredNames}}
        route == [exists |-> TRUE, enabled |-> wanted.enabled, refs |-> reusable]
    IN  /\ pc = "idle" /\ outcome # "partial"
        /\ seen' = remote
        /\ misled' = FALSE /\ unseen' = FALSE
        /\ IF wanted.chunks = <<>>
           THEN IF remote.route.enabled
                THEN pc' = "disable" /\ outcome' = "none" /\ UNCHANGED locals
                ELSE Finish("noop")
           ELSE IF /\ GroupsToWrite(remote) = {} /\ ExtraGroups(remote) = {}
                   /\ remote.route = route
           THEN Finish("noop")
           ELSE /\ pc' = "groups" /\ outcome' = "none"
                /\ todo' = GroupsToWrite(remote)
                /\ extra' = ExtraGroups(remote)
                /\ UNCHANGED <<mutations, routeDone>>
        /\ UNCHANGED <<remote, wanted, faults, edited>>

(* A read fails or times out, or the site, the target or a network is not  *)
(* found.                                                                  *)
StartFails ==
    /\ pc = "idle" /\ outcome # "partial"
    /\ Fault("request", MaxFaults)
    /\ seen' = remote /\ outcome' \in {"error", "uncaught"} /\ misled' = FALSE /\ unseen' = FALSE
    /\ UNCHANGED <<remote, wanted, pc, locals, edited>>

(* A dry run reads, and reports what it would do.                          *)
DryRun ==
    /\ pc = "idle" /\ outcome # "partial"
    /\ seen' = remote /\ outcome' = "dry_run" /\ misled' = FALSE /\ unseen' = FALSE
    /\ UNCHANGED <<remote, wanted, pc, locals, faults, edited>>

-----------------------------------------------------------------------------
(* A run without destinations                                              *)

DisableRoute ==
    /\ pc = "disable"
    /\ Request(SetRoute([seen.route EXCEPT !.enabled = FALSE]), TRUE)
    /\ Goto("checkDisabled")
    /\ UNCHANGED <<wanted, seen, locals, edited, unseen>>

CheckDisabled ==
    /\ pc = "checkDisabled"
    /\ Finish(IF remote.route = [seen.route EXCEPT !.enabled = FALSE]
              THEN "success" ELSE "error")
    /\ UNCHANGED <<remote, wanted, seen, faults, history>>

(* One request, and so an error like any other.                            *)
DisableFails ==
    /\ pc \in {"disable", "checkDisabled"}
    /\ IF pc = "disable"
       THEN Request(SetRoute([seen.route EXCEPT !.enabled = FALSE]), FALSE)
       ELSE Fault("request", MaxFaults) /\ UNCHANGED <<remote, misled>>
    /\ Finish("error")
    /\ UNCHANGED <<wanted, seen, edited, unseen>>

-----------------------------------------------------------------------------
(* A run that writes groups and the route                                  *)

(* The group of the next name: an update of the one that was read, or a    *)
(* new one.                                                                *)
NextGroup ==
    LET n == Min(todo)
    IN  IF Named(seen, n) = {}
        THEN [id |-> NewId, name |-> n, dest |-> wanted.chunks[n]]
        ELSE [(CHOOSE g \in Named(seen, n) : TRUE) EXCEPT !.dest = wanted.chunks[n]]

(* What undoes it.                                                         *)
Undo(g) ==
    IF Named(seen, g.name) = {}
    THEN [action |-> "delete", group |-> g]
    ELSE [action |-> "restore", group |-> CHOOSE h \in Named(seen, g.name) : TRUE]

WriteGroup ==
    /\ pc = "groups" /\ todo # {}
    /\ IF Named(seen, Min(todo)) = {}
       THEN remote' = SetGroup(NextGroup) /\ UNCHANGED <<faults, misled>>
       ELSE Request(SetGroup(NextGroup), TRUE)
    /\ mutations' = Append(mutations, Undo(NextGroup))
    /\ todo' = todo \ {Min(todo)}
    /\ UNCHANGED <<wanted, pc, seen, routeDone, extra, outcome, edited, unseen>>

GroupsWritten ==
    /\ pc = "groups" /\ todo = {}
    /\ Goto(IF seen.route = DesiredRoute THEN "verify" ELSE "route")
    /\ UNCHANGED <<remote, wanted, seen, locals, faults, history>>

CreatePolicyRoute ==
    /\ pc = "route" /\ ~seen.route.exists
    /\ Request(SetRoute(DesiredRoute), TRUE)
    /\ Goto("findRoute")
    /\ UNCHANGED <<wanted, seen, locals, edited, unseen>>

(* Mutant: the route stays as the run made it.                             *)
RollbackGroupsOnly ==
    IF mutations = <<>> THEN Finish("nothing_done")
    ELSE Goto("undoGroups") /\ UNCHANGED locals

(* The handler of StopLigaError: the route, then the groups, in reverse    *)
(* order.                                                                  *)
Rollback ==
    /\ IF mutations = <<>> /\ routeDone = "none"
       THEN Finish("nothing_done")
       ELSE Goto(IF routeDone = "none" THEN "undoGroups" ELSE "undoRoute")
            /\ UNCHANGED locals

FindRoute ==
    /\ pc = "findRoute"
    /\ IF remote.route.exists
       THEN Goto("verify") /\ routeDone' = "created"
            /\ UNCHANGED <<todo, mutations, extra>>
       ELSE Rollback
    /\ UNCHANGED <<remote, wanted, seen, faults, history>>

UpdatePolicyRoute ==
    /\ pc = "route" /\ seen.route.exists
    /\ Request(SetRoute(DesiredRoute), TRUE)
    /\ Goto("verify") /\ routeDone' = "changed"
    /\ UNCHANGED <<wanted, seen, todo, mutations, extra, edited, unseen>>

(* The two lists are read again.                                           *)
Verify ==
    /\ pc = "verify"
    /\ IF /\ remote.route = DesiredRoute
          /\ Destinations(remote, remote.route.refs) = Range(wanted.chunks)
       THEN Goto("cleanup") /\ UNCHANGED locals
       ELSE Rollback
    /\ UNCHANGED <<remote, wanted, seen, faults, history>>

(* Mutant: what is left over stays.                                        *)
CleanupSkipped ==
    /\ pc = "cleanup" /\ extra # {}
    /\ extra' = {}
    /\ UNCHANGED <<remote, wanted, pc, seen, todo, mutations, routeDone, outcome,
                   faults, history>>

(* A failed deletion is only logged: the next run tries again.             *)
Cleanup ==
    /\ pc = "cleanup" /\ extra # {}
    /\ \E id \in extra :
           /\ Request(DeleteGroup(id), TRUE) \/ Request(DeleteGroup(id), FALSE)
           /\ extra' = extra \ {id}
    /\ UNCHANGED <<wanted, pc, seen, todo, mutations, routeDone, outcome, edited, unseen>>

Commit ==
    /\ pc = "cleanup" /\ extra = {}
    /\ Finish("success")
    /\ UNCHANGED <<remote, wanted, seen, faults, history>>

(* The effect that the request of this step has, when it has one.          *)
Effect ==
    CASE pc = "disable" -> SetRoute([seen.route EXCEPT !.enabled = FALSE])
      [] pc = "groups" /\ todo # {} -> SetGroup(NextGroup)
      [] pc = "route" -> SetRoute(DesiredRoute)
      [] OTHER -> remote

(* A request fails with a StopLigaError.  A route that was made and cannot *)
(* be found is not created_route: the rollback leaves it.                  *)
RequestFails ==
    /\ pc \in {"groups", "route", "findRoute", "verify"}
    /\ pc = "groups" => todo # {}
    /\ IF Effect = remote
       THEN Fault("request", MaxFaults) /\ UNCHANGED <<remote, misled>>
       ELSE Request(Effect, FALSE)
    /\ unseen' = (unseen \/ (pc = "findRoute" /\ remote.route.exists))
    /\ Rollback
    /\ UNCHANGED <<wanted, seen, edited>>

-----------------------------------------------------------------------------
(* The rollback                                                            *)

UndoMutation(m) ==
    IF m.action = "delete" THEN DeleteGroup(m.group.id) ELSE SetGroup(m.group)

UndoStep == IF pc = "undoRoute" THEN SetRoute(seen.route)
            ELSE UndoMutation(Last(mutations))

Undone == Len(mutations) = IF pc = "undoRoute" THEN 0 ELSE 1

SendUndo ==
    /\ pc \in {"undoRoute", "undoGroups"}
    /\ Request(UndoStep, TRUE)
    /\ IF Undone THEN Finish("rolled_back")
       ELSE /\ Goto("undoGroups")
            /\ mutations' = IF pc = "undoRoute" THEN mutations ELSE Front(mutations)
            /\ UNCHANGED <<todo, routeDone, extra>>
    /\ UNCHANGED <<wanted, seen, edited, unseen>>

(* Mutant: the report names the step instead of the outcome.               *)
UndoFailsAsStage ==
    /\ pc \in {"undoRoute", "undoGroups"}
    /\ Request(UndoStep, FALSE)
    /\ Finish(pc)
    /\ UNCHANGED <<wanted, seen, edited, unseen>>

UndoFails ==
    /\ pc \in {"undoRoute", "undoGroups"}
    /\ Request(UndoStep, FALSE)
    /\ Finish("partial")
    /\ UNCHANGED <<wanted, seen, edited, unseen>>

(* OmadaClient.request turns HTTPError and URLError into StopLigaErrors.   *)
(* A timeout while the answer is read is neither: it leaves sync, run_once *)
(* and the loop, and no rollback is tried.                                 *)
ReadTimesOut ==
    /\ pc # "idle"
    /\ Fault("request", MaxFaults)
    /\ remote' \in {remote, IF pc \in {"undoRoute", "undoGroups"} THEN UndoStep
                            ELSE Effect}
    /\ Finish("uncaught")
    /\ UNCHANGED <<wanted, seen, history>>

Crash ==
    /\ pc # "idle"
    /\ Fault("crash", MaxCrashes)
    /\ Finish("crashed")
    /\ UNCHANGED <<remote, wanted, seen, history>>

-----------------------------------------------------------------------------
(* The environment                                                         *)

FeedChanges ==
    /\ pc = "idle" /\ outcome # "partial"
    /\ Fault("edit", MaxEdits)
    /\ wanted' \in [enabled : BOOLEAN, chunks : Lists] \ {wanted}
    /\ outcome' = "none" /\ seen' = remote
    /\ UNCHANGED <<remote, pc, locals, history>>

(* The user switches the route, or gives a group other destinations.       *)
UserEdits ==
    /\ Fault("edit", MaxEdits)
    /\ \/ /\ remote.route.exists
          /\ remote' = [remote EXCEPT !.route.enabled = ~@]
       \/ \E g \in remote.groups, d \in Chunks :
              d # g.dest /\ remote' = SetGroup([g EXCEPT !.dest = d])
    /\ edited' = TRUE
    /\ UNCHANGED <<wanted, pc, seen, locals, outcome, misled, unseen>>

(* An operator repairs the controller or empties it, and removes the flag. *)
OperatorRepairs ==
    /\ outcome = "partial"
    /\ outcome' = "none"
    /\ remote' \in {seen, [groups |-> {}, route |-> NoRoute]}
    /\ seen' = remote'
    /\ UNCHANGED <<wanted, pc, locals, faults, history>>

ServiceStep ==
    \/ Start \/ StartFails \/ DisableRoute \/ CheckDisabled \/ DisableFails
    \/ WriteGroup \/ GroupsWritten \/ CreatePolicyRoute \/ FindRoute
    \/ UpdatePolicyRoute \/ Verify \/ Cleanup \/ Commit \/ RequestFails
    \/ SendUndo \/ UndoFails \/ ReadTimesOut

Next == ServiceStep \/ DryRun \/ Crash \/ FeedChanges \/ UserEdits \/ OperatorRepairs

Spec == Init /\ [][Next]_vars

(* Requests end, and the loop starts the next run.                         *)
FairSpec == Spec /\ WF_vars(ServiceStep)

-----------------------------------------------------------------------------
(* Properties                                                              *)

(* Controller c enforces what w asks for.                                  *)
Fits(c, w) ==
    IF w.chunks = <<>> THEN ~c.route.enabled
    ELSE /\ c.route.exists /\ c.route.enabled = w.enabled
         /\ Destinations(c, c.route.refs) = Range(w.chunks)

Satisfies(c) == Fits(c, wanted)

(* A run switches the route on only over the whole list of the feed: the   *)
(* groups come first, at every failure and kill.  (Its rollback switches   *)
(* the route back on before it restores the groups.)                       *)
EnabledOnlyOverItsList ==
    [][~remote.route.enabled /\ remote'.route.enabled /\ pc = "route"
           /\ ~misled /\ ~edited'
       => Destinations(remote', remote'.route.refs) = Range(wanted.chunks)]_vars

(* Once nothing fails any more the controller is as the feed asks, with no *)
(* managed group left over, run after run; or the service asks for         *)
(* reconciliation.                                                         *)
Converges ==
    <>[](\/ outcome = "partial"
         \/ Satisfies(remote) /\ (wanted.chunks # <<>> => ExtraGroups(remote) = {}))

(* A run, with all its requests, is one step of the contract that          *)
(* SyncService relies on: between the first read and the report the router *)
(* counts as it was before.  Success is real, even when a request was      *)
(* acknowledged and ignored; a run that was rolled back or completed       *)
(* nothing leaves groups and route as it found them, unless it lost sight  *)
(* of the route it made (unseen); nothing else is left behind without a    *)
(* report that asks for reconciliation, but by a kill or an error nobody   *)
(* catches.                                                                *)
Contract == INSTANCE RouterUpdate WITH
    States <- Controller,
    Goals <- [enabled : BOOLEAN, chunks : Lists],
    remote <- IF pc = "idle" THEN remote ELSE seen,
    goal <- wanted,
    report <- CASE outcome \in {"noop", "success"} -> "success"
                [] outcome \in {"rolled_back", "nothing_done", "dry_run"} -> "restored"
                [] outcome \in {"crashed", "uncaught"} -> "unknown"
                [] OTHER -> outcome,
    misled <- misled \/ unseen,
    edited <- edited

RunIsOneStep == Contract!Spec

-----------------------------------------------------------------------------
(* What the repository says of the program, and the program does not do    *)

(* errors.py, PartialUpdateError: "Raised when a multi-step remote update  *)
(* partially succeeds before failing."                                     *)
(* A run that completed a stage and did not commit ends with one.          *)
PartialFailureIsReported ==
    [][outcome # "uncaught" /\ outcome' = "uncaught" /\ pc # "cleanup"
       => mutations = <<>> /\ routeDone = "none"]_vars

(* rollback_completed, which tests/test_integration.py has mean that no    *)
(* reconciliation is needed: nothing of the run is left.                   *)
CompleteRollbackLeavesNothing ==
    outcome \in {"rolled_back", "nothing_done"} /\ ~misled /\ ~edited
    => remote = seen
=============================================================================
