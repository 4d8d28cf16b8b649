--------------------------- MODULE UnifiBootstrap ---------------------------
(***************************************************************************)
(* How the UniFi driver finds its route, creates it when it is missing,    *)
(* and decides whether it may enable it: UniFiRouterDriver.sync with       *)
(* choose_existing_route_backend, choose_create_backend and create_route,  *)
(* the bootstrap guard file, and the two writes with which the service     *)
(* ends a run.  One process runs at a time (SyncService).                  *)
(*                                                                         *)
(* A route made for all clients, or for configured targets, is enabled     *)
(* while blocks are active.  One made for the first client device, because *)
(* the controller rejected "all clients", waits for a manual review.       *)
(***************************************************************************)
EXTENDS Naturals, FiniteSets

CONSTANTS
    MaxFaults,  \* bound: failed or misleading requests
    MaxIO,      \* bound: failed or damaged guard files
    MaxCrashes, \* bound: processes killed
    MaxEdits,   \* bound: changes of the feed, and edits by the user
    DryRuns     \* whether some runs are dry runs

ASSUME BoundsAssumption ==
    {MaxFaults, MaxIO, MaxCrashes, MaxEdits} \subseteq Nat
ASSUME DryRunsAssumption == DryRuns \in BOOLEAN

Backend == {"v2", "legacy"}

(* What the route applies to: its network and target devices.              *)
Shape == {"all", "device", "chosen"}

(* Sources of a bootstrapped route: "auto-bootstrap" and                   *)
(* "vpn:...:all-clients" are "all", their device fallbacks "fallback", and *)
(* "vpn:...:targets" is "targets".                                         *)
Source == {"none", "all", "fallback", "targets"}

(* The bootstrap triple of a guard or of a SyncResult; a guard file can    *)
(* also be missing or malformed.                                           *)
Triple(source, shape) == [source |-> source, shape |-> shape]
NoTriple == Triple("none", "none")
MissingFile == Triple("missing", "none")
BadFile == Triple("bad", "none")
GuardValue == [source : Source \cup {"missing", "bad"}, shape : Shape \cup {"none"}]

(* Ids are used again.  A run that is not misled creates a route when there *)
(* is none, and a fault adds at most one: these ids are enough.            *)
RouteId == 1 .. MaxFaults + 1

(* origin is history: who gave the route its shape.                        *)
Route == [id : RouteId, backend : Backend, shape : Shape,
          enabled : BOOLEAN, origin : {"all", "fallback", "targets", "user"}]
NoRoute == [id |-> 0, backend |-> "v2", shape |-> "none", enabled |-> FALSE,
            origin |-> "none"]

VARIABLES
    mode,      \* "all_clients" or "targets", from the configuration
    routes,    \* the routes with the managed name
    guardFile, \* the bootstrap guard file
    runtime,   \* the bootstrap triple in the state file
    reconcile, \* reconciliation_required in the state file
    feed,      \* "blocked", "clear", or "empty": not blocked, no destinations
    pc,        \* where the run is
    dry,       \* is it a dry run
    previous,  \* the bootstrap triple in previous_runtime_state of the run
    guard,     \* previous_guard of the run
    listFailed, \* a backend could not be listed in this run
    found,     \* the route of the run as it was read or created, or NoRoute
    target,    \* create_backend
    triple,    \* bootstrap_source and its companions
    faults     \* faults so far, by kind

(* History variables.                                                      *)
VARIABLES
    misled,     \* a run could not see, or was not told of, a route that exists
    guardLost   \* the guard of a fallback route was lost, or never written

inputs == <<dry, previous, guard, listFailed>>
locals == <<inputs, found, target, triple>>
history == <<misled, guardLost>>
stateFile == <<runtime, reconcile>>
vars == <<mode, routes, guardFile, stateFile, feed, pc, locals, faults, history>>

FaultKinds == {"request", "io", "crash", "edit"}
FaultBound == [request |-> MaxFaults, io |-> MaxIO, crash |-> MaxCrashes,
               edit |-> MaxEdits]

TypeOK ==
    /\ mode \in {"all_clients", "targets"}
    /\ routes \subseteq Route
    /\ guardFile \in GuardValue
    /\ {runtime, previous, triple} \subseteq [source : Source, shape : Shape \cup {"none"}]
    /\ feed \in {"blocked", "clear", "empty"}
    /\ pc \in {"idle", "loadGuard", "listV2", "listLegacy", "chooseCreate", "guardAll",
               "create", "createFallback", "guardFallback", "clearGuard", "plan",
               "writeState", "writeGuard"}
    /\ dry \in BOOLEAN /\ reconcile \in BOOLEAN
    /\ guard \in GuardValue
    /\ found \in Route \cup {NoRoute}
    /\ target \in Backend
    /\ faults \in [FaultKinds -> Nat]
    /\ listFailed \in BOOLEAN /\ misled \in BOOLEAN /\ guardLost \in BOOLEAN

(* A fallback route of an older release, which kept the guard in the state *)
(* file.                                                                   *)
LegacyRoute == [id |-> 1, backend |-> "legacy", shape |-> "device",
                enabled |-> FALSE, origin |-> "fallback"]

Init ==
    /\ mode \in {"all_clients", "targets"}
    /\ \/ routes = {} /\ runtime = NoTriple
       \/ routes = {LegacyRoute} /\ runtime = Triple("fallback", "device")
    /\ guardFile = MissingFile /\ reconcile = FALSE
    /\ feed \in {"blocked", "clear", "empty"}
    /\ pc = "idle" /\ dry = FALSE /\ found = NoRoute
    /\ previous = NoTriple /\ guard = NoTriple
    /\ target = "v2" /\ triple = NoTriple
    /\ faults = [k \in FaultKinds |-> 0]
    /\ listFailed = FALSE /\ misled = FALSE /\ guardLost = FALSE

-----------------------------------------------------------------------------
(* Helpers *)

Fault(k) == /\ faults[k] < FaultBound[k]
            /\ faults' = [faults EXCEPT ![k] = @ + 1]

Goto(from, to) == pc = from /\ pc' = to

On(b) == {r \in routes : r.backend = b}

(* The run is over: its locals are gone.                                   *)
EndRun ==
    /\ pc' = "idle"
    /\ dry' = FALSE /\ previous' = NoTriple /\ guard' = NoTriple
    /\ listFailed' = FALSE
    /\ found' = NoRoute /\ target' = "v2" /\ triple' = NoTriple

(* It failed: the record of the error carries the triple of the last       *)
(* record, and asks for reconciliation after a partial failure, when it    *)
(* can be written.                                                         *)
FailRunAs(partial) ==
    /\ EndRun
    /\ \/ runtime' = previous /\ reconcile' = partial
       \/ UNCHANGED stateFile
FailRun == FailRunAs(FALSE)

(* Mutant: every route that was made here waits for a review.              *)
RequiresManualReviewOfAll(source) == source # "none"

(* _bootstrap_requires_manual_review and _is_pending_auto_bootstrap.       *)
RequiresManualReview(source) == source = "fallback"
IsPendingAutoBootstrap(route, g) ==
    RequiresManualReview(g.source) /\ g.shape = route.shape

(* A route waits for its review, or the run is about to put it back.       *)
AwaitsReview == \E r \in routes \cup {found} : r.origin = "fallback"

(* _write_bootstrap_guard_values.  A value that does not name the fallback *)
(* loses the guard of a route that waits for its review.                   *)
WriteGuardFile(t) ==
    /\ guardFile' = t
    /\ guardLost' = (guardLost \/ (AwaitsReview /\ ~RequiresManualReview(t.source)))

-----------------------------------------------------------------------------
(* A run up to the route                                                   *)

(* service._load_runtime_state: a file that cannot be read, or that is     *)
(* moved aside, counts as empty.  One that asks for reconciliation ends    *)
(* the run here, with nothing written.                                     *)
Start ==
    /\ Goto("idle", "loadGuard")
    /\ dry' \in IF DryRuns THEN BOOLEAN ELSE {FALSE}
    /\ \/ ~reconcile /\ previous' = runtime /\ UNCHANGED <<stateFile, faults, guardLost>>
       \/ /\ Fault("io")
          /\ previous' = NoTriple
          /\ UNCHANGED stateFile \/ (runtime' = NoTriple /\ reconcile' = FALSE)
          /\ guardLost' = (guardLost \/ (AwaitsReview /\ guardFile = MissingFile))
    /\ UNCHANGED <<mode, routes, guardFile, feed, guard, listFailed, found, target,
                   triple, misled>>

(* service._load_bootstrap_guard; the state file is asked only when there  *)
(* is no guard file.                                                       *)
LoadGuard ==
    /\ Goto("loadGuard", "listV2")
    /\ \/ /\ guardFile.source \notin {"missing", "bad"}
          /\ guard' = guardFile /\ UNCHANGED <<guardFile, faults, guardLost>>
       \/ /\ guardFile = MissingFile
          /\ guard' = previous /\ UNCHANGED <<guardFile, faults, guardLost>>
       \/ /\ guardFile = BadFile
          /\ guard' = NoTriple
          /\ \/ guardFile' = MissingFile /\ UNCHANGED <<faults, guardLost>>
             \/ UNCHANGED guardFile /\ Fault("io") /\ guardLost' = guardLost
       \/ /\ guardFile # MissingFile
          /\ guard' = NoTriple
          /\ guardLost' = (guardLost \/ AwaitsReview)
          /\ UNCHANGED guardFile /\ Fault("io")
    /\ UNCHANGED <<mode, routes, stateFile, feed, dry, previous, listFailed, found, target,
                   triple, misled>>

(* find_matching_routes on the list of one backend: one match is the       *)
(* route, none sends the search to `next`, several are an error.           *)
Match(b, next) ==
    \/ /\ Cardinality(On(b)) = 1
       /\ found' = CHOOSE r \in On(b) : TRUE
       /\ pc' = "plan"
       /\ UNCHANGED <<stateFile, inputs, target, triple>>
    \/ /\ On(b) = {} /\ next /\ UNCHANGED stateFile
    \/ /\ Cardinality(On(b)) > 1 /\ FailRun

(* Neither backend has the route.  Without destinations and without blocks *)
(* there is nothing to create.                                             *)
RouteMissing ==
    /\ pc' = IF feed = "empty" THEN "writeState" ELSE "chooseCreate"
    /\ UNCHANGED locals

(* Mutant: a route that the first backend does not have is missing.        *)
ListV2Only ==
    /\ pc = "listV2"
    /\ Match("v2", RouteMissing)
    /\ UNCHANGED <<mode, routes, guardFile, feed, faults, history>>

ListV2 ==
    /\ pc = "listV2"
    /\ Match("v2", pc' = "listLegacy" /\ UNCHANGED locals)
    /\ UNCHANGED <<mode, routes, guardFile, feed, faults, history>>

(* A backend that cannot be listed is skipped.                             *)
ListV2Fails ==
    /\ Goto("listV2", "listLegacy")
    /\ Fault("request")
    /\ listFailed' = TRUE
    /\ misled' = (misled \/ On("v2") # {})
    /\ UNCHANGED <<mode, routes, guardFile, stateFile, feed, dry, previous, guard,
                   found, target, triple, guardLost>>

ListLegacy ==
    /\ pc = "listLegacy"
    /\ Match("legacy", RouteMissing)
    /\ UNCHANGED <<mode, routes, guardFile, feed, faults, history>>

(* Both failed: DiscoveryError.  Only this one: RouteNotFoundError.        *)
ListLegacyFails ==
    /\ pc = "listLegacy"
    /\ Fault("request")
    /\ IF listFailed THEN FailRun ELSE RouteMissing /\ UNCHANGED stateFile
    /\ misled' = (misled \/ On("legacy") # {})
    /\ UNCHANGED <<mode, routes, guardFile, feed, guardLost>>

-----------------------------------------------------------------------------
(* The creation of the route                                               *)

(* What _bootstrap_route prepares, from the configuration.                 *)
Preview == IF mode = "targets" THEN Triple("targets", "chosen")
           ELSE Triple("all", "all")

(* The first backend that can be listed.  A dry run ends here, and reports *)
(* what it would create.                                                   *)
ChooseCreateBackend ==
    /\ pc = "chooseCreate"
    /\ \/ target' = "v2" /\ UNCHANGED faults
       \/ target' = "legacy" /\ Fault("request")
    /\ IF dry
       THEN pc' = "writeState" /\ triple' = Preview
       ELSE /\ pc' = IF mode = "targets" THEN "create" ELSE "guardAll"
            /\ UNCHANGED triple
    /\ UNCHANGED <<mode, routes, guardFile, stateFile, feed, inputs, found,
                   history>>

(* No backend, no VPN client network or no such target: DiscoveryError.    *)
PrepareFails ==
    /\ pc = "chooseCreate"
    /\ Fault("request")
    /\ FailRun
    /\ UNCHANGED <<mode, routes, guardFile, feed, history>>

(* guard_writer for a route for all clients, before it exists.             *)
GuardAll ==
    /\ Goto("guardAll", "create")
    /\ WriteGuardFile(Preview)
    /\ UNCHANGED <<mode, routes, stateFile, feed, locals, faults, misled>>

(* The controller gets a new route, disabled.                              *)
NewRoute(t, origin) ==
    [id |-> CHOOSE i \in RouteId : \A r \in routes : r.id # i,
     backend |-> target, shape |-> t.shape, enabled |-> FALSE, origin |-> origin]
AddRoute(r) == routes' = routes \cup {r}

CreateRoute ==
    /\ Goto("create", "plan")
    /\ found' = NewRoute(Preview, Preview.source)
    /\ AddRoute(found')
    /\ triple' = Preview
    /\ UNCHANGED <<mode, guardFile, stateFile, feed, inputs, target, faults, history>>

(* The request fails.  The controller may have created the route all the   *)
(* same: a timeout, or an answer that does not hold the route.             *)
CreateFails ==
    /\ pc = "create"
    /\ pc' = IF mode = "targets" THEN "clearGuard" ELSE "createFallback"
    /\ \/ /\ Fault("request") /\ UNCHANGED <<routes, misled>>
       \/ /\ Fault("request")
          /\ AddRoute(NewRoute(Preview, Preview.source))
          /\ misled' = TRUE
    /\ UNCHANGED <<mode, guardFile, stateFile, feed, locals, guardLost>>

(* The second attempt: the same route for the first client device.         *)
Fallback == Triple("fallback", "device")

(* pick_default_target_device finds no device.                             *)
NoFallbackDevice ==
    /\ pc = "createFallback"
    /\ Fault("request")
    /\ FailRun
    /\ UNCHANGED <<mode, routes, guardFile, feed, history>>

CreateFallback ==
    /\ Goto("createFallback", "guardFallback")
    /\ found' = NewRoute(Fallback, "fallback")
    /\ AddRoute(found')
    /\ UNCHANGED <<mode, guardFile, stateFile, feed, inputs, target, triple,
                   faults, history>>

FallbackFails ==
    /\ Goto("createFallback", "clearGuard")
    /\ Fault("request")
    /\ \/ UNCHANGED <<routes, misled, guardLost>>
       \/ /\ AddRoute(NewRoute(Fallback, "fallback"))
          /\ misled' = TRUE /\ guardLost' = TRUE
    /\ UNCHANGED <<mode, guardFile, stateFile, feed, locals>>

(* guard_writer for the fallback, after the route exists.                  *)
GuardFallback ==
    /\ Goto("guardFallback", "plan")
    /\ WriteGuardFile(Fallback)
    /\ triple' = Fallback
    /\ UNCHANGED <<mode, routes, stateFile, feed, inputs, found, target,
                   faults, misled>>

(* guard_clearer, and RouteNotFoundError.                                  *)
ClearGuard ==
    /\ pc = "clearGuard"
    /\ WriteGuardFile(NoTriple)
    /\ FailRun
    /\ UNCHANGED <<mode, routes, feed, faults, misled>>

(* The guard file cannot be written: StateError, at any of its writes.     *)
GuardWriteFails ==
    /\ pc \in {"guardAll", "guardFallback", "clearGuard", "writeGuard"}
    /\ Fault("io")
    /\ FailRun
    /\ guardLost' = (guardLost \/ pc = "guardFallback")
    /\ UNCHANGED <<mode, routes, guardFile, feed, misled>>

-----------------------------------------------------------------------------
(* The update of the route, and the end of the run                         *)

(* Mutant: only the run that made the route knows that it waits.           *)
PlanIgnoresGuard ==
    LET enabled == feed = "blocked" /\ ~RequiresManualReview(triple.source)
    IN  /\ pc = "plan" /\ \E r \in routes : r.id = found.id
        /\ pc' = "writeState"
        /\ routes' = IF dry THEN routes
                     ELSE {r \in routes : r.id # found.id}
                          \cup {[found EXCEPT !.enabled = enabled]}
        /\ UNCHANGED <<mode, guardFile, stateFile, feed, inputs, found, target,
                       triple, faults, history>>

(* _plan_route_update: a route that waits for its review is kept disabled, *)
(* and a run that only found it calls its source "auto-bootstrap".  The    *)
(* payload is a copy of the route as it was read; it is not sent when it   *)
(* would change nothing.                                                   *)
Pending == RequiresManualReview(triple.source) \/ IsPendingAutoBootstrap(found, guard)
Desired == [found EXCEPT !.enabled = (feed = "blocked" /\ ~Pending)]
FoundIsThere == \E r \in routes : r.id = found.id
Put(route) == routes' = {r \in routes : r.id # found.id} \cup {route}

PlanRouteUpdate ==
    /\ Goto("plan", "writeState") /\ FoundIsThere
    /\ triple' = IF Pending /\ triple = NoTriple THEN Triple("all", found.shape)
                 ELSE triple
    /\ \/ ~dry /\ Put(Desired)
       \/ (dry \/ found = Desired) /\ UNCHANGED routes
    /\ UNCHANGED <<mode, guardFile, stateFile, feed, inputs, found,
                       target, faults, history>>

(* The plan cannot be made, or apply_plan fails and leaves the route as it *)
(* was read (UnifiApply has its steps); or the failed request was carried  *)
(* out all the same.                                                       *)
UpdateFails ==
    /\ pc = "plan"
    /\ FailRun
    /\ \/ ~FoundIsThere /\ UNCHANGED <<routes, faults>>
       \/ Fault("request") /\ UNCHANGED routes
       \/ Fault("request") /\ FoundIsThere /\ ~dry /\ Put(Desired)
    /\ UNCHANGED <<mode, guardFile, feed, history>>

(* PartialUpdateError of apply_plan: a step was completed, and its         *)
(* rollback failed.  The route may be as wanted or as it was.              *)
UpdateLeavesPartial ==
    /\ pc = "plan" /\ FoundIsThere /\ ~dry
    /\ Fault("request")
    /\ FailRunAs(TRUE)
    /\ UNCHANGED routes \/ Put(Desired)
    /\ UNCHANGED <<mode, guardFile, feed, history>>

(* Mutant: the guard file is copied into the state file.                   *)
WriteStateOfGuardFile ==
    /\ Goto("writeState", "writeGuard")
    /\ runtime' = guardFile /\ reconcile' = FALSE
    /\ UNCHANGED <<mode, routes, guardFile, feed, locals, faults, history>>

(* run_once: the state file, then the guard.                               *)
WriteState ==
    /\ Goto("writeState", "writeGuard")
    /\ runtime' = triple /\ reconcile' = FALSE
    /\ guardLost' = (guardLost \/ (AwaitsReview /\ guardFile = MissingFile
                                     /\ ~RequiresManualReview(triple.source)))
    /\ UNCHANGED <<mode, routes, guardFile, feed, locals, faults, misled>>

WriteStateFails ==
    /\ pc = "writeState"
    /\ Fault("io")
    /\ FailRun
    /\ UNCHANGED <<mode, routes, guardFile, feed, history>>

WriteGuard ==
    /\ pc = "writeGuard"
    /\ WriteGuardFile(triple)
    /\ EndRun
    /\ UNCHANGED <<mode, routes, stateFile, feed, faults, misled>>

Crash ==
    /\ pc # "idle"
    /\ Fault("crash")
    /\ EndRun
    /\ guardLost' = (guardLost \/ pc \in {"guardFallback", "clearGuard"})
    /\ UNCHANGED <<mode, routes, guardFile, stateFile, feed, misled>>

-----------------------------------------------------------------------------
(* The environment                                                         *)

FeedChanges ==
    /\ pc = "idle"
    /\ Fault("edit")
    /\ feed' \in {"blocked", "clear", "empty"} \ {feed}
    /\ UNCHANGED <<mode, routes, guardFile, stateFile, pc, locals, history>>

(* The user gives a route its targets: that is the review.                 *)
UserReviews ==
    /\ Fault("edit")
    /\ \E r \in routes :
           routes' = (routes \ {r}) \cup
               {[r EXCEPT !.shape = "chosen", !.origin = "user"]}
    /\ UNCHANGED <<mode, guardFile, stateFile, feed, pc, locals, history>>

UserDeletes ==
    /\ Fault("edit")
    /\ \E r \in routes : routes' = routes \ {r}
    /\ UNCHANGED <<mode, guardFile, stateFile, feed, pc, locals, history>>

(* An operator looks after the routes and removes the state file.          *)
OperatorReconciles ==
    /\ pc = "idle" /\ reconcile
    /\ runtime' = NoTriple /\ reconcile' = FALSE
    /\ guardLost' = (guardLost \/ (AwaitsReview /\ guardFile = MissingFile))
    /\ UNCHANGED <<mode, routes, guardFile, feed, pc, locals, faults, misled>>

DamageGuard ==
    /\ guardFile.source \notin {"missing", "bad"}
    /\ Fault("io")
    /\ guardFile' = BadFile
    /\ guardLost' = (guardLost \/ AwaitsReview)
    /\ UNCHANGED <<mode, routes, stateFile, feed, pc, locals, misled>>

ServiceStep ==
    \/ Start \/ LoadGuard \/ ListV2 \/ ListV2Fails \/ ListLegacy \/ ListLegacyFails
    \/ ChooseCreateBackend \/ PrepareFails \/ GuardAll
    \/ CreateRoute \/ CreateFails \/ NoFallbackDevice
    \/ CreateFallback \/ FallbackFails \/ GuardFallback \/ ClearGuard
    \/ GuardWriteFails \/ PlanRouteUpdate \/ UpdateFails \/ UpdateLeavesPartial
    \/ WriteState \/ WriteStateFails \/ WriteGuard

Next == ServiceStep \/ Crash \/ FeedChanges \/ UserReviews \/ UserDeletes \/ DamageGuard
    \/ OperatorReconciles

Spec == Init /\ [][Next]_vars

(* Every request and write ends, and the loop, which makes real runs, gets *)
(* its turn however many dry runs are made.                                *)
FairSpec == Spec /\ WF_vars(ServiceStep) /\ SF_vars(Start /\ ~dry')

-----------------------------------------------------------------------------
(* Properties                                                              *)

(* The driver never makes a second route with the managed name, unless it  *)
(* could not list the backend that has the first one, or a creation that   *)
(* succeeded looked like a failure: whatever is killed or cannot be        *)
(* written between the creation and its record.                            *)
AtMostOneRoute == Cardinality(routes) > 1 => misled

(* While the guard names a fallback route that nobody has reviewed, no run *)
(* enables it: runs may be killed anywhere, and the feed may say blocked.  *)
(* What loses the guard is in guardLost.                                   *)
GuardedRouteStaysDisabled ==
    ~guardLost => \A r \in routes : r.origin = "fallback" => ~r.enabled

(* A route that was given to all clients, to the configured targets or to  *)
(* the user's own is enabled exactly while blocks are active, run after    *)
(* run, once faults end; duplicates wait for the user, and a rollback that *)
(* failed for an operator, whom nobody makes come.                         *)
EventuallyEnforced ==
    <>[](Cardinality(routes) = 1 /\ ~reconcile =>
            \A r \in routes : r.origin # "fallback" => (r.enabled <=> feed = "blocked"))

-----------------------------------------------------------------------------
(* What the repository says of the program, and the program does not do    *)

(* tests/test_integration.py, test_incomplete_route_is_not_enabled_        *)
(* automatically: the route of the device fallback waits for its review.   *)
FallbackNeverEnabled ==
    \A r \in routes : r.origin = "fallback" => ~r.enabled
=============================================================================
