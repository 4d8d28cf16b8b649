------------------------ MODULE UnifiBootstrapProofs ------------------------
(***************************************************************************)
(* Theorems about UnifiBootstrap, for any number of faults, kills and      *)
(* edits.                                                                  *)
(***************************************************************************)
EXTENDS UnifiBootstrap, FiniteSetTheorems, TLAPS

-----------------------------------------------------------------------------
(* The invariants *)

(* The steps of a run at which it believes that there is no route.         *)
Creating == {"chooseCreate", "guardAll", "create", "createFallback"}

(* There is an id left for every route that is made: a run makes one only  *)
(* where it saw none, or after a request that failed, and every failed     *)
(* request makes room for one id.  TypeOK depends on it.                   *)
CountInv ==
    /\ IsFiniteSet(routes)
    /\ faults["request"] <= MaxFaults
    /\ Cardinality(routes) <= faults["request"] + 1
    /\ pc \in Creating => Cardinality(routes) <= faults["request"]
    /\ pc \in {"idle", "loadGuard", "listV2"} => listFailed = FALSE
    /\ pc = "listLegacy" /\ listFailed = TRUE => Cardinality(routes) <= faults["request"]
    /\ pc = "listLegacy" /\ listFailed = FALSE => On("v2") = {}

(* The strengthening of AtMostOneRoute: what a run that was not misled has *)
(* seen is still so when it creates its route.                             *)
SingleInv ==
    misled = FALSE =>
        /\ Cardinality(routes) <= 1
        /\ pc \in Creating => routes = {}
        /\ pc = "listLegacy" => On("v2") = {}

(* Where the guard of a fallback route is kept between two runs: in the    *)
(* guard file, or without one in the state file, from where the run that   *)
(* is under way has read it.                                               *)
Recorded ==
    \/ guardFile = Fallback
    \/ /\ guardFile = MissingFile /\ runtime = Fallback
       /\ pc # "idle" => previous = Fallback

(* The strengthening of GuardedRouteStaysDisabled: the guard is on disk    *)
(* unless the run is about to write it for the first time, and a run that  *)
(* comes to plan the route knows of it.                                    *)
GuardInv ==
    guardLost = FALSE =>
        /\ \A r \in routes \cup {found} :
              r.origin = "fallback" => r.shape = "device" /\ r.enabled = FALSE
        /\ triple.source = "fallback" => triple = Fallback
        /\ AwaitsReview /\ pc # "guardFallback" => Recorded
        /\ AwaitsReview /\ pc \in {"listV2", "listLegacy"} => guard = Fallback
        /\ pc = "plan" /\ found.origin = "fallback" => Fallback \in {guard, triple}

-----------------------------------------------------------------------------
(* Faults, ends of runs, and new routes *)

(* A fault is counted, and a request fails only within the bound.          *)
LEMMA FaultCounts ==
    ASSUME TypeOK, NEW k \in FaultKinds, Fault(k)
    PROVE  /\ faults' \in [FaultKinds -> Nat]
           /\ k = "request" => /\ faults["request"] + 1 <= MaxFaults
                               /\ faults'["request"] = faults["request"] + 1
           /\ k # "request" => faults'["request"] = faults["request"]
<1>1. faults \in [FaultKinds -> Nat] /\ "request" \in FaultKinds
  BY DEF TypeOK, FaultKinds
<1>2. faults' = [faults EXCEPT ![k] = @ + 1] /\ faults[k] < FaultBound[k]
  BY DEF Fault
<1>3. FaultBound["request"] = MaxFaults /\ MaxFaults \in Nat
  BY BoundsAssumption DEF FaultBound
<1> QED BY <1>1, <1>2, <1>3

(* The triples that the model names are triples.                           *)
LEMMA Triples ==
    /\ {NoTriple, Preview, Fallback} \subseteq [source : Source, shape : Shape \cup {"none"}]
    /\ {NoTriple, Preview, Fallback, MissingFile, BadFile} \subseteq GuardValue
    /\ \A t \in [source : Source, shape : Shape \cup {"none"}] : t \in GuardValue
    /\ Preview.source \in {"all", "targets"} /\ Preview.shape \in Shape
    /\ NoRoute.id = 0 /\ NoRoute.origin = "none"
BY DEF NoTriple, Preview, Fallback, MissingFile, BadFile, Triple, GuardValue, Source, Shape,
       NoRoute

(* The locals of a run that is over.                                       *)
LEMMA EndRunTypes ==
    ASSUME EndRun
    PROVE  /\ pc' = "idle" /\ dry' = FALSE /\ listFailed' = FALSE
           /\ {previous', triple'} \subseteq [source : Source, shape : Shape \cup {"none"}]
           /\ guard' \in GuardValue /\ found' = NoRoute /\ target' \in Backend
BY Triples DEF EndRun, Backend

(* While there are fewer routes than ids, a new route has one that no      *)
(* other route has.                                                        *)
LEMMA FreeId ==
    ASSUME IsFiniteSet(routes), Cardinality(routes) <= MaxFaults
    PROVE  \E i \in RouteId : \A r \in routes : r.id # i
<1> SUFFICES ASSUME \A i \in RouteId : \E r \in routes : r.id = i PROVE FALSE
  OBVIOUS
<1> DEFINE f == [i \in RouteId |-> CHOOSE r \in routes : r.id = i]
<1>1. f \in [RouteId -> routes] /\ \A i \in RouteId : f[i].id = i
  OBVIOUS
<1>2. IsFiniteSet(RouteId) /\ Cardinality(RouteId) = MaxFaults + 1
  <2>1. 1 \in Int /\ MaxFaults + 1 \in Int /\ ~(1 > MaxFaults + 1)
        /\ MaxFaults + 1 - 1 + 1 = MaxFaults + 1
    BY BoundsAssumption
  <2> QED BY <2>1, FS_Interval DEF RouteId
<1>3. Cardinality(routes) \in Nat /\ MaxFaults \in Nat
  BY FS_CardinalityType, BoundsAssumption
<1>4. Cardinality(routes) < Cardinality(RouteId)
  BY <1>2, <1>3
<1> HIDE DEF f
<1>5. \E x, y \in RouteId : x # y /\ f[x] = f[y]
  BY <1>1, <1>2, <1>4, FS_PigeonHole
<1> QED BY <1>1, <1>5

(* A new route is a route, with an id of its own, and disabled.            *)
LEMMA NewRoutes ==
    ASSUME TypeOK, CountInv, Cardinality(routes) <= MaxFaults,
           NEW t, t.shape \in Shape, NEW origin \in {"all", "fallback", "targets"}
    PROVE  /\ NewRoute(t, origin) \in Route
           /\ NewRoute(t, origin).origin = origin /\ NewRoute(t, origin).shape = t.shape
           /\ NewRoute(t, origin).enabled = FALSE
<1>1. (CHOOSE i \in RouteId : \A r \in routes : r.id # i) \in RouteId
  BY FreeId DEF CountInv
<1> QED BY <1>1 DEF NewRoute, Route, TypeOK

-----------------------------------------------------------------------------
(* How many routes there are *)

(* One more route, when one is added.                                      *)
LEMMA AddCounts ==
    ASSUME IsFiniteSet(routes), NEW r, AddRoute(r)
    PROVE  /\ IsFiniteSet(routes') /\ Cardinality(routes') \in Nat
           /\ Cardinality(routes) \in Nat
           /\ Cardinality(routes') <= Cardinality(routes) + 1
<1>1. Cardinality(routes) \in Nat
  BY FS_CardinalityType
<1> QED BY <1>1, FS_AddElement DEF AddRoute

(* No more routes, when a part of all but one of them is kept and at most  *)
(* one is added.                                                           *)
LEMMA ReplaceCounts ==
    ASSUME IsFiniteSet(routes), NEW r \in routes, NEW S \in SUBSET (routes \ {r}), NEW q
    PROVE  /\ IsFiniteSet(S) /\ Cardinality(S) \in Nat
           /\ IsFiniteSet(S \cup {q}) /\ Cardinality(S \cup {q}) \in Nat
           /\ Cardinality(routes) \in Nat
           /\ Cardinality(S) <= Cardinality(routes)
           /\ Cardinality(S \cup {q}) <= Cardinality(routes)
<1>1. /\ IsFiniteSet(routes \ {r}) /\ Cardinality(routes) \in Nat
      /\ Cardinality(routes \ {r}) = Cardinality(routes) - 1
  BY FS_RemoveElement, FS_CardinalityType
<1>2. /\ IsFiniteSet(S) /\ Cardinality(S) \in Nat
      /\ Cardinality(S) <= Cardinality(routes) - 1
  BY <1>1, FS_Subset, FS_CardinalityType
<1>3. /\ IsFiniteSet(S \cup {q}) /\ Cardinality(S \cup {q}) \in Nat
      /\ Cardinality(S \cup {q}) <= Cardinality(S) + 1
  <2>1. /\ IsFiniteSet(S \cup {q})
        /\ Cardinality(S \cup {q}) = IF q \in S THEN Cardinality(S) ELSE Cardinality(S) + 1
    BY <1>2, FS_AddElement, Zenon
  <2> QED BY <1>2, <2>1
<1> QED BY <1>1, <1>2, <1>3

(* The request that replaces the route of the run leaves no more of them.  *)
LEMMA PutCounts ==
    ASSUME TypeOK, CountInv, UNCHANGED routes \/ (FoundIsThere /\ Put(Desired))
    PROVE  /\ IsFiniteSet(routes') /\ Cardinality(routes') \in Nat
           /\ Cardinality(routes) \in Nat
           /\ Cardinality(routes') <= Cardinality(routes)
<1>1. IsFiniteSet(routes) /\ Cardinality(routes) \in Nat
  BY FS_CardinalityType DEF CountInv
<1>2. CASE FoundIsThere /\ Put(Desired)
  <2>1. PICK r \in routes : r.id = found.id
    BY <1>2 DEF FoundIsThere
  <2>2. routes' = {x \in routes : x.id # found.id} \cup {Desired}
    BY <1>2 DEF Put
  <2>3. {x \in routes : x.id # found.id} \in SUBSET (routes \ {r})
    BY <2>1
  <2> QED BY <1>1, <2>1, <2>2, <2>3, ReplaceCounts
<1> QED BY <1>1, <1>2

(* A step other than the creation of a route leaves no more of them.       *)
LEMMA NoMoreRoutes ==
    ASSUME TypeOK, CountInv,
           \/ PlanRouteUpdate \/ UpdateFails \/ UpdateLeavesPartial
           \/ UserReviews \/ UserDeletes
    PROVE  /\ IsFiniteSet(routes') /\ Cardinality(routes') \in Nat
           /\ Cardinality(routes) \in Nat
           /\ Cardinality(routes') <= Cardinality(routes)
<1>1. IsFiniteSet(routes) /\ Cardinality(routes) \in Nat
  BY FS_CardinalityType DEF CountInv
<1>2. CASE PlanRouteUpdate \/ UpdateFails \/ UpdateLeavesPartial
  <2>1. UNCHANGED routes \/ (FoundIsThere /\ Put(Desired))
    BY <1>2 DEF PlanRouteUpdate, UpdateFails, UpdateLeavesPartial
  <2> QED BY <2>1, PutCounts
<1>3. CASE UserReviews
  <2>1. PICK r \in routes :
            routes' = (routes \ {r}) \cup {[r EXCEPT !.shape = "chosen", !.origin = "user"]}
    BY <1>3 DEF UserReviews
  <2> QED BY <1>1, <2>1, ReplaceCounts
<1>4. CASE UserDeletes
  BY <1>1, <1>4, ReplaceCounts DEF UserDeletes
<1> QED BY <1>1, <1>2, <1>3, <1>4

(* The one route of a backend is a route; a backend without one is empty.  *)
LEMMA Matches ==
    ASSUME TypeOK, CountInv, NEW b \in Backend
    PROVE  /\ Cardinality(On(b)) = 1 => (CHOOSE r \in On(b) : TRUE) \in routes
           /\ Cardinality({}) = 0
<1>1. Cardinality({}) = 0
  BY FS_EmptySet
<1> QED BY <1>1 DEF On

(* When a run creates a route, an id is left.                              *)
LEMMA RoomForOne ==
    ASSUME TypeOK, CountInv, pc \in Creating
    PROVE  Cardinality(routes) <= MaxFaults
<1>1. Cardinality(routes) \in Nat /\ faults["request"] \in Nat /\ MaxFaults \in Nat
  BY FS_CardinalityType, BoundsAssumption DEF CountInv, TypeOK, FaultKinds
<1> QED BY <1>1 DEF CountInv

(* The route that a run wants is the one it found but for its flag.        *)
LEMMA DesiredIsARoute ==
    ASSUME TypeOK, FoundIsThere
    PROVE  /\ found \in Route /\ Desired \in Route
           /\ Desired.origin = found.origin /\ Desired.shape = found.shape
           /\ Desired.enabled = (feed = "blocked" /\ ~Pending)
<1>1. found \in Route
  BY DEF TypeOK, FoundIsThere, Route, RouteId, NoRoute
<1> QED BY <1>1 DEF Desired, Route

(* The fallback is made for a device.                                      *)
LEMMA FallbackShape ==
    Fallback.shape = "device" /\ Fallback.source = "fallback" /\ "device" \in Shape
BY DEF Fallback, Triple, Shape

-----------------------------------------------------------------------------
(* Types *)

(* Every step keeps every type: one case per action.                       *)
LEMMA TypeStep == TypeOK /\ CountInv /\ [Next]_vars => TypeOK'
<1> SUFFICES ASSUME TypeOK, CountInv, [Next]_vars PROVE TypeOK'
  OBVIOUS
<1> USE Triples, EndRunTypes
<1> USE DEF TypeOK, locals, inputs, history, stateFile, FailRun, FailRunAs, Goto
<1>0. /\ {"request", "io", "crash", "edit"} = FaultKinds
      /\ \A k \in FaultKinds : Fault(k) => faults' \in [FaultKinds -> Nat]
  BY FaultCounts DEF FaultKinds
<1>1. CASE Start
  BY <1>1, <1>0 DEF Start, FailRun, WriteGuardFile, RouteMissing
<1>2. CASE LoadGuard
  <2>1. guard' \in GuardValue /\ guardFile' \in GuardValue
    BY <1>2 DEF LoadGuard
  <2>2. faults' \in [FaultKinds -> Nat]
    BY <1>2, <1>0 DEF LoadGuard
  <2>3. guardLost' \in BOOLEAN /\ pc' = "listV2"
    BY <1>2 DEF LoadGuard
  <2>4. UNCHANGED <<mode, routes, stateFile, feed, dry, previous, listFailed, found,
                    target, triple, misled>>
    BY <1>2 DEF LoadGuard
  <2> QED BY <2>1, <2>2, <2>3, <2>4
<1>3. CASE ListV2
  <2>1. CASE Cardinality(On("v2")) = 1 /\ found' = (CHOOSE r \in On("v2") : TRUE) /\ pc' = "plan"
             /\ UNCHANGED <<stateFile, inputs, target, triple>>
    <3>1. found' \in Route
      BY <2>1, Matches DEF Backend
    <3> QED BY <1>3, <2>1, <3>1 DEF ListV2
  <2>2. CASE UNCHANGED stateFile /\ pc' = "listLegacy" /\ UNCHANGED locals
    BY <1>3, <2>2 DEF ListV2, RouteMissing
  <2>3. CASE FailRun
    BY <1>3, <2>3 DEF ListV2, FailRun
  <2> QED BY <1>3, <2>1, <2>2, <2>3 DEF ListV2, Match
<1>4. CASE ListV2Fails
  BY <1>4, <1>0 DEF ListV2Fails, FailRun, WriteGuardFile, RouteMissing
<1>5. CASE ListLegacy
  <2>1. CASE Cardinality(On("legacy")) = 1 /\ found' = (CHOOSE r \in On("legacy") : TRUE) /\ pc' = "plan"
             /\ UNCHANGED <<stateFile, inputs, target, triple>>
    <3>1. found' \in Route
      BY <2>1, Matches DEF Backend
    <3> QED BY <1>5, <2>1, <3>1 DEF ListLegacy
  <2>2. CASE UNCHANGED stateFile /\ RouteMissing
    BY <1>5, <2>2 DEF ListLegacy, RouteMissing
  <2>3. CASE FailRun
    BY <1>5, <2>3 DEF ListLegacy, FailRun
  <2> QED BY <1>5, <2>1, <2>2, <2>3 DEF ListLegacy, Match
<1>6. CASE ListLegacyFails
  BY <1>6, <1>0 DEF ListLegacyFails, FailRun, WriteGuardFile, RouteMissing
<1>7. CASE ChooseCreateBackend
  <2>1. target' \in Backend /\ faults' \in [FaultKinds -> Nat]
    BY <1>7, <1>0 DEF ChooseCreateBackend, Backend
  <2>2. pc' \in {"writeState", "create", "guardAll"} /\ triple' \in {Preview, triple}
    BY <1>7 DEF ChooseCreateBackend
  <2> QED BY <1>7, <2>1, <2>2 DEF ChooseCreateBackend
<1>8. CASE PrepareFails
  BY <1>8, <1>0 DEF PrepareFails, FailRun, WriteGuardFile, RouteMissing
<1>9. CASE GuardAll
  BY <1>9, <1>0 DEF GuardAll, FailRun, WriteGuardFile, RouteMissing
<1>10. CASE CreateRoute
  <2>1. NewRoute(Preview, Preview.source) \in Route
    BY <1>10, RoomForOne, NewRoutes DEF CreateRoute, Creating
  <2> QED BY <1>10, <2>1 DEF CreateRoute, AddRoute
<1>11. CASE CreateFails
  <2>1. NewRoute(Preview, Preview.source) \in Route
    BY <1>11, RoomForOne, NewRoutes DEF CreateFails, Creating
  <2>2. routes' \subseteq Route /\ misled' \in BOOLEAN /\ faults' \in [FaultKinds -> Nat]
    BY <1>11, <1>0, <2>1 DEF CreateFails, AddRoute
  <2>3. pc' \in {"clearGuard", "createFallback"}
    BY <1>11 DEF CreateFails
  <2> QED BY <1>11, <2>2, <2>3 DEF CreateFails
<1>12. CASE NoFallbackDevice
  BY <1>12, <1>0 DEF NoFallbackDevice, FailRun, WriteGuardFile, RouteMissing
<1>13. CASE CreateFallback
  <2>1. NewRoute(Fallback, "fallback") \in Route
    BY <1>13, RoomForOne, NewRoutes, FallbackShape DEF CreateFallback, Creating
  <2> QED BY <1>13, <2>1 DEF CreateFallback, AddRoute
<1>14. CASE FallbackFails
  <2>1. NewRoute(Fallback, "fallback") \in Route
    BY <1>14, RoomForOne, NewRoutes, FallbackShape DEF FallbackFails, Creating
  <2>2. routes' \subseteq Route /\ misled' \in BOOLEAN /\ guardLost' \in BOOLEAN
    BY <1>14, <2>1 DEF FallbackFails, AddRoute
  <2> QED BY <1>14, <1>0, <2>2 DEF FallbackFails
<1>15. CASE GuardFallback
  BY <1>15, <1>0 DEF GuardFallback, FailRun, WriteGuardFile, RouteMissing
<1>16. CASE ClearGuard
  BY <1>16, <1>0 DEF ClearGuard, FailRun, WriteGuardFile, RouteMissing
<1>17. CASE GuardWriteFails
  BY <1>17, <1>0 DEF GuardWriteFails, FailRun, WriteGuardFile, RouteMissing
<1>18. CASE PlanRouteUpdate
  <2>1. found \in Route /\ Desired \in Route
    BY <1>18, DesiredIsARoute DEF PlanRouteUpdate
  <2>4. triple' \in {triple, Triple("all", found.shape)}
    BY <1>18 DEF PlanRouteUpdate
  <2>5. Triple("all", found.shape) \in [source : Source, shape : Shape \cup {"none"}]
    BY <2>1 DEF Triple, Route, Source
  <2>6. routes' \subseteq Route
    BY <1>18, <2>1 DEF PlanRouteUpdate, Put
  <2>7. {triple'} \subseteq [source : Source, shape : Shape \cup {"none"}]
    BY <2>4, <2>5
  <2> QED BY <1>18, <2>6, <2>7 DEF PlanRouteUpdate
<1>19. CASE UpdateFails
  <2>1. routes' \subseteq Route
    BY <1>19, DesiredIsARoute DEF UpdateFails, Put
  <2> QED BY <1>19, <1>0, <2>1 DEF UpdateFails
<1>20. CASE WriteState
  BY <1>20, <1>0 DEF WriteState, FailRun, WriteGuardFile, RouteMissing
<1>21. CASE WriteStateFails
  BY <1>21, <1>0 DEF WriteStateFails, FailRun, WriteGuardFile, RouteMissing
<1>22. CASE WriteGuard
  BY <1>22, <1>0 DEF WriteGuard, FailRun, WriteGuardFile, RouteMissing
<1>23. CASE Crash
  BY <1>23, <1>0 DEF Crash, FailRun, WriteGuardFile, RouteMissing
<1>24. CASE FeedChanges
  BY <1>24, <1>0 DEF FeedChanges, FailRun, WriteGuardFile, RouteMissing
<1>25. CASE UserReviews
  <2>1. PICK r \in routes :
            routes' = (routes \ {r}) \cup {[r EXCEPT !.shape = "chosen", !.origin = "user"]}
    BY <1>25 DEF UserReviews
  <2>2. [r EXCEPT !.shape = "chosen", !.origin = "user"] \in Route
    <3>1. r \in Route
      BY <2>1
    <3> QED BY ONLY <3>1 DEF Route, Shape
  <2> QED BY <1>25, <1>0, <2>1, <2>2 DEF UserReviews
<1>26. CASE UserDeletes
  BY <1>26, <1>0 DEF UserDeletes, FailRun, WriteGuardFile, RouteMissing
<1>27. CASE DamageGuard
  BY <1>27, <1>0 DEF DamageGuard, FailRun, WriteGuardFile, RouteMissing
<1>28. CASE UNCHANGED vars
  BY <1>28 DEF vars
<1>29. CASE UpdateLeavesPartial
  <2>1. routes' \subseteq Route
    BY <1>29, DesiredIsARoute DEF UpdateLeavesPartial, Put
  <2> QED BY <1>29, <1>0, <2>1 DEF UpdateLeavesPartial
<1>30. CASE OperatorReconciles
  BY <1>30 DEF OperatorReconciles
<1> QED
  BY <1>1, <1>2, <1>3, <1>4, <1>5, <1>6, <1>7, <1>8, <1>9, <1>10, <1>11, <1>12, <1>13, <1>14, <1>15, <1>16, <1>17, <1>18, <1>19, <1>20, <1>21, <1>22, <1>23, <1>24, <1>25, <1>26, <1>27, <1>28,
     <1>29, <1>30
  DEF Next, ServiceStep

-----------------------------------------------------------------------------
(* The invariants hold *)

(* The numbers that CountInv is about.                                     *)
LEMMA Numbers ==
    ASSUME TypeOK, CountInv
    PROVE  /\ Cardinality(routes) \in Nat /\ faults["request"] \in Nat /\ MaxFaults \in Nat
           /\ "request" \in FaultKinds /\ "io" \in FaultKinds
           /\ "crash" \in FaultKinds /\ "edit" \in FaultKinds
BY FS_CardinalityType, BoundsAssumption DEF CountInv, TypeOK, FaultKinds

(* A step that adds no route keeps the count, unless the run takes a new   *)
(* view of what there is.                                                  *)
LEMMA CountFrame ==
    ASSUME TypeOK, CountInv, IsFiniteSet(routes'), Cardinality(routes') <= Cardinality(routes),
           Cardinality(routes') \in Nat,
           \/ faults'["request"] = faults["request"]
           \/ /\ faults'["request"] = faults["request"] + 1
              /\ faults["request"] + 1 <= MaxFaults,
           pc' \in Creating => pc \in Creating,
           pc' \in {"idle", "loadGuard", "listV2"} => listFailed' = FALSE,
           pc' = "listLegacy" =>
               /\ pc = "listLegacy" /\ listFailed' = listFailed
               /\ On("v2") = {} => On("v2")' = {}
    PROVE  CountInv'
<1>1. faults'["request"] \in Nat /\ faults["request"] <= faults'["request"]
      /\ faults'["request"] <= MaxFaults
  <2>1. /\ faults["request"] <= MaxFaults /\ Cardinality(routes) \in Nat
        /\ faults["request"] \in Nat /\ MaxFaults \in Nat
    BY Numbers DEF CountInv
  <2> QED BY <2>1
<1>2. Cardinality(routes) \in Nat /\ faults["request"] \in Nat
  BY Numbers
<1>3. Cardinality(routes') <= faults'["request"] + 1
  <2>1. Cardinality(routes) <= faults["request"] + 1
    BY DEF CountInv
  <2> QED BY <1>1, <1>2, <2>1
<1>4. Cardinality(routes) <= faults["request"] => Cardinality(routes') <= faults'["request"]
  BY <1>1, <1>2
<1>5. pc' \in Creating => Cardinality(routes') <= faults'["request"]
  BY <1>4 DEF CountInv
<1>6. /\ pc' = "listLegacy" /\ listFailed' = TRUE =>
            Cardinality(routes') <= faults'["request"]
      /\ pc' = "listLegacy" /\ listFailed' = FALSE => On("v2")' = {}
  BY <1>4 DEF CountInv
<1> QED BY <1>1, <1>3, <1>5, <1>6, Zenon DEF CountInv

(* A backend without a route keeps having none when routes are deleted or  *)
(* edited.                                                                 *)
LEMMA NoRouteAppears ==
    ASSUME TypeOK, UserReviews \/ UserDeletes, NEW b \in Backend, On(b) = {}
    PROVE  On(b)' = {}
<1>1. CASE UserReviews
  <2>1. PICK r \in routes :
            routes' = (routes \ {r}) \cup {[r EXCEPT !.shape = "chosen", !.origin = "user"]}
    BY <1>1 DEF UserReviews
  <2>2. [r EXCEPT !.shape = "chosen", !.origin = "user"].backend = r.backend
    BY DEF TypeOK, Route
  <2> QED BY <2>1, <2>2 DEF On
<1>2. CASE UserDeletes
  BY <1>2 DEF UserDeletes, On
<1> QED BY <1>1, <1>2

(* There are no routes when neither backend has one.                       *)
LEMMA BothEmpty ==
    ASSUME TypeOK, On("v2") = {}, On("legacy") = {}
    PROVE  routes = {} /\ Cardinality(routes) = 0
<1>1. \A r \in routes : r \in On(r.backend) /\ r.backend \in Backend
  BY DEF TypeOK, Route, On
<1>2. routes = {}
  BY <1>1 DEF Backend
<1> QED BY <1>2, FS_EmptySet

(* Every step keeps the count.                                             *)
LEMMA CountStep == TypeOK /\ CountInv /\ [Next]_vars => CountInv'
<1> SUFFICES ASSUME TypeOK, CountInv, [Next]_vars PROVE CountInv'
  OBVIOUS
<1>1. /\ Cardinality(routes) \in Nat /\ faults["request"] \in Nat /\ MaxFaults \in Nat
      /\ IsFiniteSet(routes)
      /\ \A k \in {"io", "crash", "edit"} : Fault(k) => faults'["request"] = faults["request"]
      /\ Fault("request") => /\ faults["request"] + 1 <= MaxFaults
                             /\ faults'["request"] = faults["request"] + 1
  BY Numbers, FaultCounts DEF CountInv
<1>2. ASSUME UNCHANGED routes,
             UNCHANGED faults \/ Fault("request") \/ Fault("io") \/ Fault("crash") \/ Fault("edit"),
             pc' \in Creating => pc \in Creating,
             pc' \in {"idle", "loadGuard", "listV2"} => listFailed' = FALSE,
             pc' # "listLegacy" \/ UNCHANGED <<pc, listFailed>>
      PROVE  CountInv'
  <2>1. /\ IsFiniteSet(routes') /\ Cardinality(routes') \in Nat
        /\ Cardinality(routes') <= Cardinality(routes)
    BY <1>1, <1>2
  <2>2. \/ faults'["request"] = faults["request"]
        \/ /\ faults'["request"] = faults["request"] + 1
           /\ faults["request"] + 1 <= MaxFaults
    BY <1>1, <1>2
  <2>3. On("v2")' = On("v2")
    BY <1>2 DEF On
  <2> QED BY <1>2, <2>1, <2>2, <2>3, CountFrame
<1> USE DEF Goto, locals, inputs, history, stateFile, FailRun, FailRunAs, EndRun
<1>3. CASE Start
  BY <1>2, <1>3 DEF Start, Creating, CountInv
<1>4. CASE LoadGuard
  BY <1>2, <1>4 DEF LoadGuard, Creating, CountInv
<1>5. CASE ListV2
  <2>1. CASE On("v2") = {} /\ pc' = "listLegacy" /\ UNCHANGED locals
    BY <1>1, <1>5, <2>1 DEF ListV2, CountInv, Creating, On
  <2>2. CASE pc' = "plan" \/ FailRun
    BY <1>2, <1>5, <2>2 DEF ListV2, Creating
  <2> QED BY <1>5, <2>1, <2>2 DEF ListV2, Match
<1>6. CASE ListV2Fails
  BY <1>1, <1>6 DEF ListV2Fails, CountInv, Creating
<1>7. CASE ListLegacy
  <2>1. CASE On("legacy") = {} /\ RouteMissing
    <3>1. Cardinality(routes) <= faults["request"]
      BY <1>1, <1>7, <2>1, BothEmpty DEF ListLegacy, CountInv, TypeOK
    <3>2. pc' \in {"writeState", "chooseCreate"}
      BY <2>1 DEF RouteMissing
    <3> QED BY <1>1, <1>7, <3>1, <3>2 DEF ListLegacy, CountInv
  <2>2. CASE pc' = "plan" \/ FailRun
    BY <1>2, <1>7, <2>2 DEF ListLegacy, Creating
  <2> QED BY <1>7, <2>1, <2>2 DEF ListLegacy, Match
<1>8. CASE ListLegacyFails
  <2>1. \/ pc' \in {"writeState", "chooseCreate"}
        \/ pc' = "idle" /\ listFailed' = FALSE
    BY <1>8 DEF ListLegacyFails, RouteMissing
  <2>2. Fault("request") /\ UNCHANGED routes
    BY <1>8 DEF ListLegacyFails
  <2>3. /\ Cardinality(routes') <= faults'["request"]
        /\ faults'["request"] \in Nat /\ faults'["request"] <= MaxFaults
    BY <1>1, <2>2 DEF CountInv
  <2> QED BY <1>1, <2>1, <2>2, <2>3 DEF CountInv
<1>9. CASE ChooseCreateBackend
  BY <1>2, <1>9 DEF ChooseCreateBackend, Creating, CountInv
<1>10. CASE PrepareFails
  BY <1>2, <1>10 DEF PrepareFails, Creating, CountInv
<1>11. CASE GuardAll
  BY <1>2, <1>11 DEF GuardAll, Creating, CountInv
<1>12. CASE CreateRoute
  <2>1. \E r : AddRoute(r)
    BY <1>12 DEF CreateRoute
  <2>2. Cardinality(routes) <= faults["request"] /\ UNCHANGED faults /\ pc' = "plan"
    BY <1>12 DEF CreateRoute, CountInv, Creating
  <2> QED BY <1>1, <2>1, <2>2, AddCounts DEF CountInv, Creating
<1>13. CASE CreateFails
  <2>1. (\E r : AddRoute(r)) \/ UNCHANGED routes
    BY <1>13 DEF CreateFails
  <2>2. /\ Cardinality(routes) <= faults["request"]
        /\ Fault("request") /\ pc' \in {"clearGuard", "createFallback"}
    BY <1>13 DEF CreateFails, CountInv, Creating
  <2> QED BY <1>1, <2>1, <2>2, AddCounts DEF CountInv, Creating
<1>14. CASE NoFallbackDevice
  BY <1>2, <1>14 DEF NoFallbackDevice, Creating, CountInv
<1>15. CASE CreateFallback
  <2>1. \E r : AddRoute(r)
    BY <1>15 DEF CreateFallback
  <2>2. Cardinality(routes) <= faults["request"] /\ UNCHANGED faults /\ pc' = "guardFallback"
    BY <1>15 DEF CreateFallback, CountInv, Creating
  <2> QED BY <1>1, <2>1, <2>2, AddCounts DEF CountInv, Creating
<1>16. CASE FallbackFails
  <2>1. (\E r : AddRoute(r)) \/ UNCHANGED routes
    BY <1>16 DEF FallbackFails
  <2>2. Cardinality(routes) <= faults["request"] /\ Fault("request") /\ pc' = "clearGuard"
    BY <1>16 DEF FallbackFails, CountInv, Creating
  <2> QED BY <1>1, <2>1, <2>2, AddCounts DEF CountInv, Creating
<1>17. CASE GuardFallback
  BY <1>2, <1>17 DEF GuardFallback, Creating, CountInv
<1>18. CASE ClearGuard
  BY <1>2, <1>18 DEF ClearGuard, Creating, CountInv
<1>19. CASE GuardWriteFails
  BY <1>2, <1>19 DEF GuardWriteFails, Creating, CountInv
<1>20. CASE PlanRouteUpdate
  <2>1. UNCHANGED faults /\ pc' = "writeState"
    BY <1>20 DEF PlanRouteUpdate
  <2> QED BY <1>1, <1>20, <2>1, NoMoreRoutes, CountFrame DEF Creating, CountInv
<1>21. CASE UpdateFails \/ UpdateLeavesPartial
  <2>1. /\ UNCHANGED faults \/ Fault("request")
        /\ pc' = "idle" /\ listFailed' = FALSE
    BY <1>21 DEF UpdateFails, UpdateLeavesPartial
  <2> QED BY <1>1, <1>21, <2>1, NoMoreRoutes, CountFrame DEF Creating
<1>22. CASE WriteState
  BY <1>2, <1>22 DEF WriteState, Creating, CountInv
<1>23. CASE WriteStateFails
  BY <1>2, <1>23 DEF WriteStateFails, Creating, CountInv
<1>24. CASE WriteGuard
  BY <1>2, <1>24 DEF WriteGuard, Creating, CountInv
<1>25. CASE Crash
  BY <1>2, <1>25 DEF Crash, Creating, CountInv
<1>26. CASE FeedChanges
  BY <1>2, <1>26 DEF FeedChanges, Creating, CountInv
<1>27. CASE UserReviews \/ UserDeletes
  <2>1. UNCHANGED <<pc, listFailed>> /\ Fault("edit")
    BY <1>27 DEF UserReviews, UserDeletes
  <2>2. On("v2") = {} => On("v2")' = {}
    BY <1>27, NoRouteAppears DEF Backend
  <2> QED BY <1>1, <1>27, <2>1, <2>2, NoMoreRoutes, CountFrame DEF CountInv
<1>28. CASE DamageGuard
  BY <1>2, <1>28 DEF DamageGuard, Creating, CountInv
<1>29. CASE UNCHANGED vars
  BY <1>2, <1>29 DEF vars, Creating, CountInv
<1>30. CASE OperatorReconciles
  BY <1>2, <1>30 DEF OperatorReconciles, Creating, CountInv
<1> QED
  BY <1>3, <1>4, <1>5, <1>6, <1>7, <1>8, <1>9, <1>10, <1>11, <1>12, <1>13, <1>14, <1>15,
     <1>16, <1>17, <1>18, <1>19, <1>20, <1>21, <1>22, <1>23, <1>24, <1>25, <1>26, <1>27,
     <1>28, <1>29, <1>30
  DEF Next, ServiceStep

(* Every step keeps what a run that was not misled has seen.               *)
LEMMA SingleStep == TypeOK /\ CountInv /\ SingleInv /\ [Next]_vars => SingleInv'
<1> SUFFICES ASSUME TypeOK, CountInv, SingleInv, [Next]_vars, misled' = FALSE
             PROVE  SingleInv'
  BY DEF SingleInv
<1>1. IsFiniteSet(routes) /\ Cardinality(routes) \in Nat /\ misled \in BOOLEAN
  BY Numbers DEF CountInv, TypeOK
<1>2. ASSUME UNCHANGED <<routes, misled>>,
             pc' \in Creating => pc \in Creating,
             pc' # "listLegacy" \/ UNCHANGED pc
      PROVE  SingleInv'
  BY <1>2 DEF SingleInv, On
<1> USE DEF Goto, locals, inputs, history, stateFile, FailRun, FailRunAs, EndRun
<1>3. CASE Start
  BY <1>2, <1>3 DEF Start, Creating
<1>4. CASE LoadGuard
  BY <1>2, <1>4 DEF LoadGuard, Creating
<1>5. CASE ChooseCreateBackend
  BY <1>2, <1>5 DEF ChooseCreateBackend, Creating
<1>6. CASE PrepareFails
  BY <1>2, <1>6 DEF PrepareFails, Creating
<1>7. CASE GuardAll
  BY <1>2, <1>7 DEF GuardAll, Creating
<1>8. CASE NoFallbackDevice
  BY <1>2, <1>8 DEF NoFallbackDevice, Creating
<1>9. CASE GuardFallback
  BY <1>2, <1>9 DEF GuardFallback, Creating
<1>10. CASE ClearGuard
  BY <1>2, <1>10 DEF ClearGuard, Creating
<1>11. CASE GuardWriteFails
  BY <1>2, <1>11 DEF GuardWriteFails, Creating
<1>12. CASE OperatorReconciles
  BY <1>2, <1>12 DEF OperatorReconciles, Creating
<1>13. CASE WriteState
  BY <1>2, <1>13 DEF WriteState, Creating
<1>14. CASE WriteStateFails
  BY <1>2, <1>14 DEF WriteStateFails, Creating
<1>15. CASE WriteGuard
  BY <1>2, <1>15 DEF WriteGuard, Creating
<1>16. CASE Crash
  BY <1>2, <1>16 DEF Crash, Creating
<1>17. CASE FeedChanges
  BY <1>2, <1>17 DEF FeedChanges, Creating
<1>18. CASE DamageGuard
  BY <1>2, <1>18 DEF DamageGuard, Creating
<1>19. CASE ListV2
  <2>1. CASE On("v2") = {} /\ pc' = "listLegacy"
    BY <1>19, <2>1 DEF ListV2, SingleInv, Creating, On
  <2>2. CASE pc' = "plan" \/ FailRun
    BY <1>2, <1>19, <2>2 DEF ListV2, Creating
  <2> QED BY <1>19, <2>1, <2>2 DEF ListV2, Match
<1>20. CASE ListV2Fails
  <2>1. misled = FALSE /\ On("v2") = {} /\ UNCHANGED routes /\ pc' = "listLegacy"
    BY <1>1, <1>20 DEF ListV2Fails
  <2> QED BY <2>1 DEF SingleInv, Creating, On
<1>21. CASE ListLegacy
  <2>1. CASE On("legacy") = {} /\ RouteMissing
    <3>1. misled = FALSE /\ pc = "listLegacy" /\ UNCHANGED routes
      BY <1>21 DEF ListLegacy
    <3>2. routes = {} /\ Cardinality(routes) = 0
      BY <2>1, <3>1, BothEmpty DEF SingleInv
    <3>3. pc' # "listLegacy"
      BY <2>1 DEF RouteMissing
    <3> QED BY <3>1, <3>2, <3>3 DEF SingleInv
  <2>2. CASE pc' = "plan" \/ FailRun
    BY <1>2, <1>21, <2>2 DEF ListLegacy, Creating
  <2> QED BY <1>21, <2>1, <2>2 DEF ListLegacy, Match
<1>22. CASE ListLegacyFails
  <2>1. misled = FALSE /\ On("legacy") = {} /\ UNCHANGED routes /\ pc = "listLegacy"
    BY <1>1, <1>22 DEF ListLegacyFails
  <2>2. routes = {} /\ Cardinality(routes) = 0
    BY <2>1, BothEmpty DEF SingleInv
  <2>3. pc' # "listLegacy"
    BY <1>22 DEF ListLegacyFails, RouteMissing
  <2> QED BY <2>1, <2>2, <2>3 DEF SingleInv
<1>23. CASE CreateRoute \/ CreateFallback
  <2>1. \E r : AddRoute(r)
    BY <1>23 DEF CreateRoute, CreateFallback
  <2>2. UNCHANGED misled /\ pc \in Creating /\ pc' \in {"plan", "guardFallback"}
    BY <1>23 DEF CreateRoute, CreateFallback, Creating
  <2>3. routes = {} /\ Cardinality(routes) = 0
    BY <2>2, FS_EmptySet DEF SingleInv
  <2>4. Cardinality(routes') <= 1
    BY <1>1, <2>1, <2>3, AddCounts
  <2> QED BY <2>2, <2>4 DEF SingleInv, Creating
<1>24. CASE CreateFails \/ FallbackFails
  <2>1. UNCHANGED <<routes, misled>>
    BY <1>24 DEF CreateFails, FallbackFails
  <2>2. pc \in Creating /\ pc' \in {"clearGuard", "createFallback"}
    BY <1>24 DEF CreateFails, FallbackFails, Creating
  <2> QED BY <1>2, <2>1, <2>2
<1>25. CASE PlanRouteUpdate \/ UpdateFails \/ UpdateLeavesPartial
  <2>1. UNCHANGED misled /\ pc' \in {"writeState", "idle"}
    BY <1>25 DEF PlanRouteUpdate, UpdateFails, UpdateLeavesPartial
  <2>2. Cardinality(routes') <= 1
    BY <1>25, <2>1, NoMoreRoutes DEF SingleInv
  <2> QED BY <2>1, <2>2 DEF SingleInv, Creating
<1>26. CASE UserReviews \/ UserDeletes
  <2>1. UNCHANGED <<pc, misled>> /\ misled = FALSE
    BY <1>26 DEF UserReviews, UserDeletes
  <2>2. Cardinality(routes') <= 1
    BY <1>26, <2>1, NoMoreRoutes DEF SingleInv
  <2>3. On("v2") = {} => On("v2")' = {}
    BY <1>26, NoRouteAppears DEF Backend
  <2>4. routes = {} => routes' = {}
    BY <1>26 DEF UserReviews, UserDeletes
  <2> QED BY <2>1, <2>2, <2>3, <2>4 DEF SingleInv
<1>27. CASE UNCHANGED vars
  BY <1>2, <1>27 DEF vars
<1> QED
  BY <1>3, <1>4, <1>5, <1>6, <1>7, <1>8, <1>9, <1>10, <1>11, <1>12, <1>13, <1>14, <1>15, <1>16,
     <1>17, <1>18, <1>19, <1>20, <1>21, <1>22, <1>23, <1>24, <1>25, <1>26, <1>27
  DEF Next, ServiceStep

(* The invariants hold at the start.                                       *)
LEMMA StartsRight == Init => TypeOK /\ CountInv /\ SingleInv /\ GuardInv
<1> SUFFICES ASSUME Init PROVE TypeOK /\ CountInv /\ SingleInv /\ GuardInv
  OBVIOUS
<1>1. /\ pc = "idle" /\ dry = FALSE /\ found = NoRoute /\ previous = NoTriple
      /\ guard = NoTriple /\ target = "v2" /\ triple = NoTriple /\ guardFile = MissingFile
      /\ listFailed = FALSE /\ misled = FALSE /\ guardLost = FALSE
      /\ mode \in {"all_clients", "targets"} /\ feed \in {"blocked", "clear", "empty"}
      /\ faults = [k \in FaultKinds |-> 0] /\ reconcile = FALSE
  BY DEF Init
<1>2. \/ routes = {} /\ runtime = NoTriple
      \/ routes = {LegacyRoute} /\ runtime = Fallback
  BY DEF Init, Fallback
<1>3. LegacyRoute \in Route
  <2>1. 1 \in RouteId
    BY BoundsAssumption DEF RouteId
  <2> QED BY <2>1 DEF LegacyRoute, Route, Backend, Shape
<1>4. IsFiniteSet(routes) /\ Cardinality(routes) \in {0, 1} /\ routes \subseteq Route
  BY <1>2, <1>3, FS_EmptySet, FS_Singleton
<1>5. TypeOK
  BY <1>1, <1>2, <1>4, Triples DEF TypeOK, Backend
<1>6. CountInv
  <2>1. faults["request"] = 0
    BY <1>1 DEF FaultKinds
  <2> QED BY <1>1, <1>4, <2>1, BoundsAssumption DEF CountInv, Creating
<1>7. SingleInv
  BY <1>1, <1>4 DEF SingleInv, Creating
<1>8. GuardInv
  BY <1>1, <1>2
  DEF GuardInv, Recorded, LegacyRoute, AwaitsReview, Fallback, NoTriple, NoRoute, Triple
<1> QED BY <1>5, <1>6, <1>7, <1>8

(* Every variable keeps its type: in particular, there is always an id     *)
(* left for a route that the driver creates.                               *)
THEOREM TypeCorrect == Spec => []TypeOK
<1> QED BY StartsRight, TypeStep, CountStep, PTL DEF Spec

(* The driver makes a second route only when it could not list the backend *)
(* that has the first, or was told that a creation had failed that had not:*)
(* a kill or a failed write never makes it do so.                          *)
THEOREM NoSecondRoute == Spec => []AtMostOneRoute
<1>1. TypeOK /\ CountInv /\ SingleInv => AtMostOneRoute
  BY Numbers DEF SingleInv, AtMostOneRoute, TypeOK
<1> QED BY <1>1, StartsRight, TypeStep, CountStep, SingleStep, PTL DEF Spec

-----------------------------------------------------------------------------
(* The guard *)

(* A run that ends keeps the guard, when it leaves the files alone or puts *)
(* the triple of the last record back, and enables no fallback.            *)
LEMMA GuardAtEndOf ==
    ASSUME GuardInv, guardLost = FALSE, EndRun, UNCHANGED guardFile,
           \A r \in routes' : r.origin = "fallback" =>
               AwaitsReview /\ r.shape = "device" /\ r.enabled = FALSE,
           pc \notin {"idle", "guardFallback"}, runtime' \in {previous, runtime}
    PROVE  GuardInv'
<1>1. /\ pc' = "idle" /\ found' = NoRoute /\ triple' = NoTriple
      /\ NoRoute.origin = "none" /\ NoTriple.source = "none"
  BY DEF EndRun, NoRoute, NoTriple, Triple
<1>2. AwaitsReview' => AwaitsReview
  BY <1>1 DEF AwaitsReview
<1>3. AwaitsReview => Recorded
  BY DEF GuardInv
<1>4. AwaitsReview' => Recorded'
  BY <1>1, <1>2, <1>3 DEF Recorded
<1> QED BY <1>1, <1>4 DEF GuardInv

(* In particular when it leaves the routes alone.                          *)
LEMMA GuardAtEnd ==
    ASSUME GuardInv, guardLost = FALSE, EndRun, UNCHANGED <<routes, guardFile>>,
           pc \notin {"idle", "guardFallback"}, runtime' \in {previous, runtime}
    PROVE  GuardInv'
<1>1. \A r \in routes' : r.origin = "fallback" =>
          AwaitsReview /\ r.shape = "device" /\ r.enabled = FALSE
  BY DEF GuardInv, AwaitsReview
<1> QED BY <1>1, GuardAtEndOf

(* A run that plans the route of the fallback keeps it disabled.           *)
LEMMA FallbackIsKept ==
    ASSUME TypeOK, GuardInv, guardLost = FALSE, pc = "plan",
           UNCHANGED routes \/ (FoundIsThere /\ Put(Desired))
    PROVE  \A r \in routes' : r.origin = "fallback" =>
               AwaitsReview /\ r.shape = "device" /\ r.enabled = FALSE
<1>1. \A r \in routes \cup {found} : r.origin = "fallback" =>
          AwaitsReview /\ r.shape = "device" /\ r.enabled = FALSE
  BY DEF GuardInv, AwaitsReview
<1>2. found.origin = "fallback" => Pending
  <2>1. ASSUME found.origin = "fallback"
        PROVE  found.shape = "device" /\ Fallback \in {guard, triple}
    BY <2>1 DEF GuardInv
  <2> QED
    BY <2>1, FallbackShape DEF Pending, RequiresManualReview, IsPendingAutoBootstrap
<1>3. CASE FoundIsThere /\ Put(Desired)
  <2>1. /\ Desired.origin = found.origin /\ Desired.shape = found.shape
        /\ Pending => Desired.enabled = FALSE
    BY <1>3, DesiredIsARoute
  <2>2. \A r \in routes' : r \in routes \/ r = Desired
    BY <1>3 DEF Put
  <2> QED BY <1>1, <1>2, <2>1, <2>2
<1> QED BY <1>1, <1>3

(* A step within a run that touches no route and no record keeps it.       *)
LEMMA GuardWithin ==
    ASSUME GuardInv, guardLost = FALSE,
           UNCHANGED <<routes, guardFile, runtime, previous, guard, found, triple>>,
           pc \notin {"idle", "guardFallback"}, pc' \notin {"idle", "plan"},
           pc' \in {"listV2", "listLegacy"} => pc \in {"listV2", "listLegacy"}
    PROVE  GuardInv'
<1>1. AwaitsReview' = AwaitsReview /\ (Recorded => Recorded')
  BY DEF AwaitsReview, Recorded
<1> QED BY <1>1 DEF GuardInv

(* The route that was found is one of the routes.                          *)
LEMMA GuardAtMatch ==
    ASSUME GuardInv, guardLost = FALSE, TypeOK, CountInv, NEW b \in Backend,
           NEW next, Match(b, next), pc \in {"listV2", "listLegacy"},
           UNCHANGED <<routes, guardFile>>, pc' = "plan", On(b) # {}
    PROVE  GuardInv'
<1>1. /\ found' \in routes /\ UNCHANGED <<runtime, previous, guard, triple>>
  BY Matches DEF Match, FailRun, FailRunAs, EndRun, inputs, stateFile
<1>2. AwaitsReview' => AwaitsReview
  BY <1>1 DEF AwaitsReview
<1>3. found'.origin = "fallback" => AwaitsReview
  BY <1>1 DEF AwaitsReview
<1>4. AwaitsReview => Recorded
  BY DEF GuardInv
<1>5. Recorded => Recorded'
  BY <1>1 DEF Recorded
<1> QED BY <1>1, <1>2, <1>3, <1>4, <1>5 DEF GuardInv

(* The guard file is written with the fallback, or while no route waits.   *)
LEMMA GuardIsWritten ==
    ASSUME NEW t, WriteGuardFile(t), guardLost' = FALSE, TypeOK,
           t.source = "fallback" => t = Fallback
    PROVE  guardLost = FALSE /\ guardFile' = t /\ (AwaitsReview => t = Fallback)
BY DEF WriteGuardFile, TypeOK, RequiresManualReview

(* A new route that is not the fallback does not wait.                     *)
LEMMA GuardAtCreation ==
    ASSUME GuardInv, guardLost = FALSE, NEW r, AddRoute(r), r.origin # "fallback",
           UNCHANGED <<guardFile, runtime, previous, guard>>,
           pc \in Creating, pc' \notin {"idle", "listV2", "listLegacy"},
           \/ found' = r /\ (triple'.source # "fallback")
           \/ UNCHANGED <<found, triple>> /\ pc' # "plan"
    PROVE  GuardInv'
<1>1. AwaitsReview' => AwaitsReview
  BY DEF AwaitsReview, AddRoute
<1>2. AwaitsReview => Recorded
  BY DEF GuardInv, Creating
<1>3. Recorded => Recorded'
  BY DEF Recorded, Creating
<1> QED BY <1>1, <1>2, <1>3 DEF GuardInv, AddRoute

(* Every step keeps the guard.                                             *)
LEMMA GuardStep == TypeOK /\ CountInv /\ GuardInv /\ [Next]_vars => GuardInv'
<1> SUFFICES ASSUME TypeOK, CountInv, GuardInv, [Next]_vars, guardLost' = FALSE
             PROVE  GuardInv'
  BY DEF GuardInv
<1>1. guardLost \in BOOLEAN
  BY DEF TypeOK
<1> USE DEF Goto, locals, inputs, history, stateFile
<1>2. CASE Start
  <2>1. /\ guardLost = FALSE /\ pc = "idle" /\ pc' = "loadGuard"
        /\ UNCHANGED <<routes, guardFile, found, triple>>
    BY <1>1, <1>2 DEF Start
  <2>2. AwaitsReview' = AwaitsReview
    BY <2>1 DEF AwaitsReview
  <2>3. AwaitsReview => Recorded
    BY <2>1 DEF GuardInv
  <2>4. CASE previous' = runtime /\ UNCHANGED runtime
    <3>1. Recorded => Recorded'
      BY <2>1, <2>4 DEF Recorded
    <3> QED BY <2>1, <2>2, <2>3, <3>1 DEF GuardInv
  <2>5. CASE guardLost' = (guardLost \/ (AwaitsReview /\ guardFile = MissingFile))
    <3>1. AwaitsReview => guardFile = Fallback
      BY <1>1, <2>3, <2>5 DEF Recorded
    <3>2. AwaitsReview => Recorded'
      BY <2>1, <3>1 DEF Recorded
    <3> QED BY <2>1, <2>2, <3>2 DEF GuardInv
  <2> QED BY <1>2, <2>4, <2>5 DEF Start
<1>3. CASE LoadGuard
  <2>1. /\ guardLost = FALSE /\ pc = "loadGuard" /\ pc' = "listV2"
        /\ UNCHANGED <<routes, found, triple, runtime, previous>>
    BY <1>1, <1>3 DEF LoadGuard
  <2>2. AwaitsReview' = AwaitsReview
    BY <2>1 DEF AwaitsReview
  <2>3. AwaitsReview => Recorded
    BY <2>1 DEF GuardInv
  <2>4. Fallback # MissingFile /\ Fallback # BadFile /\ BadFile # MissingFile
    BY DEF Fallback, MissingFile, BadFile, Triple
  <2>5. AwaitsReview => guard' = Fallback /\ UNCHANGED guardFile
    <3>1. SUFFICES ASSUME AwaitsReview PROVE guard' = Fallback /\ UNCHANGED guardFile
      OBVIOUS
    <3>2. guardLost' # (guardLost \/ AwaitsReview)
      BY <1>1, <3>1
    <3>3. CASE guardFile = Fallback
      <4>1. Fallback.source \notin {"missing", "bad"}
        BY FallbackShape
      <4> QED BY <1>3, <2>1, <2>4, <3>2, <3>3, <4>1 DEF LoadGuard
    <3>4. CASE guardFile = MissingFile /\ previous = Fallback
      <4>1. MissingFile.source = "missing"
        BY DEF MissingFile, Triple
      <4> QED BY <1>3, <2>1, <2>4, <3>2, <3>4, <4>1 DEF LoadGuard
    <3> QED BY <2>1, <2>3, <3>1, <3>3, <3>4 DEF Recorded
  <2>6. AwaitsReview => Recorded'
    BY <2>1, <2>3, <2>5 DEF Recorded
  <2> QED BY <2>1, <2>2, <2>5, <2>6 DEF GuardInv
<1>4. CASE ListV2
  <2>1. /\ guardLost = FALSE /\ UNCHANGED <<routes, guardFile>>
        /\ pc \in {"listV2", "listLegacy"}
    BY <1>1, <1>4 DEF ListV2
  <2>2. CASE FailRun
    BY <2>1, <2>2, GuardAtEnd DEF FailRun, FailRunAs
  <2>3. CASE On("v2") # {} /\ pc' = "plan"
    BY <1>4, <2>1, <2>3, GuardAtMatch DEF ListV2, Backend
  <2>4. CASE On("v2") = {} /\ UNCHANGED runtime /\ pc' = "listLegacy" /\ UNCHANGED locals
    BY <1>4, <2>1, <2>4, GuardWithin DEF ListV2, RouteMissing
  <2>5. Cardinality(On("v2")) = 1 => On("v2") # {}
    BY Matches DEF Backend
  <2> QED BY <1>4, <2>2, <2>3, <2>4, <2>5 DEF ListV2, Match
<1>5. CASE ListLegacy
  <2>1. /\ guardLost = FALSE /\ UNCHANGED <<routes, guardFile>>
        /\ pc \in {"listV2", "listLegacy"}
    BY <1>1, <1>5 DEF ListLegacy
  <2>2. CASE FailRun
    BY <2>1, <2>2, GuardAtEnd DEF FailRun, FailRunAs
  <2>3. CASE On("legacy") # {} /\ pc' = "plan"
    BY <1>5, <2>1, <2>3, GuardAtMatch DEF ListLegacy, Backend
  <2>4. CASE On("legacy") = {} /\ UNCHANGED runtime /\ RouteMissing
    BY <1>5, <2>1, <2>4, GuardWithin DEF ListLegacy, RouteMissing
  <2>5. Cardinality(On("legacy")) = 1 => On("legacy") # {}
    BY Matches DEF Backend
  <2> QED BY <1>5, <2>2, <2>3, <2>4, <2>5 DEF ListLegacy, Match
<1>6. CASE ListV2Fails
  BY <1>1, <1>6, GuardWithin DEF ListV2Fails
<1>7. CASE ListLegacyFails
  <2>1. /\ guardLost = FALSE /\ UNCHANGED <<routes, guardFile>> /\ pc = "listLegacy"
    BY <1>1, <1>7 DEF ListLegacyFails
  <2>2. CASE FailRun
    BY <2>1, <2>2, GuardAtEnd DEF FailRun, FailRunAs
  <2>3. CASE RouteMissing /\ UNCHANGED runtime
    BY <2>1, <2>3, GuardWithin DEF RouteMissing
  <2> QED BY <1>7, <2>2, <2>3 DEF ListLegacyFails
<1>8. CASE ChooseCreateBackend
  <2>1. /\ guardLost = FALSE /\ pc = "chooseCreate"
        /\ UNCHANGED <<routes, guardFile, runtime, previous, guard, found>>
        /\ pc' \in {"writeState", "create", "guardAll"} /\ triple' \in {triple, Preview}
    BY <1>1, <1>8 DEF ChooseCreateBackend
  <2>2. AwaitsReview' = AwaitsReview /\ (Recorded => Recorded')
    BY <2>1 DEF AwaitsReview, Recorded
  <2> QED BY <2>1, <2>2, Triples DEF GuardInv
<1>9. CASE PrepareFails \/ NoFallbackDevice \/ WriteStateFails
  <2>1. /\ guardLost = FALSE /\ UNCHANGED <<routes, guardFile>> /\ FailRun
        /\ pc \in {"chooseCreate", "createFallback", "writeState"}
    BY <1>1, <1>9 DEF PrepareFails, NoFallbackDevice, WriteStateFails
  <2> QED BY <2>1, GuardAtEnd DEF FailRun, FailRunAs
<1>10. CASE GuardWriteFails
  <2>1. /\ guardLost = FALSE /\ UNCHANGED <<routes, guardFile>> /\ FailRun
        /\ pc \in {"guardAll", "clearGuard", "writeGuard"}
    BY <1>1, <1>10 DEF GuardWriteFails
  <2> QED BY <2>1, GuardAtEnd DEF FailRun, FailRunAs
<1>11. CASE Crash
  <2>1. /\ guardLost = FALSE /\ UNCHANGED <<routes, guardFile, runtime>> /\ EndRun
        /\ pc \notin {"idle", "guardFallback"}
    BY <1>1, <1>11 DEF Crash
  <2> QED BY <2>1, GuardAtEnd
<1>12. CASE GuardAll
  <2>1. /\ UNCHANGED <<routes, runtime, previous, guard, found, triple>>
        /\ pc = "guardAll" /\ pc' = "create" /\ WriteGuardFile(Preview)
    BY <1>12 DEF GuardAll
  <2>2. guardLost = FALSE /\ ~AwaitsReview
    BY <2>1, GuardIsWritten, Triples, FallbackShape
  <2>3. AwaitsReview' = AwaitsReview
    BY <2>1 DEF AwaitsReview
  <2> QED BY <2>1, <2>2, <2>3 DEF GuardInv
<1>13. CASE CreateRoute
  <2>1. /\ guardLost = FALSE /\ pc = "create" /\ pc' = "plan"
        /\ UNCHANGED <<guardFile, runtime, previous, guard>>
        /\ found' = NewRoute(Preview, Preview.source) /\ AddRoute(found') /\ triple' = Preview
    BY <1>1, <1>13 DEF CreateRoute
  <2>2. NewRoute(Preview, Preview.source).origin # "fallback" /\ Preview.source # "fallback"
    BY Triples DEF NewRoute
  <2> QED BY <2>1, <2>2, GuardAtCreation DEF Creating
<1>14. CASE CreateFails
  <2>1. /\ guardLost = FALSE /\ pc = "create" /\ pc' \in {"clearGuard", "createFallback"}
        /\ UNCHANGED <<guardFile, runtime, previous, guard, found, triple>>
    BY <1>1, <1>14 DEF CreateFails
  <2>2. CASE UNCHANGED routes
    BY <2>1, <2>2, GuardWithin
  <2>3. CASE AddRoute(NewRoute(Preview, Preview.source))
    <3>1. NewRoute(Preview, Preview.source).origin # "fallback"
      BY Triples DEF NewRoute
    <3> QED BY <2>1, <2>3, <3>1, GuardAtCreation DEF Creating
  <2> QED BY <1>14, <2>2, <2>3 DEF CreateFails
<1>15. CASE CreateFallback
  <2>1. /\ guardLost = FALSE /\ pc = "createFallback" /\ pc' = "guardFallback"
        /\ found' = NewRoute(Fallback, "fallback") /\ AddRoute(found') /\ UNCHANGED triple
    BY <1>1, <1>15 DEF CreateFallback
  <2>2. found'.shape = "device" /\ found'.enabled = FALSE
    BY <2>1, FallbackShape DEF NewRoute
  <2> QED BY <2>1, <2>2 DEF GuardInv, AddRoute
<1>16. CASE FallbackFails
  <2>1. /\ guardLost = FALSE /\ pc = "createFallback" /\ pc' = "clearGuard"
        /\ UNCHANGED <<routes, guardFile, runtime, previous, guard, found, triple>>
    BY <1>1, <1>16 DEF FallbackFails
  <2> QED BY <2>1, GuardWithin
<1>17. CASE GuardFallback
  <2>1. /\ pc' = "plan" /\ WriteGuardFile(Fallback) /\ triple' = Fallback
        /\ UNCHANGED <<routes, found>>
    BY <1>17 DEF GuardFallback
  <2>2. guardLost = FALSE /\ guardFile' = Fallback
    BY <2>1, GuardIsWritten
  <2> QED BY <2>1, <2>2 DEF GuardInv, Recorded
<1>18. CASE ClearGuard
  <2>1. /\ WriteGuardFile(NoTriple) /\ EndRun /\ UNCHANGED routes
    BY <1>18 DEF ClearGuard, FailRun, FailRunAs
  <2>2. NoTriple.source = "none" /\ Fallback # NoTriple
    BY DEF NoTriple, Fallback, Triple
  <2>3. guardLost = FALSE /\ ~AwaitsReview
    BY <2>1, <2>2, GuardIsWritten
  <2>4. pc' = "idle" /\ found' = NoRoute /\ triple' = NoTriple /\ NoRoute.origin = "none"
    BY <2>1 DEF EndRun, NoRoute
  <2>5. ~AwaitsReview'
    BY <2>1, <2>3, <2>4 DEF AwaitsReview
  <2> QED BY <2>1, <2>2, <2>3, <2>4, <2>5 DEF GuardInv
<1>19. CASE PlanRouteUpdate
  <2>1. /\ guardLost = FALSE /\ pc = "plan" /\ pc' = "writeState"
        /\ UNCHANGED <<guardFile, runtime, previous, guard, found>>
    BY <1>1, <1>19 DEF PlanRouteUpdate
  <2>2. \A r \in routes' : r.origin = "fallback" =>
            AwaitsReview /\ r.shape = "device" /\ r.enabled = FALSE
    <3>1. UNCHANGED routes \/ (FoundIsThere /\ Put(Desired))
      BY <1>19 DEF PlanRouteUpdate
    <3> QED BY <2>1, <3>1, FallbackIsKept
  <2>3. /\ found.origin = "fallback" =>
               AwaitsReview /\ found.shape = "device" /\ found.enabled = FALSE
    BY <2>1 DEF GuardInv, AwaitsReview
  <2>4. AwaitsReview' => AwaitsReview
    BY <2>1, <2>2, <2>3 DEF AwaitsReview
  <2>5. AwaitsReview => Recorded
    BY <2>1 DEF GuardInv
  <2>6. Recorded => Recorded'
    BY <2>1 DEF Recorded
  <2>7. triple' = triple \/ triple'.source = "all"
    BY <1>19 DEF PlanRouteUpdate, Triple
  <2>8. triple'.source = "fallback" => triple' = Fallback
    BY <2>1, <2>7 DEF GuardInv
  <2> QED BY <2>1, <2>2, <2>3, <2>4, <2>5, <2>6, <2>8 DEF GuardInv
<1>20. CASE WriteState
  <2>1. /\ guardLost = FALSE /\ pc = "writeState" /\ pc' = "writeGuard" /\ runtime' = triple
        /\ UNCHANGED <<routes, guardFile, previous, guard, found, triple>>
    BY <1>1, <1>20 DEF WriteState
  <2>2. AwaitsReview' = AwaitsReview
    BY <2>1 DEF AwaitsReview
  <2>3. AwaitsReview => Recorded
    BY <2>1 DEF GuardInv
  <2>4. AwaitsReview /\ guardFile = MissingFile => triple = Fallback
    BY <1>20, <2>1 DEF WriteState, RequiresManualReview, GuardInv
  <2>5. AwaitsReview => Recorded'
    BY <2>1, <2>3, <2>4 DEF Recorded
  <2> QED BY <2>1, <2>2, <2>5 DEF GuardInv
<1>21. CASE WriteGuard
  <2>1. /\ pc = "writeGuard" /\ WriteGuardFile(triple) /\ EndRun /\ UNCHANGED routes
    BY <1>21 DEF WriteGuard
  <2>2. guardLost = FALSE
    BY <1>1, <2>1 DEF WriteGuardFile
  <2>3. guardFile' = triple /\ (AwaitsReview => triple = Fallback)
    BY <2>1, <2>2, GuardIsWritten DEF GuardInv
  <2>4. /\ pc' = "idle" /\ found' = NoRoute /\ triple' = NoTriple
        /\ NoRoute.origin = "none" /\ NoTriple.source = "none"
    BY <2>1 DEF EndRun, NoRoute, NoTriple, Triple
  <2>5. AwaitsReview' => AwaitsReview
    BY <2>1, <2>4 DEF AwaitsReview
  <2>6. AwaitsReview' => Recorded'
    BY <2>3, <2>5 DEF Recorded
  <2> QED BY <2>1, <2>2, <2>4, <2>6 DEF GuardInv
<1>22. CASE FeedChanges \/ UNCHANGED vars
  <2>1. UNCHANGED <<routes, guardFile, runtime, pc, previous, guard, found, triple, guardLost>>
    BY <1>22 DEF FeedChanges, vars
  <2>2. AwaitsReview' = AwaitsReview /\ Recorded' = Recorded
    BY <2>1 DEF AwaitsReview, Recorded
  <2> QED BY <2>1, <2>2 DEF GuardInv
<1>23. CASE UserReviews \/ UserDeletes
  <2>1. UNCHANGED <<guardFile, runtime, pc, previous, guard, found, triple, guardLost>>
    BY <1>23 DEF UserReviews, UserDeletes
  <2>2. \A r \in routes' : r \in routes \/ r.origin = "user"
    <3>1. CASE UserReviews
      BY <3>1 DEF UserReviews, TypeOK, Route
    <3>2. CASE UserDeletes
      BY <3>2 DEF UserDeletes
    <3> QED BY <1>23, <3>1, <3>2
  <2>3. AwaitsReview' => AwaitsReview
    BY <2>1, <2>2 DEF AwaitsReview
  <2>4. Recorded' = Recorded
    BY <2>1 DEF Recorded
  <2>5. guardLost = FALSE => \A r \in routes' \cup {found'} :
            r.origin = "fallback" => r.shape = "device" /\ r.enabled = FALSE
    BY <2>1, <2>2 DEF GuardInv
  <2> QED BY <2>1, <2>3, <2>4, <2>5 DEF GuardInv
<1>24. CASE DamageGuard
  <2>1. UNCHANGED <<routes, pc, found, triple>> /\ guardLost = FALSE /\ ~AwaitsReview
    BY <1>1, <1>24 DEF DamageGuard
  <2>2. ~AwaitsReview' /\ (pc = "plan" => found.origin # "fallback")
    BY <2>1 DEF AwaitsReview
  <2> QED BY <2>1, <2>2 DEF GuardInv
<1>25. CASE UpdateFails \/ UpdateLeavesPartial
  <2>1. /\ guardLost = FALSE /\ pc = "plan" /\ EndRun /\ UNCHANGED guardFile
        /\ runtime' \in {previous, runtime}
        /\ UNCHANGED routes \/ (FoundIsThere /\ Put(Desired))
    BY <1>1, <1>25 DEF UpdateFails, UpdateLeavesPartial, FailRun, FailRunAs
  <2> QED BY <2>1, FallbackIsKept, GuardAtEndOf
<1>26. CASE OperatorReconciles
  <2>1. /\ guardLost = FALSE /\ (AwaitsReview => guardFile # MissingFile)
        /\ pc = "idle" /\ UNCHANGED <<routes, guardFile, pc, found, triple>>
    BY <1>1, <1>26 DEF OperatorReconciles
  <2>2. AwaitsReview' = AwaitsReview
    BY <2>1 DEF AwaitsReview
  <2>3. AwaitsReview => Recorded'
    BY <2>1 DEF GuardInv, Recorded
  <2> QED BY <2>1, <2>2, <2>3 DEF GuardInv
<1> QED
  BY <1>2, <1>3, <1>4, <1>5, <1>6, <1>7, <1>8, <1>9, <1>10, <1>11, <1>12, <1>13, <1>14, <1>15,
     <1>16, <1>17, <1>18, <1>19, <1>20, <1>21, <1>22, <1>23, <1>24, <1>25, <1>26
  DEF Next, ServiceStep

(* While its guard is not lost, no run enables the route of the device     *)
(* fallback before it was reviewed, wherever runs are killed.              *)
THEOREM GuardedRouteNeverEnabled == Spec => []GuardedRouteStaysDisabled
<1>1. TypeOK /\ GuardInv => GuardedRouteStaysDisabled
  BY DEF GuardInv, GuardedRouteStaysDisabled, TypeOK
<1> QED BY <1>1, StartsRight, TypeStep, CountStep, GuardStep, PTL DEF Spec
=============================================================================
