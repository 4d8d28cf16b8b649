-------------------------- MODULE UnifiApplyProofs --------------------------
(***************************************************************************)
(* Theorems about UnifiApply, for any destination lists and any number of  *)
(* faults, edits and kills.  The lemmas come first that say what a plan, a *)
(* request and the sequences of a run are; then the types; then the        *)
(* account of which operations are in effect, on which the rest stands.    *)
(***************************************************************************)
EXTENDS UnifiApply, TLAPS

-----------------------------------------------------------------------------
(* Plans and requests *)

(* The operations of a plan: the list is one of a linked route only, and   *)
(* the order keeps an enabled route away from a list that is not its own.  *)
OperationsOf(p, ops) ==
    /\ ops \in Seq(Stage) /\ Len(ops) \in 0 .. 2
    /\ \A i, j \in 1 .. Len(ops) : ops[i] = ops[j] => i = j
    /\ p.route <=> \E i \in 1 .. Len(ops) : ops[i] = "route"
    /\ p.linked_list <=> \E i \in 1 .. Len(ops) : ops[i] = "linked_list"
    /\ p.route /\ p.linked_list /\ p.old.enabled /\ ~p.new.enabled => ops[1] = "route"
    /\ p.route /\ p.linked_list /\ p.new.enabled => ops[1] = "linked_list"

(* What p is for: it leads from o to the setting s.                        *)
Plans(p, k, o, s) ==
    /\ p \in Plan /\ p.old = o
    /\ p.new.enabled = s.enabled /\ p.new.own = o.own
    /\ PreserveDestinations(s) \/ p.new.dest = s.dest
    /\ p.route = TRUE \/ (p.new.enabled = o.enabled /\ (k = "direct" => p.new.dest = o.dest))
    /\ p.linked_list = TRUE \/ k = "direct" \/ p.new.dest = o.dest
    /\ p.linked_list = TRUE => k = "linked"

(* MakePlan: the plan is typed, ends in the setting that is wanted, and    *)
(* has a payload for each object that is to change.                        *)
LEMMA PlanFacts ==
    ASSUME NEW k \in {"direct", "linked"}, NEW o \in Route, NEW s \in Setting
    PROVE  Plans(MakePlan(k, o, s), k, o, s)
<1> DEFINE p == MakePlan(k, o, s)
           moved == ~PreserveDestinations(s) /\ o.dest # s.dest
<1>1. /\ p.old = o
      /\ p.new = [o EXCEPT !.enabled = s.enabled, !.dest = IF moved THEN s.dest ELSE @]
      /\ p.route = (o.enabled # s.enabled \/ (k = "direct" /\ moved))
      /\ p.linked_list = (k = "linked" /\ moved)
  BY DEF MakePlan
<1>2. p.new \in Route
  BY <1>1 DEF Route, Setting
<1>3. p.route \in BOOLEAN /\ p.linked_list \in BOOLEAN
  BY <1>1, Zenon
<1>4. p \in Plan
  BY <1>1, <1>2, <1>3 DEF MakePlan, Plan
<1>5. p.route = TRUE \/ (o.enabled = s.enabled /\ ~(k = "direct" /\ moved))
  BY <1>1, Zenon
<1>6. p.linked_list = TRUE \/ ~(k = "linked" /\ moved)
  BY <1>1, Zenon
<1>7. p.linked_list = TRUE => k = "linked"
  BY <1>1, Zenon
<1>8. p.new.enabled = s.enabled /\ p.new.own = o.own /\ p.new.dest = IF moved THEN s.dest ELSE o.dest
  BY <1>1 DEF Route
<1> QED BY <1>1, <1>4, <1>5, <1>6, <1>7, <1>8 DEF Plans

(* Operations: nothing else is sent, and nothing twice.                    *)
LEMMA OperationFacts == \A p \in Plan : OperationsOf(p, Operations(p))
<1> SUFFICES ASSUME NEW p \in Plan PROVE OperationsOf(p, Operations(p))
  OBVIOUS
<1>1. /\ p.route \in BOOLEAN /\ p.linked_list \in BOOLEAN
      /\ p.old.enabled \in BOOLEAN /\ p.new.enabled \in BOOLEAN
  BY DEF Plan, Route
<1>2. CASE p.route /\ p.linked_list
  <2>1. CASE p.old.enabled /\ ~p.new.enabled
    <3>1. Operations(p) = <<"route", "linked_list">>
      BY <1>2, <2>1, Zenon DEF Operations
    <3> QED BY <1>1, <1>2, <2>1, <3>1 DEF OperationsOf, Stage
  <2>2. CASE ~(p.old.enabled /\ ~p.new.enabled)
    <3>1. Operations(p) = <<"linked_list", "route">>
      BY <1>2, <2>2, Zenon DEF Operations
    <3> QED BY <1>1, <1>2, <2>2, <3>1 DEF OperationsOf, Stage
  <2> QED BY <2>1, <2>2
<1>3. CASE p.route /\ ~p.linked_list
  <2>1. Operations(p) = <<"route">>
    BY <1>3, Zenon DEF Operations
  <2> QED BY <1>1, <1>3, <2>1 DEF OperationsOf, Stage
<1>4. CASE ~p.route /\ p.linked_list
  <2>1. Operations(p) = <<"linked_list">>
    BY <1>4, Zenon DEF Operations
  <2> QED BY <1>1, <1>4, <2>1 DEF OperationsOf, Stage
<1>5. CASE ~p.route /\ ~p.linked_list
  <2>1. Operations(p) = <<>>
    BY <1>5, Zenon DEF Operations
  <2> QED BY <1>1, <1>5, <2>1 DEF OperationsOf, Stage
<1> QED BY <1>1, <1>2, <1>3, <1>4, <1>5

-----------------------------------------------------------------------------
(* Types *)

(* Reverse of the community modules keeps the elements.                    *)
LEMMA ReverseFacts ==
    ASSUME NEW s \in Seq(Stage)
    PROVE  /\ Reverse(s) \in Seq(Stage) /\ Len(Reverse(s)) = Len(s)
           /\ \A i \in 1 .. Len(s) : Reverse(s)[i] = s[Len(s) + 1 - i]
<1>1. Len(s) \in Nat /\ \A i \in 1 .. Len(s) : s[i] \in Stage
  OBVIOUS
<1>2. \A i \in 1 .. Len(s) : (Len(s) - i) + 1 \in 1 .. Len(s) /\ (Len(s) - i) + 1 = Len(s) + 1 - i
  BY <1>1
<1>3. Reverse(s) = [i \in 1 .. Len(s) |-> s[(Len(s) - i) + 1]]
  BY DEF Reverse
<1>4. Reverse(s) \in [1 .. Len(s) -> Stage]
  BY <1>1, <1>2, <1>3
<1> QED BY <1>1, <1>2, <1>3, <1>4

(* What a request leaves at the controller is a route.                     *)
LEMMA RequestTypes ==
    ASSUME TypeOK, NEW stage, NEW r \in Route, NEW reported,
           Request(Put(stage, r), reported)
    PROVE  /\ remote' \in Route /\ misled' \in BOOLEAN
           /\ faults' \in [{"request", "edit", "crash"} -> Nat]
<1>1. Put(stage, r) \in Route
  BY DEF TypeOK, Put, Route
<1>2. remote' \in {remote, Put(stage, r)} /\ misled' \in {misled, TRUE}
  BY DEF Request
<1>3. faults' \in [{"request", "edit", "crash"} -> Nat]
  BY DEF TypeOK, Request, Fault
<1> QED BY <1>1, <1>2, <1>3 DEF TypeOK

(* A fault is counted.                                                     *)
LEMMA FaultTypes ==
    ASSUME TypeOK, NEW k \in {"request", "edit", "crash"}, NEW b, Fault(k, b)
    PROVE  faults' \in [{"request", "edit", "crash"} -> Nat]
BY DEF TypeOK, Fault

(* What TypeOK says of the progress of a run.                              *)
RunTypeOK ==
    /\ pc \in {"idle", "readList", "apply", "verify", "verifyList", "rollback"}
    /\ plan \in Plan
    /\ todo \in Seq(Stage) /\ done \in Seq(Stage) /\ undo \in Seq(Stage)
    /\ outcome \in Outcomes

(* A run that is over has no plan.                                         *)
LEMMA NoPlanType == NoPlan \in Plan
BY DestsAssumption DEF NoPlan, Plan, Nothing, Route, Own

(* The ways a run goes on or ends keep it.                                 *)
LEMMA PhaseTypes ==
    ASSUME TypeOK
    PROVE  /\ \A how \in Outcomes : Finish(how) => RunTypeOK'
           /\ StartRollback /\ UNCHANGED wanted => RunTypeOK'
           /\ \A o \in Route : Planned(MakePlan(kind, o, wanted)) => RunTypeOK'
<1>1. ASSUME NEW how \in Outcomes, Finish(how) PROVE RunTypeOK'
  BY <1>1, NoPlanType DEF Finish, RunTypeOK
<1>2. ASSUME StartRollback PROVE RunTypeOK'
  <2>1. CASE done = <<>>
    BY <1>1, <1>2, <2>1 DEF StartRollback, Outcomes
  <2>2. CASE done # <<>>
    <3>1. Reverse(done) \in Seq(Stage)
      BY ReverseFacts DEF TypeOK
    <3> QED BY <1>2, <2>2, <3>1 DEF StartRollback, TypeOK, RunTypeOK
  <2> QED BY <2>1, <2>2
<1>3. ASSUME NEW o \in Route, Planned(MakePlan(kind, o, wanted)) PROVE RunTypeOK'
  <2>1. MakePlan(kind, o, wanted) \in Plan
    BY PlanFacts DEF TypeOK, Plans
  <2>2. Operations(MakePlan(kind, o, wanted)) \in Seq(Stage)
    BY <2>1, OperationFacts DEF OperationsOf
  <2>3. CASE Operations(MakePlan(kind, o, wanted)) = <<>>
    BY <1>1, <1>3, <2>3 DEF Planned, Outcomes
  <2>4. CASE Operations(MakePlan(kind, o, wanted)) # <<>>
    BY <1>3, <2>1, <2>2, <2>4 DEF Planned, RunTypeOK, TypeOK, Outcomes
  <2> QED BY <2>3, <2>4
<1> QED BY <1>1, <1>2, <1>3

(* Every step keeps every type: one case per action.                       *)
LEMMA TypeStep == TypeOK /\ [Next]_vars => TypeOK'
<1> SUFFICES ASSUME TypeOK, [Next]_vars PROVE TypeOK'
  OBVIOUS
<1>1. ASSUME RunTypeOK', remote' \in Route, misled' \in BOOLEAN,
             faults' \in [{"request", "edit", "crash"} -> Nat],
             UNCHANGED <<kind, wanted, before, users>>
      PROVE  TypeOK'
  BY <1>1 DEF TypeOK, RunTypeOK, users
<1>2. remote \in Route /\ plan.old \in Route /\ plan.new \in Route
  BY DEF TypeOK, Plan
<1>3. RunTypeOK /\ misled \in BOOLEAN /\ faults \in [{"request", "edit", "crash"} -> Nat]
  BY DEF TypeOK, RunTypeOK
<1>4. CASE ReadRoute
  <2>1. RunTypeOK'
    <3>1. CASE kind = "direct"
      BY <1>2, <1>4, <3>1, PhaseTypes DEF ReadRoute
    <3>2. CASE kind # "direct"
      <4>1. [NoPlan EXCEPT !.old = remote] \in Plan
        BY <1>2, NoPlanType DEF Plan
      <4> QED BY <1>3, <1>4, <3>2, <4>1 DEF ReadRoute, RunTypeOK, Outcomes
    <3> QED BY <3>1, <3>2
  <2> QED BY <1>2, <1>4, <2>1 DEF ReadRoute, TypeOK, RunTypeOK
<1>5. CASE ReadList
  <2>1. [plan.old EXCEPT !.dest = remote.dest] \in Route
    BY <1>2 DEF Route
  <2>2. RunTypeOK'
    BY <1>5, <2>1, PhaseTypes DEF ReadList
  <2> QED BY <1>1, <1>2, <1>3, <1>5, <2>2 DEF ReadList
<1>6. CASE ReadListFails
  BY <1>1, <1>2, <1>3, <1>6, PhaseTypes, FaultTypes DEF ReadListFails, Outcomes
<1>7. CASE SendOperation
  <2>1. Head(todo) \in Stage /\ Tail(todo) \in Seq(Stage)
    BY <1>3, <1>7 DEF SendOperation, RunTypeOK
  <2>2. RunTypeOK'
    BY <1>3, <1>7, <2>1 DEF SendOperation, RunTypeOK
  <2> QED BY <1>1, <1>2, <1>7, <2>2, RequestTypes DEF SendOperation
<1>8. CASE OperationFails
  <2>1. RunTypeOK'
    BY <1>8, PhaseTypes DEF OperationFails
  <2> QED BY <1>1, <1>2, <1>8, <2>1, RequestTypes DEF OperationFails
<1>9. CASE StartVerify
  <2>1. RunTypeOK'
    BY <1>3, <1>9 DEF StartVerify, RunTypeOK, runVars
  <2> QED BY <1>1, <1>2, <1>3, <1>9, <2>1 DEF StartVerify
<1>10. CASE VerifyRoute
  <2>1. StartRollback \/ Finish("committed") \/ (pc' = "verifyList" /\ UNCHANGED <<runVars, outcome>>)
    BY <1>10 DEF VerifyRoute
  <2>2. RunTypeOK'
    BY <1>3, <1>10, <2>1, PhaseTypes DEF VerifyRoute, RunTypeOK, runVars, Outcomes
  <2> QED BY <1>1, <1>2, <1>3, <1>10, <2>2 DEF VerifyRoute
<1>11. CASE VerifyList
  <2>1. StartRollback \/ Finish("committed")
    BY <1>11 DEF VerifyList
  <2>2. RunTypeOK'
    BY <1>11, <2>1, PhaseTypes DEF VerifyList, Outcomes
  <2> QED BY <1>1, <1>2, <1>3, <1>11, <2>2 DEF VerifyList
<1>12. CASE VerifyReadFails
  <2>1. RunTypeOK'
    BY <1>12, PhaseTypes DEF VerifyReadFails
  <2> QED BY <1>1, <1>2, <1>3, <1>12, <2>1, FaultTypes DEF VerifyReadFails
<1>13. CASE SendRollback
  <2>1. CASE Len(undo) > 1
    <3>1. RunTypeOK'
      <4>1. Tail(undo) \in Seq(Stage)
        BY <1>3, <2>1 DEF RunTypeOK
      <4> QED BY <1>3, <1>13, <2>1, <4>1 DEF SendRollback, RunTypeOK
    <3> QED BY <1>1, <1>2, <1>13, <3>1, RequestTypes DEF SendRollback
  <2>2. CASE ~(Len(undo) > 1)
    <3>1. RunTypeOK'
      BY <1>13, <2>2, PhaseTypes DEF SendRollback, Outcomes
    <3> QED BY <1>1, <1>2, <1>13, <3>1, RequestTypes DEF SendRollback
  <2> QED BY <2>1, <2>2
<1>14. CASE RollbackFails
  <2>1. RunTypeOK'
    BY <1>14, PhaseTypes DEF RollbackFails, Outcomes
  <2> QED BY <1>1, <1>2, <1>14, <2>1, RequestTypes DEF RollbackFails
<1>15. CASE ErrorBodyTimesOut
  <2>1. Put(Head(todo), plan.new) \in Route /\ Put(Head(undo), plan.old) \in Route
    BY <1>2 DEF Put, Route
  <2>2. MaybeSent \subseteq Route
    BY <1>2, <2>1, Zenon DEF MaybeSent
  <2>3. RunTypeOK'
    BY <1>15, PhaseTypes DEF ErrorBodyTimesOut, Outcomes
  <2> QED BY <1>1, <1>3, <1>15, <2>2, <2>3, FaultTypes DEF ErrorBodyTimesOut
<1>16. CASE Crash
  BY <1>1, <1>2, <1>3, <1>16, PhaseTypes, FaultTypes DEF Crash, Outcomes
<1>17. CASE FeedChanges
  <2>1. outcome' \in Outcomes
    BY <1>3, <1>17 DEF FeedChanges, RunTypeOK, Outcomes
  <2> QED BY <1>17, <2>1, FaultTypes DEF FeedChanges, TypeOK, runVars, users
<1>18. CASE UserEdits
  <2>1. remote' \in Route
    BY <1>2, <1>18 DEF UserEdits, Route
  <2> QED BY <1>18, <2>1, FaultTypes DEF UserEdits, TypeOK, runVars
<1>19. CASE UserEditsOwnFields
  <2>1. remote' \in Route
    BY <1>2, <1>19 DEF UserEditsOwnFields, Route
  <2>2. overtaken' \in BOOLEAN
    BY <1>19, Zenon DEF UserEditsOwnFields
  <2> QED BY <1>19, <2>1, <2>2, FaultTypes DEF UserEditsOwnFields, TypeOK, runVars
<1>20. CASE OperatorRepairs
  BY <1>20 DEF OperatorRepairs, TypeOK, runVars, users, Outcomes
<1>21. CASE UNCHANGED vars
  BY <1>21 DEF vars, TypeOK, users
<1> QED
  BY <1>4, <1>5, <1>6, <1>7, <1>8, <1>9, <1>10, <1>11, <1>12, <1>13, <1>14, <1>15, <1>16,
     <1>17, <1>18, <1>19, <1>20, <1>21
  DEF Next, ServiceStep

(* Every variable keeps its type; in particular a plan that is under way   *)
(* is one, and nothing but its two operations is ever sent or undone.      *)
THEOREM TypeCorrect == Spec => []TypeOK
<1>1. Init => TypeOK
  <2> SUFFICES ASSUME Init PROVE TypeOK
    OBVIOUS
  <2>1. remote \in Route /\ before \in Route /\ wanted \in Setting
    BY DEF Init
  <2>2. kind \in {"direct", "linked"} /\ chosen \in Own
    BY DEF Init, Own
  <2>3. todo \in Seq(Stage) /\ done \in Seq(Stage) /\ undo \in Seq(Stage)
    BY DEF Init
  <2>4. faults \in [{"request", "edit", "crash"} -> Nat]
    BY DEF Init
  <2> QED BY <2>1, <2>2, <2>3, <2>4, NoPlanType DEF Init, TypeOK, Outcomes
<1> QED BY <1>1, TypeStep, PTL DEF Spec

-----------------------------------------------------------------------------
(* Which operations are in effect *)

(* A run in which requests are sent.                                       *)
Underway == pc \in {"apply", "verify", "verifyList", "rollback"}

Ops == Operations(plan)

(* The number of operations that were reported done and not undone: they   *)
(* are the first ones of the plan.                                         *)
InForce == IF pc = "rollback" THEN Len(undo) ELSE Len(done)

Among(n, stage) == \E i \in 1 .. n : Ops[i] = stage

(* The route r is the one that was read, with the first n operations.      *)
Shown(r, n) ==
    /\ r.own = plan.old.own
    /\ r.enabled = IF Among(n, "route") THEN plan.new.enabled ELSE plan.old.enabled
    /\ r.dest = IF Among(n, IF kind = "direct" THEN "route" ELSE "linked_list")
                THEN plan.new.dest ELSE plan.old.dest

(* Where the run stands in the sequence of its operations.                 *)
PlaceInv ==
    /\ pc # "idle" => outcome = "none"
    /\ edited = TRUE => misled = TRUE
    /\ pc = "readList" => kind = "linked" /\ (edited = FALSE => remote = before /\ plan.old = before)
    /\ Underway =>
        /\ plan = MakePlan(kind, plan.old, wanted) /\ Ops # <<>>
        /\ Len(done) <= Len(Ops) /\ \A i \in 1 .. Len(done) : done[i] = Ops[i]
        /\ pc = "apply" => /\ Len(done) + Len(todo) = Len(Ops)
                           /\ \A i \in 1 .. Len(todo) : todo[i] = Ops[Len(done) + i]
        /\ pc \in {"verify", "verifyList"} => Len(done) = Len(Ops)
        /\ pc = "verifyList" => ~PreserveDestinations(wanted)
                                 /\ (edited = FALSE => remote.enabled = wanted.enabled)
        /\ pc = "rollback" => /\ Len(undo) \in 1 .. Len(Ops)
                              /\ \A i \in 1 .. Len(undo) : undo[i] = Ops[Len(undo) + 1 - i]

(* A run that ends is nowhere.                                             *)
LEMMA FinishPlace ==
    ASSUME NEW how, Finish(how), edited' = TRUE => misled' = TRUE
    PROVE  PlaceInv'
BY DEF Finish, PlaceInv, Underway

(* A plan that is made has its operations before it.                       *)
LEMMA PlannedPlace ==
    ASSUME TypeOK, NEW o \in Route, Planned(MakePlan(kind, o, wanted)),
           UNCHANGED <<kind, wanted>>, edited' = TRUE => misled' = TRUE
    PROVE  PlaceInv'
<1> DEFINE p == MakePlan(kind, o, wanted)
<1>1. p \in Plan /\ p.old = o
  <2>1. kind \in {"direct", "linked"} /\ wanted \in Setting
    BY DEF TypeOK
  <2>2. Plans(p, kind, o, wanted)
    BY <2>1, PlanFacts
  <2> HIDE DEF p
  <2> QED BY <2>2 DEF Plans
<1>2. Operations(p) \in Seq(Stage)
  BY <1>1, OperationFacts DEF OperationsOf
<1>3. CASE Operations(p) = <<>>
  BY <1>3, FinishPlace DEF Planned
<1>4. CASE Operations(p) # <<>>
  <2>1. /\ pc' = "apply" /\ plan' = p /\ todo' = Operations(p) /\ done' = <<>>
        /\ outcome' = "none"
    BY <1>4 DEF Planned
  <2>2. plan' = MakePlan(kind, plan'.old, wanted) /\ Ops' = Operations(p)
    BY <1>1, <2>1 DEF Ops
  <2> QED BY <1>2, <1>4, <2>1, <2>2 DEF PlaceInv, Underway
<1> QED BY <1>3, <1>4

(* What is to be undone is what was done.                                  *)
LEMMA RollbackPlace ==
    ASSUME TypeOK, PlaceInv, Underway, StartRollback, UNCHANGED <<kind, wanted>>,
           edited' = TRUE => misled' = TRUE
    PROVE  PlaceInv'
<1>1. CASE done = <<>>
  BY <1>1, FinishPlace DEF StartRollback
<1>2. CASE done # <<>>
  <2>1. pc' = "rollback" /\ undo' = Reverse(done) /\ UNCHANGED <<plan, todo, done, outcome>>
    BY <1>2 DEF StartRollback
  <2>2. done \in Seq(Stage) /\ Len(done) \in Nat /\ Len(done) # 0
    BY <1>2 DEF TypeOK
  <2>3. /\ Len(undo') = Len(done)
        /\ \A i \in 1 .. Len(done) : undo'[i] = done[Len(done) + 1 - i]
    BY <2>1, <2>2, ReverseFacts
  <2>4. Ops \in Seq(Stage) /\ Len(Ops) \in Nat /\ Ops' = Ops
    BY <2>1, OperationFacts DEF TypeOK, Ops, OperationsOf
  <2>5. /\ Len(done) <= Len(Ops) /\ \A i \in 1 .. Len(done) : done[i] = Ops[i]
        /\ plan = MakePlan(kind, plan.old, wanted) /\ Ops # <<>> /\ outcome = "none"
    BY DEF PlaceInv, Underway
  <2>6. Len(undo') \in 1 .. Len(Ops)
    BY <2>2, <2>3, <2>4, <2>5
  <2>7. \A i \in 1 .. Len(undo') : undo'[i] = Ops[Len(undo') + 1 - i]
    <3> SUFFICES ASSUME NEW i \in 1 .. Len(done) PROVE undo'[i] = Ops[Len(undo') + 1 - i]
      BY <2>3
    <3>1. Len(done) + 1 - i \in 1 .. Len(done)
      BY <2>2
    <3> QED BY <2>3, <2>5, <3>1
  <2> QED BY <2>1, <2>4, <2>5, <2>6, <2>7 DEF PlaceInv, Underway
<1> QED BY <1>1, <1>2

(* Every step keeps it: one case per action.                               *)
LEMMA PlaceStep == TypeOK /\ PlaceInv /\ [Next]_vars => PlaceInv'
<1> SUFFICES ASSUME TypeOK, PlaceInv, [Next]_vars PROVE PlaceInv'
  OBVIOUS
<1>1. /\ remote \in Route /\ plan \in Plan /\ plan.old \in Route
      /\ Ops \in Seq(Stage) /\ Len(Ops) \in Nat
      /\ \A s \in {todo, done, undo} : s \in Seq(Stage) /\ Len(s) \in Nat
  BY OperationFacts DEF TypeOK, Plan, Ops, OperationsOf
<1>2. edited = TRUE => misled = TRUE
  BY DEF PlaceInv
<1>3. ASSUME UNCHANGED <<kind, wanted, pc, plan, todo, done, undo, outcome>>,
             edited' = TRUE => misled' = TRUE,
             edited' = TRUE \/ UNCHANGED <<remote, before, edited>>
      PROVE  PlaceInv'
  BY <1>3 DEF PlaceInv, Underway, Ops
<1>4. CASE ReadRoute
  <2>1. CASE kind = "direct"
    BY <1>1, <1>4, <2>1, PlannedPlace DEF ReadRoute
  <2>2. CASE kind # "direct"
    <3>1. kind' = "linked" /\ plan'.old = remote /\ before' = remote /\ remote' = remote
      BY <1>4, <2>2 DEF ReadRoute, TypeOK, NoPlan
    <3> QED BY <1>4, <2>2, <3>1 DEF ReadRoute, PlaceInv, Underway
  <2> QED BY <2>1, <2>2
<1>5. CASE ReadList
  <2>1. [plan.old EXCEPT !.dest = remote.dest] \in Route
    BY <1>1 DEF Route
  <2> QED BY <1>2, <1>5, <2>1, PlannedPlace DEF ReadList, users
<1>6. CASE SendOperation
  <2>1. /\ pc = "apply" /\ pc' = "apply" /\ todo # <<>>
        /\ done' = Append(done, Head(todo)) /\ todo' = Tail(todo)
        /\ UNCHANGED <<kind, wanted, plan, outcome, edited>>
        /\ (edited' = TRUE => misled' = TRUE)
    BY <1>2, <1>6 DEF SendOperation, Request, users
  <2>2. Ops' = Ops
    BY <2>1 DEF Ops
  <2>3. /\ Len(done) + Len(todo) = Len(Ops)
        /\ \A i \in 1 .. Len(done) : done[i] = Ops[i]
        /\ \A i \in 1 .. Len(todo) : todo[i] = Ops[Len(done) + i]
        /\ plan = MakePlan(kind, plan.old, wanted) /\ Ops # <<>> /\ outcome = "none"
    BY <2>1 DEF PlaceInv, Underway
  <2>4. /\ Len(done') = Len(done) + 1 /\ Len(todo') = Len(todo) - 1 /\ Len(todo) > 0
        /\ done'[Len(done) + 1] = todo[1] /\ todo[1] = Ops[Len(done) + 1]
        /\ \A i \in 1 .. Len(done) : done'[i] = done[i]
        /\ \A i \in 1 .. Len(todo) - 1 : todo'[i] = todo[i + 1]
    BY <1>1, <2>1, <2>3
  <2>5. \A i \in 1 .. Len(done') : done'[i] = Ops[i]
    <3> SUFFICES ASSUME NEW i \in 1 .. Len(done') PROVE done'[i] = Ops[i]
      OBVIOUS
    <3>1. i \in 1 .. Len(done) \/ i = Len(done) + 1
      BY <1>1, <2>4
    <3> QED BY <2>3, <2>4, <3>1
  <2>6. \A i \in 1 .. Len(todo') : todo'[i] = Ops[Len(done') + i]
    <3> SUFFICES ASSUME NEW i \in 1 .. Len(todo) - 1 PROVE todo'[i] = Ops[Len(done') + i]
      BY <2>4
    <3>1. i + 1 \in 1 .. Len(todo) /\ Len(done) + (i + 1) = Len(done') + i
      BY <1>1, <2>4
    <3> QED BY <2>3, <2>4, <3>1
  <2>7. Len(done') + Len(todo') = Len(Ops) /\ Len(done') <= Len(Ops)
    BY <1>1, <2>3, <2>4
  <2> QED BY <2>1, <2>2, <2>3, <2>5, <2>6, <2>7 DEF PlaceInv, Underway
<1>7. CASE OperationFails
  BY <1>2, <1>7, RollbackPlace DEF OperationFails, Request, users, Underway
<1>8. CASE StartVerify
  <2>1. /\ pc = "apply" /\ pc' = "verify" /\ todo = <<>> /\ Ops' = Ops
        /\ UNCHANGED <<kind, wanted, plan, todo, done, undo, outcome, misled, edited>>
    BY <1>8 DEF StartVerify, runVars, users, Ops
  <2>2. Len(done) = Len(Ops)
    BY <1>1, <2>1 DEF PlaceInv, Underway
  <2> QED BY <2>1, <2>2 DEF PlaceInv, Underway
<1>9. CASE VerifyRoute
  <2>1. plan.new.enabled = wanted.enabled
    <3>1. plan = MakePlan(kind, plan.old, wanted)
      BY <1>9 DEF VerifyRoute, PlaceInv, Underway
    <3>2. Plans(MakePlan(kind, plan.old, wanted), kind, plan.old, wanted)
      BY <1>1, PlanFacts DEF TypeOK
    <3> QED BY <3>1, <3>2 DEF Plans
  <2>2. CASE StartRollback
    BY <1>2, <1>9, <2>2, RollbackPlace DEF VerifyRoute, users, Underway
  <2>3. CASE Finish("committed")
    BY <1>2, <1>9, <2>3, FinishPlace DEF VerifyRoute, users
  <2>4. CASE /\ pc' = "verifyList" /\ UNCHANGED <<runVars, outcome>>
             /\ remote.enabled = plan.new.enabled /\ ~PreserveDestinations(wanted)
    <3>1. Ops' = Ops /\ PreserveDestinations(wanted)' = PreserveDestinations(wanted)
      BY <1>9, <2>4 DEF VerifyRoute, runVars, Ops, PreserveDestinations
    <3> QED BY <1>9, <2>1, <2>4, <3>1 DEF VerifyRoute, PlaceInv, Underway, runVars, users
  <2> QED BY <1>9, <2>2, <2>3, <2>4 DEF VerifyRoute
<1>10. CASE VerifyList
  <2>1. CASE StartRollback
    BY <1>2, <1>10, <2>1, RollbackPlace DEF VerifyList, users, Underway
  <2>2. CASE Finish("committed")
    BY <1>2, <1>10, <2>2, FinishPlace DEF VerifyList, users
  <2> QED BY <1>10, <2>1, <2>2 DEF VerifyList
<1>11. CASE VerifyReadFails
  BY <1>2, <1>11, RollbackPlace DEF VerifyReadFails, users, Underway
<1>12. CASE SendRollback
  <2>1. edited' = TRUE => misled' = TRUE
    BY <1>2, <1>12 DEF SendRollback, Request, users
  <2>2. CASE Len(undo) > 1
    <3>1. /\ pc = "rollback" /\ pc' = "rollback" /\ undo' = Tail(undo)
          /\ UNCHANGED <<kind, wanted, plan, todo, done, outcome, edited>>
      BY <1>12, <2>2 DEF SendRollback, users
    <3>2. /\ Len(undo) \in 1 .. Len(Ops)
          /\ \A i \in 1 .. Len(undo) : undo[i] = Ops[Len(undo) + 1 - i]
      BY <3>1 DEF PlaceInv, Underway
    <3>3. /\ Len(undo') = Len(undo) - 1
          /\ \A i \in 1 .. Len(undo) - 1 : undo'[i] = undo[i + 1]
      BY <1>1, <2>2, <3>1
    <3>4. \A i \in 1 .. Len(undo') : undo'[i] = Ops[Len(undo') + 1 - i]
      <4> SUFFICES ASSUME NEW i \in 1 .. Len(undo) - 1
                   PROVE  undo'[i] = Ops[Len(undo') + 1 - i]
        BY <3>3
      <4>1. i + 1 \in 1 .. Len(undo) /\ Len(undo) + 1 - (i + 1) = Len(undo') + 1 - i
        <5>1. i \in Nat /\ i >= 1 /\ i <= Len(undo) - 1 /\ Len(undo) \in Nat
          BY <1>1
        <5> QED BY <3>3, <5>1
      <4> QED BY <3>2, <3>3, <4>1
    <3>5. Len(undo') \in 1 .. Len(Ops)
      BY <1>1, <2>2, <3>2, <3>3
    <3>6. Ops' = Ops
      BY <3>1 DEF Ops
    <3> QED BY <2>1, <3>1, <3>4, <3>5, <3>6 DEF PlaceInv, Underway
  <2>3. CASE ~(Len(undo) > 1)
    BY <1>12, <2>1, <2>3, FinishPlace DEF SendRollback
  <2> QED BY <2>2, <2>3
<1>13. CASE RollbackFails
  BY <1>2, <1>13, FinishPlace DEF RollbackFails, Request, users
<1>14. CASE ReadListFails \/ ErrorBodyTimesOut \/ Crash
  BY <1>2, <1>14, FinishPlace DEF ReadListFails, ErrorBodyTimesOut, Crash, users
<1>15. CASE FeedChanges
  BY <1>2, <1>15 DEF FeedChanges, users, PlaceInv, Underway
<1>16. CASE UserEdits
  BY <1>3, <1>16 DEF UserEdits, runVars
<1>17. CASE UserEditsOwnFields
  BY <1>3, <1>17 DEF UserEditsOwnFields, runVars
<1>18. CASE OperatorRepairs
  BY <1>2, <1>18 DEF OperatorRepairs, users, PlaceInv, Underway
<1>19. CASE UNCHANGED vars
  BY <1>2, <1>3, <1>19 DEF vars, users
<1> QED
  BY <1>4, <1>5, <1>6, <1>7, <1>8, <1>9, <1>10, <1>11, <1>12, <1>13, <1>14, <1>15, <1>16,
     <1>17, <1>18, <1>19
  DEF Next, ServiceStep

(* Until a request misleads the run, the controller has the route that was *)
(* read, with the operations in force.                                     *)
EffectInv == Underway /\ misled = FALSE => plan.old = before /\ Shown(remote, InForce)

(* What the plan of a run under way is.                                    *)
LEMMA UnderwayFacts ==
    ASSUME TypeOK, PlaceInv, Underway
    PROVE  /\ Plans(plan, kind, plan.old, wanted) /\ OperationsOf(plan, Ops)
           /\ Ops # <<>> /\ InForce \in 0 .. Len(Ops) /\ Len(Ops) \in Nat
           /\ remote \in Route /\ plan.old \in Route /\ plan.new \in Route
           /\ kind = "direct" => \A i \in 1 .. Len(Ops) : Ops[i] = "route"
           /\ kind = "linked" \/ kind = "direct"
<1>1. plan.old \in Route /\ plan.new \in Route /\ remote \in Route
  BY DEF TypeOK, Plan
<1>2. plan = MakePlan(kind, plan.old, wanted) /\ Ops # <<>>
  BY DEF PlaceInv
<1>3. Plans(MakePlan(kind, plan.old, wanted), kind, plan.old, wanted)
  BY <1>1, PlanFacts DEF TypeOK
<1>4. Plans(plan, kind, plan.old, wanted)
  BY <1>2, <1>3
<1>5. OperationsOf(plan, Ops)
  BY OperationFacts DEF TypeOK, Ops
<1>6. Len(done) \in Nat
  BY DEF TypeOK
<1>7. InForce \in 0 .. Len(Ops) /\ Len(Ops) \in Nat
  BY <1>5, <1>6 DEF PlaceInv, InForce, OperationsOf
<1>8. kind = "direct" => \A i \in 1 .. Len(Ops) : Ops[i] = "route"
  BY <1>4, <1>5 DEF Plans, OperationsOf, Stage
<1> QED BY <1>1, <1>2, <1>4, <1>5, <1>7, <1>8 DEF TypeOK

(* The next operation adds its object to those in effect.                  *)
LEMMA NextOperation ==
    ASSUME TypeOK, PlaceInv, Underway, NEW n \in Nat, n + 1 <= Len(Ops), Shown(remote, n),
           remote' = Put(Ops[n + 1], plan.new)
    PROVE  Shown(remote', n + 1)
<1>1. /\ remote \in Route /\ plan.new \in Route /\ plan.new.own = plan.old.own
      /\ n + 1 \in 1 .. Len(Ops) /\ (kind = "linked" \/ kind = "direct")
      /\ Ops[n + 1] \in {"route", "linked_list"}
      /\ kind = "direct" => Ops[n + 1] = "route"
  BY UnderwayFacts DEF Plans, OperationsOf, Stage
<1>2. \A stage : Among(n + 1, stage) <=> (Among(n, stage) \/ Ops[n + 1] = stage)
  BY <1>1 DEF Among
<1>3. CASE Ops[n + 1] = "linked_list"
  BY <1>1, <1>2, <1>3 DEF Put, Shown, Route
<1>4. CASE Ops[n + 1] = "route"
  BY <1>1, <1>2, <1>4 DEF Put, Shown, Route
<1> QED BY <1>1, <1>3, <1>4

(* The rollback of the last operation takes its object out again.          *)
LEMMA LastOperationUndone ==
    ASSUME TypeOK, PlaceInv, Underway, NEW n \in Nat, n + 1 <= Len(Ops), Shown(remote, n + 1),
           remote' = Put(Ops[n + 1], plan.old)
    PROVE  Shown(remote', n)
<1>1. /\ remote \in Route /\ plan.old \in Route
      /\ n + 1 \in 1 .. Len(Ops) /\ (kind = "linked" \/ kind = "direct")
      /\ Ops[n + 1] \in {"route", "linked_list"}
      /\ kind = "direct" => Ops[n + 1] = "route"
      /\ \A i, j \in 1 .. Len(Ops) : Ops[i] = Ops[j] => i = j
  BY UnderwayFacts DEF Plans, OperationsOf, Stage
<1>2. \A stage : Ops[n + 1] # stage => (Among(n + 1, stage) <=> Among(n, stage))
  BY <1>1 DEF Among
<1>3. ~Among(n, Ops[n + 1])
  BY <1>1 DEF Among
<1>4. CASE Ops[n + 1] = "linked_list"
  BY <1>1, <1>2, <1>3, <1>4 DEF Put, Shown, Route
<1>5. CASE Ops[n + 1] = "route"
  BY <1>1, <1>2, <1>3, <1>5 DEF Put, Shown, Route
<1> QED BY <1>1, <1>4, <1>5

(* A plan whose operations have all been undone, or not been sent, leaves  *)
(* the route as it was.                                                    *)
LEMMA NothingInForce ==
    ASSUME TypeOK, NEW r \in Route, Shown(r, 0)
    PROVE  r = plan.old
<1>1. plan.old \in Route
  BY DEF TypeOK, Plan
<1>2. r.own = plan.old.own /\ r.enabled = plan.old.enabled /\ r.dest = plan.old.dest
  BY DEF Shown, Among
<1> QED BY <1>1, <1>2 DEF Route

(* Where the plan and the route stay, so does the account.                 *)
LEMMA SameEffect ==
    ASSUME EffectInv, Underway,
           UNCHANGED <<kind, plan, remote, before>>, misled' = FALSE => misled = FALSE,
           Underway' => InForce' = InForce
    PROVE  EffectInv'
<1>1. Ops' = Ops
  BY DEF Ops
<1>2. ASSUME Underway' PROVE Shown(remote, InForce)' <=> Shown(remote, InForce)
  BY <1>1, <1>2 DEF Shown, Among
<1> QED BY <1>2 DEF EffectInv

(* A plan that is made has nothing in effect yet.                          *)
LEMMA PlannedEffect ==
    ASSUME TypeOK, Planned(MakePlan(kind, remote, wanted)),
           remote' = remote, before' = remote \/ misled' # FALSE
    PROVE  EffectInv'
<1>1. Plans(MakePlan(kind, remote, wanted), kind, remote, wanted)
  BY PlanFacts DEF TypeOK
<1>2. CASE pc' = "idle"
  BY <1>2 DEF EffectInv, Underway
<1>3. CASE pc' # "idle"
  <2>1. plan'.old = remote /\ done' = <<>> /\ pc' = "apply"
    BY <1>1, <1>3 DEF Planned, Finish, Plans
  <2>2. InForce' = 0
    BY <2>1 DEF InForce
  <2>3. \A stage : ~Among(0, stage)'
    BY DEF Among
  <2> QED BY <2>1, <2>2, <2>3 DEF EffectInv, Shown
<1> QED BY <1>2, <1>3

(* StartRollback undoes as many operations as were done.                   *)
LEMMA RollbackForce ==
    ASSUME TypeOK, StartRollback, pc # "rollback"
    PROVE  /\ Underway' => InForce' = InForce
           /\ done = <<>> => outcome' = "nothing_done" /\ pc' = "idle"
           /\ done # <<>> => outcome' = outcome /\ pc' = "rollback" /\ plan' = plan
<1>1. CASE done = <<>>
  BY <1>1 DEF StartRollback, Finish, Underway
<1>2. CASE done # <<>>
  <2>1. Len(Reverse(done)) = Len(done)
    BY ReverseFacts DEF TypeOK
  <2> QED BY <1>2, <2>1 DEF StartRollback, InForce
<1> QED BY <1>1, <1>2

(* A route that was read in two pieces is the one that the controller has, *)
(* unless somebody edited it in between.                                   *)
LEMMA ReadTwice ==
    ASSUME TypeOK, PlaceInv, pc = "readList", edited = FALSE
    PROVE  [plan.old EXCEPT !.dest = remote.dest] = remote /\ before = remote
<1>1. plan.old = remote /\ remote \in Route /\ before = remote
  BY DEF TypeOK, PlaceInv
<1> QED BY <1>1 DEF Route

(* Every step keeps it.                                                    *)
LEMMA EffectStep == TypeOK /\ PlaceInv /\ EffectInv /\ [Next]_vars => EffectInv'
<1> SUFFICES ASSUME TypeOK, PlaceInv, EffectInv, [Next]_vars PROVE EffectInv'
  OBVIOUS
<1>1. ASSUME pc' \notin {"apply", "verify", "verifyList", "rollback"} PROVE EffectInv'
  BY <1>1 DEF EffectInv, Underway
<1>2. ASSUME misled' = TRUE PROVE EffectInv'
  BY <1>2 DEF EffectInv
<1>3. CASE ReadRoute
  <2>1. CASE kind = "direct"
    BY <1>3, <2>1, PlannedEffect DEF ReadRoute
  <2>2. CASE kind # "direct"
    BY <1>1, <1>3, <2>2 DEF ReadRoute
  <2> QED BY <2>1, <2>2
<1>4. CASE ReadList
  <2>1. misled' = misled /\ remote' = remote /\ before' = before /\ pc = "readList"
    BY <1>4 DEF ReadList
  <2>2. CASE misled = TRUE
    BY <1>2, <2>1, <2>2
  <2>3. CASE misled = FALSE
    <3>1. edited = FALSE
      BY <2>3 DEF TypeOK, PlaceInv
    <3> QED BY <1>4, <2>1, <3>1, ReadTwice, PlannedEffect DEF ReadList
  <2> QED BY <2>2, <2>3 DEF TypeOK
<1>5. CASE SendOperation
  <2> SUFFICES ASSUME misled' = FALSE PROVE EffectInv'
    BY DEF EffectInv
  <2>1. /\ pc = "apply" /\ pc' = "apply" /\ todo # <<>> /\ UNCHANGED <<plan, kind, before>>
        /\ done' = Append(done, Head(todo)) /\ misled = FALSE
        /\ remote' = Put(Head(todo), plan.new)
    BY <1>5 DEF SendOperation, Request
  <2>2. /\ done \in Seq(Stage) /\ todo \in Seq(Stage) /\ Len(done) \in Nat
        /\ Len(todo) \in Nat /\ Len(todo) > 0 /\ Head(todo) = todo[1]
    BY <2>1 DEF TypeOK
  <2>3. Head(todo) = Ops[Len(done) + 1] /\ Len(done) + 1 <= Len(Ops)
    BY <2>1, <2>2 DEF PlaceInv, Underway
  <2>4. InForce = Len(done) /\ InForce' = Len(done) + 1
    BY <2>1, <2>2 DEF InForce
  <2>5. Shown(remote, Len(done)) /\ plan.old = before
    BY <2>1, <2>4 DEF EffectInv, Underway
  <2>6. Shown(remote', Len(done) + 1)
    BY <2>1, <2>2, <2>3, <2>5, NextOperation DEF Underway
  <2>7. Shown(remote, InForce)'
    BY <2>1, <2>4, <2>6 DEF Shown, Among, Ops
  <2> QED BY <2>1, <2>5, <2>7 DEF EffectInv
<1>6. CASE OperationFails
  <2>1. CASE misled' = TRUE
    BY <1>2, <2>1
  <2>2. CASE UNCHANGED <<remote, misled>>
    <3>1. CASE done = <<>>
      BY <1>1, <1>6, <3>1, RollbackForce DEF OperationFails
    <3>2. CASE done # <<>>
      BY <1>6, <2>2, <3>2, RollbackForce, SameEffect DEF OperationFails, Underway
    <3> QED BY <3>1, <3>2
  <2> QED BY <1>6, <2>1, <2>2 DEF OperationFails, Request
<1>7. CASE StartVerify
  BY <1>7, SameEffect DEF StartVerify, runVars, Underway, InForce
<1>8. CASE VerifyRoute \/ VerifyList \/ VerifyReadFails
  <2>1. /\ pc \in {"verify", "verifyList"} /\ UNCHANGED <<kind, remote, before, misled>>
    BY <1>8 DEF VerifyRoute, VerifyList, VerifyReadFails
  <2>2. \/ StartRollback \/ Finish("committed")
        \/ pc' = "verifyList" /\ UNCHANGED <<runVars, outcome>>
    BY <1>8 DEF VerifyRoute, VerifyList, VerifyReadFails
  <2>3. CASE StartRollback
    <3>1. CASE done = <<>>
      BY <1>1, <2>1, <2>3, <3>1, RollbackForce
    <3>2. CASE done # <<>>
      BY <2>1, <2>3, <3>2, RollbackForce, SameEffect DEF Underway
    <3> QED BY <3>1, <3>2
  <2>4. CASE Finish("committed")
    BY <1>1, <2>4 DEF Finish
  <2>5. CASE pc' = "verifyList" /\ UNCHANGED <<runVars, outcome>>
    BY <2>1, <2>5, SameEffect DEF runVars, Underway, InForce
  <2> QED BY <2>2, <2>3, <2>4, <2>5
<1>9. CASE SendRollback
  <2>1. CASE ~(Len(undo) > 1)
    BY <1>1, <1>9, <2>1 DEF SendRollback, Finish
  <2>2. CASE Len(undo) > 1 /\ misled' = FALSE
    <3>1. /\ pc = "rollback" /\ pc' = "rollback" /\ UNCHANGED <<plan, kind, before>>
          /\ undo' = Tail(undo) /\ misled = FALSE /\ remote' = Put(Head(undo), plan.old)
      BY <1>9, <2>2 DEF SendRollback, Request
    <3>2. undo \in Seq(Stage) /\ Len(undo) \in Nat
      BY DEF TypeOK
    <3>3. PICK n \in Nat : Len(undo) = n + 1
      <4>1. Len(undo) - 1 \in Nat /\ Len(undo) = (Len(undo) - 1) + 1
        BY <2>2, <3>2
      <4> QED BY <4>1
    <3>4. Head(undo) = Ops[n + 1] /\ n + 1 <= Len(Ops)
      BY <3>1, <3>2, <3>3 DEF PlaceInv, Underway
    <3>5. InForce = n + 1 /\ InForce' = n
      BY <3>1, <3>2, <3>3 DEF InForce
    <3>6. Shown(remote, n + 1) /\ plan.old = before
      BY <3>1, <3>5 DEF EffectInv, Underway
    <3>7. Shown(remote', n)
      BY <3>1, <3>4, <3>6, LastOperationUndone DEF Underway
    <3>8. Shown(remote, InForce)'
      BY <3>1, <3>5, <3>7 DEF Shown, Among, Ops
    <3> QED BY <3>1, <3>6, <3>8 DEF EffectInv
  <2>3. CASE misled' # FALSE
    BY <2>3 DEF EffectInv
  <2> QED BY <2>1, <2>2, <2>3
<1>10. CASE RollbackFails \/ ReadListFails \/ ErrorBodyTimesOut \/ Crash
  BY <1>1, <1>10 DEF RollbackFails, ReadListFails, ErrorBodyTimesOut, Crash, Finish
<1>11. CASE FeedChanges \/ OperatorRepairs
  <2>1. pc = "idle" /\ pc' = pc
    BY <1>11 DEF FeedChanges, OperatorRepairs, PlaceInv
  <2> QED BY <1>1, <2>1
<1>12. CASE UserEdits \/ UserEditsOwnFields
  BY <1>2, <1>12 DEF UserEdits, UserEditsOwnFields
<1>13. CASE UNCHANGED vars
  <2>1. CASE Underway
    BY <1>13, <2>1, SameEffect DEF vars, InForce
  <2>2. CASE ~Underway
    BY <1>1, <1>13, <2>2 DEF vars, Underway
  <2> QED BY <2>1, <2>2
<1> QED
  BY <1>3, <1>4, <1>5, <1>6, <1>7, <1>8, <1>9, <1>10, <1>11, <1>12, <1>13 DEF Next, ServiceStep

(* Every invariant of the run holds always.                                *)
RunInv == TypeOK /\ PlaceInv /\ EffectInv

LEMMA RunAlways == Spec => []RunInv
<1>1. Init => PlaceInv /\ EffectInv
  BY DEF Init, PlaceInv, EffectInv, Underway
<1> QED BY <1>1, TypeCorrect, TypeStep, PlaceStep, EffectStep, PTL DEF Spec, RunInv

-----------------------------------------------------------------------------
(* The destinations of an enabled route *)

(* In a run that switches the route, the order of the operations and of    *)
(* their rollback keeps an enabled route with the list that goes with it.  *)
THEOREM NeverWithAnotherList == Spec => []EnabledOnlyWithItsList
<1>1. RunInv => EnabledOnlyWithItsList
  <2> SUFFICES ASSUME RunInv, ~misled, Underway, remote.enabled,
                      plan.old.enabled # plan.new.enabled
               PROVE  remote.dest = IF plan.new.enabled THEN plan.new.dest ELSE plan.old.dest
    BY DEF EnabledOnlyWithItsList, Underway
  <2> DEFINE n == InForce
             own == IF kind = "direct" THEN "route" ELSE "linked_list"
  <2>1. /\ TypeOK /\ Shown(remote, n) /\ kind \in {"direct", "linked"}
        /\ remote.enabled \in BOOLEAN /\ plan.old.enabled \in BOOLEAN
        /\ plan.new.enabled \in BOOLEAN
    BY DEF RunInv, EffectInv, TypeOK, Plan, Route
  <2>2. /\ Plans(plan, kind, plan.old, wanted) /\ OperationsOf(plan, Ops)
        /\ n \in 0 .. Len(Ops) /\ Len(Ops) \in 0 .. 2
    BY UnderwayFacts DEF RunInv, OperationsOf
  <2>3. plan.route = TRUE
    BY <2>2 DEF Plans
  <2>4. CASE plan.new.enabled
    <3>1. Among(n, "route")
      BY <2>1, <2>4 DEF Shown
    <3>2. Among(n, own) \/ plan.new.dest = plan.old.dest
      <4>1. CASE kind = "direct"
        BY <3>1, <4>1
      <4>2. CASE kind # "direct" /\ plan.linked_list = TRUE
        <5>1. Ops[1] = "linked_list"
          BY <2>2, <2>3, <2>4, <4>2 DEF OperationsOf
        <5> QED BY <2>2, <3>1, <4>2, <5>1 DEF Among
      <4>3. CASE kind # "direct" /\ plan.linked_list # TRUE
        BY <2>2, <4>3 DEF Plans
      <4> QED BY <4>1, <4>2, <4>3
    <3> QED BY <2>1, <2>4, <3>2 DEF Shown
  <2>5. CASE ~plan.new.enabled
    <3>1. ~Among(n, "route")
      BY <2>1, <2>5 DEF Shown
    <3>2. ~Among(n, own) \/ plan.new.dest = plan.old.dest
      <4>1. CASE kind = "direct"
        BY <3>1, <4>1
      <4>2. CASE kind # "direct" /\ plan.linked_list = TRUE
        <5>1. plan.old.enabled
          BY <2>1, <2>5
        <5>2. Ops[1] = "route"
          BY <2>2, <2>3, <2>5, <4>2, <5>1 DEF OperationsOf
        <5> QED BY <2>2, <3>1, <4>2, <5>2 DEF Among
      <4>3. CASE kind # "direct" /\ plan.linked_list # TRUE
        BY <2>2, <4>3 DEF Plans
      <4> QED BY <4>1, <4>2, <4>3
    <3> QED BY <2>1, <2>5, <3>2 DEF Shown
  <2> QED BY <2>4, <2>5
<1> QED BY <1>1, RunAlways, PTL

-----------------------------------------------------------------------------
(* The fields that are the user's *)

(* The strengthening of EditsSurvive: the record that the run sends was    *)
(* read after his last edit.                                               *)
OwnInv ==
    overtaken = FALSE =>
        /\ remote.own = chosen
        /\ pc # "idle" => plan.old.own = chosen
        /\ Underway => plan.new.own = chosen

(* A request repeats those fields.                                         *)
LEMMA PutKeepsOwn ==
    ASSUME TypeOK, NEW r \in {plan.old, plan.new}, NEW stage
    PROVE  Put(stage, r).own \in {remote.own, r.own}
BY DEF TypeOK, Plan, Put, Route

(* So the route has them as it had, or as the run has read them.           *)
LEMMA RequestKeepsOwn ==
    ASSUME TypeOK, NEW stage, NEW reported,
           Request(Put(stage, plan.new), reported) \/ Request(Put(stage, plan.old), reported)
    PROVE  remote'.own \in {remote.own, plan.old.own, plan.new.own}
BY PutKeepsOwn DEF Request

(* Every step keeps it.                                                    *)
LEMMA OwnStep == RunInv /\ OwnInv /\ [Next]_vars => OwnInv'
<1> SUFFICES ASSUME RunInv, OwnInv, [Next]_vars PROVE OwnInv'
  OBVIOUS
<1>1. TypeOK /\ remote \in Route /\ plan \in Plan /\ plan.old \in Route /\ plan.new \in Route
  BY DEF RunInv, TypeOK, Plan
<1>2. ASSUME UNCHANGED <<chosen, overtaken>>,
             remote'.own \in {remote.own} \cup (IF Underway THEN {plan.old.own, plan.new.own} ELSE {}),
             pc' = "idle" \/ (plan' = plan /\ pc # "idle" /\ (Underway' => Underway))
      PROVE  OwnInv'
  BY <1>2 DEF OwnInv, Underway
<1>3. ASSUME NEW o \in Route, Planned(MakePlan(kind, o, wanted)), o.own = remote.own,
             UNCHANGED <<remote, chosen, overtaken>>
      PROVE  OwnInv'
  <2>1. Plans(MakePlan(kind, o, wanted), kind, o, wanted)
    BY <1>1, PlanFacts DEF TypeOK
  <2> QED BY <1>3, <2>1 DEF Planned, Finish, OwnInv, Underway, Plans
<1>4. CASE ReadRoute
  <2>1. CASE kind = "direct"
    BY <1>1, <1>3, <1>4, <2>1 DEF ReadRoute
  <2>2. CASE kind # "direct"
    <3>1. plan'.old = remote
      BY <1>4, <2>2 DEF ReadRoute, NoPlan
    <3> QED BY <1>4, <2>2, <3>1 DEF ReadRoute, OwnInv, Underway
  <2> QED BY <2>1, <2>2
<1>5. CASE ReadList
  <2>1. CASE overtaken = TRUE
    BY <1>5, <2>1 DEF ReadList, users, OwnInv
  <2>2. CASE overtaken = FALSE
    <3>1. plan.old.own = remote.own
      BY <1>5, <2>2 DEF ReadList, OwnInv
    <3>2. /\ [plan.old EXCEPT !.dest = remote.dest] \in Route
          /\ [plan.old EXCEPT !.dest = remote.dest].own = remote.own
      BY <1>1, <3>1 DEF Route
    <3> QED BY <1>3, <1>5, <3>2 DEF ReadList, users
  <2> QED BY <1>1, <2>1, <2>2 DEF TypeOK
<1>6. CASE SendOperation
  <2>1. Underway /\ remote'.own \in {remote.own, plan.old.own, plan.new.own}
    BY <1>1, <1>6, RequestKeepsOwn DEF SendOperation, Underway
  <2> QED BY <1>2, <1>6, <2>1 DEF SendOperation, users, Underway
<1>7. CASE OperationFails
  <2>1. pc' = "idle" \/ (pc' = "rollback" /\ plan' = plan)
    BY <1>7 DEF OperationFails, StartRollback, Finish
  <2>2. Underway /\ remote'.own \in {remote.own, plan.old.own, plan.new.own}
    BY <1>1, <1>7, RequestKeepsOwn DEF OperationFails, Underway
  <2> QED BY <1>2, <1>7, <2>1, <2>2 DEF OperationFails, users, Underway
<1>8. CASE StartVerify
  BY <1>2, <1>8 DEF StartVerify, runVars, users, Underway
<1>9. CASE VerifyRoute \/ VerifyList \/ VerifyReadFails
  <2>1. /\ pc \in {"verify", "verifyList"} /\ UNCHANGED <<remote, users>>
        /\ pc' = "idle" \/ plan' = plan
    BY <1>9 DEF VerifyRoute, VerifyList, VerifyReadFails, StartRollback, Finish, runVars
  <2> QED BY <1>2, <2>1 DEF users, Underway
<1>10. CASE SendRollback
  <2>1. pc = "rollback" /\ (pc' = "idle" \/ UNCHANGED <<pc, plan>>)
    BY <1>10 DEF SendRollback, Finish
  <2>2. Underway /\ remote'.own \in {remote.own, plan.old.own, plan.new.own}
    BY <1>1, <1>10, RequestKeepsOwn DEF SendRollback, Underway
  <2> QED BY <1>2, <1>10, <2>1, <2>2 DEF SendRollback, users, Underway
<1>11. CASE RollbackFails
  <2>1. Underway /\ remote'.own \in {remote.own, plan.old.own, plan.new.own}
    BY <1>1, <1>11, RequestKeepsOwn DEF RollbackFails, Underway
  <2> QED BY <1>2, <1>11, <2>1 DEF RollbackFails, Finish, users
<1>12. CASE ErrorBodyTimesOut
  <2>1. MaybeSent \subseteq {remote, Put(Head(todo), plan.new), Put(Head(undo), plan.old)}
    BY Zenon DEF MaybeSent
  <2>2. ~Underway => MaybeSent = {remote}
    BY Zenon DEF MaybeSent, Underway
  <2>3. remote'.own \in {remote.own} \cup (IF Underway THEN {plan.old.own, plan.new.own} ELSE {})
    BY <1>1, <1>12, <2>1, <2>2, PutKeepsOwn DEF ErrorBodyTimesOut
  <2> QED BY <1>2, <1>12, <2>3 DEF ErrorBodyTimesOut, Finish, users
<1>13. CASE ReadListFails \/ Crash
  BY <1>2, <1>13 DEF ReadListFails, Crash, Finish, users
<1>14. CASE FeedChanges \/ OperatorRepairs
  <2>1. pc = "idle" /\ pc' = pc /\ UNCHANGED users
    BY <1>14 DEF FeedChanges, OperatorRepairs, RunInv, PlaceInv
  <2> QED BY <1>14, <2>1 DEF FeedChanges, OperatorRepairs, OwnInv, Underway, users
<1>15. CASE UserEdits
  <2>1. remote'.own = remote.own
    BY <1>1, <1>15 DEF UserEdits, Route
  <2> QED BY <1>15, <2>1 DEF UserEdits, runVars, OwnInv, Underway
<1>16. CASE UserEditsOwnFields
  <2>1. remote'.own = chosen' /\ (overtaken' = FALSE => pc = "idle") /\ pc' = pc
    BY <1>1, <1>16 DEF UserEditsOwnFields, Route
  <2> QED BY <2>1 DEF OwnInv, Underway
<1>17. CASE UNCHANGED vars
  BY <1>17 DEF vars, users, OwnInv, Underway
<1> QED
  BY <1>4, <1>5, <1>6, <1>7, <1>8, <1>9, <1>10, <1>11, <1>12, <1>13, <1>14, <1>15, <1>16, <1>17
  DEF Next, ServiceStep

(* What the user wrote into the fields that are his survives every update  *)
(* and every rollback that read the route after he did.                    *)
THEOREM EditsAlwaysSurvive == Spec => []EditsSurvive
<1>1. Init => OwnInv
  BY DEF Init, OwnInv, Underway
<1>2. RunInv /\ OwnInv => EditsSurvive
  BY DEF RunInv, TypeOK, OwnInv, EditsSurvive
<1> QED BY <1>1, <1>2, OwnStep, RunAlways, PTL DEF Spec

-----------------------------------------------------------------------------
(* The refinement *)

(* The state of RouterUpdate, as RunIsOneStep maps it.                     *)
Seen == IF pc = "idle" THEN remote ELSE before
Report(o) ==
    CASE o \in {"noop", "committed"} -> "success"
      [] o \in {"rolled_back", "nothing_done"} -> "restored"
      [] o = "read_failed" -> "error"
      [] o \in {"crashed", "uncaught"} -> "unknown"
      [] OTHER -> o

(* What a report stands for.                                               *)
LEMMA Reports ==
    /\ \A o \in {"noop", "committed"} : Report(o) = "success"
    /\ \A o \in {"rolled_back", "nothing_done"} : Report(o) = "restored"
    /\ Report("read_failed") = "error"
    /\ \A o \in {"crashed", "uncaught"} : Report(o) = "unknown"
    /\ \A o \in {"none", "partial"} : Report(o) = o
    /\ \A o \in Outcomes : Report(o) = "partial" => o = "partial"
<1>1. \A o \in {"noop", "committed"} : Report(o) = "success"
  BY DEF Report
<1>2. \A o \in {"rolled_back", "nothing_done"} : Report(o) = "restored"
  BY DEF Report
<1>3. Report("read_failed") = "error"
  BY DEF Report
<1>4. \A o \in {"crashed", "uncaught"} : Report(o) = "unknown"
  BY DEF Report
<1>5. \A o \in {"none", "partial"} : Report(o) = o
  BY DEF Report
<1>6. \A o \in Outcomes : Report(o) = "partial" => o = "partial"
  BY <1>1, <1>2, <1>3, <1>4, <1>5 DEF Outcomes
<1> QED BY <1>1, <1>2, <1>3, <1>4, <1>5, <1>6

(* The ways a step of a run may look from outside.                         *)
LEMMA ContractRun ==
    ASSUME TypeOK, TypeOK', outcome # "partial", wanted' = wanted,
           \/ outcome' \in {"noop", "committed"} /\ (edited' \/ Satisfies(Seen', wanted))
           \/ /\ outcome' \in {"rolled_back", "nothing_done"}
              /\ misled' \/ edited' \/ Seen' = Seen
           \/ outcome' = "read_failed" /\ (misled' \/ edited' \/ Seen' = Seen)
           \/ outcome' \in {"partial", "crashed", "uncaught"}
           \/ outcome' = "none" /\ Seen' = Seen
    PROVE  Contract!Next
<1>1. Seen' \in Route /\ misled' \in BOOLEAN /\ edited' \in BOOLEAN
  BY DEF TypeOK, Seen
<1>2. Report(outcome) # "partial"
  BY Reports DEF TypeOK
<1> USE <1>1, <1>2, Reports
<1>3. ASSUME NEW how, Report(outcome') = how PROVE Contract!Run(how)
  BY <1>3 DEF Contract!Run, Report, Seen
<1>4. CASE outcome' \in {"noop", "committed"} /\ (edited' \/ Satisfies(Seen', wanted))
  <2>1. Contract!Run("success")
    BY <1>3, <1>4
  <2> QED BY <1>4, <2>1 DEF Contract!Next, Contract!Succeed, Seen, Satisfies, PreserveDestinations
<1>5. CASE /\ outcome' \in {"rolled_back", "nothing_done"}
           /\ misled' \/ edited' \/ Seen' = Seen
  <2>1. Contract!Run("restored")
    BY <1>3, <1>5
  <2> QED BY <1>5, <2>1 DEF Contract!Next, Contract!Restore, Seen
<1>6. CASE outcome' = "read_failed" /\ (misled' \/ edited' \/ Seen' = Seen)
  <2>1. Contract!Run("error")
    BY <1>3, <1>6
  <2> QED BY <1>6, <2>1 DEF Contract!Next, Contract!FailCleanly, Seen
<1>7. CASE outcome' = "partial"
  BY <1>3, <1>7 DEF Contract!Next, Contract!FailPartly
<1>8. CASE outcome' \in {"crashed", "uncaught"}
  BY <1>3, <1>8 DEF Contract!Next, Contract!Vanish
<1>9. CASE outcome' = "none" /\ Seen' = Seen
  <2>1. Contract!Run("none")
    BY <1>3, <1>9
  <2> QED BY <1>9, <2>1 DEF Contract!Next, Contract!Begin, Seen
<1> QED BY <1>4, <1>5, <1>6, <1>7, <1>8, <1>9

(* A plan without operations is one for a route that is as it should be.   *)
LEMMA NothingToDo ==
    ASSUME TypeOK, NEW o \in Route, Operations(MakePlan(kind, o, wanted)) = <<>>
    PROVE  Satisfies(o, wanted)
<1> DEFINE p == MakePlan(kind, o, wanted)
<1>1. Plans(p, kind, o, wanted)
  BY PlanFacts DEF TypeOK
<1>2. p \in Plan /\ p.route \in BOOLEAN /\ p.linked_list \in BOOLEAN
  BY <1>1 DEF Plans, Plan
<1>3. OperationsOf(p, <<>>)
  BY <1>2, OperationFacts
<1>4. p.route = FALSE /\ p.linked_list = FALSE
  BY <1>2, <1>3 DEF OperationsOf
<1>5. kind \in {"direct", "linked"}
  BY DEF TypeOK
<1> HIDE DEF p
<1> QED BY <1>1, <1>4, <1>5 DEF Plans, Satisfies

(* The plan was made: the run begins, or ends with nothing to do.          *)
LEMMA PlannedOutcome ==
    ASSUME TypeOK, NEW o \in Route, Planned(MakePlan(kind, o, wanted))
    PROVE  \/ outcome' = "noop" /\ pc' = "idle" /\ Satisfies(o, wanted)
           \/ outcome' = "none" /\ pc' = "apply"
<1>1. CASE Operations(MakePlan(kind, o, wanted)) = <<>>
  BY <1>1, NothingToDo DEF Planned, Finish
<1>2. CASE Operations(MakePlan(kind, o, wanted)) # <<>>
  BY <1>2 DEF Planned
<1> QED BY <1>1, <1>2

(* A run that commits has read that the route is as wanted, whatever the   *)
(* controller acknowledged.                                                *)
LEMMA CommitFits ==
    ASSUME RunInv, VerifyRoute \/ VerifyList, Finish("committed")
    PROVE  edited' \/ Satisfies(remote', wanted)
<1>1. Underway /\ UNCHANGED <<remote, edited>>
  BY DEF VerifyRoute, VerifyList, Underway, users
<1>2. Plans(plan, kind, plan.old, wanted) /\ edited \in BOOLEAN
  BY <1>1, UnderwayFacts DEF RunInv, TypeOK
<1>3. CASE VerifyRoute
  <2>1. pc' = "idle" /\ done # <<>>
    <3>1. pc = "verify"
      BY <1>3 DEF VerifyRoute
    <3>2. Ops # <<>> /\ Ops \in Seq(Stage) /\ Len(done) = Len(Ops)
      BY <1>1, <3>1, UnderwayFacts DEF RunInv, PlaceInv, OperationsOf
    <3> QED BY <3>2 DEF Finish
  <2>2. ~StartRollback
    BY <2>1 DEF StartRollback
  <2>3. /\ remote.enabled = plan.new.enabled
        /\ PreserveDestinations(wanted) \/ remote.dest = plan.new.dest
    BY <1>3, <2>1, <2>2 DEF VerifyRoute
  <2> QED BY <1>1, <1>2, <2>3 DEF Plans, Satisfies
<1>4. CASE VerifyList
  <2>1. pc = "verifyList" /\ pc' = "idle"
    BY <1>4 DEF VerifyList, Finish
  <2>2. done # <<>>
    <3>1. Ops # <<>> /\ Ops \in Seq(Stage) /\ Len(done) = Len(Ops)
      BY <1>1, <2>1, UnderwayFacts DEF RunInv, PlaceInv, OperationsOf
    <3> QED BY <3>1
  <2>3. remote.dest = plan.new.dest
    BY <1>4, <2>1, <2>2 DEF VerifyList, StartRollback
  <2>4. ~PreserveDestinations(wanted) /\ (edited = FALSE => remote.enabled = wanted.enabled)
    BY <1>1, <2>1 DEF RunInv, PlaceInv
  <2> QED BY <1>1, <1>2, <2>3, <2>4 DEF Plans, Satisfies
<1> QED BY <1>3, <1>4

(* Every step is one of RouterUpdate, or none: one case per action.        *)
LEMMA ContractStep ==
    RunInv /\ RunInv' /\ [Next]_vars => [Contract!Next]_(Contract!vars)
<1> SUFFICES ASSUME RunInv, RunInv', [Next]_vars PROVE [Contract!Next]_(Contract!vars)
  OBVIOUS
<1>1. TypeOK /\ TypeOK' /\ PlaceInv /\ PlaceInv'
  BY DEF RunInv
<1>2. pc # "idle" => outcome = "none" /\ Seen = before
  BY <1>1 DEF PlaceInv, Seen
<1>3. pc' # "idle" => outcome' = "none" /\ Seen' = before'
  BY <1>1 DEF PlaceInv, Seen
<1>4. remote \in Route /\ plan.old \in Route
  BY <1>1 DEF TypeOK, Plan
<1>5. CASE outcome # "partial" /\ ReadRoute
  <2>1. wanted' = wanted /\ remote' = remote /\ before' = remote /\ pc = "idle"
    BY <1>5 DEF ReadRoute
  <2>2. Seen' = remote /\ Seen = remote
    BY <2>1 DEF Seen
  <2>3. CASE kind = "direct"
    <3>1. (outcome' = "noop" /\ Satisfies(remote, wanted)) \/ outcome' = "none"
      BY <1>1, <1>4, <1>5, <2>3, PlannedOutcome DEF ReadRoute
    <3> QED BY <1>1, <1>5, <2>1, <2>2, <3>1, ContractRun
  <2>4. CASE kind # "direct"
    BY <1>1, <1>5, <2>1, <2>2, <2>4, ContractRun DEF ReadRoute
  <2> QED BY <2>3, <2>4
<1>6. CASE ReadList
  <2>1. /\ pc = "readList" /\ UNCHANGED <<remote, before, wanted, edited>>
        /\ [plan.old EXCEPT !.dest = remote.dest] \in Route
    BY <1>4, <1>6 DEF ReadList, users, Route
  <2>2. \/ /\ outcome' = "noop" /\ pc' = "idle"
           /\ Satisfies([plan.old EXCEPT !.dest = remote.dest], wanted)
        \/ outcome' = "none" /\ pc' = "apply"
    BY <1>1, <1>6, <2>1, PlannedOutcome DEF ReadList
  <2>3. CASE outcome' = "noop" /\ edited = FALSE
    <3>1. Satisfies(remote, wanted)
      BY <1>1, <2>1, <2>2, <2>3, ReadTwice
    <3> QED BY <1>1, <1>2, <2>1, <2>2, <2>3, <3>1, ContractRun DEF Seen
  <2>4. CASE outcome' = "noop" /\ edited = TRUE
    BY <1>1, <1>2, <2>1, <2>4, ContractRun
  <2>5. CASE outcome' = "none" /\ pc' = "apply"
    BY <1>1, <1>2, <1>3, <2>1, <2>5, ContractRun
  <2> QED BY <1>1, <2>2, <2>3, <2>4, <2>5 DEF TypeOK
<1>7. CASE ReadListFails
  <2>1. /\ pc = "readList" /\ outcome' = "read_failed" /\ pc' = "idle"
        /\ UNCHANGED <<remote, wanted, edited>>
    BY <1>7 DEF ReadListFails, Finish, users
  <2>2. edited' \/ Seen' = Seen
    BY <1>1, <2>1, ReadTwice DEF Seen, TypeOK
  <2> QED BY <1>1, <1>2, <2>1, <2>2, ContractRun
<1>8. CASE SendOperation \/ StartVerify
  <2>1. pc # "idle" /\ pc' # "idle" /\ UNCHANGED <<wanted, before>>
    BY <1>8 DEF SendOperation, StartVerify
  <2> QED BY <1>1, <1>2, <1>3, <2>1, ContractRun
<1>9. ASSUME Underway, UNCHANGED <<wanted, before>>, pc # "rollback", StartRollback,
             done = <<>> => misled' \/ (misled' = FALSE /\ misled = FALSE /\ remote' = remote)
      PROVE  Contract!Next
  <2>1. pc # "idle"
    BY <1>9 DEF Underway
  <2>2. CASE done # <<>>
    BY <1>1, <1>2, <1>3, <1>9, <2>1, <2>2, RollbackForce, ContractRun
  <2>3. CASE done = <<>>
    <3>1. outcome' = "nothing_done" /\ pc' = "idle"
      BY <1>1, <1>9, <2>3, RollbackForce
    <3>2. CASE misled'
      BY <1>1, <1>2, <1>9, <2>1, <3>1, <3>2, ContractRun
    <3>3. CASE misled = FALSE /\ remote' = remote
      <4>1. InForce = 0
        BY <1>9, <2>3 DEF InForce
      <4>2. Shown(remote, 0) /\ plan.old = before
        BY <1>9, <3>3, <4>1 DEF RunInv, EffectInv
      <4>3. Seen' = Seen
        BY <1>1, <1>2, <1>4, <2>1, <3>1, <3>3, <4>2, NothingInForce DEF Seen
      <4> QED BY <1>1, <1>2, <1>9, <2>1, <3>1, <4>3, ContractRun
    <3> QED BY <1>9, <2>3, <3>2, <3>3
  <2> QED BY <2>2, <2>3
<1>10. CASE OperationFails
  <2>1. /\ Underway /\ UNCHANGED <<wanted, before>> /\ pc # "rollback" /\ StartRollback
        /\ misled' = TRUE \/ UNCHANGED <<remote, misled>>
    BY <1>10 DEF OperationFails, Request, Underway
  <2>2. misled' \/ (misled' = FALSE /\ misled = FALSE /\ remote' = remote)
    BY <1>1, <2>1 DEF TypeOK
  <2> QED BY <1>9, <2>1, <2>2
<1>11. CASE VerifyRoute \/ VerifyList \/ VerifyReadFails
  <2>1. /\ Underway /\ pc \in {"verify", "verifyList"}
        /\ UNCHANGED <<remote, wanted, before, misled>>
    BY <1>11 DEF VerifyRoute, VerifyList, VerifyReadFails, Underway
  <2>2. \/ StartRollback
        \/ Finish("committed") /\ (VerifyRoute \/ VerifyList)
        \/ pc' = "verifyList"
    <3>1. CASE VerifyRoute
      BY <3>1 DEF VerifyRoute
    <3>2. CASE VerifyList
      BY <3>2 DEF VerifyList
    <3>3. CASE VerifyReadFails
      BY <3>3 DEF VerifyReadFails
    <3> QED BY <1>11, <3>1, <3>2, <3>3
  <2>3. CASE StartRollback
    <3>1. misled' \/ (misled' = FALSE /\ misled = FALSE /\ remote' = remote)
      BY <1>1, <2>1 DEF TypeOK
    <3> QED BY <1>9, <2>1, <2>3, <3>1
  <2>4. CASE Finish("committed") /\ (VerifyRoute \/ VerifyList)
    <3>1. edited' \/ Satisfies(remote', wanted)
      BY <2>4, CommitFits
    <3>2. pc' = "idle" /\ outcome' = "committed"
      BY <2>4 DEF Finish
    <3> QED BY <1>1, <1>2, <2>1, <3>1, <3>2, ContractRun DEF Seen
  <2>5. CASE pc' = "verifyList"
    BY <1>1, <1>2, <1>3, <2>1, <2>5, ContractRun
  <2> QED BY <2>2, <2>3, <2>4, <2>5
<1>12. CASE SendRollback
  <2>1. /\ Underway /\ pc = "rollback" /\ UNCHANGED <<wanted, before>>
        /\ \/ misled' = TRUE
           \/ misled' = FALSE /\ misled = FALSE /\ remote' = Put(Head(undo), plan.old)
    BY <1>1, <1>12 DEF SendRollback, Request, Underway, TypeOK
  <2>2. CASE Len(undo) > 1
    <3>1. pc' = "rollback"
      BY <1>12, <2>2 DEF SendRollback
    <3> QED BY <1>1, <1>2, <1>3, <2>1, <3>1, ContractRun
  <2>3. CASE ~(Len(undo) > 1)
    <3>1. pc' = "idle" /\ outcome' = "rolled_back"
      BY <1>12, <2>3 DEF SendRollback, Finish
    <3>2. CASE misled' = TRUE
      BY <1>1, <1>2, <2>1, <3>1, <3>2, ContractRun
    <3>3. CASE misled = FALSE /\ remote' = Put(Head(undo), plan.old)
      <4>1. /\ undo \in Seq(Stage) /\ Len(undo) \in 1 .. Len(Ops) /\ Len(Ops) \in Nat
            /\ \A i \in 1 .. Len(undo) : undo[i] = Ops[Len(undo) + 1 - i]
        BY <1>1, <2>1, UnderwayFacts DEF TypeOK, PlaceInv
      <4>2. Len(undo) = 1 /\ Head(undo) = Ops[0 + 1] /\ 0 + 1 <= Len(Ops)
        <5>0. Len(undo) \in 1 .. Len(Ops) /\ Len(Ops) \in Nat
          BY <4>1
        <5>1. Len(undo) = 1 /\ 1 <= Len(Ops)
          <6>1. \A n, m : n \in 1 .. m /\ m \in Nat /\ ~(n > 1) => n = 1 /\ 1 <= m
            OBVIOUS
          <6> QED BY <2>3, <5>0, <6>1
        <5>2. undo # << >> /\ 1 \in 1 .. Len(undo) /\ Len(undo) + 1 - 1 = 0 + 1
          BY <5>1
        <5>3. Head(undo) = undo[1]
          BY <4>1, <5>2
        <5>4. undo[1] = Ops[Len(undo) + 1 - 1]
          BY <4>1, <5>2
        <5> QED BY <5>1, <5>2, <5>3, <5>4
      <4>3. Shown(remote, 0 + 1) /\ plan.old = before
        BY <2>1, <3>3, <4>2 DEF RunInv, EffectInv, InForce
      <4>4. Shown(remote', 0)
        BY <1>1, <2>1, <3>3, <4>2, <4>3, LastOperationUndone
      <4>5. remote' \in Route
        BY <1>1 DEF TypeOK
      <4>6. Seen' = Seen
        BY <1>1, <1>2, <2>1, <3>1, <4>3, <4>4, <4>5, NothingInForce DEF Seen
      <4> QED BY <1>1, <1>2, <2>1, <3>1, <4>6, ContractRun
    <3> QED BY <2>1, <3>2, <3>3
  <2> QED BY <2>2, <2>3
<1>13. CASE RollbackFails \/ ErrorBodyTimesOut \/ Crash
  <2>1. pc # "idle" /\ wanted' = wanted /\ outcome' \in {"partial", "uncaught", "crashed"}
    BY <1>13 DEF RollbackFails, ErrorBodyTimesOut, Crash, Finish
  <2> QED BY <1>1, <1>2, <2>1, ContractRun
<1>14. CASE FeedChanges
  <2>1. /\ wanted' \in Setting /\ UNCHANGED <<misled, edited>> /\ Seen' = Seen
        /\ outcome' = IF outcome = "partial" THEN outcome ELSE "none"
    BY <1>14 DEF FeedChanges, users, Seen
  <2>2. Report(outcome') = IF Report(outcome) = "partial" THEN Report(outcome) ELSE "none"
    BY <1>1, <2>1, Reports DEF TypeOK
  <2> QED BY <2>1, <2>2 DEF Contract!Next, Contract!Ask, Report, Seen
<1>15. CASE UserEdits \/ UserEditsOwnFields
  <2>1. Seen' \in Route /\ misled' \in BOOLEAN
    BY <1>1 DEF TypeOK, Seen
  <2>2. edited' = TRUE /\ UNCHANGED <<wanted, outcome>>
    BY <1>15 DEF UserEdits, UserEditsOwnFields
  <2> QED BY <2>1, <2>2 DEF Contract!Next, Contract!Edit, Seen
<1>16. CASE OperatorRepairs
  <2>1. /\ outcome = "partial" /\ outcome' = "none"
        /\ UNCHANGED <<wanted, misled, edited>>
    BY <1>16 DEF OperatorRepairs, users
  <2>2. Report(outcome) = "partial" /\ Report(outcome') = "none"
    BY <2>1, Reports
  <2>3. Seen' \in Route
    BY <1>1 DEF TypeOK, Seen
  <2> QED BY <2>1, <2>2, <2>3 DEF Contract!Next, Contract!Repair, Report, Seen
<1>17. CASE UNCHANGED vars
  BY <1>17 DEF vars, users, Contract!vars
<1> QED
  BY <1>5, <1>6, <1>7, <1>8, <1>10, <1>11, <1>12, <1>13, <1>14, <1>15, <1>16, <1>17
  DEF Next, ServiceStep

(* Runs under any faults, edits and kills are the steps of RouterUpdate.   *)
THEOREM EveryRunIsOneStep == Spec => RunIsOneStep
<1>1. Init => Contract!Init
  <2> SUFFICES ASSUME Init PROVE Contract!Init
    OBVIOUS
  <2>1. Seen \in Route /\ wanted \in Setting /\ misled = FALSE /\ edited = FALSE
    BY DEF Init, Seen
  <2>2. Report(outcome) = "none"
    BY Reports DEF Init
  <2> QED BY <2>1, <2>2 DEF Contract!Init, Report, Seen
<1> QED BY <1>1, RunAlways, ContractStep, PTL DEF Spec, RunIsOneStep, Contract!Spec

=============================================================================
