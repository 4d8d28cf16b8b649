------------------------- MODULE OpnsenseSyncProofs -------------------------
(***************************************************************************)
(* Theorems about OpnsenseSync, for any destination lists and any number   *)
(* of faults, edits and kills.                                             *)
(***************************************************************************)
EXTENDS OpnsenseSync, TLAPS

-----------------------------------------------------------------------------
(* Types *)

(* NoAlias and Alias(d) are contents, and a setting names a rule.          *)
LEMMA Contents ==
    /\ NoAlias \in Content
    /\ \A d \in Dests : Alias(d) \in Content
    /\ RuleFor(wanted.enabled) \in {"on", "off"}
BY DestsAssumption DEF NoAlias, Alias, Content, RuleFor

(* A fault is counted.                                                     *)
LEMMA FaultTypes ==
    ASSUME TypeOK, NEW k \in {"request", "edit", "crash"}, NEW b, Fault(k, b)
    PROVE  faults' \in [{"request", "edit", "crash"} -> Nat]
BY DEF TypeOK, Fault

(* Every step keeps every type: one case per action.                       *)
LEMMA TypeStep == TypeOK /\ [Next]_vars => TypeOK'
<1> SUFFICES ASSUME TypeOK, [Next]_vars PROVE TypeOK'
  OBVIOUS
<1>1. wanted.dest \in Dests
  BY DEF TypeOK
<1> USE <1>1, Contents, FaultTypes DEF TypeOK, firewall, history, NotApplied
<1>2. CASE Start
  BY <1>2 DEF Start
<1>3. CASE ReadAlias
  BY <1>3 DEF ReadAlias, Goto
<1>4. CASE CreateAlias
  BY <1>4 DEF CreateAlias, Goto
<1>5. CASE UpdateAliasContent
  BY <1>5 DEF UpdateAliasContent, Goto
<1>6. CASE ReconfigureAlias
  BY <1>6 DEF ReconfigureAlias, Goto
<1>7. CASE SearchRule
  BY <1>7 DEF SearchRule, Goto, Finish
<1>8. CASE ToggleRule
  BY <1>8 DEF ToggleRule, Goto, RuleState
<1>9. CASE ApplyFilter
  BY <1>9 DEF ApplyFilter, Finish
<1>10. CASE DryRun
  BY <1>10 DEF DryRun
<1>11. CASE ReadFails
  BY <1>11 DEF ReadFails, Finish
<1>12. CASE WriteFails
  BY <1>12 DEF WriteFails, Finish, RuleState
<1>13. CASE ApplyFails
  BY <1>13 DEF ApplyFails, Finish
<1>14. CASE Crash
  BY <1>14 DEF Crash, Finish
<1>15. CASE FeedChanges
  BY <1>15 DEF FeedChanges
<1>16. CASE UserEdits
  BY <1>16 DEF UserEdits
<1>17. CASE UNCHANGED vars
  BY <1>17 DEF vars
<1> QED
  BY <1>2, <1>3, <1>4, <1>5, <1>6, <1>7, <1>8, <1>9, <1>10, <1>11, <1>12, <1>13, <1>14,
     <1>15, <1>16, <1>17
  DEF Next, ServiceStep

(* Every variable keeps its type, the states of the rule included.         *)
THEOREM TypeCorrect == Spec => []TypeOK
<1>1. Init => TypeOK
  <2> SUFFICES ASSUME Init PROVE TypeOK
    OBVIOUS
  <2>1. alias \in Content /\ table = alias
    BY Contents DEF Init
  <2>2. faults = [k \in {"request", "edit", "crash"} |-> 0]
    BY DEF Init
  <2>3. /\ rule \in RuleState /\ filter = rule /\ pc = "idle" /\ outcome = "none"
        /\ wanted \in [enabled : BOOLEAN, dest : Dests]
        /\ misled = FALSE /\ unapplied = {} /\ edited = FALSE
    BY DEF Init
  <2> QED BY <2>1, <2>2, <2>3 DEF TypeOK
<1> QED BY <1>1, TypeStep, PTL DEF Spec

-----------------------------------------------------------------------------
(* What a run has achieved *)

(* The strengthening of SuccessIsReal and of EnabledOnlyOverItsList.  While *)
(* nothing was ignored or edited, the alias is as wanted once the run is   *)
(* past writing it, and the rule once it is past switching it.  The        *)
(* firewall enforces what is configured, but for what the run is about to  *)
(* have applied, and for what a failed run left unapplied.                 *)
ConfigInv ==
    /\ pc # "idle" => outcome = "none"
    /\ misled = FALSE /\ edited = FALSE =>
        /\ ~alias.exists => alias.dest = NoDest
        /\ pc \in {"reconfigure", "searchRule", "toggle", "apply"} =>
              NothingWanted \/ alias.dest = wanted.dest
        /\ pc = "apply" => rule = RuleFor(wanted.enabled)
        /\ outcome = "success" => Satisfies(alias, rule)
        /\ pc # "reconfigure" => "alias" \in unapplied \/ table = alias
        /\ pc # "apply" => "rule" \in unapplied \/ filter = rule

(* Every step keeps it.                                                    *)
LEMMA ConfigStep == TypeOK /\ ConfigInv /\ [Next]_vars => ConfigInv'
<1> SUFFICES ASSUME TypeOK, ConfigInv, [Next]_vars PROVE ConfigInv'
  OBVIOUS
<1> USE DEF ConfigInv, TypeOK, firewall, history, NothingWanted, Satisfies, ListAsWanted,
            RuleAsWanted, NotApplied
<1>1. CASE Start
  BY <1>1 DEF Start
<1>2. CASE ReadAlias
  BY <1>2 DEF ReadAlias, Goto, AliasIpsChanged
<1>3. CASE CreateAlias
  BY <1>3 DEF CreateAlias, Goto, Alias
<1>4. CASE UpdateAliasContent
  BY <1>4 DEF UpdateAliasContent, Goto, Alias
<1>5. CASE ReconfigureAlias
  BY <1>5 DEF ReconfigureAlias, Goto
<1>6. CASE SearchRule
  BY <1>6 DEF SearchRule, Goto, Finish, RuleChanged
<1>7. CASE ToggleRule
  BY <1>7 DEF ToggleRule, Goto
<1>8. CASE ApplyFilter
  BY <1>8 DEF ApplyFilter, Finish
<1>9. CASE DryRun
  BY <1>9 DEF DryRun
<1>10. CASE ReadFails
  BY <1>10 DEF ReadFails, Finish
<1>11. CASE WriteFails
  BY <1>11 DEF WriteFails, Finish, Alias
<1>12. CASE ApplyFails
  BY <1>12 DEF ApplyFails, Finish
<1>13. CASE Crash
  <2>1. /\ pc' = "idle" /\ outcome' = "crashed"
        /\ UNCHANGED <<alias, table, rule, filter, wanted, misled, edited>>
    BY <1>13 DEF Crash, Finish
  <2>2. /\ unapplied \subseteq unapplied'
        /\ pc = "reconfigure" => "alias" \in unapplied'
        /\ pc = "apply" => "rule" \in unapplied'
    BY <1>13 DEF Crash
  <2> QED BY <2>1, <2>2
<1>14. CASE FeedChanges
  BY <1>14 DEF FeedChanges
<1>15. CASE UserEdits
  BY <1>15 DEF UserEdits
<1>16. CASE UNCHANGED vars
  BY <1>16 DEF vars
<1> QED
  BY <1>1, <1>2, <1>3, <1>4, <1>5, <1>6, <1>7, <1>8, <1>9, <1>10, <1>11, <1>12, <1>13,
     <1>14, <1>15, <1>16
  DEF Next, ServiceStep

(* The strengthening holds always.                                         *)
LEMMA Always == Spec => [](TypeOK /\ ConfigInv)
<1>1. Init => ConfigInv
  BY DEF Init, ConfigInv, NoAlias, Alias
<1> QED BY <1>1, TypeCorrect, TypeStep, ConfigStep, PTL DEF Spec

(* A run that reports success has configured what the feed asks, and the   *)
(* firewall enforces it but for what a failed run left unapplied.          *)
THEOREM SuccessIsAlwaysReal == Spec => []SuccessIsReal
<1>1. TypeOK /\ ConfigInv => SuccessIsReal
  <2>1. TypeOK => /\ misled \in {TRUE, FALSE} /\ edited \in {TRUE, FALSE}
    BY DEF TypeOK
  <2> QED BY <2>1 DEF ConfigInv, SuccessIsReal, Satisfies, ListAsWanted, RuleAsWanted
<1> QED BY <1>1, Always, PTL

(* Whatever failed, was lost or was killed in this run or an earlier one,  *)
(* the firewall starts to enforce the rule only while the alias is         *)
(* configured with the list of the feed; and it has loaded that list,      *)
(* unless a failed run wrote the alias and nothing has loaded it since.    *)
THEOREM NeverOverAnotherList == Spec => EnabledOnlyOverItsList
<1>1. ASSUME TypeOK, ConfigInv, [Next]_vars,
             filter # "on", filter' = "on", ~misled, ~edited'
      PROVE  /\ alias.dest = wanted.dest
             /\ "alias" \in unapplied \/ table'.dest = wanted.dest
  <2>1. misled = FALSE
    BY <1>1 DEF TypeOK
  <2>2. CASE ApplyFilter \/ ApplyFails
    <3>1. /\ pc = "apply" /\ filter' = rule /\ edited' = edited
          /\ table' \in {table, alias}
      BY <1>1, <2>2 DEF ApplyFilter, ApplyFails
    <3>2. edited = FALSE /\ wanted.enabled
      BY <1>1, <2>1, <3>1 DEF TypeOK, ConfigInv, RuleFor
    <3>3. ~NothingWanted
      BY <3>2 DEF NothingWanted
    <3>4. alias.dest = wanted.dest /\ ("alias" \in unapplied \/ table = alias)
      BY <1>1, <2>1, <3>1, <3>2, <3>3 DEF ConfigInv
    <3> QED BY <3>1, <3>4
  <2>3. CASE UserEdits
    BY <1>1, <2>3 DEF UserEdits
  <2>4. CASE filter' = filter
    BY <1>1, <2>4
  <2>5. [Next]_vars => ApplyFilter \/ ApplyFails \/ UserEdits \/ filter' = filter
    BY DEF Next, ServiceStep, Start, ReadAlias, CreateAlias, UpdateAliasContent,
           ReconfigureAlias, SearchRule, ToggleRule, ReadFails, WriteFails, DryRun, Crash,
           FeedChanges, vars, firewall
  <2> QED BY <1>1, <2>2, <2>3, <2>4, <2>5
<1> QED BY <1>1, Always, PTL DEF Spec, EnabledOnlyOverItsList

=============================================================================
