----------------------------- MODULE OpnsenseSync -----------------------------
(***************************************************************************)
(* The OPNsense driver: sync_opnsense and the client calls it makes, run   *)
(* after run.  The firewall keeps a configuration, which the driver reads  *)
(* and writes, apart from what it enforces: a change of the alias reaches  *)
(* the firewall's table with `reconfigure`, one of the rule with `apply`.  *)
(* Runs do not overlap: SyncService has the lock.                          *)
(***************************************************************************)
EXTENDS Naturals

CONSTANTS
    Dests,      \* the destination lists, as the feed normalizes them
    NoDest,     \* the empty one
    MaxFaults,  \* bound: requests that do not do what they report
    MaxEdits,   \* bound: edits by the user, and changes of the feed
    MaxCrashes  \* bound: processes killed

ASSUME DestsAssumption == NoDest \in Dests
ASSUME BoundsAssumption ==
    MaxFaults \in Nat /\ MaxEdits \in Nat /\ MaxCrashes \in Nat

(* The alias may not exist yet, the rule may not have been made.           *)
Content == [exists : BOOLEAN, dest : Dests]
NoAlias == [exists |-> FALSE, dest |-> NoDest]
Alias(d) == [exists |-> TRUE, dest |-> d]
RuleState == {"missing", "off", "on"}
RuleFor(enabled) == IF enabled THEN "on" ELSE "off"

VARIABLES
    alias,    \* the alias in the configuration
    table,    \* the alias the firewall enforces
    rule,     \* the rule in the configuration
    filter,   \* the rule the firewall enforces
    wanted,   \* what the feed asks for
    pc,       \* where the run is
    outcome,  \* how the last run ended
    faults    \* faults, edits and crashes so far

(* History variables.                                                      *)
VARIABLES
    misled,    \* the firewall acknowledged a request and ignored it
    unapplied, \* of alias and rule, what was written by a run that ended before
               \* it was reconfigured or applied, and has not been since
    edited     \* somebody else changed the alias or the rule

firewall == <<alias, table, rule, filter>>
history == <<misled, unapplied, edited>>
vars == <<firewall, wanted, pc, outcome, faults, history>>

TypeOK ==
    /\ alias \in Content /\ table \in Content
    /\ rule \in RuleState /\ filter \in RuleState
    /\ wanted \in [enabled : BOOLEAN, dest : Dests]
    /\ pc \in {"idle", "readAlias", "createAlias", "setAlias", "reconfigure",
               "searchRule", "toggle", "apply"}
    /\ outcome \in {"none", "success", "dry_run", "error", "crashed"}
    /\ faults \in [{"request", "edit", "crash"} -> Nat]
    /\ misled \in BOOLEAN /\ unapplied \subseteq {"alias", "rule"} /\ edited \in BOOLEAN

Init ==
    /\ alias \in {NoAlias} \cup {Alias(d) : d \in Dests} /\ table = alias
    /\ rule \in RuleState /\ filter = rule
    /\ wanted \in [enabled : BOOLEAN, dest : Dests]
    /\ pc = "idle" /\ outcome = "none"
    /\ faults = [k \in {"request", "edit", "crash"} |-> 0]
    /\ misled = FALSE /\ unapplied = {} /\ edited = FALSE

-----------------------------------------------------------------------------
(* Helpers *)

Fault(k, bound) == /\ faults[k] < bound
                   /\ faults' = [faults EXCEPT ![k] = @ + 1]

Goto(to) == pc' = to /\ UNCHANGED outcome

Finish(how) == pc' = "idle" /\ outcome' = how

NotApplied(what) == unapplied' = unapplied \cup {what}

(* preserve_alias_content, and the two comparisons of the driver.          *)
NothingWanted == ~wanted.enabled /\ wanted.dest = NoDest
(* Mutant: the alias is kept up to date only while blocks are active.      *)
AliasIpsChangedIfEnabled == wanted.enabled /\ alias.dest # wanted.dest

AliasIpsChanged == ~NothingWanted /\ alias.dest # wanted.dest
RuleChanged == rule # RuleFor(wanted.enabled)

-----------------------------------------------------------------------------
(* A run                                                                   *)

(* authenticate reads the alias configuration; nothing follows from it.    *)
Start ==
    /\ pc = "idle"
    /\ pc' = "readAlias" /\ outcome' = "none"
    /\ UNCHANGED <<firewall, wanted, faults, history>>

(* search_alias and get_alias_item.                                        *)
ReadAlias ==
    /\ pc = "readAlias"
    /\ Goto(CASE ~alias.exists /\ wanted.dest # NoDest -> "createAlias"
              [] alias.exists /\ AliasIpsChanged -> "setAlias"
              [] OTHER -> "searchRule")
    /\ UNCHANGED <<firewall, wanted, faults, history>>

(* Mutant: a new alias is not loaded.                                      *)
CreateAliasUnloaded ==
    /\ pc = "createAlias"
    /\ alias' = Alias(wanted.dest)
    /\ Goto("searchRule")
    /\ UNCHANGED <<table, rule, filter, wanted, faults, history>>

(* create_alias wants an id in the answer: it is not ignored unseen.       *)
CreateAlias ==
    /\ pc = "createAlias"
    /\ alias' = Alias(wanted.dest)
    /\ Goto("reconfigure")
    /\ UNCHANGED <<table, rule, filter, wanted, faults, history>>

(* Mutant: a changed alias is not loaded.                                  *)
UpdateAliasUnloaded ==
    /\ pc = "setAlias"
    /\ alias' = Alias(wanted.dest)
    /\ Goto("searchRule")
    /\ UNCHANGED <<table, rule, filter, wanted, faults, history>>

(* update_alias_content looks at the status of the answer only: a change   *)
(* that the firewall refused in its body passes for one that was made.     *)
UpdateAliasContent ==
    /\ pc = "setAlias"
    /\ \/ alias' = Alias(wanted.dest) /\ UNCHANGED <<faults, misled>>
       \/ UNCHANGED alias /\ Fault("request", MaxFaults) /\ misled' = TRUE
    /\ Goto("reconfigure")
    /\ UNCHANGED <<table, rule, filter, wanted, unapplied, edited>>

ReconfigureAlias ==
    /\ pc = "reconfigure"
    /\ \/ /\ table' = alias /\ unapplied' = unapplied \ {"alias"}
          /\ UNCHANGED <<faults, misled>>
       \/ UNCHANGED <<table, unapplied>> /\ Fault("request", MaxFaults) /\ misled' = TRUE
    /\ Goto("searchRule")
    /\ UNCHANGED <<alias, rule, filter, wanted, edited>>

(* A rule that is missing is an error unless nothing is wanted.            *)
SearchRule ==
    /\ pc = "searchRule"
    /\ IF rule = "missing"
       THEN Finish(IF NothingWanted THEN "success" ELSE "error")
       ELSE IF RuleChanged THEN Goto("toggle") ELSE Finish("success")
    /\ UNCHANGED <<firewall, wanted, faults, history>>

(* Mutant: the flag of the request is kept instead of the state it names.  *)
ToggleRuleFlag ==
    /\ pc = "toggle" /\ rule # "missing"
    /\ rule' = IF wanted.enabled THEN "1" ELSE "0"
    /\ Goto("apply")
    /\ UNCHANGED <<alias, table, filter, wanted, faults, history>>

ToggleRule ==
    /\ pc = "toggle" /\ rule # "missing"
    /\ \/ rule' = RuleFor(wanted.enabled) /\ UNCHANGED <<faults, misled>>
       \/ UNCHANGED rule /\ Fault("request", MaxFaults) /\ misled' = TRUE
    /\ Goto("apply")
    /\ UNCHANGED <<alias, table, filter, wanted, unapplied, edited>>

(* The reload of the filter may load the alias as well.                    *)
ApplyFilter ==
    /\ pc = "apply"
    /\ \/ /\ filter' = rule
          /\ \/ UNCHANGED table /\ unapplied' = unapplied \ {"rule"}
             \/ table' = alias /\ unapplied' = {}
          /\ UNCHANGED <<faults, misled>>
       \/ /\ UNCHANGED <<filter, table, unapplied>>
          /\ Fault("request", MaxFaults) /\ misled' = TRUE
    /\ Finish("success")
    /\ UNCHANGED <<alias, rule, wanted, edited>>

(* A dry run makes the same reads and none of the writes.                  *)
DryRun ==
    /\ pc = "idle"
    /\ outcome' = IF rule = "missing" /\ ~NothingWanted THEN "error" ELSE "dry_run"
    /\ UNCHANGED <<firewall, wanted, pc, faults, history>>

(* A read that fails.                                                      *)
ReadFails ==
    /\ pc \in {"readAlias", "searchRule"}
    /\ Fault("request", MaxFaults)
    /\ Finish("error")
    /\ UNCHANGED <<firewall, wanted, history>>

(* A write that fails ends the run.  It may have been carried out; then    *)
(* the reconfigure or the apply that was to follow is not asked for.       *)
WriteFails ==
    /\ pc \in {"createAlias", "setAlias", "toggle"}
    /\ Finish("error")
    /\ \/ /\ rule = "missing" /\ pc = "toggle"
          /\ UNCHANGED <<alias, rule, unapplied, faults>>
       \/ /\ Fault("request", MaxFaults)
          /\ \/ UNCHANGED <<alias, rule, unapplied>>
             \/ /\ pc = "toggle" /\ rule # "missing"
                /\ rule' = RuleFor(wanted.enabled)
                /\ NotApplied("rule") /\ UNCHANGED alias
             \/ /\ pc # "toggle"
                /\ alias' = Alias(wanted.dest)
                /\ NotApplied("alias") /\ UNCHANGED rule
    /\ UNCHANGED <<table, filter, wanted, misled, edited>>

(* The second request of a pair fails: the next run sees a configuration   *)
(* that is as wanted, and asks for neither again.                          *)
ApplyFails ==
    /\ Fault("request", MaxFaults)
    /\ Finish("error")
    /\ \/ pc = "reconfigure" /\ NotApplied("alias") /\ UNCHANGED <<table, filter>>
       \/ pc = "apply" /\ NotApplied("rule") /\ UNCHANGED <<table, filter>>
       \/ /\ pc = "reconfigure" /\ table' = alias /\ unapplied' = unapplied \ {"alias"}
          /\ UNCHANGED filter
       \/ /\ pc = "apply" /\ filter' = rule /\ unapplied' = unapplied \ {"rule"}
          /\ UNCHANGED table
    /\ UNCHANGED <<alias, rule, wanted, misled, edited>>

Crash ==
    /\ pc # "idle"
    /\ Fault("crash", MaxCrashes)
    /\ Finish("crashed")
    /\ unapplied' = unapplied \cup (IF pc = "reconfigure" THEN {"alias"} ELSE {})
                               \cup (IF pc = "apply" THEN {"rule"} ELSE {})
    /\ UNCHANGED <<firewall, wanted, misled, edited>>

-----------------------------------------------------------------------------
(* The environment                                                         *)

FeedChanges ==
    /\ pc = "idle"
    /\ Fault("edit", MaxEdits)
    /\ wanted' \in [enabled : BOOLEAN, dest : Dests] \ {wanted}
    /\ outcome' = "none"
    /\ UNCHANGED <<firewall, pc, history>>

(* The user changes the alias, or makes, switches or removes the rule, and *)
(* applies the change.                                                     *)
UserEdits ==
    /\ Fault("edit", MaxEdits)
    /\ \/ /\ alias' \in {NoAlias} \cup {Alias(d) : d \in Dests}
          /\ table' = alias' /\ UNCHANGED <<rule, filter>>
       \/ /\ rule' \in RuleState
          /\ filter' = rule' /\ UNCHANGED <<alias, table>>
    /\ edited' = TRUE
    /\ UNCHANGED <<wanted, pc, outcome, misled, unapplied>>

ServiceStep ==
    \/ Start \/ ReadAlias \/ CreateAlias \/ UpdateAliasContent \/ ReconfigureAlias
    \/ SearchRule \/ ToggleRule \/ ApplyFilter
    \/ ReadFails \/ WriteFails \/ ApplyFails

Next == ServiceStep \/ DryRun \/ Crash \/ FeedChanges \/ UserEdits

Spec == Init /\ [][Next]_vars

(* Requests end, and the loop starts the next run.                         *)
FairSpec == Spec /\ WF_vars(ServiceStep)

-----------------------------------------------------------------------------
(* Properties                                                              *)

(* The alias and the rule, configured or enforced, are as the feed asks.   *)
ListAsWanted(content) == NothingWanted \/ content.dest = wanted.dest
RuleAsWanted(state) ==
    state = RuleFor(wanted.enabled) \/ (state = "missing" /\ NothingWanted)
Satisfies(content, state) == ListAsWanted(content) /\ RuleAsWanted(state)

(* A run that reports success leaves the alias and the rule configured as  *)
(* the feed asks, whatever failed in the runs before it; and each of them  *)
(* enforced, unless a failed run wrote it without loading it (unapplied).  *)
SuccessIsReal ==
    outcome = "success" /\ ~misled /\ ~edited =>
        /\ Satisfies(alias, rule)
        /\ "alias" \in unapplied \/ ListAsWanted(table)
        /\ "rule" \in unapplied \/ RuleAsWanted(filter)

(* The firewall starts to enforce the rule only while the alias is         *)
(* configured with the list of the feed, whatever failed or was killed     *)
(* before.  It has loaded that list too, but for the one case that the     *)
(* driver cannot see: a failed run wrote the alias, its reconfigure was    *)
(* lost, and none has come through since.  A success that is reported over *)
(* such a list is what ReportedSuccessIsEnforced is about.                 *)
EnabledOnlyOverItsList ==
    [][filter # "on" /\ filter' = "on" /\ ~misled /\ ~edited' =>
          /\ alias.dest = wanted.dest
          /\ "alias" \in unapplied \/ table'.dest = wanted.dest]_vars

(* Once nothing fails any more the configuration is as the feed asks, run  *)
(* after run, or its rule is missing.                                      *)
ConfigurationConverges ==
    <>[](rule = "missing" \/ Satisfies(alias, rule))

-----------------------------------------------------------------------------
(* What the repository says of the program, and the program does not do    *)

(* README.md on OPNsense: StopLiga "updates a managed alias with the       *)
(* published IP list" and "enables or disables an existing firewall rule". *)
(* A run that reports success, after one whose second request failed, has  *)
(* not done it.                                                            *)
ReportedSuccessIsEnforced ==
    outcome = "success" /\ ~misled /\ ~edited => Satisfies(table, filter)
=============================================================================
