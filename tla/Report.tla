------------------------------- MODULE Report -------------------------------
(***************************************************************************)
(* What one run of the service leaves for others to see: the record in the *)
(* state file, written as StateFile says, the messages, sent as Notifier   *)
(* says, and the answer of the health check, which reads the file from     *)
(* another process at any moment.  The feed and the driver are seen as one *)
(* step that succeeds or raises; SyncService has the ways in which a driver *)
(* fails, the lock and other processes.                                    *)
(***************************************************************************)
EXTENDS StateFile, Notifier

CONSTANTS
    MaxAge,     \* health_max_age_seconds, in units of the clock
    MaxNow,     \* bound: the clock stops here
    MaxFaults,  \* bound: failures, kills, power failures, damages in a behaviour
    MaxFlips    \* bound: changes of the published status

ASSUME ClockAssumption == MaxAge \in Nat /\ MaxNow \in Nat
ASSUME BudgetAssumption == MaxFaults \in Nat /\ MaxFlips \in Nat

(* The fields of StateSnapshot that the health check and the next run      *)
(* read: status, last_success_at, last_is_blocked, the ids of messages,    *)
(* reconciliation_required (with the stage of the partial failure).        *)
Label == {"ACTIVE", "INACTIVE"}
Snapshot == [status : {"none", "success", "error"}, at : 0 .. MaxNow,
             blocked : Label \cup {"none"}, ids : [Providers -> 0 .. MaxFaults + MaxFlips],
             reconcile : BOOLEAN]
EmptySnapshot == [status |-> "none", at |-> 0, blocked |-> "none", ids |-> NoIds,
                  reconcile |-> FALSE]

ASSUME RecordsAssumption == Records = Snapshot /\ NoRecord = EmptySnapshot

VARIABLES
    pc,      \* the step of the process; "off" when it does not run
    prev,    \* previous_runtime_state
    seen,    \* is_blocked of the feed snapshot, and of the result
    raised,  \* the class of the exception that is being recorded
    feed,    \* the status that the feed publishes
    now,     \* the clock
    faults, flips

(* History.                                                                *)
VARIABLES
    changes,  \* records that changed the known status
    gap,      \* something made the service forget, or die over, a change
    dropped,  \* providers whose last id went with the failure of another
    okAt,     \* the last moment at which a run was known to have succeeded
    failing,  \* the last run that ended did so with an error
    hidden    \* its record could not be written, or did not survive

runVars == <<pc, prev, seen, raised>>
envVars == <<feed, now, faults, flips>>
changeVars == <<changes, gap, dropped>>
healthVars == <<okAt, failing, hidden>>
vars == <<fileVars, notifierVars, runVars, envVars, changeVars, healthVars>>

(* One that the loop survives, one of FATAL_LOOP_ERRORS, and a             *)
(* PartialUpdateError whose rollback did not complete.                     *)
Errors == {"passing", "fatal", "partial"}

Steps == {"startup", "load", "run", "write", "guard", "tell", "writeIds",
          "fail", "writeError", "wait"}

TypeOK ==
    /\ FileTypeOK /\ NotifierTypeOK
    /\ pc \in Steps \cup {"off"}
    /\ prev \in Snapshot /\ seen \in Label /\ raised \in Errors
    /\ feed \in Label /\ now \in 0 .. MaxNow /\ okAt \in 0 .. MaxNow
    /\ faults \in 0 .. MaxFaults /\ flips \in 0 .. MaxFlips
    /\ changes \in 0 .. MaxFaults + MaxFlips
    /\ dropped \subseteq Providers
    /\ {gap, failing, hidden} \subseteq BOOLEAN

(* The two statuses are treated alike: the feed starts with one of them.   *)
Init ==
    /\ FileInit /\ NotifierInit
    /\ pc = "off" /\ prev = EmptySnapshot /\ seen = "INACTIVE" /\ raised = "passing"
    /\ feed = "INACTIVE" /\ now = 0 /\ faults = 0 /\ flips = 0
    /\ changes = 0 /\ gap = FALSE /\ dropped = {}
    /\ okAt = 0 /\ failing = FALSE /\ hidden = FALSE

Goto(from, to) == pc = from /\ pc' = to

(* run_once is left, and its locals are gone.                              *)
Leave(from, to) ==
    Goto(from, to) /\ prev' = EmptySnapshot /\ seen' = "INACTIVE" /\ raised' = "passing"

Fault == faults < MaxFaults /\ faults' = faults + 1

-----------------------------------------------------------------------------
(* The records of _write_state                                             *)

SuccessRecord(b, ids) == [status |-> "success", at |-> now, blocked |-> b, ids |-> ids,
                          reconcile |-> FALSE]

(* Mutant: the error leaves the status as it was.                          *)
ErrorRecordQuiet == [prev EXCEPT !.status = IF @ = "none" THEN "error" ELSE @,
                                 !.reconcile = (raised = "partial")]

(* Whatever the last record says, but for the status, and the flag that    *)
(* _requires_reconciliation asks for.                                      *)
ErrorRecord == [prev EXCEPT !.status = "error", !.reconcile = (raised = "partial")]

(* Mutant: the ids are those of this message, or none.                     *)
RecordedIdsOnlyFresh == fresh

(* _notification_int, _notification_str: an id that this message did not   *)
(* get keeps its last value.                                               *)
RecordedIds == [p \in Providers |-> IF fresh[p] # 0 THEN fresh[p] ELSE prev.ids[p]]

WithId == {p \in Providers : fresh[p] # 0}

(* _block_status_changed *)
StatusChanged == prev.blocked \in Label /\ prev.blocked # seen

(* The file asks an operator to reconcile what a failed rollback left.     *)
Flagged == file.kind = "record" /\ file.rec.reconcile

(* StateStore.healthcheck: whether it would answer "healthy" at this       *)
(* moment.  Between its stat and its read the file can only be replaced,   *)
(* or vanish, which it reports as unhealthy.                               *)
Healthy ==
    /\ file.kind = "record" /\ ~Flagged
    /\ file.rec.status = "success"
    /\ now - file.rec.at <= MaxAge

-----------------------------------------------------------------------------
(* The loop                                                                *)

(* The process is up: run_loop sends its startup message.                  *)
Start ==
    /\ Goto("off", "startup") /\ BeginSend
    /\ UNCHANGED <<fileVars, prev, seen, raised, envVars, changeVars, healthVars>>

(* The steps of a delivery; number m is 0 for the startup message.         *)
Message == IF pc = "tell" THEN changes ELSE 0
Deliver ==
    /\ pc \in {"startup", "tell"}
    /\ \/ PostAccepted(Message) /\ UNCHANGED faults
       \/ PostFails(Message) /\ Fault
    /\ UNCHANGED <<fileVars, runVars, feed, now, flips, changeVars, healthVars>>

(* Its result, a failure included, is not used.                            *)
StartupSent ==
    /\ turn = Done /\ Goto("startup", "load") /\ EndSend
    /\ UNCHANGED <<fileVars, seenVars, prev, seen, raised, envVars, changeVars, healthVars>>

(* _load_runtime_state returns s and the run goes on.                      *)
LoadAs(s) ==
    /\ Goto("load", "run") /\ prev' = s
    /\ UNCHANGED <<notifierVars, seen, raised, feed, now, flips, changes, dropped, healthVars>>

Load ==
    /\ file.kind \in {"missing", "record"} /\ ~Flagged
    /\ LoadAs(IF file.kind = "record" THEN file.rec ELSE EmptySnapshot)
    /\ UNCHANGED <<fileVars, faults, gap>>

(* ReconciliationRequiredError: fatal for the loop, and not recorded.      *)
RefuseRun ==
    /\ Flagged /\ Leave("load", "off")
    /\ failing' = TRUE /\ hidden' = FALSE
    /\ UNCHANGED <<fileVars, notifierVars, envVars, changeVars, okAt>>

(* StateError: a warning; a flag in the file is not seen.                  *)
LoadFails ==
    /\ Fault /\ LoadAs(EmptySnapshot)
    /\ gap' = TRUE
    /\ UNCHANGED fileVars

(* Mutant: the run is skipped.                                             *)
LoadMalformedSkips ==
    /\ file.kind \notin {"missing", "record", "undecodable"}
    /\ Goto("load", "wait")
    /\ UNCHANGED <<fileVars, notifierVars, prev, seen, raised, envVars, changeVars, healthVars>>

(* ConfigError: the file is moved aside; a warning if that fails.          *)
LoadMalformed ==
    /\ file.kind \notin {"missing", "record", "undecodable"}
    /\ LoadAs(EmptySnapshot)
    /\ \/ Quarantine /\ UNCHANGED faults
       \/ Fault /\ UNCHANGED fileVars
    /\ UNCHANGED gap

(* The feed is read and the driver succeeds.                               *)
RunSucceeds ==
    /\ Goto("run", "write")
    /\ seen' = feed /\ BeginWrite(SuccessRecord(feed, prev.ids))
    /\ okAt' = now /\ failing' = FALSE
    /\ UNCHANGED <<notifierVars, prev, raised, envVars, changeVars, hidden>>

(* The feed or the driver raises a StopLigaError.                          *)
RunFails ==
    /\ Fault /\ Goto("run", "fail")
    /\ raised' \in Errors
    /\ UNCHANGED <<fileVars, notifierVars, prev, seen, feed, now, flips,
                   changeVars, healthVars>>

WriteStep ==
    /\ OpenTemp \/ FillTemp \/ SyncTemp
    /\ UNCHANGED <<notifierVars, runVars, envVars, changeVars, healthVars>>

(* The record is in place.  A status other than the one that the run knew, *)
(* or that the file held, is a change.                                     *)
Record ==
    /\ Goto("write", "guard") /\ Replace
    /\ LET known == {prev.blocked} \cup {file.rec.blocked} IN
       changes' = changes + (IF known \subseteq {seen, "none"} THEN 0 ELSE 1)
    /\ hidden' = FALSE
    /\ UNCHANGED <<notifierVars, prev, seen, raised, envVars, gap, dropped, okAt, failing>>

(* StateError, which ends the loop after its own record.                   *)
RecordFails ==
    /\ Fault /\ Goto("write", "fail") /\ AbandonWrite
    /\ raised' = "fatal"
    /\ UNCHANGED <<notifierVars, prev, seen, feed, now, flips, changeVars, healthVars>>

(* The bootstrap guard is written; a change is announced.                  *)
GuardRecorded ==
    /\ \/ /\ StatusChanged
          /\ Goto("guard", "tell") /\ BeginSend
          /\ UNCHANGED <<prev, seen, raised>>
       \/ ~StatusChanged /\ Leave("guard", "wait") /\ UNCHANGED notifierVars
    /\ UNCHANGED <<fileVars, envVars, changeVars, healthVars>>

GuardFails ==
    /\ Fault /\ Goto("guard", "fail")
    /\ raised' = "fatal" /\ gap' = TRUE
    /\ UNCHANGED <<fileVars, notifierVars, prev, seen, feed, now, flips,
                   changes, dropped, healthVars>>

(* NotificationDeliveryError is logged and takes the ids with it; without  *)
(* an id there is nothing to record.                                       *)
Told ==
    /\ turn = Done
    /\ failures # {} \/ WithId = {}
    /\ Leave("tell", "wait") /\ EndSend
    /\ dropped' = dropped \cup WithId
    /\ UNCHANGED <<fileVars, seenVars, envVars, changes, gap, healthVars>>

ToldWithIds ==
    /\ turn = Done /\ failures = {} /\ WithId # {}
    /\ Goto("tell", "writeIds")
    /\ BeginWrite(SuccessRecord(seen, RecordedIds))
    /\ UNCHANGED <<notifierVars, prev, seen, raised, envVars, changeVars, healthVars>>

RecordIds ==
    /\ Leave("writeIds", "wait") /\ Replace /\ EndSend
    /\ dropped' = dropped \ WithId
    /\ UNCHANGED <<seenVars, envVars, changes, gap, healthVars>>

(* Logged as a failed notification.                                        *)
RecordIdsFails ==
    /\ Fault /\ Leave("writeIds", "wait") /\ AbandonWrite /\ EndSend
    /\ dropped' = dropped \cup WithId
    /\ UNCHANGED <<seenVars, feed, now, flips, changes, gap, healthVars>>

HandleError ==
    /\ Goto("fail", "writeError") /\ BeginWrite(ErrorRecord)
    /\ UNCHANGED <<notifierVars, prev, seen, raised, envVars, changeVars, healthVars>>

(* The exception goes on, whether its record was written or not.           *)
EndWithError ==
    /\ Leave("writeError", IF raised = "fatal" THEN "off" ELSE "wait")
    /\ failing' = TRUE
    /\ \/ Replace /\ hidden' = FALSE /\ UNCHANGED faults
       \/ Fault /\ AbandonWrite /\ hidden' = TRUE
    /\ UNCHANGED <<notifierVars, feed, now, flips, changeVars, okAt>>

Wake ==
    /\ Goto("wait", "load")
    /\ UNCHANGED <<fileVars, notifierVars, prev, seen, raised, envVars, changeVars, healthVars>>

-----------------------------------------------------------------------------
(* The process dies; whatever was under way is forgotten.                  *)

Die ==
    /\ Leave(pc, "off")
    /\ gap' = TRUE
    /\ failing' = (failing \/ pc \in {"fail", "writeError"})
    /\ UNCHANGED <<feed, now, flips, changes, dropped, okAt>>

(* The health check does not know of a failure that was not recorded.      *)
HidesFailure == hidden' = (hidden \/ pc \in {"fail", "writeError"})

Kill ==
    /\ pc # "off"
    /\ Fault /\ Die /\ HidesFailure
    /\ AbandonWrite /\ EndSend
    /\ UNCHANGED seenVars

DeliveryEscapes ==
    /\ pc \in {"startup", "tell"}
    /\ Fault /\ Die /\ HidesFailure
    /\ PostAnswerCut(Message)
    /\ UNCHANGED fileVars

(* UnicodeDecodeError is neither a ConfigError nor an OSError: the loop    *)
(* ends, and so does every other that is started on this file.             *)
LoadUndecodable ==
    /\ file.kind = "undecodable" /\ pc = "load"
    /\ Die /\ HidesFailure
    /\ UNCHANGED <<fileVars, notifierVars, faults>>

PowerLoss ==
    /\ Fault /\ Die
    /\ hidden' = TRUE
    /\ LoseUnsynced /\ EndSend
    /\ UNCHANGED seenVars

-----------------------------------------------------------------------------
(* The environment                                                         *)

(* Only a power failure that can still come tells the difference.          *)
Flush ==
    /\ faults < MaxFaults /\ FlushDirectory
    /\ UNCHANGED <<notifierVars, runVars, envVars, changeVars, healthVars>>

DamageFile ==
    /\ Fault /\ Damage
    /\ gap' = TRUE
    /\ UNCHANGED <<notifierVars, runVars, feed, now, flips, changes, dropped, healthVars>>

(* An operator repairs the router and removes the state file.              *)
OperatorReconciles ==
    /\ Flagged /\ pc \in {"off", "wait"}
    /\ Remove
    /\ gap' = TRUE
    /\ UNCHANGED <<notifierVars, runVars, envVars, changes, dropped, healthVars>>

FeedFlips ==
    /\ flips < MaxFlips /\ flips' = flips + 1
    /\ feed' = IF feed = "ACTIVE" THEN "INACTIVE" ELSE "ACTIVE"
    /\ UNCHANGED <<fileVars, notifierVars, runVars, now, faults, changeVars, healthVars>>

(* A run that has succeeded is still known to have while it goes on.       *)
Tick ==
    /\ now < MaxNow /\ now' = now + 1
    /\ okAt' = IF pc \in {"write", "guard", "tell", "writeIds"} THEN now' ELSE okAt
    /\ UNCHANGED <<fileVars, notifierVars, runVars, feed, faults, flips, changeVars,
                   failing, hidden>>

Progress ==
    \/ Start \/ Deliver \/ StartupSent
    \/ Load \/ RefuseRun \/ LoadFails \/ LoadMalformed \/ LoadUndecodable
    \/ RunSucceeds \/ RunFails \/ WriteStep \/ Record \/ RecordFails
    \/ GuardRecorded \/ GuardFails \/ Told \/ ToldWithIds
    \/ RecordIds \/ RecordIdsFails \/ HandleError \/ EndWithError \/ Wake

Environment ==
    \/ Kill \/ DeliveryEscapes \/ PowerLoss \/ Flush \/ DamageFile \/ OperatorReconciles
    \/ FeedFlips \/ Tick

Next == Progress \/ Environment

(* Every step of the process is a local call or a request with a timeout,  *)
(* and the container starts it again.                                      *)
Spec == Init /\ [][Next]_vars /\ WF_vars(Progress)

-----------------------------------------------------------------------------
(* Properties                                                              *)

(* StateStore.write: a reader finds one whole record or another, at any    *)
(* step of a write, across kills and power failures.                       *)
WriteIsAtomic == AtomicRegister!Spec

(* send_notifications and _post_json: no provider accepts more copies than *)
(* there were changes of the recorded status, but for those whose answer   *)
(* was lost; whatever failed, was killed or was started again.             *)
NoNeedlessCopy == \A p \in Providers : told[p] <= changes

(* _send_notification_message: unless the service lost its memory of the   *)
(* last status, or died, every change was posted to every provider,        *)
(* whatever the other providers answered and whichever runs failed between.*)
EveryProviderTried ==
    pc = "wait" /\ ~gap => \A p \in Providers : tried[p] = changes

(* The state file names the last message of each provider, through runs    *)
(* that send none and runs that fail; but not when the delivery to another *)
(* provider failed, or the write of the ids.                               *)
IdsSurvive ==
    pc = "wait" /\ ~gap /\ file.kind = "record" =>
        \A p \in Providers \ dropped : file.rec.ids[p] = given[p]

(* StateStore.healthcheck: an answer "healthy" means that a run succeeded  *)
(* within the age allowed and that none that ended later failed, unless    *)
(* that failure could not be recorded.                                     *)
HealthyIsTrue == Healthy => now - okAt <= MaxAge /\ (failing => hidden)

(* run_loop, _load_runtime_state: once failures end, the record holds the  *)
(* published status for good, or asks for an operator, whom nobody makes   *)
(* come; damaged files are moved aside, but for one that is not text.      *)
RecordCatchesUp ==
    <>[](\/ file.kind = "record" /\ file.rec.blocked = feed
         \/ Flagged
         \/ file.kind = "undecodable")
=============================================================================
