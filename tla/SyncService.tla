----------------------------- MODULE SyncService -----------------------------
(***************************************************************************)
(* The synchronization service: service.py (run_once, run_loop), the       *)
(* record of the last run in the state file (state.py), the process lock   *)
(* and the exit path of cli.py, for any number of StopLiga processes that  *)
(* share one state directory (the container's loop, a `--once` started     *)
(* with `docker compose exec`, a dry run).                                 *)
(*                                                                         *)
(* A run is  load -> feed -> sync -> writeState -> writeGuard -> notify    *)
(* -> writeIds, and writeError when a StopLigaError is raised on the way.  *)
(* Every arrow is a point where the process can be killed.  The router     *)
(* driver is seen through its contract: the ways its sync() can end.       *)
(***************************************************************************)
EXTENDS Naturals, FiniteSets

CONSTANTS
    Procs,        \* processes that may run StopLiga on this state directory
    LoopProcs,    \* those with run_mode = "loop"; the others run once
    DryProcs,     \* those with dry_run set
    Free,         \* value of the lock when no process holds it
    MaxCrashes,   \* bound: processes killed, in a behaviour
    MaxIOFaults,  \* bound: failed or corrupted state files, in a behaviour
    MaxRunFaults, \* bound: failed feeds and failed driver syncs
    MaxFlips,     \* bound: changes of the published block status
    MaxStops,     \* bound: SIGTERM/SIGINT delivered to loop processes
    MaxFailures   \* bound: consecutive_failures saturates here

ASSUME ProcsAssumption ==
    LoopProcs \subseteq Procs /\ DryProcs \subseteq Procs /\ Free \notin Procs
ASSUME BoundsAssumption ==
    /\ {MaxCrashes, MaxIOFaults, MaxRunFaults, MaxFlips, MaxStops} \subseteq Nat
    /\ MaxFailures \in Nat \ {0}

(* The block status, as notifier._blocked_label names it; a state file     *)
(* without a boolean last_is_blocked holds "none".                         *)
Label == {"ACTIVE", "INACTIVE"}
Opposite(b) == IF b = "ACTIVE" THEN "INACTIVE" ELSE "ACTIVE"

(* What a router may enforce: "mixed" is a half-done update.               *)
Enforced == Label \cup {"mixed"}

(***************************************************************************)
(* The fields of models.StateSnapshot that the program reads back.  The    *)
(* status "none" is a missing file (load returns {}), "bad" a file that is *)
(* not a JSON object (load raises ConfigError).  `stage` says whether      *)
(* last_error_stage is set.                                                *)
(***************************************************************************)
StateRecord ==
    [status    : {"none", "bad", "success", "dry_run", "error"},
     failures  : 0 .. MaxFailures,
     partial   : BOOLEAN,
     stage     : BOOLEAN,
     reconcile : BOOLEAN,
     blocked   : Label \cup {"none"}]

EmptyState == [status |-> "none", failures |-> 0, partial |-> FALSE,
               stage |-> FALSE, reconcile |-> FALSE, blocked |-> "none"]
BadState == [EmptyState EXCEPT !.status = "bad"]

(* A flag left by an older release, without the details of a partial       *)
(* failure.                                                                *)
StaleFlagState == [status |-> "error", failures |-> 1, partial |-> FALSE,
                   stage |-> FALSE, reconcile |-> TRUE, blocked |-> "none"]

(***************************************************************************)
(* What run_once reads of an exception: is it a PartialUpdateError, did it *)
(* complete a stage, was a rollback tried, did the rollback complete; and  *)
(* whether its class is one of FATAL_LOOP_ERRORS.                          *)
(***************************************************************************)
ErrorRecord == [partial : BOOLEAN, completed : BOOLEAN,
                attempted : BOOLEAN, rolledBack : BOOLEAN, fatal : BOOLEAN]

PlainError(fatal) == [partial |-> FALSE, completed |-> FALSE,
                      attempted |-> FALSE, rolledBack |-> FALSE, fatal |-> fatal]
PartialError(completed, attempted, rolledBack) ==
    [partial |-> TRUE, completed |-> completed,
     attempted |-> attempted, rolledBack |-> rolledBack, fatal |-> FALSE]
NoError == PlainError(FALSE)

VARIABLES
    pc,          \* pc[p]: where process p is; "off" when it does not run
    exit,        \* exit[p]: how p last ended
    stop,        \* stop[p]: stop_event of loop process p
    lock,        \* holder of the flock on the lock file, or Free
    stateFile,   \* contents of the state file
    prev,        \* prev[p]: previous_runtime_state of p's run
    seen,        \* seen[p]: is_blocked of the feed snapshot of p's run
    result,      \* result[p]: is_blocked of the SyncResult of p's run
    exc,         \* exc[p]: the exception p is handling
    feed,        \* the block status the feed publishes
    remote,      \* the status the router enforces
    faults       \* faults that have happened, by kind

(* History variables: no action reads them in a guard.                     *)
VARIABLES
    dirty,       \* a driver reported a rollback that failed, and nobody repaired it
    amnesia,     \* the record of that failure was never written, or was lost
    unrecorded,  \* the router was changed by a run whose end was not recorded
    announced    \* no recorded change of status is without its notification attempt

procVars == <<pc, exit, stop, lock>>
runVars == <<prev, seen, result, exc>>
envVars == <<feed, faults>>
history == <<dirty, amnesia, unrecorded, announced>>
vars == <<procVars, runVars, envVars, history, stateFile, remote>>

Steps == {"load", "feed", "sync", "writeState", "writeGuard", "notify",
          "writeIds", "writeError"}
FaultKinds == {"crash", "io", "run", "flip", "stop"}
FaultBound == [crash |-> MaxCrashes, io |-> MaxIOFaults, run |-> MaxRunFaults,
               flip |-> MaxFlips, stop |-> MaxStops]

(* Type of the state of the processes, and of the whole state.             *)
ProcTypeOK ==
    /\ pc \in [Procs -> Steps \cup {"off", "wait"}]
    /\ exit \in [Procs -> {"none", "ok", "lock_busy", "error", "killed"}]
    /\ stop \in [Procs -> BOOLEAN]
    /\ lock \in Procs \cup {Free}
    /\ prev \in [Procs -> StateRecord]
    /\ seen \in [Procs -> Label]
    /\ result \in [Procs -> Label]
    /\ exc \in [Procs -> ErrorRecord]

TypeOK ==
    /\ ProcTypeOK
    /\ stateFile \in StateRecord
    /\ feed \in Label
    /\ remote \in Enforced
    /\ faults \in [FaultKinds -> Nat]
    /\ dirty \in BOOLEAN /\ amnesia \in BOOLEAN
    /\ unrecorded \in BOOLEAN /\ announced \in BOOLEAN

Init ==
    /\ pc = [p \in Procs |-> "off"]
    /\ exit = [p \in Procs |-> "none"]
    /\ stop = [p \in Procs |-> FALSE]
    /\ lock = Free
    /\ stateFile \in {EmptyState, StaleFlagState}
    /\ prev = [p \in Procs |-> EmptyState]
    /\ seen = [p \in Procs |-> "INACTIVE"]
    /\ result = [p \in Procs |-> "INACTIVE"]
    /\ exc = [p \in Procs |-> NoError]
    /\ feed \in Label
    /\ remote = "INACTIVE"
    /\ faults = [k \in FaultKinds |-> 0]
    /\ dirty = FALSE /\ amnesia = FALSE /\ unrecorded = FALSE
    /\ announced = TRUE

-----------------------------------------------------------------------------
(* Helpers *)

Goto(p, from, to) == pc[p] = from /\ pc' = [pc EXCEPT ![p] = to]

(* The use of one unit of a fault budget.                                  *)
Fault(k) == /\ faults[k] < FaultBound[k]
            /\ faults' = [faults EXCEPT ![k] = @ + 1]

Step(p, from, to) == Goto(p, from, to) /\ UNCHANGED <<exit, stop, lock>>

(* The locals of run_once are gone.                                        *)
ForgetRun(p) ==
    /\ prev' = [prev EXCEPT ![p] = EmptyState]
    /\ seen' = [seen EXCEPT ![p] = "INACTIVE"]
    /\ result' = [result EXCEPT ![p] = "INACTIVE"]
    /\ exc' = [exc EXCEPT ![p] = NoError]

(* The process ends: leaving `with FileLock`, or its death, unlocks.       *)
Exit(p, from, how) ==
    /\ Goto(p, from, "off")
    /\ exit' = [exit EXCEPT ![p] = how]
    /\ stop' = [stop EXCEPT ![p] = FALSE]
    /\ lock' = Free
    /\ ForgetRun(p)

(* run_once returns: run_loop goes on to its wait, main returns 0.         *)
FinishRun(p, from) ==
    IF p \in LoopProcs
    THEN Step(p, from, "wait") /\ ForgetRun(p)
    ELSE Exit(p, from, "ok")

(* run_once raises: run_loop re-raises what is fatal and logs the rest.    *)
AbortRun(p, from, fatal) ==
    IF p \in LoopProcs /\ ~fatal
    THEN Step(p, from, "wait") /\ ForgetRun(p)
    ELSE Exit(p, from, "error")

(* A run whose record asks for reconciliation, with the details that make  *)
(* run_once honour it.                                                     *)
Pending(s) == s.reconcile /\ (s.partial \/ s.stage)

(* Mutant: a rollback that was tried counts as one that worked.            *)
RequiresReconciliationUntried(e) ==
    e.partial /\ e.completed /\ ~e.attempted

RequiresReconciliation(e) ==
    e.partial /\ e.completed /\ (~e.attempted \/ ~e.rolledBack)

(* Mutant: a dry run is recorded as a success.                             *)
SuccessRecordOfAny(p) ==
    [status |-> "success", failures |-> 0, partial |-> FALSE, stage |-> FALSE,
     reconcile |-> FALSE, blocked |-> result[p]]

(* _write_state for a run that ended well.                                 *)
SuccessRecord(p) ==
    [status |-> IF p \in DryProcs THEN "dry_run" ELSE "success",
     failures |-> 0, partial |-> FALSE, stage |-> FALSE, reconcile |-> FALSE,
     blocked |-> result[p]]

(* Mutants of ErrorState: an error that leaves the status of the last run, *)
(* one that forgets the last block status, one that records what the       *)
(* router enforces instead of it.                                          *)
ErrorStateWith(p, status, blocked) ==
    [status |-> status, failures |-> 1, partial |-> exc[p].partial,
     stage |-> exc[p].partial, reconcile |-> RequiresReconciliation(exc[p]),
     blocked |-> blocked]
ErrorStateKeepsStatus(p) ==
    ErrorStateWith(p, IF prev[p].status = "success" THEN "success" ELSE "error",
                   prev[p].blocked)
ErrorStateForgetsBlocked(p) == ErrorStateWith(p, "error", "none")
ErrorStateOfRouter(p) == ErrorStateWith(p, "error", remote)

(* _write_state for a run that failed: what it read of the last run stays. *)
ErrorState(p) ==
    [status |-> "error",
     failures |-> IF prev[p].failures < MaxFailures
                  THEN prev[p].failures + 1 ELSE MaxFailures,
     partial |-> exc[p].partial,
     stage |-> exc[p].partial,
     reconcile |-> RequiresReconciliation(exc[p]),
     blocked |-> prev[p].blocked]

(* A write of the state file: one that changes a known status leaves a     *)
(* change to announce.                                                     *)
WriteStateFile(s) ==
    /\ stateFile' = s
    /\ announced' = (announced /\ stateFile.blocked \in {s.blocked, "none"})

(* StateStore.healthcheck, for a success that is recent enough: the        *)
(* status is that of the last run, and no reconciliation is asked for.     *)
Healthy(s) == ~s.reconcile /\ s.status \in {"success", "dry_run"}

-----------------------------------------------------------------------------
(* Starting and stopping a process: cli.main, FileLock                     *)

(* Mutant: the lock file is opened and not locked.                         *)
StartUnlocked(p) ==
    /\ Goto(p, "off", "load")
    /\ lock' = p
    /\ exit' = [exit EXCEPT ![p] = "none"]
    /\ UNCHANGED <<stop, runVars, envVars, history, stateFile, remote>>

(* The lock file is locked; a loop sends its startup notification (which   *)
(* changes nothing here, delivered or not) before its first run.           *)
Start(p) ==
    /\ lock = Free
    /\ Goto(p, "off", "load")
    /\ lock' = p
    /\ exit' = [exit EXCEPT ![p] = "none"]
    /\ UNCHANGED <<stop, runVars, envVars, history, stateFile, remote>>

(* AlreadyRunningError: exit code 6.                                       *)
LockBusy(p) ==
    /\ pc[p] = "off" /\ lock # Free
    /\ exit' = [exit EXCEPT ![p] = "lock_busy"]
    /\ UNCHANGED <<pc, stop, lock, runVars, envVars, history, stateFile, remote>>

(* The lock file cannot be opened or written: its handle is closed, which  *)
(* unlocks it, and StateError ends the process.                            *)
LockFails(p) ==
    /\ pc[p] = "off"
    /\ Fault("io")
    /\ exit' = [exit EXCEPT ![p] = "error"]
    /\ UNCHANGED <<pc, stop, lock, runVars, feed, history, stateFile, remote>>

(* The handler of SIGTERM and SIGINT only sets stop_event.                 *)
Signal(p) ==
    /\ p \in LoopProcs /\ pc[p] # "off" /\ ~stop[p]
    /\ Fault("stop")
    /\ stop' = [stop EXCEPT ![p] = TRUE]
    /\ UNCHANGED <<pc, exit, lock, runVars, feed, history, stateFile, remote>>

(* stop_event.wait times out and the loop starts another run.              *)
Wake(p) ==
    /\ ~stop[p]
    /\ Step(p, "wait", "load")
    /\ UNCHANGED <<runVars, envVars, history, stateFile, remote>>

LoopStops(p) ==
    /\ stop[p]
    /\ Exit(p, "wait", "ok")
    /\ UNCHANGED <<envVars, history, stateFile, remote>>

(* The process dies: power, OOM, docker kill, or an exception that is not  *)
(* a StopLigaError and that nothing catches.  A driver's sync may be at    *)
(* any of its requests.                                                    *)
Crash(p) ==
    /\ pc[p] # "off"
    /\ Fault("crash")
    /\ Exit(p, pc[p], "killed")
    /\ IF pc[p] = "sync" /\ p \notin DryProcs
       THEN remote' \in Enforced
       ELSE UNCHANGED remote
    /\ unrecorded' = (unrecorded \/ pc[p] \in {"sync", "writeState", "writeError"})
    /\ amnesia' = (amnesia \/ (pc[p] = "writeError" /\ dirty))
    /\ UNCHANGED <<feed, dirty, announced, stateFile>>

-----------------------------------------------------------------------------
(* run_once                                                                *)

(* Mutants of LoadState: nobody, or no dry run, asks whether the last run  *)
(* left something to reconcile.                                            *)
LoadStateIf(p, allowed) ==
    /\ stateFile.status # "bad" /\ allowed
    /\ Step(p, "load", "feed")
    /\ prev' = [prev EXCEPT ![p] = stateFile]
    /\ UNCHANGED <<seen, result, exc, envVars, history, stateFile, remote>>
LoadStateUnchecked(p) == LoadStateIf(p, TRUE)
LoadStateDryUnchecked(p) == LoadStateIf(p, p \in DryProcs \/ ~Pending(stateFile))

(* The state file is read and allows a run.                                *)
LoadState(p) ==
    /\ stateFile.status # "bad" /\ ~Pending(stateFile)
    /\ Step(p, "load", "feed")
    /\ prev' = [prev EXCEPT ![p] = stateFile]
    /\ UNCHANGED <<seen, result, exc, envVars, history, stateFile, remote>>

(* ReconciliationRequiredError: re-raised before anything is written, and  *)
(* fatal for the loop.                                                     *)
RefuseRun(p) ==
    /\ stateFile.status # "bad" /\ Pending(stateFile)
    /\ AbortRun(p, "load", TRUE)
    /\ UNCHANGED <<envVars, history, stateFile, remote>>

(* Mutant: a malformed state file is an error for good.                    *)
QuarantineRaises(p) ==
    /\ stateFile.status = "bad"
    /\ AbortRun(p, "load", TRUE)
    /\ UNCHANGED <<envVars, history, stateFile, remote>>

(* A malformed file is moved aside, if that works, and the run goes on     *)
(* with {}.                                                                *)
QuarantineState(p) ==
    /\ stateFile.status = "bad"
    /\ Step(p, "load", "feed")
    /\ prev' = [prev EXCEPT ![p] = EmptyState]
    /\ \/ stateFile' = EmptyState /\ UNCHANGED faults
       \/ UNCHANGED stateFile /\ Fault("io")
    /\ UNCHANGED <<seen, result, exc, feed, history, remote>>

(* The file cannot be read (StateError): the run goes on with {}.          *)
LoadFails(p) ==
    /\ stateFile.status # "none"
    /\ Fault("io")
    /\ Step(p, "load", "feed")
    /\ prev' = [prev EXCEPT ![p] = EmptyState]
    /\ amnesia' = (amnesia \/ dirty)
    /\ UNCHANGED <<seen, result, exc, feed, dirty, unrecorded, announced,
                   stateFile, remote>>

FetchFeed(p) ==
    /\ Step(p, "feed", "sync")
    /\ seen' = [seen EXCEPT ![p] = feed]
    /\ UNCHANGED <<prev, result, exc, envVars, history, stateFile, remote>>

(* An exception is raised and run_once goes to its handler.                *)
Raise(p, from, e) ==
    /\ Step(p, from, "writeError")
    /\ exc' = [exc EXCEPT ![p] = e]
    /\ UNCHANGED <<prev, seen, result>>

FeedFails(p) ==
    /\ Fault("run")
    /\ \E fatal \in BOOLEAN : Raise(p, "feed", PlainError(fatal))
    /\ UNCHANGED <<feed, history, stateFile, remote>>

(* The driver brings the router to the status it was given.  A dry run     *)
(* reads only; the result of one that would create a route keeps the       *)
(* default is_blocked = False.                                             *)
DriverSucceeds(p) ==
    /\ Step(p, "sync", "writeState")
    /\ IF p \in DryProcs
       THEN /\ \E b \in {seen[p], "INACTIVE"} : result' = [result EXCEPT ![p] = b]
            /\ UNCHANGED <<remote, dirty, amnesia>>
       ELSE /\ result' = [result EXCEPT ![p] = seen[p]]
            /\ remote' = seen[p]
            /\ dirty' = FALSE /\ amnesia' = FALSE
    /\ UNCHANGED <<prev, seen, exc, envVars, unrecorded, announced, stateFile>>

(* The driver raises an error that is not a PartialUpdateError, or one     *)
(* with no completed stage, or one whose rollback completed.  A request    *)
(* that failed for the client may have been carried out by the router: the *)
(* update may be there in part, in whole, or be undone.                    *)
DriverFails(p) ==
    /\ Fault("run")
    /\ \E e \in {PlainError(TRUE), PlainError(FALSE)} \cup
                IF p \in DryProcs THEN {}
                ELSE {PartialError(FALSE, FALSE, FALSE), PartialError(TRUE, TRUE, TRUE)} :
           Raise(p, "sync", e)
    /\ IF p \in DryProcs THEN UNCHANGED remote ELSE remote' \in Enforced
    /\ UNCHANGED <<feed, history, stateFile>>

(* A PartialUpdateError that completed a stage and does not know that it   *)
(* undid it.                                                               *)
DriverLeavesPartial(p) ==
    /\ p \notin DryProcs
    /\ Fault("run")
    /\ \E attempted \in BOOLEAN : Raise(p, "sync", PartialError(TRUE, attempted, FALSE))
    /\ remote' \in Enforced
    /\ dirty' = TRUE /\ amnesia' = FALSE
    /\ UNCHANGED <<feed, unrecorded, announced, stateFile>>

(* Mutant: the new block status is recorded only with the ids.             *)
WriteStateOldBlocked(p) ==
    /\ Step(p, "writeState", "writeGuard")
    /\ WriteStateFile([SuccessRecord(p) EXCEPT
                          !.blocked = IF prev[p].blocked = "none" THEN @
                                      ELSE prev[p].blocked])
    /\ unrecorded' = (unrecorded /\ p \in DryProcs)
    /\ UNCHANGED <<runVars, envVars, dirty, amnesia, remote>>

(* The success is recorded before anyone is told of it.                    *)
WriteState(p) ==
    /\ Step(p, "writeState", "writeGuard")
    /\ WriteStateFile(SuccessRecord(p))
    /\ unrecorded' = (unrecorded /\ p \in DryProcs)
    /\ UNCHANGED <<runVars, envVars, dirty, amnesia, remote>>

(* Mutant: the failed write is logged, and the run goes on.                *)
WriteStateFailureIgnored(p) ==
    /\ Fault("io")
    /\ Step(p, "writeState", "writeGuard")
    /\ unrecorded' = TRUE
    /\ UNCHANGED <<runVars, feed, dirty, amnesia, announced, stateFile, remote>>

WriteStateFails(p) ==
    /\ Fault("io")
    /\ Raise(p, "writeState", PlainError(TRUE))
    /\ UNCHANGED <<feed, history, stateFile, remote>>

(* The bootstrap guard is a file of its own: UnifiBootstrap has its        *)
(* contents.                                                               *)
WriteGuard(p) ==
    /\ Step(p, "writeGuard", "notify")
    /\ UNCHANGED <<runVars, envVars, history, stateFile, remote>>

WriteGuardFails(p) ==
    /\ Fault("io")
    /\ Raise(p, "writeGuard", PlainError(TRUE))
    /\ UNCHANGED <<feed, history, stateFile, remote>>

(* send_notifications: only for a real run, and only when the status       *)
(* recorded by the previous one was the other.                             *)
ShouldNotify(p) == /\ p \notin DryProcs
                   /\ prev[p].blocked \in Label
                   /\ prev[p].blocked # result[p]

NothingToNotify(p) ==
    /\ ~ShouldNotify(p)
    /\ FinishRun(p, "notify")
    /\ UNCHANGED <<envVars, history, stateFile, remote>>

(* Delivered: the ids of the messages, when a provider returned one, are   *)
(* recorded.  Not delivered: only logged, and never sent again.            *)
Notify(p) ==
    /\ ShouldNotify(p)
    /\ \/ Step(p, "notify", "writeIds") /\ UNCHANGED runVars
       \/ FinishRun(p, "notify")
    /\ announced' = TRUE
    /\ UNCHANGED <<envVars, dirty, amnesia, unrecorded, stateFile, remote>>

(* Mutant: the notification is sent again until its ids are on record.     *)
WriteIdsRetries(p) ==
    /\ Step(p, "writeIds", "notify")
    /\ UNCHANGED <<runVars, envVars, history, stateFile, remote>>

(* The second _write_state; its failure is logged as a failed              *)
(* notification.                                                           *)
WriteIds(p) ==
    /\ FinishRun(p, "writeIds")
    /\ \/ WriteStateFile(SuccessRecord(p)) /\ UNCHANGED faults
       \/ UNCHANGED <<stateFile, announced>> /\ Fault("io")
    /\ UNCHANGED <<feed, dirty, amnesia, unrecorded, remote>>

WriteError(p) ==
    /\ AbortRun(p, "writeError", exc[p].fatal)
    /\ WriteStateFile(ErrorState(p))
    /\ UNCHANGED <<envVars, dirty, amnesia, unrecorded, remote>>

(* state_write_failed: logged, and the first exception goes on.            *)
WriteErrorFails(p) ==
    /\ Fault("io")
    /\ AbortRun(p, "writeError", exc[p].fatal)
    /\ unrecorded' = TRUE
    /\ amnesia' = (amnesia \/ dirty)
    /\ UNCHANGED <<feed, dirty, announced, stateFile, remote>>

-----------------------------------------------------------------------------
(* The environment                                                         *)

(* The published status changes.                                           *)
FeedFlips ==
    /\ Fault("flip")
    /\ feed' = Opposite(feed)
    /\ UNCHANGED <<procVars, runVars, history, stateFile, remote>>

(* Something other than StopLiga damages the state file: it can be decoded *)
(* and is no JSON object.  (Report has the file that cannot be decoded,    *)
(* whose error nobody catches.)                                            *)
CorruptState ==
    /\ stateFile.status \notin {"none", "bad"}
    /\ Fault("io")
    /\ stateFile' = BadState
    /\ amnesia' = (amnesia \/ dirty)
    /\ announced' = FALSE
    /\ UNCHANGED <<procVars, runVars, feed, dirty, unrecorded, remote>>

(* An operator repairs the router and removes the state file: the program  *)
(* has no command that does it.                                            *)
OperatorReconciles ==
    /\ Pending(stateFile)
    /\ \A p \in Procs : pc[p] \in {"off", "wait"}
    /\ stateFile' = EmptyState
    /\ remote' \in Label
    /\ dirty' = FALSE /\ amnesia' = FALSE
    /\ UNCHANGED <<procVars, runVars, envVars, unrecorded, announced>>

RunStep(p) ==
    \/ LoadState(p) \/ RefuseRun(p) \/ QuarantineState(p) \/ LoadFails(p)
    \/ FetchFeed(p) \/ FeedFails(p)
    \/ DriverSucceeds(p) \/ DriverFails(p) \/ DriverLeavesPartial(p)
    \/ WriteState(p) \/ WriteStateFails(p)
    \/ WriteGuard(p) \/ WriteGuardFails(p)
    \/ NothingToNotify(p) \/ Notify(p) \/ WriteIds(p)
    \/ WriteError(p) \/ WriteErrorFails(p)

ProcStep(p) ==
    \/ Start(p) \/ LockBusy(p) \/ LockFails(p)
    \/ Signal(p) \/ Wake(p) \/ LoopStops(p) \/ Crash(p)
    \/ RunStep(p)

Next == \/ \E p \in Procs : ProcStep(p)
        \/ FeedFlips \/ CorruptState \/ OperatorReconciles

Spec == Init /\ [][Next]_vars

(***************************************************************************)
(* Fairness.  A running process takes its steps: every step is a local     *)
(* call or a request with a timeout.  `restart: unless-stopped` starts a   *)
(* loop again after any end but the one it was asked for.  Nothing is      *)
(* assumed of signals, operators, other processes or the feed.             *)
(***************************************************************************)
Fairness ==
    \A p \in Procs :
        /\ WF_vars(RunStep(p) \/ LoopStops(p) \/ Wake(p))
        /\ p \in LoopProcs => WF_vars(exit[p] # "ok" /\ Start(p))

FairSpec == Spec /\ Fairness

-----------------------------------------------------------------------------
(* Properties                                                              *)

(* The lock file admits one process: no two runs overlap, whatever is      *)
(* killed or started meanwhile.                                            *)
AtMostOneRunning ==
    \A p \in Procs : pc[p] # "off" => lock = p

(* A rollback that failed is on record until it is repaired: from the      *)
(* moment a driver reports one, the state file holds a flag that run_once  *)
(* honours, or the run that saw it is about to write it.  The exceptions   *)
(* are the losses of that record (history variable amnesia).               *)
DirtyIsRecorded ==
    dirty /\ ~amnesia =>
        \/ Pending(stateFile)
        \/ \E p \in Procs : pc[p] = "writeError" /\ RequiresReconciliation(exc[p])

(* "refusing new writes": no run passes its load while the router is in    *)
(* the state a failed rollback left, unless the record of it was lost.     *)
PendingBlocksWrites ==
    \A p \in Procs : pc[p] \in {"feed", "sync"} /\ dirty => amnesia

(* A change of the recorded block status is announced at most once,        *)
(* whatever is killed, retried or rewritten between the record and the     *)
(* notification.                                                           *)
NoChangeAnnouncedTwice ==
    \A p \in Procs : pc[p] = "notify" /\ ShouldNotify(p) => ~announced

(* A status that is announced is already on record, so that a crash after  *)
(* the message cannot make the next run announce it again.                 *)
AnnouncedIsRecorded ==
    \A p \in Procs : pc[p] \in {"notify", "writeIds"} =>
        stateFile.status = "bad" \/ stateFile = SuccessRecord(p)

(* A state file that says "success" tells the truth: outside the window    *)
(* between a driver's writes and their record, the router enforces the     *)
(* recorded status, unless a run ended without being able to record it.    *)
SuccessMeansApplied ==
    stateFile.status = "success" /\ ~unrecorded
        /\ (\A p \in Procs : pc[p] \notin {"writeState", "writeError"})
    => remote = stateFile.blocked

(* Every recorded change of status gets its notification attempt in the    *)
(* run that recorded it, when no process is killed, no state file fails    *)
(* and no dry run shares the state file.                                   *)
EveryChangeAnnounced ==
    /\ faults["crash"] = 0 /\ faults["io"] = 0 /\ DryProcs = {}
    /\ \A p \in Procs : pc[p] \notin {"writeGuard", "notify"}
    => announced

(* Every run that starts ends: its process waits for the next one or is    *)
(* gone, whatever fails on the way.                                        *)
RunsEnd ==
    \A p \in Procs : pc[p] \in Steps ~> pc[p] \in {"wait", "off"}

(* Once nothing fails any more the service reports healthy for good, or it *)
(* asks for reconciliation, or it was asked to stop.                       *)
EventuallyHealthy ==
    <>[](\/ Healthy(stateFile)
         \/ Pending(stateFile)
         \/ \A p \in LoopProcs : exit[p] = "ok")
=============================================================================
