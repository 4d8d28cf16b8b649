------------------------- MODULE SyncServiceProofs -------------------------
(***************************************************************************)
(* Theorems about SyncService, for any set of processes and any bounds.    *)
(***************************************************************************)
EXTENDS SyncService, TLAPS

USE DEF procVars, runVars, envVars, history

-----------------------------------------------------------------------------
(* Types *)

(* The records that the code builds in place are of their types.           *)
LEMMA RecordTypes ==
    /\ EmptyState \in StateRecord /\ BadState \in StateRecord
    /\ StaleFlagState \in StateRecord
    /\ NoError \in ErrorRecord
    /\ \A f \in BOOLEAN : PlainError(f) \in ErrorRecord
    /\ \A c, a, r \in BOOLEAN : PartialError(c, a, r) \in ErrorRecord
<1>1. EmptyState \in StateRecord
  BY BoundsAssumption DEF EmptyState, StateRecord
<1>2. BadState \in StateRecord
  BY <1>1 DEF BadState, StateRecord
<1>3. StaleFlagState \in StateRecord
  <2>1. 1 \in 0 .. MaxFailures
    BY BoundsAssumption
  <2> QED BY <2>1 DEF StaleFlagState, StateRecord
<1>4. /\ \A f \in BOOLEAN : PlainError(f) \in ErrorRecord
      /\ \A c, a, r \in BOOLEAN : PartialError(c, a, r) \in ErrorRecord
  BY DEF ErrorRecord, PlainError, PartialError
<1>5. NoError \in ErrorRecord
  BY <1>4 DEF NoError
<1> QED BY <1>1, <1>2, <1>3, <1>4, <1>5

(* The two records a run can write are records of the state file.          *)
LEMMA WrittenTypes ==
    ASSUME TypeOK, NEW p \in Procs
    PROVE  SuccessRecord(p) \in StateRecord /\ ErrorState(p) \in StateRecord
<1>1. /\ prev[p] \in StateRecord /\ exc[p] \in ErrorRecord
      /\ result[p] \in Label
  BY DEF TypeOK, ProcTypeOK
<1>2. SuccessRecord(p) \in StateRecord
  BY <1>1, BoundsAssumption DEF SuccessRecord, StateRecord
<1>3. RequiresReconciliation(exc[p]) \in BOOLEAN
  BY <1>1 DEF RequiresReconciliation, ErrorRecord
<1>4. (IF prev[p].failures < MaxFailures THEN prev[p].failures + 1 ELSE MaxFailures)
          \in 0 .. MaxFailures
  BY <1>1, BoundsAssumption DEF StateRecord
<1>5. /\ exc[p].partial \in BOOLEAN
      /\ prev[p].blocked \in Label \cup {"none"}
  BY <1>1 DEF StateRecord, ErrorRecord
<1>6. ErrorState(p) \in StateRecord
  BY <1>3, <1>4, <1>5 DEF ErrorState, StateRecord
<1> QED BY <1>2, <1>6

(* The three ways a run or its process can end keep the processes typed.   *)
LEMMA EndTypes ==
    ASSUME ProcTypeOK, NEW p \in Procs, NEW from, NEW fatal,
           \/ \E how \in {"ok", "error", "killed"} : Exit(p, from, how)
           \/ FinishRun(p, from)
           \/ AbortRun(p, from, fatal)
    PROVE  ProcTypeOK'
<1>1. CASE \E how \in {"ok", "error", "killed"} : Exit(p, from, how)
  BY <1>1, RecordTypes DEF Exit, Goto, ForgetRun, ProcTypeOK, Label, Steps
<1>2. CASE Step(p, from, "wait") /\ ForgetRun(p)
  BY <1>2, RecordTypes DEF Step, Goto, ForgetRun, ProcTypeOK, Label, Steps
<1> QED BY <1>1, <1>2 DEF FinishRun, AbortRun

(* The processes start typed.                                              *)
LEMMA TypeInit == Init => TypeOK
<1> SUFFICES ASSUME Init PROVE TypeOK
  OBVIOUS
<1>1. ProcTypeOK
  BY RecordTypes DEF Init, ProcTypeOK, Label, Steps
<1> QED BY <1>1, RecordTypes DEF Enforced, Init, TypeOK, Label, FaultKinds

(* Every step keeps the types: one case per action.                        *)
LEMMA TypeStep == TypeOK /\ [Next]_vars => TypeOK'
<1> SUFFICES ASSUME TypeOK, [Next]_vars PROVE TypeOK'
  OBVIOUS
<1> USE DEF TypeOK
<1>1. CASE UNCHANGED vars
  BY <1>1 DEF vars, ProcTypeOK
<1>2. CASE FeedFlips
  BY <1>2 DEF FeedFlips, Fault, Opposite, FaultKinds, Label, ProcTypeOK
<1>3. CASE CorruptState
  <2>1. ProcTypeOK' /\ faults' \in [FaultKinds -> Nat]
    BY <1>3 DEF CorruptState, Fault, FaultKinds, ProcTypeOK
  <2>2. amnesia' \in BOOLEAN /\ announced' \in BOOLEAN
    BY <1>3 DEF CorruptState
  <2> QED BY <1>3, <2>1, <2>2, RecordTypes DEF CorruptState
<1>4. CASE OperatorReconciles
  BY <1>4, RecordTypes DEF Enforced, OperatorReconciles, ProcTypeOK
<1>5. ASSUME NEW p \in Procs, ProcStep(p) PROVE TypeOK'
  <2>1. CASE Start(p)
    <3>1. ProcTypeOK'
      BY <2>1, RecordTypes DEF Start, Step, Goto, Raise, ProcTypeOK, Steps, Label
    <3> QED BY <2>1, <3>1, RecordTypes, WrittenTypes
            DEF Start, Fault, FaultKinds, WriteStateFile, ProcTypeOK, Label
  <2>2. CASE LockBusy(p)
    <3>1. ProcTypeOK'
      BY <2>2, RecordTypes DEF LockBusy, Step, Goto, Raise, ProcTypeOK, Steps, Label
    <3> QED BY <2>2, <3>1, RecordTypes, WrittenTypes
            DEF LockBusy, Fault, FaultKinds, WriteStateFile, ProcTypeOK, Label
  <2>3. CASE LockFails(p)
    <3>1. ProcTypeOK'
      BY <2>3, RecordTypes DEF LockFails, Step, Goto, Raise, ProcTypeOK, Steps, Label
    <3> QED BY <2>3, <3>1, RecordTypes, WrittenTypes
            DEF LockFails, Fault, FaultKinds, WriteStateFile, ProcTypeOK, Label
  <2>4. CASE Signal(p)
    <3>1. ProcTypeOK'
      BY <2>4, RecordTypes DEF Signal, Step, Goto, Raise, ProcTypeOK, Steps, Label
    <3> QED BY <2>4, <3>1, RecordTypes, WrittenTypes
            DEF Signal, Fault, FaultKinds, WriteStateFile, ProcTypeOK, Label
  <2>5. CASE Wake(p)
    <3>1. ProcTypeOK'
      BY <2>5, RecordTypes DEF Wake, Step, Goto, Raise, ProcTypeOK, Steps, Label
    <3> QED BY <2>5, <3>1, RecordTypes, WrittenTypes
            DEF Wake, Fault, FaultKinds, WriteStateFile, ProcTypeOK, Label
  <2>6. CASE LoopStops(p)
    <3>1. ProcTypeOK'
      BY <2>6, EndTypes DEF LoopStops
    <3> QED BY <2>6, <3>1, WrittenTypes DEF LoopStops, Fault, FaultKinds, WriteStateFile
  <2>7. CASE Crash(p)
    <3>1. ProcTypeOK'
      BY <2>7, EndTypes DEF Crash
    <3> QED BY <2>7, <3>1, WrittenTypes DEF Crash, Fault, FaultKinds, WriteStateFile
  <2>8. CASE LoadState(p)
    <3>1. ProcTypeOK'
      BY <2>8, RecordTypes DEF LoadState, Step, Goto, Raise, ProcTypeOK, Steps, Label
    <3> QED BY <2>8, <3>1, RecordTypes, WrittenTypes
            DEF LoadState, Fault, FaultKinds, WriteStateFile, ProcTypeOK, Label
  <2>9. CASE RefuseRun(p)
    <3>1. ProcTypeOK'
      BY <2>9, EndTypes DEF RefuseRun
    <3> QED BY <2>9, <3>1, WrittenTypes DEF RefuseRun, Fault, FaultKinds, WriteStateFile
  <2>10. CASE QuarantineState(p)
    <3>1. ProcTypeOK'
      BY <2>10, RecordTypes DEF QuarantineState, Step, Goto, Raise, ProcTypeOK, Steps, Label
    <3> QED BY <2>10, <3>1, RecordTypes, WrittenTypes
            DEF QuarantineState, Fault, FaultKinds, WriteStateFile, ProcTypeOK, Label
  <2>11. CASE LoadFails(p)
    <3>1. ProcTypeOK'
      BY <2>11, RecordTypes DEF LoadFails, Step, Goto, Raise, ProcTypeOK, Steps, Label
    <3> QED BY <2>11, <3>1, RecordTypes, WrittenTypes
            DEF LoadFails, Fault, FaultKinds, WriteStateFile, ProcTypeOK, Label
  <2>12. CASE FetchFeed(p)
    <3>1. ProcTypeOK'
      BY <2>12, RecordTypes DEF FetchFeed, Step, Goto, Raise, ProcTypeOK, Steps, Label
    <3> QED BY <2>12, <3>1, RecordTypes, WrittenTypes
            DEF FetchFeed, Fault, FaultKinds, WriteStateFile, ProcTypeOK, Label
  <2>13. CASE FeedFails(p)
    <3>1. ProcTypeOK'
      BY <2>13, RecordTypes DEF FeedFails, Step, Goto, Raise, ProcTypeOK, Steps, Label
    <3> QED BY <2>13, <3>1, RecordTypes, WrittenTypes
            DEF FeedFails, Fault, FaultKinds, WriteStateFile, ProcTypeOK, Label
  <2>14. CASE DriverSucceeds(p)
    <3>1. ProcTypeOK'
      BY <2>14, RecordTypes DEF DriverSucceeds, Step, Goto, Raise, ProcTypeOK, Steps, Label
    <3> QED BY <2>14, <3>1, RecordTypes, WrittenTypes
            DEF Enforced, DriverSucceeds, Fault, FaultKinds, WriteStateFile, ProcTypeOK, Label
  <2>15. CASE DriverFails(p)
    <3>0. PICK e \in ErrorRecord : Raise(p, "sync", e)
      BY <2>15, RecordTypes DEF DriverFails
    <3>1. ProcTypeOK'
      BY <2>15, <3>0 DEF DriverFails, Step, Goto, Raise, ProcTypeOK, Steps, Label
    <3> QED BY <2>15, <3>1, RecordTypes, WrittenTypes
            DEF DriverFails, Fault, FaultKinds, WriteStateFile, ProcTypeOK, Label
  <2>16. CASE DriverLeavesPartial(p)
    <3>0. PICK e \in ErrorRecord : Raise(p, "sync", e)
      BY <2>16, RecordTypes DEF DriverLeavesPartial
    <3>1. ProcTypeOK'
      BY <2>16, <3>0 DEF DriverLeavesPartial, Step, Goto, Raise, ProcTypeOK, Steps, Label
    <3>2. faults' \in [FaultKinds -> Nat]
      BY <2>16 DEF DriverLeavesPartial, Fault, FaultKinds
    <3> QED BY <2>16, <3>1, <3>2 DEF DriverLeavesPartial
  <2>17. CASE WriteState(p)
    <3>1. ProcTypeOK'
      BY <2>17, RecordTypes DEF WriteState, Step, Goto, Raise, ProcTypeOK, Steps, Label
    <3> QED BY <2>17, <3>1, RecordTypes, WrittenTypes
            DEF WriteState, Fault, FaultKinds, WriteStateFile, ProcTypeOK, Label
  <2>18. CASE WriteStateFails(p)
    <3>1. ProcTypeOK'
      BY <2>18, RecordTypes DEF WriteStateFails, Step, Goto, Raise, ProcTypeOK, Steps, Label
    <3> QED BY <2>18, <3>1, RecordTypes, WrittenTypes
            DEF WriteStateFails, Fault, FaultKinds, WriteStateFile, ProcTypeOK, Label
  <2>19. CASE WriteGuard(p)
    <3>1. ProcTypeOK'
      BY <2>19, RecordTypes DEF WriteGuard, Step, Goto, Raise, ProcTypeOK, Steps, Label
    <3> QED BY <2>19, <3>1, RecordTypes, WrittenTypes
            DEF WriteGuard, Fault, FaultKinds, WriteStateFile, ProcTypeOK, Label
  <2>20. CASE WriteGuardFails(p)
    <3>1. ProcTypeOK'
      BY <2>20, RecordTypes DEF WriteGuardFails, Step, Goto, Raise, ProcTypeOK, Steps, Label
    <3> QED BY <2>20, <3>1, RecordTypes, WrittenTypes
            DEF WriteGuardFails, Fault, FaultKinds, WriteStateFile, ProcTypeOK, Label
  <2>21. CASE NothingToNotify(p)
    <3>1. ProcTypeOK'
      BY <2>21, EndTypes DEF NothingToNotify
    <3> QED BY <2>21, <3>1, WrittenTypes DEF NothingToNotify, Fault, FaultKinds, WriteStateFile
  <2>22. CASE Notify(p)
    <3>1. ProcTypeOK'
      BY <2>22, EndTypes DEF Notify, Step, Goto, ProcTypeOK, Steps
    <3> QED BY <2>22, <3>1, WrittenTypes DEF Notify, Fault, FaultKinds, WriteStateFile
  <2>23. CASE WriteIds(p)
    <3>1. ProcTypeOK'
      BY <2>23, EndTypes DEF WriteIds
    <3>2. CASE WriteStateFile(SuccessRecord(p)) /\ UNCHANGED faults
      BY <2>23, <3>1, <3>2, WrittenTypes DEF WriteIds, WriteStateFile
    <3>3. CASE UNCHANGED <<stateFile, announced>> /\ Fault("io")
      BY <2>23, <3>1, <3>3 DEF WriteIds, Fault, FaultKinds
    <3> QED BY <2>23, <3>2, <3>3 DEF WriteIds
  <2>24. CASE WriteError(p)
    <3>1. ProcTypeOK'
      BY <2>24, EndTypes DEF WriteError
    <3> QED BY <2>24, <3>1, WrittenTypes DEF WriteError, Fault, FaultKinds, WriteStateFile
  <2>25. CASE WriteErrorFails(p)
    <3>1. ProcTypeOK'
      BY <2>25, EndTypes DEF WriteErrorFails
    <3> QED BY <2>25, <3>1, WrittenTypes DEF WriteErrorFails, Fault, FaultKinds, WriteStateFile
  <2> QED
    BY <1>5, <2>1, <2>2, <2>3, <2>4, <2>5, <2>6, <2>7, <2>8, <2>9, <2>10, <2>11, <2>12, <2>13, <2>14, <2>15, <2>16, <2>17, <2>18, <2>19, <2>20, <2>21, <2>22, <2>23, <2>24, <2>25 DEF ProcStep, RunStep
<1> QED BY <1>1, <1>2, <1>3, <1>4, <1>5 DEF Next

(* Every variable keeps its type, whatever runs, fails or is killed.       *)
THEOREM TypeCorrect == Spec => []TypeOK
BY TypeInit, TypeStep, PTL DEF Spec

-----------------------------------------------------------------------------
(* Mutual exclusion.  AtMostOneRunning is inductive: a process leaves      *)
(* "off" only by taking a free lock, and releases only its own.            *)

(* At the start no process runs.                                           *)
LEMMA LockInit == Init => AtMostOneRunning
BY DEF Init, AtMostOneRunning

(* Every step keeps the processes exclusive: to run is to hold the lock.   *)
LEMMA LockStep == TypeOK /\ AtMostOneRunning /\ [Next]_vars => AtMostOneRunning'
<1> SUFFICES ASSUME TypeOK, AtMostOneRunning, [Next]_vars
             PROVE  AtMostOneRunning'
  OBVIOUS
<1> USE ProcsAssumption DEF AtMostOneRunning, TypeOK, ProcTypeOK
<1>1. CASE UNCHANGED vars
  BY <1>1 DEF vars
<1>2. CASE FeedFlips \/ CorruptState \/ OperatorReconciles
  BY <1>2 DEF FeedFlips, CorruptState, OperatorReconciles
<1>3. ASSUME NEW p \in Procs, ProcStep(p) PROVE AtMostOneRunning'
  <2>1. CASE Start(p)
    BY <2>1 DEF Start, Goto
  <2>2. CASE LockBusy(p) \/ LockFails(p) \/ Signal(p)
    BY <2>2 DEF LockBusy, LockFails, Signal
  <2>3. ASSUME NEW from, pc[p] = from, from # "off",
               \/ \E to : Step(p, from, to)
               \/ \E how : Exit(p, from, how)
        PROVE  AtMostOneRunning'
    BY <2>3 DEF Step, Exit, Goto
  <2>4. CASE Wake(p) \/ LoopStops(p) \/ Crash(p)
    BY <2>3, <2>4 DEF Wake, LoopStops, Crash, Step, Exit, Goto
  <2>5. CASE RunStep(p)
    <3>1. CASE LoadState(p) \/ QuarantineState(p) \/ LoadFails(p) \/ FetchFeed(p)
                 \/ DriverSucceeds(p) \/ WriteState(p) \/ WriteGuard(p)
      BY <2>3, <3>1 DEF LoadState, QuarantineState, LoadFails, FetchFeed,
         DriverSucceeds, WriteState, WriteGuard, Step, Goto
    <3>2. CASE FeedFails(p) \/ DriverFails(p) \/ DriverLeavesPartial(p)
                 \/ WriteStateFails(p) \/ WriteGuardFails(p)
      BY <2>3, <3>2 DEF FeedFails, DriverFails, DriverLeavesPartial,
         WriteStateFails, WriteGuardFails, Raise, Step, Goto
    <3>3. CASE RefuseRun(p) \/ WriteError(p) \/ WriteErrorFails(p)
      BY <2>3, <3>3 DEF RefuseRun, WriteError, WriteErrorFails, AbortRun,
         Step, Exit, Goto
    <3>4. CASE NothingToNotify(p) \/ Notify(p) \/ WriteIds(p)
      BY <2>3, <3>4 DEF NothingToNotify, Notify, WriteIds, FinishRun,
         Step, Exit, Goto
    <3> QED BY <2>5, <3>1, <3>2, <3>3, <3>4 DEF RunStep
  <2> QED BY <1>3, <2>1, <2>2, <2>4, <2>5 DEF ProcStep
<1> QED BY <1>1, <1>2, <1>3 DEF Next

(* The lock file admits one process at a time (state.FileLock, cli.main).  *)
THEOREM MutualExclusion == Spec => []AtMostOneRunning
BY TypeCorrect, LockInit, LockStep, PTL DEF Spec

-----------------------------------------------------------------------------
(* Reconciliation                                                          *)

(* While one process runs, the others are off.                             *)
LEMMA OthersOff ==
    ASSUME AtMostOneRunning, NEW p \in Procs, pc[p] # "off"
    PROVE  \A q \in Procs : q # p => pc[q] = "off"
BY DEF AtMostOneRunning

(* The strengthening: a run under way when the failure is on record is the *)
(* one that saw it, on its way to write it; a file that cannot be parsed   *)
(* holds no flag.                                                          *)
ReconInv ==
    /\ DirtyIsRecorded
    /\ stateFile.status = "bad" => ~stateFile.reconcile
    /\ dirty /\ ~amnesia =>
           \A p \in Procs :
               /\ pc[p] \in {"off", "wait", "load", "writeError"}
               /\ pc[p] = "writeError" => RequiresReconciliation(exc[p])

(* At the start no rollback has failed.                                    *)
LEMMA ReconInit == Init => ReconInv
BY DEF Init, ReconInv, DirtyIsRecorded, EmptyState, StaleFlagState

(* Every step keeps a failed rollback on record, and holds back the runs.  *)
LEMMA ReconStep ==
    TypeOK /\ AtMostOneRunning /\ ReconInv /\ [Next]_vars
    => ReconInv'
<1> SUFFICES ASSUME TypeOK, AtMostOneRunning, ReconInv, [Next]_vars
             PROVE  ReconInv'
  OBVIOUS
<1> USE DEF ReconInv, DirtyIsRecorded, TypeOK, ProcTypeOK
<1>1. CASE UNCHANGED vars
  BY <1>1 DEF vars, Pending, RequiresReconciliation
<1>2. CASE FeedFlips
  BY <1>2 DEF FeedFlips, Pending, RequiresReconciliation
<1>3. CASE CorruptState
  BY <1>3 DEF CorruptState, BadState, EmptyState, Pending,
       RequiresReconciliation
<1>4. CASE OperatorReconciles
  BY <1>4 DEF OperatorReconciles, Pending, EmptyState, RequiresReconciliation
<1>5. ASSUME NEW p \in Procs, ProcStep(p) PROVE ReconInv'
  <2>1. CASE Start(p)
    BY <2>1, OthersOff DEF Start, Goto, Pending, RequiresReconciliation
  <2>2. CASE LockBusy(p)
    BY <2>2, OthersOff DEF LockBusy, Pending, RequiresReconciliation
  <2>3. CASE LockFails(p)
    BY <2>3, OthersOff DEF LockFails, Pending, RequiresReconciliation
  <2>4. CASE Signal(p)
    BY <2>4, OthersOff DEF Signal, Pending, RequiresReconciliation
  <2>5. CASE Wake(p)
    BY <2>5, OthersOff DEF Wake, Step, Goto, Pending, RequiresReconciliation
  <2>6. CASE LoopStops(p)
    BY <2>6, OthersOff DEF LoopStops, Exit, Goto, ForgetRun, EmptyState,
         NoError, PlainError, Pending, RequiresReconciliation
  <2>7. CASE Crash(p)
    BY <2>7, OthersOff DEF Crash, Exit, Goto, ForgetRun, EmptyState, NoError,
         PlainError, Pending, RequiresReconciliation
  <2>8. CASE LoadState(p)
    BY <2>8, OthersOff DEF LoadState, Pending, Step, Goto,
         RequiresReconciliation
  <2>9. CASE RefuseRun(p)
    BY <2>9, OthersOff DEF RefuseRun, Pending, AbortRun, Step, ForgetRun,
         Exit, Goto, EmptyState, NoError, PlainError, RequiresReconciliation
  <2>10. CASE QuarantineState(p)
    BY <2>10, OthersOff DEF QuarantineState, Step, EmptyState, Goto, Pending,
         RequiresReconciliation
  <2>11. CASE LoadFails(p)
    BY <2>11, OthersOff DEF LoadFails, Step, EmptyState, Goto, Pending,
         RequiresReconciliation
  <2>12. CASE FetchFeed(p)
    BY <2>12, OthersOff DEF FetchFeed, Step, Goto, Pending,
         RequiresReconciliation
  <2>13. CASE FeedFails(p)
    BY <2>13, OthersOff DEF FeedFails, Raise, PlainError, Step, Goto,
         Pending, RequiresReconciliation
  <2>14. CASE DriverSucceeds(p)
    BY <2>14, OthersOff DEF DriverSucceeds, Step, Goto, Pending,
         RequiresReconciliation
  <2>15. CASE DriverFails(p)
    BY <2>15, OthersOff DEF DriverFails, PlainError, PartialError, Raise,
         Step, Goto, Pending, RequiresReconciliation
  <2>16. CASE DriverLeavesPartial(p)
    BY <2>16, OthersOff DEF DriverLeavesPartial, Raise, PartialError, Step,
         Goto, Pending, RequiresReconciliation
  <2>17. CASE WriteState(p)
    BY <2>17, OthersOff DEF WriteState, Step, WriteStateFile, SuccessRecord,
         Goto, Pending, RequiresReconciliation
  <2>18. CASE WriteStateFails(p)
    BY <2>18, OthersOff DEF WriteStateFails, Raise, PlainError, Step, Goto,
         Pending, RequiresReconciliation
  <2>19. CASE WriteGuard(p)
    BY <2>19, OthersOff DEF WriteGuard, Step, Goto, Pending,
         RequiresReconciliation
  <2>20. CASE WriteGuardFails(p)
    BY <2>20, OthersOff DEF WriteGuardFails, Raise, PlainError, Step, Goto,
         Pending, RequiresReconciliation
  <2>21. CASE NothingToNotify(p)
    BY <2>21, OthersOff DEF NothingToNotify, ShouldNotify, FinishRun, Step,
         ForgetRun, Exit, Goto, EmptyState, NoError, PlainError, Pending,
         RequiresReconciliation
  <2>22. CASE Notify(p)
    BY <2>22, OthersOff DEF Notify, ShouldNotify, Step, FinishRun, Goto,
         ForgetRun, Exit, EmptyState, NoError, PlainError, Pending,
         RequiresReconciliation
  <2>23. CASE WriteIds(p)
    BY <2>23, OthersOff DEF WriteIds, FinishRun, WriteStateFile,
         SuccessRecord, Step, ForgetRun, Exit, Goto, EmptyState, NoError,
         PlainError, Pending, RequiresReconciliation
  <2>24. CASE WriteError(p)
    BY <2>24, OthersOff DEF WriteError, AbortRun, WriteStateFile, ErrorState,
         Step, ForgetRun, Exit, RequiresReconciliation, Goto, EmptyState,
         NoError, PlainError, Pending
  <2>25. CASE WriteErrorFails(p)
    BY <2>25, OthersOff DEF WriteErrorFails, AbortRun, Step, ForgetRun, Exit,
         Goto, EmptyState, NoError, PlainError, Pending,
         RequiresReconciliation
  <2> QED
    BY <1>5, <2>1, <2>2, <2>3, <2>4, <2>5, <2>6, <2>7, <2>8, <2>9, <2>10, <2>11, <2>12,
       <2>13, <2>14, <2>15, <2>16, <2>17, <2>18, <2>19, <2>20, <2>21, <2>22, <2>23, <2>24, <2>25
    DEF ProcStep, RunStep
<1> QED BY <1>1, <1>2, <1>3, <1>4, <1>5 DEF Next

(* The strengthening of DirtyIsRecorded holds in every state.              *)
LEMMA ReconAlways == Spec => []ReconInv
BY TypeCorrect, MutualExclusion, ReconInit, ReconStep, PTL DEF Spec

(* A failed rollback is on record until it is repaired: _write_state with  *)
(* _requires_reconciliation, against every order of kills, failed writes   *)
(* and restarts.                                                           *)
THEOREM DirtyAlwaysRecorded == Spec => []DirtyIsRecorded
<1>1. ReconInv => DirtyIsRecorded
  BY DEF ReconInv
<1> QED BY <1>1, ReconAlways, PTL

(* "refusing new writes": no run reaches the router while a recorded       *)
(* failure is pending (run_once, ReconciliationRequiredError).             *)
THEOREM PendingAlwaysBlocks == Spec => []PendingBlocksWrites
<1>1. TypeOK /\ ReconInv => PendingBlocksWrites
  BY DEF TypeOK, ReconInv, PendingBlocksWrites
<1> QED BY <1>1, TypeCorrect, ReconAlways, PTL

-----------------------------------------------------------------------------
(* Notifications                                                           *)

(* The status a run remembers is the one on file, or the file has changed  *)
(* since and holds a change to announce; and what a run is about to        *)
(* announce is on file and was not announced.                              *)
NotifyInv ==
    \A p \in Procs :
        /\ pc[p] \in {"feed", "sync", "writeState"} /\ prev[p].blocked \in Label =>
               stateFile.blocked = prev[p].blocked \/ ~announced
        /\ pc[p] \in {"writeGuard", "notify"} /\ ShouldNotify(p) => ~announced
        /\ pc[p] \in {"writeGuard", "notify", "writeIds"} =>
               stateFile.status = "bad" \/ stateFile = SuccessRecord(p)

(* At the start no run is past its load.                                   *)
LEMMA NotifyInit == Init => NotifyInv
BY DEF Init, NotifyInv

(* Every step keeps what a run knows of the record and the announcement.   *)
LEMMA NotifyStep ==
    TypeOK /\ AtMostOneRunning /\ NotifyInv /\ [Next]_vars
    => NotifyInv'
<1> SUFFICES ASSUME TypeOK, AtMostOneRunning, NotifyInv, [Next]_vars
             PROVE  NotifyInv'
  OBVIOUS
<1> USE DEF NotifyInv, TypeOK, ProcTypeOK, Label
<1>1. CASE UNCHANGED vars
  BY <1>1 DEF vars, ShouldNotify, SuccessRecord
<1>2. CASE FeedFlips
  BY <1>2 DEF FeedFlips, ShouldNotify, SuccessRecord
<1>3. CASE CorruptState
  BY <1>3 DEF CorruptState, BadState, EmptyState, ShouldNotify, SuccessRecord
<1>4. CASE OperatorReconciles
  BY <1>4 DEF OperatorReconciles, EmptyState, ShouldNotify, SuccessRecord
<1>5. ASSUME NEW p \in Procs, ProcStep(p) PROVE NotifyInv'
  <2>1. CASE Start(p)
    BY <2>1, OthersOff DEF Start, Goto, ShouldNotify, SuccessRecord
  <2>2. CASE LockBusy(p)
    BY <2>2, OthersOff DEF LockBusy, ShouldNotify, SuccessRecord
  <2>3. CASE LockFails(p)
    BY <2>3, OthersOff DEF LockFails, ShouldNotify, SuccessRecord
  <2>4. CASE Signal(p)
    BY <2>4, OthersOff DEF Signal, ShouldNotify, SuccessRecord
  <2>5. CASE Wake(p)
    BY <2>5, OthersOff DEF Wake, Step, Goto, ShouldNotify, SuccessRecord
  <2>6. CASE LoopStops(p)
    BY <2>6, OthersOff DEF LoopStops, Exit, Goto, ForgetRun, EmptyState,
         NoError, PlainError, ShouldNotify, SuccessRecord
  <2>7. CASE Crash(p)
    BY <2>7, OthersOff DEF Crash, Exit, Goto, ForgetRun, EmptyState, NoError,
         PlainError, ShouldNotify, SuccessRecord
  <2>8. CASE LoadState(p)
    BY <2>8, OthersOff DEF LoadState, Step, Goto, ShouldNotify, SuccessRecord
  <2>9. CASE RefuseRun(p)
    BY <2>9, OthersOff DEF RefuseRun, AbortRun, Step, ForgetRun, Exit, Goto,
         EmptyState, NoError, PlainError, ShouldNotify, SuccessRecord
  <2>10. CASE QuarantineState(p)
    BY <2>10, OthersOff DEF QuarantineState, Step, EmptyState, Goto,
         ShouldNotify, SuccessRecord
  <2>11. CASE LoadFails(p)
    BY <2>11, OthersOff DEF LoadFails, Step, EmptyState, Goto, ShouldNotify,
         SuccessRecord
  <2>12. CASE FetchFeed(p)
    BY <2>12, OthersOff DEF FetchFeed, Step, Goto, ShouldNotify,
         SuccessRecord
  <2>13. CASE FeedFails(p)
    BY <2>13, OthersOff DEF FeedFails, Raise, PlainError, Step, Goto,
         ShouldNotify, SuccessRecord
  <2>14. CASE DriverSucceeds(p)
    BY <2>14, OthersOff DEF DriverSucceeds, Step, Goto, ShouldNotify,
         SuccessRecord
  <2>15. CASE DriverFails(p)
    BY <2>15, OthersOff DEF DriverFails, PlainError, PartialError, Raise,
         Step, Goto, ShouldNotify, SuccessRecord
  <2>16. CASE DriverLeavesPartial(p)
    BY <2>16, OthersOff DEF DriverLeavesPartial, Raise, PartialError, Step,
         Goto, ShouldNotify, SuccessRecord
  <2>17. CASE WriteState(p)
    <3>1. stateFile' = SuccessRecord(p) /\ SuccessRecord(p)' = SuccessRecord(p)
      BY <2>17 DEF WriteState, WriteStateFile, SuccessRecord
    <3>2. ShouldNotify(p) => ~announced'
      <4>1. ShouldNotify(p) => stateFile.blocked = prev[p].blocked \/ ~announced
        BY <2>17 DEF WriteState, Step, Goto, ShouldNotify
      <4>2. SuccessRecord(p).blocked = result[p]
        BY DEF SuccessRecord
      <4> QED BY <2>17, <4>1, <4>2 DEF WriteState, WriteStateFile, ShouldNotify
    <3>3. pc'[p] = "writeGuard" /\ \A q \in Procs : q # p => pc'[q] = "off"
      BY <2>17, OthersOff DEF WriteState, Step, Goto
    <3>4. ShouldNotify(p)' <=> ShouldNotify(p)
      BY <2>17 DEF WriteState, ShouldNotify
    <3> QED BY <3>1, <3>2, <3>3, <3>4
  <2>18. CASE WriteStateFails(p)
    BY <2>18, OthersOff DEF WriteStateFails, Raise, PlainError, Step, Goto,
         ShouldNotify, SuccessRecord
  <2>19. CASE WriteGuard(p)
    BY <2>19, OthersOff DEF WriteGuard, Step, Goto, ShouldNotify,
         SuccessRecord
  <2>20. CASE WriteGuardFails(p)
    BY <2>20, OthersOff DEF WriteGuardFails, Raise, PlainError, Step, Goto,
         ShouldNotify, SuccessRecord
  <2>21. CASE NothingToNotify(p)
    BY <2>21, OthersOff DEF NothingToNotify, ShouldNotify, FinishRun, Step,
         ForgetRun, Exit, Goto, EmptyState, NoError, PlainError,
         SuccessRecord
  <2>22. CASE Notify(p)
    BY <2>22, OthersOff DEF Notify, ShouldNotify, Step, FinishRun, Goto,
         ForgetRun, Exit, EmptyState, NoError, PlainError, SuccessRecord
  <2>23. CASE WriteIds(p)
    BY <2>23, OthersOff DEF WriteIds, FinishRun, WriteStateFile,
         SuccessRecord, Step, ForgetRun, Exit, Goto, EmptyState, NoError,
         PlainError, ShouldNotify
  <2>24. CASE WriteError(p)
    BY <2>24, OthersOff DEF WriteError, AbortRun, WriteStateFile, ErrorState,
         Step, ForgetRun, Exit, Goto, EmptyState, NoError, PlainError,
         ShouldNotify, SuccessRecord
  <2>25. CASE WriteErrorFails(p)
    BY <2>25, OthersOff DEF WriteErrorFails, AbortRun, Step, ForgetRun, Exit,
         Goto, EmptyState, NoError, PlainError, ShouldNotify, SuccessRecord
  <2> QED
    BY <1>5, <2>1, <2>2, <2>3, <2>4, <2>5, <2>6, <2>7, <2>8, <2>9, <2>10, <2>11, <2>12,
       <2>13, <2>14, <2>15, <2>16, <2>17, <2>18, <2>19, <2>20, <2>21, <2>22, <2>23, <2>24, <2>25
    DEF ProcStep, RunStep
<1> QED BY <1>1, <1>2, <1>3, <1>4, <1>5 DEF Next

(* The strengthening of the two notification theorems holds always.        *)
LEMMA NotifyAlways == Spec => []NotifyInv
BY TypeCorrect, MutualExclusion, NotifyInit, NotifyStep, PTL DEF Spec

(* No change of the block status is announced twice                        *)
(* (notifier.send_notifications after run_once's first _write_state).      *)
THEOREM AnnouncedAtMostOnce == Spec => []NoChangeAnnouncedTwice
<1>1. NotifyInv => NoChangeAnnouncedTwice
  BY DEF NotifyInv, NoChangeAnnouncedTwice
<1> QED BY <1>1, NotifyAlways, PTL

(* What is announced is on record: the state file is written before the    *)
(* notification.                                                           *)
THEOREM RecordedBeforeAnnounced == Spec => []AnnouncedIsRecorded
<1>1. NotifyInv => AnnouncedIsRecorded
  BY DEF NotifyInv, AnnouncedIsRecorded
<1> QED BY <1>1, NotifyAlways, PTL

-----------------------------------------------------------------------------
(* The truth of a recorded success                                         *)

(* A run that synchronized leaves the router at its result until it is     *)
(* over, because no other process runs.                                    *)
SuccessInv ==
    /\ SuccessMeansApplied
    /\ \A p \in Procs \ DryProcs :
           pc[p] \in {"writeState", "writeGuard", "notify", "writeIds"} =>
               remote = result[p]

(* At the start nothing has been recorded as a success by a run.           *)
LEMMA SuccessInit == Init => SuccessInv
BY DEF Init, SuccessInv, SuccessMeansApplied, EmptyState, StaleFlagState

(* Every step keeps the recorded success and the router in agreement.      *)
LEMMA SuccessStep ==
    TypeOK /\ AtMostOneRunning /\ NotifyInv /\ SuccessInv /\ [Next]_vars
    => SuccessInv'
<1> SUFFICES ASSUME TypeOK, AtMostOneRunning, NotifyInv, SuccessInv, [Next]_vars
             PROVE  SuccessInv'
  OBVIOUS
<1> USE DEF SuccessInv, SuccessMeansApplied, TypeOK, ProcTypeOK
<1>1. CASE UNCHANGED vars
  BY <1>1 DEF vars, NotifyInv, SuccessRecord
<1>2. CASE FeedFlips
  BY <1>2 DEF FeedFlips, NotifyInv, SuccessRecord
<1>3. CASE CorruptState
  BY <1>3 DEF CorruptState, BadState, EmptyState, NotifyInv, SuccessRecord
<1>4. CASE OperatorReconciles
  BY <1>4 DEF OperatorReconciles, EmptyState, NotifyInv, SuccessRecord
<1>5. ASSUME NEW p \in Procs, ProcStep(p) PROVE SuccessInv'
  <2>1. CASE Start(p)
    BY <2>1, OthersOff DEF Start, Goto, NotifyInv, SuccessRecord
  <2>2. CASE LockBusy(p)
    BY <2>2, OthersOff DEF LockBusy, NotifyInv, SuccessRecord
  <2>3. CASE LockFails(p)
    BY <2>3, OthersOff DEF LockFails, NotifyInv, SuccessRecord
  <2>4. CASE Signal(p)
    BY <2>4, OthersOff DEF Signal, NotifyInv, SuccessRecord
  <2>5. CASE Wake(p)
    BY <2>5, OthersOff DEF Wake, Step, Goto, NotifyInv, SuccessRecord
  <2>6. CASE LoopStops(p)
    BY <2>6, OthersOff DEF LoopStops, Exit, Goto, ForgetRun, EmptyState,
         NoError, PlainError, NotifyInv, SuccessRecord
  <2>7. CASE Crash(p)
    BY <2>7, OthersOff DEF Crash, Exit, Goto, ForgetRun, EmptyState, NoError,
         PlainError, NotifyInv, SuccessRecord
  <2>8. CASE LoadState(p)
    BY <2>8, OthersOff DEF LoadState, Step, Goto, NotifyInv, SuccessRecord
  <2>9. CASE RefuseRun(p)
    BY <2>9, OthersOff DEF RefuseRun, AbortRun, Step, ForgetRun, Exit, Goto,
         EmptyState, NoError, PlainError, NotifyInv, SuccessRecord
  <2>10. CASE QuarantineState(p)
    BY <2>10, OthersOff DEF QuarantineState, Step, EmptyState, Goto,
         NotifyInv, SuccessRecord
  <2>11. CASE LoadFails(p)
    BY <2>11, OthersOff DEF LoadFails, Step, EmptyState, Goto, NotifyInv,
         SuccessRecord
  <2>12. CASE FetchFeed(p)
    BY <2>12, OthersOff DEF FetchFeed, Step, Goto, NotifyInv, SuccessRecord
  <2>13. CASE FeedFails(p)
    BY <2>13, OthersOff DEF FeedFails, Raise, PlainError, Step, Goto,
         NotifyInv, SuccessRecord
  <2>14. CASE DriverSucceeds(p)
    BY <2>14, OthersOff DEF DriverSucceeds, Step, Goto, NotifyInv,
         SuccessRecord
  <2>15. CASE DriverFails(p)
    BY <2>15, OthersOff DEF DriverFails, PlainError, PartialError, Raise,
         Step, Goto, NotifyInv, SuccessRecord
  <2>16. CASE DriverLeavesPartial(p)
    BY <2>16, OthersOff DEF DriverLeavesPartial, Raise, PartialError, Step,
         Goto, NotifyInv, SuccessRecord
  <2>17. CASE WriteState(p)
    BY <2>17, OthersOff DEF WriteState, Step, WriteStateFile, SuccessRecord,
         Goto, NotifyInv
  <2>18. CASE WriteStateFails(p)
    BY <2>18, OthersOff DEF WriteStateFails, Raise, PlainError, Step, Goto,
         NotifyInv, SuccessRecord
  <2>19. CASE WriteGuard(p)
    BY <2>19, OthersOff DEF WriteGuard, Step, Goto, NotifyInv, SuccessRecord
  <2>20. CASE WriteGuardFails(p)
    BY <2>20, OthersOff DEF WriteGuardFails, Raise, PlainError, Step, Goto,
         NotifyInv, SuccessRecord
  <2>21. CASE NothingToNotify(p)
    BY <2>21, OthersOff DEF NothingToNotify, ShouldNotify, FinishRun, Step,
         ForgetRun, Exit, Goto, EmptyState, NoError, PlainError, NotifyInv,
         SuccessRecord
  <2>22. CASE Notify(p)
    BY <2>22, OthersOff DEF Notify, ShouldNotify, Step, FinishRun, Goto,
         ForgetRun, Exit, EmptyState, NoError, PlainError, NotifyInv,
         SuccessRecord
  <2>23. CASE WriteIds(p)
    BY <2>23, OthersOff DEF WriteIds, FinishRun, WriteStateFile,
         SuccessRecord, Step, ForgetRun, Exit, Goto, EmptyState, NoError,
         PlainError, NotifyInv
  <2>24. CASE WriteError(p)
    BY <2>24, OthersOff DEF WriteError, AbortRun, WriteStateFile, ErrorState,
         Step, ForgetRun, Exit, Goto, EmptyState, NoError, PlainError,
         NotifyInv, SuccessRecord
  <2>25. CASE WriteErrorFails(p)
    BY <2>25, OthersOff DEF WriteErrorFails, AbortRun, Step, ForgetRun, Exit,
         Goto, EmptyState, NoError, PlainError, NotifyInv, SuccessRecord
  <2> QED
    BY <1>5, <2>1, <2>2, <2>3, <2>4, <2>5, <2>6, <2>7, <2>8, <2>9, <2>10, <2>11, <2>12,
       <2>13, <2>14, <2>15, <2>16, <2>17, <2>18, <2>19, <2>20, <2>21, <2>22, <2>23, <2>24, <2>25
    DEF ProcStep, RunStep
<1> QED BY <1>1, <1>2, <1>3, <1>4, <1>5 DEF Next

(* A state file that says "success" means that the router enforces the     *)
(* recorded status, but for the runs that ended unrecorded.                *)
THEOREM SuccessAlwaysApplied == Spec => []SuccessMeansApplied
<1>1. Spec => []SuccessInv
  BY TypeCorrect, MutualExclusion, NotifyAlways, SuccessInit, SuccessStep, PTL
     DEF Spec
<1>2. SuccessInv => SuccessMeansApplied
  BY DEF SuccessInv
<1> QED BY <1>1, <1>2, PTL

-----------------------------------------------------------------------------
(* Every change is announced                                               *)

(* The strengthening of EveryChangeAnnounced: while nothing is killed and  *)
(* no file fails, a run remembers the status on file until it writes its   *)
(* own, and then a change that is not announced is one it will announce.   *)
AnnounceInv ==
    faults["crash"] = 0 /\ faults["io"] = 0 /\ DryProcs = {} =>
        /\ stateFile.status # "bad"
        /\ (\A p \in Procs : pc[p] \notin {"writeGuard", "notify"}) => announced = TRUE
        /\ \A p \in Procs :
              /\ pc[p] \in {"feed", "sync", "writeState", "writeError"} =>
                     prev[p].blocked = stateFile.blocked
              /\ pc[p] \in {"writeGuard", "notify"} /\ announced = FALSE =>
                     ShouldNotify(p)

(* At the start nothing is left to announce.                               *)
LEMMA AnnounceInit == Init => AnnounceInv
BY DEF Init, AnnounceInv, EmptyState, StaleFlagState

(* A step that costs a kill or a state file has nothing to keep.           *)
LEMMA FaultsExcuse ==
    ASSUME TypeOK, Fault("crash") \/ Fault("io") PROVE AnnounceInv'
<1>1. faults'["crash"] # 0 \/ faults'["io"] # 0
  BY DEF TypeOK, Fault, FaultKinds
<1> QED BY <1>1 DEF AnnounceInv

(* The faults that remain are no more than there were.                     *)
LEMMA FaultsRemain ==
    ASSUME TypeOK, UNCHANGED faults \/ Fault("run") \/ Fault("flip") \/ Fault("stop")
    PROVE  faults'["crash"] = faults["crash"] /\ faults'["io"] = faults["io"]
BY DEF TypeOK, Fault, FaultKinds

(* Every step keeps it.                                                    *)
LEMMA AnnounceStep ==
    TypeOK /\ AtMostOneRunning /\ NotifyInv /\ AnnounceInv /\ [Next]_vars => AnnounceInv'
<1> SUFFICES ASSUME TypeOK, AtMostOneRunning, NotifyInv, AnnounceInv, [Next]_vars,
                    faults'["crash"] = 0, faults'["io"] = 0, DryProcs = {}
             PROVE  AnnounceInv'
  BY DEF AnnounceInv
<1>0. announced \in BOOLEAN /\ stateFile \in StateRecord /\ pc \in [Procs -> Steps \cup {"off", "wait"}]
      /\ prev \in [Procs -> StateRecord] /\ result \in [Procs -> Label]
  BY DEF TypeOK, ProcTypeOK
<1> USE <1>0
<1> USE DEF AnnounceInv
<1>1. CASE UNCHANGED vars
  BY <1>1 DEF vars, ShouldNotify
<1>2. CASE FeedFlips
  BY <1>2, FaultsRemain DEF FeedFlips, ShouldNotify
<1>3. CASE CorruptState
  BY <1>3, FaultsExcuse DEF CorruptState
<1>4. CASE OperatorReconciles
  BY <1>4 DEF OperatorReconciles, EmptyState
<1>5. ASSUME NEW p \in Procs, ProcStep(p) PROVE AnnounceInv'
  <2>1. CASE Start(p)
    BY <2>1, FaultsRemain, OthersOff DEF Start, ShouldNotify, Goto
  <2>2. CASE LockBusy(p)
    BY <2>2, FaultsRemain, OthersOff DEF LockBusy, ShouldNotify
  <2>3. CASE LockFails(p)
    BY <2>3, FaultsExcuse DEF LockFails
  <2>4. CASE Signal(p)
    BY <2>4, FaultsRemain, OthersOff DEF Signal, ShouldNotify
  <2>5. CASE Wake(p)
    BY <2>5, FaultsRemain, OthersOff DEF Wake, ShouldNotify, Step, Goto
  <2>6. CASE LoopStops(p)
    BY <2>6, FaultsRemain, OthersOff DEF LoopStops, ShouldNotify, Exit, Goto, ForgetRun
  <2>7. CASE Crash(p)
    BY <2>7, FaultsExcuse DEF Crash
  <2>8. CASE LoadState(p)
    BY <2>8, FaultsRemain, OthersOff DEF LoadState, ShouldNotify, Step, Goto
  <2>9. CASE RefuseRun(p)
    BY <2>9, FaultsRemain, OthersOff DEF RefuseRun, ShouldNotify, AbortRun, Step, ForgetRun, Exit, Goto
  <2>10. CASE QuarantineState(p)
    <3>1. CASE UNCHANGED faults
      BY <2>10, <3>1 DEF QuarantineState
    <3> QED BY <2>10, <3>1, FaultsExcuse DEF QuarantineState
  <2>11. CASE LoadFails(p)
    BY <2>11, FaultsExcuse DEF LoadFails
  <2>12. CASE FetchFeed(p)
    BY <2>12, FaultsRemain, OthersOff DEF FetchFeed, ShouldNotify, Step, Goto
  <2>13. CASE FeedFails(p)
    BY <2>13, FaultsRemain, OthersOff DEF FeedFails, ShouldNotify, Raise, Step, Goto
  <2>14. CASE DriverSucceeds(p)
    BY <2>14, FaultsRemain, OthersOff DEF DriverSucceeds, ShouldNotify, Step, Goto
  <2>15. CASE DriverFails(p)
    BY <2>15, FaultsRemain, OthersOff DEF DriverFails, ShouldNotify, Raise, Step, Goto
  <2>16. CASE DriverLeavesPartial(p)
    BY <2>16, FaultsRemain, OthersOff DEF DriverLeavesPartial, ShouldNotify, Raise, Step, Goto
  <2>17. CASE WriteState(p)
    <3>1. /\ pc[p] = "writeState" /\ stateFile' = SuccessRecord(p)
          /\ announced' = (announced /\ stateFile.blocked \in {result[p], "none"})
          /\ UNCHANGED <<prev, result, faults>>
      BY <2>17 DEF WriteState, WriteStateFile, Step, Goto, SuccessRecord
    <3>2. pc'[p] = "writeGuard" /\ \A q \in Procs : q # p => pc'[q] = "off"
      BY <2>17, OthersOff DEF WriteState, Step, Goto
    <3>3. announced = TRUE /\ prev[p].blocked = stateFile.blocked
      BY <3>1, OthersOff
    <3>4. announced' = FALSE => ShouldNotify(p)'
      BY <3>1, <3>3 DEF ShouldNotify, StateRecord
    <3>5. stateFile'.status # "bad"
      BY <3>1 DEF SuccessRecord
    <3> QED BY <3>2, <3>4, <3>5
  <2>18. CASE WriteStateFails(p)
    BY <2>18, FaultsExcuse DEF WriteStateFails
  <2>19. CASE WriteGuard(p)
    BY <2>19, FaultsRemain, OthersOff DEF WriteGuard, ShouldNotify, Step, Goto
  <2>20. CASE WriteGuardFails(p)
    BY <2>20, FaultsExcuse DEF WriteGuardFails
  <2>21. CASE NothingToNotify(p)
    BY <2>21, FaultsRemain, OthersOff DEF NothingToNotify, ShouldNotify, FinishRun, Step, ForgetRun, Exit, Goto
  <2>22. CASE Notify(p)
    BY <2>22, FaultsRemain, OthersOff DEF Notify, ShouldNotify, FinishRun, Step, ForgetRun, Exit, Goto
  <2>23. CASE WriteIds(p)
    <3>1. CASE WriteStateFile(SuccessRecord(p)) /\ UNCHANGED faults
      <4>1. pc[p] = "writeIds" /\ stateFile = SuccessRecord(p)
        BY <2>23, <3>1 DEF WriteIds, FinishRun, Step, Exit, Goto, NotifyInv
      <4>2. announced = TRUE /\ UNCHANGED <<stateFile, announced>>
        BY <3>1, <4>1, OthersOff DEF WriteStateFile
      <4> QED BY <2>23, <3>1, <4>1, <4>2, OthersOff
              DEF WriteIds, FinishRun, Step, ForgetRun, Exit, Goto
    <3> QED BY <2>23, <3>1, FaultsExcuse DEF WriteIds
  <2>24. CASE WriteError(p)
    <3>1. pc[p] = "writeError" /\ WriteStateFile(ErrorState(p)) /\ UNCHANGED faults
      BY <2>24 DEF WriteError, AbortRun, Step, Exit, Goto
    <3>2. announced = TRUE /\ prev[p].blocked = stateFile.blocked
      BY <3>1, OthersOff
    <3>3. announced' = TRUE /\ stateFile'.status = "error"
      BY <3>1, <3>2 DEF WriteStateFile, ErrorState
    <3> QED BY <2>24, <3>1, <3>3, OthersOff
            DEF WriteError, AbortRun, Step, ForgetRun, Exit, Goto
  <2>25. CASE WriteErrorFails(p)
    BY <2>25, FaultsExcuse DEF WriteErrorFails
  <2> QED
    BY <1>5, <2>1, <2>2, <2>3, <2>4, <2>5, <2>6, <2>7, <2>8, <2>9, <2>10, <2>11, <2>12,
       <2>13, <2>14, <2>15, <2>16, <2>17, <2>18, <2>19, <2>20, <2>21, <2>22, <2>23, <2>24, <2>25
    DEF ProcStep, RunStep
<1> QED BY <1>1, <1>2, <1>3, <1>4, <1>5 DEF Next

(* Every recorded change of status gets its notification attempt in the    *)
(* run that recorded it, whatever feeds and drivers fail, when nothing is  *)
(* killed, no file fails and there are no dry runs.                        *)
THEOREM EveryChangeIsAnnounced == Spec => []EveryChangeAnnounced
<1>1. AnnounceInv => EveryChangeAnnounced
  BY DEF AnnounceInv, EveryChangeAnnounced
<1> QED BY <1>1, TypeCorrect, MutualExclusion, NotifyAlways, AnnounceInit, AnnounceStep, PTL
        DEF Spec
=============================================================================
