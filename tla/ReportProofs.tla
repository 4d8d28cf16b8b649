---------------------------- MODULE ReportProofs ----------------------------
(***************************************************************************)
(* Theorems about Report, for any providers, clock and bounds.             *)
(***************************************************************************)
EXTENDS Report, TLAPS

-----------------------------------------------------------------------------
(* One write of the state file: for any set of records, its steps keep a   *)
(* whole record under the name of the file, and each is a step of Register *)

(* Any step of the file: one of a write, one of another process or of the  *)
(* system, or none.                                                        *)
FileStep ==
    \/ \E r \in Records : BeginWrite(r)
    \/ OpenTemp \/ FillTemp \/ SyncTemp \/ Replace \/ AbandonWrite
    \/ Quarantine \/ FlushDirectory \/ LoseUnsynced \/ Damage \/ Remove
    \/ UNCHANGED fileVars

(* A content that is no record holds none.                                 *)
Plain(c) == c.kind # "record" => c = Other(c.kind)

(* The strengthening: what has a name was synced before it got it, and so  *)
(* a power failure tears nothing.                                          *)
FileInv ==
    /\ FileTypeOK
    /\ solid = TRUE
    /\ writing = "rename" => temp.synced = TRUE
    /\ Plain(file) /\ Plain(disk)

(* Other(k) and Stored(r) are contents of the file.                        *)
LEMMA Contents ==
    /\ \A k \in Kinds : Other(k) \in Content
    /\ \A k \in Kinds \ {"record"} : Plain(Other(k))
    /\ \A r \in Records : Stored(r) \in Content /\ Plain(Stored(r))
BY NoRecordAssumption DEF Other, Stored, Content, Kinds, Plain

(* At the start there is no file.                                          *)
LEMMA FileStart == FileInit => FileInv
<1>1. Other("missing") \in Content /\ Plain(Other("missing"))
  BY Contents DEF Kinds
<1> QED BY <1>1, NoRecordAssumption DEF FileInit, FileInv, FileTypeOK, NoTemp

(* Every step of the file keeps FileInv.                                   *)
LEMMA FileInvStep == FileInv /\ FileStep => FileInv'
<1> SUFFICES ASSUME FileInv, FileStep PROVE FileInv'
  OBVIOUS
<1> USE NoRecordAssumption DEF FileInv, FileTypeOK, NoTemp
<1>1. ASSUME NEW r \in Records, BeginWrite(r) PROVE FileInv'
  BY <1>1 DEF BeginWrite, Plain
<1>2. CASE OpenTemp \/ FillTemp
  BY <1>2 DEF OpenTemp, FillTemp, Plain
<1>3. CASE SyncTemp
  BY <1>3 DEF SyncTemp, Plain
<1>4. CASE AbandonWrite
  BY <1>4 DEF AbandonWrite, Plain
<1>5. CASE UNCHANGED fileVars
  BY <1>5 DEF fileVars, Plain
<1>6. CASE Replace
  <2>1. temp.rec \in Records /\ temp.synced = TRUE
    BY <1>6 DEF Replace
  <2>2. Stored(temp.rec) \in Content /\ Plain(Stored(temp.rec))
    BY <2>1, Contents
  <2> QED BY <1>6, <2>1, <2>2 DEF Replace, Plain
<1>7. CASE Quarantine
  <2>1. Other("missing") \in Content /\ Plain(Other("missing"))
    BY Contents DEF Kinds
  <2> QED BY <1>7, <2>1 DEF Quarantine, Plain
<1>8. CASE FlushDirectory
  BY <1>8 DEF FlushDirectory, Plain
<1>9. CASE LoseUnsynced
  BY <1>9 DEF LoseUnsynced, Plain
<1>10. CASE Damage
  <2>1. PICK k \in Foreign \cup {"missing"} : file' = Other(k)
    BY <1>10 DEF Damage
  <2>2. Other(k) \in Content /\ Plain(Other(k))
    BY Contents DEF Kinds, Foreign
  <2> QED BY <1>10, <2>1, <2>2 DEF Damage, Plain
<1>11. CASE Remove
  <2>1. Other("missing") \in Content /\ Plain(Other("missing"))
    BY Contents DEF Kinds
  <2> QED BY <1>11, <2>1 DEF Remove, Plain
<1> QED
  BY <1>1, <1>2, <1>3, <1>4, <1>5, <1>6, <1>7, <1>8, <1>9, <1>10, <1>11 DEF FileStep

-----------------------------------------------------------------------------
(* The file implements the register                                        *)

(* At the start the register holds nothing.                                *)
LEMMA RegisterStart == FileInit => AtomicRegister!Init
BY DEF FileInit, AtomicRegister!Init

(* Every step of the file is a step of the register, or none at all: only  *)
(* the rename stores a record.                                             *)
LEMMA RegisterStep ==
    FileInv /\ FileStep => [AtomicRegister!Next]_(AtomicRegister!vars)
<1> SUFFICES ASSUME FileInv, FileStep
             PROVE  [AtomicRegister!Next]_(AtomicRegister!vars)
  OBVIOUS
<1> USE DEF FileInv, FileTypeOK, AtomicRegister!vars, AtomicRegister!Next
<1>0. \A r : Stored(r) # Other("missing")
  BY DEF Stored, Other
<1>1. ASSUME NEW r \in Records, BeginWrite(r) PROVE AtomicRegister!Ask
  <2>1. temp'.rec = r
    BY <1>1 DEF BeginWrite, NoTemp
  <2>2. Stored(r) \in [kind : {"record"}, rec : Records]
    BY DEF Stored
  <2> QED BY <1>1, <2>1, <2>2 DEF BeginWrite, AtomicRegister!Ask
<1>2. CASE OpenTemp \/ FillTemp \/ SyncTemp \/ UNCHANGED fileVars
  BY <1>2 DEF OpenTemp, FillTemp, SyncTemp, fileVars
<1>3. CASE Replace
  BY <1>0, <1>3 DEF Replace, AtomicRegister!Store
<1>4. CASE AbandonWrite
  BY <1>4 DEF AbandonWrite, AtomicRegister!GiveUp
<1>5. CASE Quarantine
  <2>1. file = Other("malformed")
    BY <1>5 DEF Quarantine, Plain
  <2> QED BY <1>5, <2>1 DEF Quarantine, Foreign, AtomicRegister!Discard
<1>6. CASE FlushDirectory
  BY <1>6 DEF FlushDirectory, AtomicRegister!Flush
<1>7. CASE LoseUnsynced
  BY <1>7 DEF LoseUnsynced, AtomicRegister!PowerFails
<1>8. CASE Damage
  BY <1>8 DEF Damage, AtomicRegister!Tamper
<1>9. CASE Remove
  BY <1>9 DEF Remove, AtomicRegister!Tamper
<1> QED BY <1>1, <1>2, <1>3, <1>4, <1>5, <1>6, <1>7, <1>8, <1>9 DEF FileStep

-----------------------------------------------------------------------------
(* The state file in the runs of the service                               *)

(* The records of _write_state are snapshots.                              *)
LEMMA RecordTypes ==
    /\ EmptySnapshot \in Snapshot
    /\ TypeOK => /\ ErrorRecord \in Snapshot
                 /\ SuccessRecord(feed, prev.ids) \in Snapshot
<1>1. 0 \in 0 .. MaxNow /\ 0 \in 0 .. MaxFaults + MaxFlips
  BY ClockAssumption, BudgetAssumption
<1>2. EmptySnapshot \in Snapshot
  BY <1>1 DEF EmptySnapshot, Snapshot, NoIds
<1>3. ASSUME TypeOK PROVE ErrorRecord \in Snapshot
  BY <1>3 DEF TypeOK, ErrorRecord, Snapshot
<1>4. ASSUME TypeOK PROVE SuccessRecord(feed, prev.ids) \in Snapshot
  BY <1>4 DEF TypeOK, SuccessRecord, Snapshot
<1> QED BY <1>2, <1>3, <1>4

(* An id is the number of an announcement, and none is ahead of the last.  *)
FreshInv == \A p \in Providers : fresh[p] <= changes

(* So is the record with the ids of a message.                             *)
LEMMA IdRecordTypes ==
    ASSUME TypeOK, FreshInv
    PROVE  SuccessRecord(seen, RecordedIds) \in Snapshot
<1>1. prev.ids \in [Providers -> 0 .. MaxFaults + MaxFlips]
  BY DEF TypeOK, Snapshot
<1>2. \A p \in Providers : fresh[p] \in 0 .. MaxFaults + MaxFlips
  BY BudgetAssumption DEF TypeOK, NotifierTypeOK, FreshInv
<1>3. RecordedIds \in [Providers -> 0 .. MaxFaults + MaxFlips]
  BY <1>1, <1>2 DEF RecordedIds
<1> QED BY <1>3 DEF SuccessRecord, Snapshot, TypeOK

(* Every step of Report is a step of the file.                             *)
LEMMA StepsOfFile == TypeOK /\ FreshInv /\ [Next]_vars => FileStep
<1> SUFFICES ASSUME TypeOK, FreshInv, [Next]_vars PROVE FileStep
  OBVIOUS
<1> USE DEF FileStep
<1>1. CASE Start \/ Deliver \/ StartupSent \/ Load \/ RefuseRun \/ LoadFails
           \/ LoadUndecodable
  BY <1>1 DEF Start, Deliver, StartupSent, Load, RefuseRun, LoadFails, LoadUndecodable
<1>2. CASE LoadMalformed
  BY <1>2 DEF LoadMalformed
<1>3. CASE RunSucceeds
  BY <1>3, RecordTypes, RecordsAssumption DEF RunSucceeds
<1>4. CASE HandleError
  BY <1>4, RecordTypes, RecordsAssumption DEF HandleError
<1>5. CASE ToldWithIds
  BY <1>5, IdRecordTypes, RecordsAssumption DEF ToldWithIds
<1>6. CASE RunFails \/ GuardRecorded \/ GuardFails \/ Told \/ Wake
  BY <1>6 DEF RunFails, GuardRecorded, GuardFails, Told, Wake
<1>7. CASE WriteStep \/ Record \/ RecordFails \/ RecordIds \/ RecordIdsFails \/ EndWithError
  BY <1>7 DEF WriteStep, Record, RecordFails, RecordIds, RecordIdsFails, EndWithError
<1>8. CASE Kill \/ DeliveryEscapes \/ PowerLoss \/ Flush \/ DamageFile \/ FeedFlips \/ Tick
  BY <1>8 DEF Kill, DeliveryEscapes, PowerLoss, Flush, DamageFile, FeedFlips, Tick
<1>9. CASE OperatorReconciles \/ UNCHANGED vars
  BY <1>9 DEF OperatorReconciles, vars
<1> QED
  BY <1>1, <1>2, <1>3, <1>4, <1>5, <1>6, <1>7, <1>8, <1>9 DEF Next, Progress, Environment

-----------------------------------------------------------------------------
(* The number of changes.  Every change of the recorded status is paid for *)
(* by a change of the feed, or by a fault that made the service forget.    *)

(* The statuses that the next record may differ from: that of the file,    *)
(* the one that the run knew before it recorded its own, then its own.     *)
Known ==
    {file.rec.blocked}
    \cup (IF pc \in {"run", "write", "fail", "writeError"} THEN {prev.blocked} ELSE {})
    \cup (IF pc \in {"guard", "tell", "writeIds"} THEN {seen} ELSE {})

(* A record with status b would be a change.                               *)
Differs(known, b) == IF known \subseteq {b, "none"} THEN 0 ELSE 1

(* The changes that are still to be recorded if the feed stays as it is.   *)
Outstanding ==
    IF pc = "write"
    THEN Differs(Known, seen) + Differs({seen}, feed)
    ELSE Differs(Known, feed)

(* The strengthening of the bound on changes.                              *)
ChangesInv ==
    /\ changes + Outstanding <= faults + flips
    /\ pc \in {"write", "writeIds"} => temp.rec.blocked = seen
    /\ pc = "writeError" => temp.rec.blocked = prev.blocked

(* Whether one more record would be a change: a number, and monotonic.     *)
LEMMA DiffersFacts ==
    /\ \A K, b : Differs(K, b) \in {0, 1}
    /\ \A K, L, b : K \subseteq L \cup {"none"} => Differs(K, b) <= Differs(L, b)
    /\ \A b : Differs({b}, b) = 0
BY DEF Differs

(* A content that is no record names no status.                            *)
LEMMA NoStatus == FileInv /\ file.kind # "record" => file.rec.blocked = "none"
BY RecordsAssumption DEF FileInv, Plain, Other, EmptySnapshot

(* At the start nothing is recorded.                                       *)
LEMMA ChangesStart == Init => ChangesInv
<1> SUFFICES ASSUME Init PROVE ChangesInv
  OBVIOUS
<1>1. file.rec.blocked = "none"
  BY RecordsAssumption DEF Init, FileInit, Other, EmptySnapshot
<1>2. Outstanding = 0
  BY <1>1 DEF Init, Outstanding, Known, Differs
<1> QED BY <1>2 DEF Init, ChangesInv

(* Every step keeps the account.                                           *)
LEMMA ChangesStep ==
    TypeOK /\ FileInv /\ ChangesInv /\ [Next]_vars => ChangesInv'
<1> SUFFICES ASSUME TypeOK, FileInv, ChangesInv, [Next]_vars PROVE ChangesInv'
  OBVIOUS
<1> USE DEF ChangesInv
<1>1. /\ changes \in Nat /\ faults \in Nat /\ flips \in Nat
      /\ Outstanding \in 0 .. 2 /\ Outstanding' \in 0 .. 2
      /\ pc # "write" => Outstanding \in 0 .. 1
      /\ pc' # "write" => Outstanding' \in 0 .. 1
  BY DiffersFacts, BudgetAssumption DEF TypeOK, Outstanding
<1>2. CASE UNCHANGED vars
  BY <1>2 DEF vars, runVars, envVars, changeVars, fileVars, Outstanding, Known
<1>3. CASE Start
  BY <1>3, <1>1, DiffersFacts DEF Start, Goto, envVars, changeVars, fileVars, Outstanding, Known
<1>4. CASE Deliver
  BY <1>4, <1>1, DiffersFacts DEF Deliver, Fault, runVars, changeVars, fileVars, Outstanding, Known
<1>5. CASE StartupSent
  BY <1>5, <1>1, DiffersFacts DEF StartupSent, Goto, envVars, changeVars, fileVars, Outstanding, Known
<1>6. CASE Load
  BY <1>6, <1>1, DiffersFacts, NoStatus, RecordsAssumption
     DEF Load, LoadAs, Goto, fileVars, Outstanding, Known, EmptySnapshot
<1>7. CASE LoadFails
  BY <1>7, <1>1, DiffersFacts DEF LoadFails, Fault, LoadAs, Goto, fileVars, Outstanding, Known, EmptySnapshot
<1>8. CASE LoadMalformed
  BY <1>8, <1>1, DiffersFacts, NoStatus, RecordsAssumption
     DEF LoadMalformed, Quarantine, Fault, LoadAs, Goto, fileVars, Outstanding, Known, EmptySnapshot, Other
<1>9. CASE LoadUndecodable
  BY <1>9, <1>1, DiffersFacts DEF LoadUndecodable, Die, Leave, Goto, fileVars, Outstanding, Known
<1>10. CASE RunSucceeds
  BY <1>10, <1>1, DiffersFacts DEF RunSucceeds, BeginWrite, SuccessRecord, NoTemp, Goto, envVars, changeVars, Outstanding, Known
<1>11. CASE RunFails
  BY <1>11, <1>1, DiffersFacts DEF RunFails, Fault, Goto, changeVars, fileVars, Outstanding, Known
<1>12. CASE WriteStep
  BY <1>12, <1>1, DiffersFacts DEF WriteStep, OpenTemp, FillTemp, SyncTemp, FileInv, FileTypeOK, runVars, envVars, changeVars, Outstanding, Known
<1>13. CASE Record
  <2>1. /\ pc = "write" /\ pc' = "guard"
        /\ file'.rec = temp.rec /\ temp.rec.blocked = seen
        /\ UNCHANGED <<prev, seen, feed, faults, flips>>
    BY <1>13 DEF Record, Replace, Stored, Goto, envVars
  <2>2. changes' = changes + Differs(Known, seen)
    BY <1>13, <2>1, Zenon DEF Record, Known, Differs
  <2>3. Outstanding = Differs(Known, seen) + Differs({seen}, feed)
    BY <2>1 DEF Outstanding
  <2>4. Outstanding' = Differs({seen}, feed)
    BY <2>1 DEF Outstanding, Known, Differs
  <2> QED BY <1>1, <2>1, <2>2, <2>3, <2>4, DiffersFacts
<1>14. CASE RecordFails
  BY <1>14, <1>1, DiffersFacts DEF RecordFails, Fault, AbandonWrite, Goto, changeVars, Outstanding, Known
<1>15. CASE GuardRecorded
  BY <1>15, <1>1, DiffersFacts DEF GuardRecorded, Leave, Goto, envVars, changeVars, fileVars, Outstanding, Known
<1>16. CASE GuardFails
  BY <1>16, <1>1, DiffersFacts DEF GuardFails, Fault, Goto, fileVars, Outstanding, Known
<1>17. CASE Told
  BY <1>17, <1>1, DiffersFacts DEF Told, Leave, Goto, fileVars, envVars, Outstanding, Known
<1>18. CASE ToldWithIds
  BY <1>18, <1>1, DiffersFacts DEF ToldWithIds, BeginWrite, SuccessRecord, NoTemp, Goto, envVars, changeVars, Outstanding, Known
<1>19. CASE RecordIds
  BY <1>19, <1>1, DiffersFacts DEF RecordIds, Replace, Stored, Leave, Goto, envVars, Outstanding, Known
<1>20. CASE RecordIdsFails
  BY <1>20, <1>1, DiffersFacts DEF RecordIdsFails, Fault, AbandonWrite, Leave, Goto, Outstanding, Known
<1>21. CASE HandleError
  BY <1>21, <1>1, DiffersFacts DEF HandleError, BeginWrite, ErrorRecord, NoTemp, TypeOK, Snapshot, Goto, envVars, changeVars, Outstanding, Known
<1>22. CASE EndWithError
  BY <1>22, <1>1, DiffersFacts DEF EndWithError, Fault, AbandonWrite, Replace, Stored, Leave, Goto, changeVars, Outstanding, Known
<1>23. CASE Wake
  BY <1>23, <1>1, DiffersFacts DEF Wake, Goto, envVars, changeVars, fileVars, Outstanding, Known
<1>24. CASE Kill
  BY <1>24, <1>1, DiffersFacts DEF Kill, Die, Fault, AbandonWrite, Leave, Goto, Outstanding, Known
<1>25. CASE DeliveryEscapes
  BY <1>25, <1>1, DiffersFacts DEF DeliveryEscapes, Die, Fault, Leave, Goto, fileVars, Outstanding, Known
<1>26. CASE PowerLoss
  BY <1>26, <1>1, DiffersFacts DEF PowerLoss, Die, Fault, LoseUnsynced, Leave, Goto, Outstanding, Known
<1>27. CASE Flush
  BY <1>27, <1>1, DiffersFacts DEF Flush, FlushDirectory, runVars, envVars, changeVars, Outstanding, Known
<1>28. CASE DamageFile
  BY <1>28, <1>1, DiffersFacts, RecordsAssumption DEF DamageFile, Damage, Fault, Other, EmptySnapshot, runVars, Outstanding, Known
<1>29. CASE FeedFlips
  BY <1>29, <1>1, DiffersFacts DEF FeedFlips, runVars, changeVars, fileVars, Outstanding, Known
<1>30. CASE Tick
  BY <1>30, <1>1, DiffersFacts DEF Tick, runVars, changeVars, fileVars, Outstanding, Known
<1>31. CASE RefuseRun
  BY <1>31, <1>1, DiffersFacts DEF RefuseRun, Leave, Goto, envVars, changeVars, fileVars, Outstanding, Known
<1>32. CASE OperatorReconciles
  BY <1>32, <1>1, DiffersFacts, RecordsAssumption DEF OperatorReconciles, Remove, Other, EmptySnapshot, runVars, envVars, Outstanding, Known
<1> QED
  BY <1>2, <1>3, <1>4, <1>5, <1>6, <1>7, <1>8, <1>9, <1>10, <1>11, <1>12, <1>13, <1>14,
     <1>15, <1>16, <1>17, <1>18, <1>19, <1>20, <1>21, <1>22, <1>23, <1>24, <1>25, <1>26,
     <1>27, <1>28, <1>29, <1>30, <1>31, <1>32
  DEF Next, Progress, Environment

-----------------------------------------------------------------------------
(* Types *)

(* The steps of a delivery keep the notifier typed.                        *)
LEMMA DeliveryTypes ==
    ASSUME NotifierTypeOK, NEW m \in Nat,
           \/ BeginSend \/ (EndSend /\ UNCHANGED seenVars)
           \/ PostAccepted(m) \/ PostFails(m) \/ PostAnswerCut(m)
    PROVE  NotifierTypeOK'
<1> USE RetriesAssumption, OrderAssumption DEF NotifierTypeOK, seenVars, Done
<1>1. CASE BeginSend
  BY <1>1 DEF BeginSend
<1>2. NoIds \in [Providers -> Nat]
  BY DEF NoIds
<1>3. CASE EndSend /\ UNCHANGED seenVars
  BY <1>2, <1>3 DEF EndSend
<1>4. ASSUME Posting PROVE Current \in Providers
  BY <1>4 DEF Posting, Current, Providers
<1>5. ASSUME Posting PROVE \A f \in [Providers -> Nat] : Count(f, m) \in [Providers -> Nat]
  BY <1>4, <1>5 DEF Count
<1>6. CASE PostAccepted(m)
  <2>1. turn' \in 0 .. Done /\ attempt' \in 1 .. Retries /\ failures' \subseteq Providers
    BY <1>6 DEF PostAccepted, NextProvider, Posting
  <2>2. told' \in [Providers -> Nat] /\ tried' \in [Providers -> Nat]
    BY <1>5, <1>6 DEF PostAccepted, Tried
  <2>3. fresh' \in [Providers -> Nat] /\ given' \in [Providers -> Nat]
    BY <1>4, <1>6 DEF PostAccepted
  <2> QED BY <2>1, <2>2, <2>3
<1>7. CASE PostFails(m)
  <2>1. turn' \in 0 .. Done /\ attempt' \in 1 .. Retries /\ failures' \subseteq Providers
    BY <1>4, <1>7 DEF PostFails, RetryOrFail, ProviderFails, NextProvider, Posting
  <2>2. tried' \in [Providers -> Nat]
    BY <1>5, <1>7 DEF PostFails, Tried
  <2> QED BY <1>7, <2>1, <2>2 DEF PostFails
<1>8. CASE PostAnswerCut(m)
  <2>1. told' \in [Providers -> Nat] /\ tried' \in [Providers -> Nat]
    BY <1>5, <1>8 DEF PostAnswerCut, Tried
  <2> QED BY <1>2, <1>8, <2>1 DEF PostAnswerCut, EndSend
<1> QED BY <1>1, <1>3, <1>6, <1>7, <1>8

(* Every step is one of the notifier, or none.                             *)
LEMMA StepsOfNotifier ==
    ASSUME TypeOK, [Next]_vars
    PROVE  /\ Message \in Nat
           /\ \/ UNCHANGED notifierVars
              \/ BeginSend \/ (EndSend /\ UNCHANGED seenVars)
              \/ PostAccepted(Message) \/ PostFails(Message) \/ PostAnswerCut(Message)
<1>1. Message \in Nat
  BY BudgetAssumption DEF TypeOK, Message
<1>2. CASE Start \/ Deliver \/ StartupSent \/ Load \/ LoadFails \/ LoadMalformed
  BY <1>1, <1>2 DEF Start, Deliver, StartupSent, Load, LoadFails, LoadMalformed, LoadAs
<1>3. CASE LoadUndecodable \/ RunSucceeds \/ RunFails \/ WriteStep \/ Record \/ RecordFails
  BY <1>1, <1>3 DEF LoadUndecodable, RunSucceeds, RunFails, WriteStep, Record, RecordFails
<1>4. CASE GuardRecorded \/ GuardFails \/ Told \/ ToldWithIds \/ RecordIds \/ RecordIdsFails
  BY <1>1, <1>4 DEF GuardRecorded, GuardFails, Told, ToldWithIds, RecordIds, RecordIdsFails
<1>5. CASE HandleError \/ EndWithError \/ Wake \/ Kill \/ DeliveryEscapes \/ PowerLoss
  BY <1>1, <1>5 DEF HandleError, EndWithError, Wake, Kill, DeliveryEscapes, PowerLoss
<1>6. CASE Flush \/ DamageFile \/ FeedFlips \/ Tick \/ UNCHANGED vars
  BY <1>1, <1>6 DEF Flush, DamageFile, FeedFlips, Tick, vars
<1>7. CASE RefuseRun \/ OperatorReconciles
  BY <1>1, <1>7 DEF RefuseRun, OperatorReconciles
<1> QED
  BY <1>1, <1>2, <1>3, <1>4, <1>5, <1>6, <1>7 DEF Next, Progress, Environment

(* The counters of the environment only grow, up to their bounds.          *)
LEMMA Counters ==
    TypeOK /\ [Next]_vars =>
        /\ faults' \in 0 .. MaxFaults /\ flips' \in 0 .. MaxFlips /\ now' \in 0 .. MaxNow
        /\ changes' \in Nat /\ changes' >= changes
<1> SUFFICES ASSUME TypeOK, [Next]_vars
             PROVE  /\ faults' \in 0 .. MaxFaults /\ flips' \in 0 .. MaxFlips
                    /\ now' \in 0 .. MaxNow
                    /\ changes' \in Nat /\ changes' >= changes
  OBVIOUS
<1> USE BudgetAssumption, ClockAssumption DEF TypeOK, envVars, changeVars
<1>1. CASE Start \/ Deliver \/ StartupSent \/ Load \/ LoadFails \/ LoadMalformed
  BY <1>1 DEF Start, Deliver, StartupSent, Load, LoadFails, LoadMalformed, LoadAs, Fault
<1>2. CASE LoadUndecodable \/ RunSucceeds \/ RunFails \/ WriteStep \/ RecordFails
  BY <1>2 DEF LoadUndecodable, Die, RunSucceeds, RunFails, WriteStep, RecordFails, Fault
<1>3. CASE Record
  BY <1>3 DEF Record
<1>4. CASE GuardRecorded \/ GuardFails \/ Told \/ ToldWithIds \/ RecordIds \/ RecordIdsFails
  BY <1>4 DEF GuardRecorded, GuardFails, Told, ToldWithIds, RecordIds, RecordIdsFails, Fault
<1>5. CASE HandleError \/ EndWithError \/ Wake
  BY <1>5 DEF HandleError, EndWithError, Wake, Fault
<1>6. CASE Kill \/ DeliveryEscapes \/ PowerLoss
  BY <1>6 DEF Kill, DeliveryEscapes, PowerLoss, Die, Fault
<1>7. CASE Flush \/ DamageFile \/ FeedFlips \/ Tick \/ UNCHANGED vars
  BY <1>7 DEF Flush, DamageFile, FeedFlips, Tick, vars, Fault
<1>8. CASE RefuseRun \/ OperatorReconciles
  BY <1>8 DEF RefuseRun, OperatorReconciles
<1> QED
  BY <1>1, <1>2, <1>3, <1>4, <1>5, <1>6, <1>7, <1>8 DEF Next, Progress, Environment

(* Every step keeps the ids behind the number of changes.                  *)
LEMMA FreshStep == TypeOK /\ FreshInv /\ [Next]_vars => FreshInv'
<1> SUFFICES ASSUME TypeOK, FreshInv, [Next]_vars PROVE FreshInv'
  OBVIOUS
<1> USE DEF FreshInv
<1>1. changes \in Nat /\ changes' \in Nat /\ changes' >= changes
  BY Counters, BudgetAssumption DEF TypeOK
<1>2. fresh \in [Providers -> Nat]
  BY DEF TypeOK, NotifierTypeOK
<1>3. CASE fresh' = fresh \/ fresh' = NoIds
  BY <1>1, <1>2, <1>3 DEF NoIds
<1>4. CASE fresh' = [fresh EXCEPT ![Current] = Message]
  BY <1>1, <1>2, <1>4 DEF Message
<1> QED
  BY <1>3, <1>4, StepsOfNotifier
  DEF BeginSend, EndSend, PostAccepted, PostFails, PostAnswerCut, notifierVars, sendVars

(* What TypeOK says of the run and of the environment.                     *)
RunTypeOK ==
    /\ pc \in Steps \cup {"off"}
    /\ prev \in Snapshot /\ seen \in Label /\ raised \in Errors
    /\ feed \in Label /\ okAt \in 0 .. MaxNow
    /\ dropped \subseteq Providers
    /\ gap \in BOOLEAN /\ failing \in BOOLEAN /\ hidden \in BOOLEAN

(* A process that dies leaves it typed.                                    *)
LEMMA DieTypes ==
    ASSUME TypeOK, Die, HidesFailure \/ hidden' = TRUE
    PROVE  RunTypeOK'
<1>1. gap' \in BOOLEAN /\ failing' \in BOOLEAN /\ hidden' \in BOOLEAN
  BY Zenon DEF TypeOK, Die, HidesFailure
<1>2. /\ pc' = "off" /\ prev' = EmptySnapshot /\ seen' = "INACTIVE" /\ raised' = "passing"
      /\ UNCHANGED <<feed, dropped, okAt>>
  BY DEF Die, Leave, Goto
<1> QED BY <1>1, <1>2, RecordTypes DEF TypeOK, RunTypeOK, Label, Errors

(* Every step keeps it: one case per action.                               *)
LEMMA RunTypes == TypeOK /\ [Next]_vars => RunTypeOK'
<1> SUFFICES ASSUME TypeOK, [Next]_vars PROVE RunTypeOK'
  OBVIOUS
<1> USE RecordTypes, RecordsAssumption, ClockAssumption
    DEF TypeOK, RunTypeOK, Steps, Label, Errors, runVars, envVars, changeVars, healthVars
<1>1. CASE UNCHANGED vars
  BY <1>1 DEF vars
<1>2. CASE Start
  BY <1>2 DEF Start, Goto
<1>3. CASE Deliver
  BY <1>3 DEF Deliver
<1>4. CASE StartupSent
  BY <1>4 DEF StartupSent, Goto
<1>5. CASE Load
  BY <1>5 DEF Load, LoadAs, Goto, FileTypeOK, Content
<1>6. CASE LoadFails
  BY <1>6 DEF LoadFails, LoadAs, Goto
<1>7. CASE LoadMalformed
  BY <1>7 DEF LoadMalformed, LoadAs, Goto
<1>8. CASE LoadUndecodable
  BY <1>8, DieTypes DEF LoadUndecodable
<1>9. CASE RunSucceeds
  BY <1>9 DEF RunSucceeds, Goto
<1>10. CASE RunFails
  BY <1>10 DEF RunFails, Goto
<1>11. CASE WriteStep
  BY <1>11 DEF WriteStep
<1>12. CASE Record
  BY <1>12 DEF Record, Goto
<1>13. CASE RecordFails
  BY <1>13 DEF RecordFails, Goto
<1>14. CASE GuardRecorded
  BY <1>14 DEF GuardRecorded, Leave, Goto
<1>15. CASE GuardFails
  BY <1>15 DEF GuardFails, Goto
<1>16. CASE Told
  BY <1>16 DEF Told, Leave, Goto, WithId
<1>17. CASE ToldWithIds
  BY <1>17 DEF ToldWithIds, Goto
<1>18. CASE RecordIds
  BY <1>18 DEF RecordIds, Leave, Goto
<1>19. CASE RecordIdsFails
  BY <1>19 DEF RecordIdsFails, Leave, Goto, WithId
<1>20. CASE HandleError
  BY <1>20 DEF HandleError, Goto
<1>21. CASE EndWithError
  BY <1>21 DEF EndWithError, Leave, Goto
<1>22. CASE Wake
  BY <1>22 DEF Wake, Goto
<1>23. CASE Kill
  BY <1>23, DieTypes DEF Kill
<1>24. CASE DeliveryEscapes
  BY <1>24, DieTypes DEF DeliveryEscapes
<1>25. CASE PowerLoss
  BY <1>25, DieTypes DEF PowerLoss
<1>26. CASE Flush
  BY <1>26 DEF Flush
<1>27. CASE DamageFile
  BY <1>27 DEF DamageFile
<1>28. CASE FeedFlips
  BY <1>28 DEF FeedFlips
<1>29. CASE Tick
  BY <1>29 DEF Tick
<1>30. CASE RefuseRun
  BY <1>30 DEF RefuseRun, Leave, Goto
<1>31. CASE OperatorReconciles
  BY <1>31 DEF OperatorReconciles
<1> QED
  BY <1>1, <1>2, <1>3, <1>4, <1>5, <1>6, <1>7, <1>8, <1>9, <1>10, <1>11, <1>12, <1>13, <1>14,
     <1>15, <1>16, <1>17, <1>18, <1>19, <1>20, <1>21, <1>22, <1>23, <1>24, <1>25, <1>26,
     <1>27, <1>28, <1>29, <1>30, <1>31
  DEF Next, Progress, Environment

(* At the start every variable has its type.                               *)
LEMMA TypeStart == Init => TypeOK /\ FreshInv /\ FileInv
<1> SUFFICES ASSUME Init PROVE TypeOK /\ FreshInv /\ FileInv
  OBVIOUS
<1>1. FileInv /\ FileTypeOK
  BY FileStart DEF Init, FileInv
<1>2. NotifierTypeOK /\ FreshInv
  BY RetriesAssumption, OrderAssumption
     DEF Init, NotifierInit, NotifierTypeOK, NoIds, Done, FreshInv
<1>3. RunTypeOK
  <2>1. /\ pc = "off" /\ prev = EmptySnapshot /\ seen = "INACTIVE" /\ raised = "passing"
        /\ feed = "INACTIVE" /\ okAt = 0 /\ dropped = {}
        /\ gap = FALSE /\ failing = FALSE /\ hidden = FALSE
    BY DEF Init
  <2>2. seen \in Label /\ feed \in Label /\ okAt \in 0 .. MaxNow
    BY <2>1, ClockAssumption DEF Label
  <2> QED BY <2>1, <2>2, RecordTypes DEF RunTypeOK, Errors
<1>4. /\ now \in 0 .. MaxNow /\ faults \in 0 .. MaxFaults /\ flips \in 0 .. MaxFlips
      /\ changes \in 0 .. MaxFaults + MaxFlips
  BY ClockAssumption, BudgetAssumption DEF Init
<1> QED BY <1>1, <1>2, <1>3, <1>4 DEF TypeOK, RunTypeOK

(* The strengthening of TypeOK: an id is the number of an announcement,    *)
(* and so has the bound of the changes.                                    *)
TypeInv == TypeOK /\ FileInv /\ FreshInv /\ ChangesInv

(* Every step keeps every type.                                            *)
LEMMA TypeStep == TypeInv /\ [Next]_vars => TypeInv'
<1> SUFFICES ASSUME TypeInv, [Next]_vars PROVE TypeInv'
  OBVIOUS
<1> USE DEF TypeInv
<1>1. FileInv' /\ FreshInv' /\ ChangesInv'
  BY StepsOfFile, FileInvStep, FreshStep, ChangesStep
<1>2. NotifierTypeOK'
  <2>1. NotifierTypeOK
    BY DEF TypeOK
  <2>2. CASE UNCHANGED notifierVars
    BY <2>1, <2>2 DEF NotifierTypeOK, notifierVars, sendVars, seenVars
  <2> QED BY <2>1, <2>2, StepsOfNotifier, DeliveryTypes
<1>3. changes' \in 0 .. MaxFaults + MaxFlips
  <2>1. Outstanding' \in Nat
    BY DiffersFacts DEF Outstanding
  <2> QED BY <1>1, <2>1, Counters, BudgetAssumption DEF ChangesInv
<1> QED
  BY <1>1, <1>2, <1>3, RunTypes, Counters DEF TypeOK, RunTypeOK, FileInv

(* The strengthening of the type invariant holds always.                   *)
LEMMA TypeAlways == Spec => []TypeInv
<1>1. Init => TypeInv
  BY TypeStart, ChangesStart DEF TypeInv
<1> QED BY <1>1, TypeStep, PTL DEF Spec

(* Every variable keeps its type; in particular the ids of messages and    *)
(* the number of changes keep their bound, whatever is lost and sent again.*)
THEOREM TypeCorrect == Spec => []TypeOK
<1>1. TypeInv => TypeOK
  BY DEF TypeInv
<1> QED BY <1>1, TypeAlways, PTL

-----------------------------------------------------------------------------
(* The refinement *)

(* StateStore.write is atomic: under Report a reader finds what Register   *)
(* allows, whatever is killed, fails or loses power between the system     *)
(* calls of a write.                                                       *)
THEOREM WritesAreAtomic == Spec => WriteIsAtomic
<1>1. Init => AtomicRegister!Init
  BY RegisterStart DEF Init
<1>2. TypeInv /\ [Next]_vars => [AtomicRegister!Next]_(AtomicRegister!vars)
  BY StepsOfFile, RegisterStep DEF TypeInv
<1> QED BY <1>1, <1>2, TypeAlways, PTL DEF Spec, WriteIsAtomic, AtomicRegister!Spec

-----------------------------------------------------------------------------
(* The health check *)

(* The strengthening of HealthyIsTrue.  No record anywhere, nor the one    *)
(* that the run goes by, is dated after the last success; a run that has   *)
(* succeeded is the last one; a failure is hidden from the file, or is in  *)
(* it, if only as the flag for which the run was refused.                  *)
HealthInv ==
    /\ okAt <= now
    /\ file.rec.at <= okAt /\ disk.rec.at <= okAt /\ temp.rec.at <= okAt /\ prev.at <= okAt
    /\ pc \in {"write", "guard", "tell", "writeIds"} => okAt = now /\ failing = FALSE
    /\ pc = "writeError" => temp.rec.status = "error"
    /\ file.rec.status = "success" /\ ~file.rec.reconcile /\ failing = TRUE => hidden = TRUE

(* The dates that the types leave to compare.                              *)
LEMMA Dates ==
    /\ EmptySnapshot.at = 0 /\ EmptySnapshot.status = "none" /\ NoRecord = EmptySnapshot
    /\ \A k : Other(k).rec = EmptySnapshot
    /\ TypeInv => /\ now \in Nat /\ okAt \in Nat
                  /\ \A r \in Snapshot : r.at \in Nat
                  /\ {file.rec, disk.rec, temp.rec, prev} \subseteq Snapshot
<1>1. EmptySnapshot.at = 0 /\ EmptySnapshot.status = "none" /\ NoRecord = EmptySnapshot
  BY RecordsAssumption DEF EmptySnapshot
<1> QED
  BY <1>1, ClockAssumption, RecordsAssumption
  DEF Other, TypeInv, TypeOK, FileTypeOK, Content, Snapshot

(* A death adds to what is hidden the failure that it interrupts.          *)
LEMMA DieHealth ==
    ASSUME TypeInv, HealthInv, Die, HidesFailure \/ hidden' = TRUE,
           disk' = disk, temp' \in {temp, NoTemp},
           file' = file \/ (file' = disk /\ hidden' = TRUE)
    PROVE  HealthInv'
<1>1. pc' = "off" /\ prev' = EmptySnapshot /\ UNCHANGED <<now, okAt>>
  BY DEF Die, Leave, Goto
<1>2. (failing = TRUE => hidden = TRUE) => (failing' = TRUE => hidden' = TRUE)
  BY Zenon DEF TypeInv, TypeOK, Die, HidesFailure
<1>3. file'.rec.status = "success" /\ ~file'.rec.reconcile /\ failing' = TRUE =>
          hidden' = TRUE
  BY <1>2 DEF HealthInv
<1>4. file'.rec.at <= okAt /\ temp'.rec.at <= okAt /\ disk'.rec.at <= okAt
  BY Dates DEF HealthInv, NoTemp
<1> QED BY <1>1, <1>3, <1>4, Dates DEF HealthInv

(* Every step keeps HealthInv: one case per action.                        *)
LEMMA HealthStep == TypeInv /\ HealthInv /\ [Next]_vars => HealthInv'
<1> SUFFICES ASSUME TypeInv, HealthInv, [Next]_vars PROVE HealthInv'
  OBVIOUS
<1> USE Dates DEF HealthInv, fileVars, runVars, envVars, changeVars, healthVars
<1>1. CASE UNCHANGED vars
  BY <1>1 DEF vars
<1>2. CASE Start
  BY <1>2 DEF Start, Goto
<1>3. CASE Deliver
  BY <1>3 DEF Deliver
<1>4. CASE StartupSent
  BY <1>4 DEF StartupSent, Goto
<1>5. CASE Load
  BY <1>5 DEF Load, LoadAs, Goto
<1>6. CASE LoadFails
  BY <1>6 DEF LoadFails, LoadAs, Goto
<1>7. CASE LoadMalformed
  BY <1>7 DEF LoadMalformed, LoadAs, Goto, Quarantine
<1>8. CASE LoadUndecodable
  BY <1>8, DieHealth DEF LoadUndecodable, fileVars
<1>9. CASE RunSucceeds
  BY <1>9 DEF RunSucceeds, Goto, BeginWrite, SuccessRecord, NoTemp
<1>10. CASE RunFails
  BY <1>10 DEF RunFails, Goto
<1>11. CASE WriteStep
  BY <1>11 DEF WriteStep, OpenTemp, FillTemp, SyncTemp, TypeInv, TypeOK, FileTypeOK
<1>12. CASE Record
  BY <1>12 DEF Record, Goto, Replace, Stored, NoTemp
<1>13. CASE RecordFails
  BY <1>13 DEF RecordFails, Goto, AbandonWrite, NoTemp
<1>14. CASE GuardRecorded
  BY <1>14 DEF GuardRecorded, Leave, Goto
<1>15. CASE GuardFails
  BY <1>15 DEF GuardFails, Goto
<1>16. CASE Told
  BY <1>16 DEF Told, Leave, Goto
<1>17. CASE ToldWithIds
  BY <1>17 DEF ToldWithIds, Goto, BeginWrite, SuccessRecord, NoTemp
<1>18. CASE RecordIds
  BY <1>18 DEF RecordIds, Leave, Goto, Replace, Stored, NoTemp
<1>19. CASE RecordIdsFails
  BY <1>19 DEF RecordIdsFails, Leave, Goto, AbandonWrite, NoTemp
<1>20. CASE HandleError
  BY <1>20 DEF HandleError, Goto, BeginWrite, ErrorRecord, NoTemp, Snapshot
<1>21. CASE EndWithError
  BY <1>21 DEF EndWithError, Leave, Goto, Replace, Stored, AbandonWrite, NoTemp
<1>22. CASE Wake
  BY <1>22 DEF Wake, Goto
<1>23. CASE Kill
  BY <1>23, DieHealth DEF Kill, AbandonWrite
<1>24. CASE DeliveryEscapes
  BY <1>24, DieHealth DEF DeliveryEscapes, fileVars
<1>25. CASE PowerLoss
  BY <1>25, DieHealth DEF PowerLoss, LoseUnsynced
<1>26. CASE Flush
  BY <1>26 DEF Flush, FlushDirectory
<1>27. CASE DamageFile
  BY <1>27 DEF DamageFile, Damage
<1>28. CASE FeedFlips
  BY <1>28 DEF FeedFlips
<1>29. CASE Tick
  BY <1>29 DEF Tick
<1>30. CASE RefuseRun
  BY <1>30 DEF RefuseRun, Flagged, Leave, Goto
<1>31. CASE OperatorReconciles
  BY <1>31 DEF OperatorReconciles, Remove
<1> QED
  BY <1>1, <1>2, <1>3, <1>4, <1>5, <1>6, <1>7, <1>8, <1>9, <1>10, <1>11, <1>12, <1>13,
     <1>14, <1>15, <1>16, <1>17, <1>18, <1>19, <1>20, <1>21, <1>22, <1>23, <1>24, <1>25,
     <1>26, <1>27, <1>28, <1>29, <1>30, <1>31
  DEF Next, Progress, Environment

(* An answer "healthy" is true: a run succeeded within the age allowed, and *)
(* no later one failed unnoticed by the file, whatever was killed, damaged *)
(* or lost between.                                                        *)
THEOREM HealthyAnswerIsTrue == Spec => []HealthyIsTrue
<1>1. Init => HealthInv
  <2> SUFFICES ASSUME Init PROVE HealthInv
    OBVIOUS
  <2>1. /\ pc = "off" /\ prev = EmptySnapshot /\ now = 0 /\ okAt = 0 /\ failing = FALSE
        /\ file.rec = EmptySnapshot /\ disk.rec = EmptySnapshot /\ temp.rec = EmptySnapshot
    BY RecordsAssumption DEF Init, FileInit, Other, NoTemp
  <2> QED BY <2>1 DEF HealthInv, EmptySnapshot
<1>2. TypeInv /\ HealthInv => HealthyIsTrue
  <2> SUFFICES ASSUME TypeInv, HealthInv, Healthy
               PROVE  now - okAt <= MaxAge /\ (failing => hidden)
    BY DEF HealthyIsTrue
  <2>1. now \in Nat /\ okAt \in Nat /\ file.rec.at \in Nat /\ MaxAge \in Nat
    BY ClockAssumption, RecordsAssumption DEF TypeInv, TypeOK, FileTypeOK, Content, Snapshot
  <2>2. now - okAt <= MaxAge
    BY <2>1 DEF HealthInv, Healthy
  <2>3. failing => hidden
    BY Zenon DEF TypeInv, TypeOK, HealthInv, Healthy, Flagged
  <2> QED BY <2>2, <2>3
<1> QED BY <1>1, <1>2, HealthStep, TypeAlways, PTL DEF Spec

-----------------------------------------------------------------------------
(* Copies *)

(* The strengthening of NoNeedlessCopy: while an announcement is due, no   *)
(* provider that is still to get it has accepted as many as there were     *)
(* changes.                                                                *)
CopiesInv ==
    /\ \A p \in Providers : told[p] <= changes
    /\ pc = "guard" /\ StatusChanged => \A p \in Providers : told[p] < changes
    /\ pc = "tell" => \A i \in 1 .. Len(Order) : i >= turn => told[Order[i]] < changes

(* One more copy for the provider whose turn it is keeps the count.        *)
LEMMA CountedCopy ==
    ASSUME TypeOK, CopiesInv, pc \in {"startup", "tell"}, Posting, told' = Count(told, Message)
    PROVE  /\ \A p \in Providers : told'[p] <= changes
           /\ pc = "tell" => \A i \in 1 .. Len(Order) :
                                 i > turn => told'[Order[i]] = told[Order[i]]
<1>1. Current \in Providers /\ turn \in 1 .. Len(Order)
  BY DEF Posting, Current, Providers
<1>2. told \in [Providers -> Nat] /\ changes \in Nat
  BY BudgetAssumption DEF TypeOK, NotifierTypeOK
<1>3. CASE pc = "startup"
  BY <1>3 DEF Message, Count, CopiesInv
<1>4. CASE pc = "tell"
  <2>1. told[Current] < changes
    BY <1>1, <1>4, OrderAssumption DEF CopiesInv, Current
  <2>2. told' = [told EXCEPT ![Current] = @ + 1]
    BY <1>1, <1>2, <1>4, <2>1 DEF Message, Count
  <2>3. \A p \in Providers : told'[p] <= changes
    BY <1>1, <1>2, <2>1, <2>2 DEF CopiesInv
  <2>4. \A i \in 1 .. Len(Order) : i > turn => Order[i] \in Providers /\ Order[i] # Current
    BY <1>1, OrderAssumption DEF Current, Providers
  <2> QED BY <1>2, <2>2, <2>3, <2>4
<1> QED BY <1>3, <1>4

(* Every step keeps CopiesInv: the actions of the delivery one by one, the *)
(* others by what they leave alone.                                        *)
LEMMA CopiesStep == TypeInv /\ CopiesInv /\ [Next]_vars => CopiesInv'
<1> SUFFICES ASSUME TypeInv, CopiesInv, [Next]_vars PROVE CopiesInv'
  OBVIOUS
<1>1. /\ TypeOK /\ told \in [Providers -> Nat] /\ changes \in Nat
      /\ turn \in 0 .. Done /\ Len(Order) \in Nat
      /\ \A i \in 1 .. Len(Order) : Order[i] \in Providers
  BY BudgetAssumption, OrderAssumption DEF TypeInv, TypeOK, NotifierTypeOK, Providers
<1>2. ASSUME UNCHANGED <<told, changes>>,
             \/ pc' \notin {"guard", "tell"}
             \/ UNCHANGED <<pc, prev, seen>> /\ turn' >= turn /\ turn' \in Nat
      PROVE  CopiesInv'
  BY <1>1, <1>2 DEF CopiesInv, StatusChanged, Done
<1> USE DEF fileVars, notifierVars, sendVars, seenVars, runVars, envVars, changeVars, healthVars
<1>3. CASE UNCHANGED vars
  BY <1>1, <1>2, <1>3 DEF vars, Done
<1>4. CASE Start \/ StartupSent \/ Load \/ LoadFails \/ LoadMalformed
  BY <1>1, <1>2, <1>4 DEF Start, BeginSend, StartupSent, Load, LoadFails, LoadMalformed, LoadAs, Goto
<1>5. CASE Deliver
  <2>1. CASE PostAccepted(Message)
    <3>1. pc \in {"startup", "tell"} /\ Posting /\ told' = Count(told, Message)
          /\ turn' = turn + 1 /\ UNCHANGED <<changes, pc, prev, seen>>
      BY <1>5, <2>1 DEF Deliver, PostAccepted, NextProvider
    <3>2. turn' > turn /\ turn' \in Nat
      BY <1>1, <3>1 DEF Done
    <3>3. \A p \in Providers : told'[p] <= changes
      BY <1>1, <3>1, CountedCopy
    <3>4. ASSUME pc = "tell", NEW i \in 1 .. Len(Order), i >= turn'
          PROVE  told'[Order[i]] < changes'
      <4>1. i > turn /\ i >= turn
        BY <1>1, <3>1, <3>4 DEF Done
      <4>2. told'[Order[i]] = told[Order[i]]
        BY <1>1, <3>1, <3>4, <4>1, CountedCopy
      <4> QED BY <3>1, <3>4, <4>1, <4>2 DEF CopiesInv
    <3> QED BY <3>1, <3>3, <3>4 DEF CopiesInv
  <2>2. CASE PostFails(Message)
    <3>1. UNCHANGED <<told, changes, pc, prev, seen>>
      BY <1>5, <2>2 DEF Deliver, PostFails
    <3>2. turn' = turn \/ turn' = turn + 1
      BY <2>2 DEF PostFails, RetryOrFail, ProviderFails, NextProvider
    <3>3. turn' >= turn /\ turn' \in Nat
      BY <1>1, <3>2 DEF Done
    <3> QED BY <1>2, <3>1, <3>3
  <2> QED BY <1>5, <2>1, <2>2 DEF Deliver
<1>6. CASE RefuseRun \/ LoadUndecodable \/ Kill \/ PowerLoss
  BY <1>2, <1>6 DEF RefuseRun, LoadUndecodable, Kill, PowerLoss, Die, Leave, Goto
<1>7. CASE RunSucceeds \/ RunFails \/ RecordFails \/ GuardFails \/ Told \/ ToldWithIds
  BY <1>2, <1>7 DEF RunSucceeds, RunFails, RecordFails, GuardFails, Told, ToldWithIds, Leave, Goto
<1>8. CASE RecordIds \/ RecordIdsFails \/ HandleError \/ EndWithError \/ Wake
  BY <1>2, <1>8 DEF RecordIds, RecordIdsFails, HandleError, EndWithError, Wake, Leave, Goto
<1>9. CASE WriteStep \/ Flush \/ DamageFile \/ OperatorReconciles \/ FeedFlips \/ Tick
  BY <1>1, <1>2, <1>9 DEF WriteStep, Flush, DamageFile, OperatorReconciles, FeedFlips, Tick, Done
<1>10. CASE Record
  <2>1. /\ pc' = "guard" /\ UNCHANGED <<told, prev, seen>>
        /\ changes' = changes + Differs({prev.blocked} \cup {file.rec.blocked}, seen)
    BY <1>10, Zenon DEF Record, Goto, Differs
  <2>2. StatusChanged => changes' = changes + 1
    BY <2>1 DEF StatusChanged, Label, Differs
  <2>3. StatusChanged' = StatusChanged
    BY <2>1 DEF StatusChanged
  <2>4. changes' \in Nat /\ changes' >= changes
    BY <1>1, Counters
  <2>5. \A p \in Providers : told'[p] \in Nat /\ told'[p] <= changes
    BY <1>1, <2>1 DEF CopiesInv
  <2>6. \A p \in Providers : told'[p] <= changes'
    BY <1>1, <2>4, <2>5
  <2>7. ASSUME StatusChanged' PROVE \A p \in Providers : told'[p] < changes'
    BY <1>1, <2>2, <2>3, <2>5, <2>7
  <2> QED BY <2>1, <2>6, <2>7 DEF CopiesInv
<1>11. CASE GuardRecorded
  <2>1. CASE ~StatusChanged
    BY <1>2, <1>11, <2>1 DEF GuardRecorded, Leave, Goto
  <2>2. CASE StatusChanged
    BY <1>1, <1>11, <2>2 DEF GuardRecorded, Leave, Goto, BeginSend, CopiesInv
  <2> QED BY <2>1, <2>2
<1>12. CASE DeliveryEscapes
  <2>1. pc \in {"startup", "tell"} /\ Posting /\ told' = Count(told, Message)
        /\ pc' = "off" /\ changes' = changes
    BY <1>12 DEF DeliveryEscapes, PostAnswerCut, Die, Leave, Goto
  <2> QED BY <1>1, <2>1, CountedCopy DEF CopiesInv
<1> QED
  BY <1>3, <1>4, <1>5, <1>6, <1>7, <1>8, <1>9, <1>10, <1>11, <1>12
  DEF Next, Progress, Environment

(* However often a delivery is repeated, interrupted or started again, no  *)
(* provider accepts a copy of an announcement that it has accepted, but    *)
(* for one whose answer was lost.                                          *)
THEOREM NoCopyIsNeedless == Spec => []NoNeedlessCopy
<1>1. Init => CopiesInv
  BY DEF Init, NotifierInit, NoIds, CopiesInv
<1>2. CopiesInv => NoNeedlessCopy
  BY DEF CopiesInv, NoNeedlessCopy
<1> QED BY <1>1, <1>2, CopiesStep, TypeAlways, PTL DEF Spec

-----------------------------------------------------------------------------
(* No provider is passed over *)

(* The delivery has posted to the provider in place i.                     *)
Reached(i) == i < turn \/ (i = turn /\ attempt > 1)

(* The strengthening of EveryProviderTried: between changes each provider  *)
(* has been posted as many announcements as there were; while one is due,  *)
(* one less, until its turn.  That the next change is noticed rests on the *)
(* run knowing the status that the file holds.                             *)
TriedInv ==
    /\ turn = 0 => attempt = 1
    /\ gap = FALSE =>
        /\ pc \notin {"guard", "tell"} => \A p \in Providers : tried[p] = changes
        /\ pc = "guard" => \A p \in Providers :
                              tried[p] + (IF StatusChanged THEN 1 ELSE 0) = changes
        /\ pc = "tell" => \A i \in 1 .. Len(Order) :
                             tried[Order[i]] + (IF Reached(i) THEN 0 ELSE 1) = changes
        /\ pc \in {"run", "write", "fail", "writeError"} => prev.blocked = file.rec.blocked
        /\ file.kind \in {"missing", "record"}

(* A POST of an announcement is counted once, at the first attempt.        *)
LEMMA CountedPost ==
    ASSUME TypeOK, TriedInv, gap = FALSE, pc = "tell", Posting, Tried(Message)
    PROVE  \A i \in 1 .. Len(Order) : tried'[Order[i]] + (IF i <= turn THEN 0 ELSE 1) = changes
<1>1. /\ turn \in 1 .. Len(Order) /\ attempt \in Nat /\ attempt >= 1 /\ Len(Order) \in Nat
      /\ tried \in [Providers -> Nat] /\ changes \in Nat
      /\ \A i \in 1 .. Len(Order) : Order[i] \in Providers
  BY BudgetAssumption, RetriesAssumption, OrderAssumption
     DEF TypeOK, NotifierTypeOK, Posting, Providers
<1>2. \A i \in 1 .. Len(Order) : tried[Order[i]] + (IF Reached(i) THEN 0 ELSE 1) = changes
  BY DEF TriedInv
<1>3. CASE attempt > 1
  <2>1. tried' = tried
    BY <1>1, <1>3 DEF Tried
  <2>2. \A i \in 1 .. Len(Order) : Reached(i) <=> i <= turn
    BY <1>1, <1>3 DEF Reached
  <2> QED BY <1>2, <2>1, <2>2
<1>4. CASE attempt = 1
  <2>1. \A i \in 1 .. Len(Order) : Reached(i) <=> i < turn
    BY <1>1, <1>4 DEF Reached
  <2>2. tried[Order[turn]] + 1 = changes
    BY <1>1, <1>2, <2>1
  <2>3. tried' = [tried EXCEPT ![Order[turn]] = @ + 1]
    BY <1>1, <1>4, <2>2 DEF Tried, Message, Count, Current
  <2>4. ASSUME NEW i \in 1 .. Len(Order), i # turn PROVE tried'[Order[i]] = tried[Order[i]]
    BY <1>1, <2>3, <2>4, OrderAssumption
  <2>5. tried'[Order[turn]] = changes
    BY <1>1, <2>2, <2>3
  <2> QED BY <1>1, <1>2, <2>1, <2>4, <2>5
<1> QED BY <1>1, <1>3, <1>4

(* The steps of a delivery keep it.                                        *)
LEMMA DeliverTries == TypeInv /\ TriedInv /\ Deliver => TriedInv'
<1> SUFFICES ASSUME TypeInv, TriedInv, Deliver PROVE TriedInv'
  OBVIOUS
<1>1. /\ TypeOK /\ turn \in Nat /\ attempt \in Nat /\ attempt >= 1 /\ Len(Order) \in Nat
      /\ UNCHANGED <<file, pc, prev, seen, changes, gap>> /\ pc \in {"startup", "tell"}
  BY RetriesAssumption, OrderAssumption
     DEF TypeInv, TypeOK, NotifierTypeOK, Done, Deliver, fileVars, runVars, changeVars
<1>2. Posting /\ Tried(Message) /\ turn \in 1 .. Len(Order)
  BY DEF Deliver, PostAccepted, PostFails, Posting
<1>3. (turn' = turn + 1 /\ attempt' = 1) \/ (turn' = turn /\ attempt' = attempt + 1)
  BY DEF Deliver, PostAccepted, PostFails, RetryOrFail, ProviderFails, NextProvider
<1>4. turn' # 0
  BY <1>1, <1>2, <1>3
<1>5. \A i \in 1 .. Len(Order) : Reached(i)' <=> i <= turn
  BY <1>1, <1>2, <1>3 DEF Reached
<1>6. CASE pc = "startup"
  <2>1. tried' = tried
    BY <1>2, <1>6 DEF Tried, Message, Count
  <2> QED BY <1>1, <1>4, <1>6, <2>1 DEF TriedInv
<1>7. CASE pc = "tell"
  <2>1. ASSUME gap = FALSE
        PROVE  \A i \in 1 .. Len(Order) :
                   tried'[Order[i]] + (IF Reached(i)' THEN 0 ELSE 1) = changes
    BY <1>1, <1>2, <1>5, <1>7, <2>1, CountedPost
  <2> QED BY <1>1, <1>4, <1>7, <2>1 DEF TriedInv, Reached
<1> QED BY <1>1, <1>6, <1>7

(* Every step keeps it.                                                    *)
LEMMA TriedStep == TypeInv /\ TriedInv /\ [Next]_vars => TriedInv'
<1> SUFFICES ASSUME TypeInv, TriedInv, [Next]_vars PROVE TriedInv'
  OBVIOUS
<1>1. /\ TypeOK /\ FileInv /\ tried \in [Providers -> Nat] /\ changes \in Nat
      /\ Len(Order) \in Nat /\ Providers = {Order[i] : i \in 1 .. Len(Order)}
  BY BudgetAssumption, OrderAssumption DEF TypeInv, TypeOK, NotifierTypeOK, Providers
<1>2. ASSUME UNCHANGED <<file, turn, attempt, tried, changes, gap, pc, prev, seen>>
      PROVE  TriedInv'
  BY <1>2 DEF TriedInv, StatusChanged, Reached
<1>3. ASSUME gap' = TRUE, turn' = 0 => attempt' = 1
      PROVE  TriedInv'
  BY <1>3 DEF TriedInv
<1> USE DEF fileVars, notifierVars, sendVars, seenVars, runVars, envVars, changeVars, healthVars
<1>4. CASE UNCHANGED vars
  BY <1>2, <1>4 DEF vars
<1>5. CASE WriteStep \/ Flush \/ FeedFlips \/ Tick
  BY <1>2, <1>5 DEF WriteStep, OpenTemp, FillTemp, SyncTemp, Flush, FlushDirectory, FeedFlips, Tick
<1>6. CASE LoadFails \/ GuardFails \/ DamageFile \/ LoadUndecodable \/ OperatorReconciles
  BY <1>3, <1>6
  DEF LoadFails, LoadAs, GuardFails, DamageFile, LoadUndecodable, OperatorReconciles, Die,
      TriedInv
<1>7. CASE Kill \/ DeliveryEscapes \/ PowerLoss
  BY <1>3, <1>7 DEF Kill, DeliveryEscapes, PostAnswerCut, PowerLoss, Die, EndSend
<1>8. CASE Deliver
  BY <1>8, DeliverTries
<1>9. CASE Start
  BY <1>9 DEF Start, BeginSend, Goto, TriedInv
<1>10. CASE StartupSent
  BY <1>10 DEF StartupSent, EndSend, Goto, TriedInv
<1>11. CASE Load
  <2>1. file.kind = "missing" => file.rec.blocked = EmptySnapshot.blocked
    BY <1>1, RecordsAssumption DEF FileInv, Plain, Other
  <2> QED BY <1>11, <2>1 DEF Load, LoadAs, Goto, TriedInv
<1>12. CASE LoadMalformed
  BY <1>12 DEF LoadMalformed, LoadAs, Goto, TriedInv
<1>13. CASE RunSucceeds
  BY <1>13 DEF RunSucceeds, BeginWrite, Goto, TriedInv
<1>14. CASE RunFails
  BY <1>14 DEF RunFails, Goto, TriedInv
<1>15. CASE Record
  <2>1. /\ pc = "write" /\ pc' = "guard" /\ file'.kind = "record"
        /\ UNCHANGED <<tried, prev, seen, gap, turn, attempt>>
        /\ changes' = changes + Differs({prev.blocked} \cup {file.rec.blocked}, seen)
    BY <1>15, Zenon DEF Record, Replace, Stored, Goto, Differs
  <2>2. prev.blocked \in Label \cup {"none"}
    BY <1>1 DEF TypeOK, Snapshot
  <2>3. ASSUME gap = FALSE
        PROVE  changes' = changes + (IF StatusChanged THEN 1 ELSE 0)
    BY <2>1, <2>2, <2>3 DEF TriedInv, StatusChanged, Differs, Label
  <2>4. StatusChanged' = StatusChanged
    BY <2>1 DEF StatusChanged
  <2>5. ASSUME gap = FALSE, NEW p \in Providers
        PROVE  tried'[p] + (IF StatusChanged' THEN 1 ELSE 0) = changes'
    BY <1>1, <2>1, <2>3, <2>4, <2>5 DEF TriedInv
  <2> QED BY <2>1, <2>5 DEF TriedInv
<1>16. CASE RecordFails
  BY <1>16 DEF RecordFails, AbandonWrite, Goto, TriedInv
<1>17. CASE GuardRecorded
  <2>1. CASE ~StatusChanged
    BY <1>1, <1>17, <2>1 DEF GuardRecorded, Leave, Goto, TriedInv
  <2>2. CASE StatusChanged
    <3>1. /\ pc = "guard" /\ pc' = "tell" /\ turn' = 1 /\ attempt' = 1
          /\ UNCHANGED <<file, tried, changes, gap>>
      BY <1>17, <2>2 DEF GuardRecorded, Leave, Goto, BeginSend, TriedInv
    <3>2. ASSUME gap = FALSE, NEW i \in 1 .. Len(Order)
          PROVE  tried'[Order[i]] + (IF Reached(i)' THEN 0 ELSE 1) = changes'
      BY <1>1, <2>2, <3>1, <3>2 DEF TriedInv, Reached
    <3> QED BY <3>1, <3>2 DEF TriedInv, Reached
  <2> QED BY <2>1, <2>2
<1>18. CASE Told \/ ToldWithIds
  <2>1. /\ pc = "tell" /\ pc' \in {"wait", "writeIds"} /\ turn = Done
        /\ UNCHANGED <<file, tried, changes, gap>>
        /\ (turn' = 0 /\ attempt' = 1) \/ UNCHANGED <<turn, attempt>>
    BY <1>18 DEF Told, ToldWithIds, EndSend, BeginWrite, Leave, Goto
  <2>2. \A i \in 1 .. Len(Order) : Reached(i)
    BY <1>1, <2>1 DEF Reached, Done
  <2>3. ASSUME gap = FALSE PROVE \A p \in Providers : tried[p] = changes
    BY <1>1, <2>1, <2>2, <2>3 DEF TriedInv
  <2> QED BY <2>1, <2>3 DEF TriedInv
<1>19. CASE RecordIds \/ RecordIdsFails
  BY <1>19 DEF RecordIds, RecordIdsFails, Leave, Goto, EndSend, Replace, Stored, AbandonWrite, TriedInv
<1>20. CASE HandleError
  BY <1>20 DEF HandleError, BeginWrite, Goto, TriedInv
<1>21. CASE EndWithError
  BY <1>21 DEF EndWithError, Leave, Goto, Replace, Stored, AbandonWrite, TriedInv
<1>22. CASE Wake
  BY <1>22 DEF Wake, Goto, TriedInv
<1>23. CASE RefuseRun
  BY <1>23 DEF RefuseRun, Leave, Goto, TriedInv
<1> QED
  BY <1>4, <1>5, <1>6, <1>7, <1>8, <1>9, <1>10, <1>11, <1>12, <1>13, <1>14, <1>15, <1>16,
     <1>17, <1>18, <1>19, <1>20, <1>21, <1>22, <1>23
  DEF Next, Progress, Environment

(* At the start no announcement is due.                                    *)
LEMMA TriedStart == Init => TriedInv
BY DEF Init, FileInit, Other, NotifierInit, NoIds, TriedInv

(* Whichever provider fails, however often, and whichever runs fail        *)
(* between: every change is posted to every provider, unless the service   *)
(* lost its memory of the last status, or died.                            *)
THEOREM NoProviderPassedOver == Spec => []EveryProviderTried
<1>1. TypeInv /\ TriedInv => EveryProviderTried
  <2>1. TypeInv => (gap = FALSE \/ gap = TRUE)
    BY DEF TypeInv, TypeOK
  <2> QED BY <2>1 DEF TriedInv, EveryProviderTried
<1> QED BY <1>1, TriedStart, TriedStep, TypeAlways, PTL DEF Spec

-----------------------------------------------------------------------------
(* The ids of messages *)

(* What the file, the run and the write under way know of the last id of p. *)
IdKept(p) ==
    IF pc \in {"tell", "writeIds"}
    THEN given[p] = RecordedIds[p] /\ prev.ids[p] = file.rec.ids[p]
    ELSE /\ given[p] = file.rec.ids[p]
         /\ pc \in {"run", "write", "guard", "fail", "writeError"} => prev.ids[p] = given[p]
         /\ pc \in {"write", "writeError"} => temp.rec.ids[p] = given[p]

(* The strengthening of IdsSurvive: the last id of p goes from the run's   *)
(* record to the next one, and a new one waits in the answers of the       *)
(* delivery, then in the write of the ids.                                 *)
IdsInv ==
    /\ turn = 0 => fresh = NoIds
    /\ gap = FALSE => \A p \in Providers :
        /\ pc = "tell" /\ fresh[p] # 0 => given[p] = fresh[p]
        /\ pc = "writeIds" => given[p] = temp.rec.ids[p] \/ (p \in dropped /\ fresh[p] = 0)
        /\ p \in dropped \/ IdKept(p)

(* The steps of a delivery keep it.                                        *)
LEMMA DeliverIds == TypeInv /\ IdsInv /\ Deliver => IdsInv'
<1> SUFFICES ASSUME TypeInv, IdsInv, Deliver PROVE IdsInv'
  OBVIOUS
<1>1. /\ fresh \in [Providers -> Nat] /\ given \in [Providers -> Nat] /\ changes \in Nat
      /\ \A p \in Providers : fresh[p] <= changes
      /\ UNCHANGED <<file, temp, pc, prev, gap, dropped>> /\ pc \in {"startup", "tell"}
  BY BudgetAssumption
     DEF TypeInv, TypeOK, NotifierTypeOK, FreshInv, Deliver, fileVars, runVars, changeVars
<1>2. turn \in 1 .. Len(Order) /\ Current \in Providers /\ Len(Order) \in Nat
  BY OrderAssumption DEF Deliver, PostAccepted, PostFails, Posting, Current, Providers
<1>3. turn' # 0
  BY <1>2 DEF Deliver, PostAccepted, PostFails, RetryOrFail, ProviderFails, NextProvider
<1>4. \/ UNCHANGED <<fresh, given>>
      \/ /\ fresh' = [fresh EXCEPT ![Current] = Message]
         /\ given' = IF Message = 0 THEN given ELSE [given EXCEPT ![Current] = Message]
  BY DEF Deliver, PostAccepted, PostFails
<1>5. CASE pc = "startup"
  BY <1>1, <1>3, <1>4, <1>5 DEF IdsInv, IdKept, Message
<1>6. CASE pc = "tell" /\ UNCHANGED <<fresh, given>>
  BY <1>1, <1>3, <1>6 DEF IdsInv, IdKept, RecordedIds
<1>7. CASE /\ pc = "tell"
           /\ fresh' = [fresh EXCEPT ![Current] = changes]
           /\ given' = IF changes = 0 THEN given ELSE [given EXCEPT ![Current] = changes]
  <2>1. ASSUME NEW p \in Providers, p # Current
        PROVE  fresh'[p] = fresh[p] /\ given'[p] = given[p]
    BY <1>1, <1>7, <2>1
  <2>2. \/ fresh'[Current] = fresh[Current] /\ given'[Current] = given[Current]
        \/ fresh'[Current] # 0 /\ given'[Current] = fresh'[Current]
    BY <1>1, <1>2, <1>7
  <2>3. ASSUME gap = FALSE, NEW p \in Providers
        PROVE  /\ fresh'[p] # 0 => given'[p] = fresh'[p]
               /\ p \in dropped \/ (given'[p] = RecordedIds'[p] /\ prev.ids[p] = file.rec.ids[p])
    BY <1>1, <1>7, <2>1, <2>2, <2>3 DEF IdsInv, IdKept, RecordedIds
  <2> QED BY <1>1, <1>3, <1>7, <2>3 DEF IdsInv, IdKept
<1> QED BY <1>1, <1>4, <1>5, <1>6, <1>7 DEF Message

(* Every step keeps it.                                                    *)
LEMMA IdsStep == TypeInv /\ TriedInv /\ IdsInv /\ [Next]_vars => IdsInv'
<1> SUFFICES ASSUME TypeInv, TriedInv, IdsInv, [Next]_vars PROVE IdsInv'
  OBVIOUS
<1>1. ASSUME UNCHANGED <<file, turn, fresh, given, gap, dropped, pc, prev>>,
             temp'.rec = temp.rec
      PROVE  IdsInv'
  BY <1>1 DEF IdsInv, IdKept, RecordedIds
<1>2. ASSUME gap' = TRUE, turn' = 0 => fresh' = NoIds
      PROVE  IdsInv'
  BY <1>2 DEF IdsInv
<1> USE DEF fileVars, notifierVars, sendVars, seenVars, runVars, envVars, changeVars, healthVars
<1>3. CASE UNCHANGED vars
  BY <1>1, <1>3 DEF vars
<1>4. CASE WriteStep
  <2>1. temp \in [rec : Records, synced : BOOLEAN]
    BY DEF TypeInv, TypeOK, FileTypeOK
  <2> QED BY <1>1, <1>4, <2>1 DEF WriteStep, OpenTemp, FillTemp, SyncTemp
<1>5. CASE Flush \/ FeedFlips \/ Tick
  BY <1>1, <1>5 DEF Flush, FlushDirectory, FeedFlips, Tick
<1>6. CASE LoadFails \/ GuardFails \/ DamageFile \/ LoadUndecodable \/ OperatorReconciles
  BY <1>2, <1>6
  DEF LoadFails, LoadAs, GuardFails, DamageFile, LoadUndecodable, OperatorReconciles, Die,
      IdsInv
<1>7. CASE Kill \/ DeliveryEscapes \/ PowerLoss
  BY <1>2, <1>7 DEF Kill, DeliveryEscapes, PostAnswerCut, PowerLoss, Die, EndSend
<1>8. CASE Deliver
  BY <1>8, DeliverIds
<1>9. CASE Start
  BY <1>9 DEF Start, BeginSend, Goto, IdsInv, IdKept
<1>10. CASE StartupSent
  BY <1>10 DEF StartupSent, EndSend, Goto, IdsInv, IdKept
<1>11. CASE Load
  <2>1. file.kind = "missing" => file.rec = EmptySnapshot
    BY RecordsAssumption DEF TypeInv, FileInv, Plain, Other
  <2>2. prev' = file.rec
    BY <1>11, <2>1 DEF Load, LoadAs
  <2> QED BY <1>11, <2>2 DEF Load, LoadAs, Goto, IdsInv, IdKept
<1>12. CASE LoadMalformed
  BY <1>12 DEF LoadMalformed, LoadAs, IdsInv, TriedInv
<1>13. CASE RunSucceeds
  BY <1>13 DEF RunSucceeds, BeginWrite, SuccessRecord, NoTemp, Goto, IdsInv, IdKept
<1>14. CASE RunFails
  BY <1>14 DEF RunFails, Goto, IdsInv, IdKept
<1>15. CASE Record
  BY <1>15 DEF Record, Replace, Stored, Goto, IdsInv, IdKept
<1>16. CASE RecordFails
  BY <1>16 DEF RecordFails, AbandonWrite, Goto, IdsInv, IdKept
<1>17. CASE GuardRecorded
  <2>1. CASE ~StatusChanged
    BY <1>17, <2>1 DEF GuardRecorded, Leave, Goto, IdsInv, IdKept
  <2>2. CASE StatusChanged
    <3>1. /\ pc = "guard" /\ pc' = "tell" /\ turn = 0 /\ turn' = 1 /\ fresh' = fresh
          /\ UNCHANGED <<file, given, gap, dropped, prev>>
      BY <1>17, <2>2 DEF GuardRecorded, Leave, Goto, BeginSend
    <3>2. \A p \in Providers : fresh'[p] = 0
      BY <3>1 DEF IdsInv, NoIds
    <3> QED BY <3>1, <3>2 DEF IdsInv, IdKept, RecordedIds
  <2> QED BY <2>1, <2>2
<1>18. CASE Told
  BY <1>18 DEF Told, Leave, Goto, EndSend, WithId, IdsInv, IdKept, RecordedIds
<1>19. CASE ToldWithIds
  <2>1. /\ pc = "tell" /\ pc' = "writeIds" /\ temp'.rec.ids = RecordedIds
        /\ UNCHANGED <<file, turn, fresh, given, gap, dropped, prev>>
    BY <1>19 DEF ToldWithIds, BeginWrite, SuccessRecord, NoTemp, Goto
  <2>2. RecordedIds' = RecordedIds
    BY <2>1 DEF RecordedIds
  <2>3. \A p \in Providers : fresh[p] # 0 => RecordedIds[p] = fresh[p]
    BY DEF RecordedIds
  <2> QED BY <2>1, <2>2, <2>3 DEF IdsInv, IdKept
<1>20. CASE RecordIds
  BY <1>20 DEF RecordIds, Replace, Stored, EndSend, Leave, Goto, WithId, IdsInv, IdKept
<1>21. CASE RecordIdsFails
  BY <1>21 DEF RecordIdsFails, AbandonWrite, EndSend, Leave, Goto, WithId, IdsInv, IdKept, RecordedIds
<1>22. CASE HandleError
  <2>1. temp'.rec.ids = prev.ids
    BY <1>22 DEF HandleError, BeginWrite, ErrorRecord, NoTemp, TypeInv, TypeOK, Snapshot
  <2> QED BY <1>22, <2>1 DEF HandleError, BeginWrite, Goto, IdsInv, IdKept
<1>23. CASE EndWithError
  BY <1>23 DEF EndWithError, Leave, Goto, Replace, Stored, AbandonWrite, IdsInv, IdKept
<1>24. CASE Wake
  BY <1>24 DEF Wake, Goto, IdsInv, IdKept
<1>25. CASE RefuseRun
  BY <1>25 DEF RefuseRun, Leave, Goto, IdsInv, IdKept
<1> QED
  BY <1>3, <1>4, <1>5, <1>6, <1>7, <1>8, <1>9, <1>10, <1>11, <1>12, <1>13, <1>14, <1>15,
     <1>16, <1>17, <1>18, <1>19, <1>20, <1>21, <1>22, <1>23, <1>24, <1>25
  DEF Next, Progress, Environment

(* The file names the last message of each provider, through runs that     *)
(* send none, runs that fail and messages without an id.                   *)
THEOREM IdsAreKept == Spec => []IdsSurvive
<1>1. Init => IdsInv
  <2> SUFFICES ASSUME Init PROVE IdsInv
    OBVIOUS
  <2>1. /\ pc = "off" /\ fresh = NoIds /\ given = NoIds /\ file.rec.ids = NoIds
    BY RecordsAssumption DEF Init, FileInit, Other, NotifierInit, EmptySnapshot
  <2> QED BY <2>1 DEF IdsInv, IdKept
<1>2. TypeInv /\ IdsInv => IdsSurvive
  <2>1. TypeInv => (gap = FALSE \/ gap = TRUE)
    BY DEF TypeInv, TypeOK
  <2> QED BY <2>1 DEF IdsInv, IdKept, IdsSurvive
<1> QED BY <1>1, <1>2, TriedStart, TriedStep, IdsStep, TypeAlways, PTL DEF Spec

=============================================================================
