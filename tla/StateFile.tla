----------------------------- MODULE StateFile ------------------------------
(***************************************************************************)
(* StateStore.write and quarantine_invalid_file, on a file system that     *)
(* forgets what was not synced when the power fails.  A write fills and    *)
(* syncs a temporary file and renames it.  This module has the steps;      *)
(* Report says who takes them.                                             *)
(***************************************************************************)
CONSTANTS
    Records,   \* the snapshots that are written
    NoRecord   \* the record in a content that is none

ASSUME NoRecordAssumption == NoRecord \in Records

(* What the name of the file refers to: "malformed" is no JSON object or   *)
(* too large (a ConfigError), "undecodable" is not UTF-8, "torn" lost its  *)
(* unsynced data.                                                          *)
Foreign == {"malformed", "undecodable"}
Kinds == Foreign \cup {"missing", "record", "torn"}
Content == [kind : Kinds, rec : Records]

Stored(r) == [kind |-> "record", rec |-> r]
Other(k) == [kind |-> k, rec |-> NoRecord]

VARIABLES
    file,     \* what path refers to
    solid,    \* its data is on the medium
    disk,     \* what path refers to after a power failure
    writing,  \* the next step of the write under way, or "no"
    temp      \* the temporary file: its record, and whether it was synced

fileVars == <<file, solid, disk, writing, temp>>

NoTemp == [rec |-> NoRecord, synced |-> FALSE]

FileTypeOK ==
    /\ file \in Content /\ solid \in BOOLEAN /\ disk \in Content
    /\ writing \in {"no", "open", "fill", "sync", "rename"}
    /\ temp \in [rec : Records, synced : BOOLEAN]

FileInit ==
    /\ file = Other("missing") /\ solid = TRUE /\ disk = Other("missing")
    /\ writing = "no" /\ temp = NoTemp

-----------------------------------------------------------------------------
(* StateStore.write, a system call a step                                  *)

BeginWrite(r) ==
    /\ writing = "no"
    /\ writing' = "open" /\ temp' = [NoTemp EXCEPT !.rec = r]
    /\ UNCHANGED <<file, solid, disk>>

(* tempfile.mkstemp *)
OpenTemp ==
    /\ writing = "open" /\ writing' = "fill"
    /\ UNCHANGED <<file, solid, disk, temp>>

(* json.dump and flush *)
FillTemp ==
    /\ writing = "fill" /\ writing' = "sync"
    /\ UNCHANGED <<file, solid, disk, temp>>

(* Mutant: the data is left in the page cache.                             *)
SyncTempSkipped ==
    /\ writing = "sync" /\ writing' = "rename"
    /\ UNCHANGED <<file, solid, disk, temp>>

(* os.fsync *)
SyncTemp ==
    /\ writing = "sync" /\ writing' = "rename"
    /\ temp' = [temp EXCEPT !.synced = TRUE]
    /\ UNCHANGED <<file, solid, disk>>

(* os.chmod and os.replace: a reader finds the new record at once.  The    *)
(* directory is not synced.                                                *)
Replace ==
    /\ writing = "rename"
    /\ file' = Stored(temp.rec) /\ solid' = temp.synced
    /\ writing' = "no" /\ temp' = NoTemp
    /\ UNCHANGED disk

(* A system call fails, or the process dies: whether or not the temporary  *)
(* file is removed, nothing refers to it any more.                         *)
AbandonWrite ==
    /\ writing' = "no" /\ temp' = NoTemp
    /\ UNCHANGED <<file, solid, disk>>

-----------------------------------------------------------------------------
(* quarantine_invalid_file: os.replace to the .bad- name.                  *)
Quarantine ==
    /\ file.kind = "malformed"
    /\ file' = Other("missing") /\ solid' = TRUE
    /\ UNCHANGED <<disk, writing, temp>>

(* The system writes the directory back.  Data that was not synced may not *)
(* be there yet.                                                           *)
FlushDirectory ==
    /\ disk # file
    /\ disk' = IF solid THEN file ELSE Other("torn")
    /\ UNCHANGED <<file, solid, writing, temp>>

LoseUnsynced ==
    /\ file' = disk /\ solid' = TRUE
    /\ writing' = "no" /\ temp' = NoTemp
    /\ UNCHANGED disk

(* Somebody removes the file.                                              *)
Remove ==
    /\ file' = Other("missing") /\ solid' = TRUE
    /\ UNCHANGED <<disk, writing, temp>>

(* A stranger, or the medium, damages or removes the file.                 *)
Damage ==
    /\ \E k \in Foreign \cup {"missing"} : file' = Other(k)
    /\ solid' = TRUE
    /\ UNCHANGED <<disk, writing, temp>>

-----------------------------------------------------------------------------
(* A write is what Register allows, whatever happens between its steps.    *)
AtomicRegister ==
    INSTANCE Register WITH
        Contents <- Content, Records <- [kind : {"record"}, rec : Records],
        Nothing <- Other("missing"), Missing <- Other("missing"),
        Foreign <- {Other(k) : k \in Foreign},
        value <- file, durable <- disk,
        request <- IF writing = "no" THEN Other("missing") ELSE Stored(temp.rec)
=============================================================================
