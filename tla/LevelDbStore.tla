----------------------------- MODULE LevelDbStore -----------------------------
(***************************************************************************)
(* The key-value store of src/src/sflowtool.c: what happens to an A10      *)
(* record once readCounters_a10_4_1_n_generic has read it, and the three   *)
(* functions it calls, leveldb_simple_write_data, leveldb_simple_read_data *)
(* and write_object_id.                                                    *)
(*                                                                         *)
(* Each call opens its database and closes it again, except that it        *)
(* returns with the database open when the put or the get fails.  LevelDB  *)
(* locks an open database, against other processes and against a second    *)
(* open of the same one.  A record's key is its object and the second it   *)
(* was read in; its value is the number of the record.                     *)
(***************************************************************************)
EXTENDS Naturals

CONSTANTS
    Objects,       \* pairs of schema oid and uuid
    MaxRecords,    \* bound: records considered
    MaxSecond      \* bound: the clock stops there

ASSUME StoreAssumption == MaxRecords \in Nat /\ MaxSecond \in Nat

Databases == {"RAW_DB", "OBJ_DB"}

VARIABLES
    pc,         \* the call to be made next for the current record, or "idle"
    now,        \* time(NULL)
    record,     \* number of the current record, or of the last one
    object,     \* its object
    second,     \* when it was read
    lost,       \* databases left open: their lock stays taken
    raw,        \* RAW_DB: key -> record, None when there is none
    known,      \* OBJ_DB: objects that have an entry
    failed,     \* databases a put or get has failed in, so far
    refused,    \* databases an open has failed in, through no fault of this
                \* process, for the current record
    shown       \* what the last read of RAW_DB printed

recordVars == <<record, object, second>>
dbVars     == <<lost, raw, known>>
ghostVars  == <<failed, refused, shown>>
vars == <<pc, now, recordVars, dbVars, ghostVars>>

None == 0
Keys == Objects \X (0 .. MaxSecond)
key  == <<object, second>>

Init ==
    /\ pc = "idle" /\ now = 0
    /\ record = 0 /\ object \in Objects /\ second = 0
    /\ lost = {} /\ raw = [k \in Keys |-> None] /\ known = {}
    /\ failed = {} /\ refused = {} /\ shown = None

Tick ==
    /\ now < MaxSecond /\ now' = now + 1
    /\ UNCHANGED <<pc, recordVars, dbVars, ghostVars>>

\* An A10 record with a proper uuid: the clock is read, the keys are made.
ReadRecord ==
    /\ pc = "idle" /\ record < MaxRecords
    /\ record' = record + 1 /\ object' \in Objects /\ second' = now
    /\ pc' = "writeRaw" /\ refused' = {}
    /\ UNCHANGED <<now, dbVars, failed, shown>>

\* leveldb_open fails: the database is left open by this process, another one
\* has it, or there is trouble with the files.  The call returns 1.
OpenFails(db) ==
    /\ refused' = IF db \in lost THEN refused ELSE refused \cup {db}
    /\ UNCHANGED <<now, recordVars, dbVars, failed>>
\* It never does while this process has it open.
Opens(db) == db \notin lost

\* The end of a call: after an error it returns with the database open, else
\* it closes it.  Mutant: it is never closed.
LeftOpen_Always(db, error) == lost \cup {db}
LeftOpen(db, error) == IF error THEN lost \cup {db} ELSE lost
Done(db, error) ==
    /\ lost' = LeftOpen(db, error)
    /\ failed' = IF error THEN failed \cup {db} ELSE failed
    /\ UNCHANGED <<now, recordVars, refused>>

\* leveldb_simple_write_data of the record.
WriteRaw ==
    /\ pc = "writeRaw" /\ pc' = "readObject" /\ UNCHANGED shown
    /\ \/ OpenFails("RAW_DB")
       \/ /\ Opens("RAW_DB") /\ UNCHANGED known
          /\ \E error \in BOOLEAN :
                /\ raw' \in IF error THEN {raw, [raw EXCEPT ![key] = record]}
                                     ELSE {[raw EXCEPT ![key] = record]}
                /\ Done("RAW_DB", error)

\* write_object_id: leveldb_simple_read_data returns 0 when it could read,
\* whether the key was there or not, and the object is then written.
\* Mutant: the result is taken for what its use suggests.
Missing_WhenNonZero(ret) == ret # 0
Missing(ret) == ret = 0
AfterObjectRead(ret) == pc' = IF Missing(ret) THEN "writeObject" ELSE "readRaw"

ReadObject ==
    /\ pc = "readObject" /\ UNCHANGED shown
    /\ \/ OpenFails("OBJ_DB") /\ AfterObjectRead(1)
       \/ /\ Opens("OBJ_DB") /\ UNCHANGED <<raw, known>>
          /\ \E error \in BOOLEAN :
                /\ AfterObjectRead(IF error THEN 1 ELSE 0)
                /\ Done("OBJ_DB", error)

WriteObject ==
    /\ pc = "writeObject" /\ pc' = "readRaw" /\ UNCHANGED shown
    /\ \/ OpenFails("OBJ_DB")
       \/ /\ Opens("OBJ_DB") /\ UNCHANGED raw
          /\ \E error \in BOOLEAN :
                /\ known' \in IF error THEN {known, known \cup {object}}
                                       ELSE {known \cup {object}}
                /\ Done("OBJ_DB", error)

\* The record is read back and printed.
ReadKey == key
ReadRaw ==
    /\ pc = "readRaw" /\ pc' = "idle"
    /\ \/ OpenFails("RAW_DB") /\ shown' = None
       \/ /\ Opens("RAW_DB") /\ UNCHANGED <<raw, known>>
          /\ \E error \in BOOLEAN :
                /\ shown' = IF error THEN None ELSE raw[ReadKey]
                /\ Done("RAW_DB", error)

Next ==
    \/ Tick \/ ReadRecord
    \/ WriteRaw \/ ReadObject \/ WriteObject \/ ReadRaw

Spec == Init /\ [][Next]_vars

(***************************************************************************)
(* Properties.                                                             *)
(***************************************************************************)

TypeOK ==
    /\ pc \in {"idle", "writeRaw", "readObject", "writeObject", "readRaw"}
    /\ now \in 0 .. MaxSecond
    /\ record \in Nat /\ object \in Objects /\ second \in 0 .. now
    /\ lost \subseteq Databases /\ failed \subseteq Databases /\ refused \subseteq Databases
    /\ raw \in [Keys -> Nat] /\ known \subseteq Objects /\ shown \in Nat

\* What is printed at the end of a record is that record, and the database has
\* it, unless an open was refused for this very record or a put or get has ever
\* failed: no call leaves the lock behind for the next one on the good path,
\* and a lock held for a while by another process does no lasting harm.
ReadsBackOwnRecord ==
    pc = "idle" /\ record > 0 /\ "RAW_DB" \notin failed \cup refused =>
        shown = record /\ raw[key] = record

\* A record on disk has its object beside it: the entry an earlier record could
\* not write, because the database was refused, is made up for by the next.
ObjectBesideRecord ==
    pc = "idle" /\ "OBJ_DB" \notin failed \cup refused /\ raw[key] # None =>
        object \in known

=============================================================================
