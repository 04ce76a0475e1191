-------------------------- MODULE LevelDbStore_proofs --------------------------
(***************************************************************************)
(* Safety of the key-value store, for any objects, records and clock: a    *)
(* lock is left behind by an error and by nothing else, and from that all  *)
(* that the runs check follows.                                            *)
(***************************************************************************)
EXTENDS LevelDbStore, TLAPS

Fine(db) == db \notin failed \cup refused

\* How far the current record has come, in either database.
Progress ==
    /\ pc # "idle" => record > 0
    /\ record = 0 => raw[key] = None
    /\ pc \notin {"idle", "writeRaw"} /\ Fine("RAW_DB") => raw[key] = record
    /\ pc = "readRaw" /\ Fine("OBJ_DB") => object \in known
    /\ pc = "idle" /\ record > 0 /\ Fine("OBJ_DB") => object \in known

Inv == TypeOK /\ lost = failed /\ Progress /\ ReadsBackOwnRecord

\* The second of a record is not later than the clock, which may go on.
LEMMA ClockOK ==
    ASSUME TypeOK
    PROVE  /\ second \in 0 .. MaxSecond /\ now \in 0 .. MaxSecond /\ now \in Nat
           /\ now < MaxSecond => now + 1 \in 0 .. MaxSecond /\ second \in 0 .. now + 1
<1>1. MaxSecond \in Nat /\ now \in 0 .. MaxSecond /\ second \in 0 .. now
      BY StoreAssumption DEF TypeOK
<1> HIDE DEF TypeOK
<1> QED BY <1>1

\* A record's key is one of the keys.
LEMMA KeyOK == ASSUME TypeOK PROVE key \in Keys
BY ClockOK DEF TypeOK, key, Keys

\* Nobody is left out: what a call that opens, or fails to, does to the sets.
LEMMA OpenFailsInv ==
    ASSUME Inv, NEW db \in Databases, OpenFails(db)
    PROVE  /\ UNCHANGED <<now, record, object, second, lost, raw, known, failed>>
           /\ refused' \subseteq Databases /\ refused \subseteq refused'
           /\ db \in failed' \cup refused'
BY DEF Inv, TypeOK, OpenFails, recordVars, dbVars

\* What the return of a call leaves as it is; a call that failed is remembered.
LEMMA DoneInv ==
    ASSUME Inv, NEW db \in Databases, NEW error \in BOOLEAN, Done(db, error)
    PROVE  /\ UNCHANGED <<now, record, object, second, refused>>
           /\ lost' = failed' /\ failed' \subseteq Databases /\ failed \subseteq failed'
           /\ error => db \in failed'
BY DEF Inv, TypeOK, Done, LeftOpen, recordVars

\* The invariant holds at the start.
LEMMA InitInv == Init => Inv
<1> SUFFICES ASSUME Init PROVE Inv
    OBVIOUS
<1>1. TypeOK BY StoreAssumption DEF Init, TypeOK, None
<1>2. raw[key] = None BY <1>1, KeyOK DEF Init
<1> QED BY <1>1, <1>2 DEF Init, Inv, Progress, ReadsBackOwnRecord, Fine

\* The record is written, or not.
LEMMA WriteRawInv == ASSUME Inv, WriteRaw PROVE Inv'
<1> USE DEF Inv
<1>0. /\ key \in Keys /\ "RAW_DB" \in Databases /\ record > 0
      /\ pc = "writeRaw" /\ pc' = "readObject" /\ shown' = shown
      BY KeyOK DEF WriteRaw, Databases, Progress
<1>1. CASE OpenFails("RAW_DB")
  <2>1. /\ UNCHANGED <<now, record, object, second, lost, raw, known, failed>>
        /\ refused' \subseteq Databases /\ "RAW_DB" \in failed' \cup refused'
        BY <1>0, <1>1, OpenFailsInv
  <2>2. TypeOK' BY <1>0, <2>1 DEF TypeOK
  <2> QED BY <1>0, <2>1, <2>2 DEF Progress, ReadsBackOwnRecord, Fine, key
<1>2. ASSUME NEW error \in BOOLEAN, Done("RAW_DB", error), known' = known,
             raw' \in IF error THEN {raw, [raw EXCEPT ![key] = record]}
                               ELSE {[raw EXCEPT ![key] = record]}
      PROVE  Inv'
  <2>1. /\ UNCHANGED <<now, record, object, second, refused>>
        /\ lost' = failed' /\ failed' \subseteq Databases
        /\ error => "RAW_DB" \in failed'
        BY <1>0, <1>2, DoneInv
  <2>2. key' = key BY <2>1 DEF key
  <2>3. raw' \in [Keys -> Nat] BY <1>2 DEF TypeOK
  <2>4. ~error => raw'[key] = record BY <1>0, <1>2 DEF TypeOK
  <2>5. TypeOK' BY <1>0, <1>2, <2>1, <2>3 DEF TypeOK
  <2> QED BY <1>0, <2>1, <2>2, <2>4, <2>5 DEF Progress, ReadsBackOwnRecord, Fine
<1> QED BY <1>1, <1>2 DEF WriteRaw, Opens

\* The object is read, whatever comes of it.
LEMMA ReadObjectInv == ASSUME Inv, ReadObject PROVE Inv'
<1> USE DEF Inv
<1>0. /\ "OBJ_DB" \in Databases /\ record > 0 /\ pc = "readObject" /\ shown' = shown
      BY DEF ReadObject, Databases, Progress
<1>1. CASE OpenFails("OBJ_DB") /\ AfterObjectRead(1)
  <2>1. /\ UNCHANGED <<now, record, object, second, lost, raw, known, failed>>
        /\ refused' \subseteq Databases /\ refused \subseteq refused'
        /\ "OBJ_DB" \in failed' \cup refused' /\ pc' = "readRaw"
        BY <1>0, <1>1, OpenFailsInv DEF AfterObjectRead, Missing
  <2>2. TypeOK' BY <1>0, <2>1 DEF TypeOK
  <2> QED BY <1>0, <2>1, <2>2 DEF Progress, ReadsBackOwnRecord, Fine, key
<1>2. ASSUME NEW error \in BOOLEAN, Done("OBJ_DB", error), UNCHANGED <<raw, known>>,
             AfterObjectRead(IF error THEN 1 ELSE 0)
      PROVE  Inv'
  <2>1. /\ UNCHANGED <<now, record, object, second, refused>>
        /\ lost' = failed' /\ failed' \subseteq Databases /\ failed \subseteq failed'
        /\ error => "OBJ_DB" \in failed'
        BY <1>0, <1>2, DoneInv
  <2>2. pc' = IF error THEN "readRaw" ELSE "writeObject"
    <3>1. CASE error BY <1>2, <3>1 DEF AfterObjectRead, Missing
    <3>2. CASE ~error BY <1>2, <3>2 DEF AfterObjectRead, Missing
    <3> QED BY <3>1, <3>2
  <2>3. TypeOK' BY <1>0, <1>2, <2>1, <2>2 DEF TypeOK
  <2> QED BY <1>0, <1>2, <2>1, <2>2, <2>3 DEF Progress, ReadsBackOwnRecord, Fine, key
<1> QED BY <1>0, <1>1, <1>2 DEF ReadObject, Opens

\* The object is written, or not.
LEMMA WriteObjectInv == ASSUME Inv, WriteObject PROVE Inv'
<1> USE DEF Inv
<1>0. /\ "OBJ_DB" \in Databases /\ record > 0 /\ pc = "writeObject"
      /\ pc' = "readRaw" /\ shown' = shown
      BY DEF WriteObject, Databases, Progress
<1>1. CASE OpenFails("OBJ_DB")
  <2>1. /\ UNCHANGED <<now, record, object, second, lost, raw, known, failed>>
        /\ refused' \subseteq Databases /\ refused \subseteq refused'
        /\ "OBJ_DB" \in failed' \cup refused'
        BY <1>0, <1>1, OpenFailsInv
  <2>2. TypeOK' BY <1>0, <2>1 DEF TypeOK
  <2> QED BY <1>0, <2>1, <2>2 DEF Progress, ReadsBackOwnRecord, Fine, key
<1>2. ASSUME NEW error \in BOOLEAN, Done("OBJ_DB", error), raw' = raw,
             known' \in IF error THEN {known, known \cup {object}}
                                 ELSE {known \cup {object}}
      PROVE  Inv'
  <2>1. /\ UNCHANGED <<now, record, object, second, refused>>
        /\ lost' = failed' /\ failed' \subseteq Databases /\ failed \subseteq failed'
        /\ error => "OBJ_DB" \in failed'
        BY <1>0, <1>2, DoneInv
  <2>2. known' \subseteq Objects /\ (~error => object \in known') BY <1>2 DEF TypeOK
  <2>3. TypeOK' BY <1>0, <1>2, <2>1, <2>2 DEF TypeOK
  <2> QED BY <1>0, <1>2, <2>1, <2>2, <2>3 DEF Progress, ReadsBackOwnRecord, Fine, key
<1> QED BY <1>0, <1>1, <1>2 DEF WriteObject, Opens

\* The record is read back.
LEMMA ReadRawInv == ASSUME Inv, ReadRaw PROVE Inv'
<1> USE DEF Inv
<1>0. /\ key \in Keys /\ "RAW_DB" \in Databases /\ record > 0
      /\ pc = "readRaw" /\ pc' = "idle"
      BY KeyOK DEF ReadRaw, Databases, Progress
<1>1. CASE OpenFails("RAW_DB") /\ shown' = None
  <2>1. /\ UNCHANGED <<now, record, object, second, lost, raw, known, failed>>
        /\ refused' \subseteq Databases /\ refused \subseteq refused'
        /\ "RAW_DB" \in failed' \cup refused'
        BY <1>0, <1>1, OpenFailsInv
  <2>2. TypeOK' BY <1>0, <1>1, <2>1 DEF TypeOK, None
  <2> QED BY <1>0, <2>1, <2>2 DEF Progress, ReadsBackOwnRecord, Fine, key
<1>2. ASSUME NEW error \in BOOLEAN, Done("RAW_DB", error), UNCHANGED <<raw, known>>,
             shown' = IF error THEN None ELSE raw[ReadKey]
      PROVE  Inv'
  <2>1. /\ UNCHANGED <<now, record, object, second, refused>>
        /\ lost' = failed' /\ failed' \subseteq Databases /\ failed \subseteq failed'
        /\ error => "RAW_DB" \in failed'
        BY <1>0, <1>2, DoneInv
  <2>2. raw[key] \in Nat BY <1>0 DEF TypeOK
  <2>3. TypeOK' BY <1>0, <1>2, <2>1, <2>2 DEF TypeOK, None, ReadKey
  <2> QED BY <1>0, <1>2, <2>1, <2>3 DEF Progress, ReadsBackOwnRecord, Fine, key, ReadKey
<1> QED BY <1>0, <1>1, <1>2 DEF ReadRaw, Opens

\* Every step preserves the invariant.
LEMMA NextInv == Inv /\ [Next]_vars => Inv'
<1> SUFFICES ASSUME Inv, [Next]_vars PROVE Inv'
    OBVIOUS
<1>1. CASE Tick
  <2>1. /\ UNCHANGED <<pc, record, object, second, lost, raw, known, failed, refused, shown>>
        /\ now' \in 0 .. MaxSecond /\ second \in 0 .. now'
        BY <1>1, ClockOK DEF Tick, recordVars, dbVars, ghostVars, Inv
  <2> QED BY <2>1 DEF Inv, TypeOK, Progress, ReadsBackOwnRecord, Fine, key
<1>2. CASE ReadRecord
  <2>1. /\ record' = record + 1 /\ object' \in Objects /\ second' = now
        /\ pc' = "writeRaw" /\ refused' = {} /\ record' \in Nat /\ record' > 0
        /\ UNCHANGED <<now, lost, raw, known, failed, shown>>
        BY <1>2 DEF ReadRecord, dbVars, Inv, TypeOK
  <2>2. TypeOK' BY <2>1 DEF Inv, TypeOK
  <2> QED BY <2>1, <2>2 DEF Inv, Progress, ReadsBackOwnRecord
<1>3. CASE WriteRaw BY <1>3, WriteRawInv
<1>4. CASE ReadObject BY <1>4, ReadObjectInv
<1>5. CASE WriteObject BY <1>5, WriteObjectInv
<1>6. CASE ReadRaw BY <1>6, ReadRawInv
<1>7. CASE UNCHANGED vars
  BY <1>7 DEF vars, recordVars, dbVars, ghostVars, Inv, TypeOK, Progress,
              ReadsBackOwnRecord, Fine, key
<1> QED BY <1>1, <1>2, <1>3, <1>4, <1>5, <1>6, <1>7 DEF Next

\* The invariant holds in every state.
LEMMA Invariance == Spec => []Inv
BY InitInv, NextInv, PTL DEF Spec

\* A record whose calls met no failure can be read back.
THEOREM ReadBackCorrect == Spec => []ReadsBackOwnRecord
BY Invariance, PTL DEF Inv

\* Its object is then beside it, whatever happened to earlier records.
THEOREM ObjectCorrect == Spec => []ObjectBesideRecord
<1>1. Inv => ObjectBesideRecord
      BY DEF Inv, TypeOK, Progress, ObjectBesideRecord, Fine
<1> QED BY <1>1, Invariance, PTL

=============================================================================
