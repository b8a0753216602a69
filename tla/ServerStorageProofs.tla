------------------------ MODULE ServerStorageProofs ------------------------
(***************************************************************************)
(* Proof that an interrupted start of the server never leaves a part of the *)
(* entries in its database, unless a statement failed.                     *)
(***************************************************************************)
EXTENDS ServerStorage, TLAPS

LEMMA OneMoreType == \A n \in RowCount : OneMore(n) \in RowCount
  BY DEF RowCount, Entries, OneMore

(* The Boolean variables first: the other steps build on their types.        *)
Flags == transaction \in BOOLEAN /\ flawed \in BOOLEAN

LEMMA FlagsInit == Init => Flags
  BY Zenon DEF Init, Flags

LEMMA FlagsStep == Flags /\ [Next]_saveVars => Flags'
  BY Zenon DEF Flags, Next, saveVars, OpenDatabase, DeleteContent,
       BeginTransaction, InsertRow, EndTransaction, Restart

LEMMA StorageTypeInit == Init => StorageTypeOK
  BY FlagsInit DEF Init, Flags, StorageTypeOK, RowCount, Entries

LEMMA StorageTypeStep == StorageTypeOK /\ [Next]_saveVars => StorageTypeOK'
  <1> SUFFICES ASSUME StorageTypeOK, [Next]_saveVars
               PROVE  StorageTypeOK'
    OBVIOUS
  <1>0. transaction' \in BOOLEAN /\ flawed' \in BOOLEAN
    BY FlagsStep DEF StorageTypeOK, Flags
  <1> USE <1>0 DEF StorageTypeOK, Goes
  <1>1. CASE OpenDatabase
    BY <1>1 DEF OpenDatabase
  <1>2. CASE DeleteContent
    BY <1>2 DEF DeleteContent, RowCount, Entries
  <1>3. CASE BeginTransaction
    BY <1>3 DEF BeginTransaction, Entries
  <1>4. CASE InsertRow
    BY <1>4, OneMoreType DEF InsertRow, Entries
  <1>5. CASE EndTransaction
    BY <1>5 DEF EndTransaction
  <1>6. CASE Restart
    BY <1>6 DEF Restart, Entries
  <1>7. CASE UNCHANGED saveVars
    BY <1>7 DEF saveVars
  <1> QED
    BY <1>1, <1>2, <1>3, <1>4, <1>5, <1>6, <1>7 DEF Next

(* How far the database is at each point of init().  The rows of a           *)
(* transaction that is open are seen by the process only.                   *)
Progress ==
    /\ ~transaction => work = disk
    /\ savePc = "begin" => disk = 0
    /\ savePc = "insert" => transaction /\ disk = 0 /\ work = inserts
    /\ savePc = "filled" => disk = Entries
    /\ disk \in {0, Entries}

StorageInv == /\ StorageTypeOK
              /\ savePc # "insert" => ~transaction
              /\ ~flawed => Progress

LEMMA StorageInit == Init => StorageInv
  BY StorageTypeInit DEF Init, StorageInv, StorageTypeOK, Progress, Entries

LEMMA StorageStep == StorageInv /\ [Next]_saveVars => StorageInv'
  <1> SUFFICES ASSUME StorageInv, [Next]_saveVars
               PROVE  StorageInv'
    OBVIOUS
  <1>0. StorageTypeOK /\ StorageTypeOK'
    BY StorageTypeStep DEF StorageInv
  <1> USE <1>0 DEF StorageInv, StorageTypeOK, Progress, Goes
  <1>1. CASE OpenDatabase
    BY <1>1 DEF OpenDatabase
  <1>2. CASE DeleteContent
    BY <1>2 DEF DeleteContent
  <1>3. CASE BeginTransaction
    BY <1>3 DEF BeginTransaction
  <1>4. CASE InsertRow
    BY <1>4 DEF InsertRow, OneMore, Entries
  <1>5. CASE EndTransaction
    BY <1>5 DEF EndTransaction, Entries
  <1>6. CASE Restart
    BY <1>6 DEF Restart
  <1>7. CASE UNCHANGED saveVars
    BY <1>7 DEF saveVars
  <1> QED
    BY <1>1, <1>2, <1>3, <1>4, <1>5, <1>6, <1>7 DEF Next

(* Whenever the process is killed while Save::init() runs, the database holds *)
(* all entries or none; after init() it holds all; a failed statement is the *)
(* exception, until the next DELETE that works.                             *)
THEOREM StorageWhole == StorageSpec => []DataWhole
  <1>1. StorageInv => DataWhole
    BY DEF StorageInv, Progress, DataWhole
  <1> QED
    BY <1>1, StorageInit, StorageStep, PTL DEF StorageSpec
============================================================================
