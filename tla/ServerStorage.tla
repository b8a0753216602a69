--------------------------- MODULE ServerStorage ----------------------------
(***************************************************************************)
(* The server's database, server/src/save/Save.cpp: Save::init() empties    *)
(* the table deviceValues and fills it again, in one transaction, each time *)
(* the server starts.  No result is looked at, so after a call that failed  *)
(* it simply goes on; and the process may be killed between two calls.      *)
(*                                                                         *)
(* SQLite is external: a statement is its own transaction unless one was    *)
(* begun; a failing statement changes nothing, or ends the transaction and  *)
(* undoes it; what is not committed is gone when the process is.            *)
(***************************************************************************)
EXTENDS Naturals

Entries == 10            \* rows that init() writes
RowCount == 0 .. Entries + 1   \* the last one stands for any larger number

VARIABLES
    savePc,       \* control state of Save::init()
    inserts,      \* rounds of its loop that are done
    transaction,  \* TRUE between BEGIN and END TRANSACTION
    work,         \* rows of deviceValues as the process sees them
    disk,         \* rows of deviceValues that are committed
    flawed        \* history: a statement has failed since the last DELETE

saveVars == <<savePc, inserts, transaction, work, disk, flawed>>
----------------------------------------------------------------------------
(* Every variable has its type.                                             *)
StorageTypeOK ==
    /\ savePc \in {"open", "delete", "begin", "insert", "filled"}
    /\ inserts \in 0 .. Entries
    /\ transaction \in BOOLEAN
    /\ work \in RowCount /\ disk \in RowCount
    /\ flawed \in BOOLEAN

(* There is no database yet, or an earlier run of the server filled it.     *)
Init ==
    /\ savePc = "open"
    /\ inserts = 0
    /\ transaction = FALSE
    /\ disk \in {0, Entries} /\ work = disk
    /\ flawed = FALSE

Goes(from, to) == savePc = from /\ savePc' = to

(* sqlite3_open() and the creation of the tables.  When they fail all later *)
(* calls do too, unless already the text of the error, to which nothing     *)
(* points if the file could not be opened, crashes the process (Restart).   *)
OpenDatabase ==
    /\ \/ Goes("open", "delete") /\ UNCHANGED flawed
       \/ Goes("open", "filled") /\ flawed' = TRUE
    /\ UNCHANGED <<inserts, transaction, work, disk>>

(* DELETE FROM deviceValues, before the transaction begins.                 *)
DeleteContent ==
    /\ Goes("delete", "begin")
    /\ \/ work' = 0 /\ disk' = 0 /\ flawed' = FALSE
       \/ UNCHANGED <<work, disk>> /\ flawed' = TRUE
    /\ UNCHANGED <<inserts, transaction>>

(* Mutant of BeginTransaction: there is no transaction.                     *)
BeginNothing ==
    /\ Goes("begin", "insert")
    /\ inserts' = 0
    /\ UNCHANGED <<transaction, work, disk, flawed>>

BeginTransaction ==
    /\ Goes("begin", "insert")
    /\ inserts' = 0
    /\ transaction' = TRUE
    /\ UNCHANGED <<work, disk, flawed>>

OneMore(n) == IF n \in 0 .. Entries THEN n + 1 ELSE n

(* One round of the loop.  The UPDATE in it changes no row: it looks for the *)
(* row's localId in the column id, which the INSERT leaves empty.           *)
InsertRow ==
    /\ Goes("insert", "insert")
    /\ inserts < Entries
    /\ inserts' = inserts + 1
    /\ \/ /\ work' = OneMore(work)
          /\ disk' = IF transaction THEN disk ELSE OneMore(work)
          /\ UNCHANGED <<transaction, flawed>>
       \/ /\ flawed' = TRUE
          /\ \/ UNCHANGED <<transaction, work>>
             \/ transaction' = FALSE /\ work' = disk
          /\ UNCHANGED disk

(* END TRANSACTION.  If it fails nothing is ever committed: the process ends *)
(* with the transaction, which Save::close() cannot save either.            *)
EndTransaction ==
    /\ Goes("insert", "filled")
    /\ inserts = Entries
    /\ \/ disk' = work /\ UNCHANGED <<work, flawed>>
       \/ work' = disk /\ flawed' = TRUE /\ UNCHANGED disk
    /\ transaction' = FALSE
    /\ UNCHANGED inserts

(* The process is killed, or crashes, and is started again (external).      *)
Restart ==
    /\ savePc' = "open"
    /\ inserts' = 0
    /\ transaction' = FALSE
    /\ work' = disk
    /\ UNCHANGED <<disk, flawed>>

Next == \/ OpenDatabase
        \/ DeleteContent
        \/ BeginTransaction
        \/ InsertRow
        \/ EndTransaction
        \/ Restart

StorageSpec == Init /\ [][Next]_saveVars
----------------------------------------------------------------------------
(* Whenever the server is killed while it starts, it leaves all entries in   *)
(* the database or none, never a part of them, and no entry twice; once      *)
(* init() is done all are there.  A statement that failed is the exception.  *)
DataWhole ==
    ~flawed => /\ disk \in {0, Entries}
               /\ savePc = "filled" => disk = Entries
============================================================================
