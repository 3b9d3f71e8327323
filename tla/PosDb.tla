-------------------------------- MODULE PosDb --------------------------------
(***************************************************************************)
(* pos_db: receipts are written to an SQLite database by the handlers of   *)
(* one service thread, each receipt in a transaction of several exec calls *)
(* whose errors are printed and otherwise ignored.  Between any two of     *)
(* them the process may crash, which loses the queue and the transaction   *)
(* and keeps what was committed.                                           *)
(*                                                                         *)
(* SQLite is modelled by what the calls made here need: a connection with  *)
(* its view of the data, autocommit, and last_insert_rowid, which is that  *)
(* of the last successful INSERT into any table.  Tables only grow, so a   *)
(* table is the sequence of its rows and a row's id is its place.          *)
(*                                                                         *)
(* Receipts are numbered in the order they are written.  The queries       *)
(* change nothing; what they return is ItemsOf.                            *)
(***************************************************************************)
EXTENDS Naturals, Sequences, FiniteSets

CONSTANTS
  MaxWrites,   \* bound: the number of receipts written
  MaxQueue,    \* bound: the number of handlers that wait
  ItemCount    \* the number of items of each receipt

ASSUME BoundAssumption == MaxWrites \in Nat /\ MaxQueue \in Nat
ASSUME ItemCountAssumption == ItemCount \in [1..MaxWrites -> Nat]

VARIABLES
  queue,       \* handlers posted to the service and not run yet
  disk,        \* the committed data
  view,        \* the data as the connection sees it
  isOpen,      \* sqlite_con::_db is not null
  txn,         \* a transaction is open (autocommit is off)
  lastRowid,   \* sqlite3_last_insert_rowid
  pc,          \* the next exec call of the handler that runs, or "idle"
  current,     \* the receipt it writes
  rowid,       \* on_write's rowid
  next,        \* on_write's loop index over the items
  caller,      \* the thread that calls config: "idle", or inside sync_call
  configured,  \* its last call of config had a path
  written,     \* the number of receipts passed to write
  faulty,      \* a statement has failed
  owed,        \* receipts written while configured, and not promised yet
  promised     \* receipts that were owed when config("") returned

connection == <<disk, view, isOpen, txn, lastRowid>>
handler    == <<pc, current, rowid, next>>
history    == <<configured, written, faulty, owed, promised>>
vars       == <<queue, connection, handler, caller, history>>

Receipts == 1..MaxWrites
Request  == [op : {"open", "close", "write", "terminal"}, receipt : Receipts \cup {0}]

\* Bound: the rows of t_info, of which one is enough.
MaxInfo == 2

Data == [info : 0..MaxInfo,                \* rows of t_info
         records : Seq(Receipts),          \* t_record
         items : Seq([id : Nat, i : Nat, receipt : Receipts]),  \* t_item
         terminals : Seq(Receipts)]        \* t_record_terminal

NoData == [info |-> 0, records |-> <<>>, items |-> <<>>, terminals |-> <<>>]

-----------------------------------------------------------------------------
(***************************************************************************)
(* The other threads: pos_db::write, write_terminal_record and config.     *)
(***************************************************************************)
\* Variant for a mutant run: the handler overtakes those posted before.
PutFirst(request) == <<request>> \o queue

PutLast(request) == Append(queue, request)

Post(op, r) ==
  /\ Len(queue) < MaxQueue
  /\ queue' = PutLast([op |-> op, receipt |-> r])

Write(op) ==
  /\ written < MaxWrites
  /\ Post(op, written + 1)
  /\ written' = written + 1
  /\ owed' = IF configured THEN owed \cup {written + 1} ELSE owed
  /\ UNCHANGED <<connection, handler, caller, configured, faulty, promised>>

\* config with a path is asynchronous.
ConfigPath ==
  /\ caller = "idle"
  /\ Post("open", 0)
  /\ configured' = TRUE
  /\ UNCHANGED <<connection, handler, caller, written, faulty, owed, promised>>

\* Variant for a mutant run: config without a path is asynchronous too.
DoesNotWait == "returning"

WaitsForClose == "closing"

\* config without a path waits for the database to be closed.
ConfigNone ==
  /\ caller = "idle"
  /\ Post("close", 0)
  /\ caller' = WaitsForClose
  /\ configured' = FALSE
  /\ UNCHANGED <<connection, handler, written, faulty, owed, promised>>

\* config returns: what was written before the call is on the disk.
ConfigReturns ==
  /\ caller = "returning"
  /\ caller' = "idle"
  /\ promised' = promised \cup owed
  /\ owed' = {}
  /\ UNCHANGED <<queue, connection, handler, configured, written, faulty>>

-----------------------------------------------------------------------------
(***************************************************************************)
(* SQLite.  A statement succeeds, fails, or fails and rolls back the       *)
(* transaction (a full disk, an I/O error).  Without a transaction a       *)
(* statement that succeeds is committed.                                   *)
(***************************************************************************)
Succeeds(data, id) ==
  /\ view' = data
  /\ disk' = IF txn THEN disk ELSE data
  /\ lastRowid' = id
  /\ UNCHANGED <<isOpen, txn, faulty>>

Fails ==
  /\ \/ UNCHANGED <<view, txn>>
     \/ view' = disk /\ txn' = FALSE
  /\ faulty' = TRUE
  /\ UNCHANGED <<disk, isOpen, lastRowid>>

\* PRAGMA foreign_keys does nothing inside a transaction (sqlite3.c 111016).
PragmaForeignKeys(inTransaction) == ~inTransaction

\* open() runs the pragma behind its BEGIN, so keys are not enforced.
ForeignKeys == PragmaForeignKeys(TRUE)

\* The service thread takes a handler of kind op off the queue.
Takes(op) ==
  /\ pc = "idle"
  /\ queue # <<>>
  /\ Head(queue).op = op
  /\ queue' = Tail(queue)

-----------------------------------------------------------------------------
(***************************************************************************)
(* on_config: closing rolls an open transaction back; opening creates the  *)
(* tables and t_info's row in one transaction.                             *)
(***************************************************************************)
Opened ==
  /\ isOpen' = TRUE
  /\ view' = [disk EXCEPT !.info = IF @ = 0 THEN 1 ELSE @]
  /\ disk' = view'
  /\ lastRowid' = IF disk.info = 0 THEN 1 ELSE 0
  /\ txn' = FALSE
  /\ UNCHANGED faulty

\* open() with a statement that fails: its END commits what has succeeded, or
\* leaves the transaction open, or nothing of it remains; the database is used
\* all the same.  A SELECT that fails makes it insert t_info's row again.
OpenedPartly ==
  /\ faulty' = TRUE
  /\ isOpen' = TRUE
  /\ \E n \in {disk.info, disk.info + 1} \cap 0..MaxInfo :
       LET data == [disk EXCEPT !.info = n] IN
       /\ lastRowid' = IF n = disk.info THEN 0 ELSE n
       /\ \/ view' = data /\ disk' = data /\ txn' = FALSE
          \/ view' = data /\ txn' = TRUE /\ UNCHANGED disk
          \/ view' = disk /\ txn' = FALSE /\ UNCHANGED disk

Closed ==
  /\ isOpen' = FALSE
  /\ view' = disk
  /\ lastRowid' = 0
  /\ txn' = FALSE
  /\ UNCHANGED disk

OnConfigPath ==
  /\ Takes("open")
  /\ \/ Opened \/ OpenedPartly
     \/ Closed /\ faulty' = TRUE
  /\ UNCHANGED <<handler, caller, configured, written, owed, promised>>

\* The sync_handler of config("") notifies its caller.
OnConfigNone ==
  /\ Takes("close")
  /\ Closed
  /\ caller' = IF caller = "closing" THEN "returning" ELSE caller
  /\ UNCHANGED <<handler, history>>

-----------------------------------------------------------------------------
(***************************************************************************)
(* on_write and on_write_terminal_record, one action per exec call.        *)
(***************************************************************************)
\* exec does nothing when no database is open, and last_rowid is 0.
Drop(op) ==
  /\ ~isOpen
  /\ Takes(op)
  /\ UNCHANGED <<connection, handler, caller, history>>

\* Variant for a mutant run: the transaction is not begun.
NotBegun == FALSE

Begun == TRUE

\* BEGIN fails inside a transaction that an earlier END has left open.
Begin(op, first) ==
  /\ isOpen
  /\ Takes(op)
  /\ txn' = (txn \/ Begun)
  /\ pc' = first
  /\ current' = Head(queue).receipt
  /\ UNCHANGED <<disk, view, isOpen, lastRowid, rowid, next, caller, history>>

\* Variant for a mutant run: the loop runs once too often.
OneMoreItem(n) == n <= ItemCount[current]

IsItem(n) == n < ItemCount[current]

\* rowid is read whether or not the INSERT has succeeded.
InsertRecord ==
  /\ pc = "record"
  /\ \/ Succeeds([view EXCEPT !.records = Append(@, current)], Len(view.records) + 1)
     \/ Fails
  /\ rowid' = lastRowid'
  /\ next' = 0
  /\ pc' = IF rowid' # 0 /\ IsItem(0) THEN "item" ELSE "end"
  /\ UNCHANGED <<queue, current, caller, configured, written, owed, promised>>

Item == [id |-> rowid, i |-> next, receipt |-> current]

InsertItem ==
  /\ pc = "item"
  /\ \/ /\ ForeignKeys => rowid \in DOMAIN view.records
        /\ Succeeds([view EXCEPT !.items = Append(@, Item)], Len(view.items) + 1)
     \/ Fails
  /\ next' = next + 1
  /\ pc' = IF IsItem(next + 1) THEN "item" ELSE "end"
  /\ UNCHANGED <<queue, current, rowid, caller, configured, written, owed, promised>>

InsertTerminal ==
  /\ pc = "terminal"
  /\ \/ Succeeds([view EXCEPT !.terminals = Append(@, current)],
                 Len(view.terminals) + 1)
     \/ Fails
  /\ pc' = "end"
  /\ UNCHANGED <<queue, current, rowid, next, caller, configured, written, owed, promised>>

\* END commits; a failed one leaves the transaction open or rolls it back.
End ==
  /\ pc = "end"
  /\ \/ disk' = view /\ txn' = FALSE /\ UNCHANGED <<view, isOpen, lastRowid, faulty>>
     \/ Fails
  /\ pc' = "idle"
  /\ UNCHANGED <<queue, current, rowid, next, caller, configured, written, owed, promised>>

(***************************************************************************)
(* The process dies and is started again.                                  *)
(***************************************************************************)
Crash ==
  /\ queue' = <<>>
  /\ Closed
  /\ pc' = "idle"
  /\ caller' = "idle"
  /\ configured' = FALSE
  /\ owed' = {}
  /\ UNCHANGED <<current, rowid, next, written, faulty, promised>>

-----------------------------------------------------------------------------
Init ==
  /\ queue = <<>>
  /\ disk = NoData /\ view = NoData
  /\ isOpen = FALSE /\ txn = FALSE
  /\ lastRowid = 0
  /\ pc = "idle" /\ current = 0 /\ rowid = 0 /\ next = 0
  /\ caller = "idle" /\ configured = FALSE
  /\ faulty = FALSE
  /\ written = 0 /\ owed = {} /\ promised = {}

OnWrite == \/ Drop("write") \/ Begin("write", "record")
           \/ InsertRecord \/ InsertItem \/ End

OnWriteTerminal == Drop("terminal") \/ Begin("terminal", "terminal") \/ InsertTerminal

Next ==
  \/ Write("write") \/ Write("terminal")
  \/ ConfigPath \/ ConfigNone \/ ConfigReturns
  \/ OnConfigPath \/ OnConfigNone \/ OnWrite \/ OnWriteTerminal
  \/ Crash

Spec == Init /\ [][Next]_vars

-----------------------------------------------------------------------------
(***************************************************************************)
(* Properties.                                                             *)
(***************************************************************************)

\* Every variable has its type; on_write reads only items its record has.
TypeOK ==
  /\ queue \in Seq(Request)
  /\ disk \in Data /\ view \in Data
  /\ isOpen \in BOOLEAN /\ txn \in BOOLEAN 
  /\ configured \in BOOLEAN /\ faulty \in BOOLEAN
  /\ {lastRowid, rowid, next} \subseteq Nat
  /\ pc \in {"idle", "record", "item", "terminal", "end"}
  /\ pc = "item" => next < ItemCount[current]
  /\ caller \in {"idle", "closing", "returning"}
  /\ written \in 0..MaxWrites
  /\ owed \subseteq Receipts /\ promised \subseteq Receipts

\* The rows that query_items selects for a record, whose items it returns in
\* the order of their i.
ItemsOf(data, id) == {k \in DOMAIN data.items : data.items[k].id = id}

\* The items of a record are the first n ones of its receipt, each stored once.
Listed(data, id, n) ==
  /\ \A k \in ItemsOf(data, id) : data.items[k].receipt = data.records[id]
  /\ {data.items[k].i : k \in ItemsOf(data, id)} = 0..(n - 1)
  /\ \A j, k \in ItemsOf(data, id) : data.items[j].i = data.items[k].i => j = k

\* Every record has all the items of its receipt, and no item is without one.
Whole(data) ==
  /\ \A id \in DOMAIN data.records : Listed(data, id, ItemCount[data.records[id]])
  /\ \A k \in DOMAIN data.items : data.items[k].id \in DOMAIN data.records

\* A record is on the disk with all its items, in order, or not at all,
\* wherever the process crashes; and so is it for every query, which runs
\* between two handlers.  (While no statement fails.)
ReceiptsWhole == ~faulty => Whole(disk) /\ (pc = "idle" => Whole(view))

\* Receipts written while the database was configured are on the disk when
\* config("") returns, whatever crashes later.  (While no statement fails.)
\* And then no handler that could still touch the file is at work, and the
\* database is closed: it may be removed or unmounted.
PromisesKept ==
  /\ ~faulty => \A r \in promised :
       \/ \E id \in DOMAIN disk.records : disk.records[id] = r
       \/ \E id \in DOMAIN disk.terminals : disk.terminals[id] = r
  /\ caller = "returning" => ~isOpen /\ pc = "idle"

\* Whatever fails and whenever the process crashes, the file is a log: what is
\* on the disk stays there as it is, and receipts are added in the order in
\* which they were written, none twice, across transactions that were left open.
Log == INSTANCE ReceiptLog WITH records <- disk.records, terminals <- disk.terminals

LogGrows == Log!Spec

\* fkey0 of t_item: every item refers to a record that exists.
ItemsReferToRecords ==
  \A k \in DOMAIN disk.items : disk.items[k].id \in DOMAIN disk.records
=============================================================================
