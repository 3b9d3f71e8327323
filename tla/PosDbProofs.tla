----------------------------- MODULE PosDbProofs -----------------------------
(***************************************************************************)
(* Proofs about PosDb, for any number of receipts with any numbers of      *)
(* items, and any length of the queue.                                     *)
(*                                                                         *)
(* Receipts are stored in order because every receipt in a table is older  *)
(* than the one being written, and that one older than all that wait       *)
(* (OrderInv); the file is a log because the connection sees all that is on*)
(* the disk (GrowInv).  Receipts are whole because, while no statement     *)
(* fails, a transaction is open exactly while a handler is at work         *)
(* (WholeInv).  A promise is kept because a receipt that is owed is stored,*)
(* or waits behind the opening of the database and before its closing      *)
(* (CallerInv, OwedInv).                                                   *)
(***************************************************************************)
EXTENDS PosDb, TLAPS, SequenceTheorems

-----------------------------------------------------------------------------
(***************************************************************************)
(* The inductive invariant.                                                *)
(***************************************************************************)
Writes(request) == request.op \in {"write", "terminal"}

\* Every receipt of the table is older than r.
Older(table, r) == \A k \in DOMAIN table : table[k] < r

Tables == {disk.records, disk.terminals, view.records, view.terminals}

\* The requests to write wait in the order of their receipts, behind the
\* receipt that is being written and all that have been.
OrderInv ==
  /\ \A table \in Tables :
       /\ Log!Increasing(table)
       /\ Older(table, written + 1)
       /\ pc \in {"record", "terminal"} => Older(table, current)
       /\ \A i \in DOMAIN queue : Writes(queue[i]) => Older(table, queue[i].receipt)
  /\ pc # "idle" => current \in Receipts /\ current <= written
  /\ \A i \in DOMAIN queue : Writes(queue[i]) =>
       /\ queue[i].receipt \in 1..written
       /\ pc # "idle" => current < queue[i].receipt
  /\ \A i, j \in DOMAIN queue :
       i < j /\ Writes(queue[i]) /\ Writes(queue[j]) => queue[i].receipt < queue[j].receipt

\* The record that the handler writes is the last one, with its first items.
WholeBut(data) ==
  /\ data.records # <<>>
  /\ rowid = Len(data.records) /\ data.records[rowid] = current
  /\ \A id \in DOMAIN data.records :
       Listed(data, id, IF id = rowid THEN next ELSE ItemCount[data.records[id]])
  /\ \A k \in DOMAIN data.items : data.items[k].id \in DOMAIN data.records

\* A transaction is open while a handler is at work, and holds what it has
\* done so far.
WholeInv ==
  ~faulty =>
    /\ Whole(disk)
    /\ txn = (pc # "idle")
    /\ pc \in {"idle", "record", "terminal"} => view = disk
    /\ pc = "item" => WholeBut(view)
    /\ pc = "end" => Whole(view)

\* config("") is under way: its request waits with no opening behind it, or
\* it has run and left the database closed.
CallerInv ==
  /\ configured => caller = "idle"
  /\ pc # "idle" => isOpen
  /\ caller = "closing" =>
       \E i \in DOMAIN queue : queue[i].op = "close"
  /\ caller # "closing" => \A i \in DOMAIN queue : queue[i].op # "close"
  /\ \A i, j \in DOMAIN queue :
       i < j /\ queue[i].op = "close" => queue[j].op \notin {"open", "close"}
  /\ caller = "returning" =>
       /\ ~isOpen /\ pc = "idle"
       /\ \A i \in DOMAIN queue : queue[i].op # "open"

\* The database is open when the k-th request is handled.
OpenAt(k) ==
  /\ isOpen \/ \E j \in 1..(k - 1) : queue[j].op = "open"
  /\ \A j \in 1..(k - 1) : queue[j].op # "close"

StoredIn(data, r) ==
  \/ \E id \in DOMAIN data.records : data.records[id] = r
  \/ \E id \in DOMAIN data.terminals : data.terminals[id] = r

Owing(r) ==
  \/ StoredIn(view, r)
  \/ pc \in {"record", "terminal"} /\ current = r
  \/ \E k \in DOMAIN queue : Writes(queue[k]) /\ queue[k].receipt = r /\ OpenAt(k)

OwedInv ==
  /\ owed \subseteq 1..written /\ promised \subseteq 1..written
  /\ ~configured /\ caller = "idle" => owed = {}
  /\ ~faulty =>
       /\ configured => isOpen \/ \E j \in DOMAIN queue : queue[j].op = "open"
       /\ \A r \in promised : StoredIn(disk, r) /\ StoredIn(view, r)
       /\ \A r \in owed : Owing(r)

\* What the connection sees is what is on the disk, and perhaps more.
GrowInv ==
  /\ Log!IsPrefix(disk.records, view.records)
  /\ Log!IsPrefix(disk.terminals, view.terminals)

Inv == TypeOK /\ OrderInv /\ GrowInv /\ WholeInv /\ CallerInv /\ OwedInv

-----------------------------------------------------------------------------
(***************************************************************************)
(* Lemmas on the queue.                                                    *)
(***************************************************************************)
\* What a posted request does to the queue.
LEMMA Posted ==
  ASSUME NEW op, NEW r, queue \in Seq(Request), Post(op, r),
         [op |-> op, receipt |-> r] \in Request
  PROVE  /\ queue' \in Seq(Request)
         /\ Len(queue) \in Nat
         /\ DOMAIN queue = 1..Len(queue)
         /\ DOMAIN queue' = 1..(Len(queue) + 1)
         /\ \A i \in 1..Len(queue) : queue'[i] = queue[i]
         /\ queue'[Len(queue) + 1] = [op |-> op, receipt |-> r]
<1> DEFINE x == [op |-> op, receipt |-> r]
<1> HIDE DEF x
<1>1. queue' = Append(queue, x) /\ x \in Request
  BY DEF Post, PutLast, x
<1> QED BY <1>1, AppendProperties DEF x

\* What taking the first handler off the queue does to it.
LEMMA Taken ==
  ASSUME NEW op, queue \in Seq(Request), Takes(op)
  PROVE  /\ pc = "idle"
         /\ queue' \in Seq(Request)
         /\ Len(queue) \in Nat \ {0}
         /\ DOMAIN queue = 1..Len(queue)
         /\ DOMAIN queue' = 1..(Len(queue) - 1)
         /\ \A i \in 1..(Len(queue) - 1) : i + 1 \in DOMAIN queue /\ queue'[i] = queue[i + 1]
         /\ 1 \in DOMAIN queue /\ queue[1].op = op /\ Head(queue) = queue[1]
         /\ queue[1] \in Request
BY DEF Takes

-----------------------------------------------------------------------------
(***************************************************************************)
(* Types.                                                                  *)
(***************************************************************************)
ItemRows == [id : Nat, i : Nat, receipt : Receipts]

\* A table of data may be replaced by another one, and the rest stays.
LEMMA DataExcept ==
  ASSUME NEW data \in Data
  PROVE  /\ \A s \in Seq(Receipts) :
              /\ [data EXCEPT !.records = s] \in Data
              /\ [data EXCEPT !.records = s].records = s
              /\ [data EXCEPT !.records = s].items = data.items
              /\ [data EXCEPT !.records = s].terminals = data.terminals
              /\ [data EXCEPT !.terminals = s] \in Data
              /\ [data EXCEPT !.terminals = s].terminals = s
              /\ [data EXCEPT !.terminals = s].items = data.items
              /\ [data EXCEPT !.terminals = s].records = data.records
         /\ \A s \in Seq(ItemRows) :
              /\ [data EXCEPT !.items = s] \in Data
              /\ [data EXCEPT !.items = s].items = s
              /\ [data EXCEPT !.items = s].records = data.records
              /\ [data EXCEPT !.items = s].terminals = data.terminals
         /\ \A n \in 0..MaxInfo :
              /\ [data EXCEPT !.info = n] \in Data
              /\ [data EXCEPT !.info = n].items = data.items
              /\ [data EXCEPT !.info = n].records = data.records
              /\ [data EXCEPT !.info = n].terminals = data.terminals
BY DEF Data, ItemRows

\* What an exec call leaves has its type, whether or not it succeeds.
LEMMA StatementTypes ==
  ASSUME TypeOK,
         \/ \E data \in Data, id \in Nat : Succeeds(data, id)
         \/ Fails
  PROVE  /\ disk' \in Data /\ view' \in Data
         /\ isOpen' \in BOOLEAN /\ txn' \in BOOLEAN /\ faulty' \in BOOLEAN
         /\ lastRowid' \in Nat
<1>1. ASSUME NEW data \in Data, NEW id \in Nat, Succeeds(data, id)
      PROVE  /\ disk' \in Data /\ view' \in Data
             /\ isOpen' \in BOOLEAN /\ txn' \in BOOLEAN /\ faulty' \in BOOLEAN
             /\ lastRowid' \in Nat
  BY <1>1 DEF Succeeds, TypeOK
<1>2. CASE Fails
  BY <1>2 DEF Fails, TypeOK
<1> QED BY <1>1, <1>2

\* Opening and closing the database leave its tables but t_info as they are.
LEMMA Reopened ==
  ASSUME disk \in Data, Opened \/ OpenedPartly \/ Closed
  PROVE  \E data \in Data :
           /\ data.records = disk.records /\ data.terminals = disk.terminals
           /\ data.items = disk.items
           /\ disk' \in {disk, data} /\ view' \in {disk, data}
           /\ Opened => disk' = view'
           /\ isOpen' \in BOOLEAN /\ txn' \in BOOLEAN /\ lastRowid' \in Nat
<1>1. disk.info \in 0..MaxInfo /\ 1 \in 0..MaxInfo /\ MaxInfo = 2
  BY DEF Data, MaxInfo
<1> DEFINE With(n) == [disk EXCEPT !.info = n]
<1>2. ASSUME NEW n \in 0..MaxInfo
      PROVE  /\ With(n) \in Data /\ With(n).records = disk.records
             /\ With(n).terminals = disk.terminals /\ With(n).items = disk.items
  BY DataExcept
<1>3. CASE Opened
  <2> DEFINE n == IF disk.info = 0 THEN 1 ELSE disk.info
  <2>1. /\ view' = With(n) /\ disk' = view' /\ isOpen' = TRUE /\ txn' = FALSE
        /\ lastRowid' \in Nat
    BY <1>3 DEF Opened
  <2>2. n \in 0..MaxInfo
    BY <1>1
  <2> HIDE DEF n, With
  <2> QED BY <1>2, <2>1, <2>2
<1>4. CASE OpenedPartly
  <2>1. PICK n \in {disk.info, disk.info + 1} \cap 0..MaxInfo :
          /\ lastRowid' = IF n = disk.info THEN 0 ELSE n
          /\ \/ view' = With(n) /\ disk' = With(n) /\ txn' = FALSE
             \/ view' = With(n) /\ txn' = TRUE /\ UNCHANGED disk
             \/ view' = disk /\ txn' = FALSE /\ UNCHANGED disk
    BY <1>4 DEF OpenedPartly
  <2>2. n \in 0..MaxInfo /\ n \in Nat
    BY <1>1, <2>1
  <2>3. isOpen' = TRUE
    BY <1>4 DEF OpenedPartly
  <2>4. lastRowid' \in Nat
    BY <2>1, <2>2
  <2>5. Opened => disk' = view'
    BY DEF Opened
  <2> HIDE DEF With
  <2> QED BY <1>2, <2>1, <2>2, <2>3, <2>4, <2>5
<1>5. CASE Closed
  <2>1. Opened => disk' = view'
    BY DEF Opened
  <2> QED BY <1>5, <2>1 DEF Closed
<1> QED BY <1>3, <1>4, <1>5

\* Opening and closing the database keep the types.
LEMMA ConnectionTypes ==
  ASSUME TypeOK, Opened \/ OpenedPartly \/ Closed
  PROVE  /\ disk' \in Data /\ view' \in Data
         /\ isOpen' \in BOOLEAN /\ txn' \in BOOLEAN
         /\ lastRowid' \in Nat
<1>1. disk \in Data
  BY DEF TypeOK
<1> QED BY <1>1, Reopened

LEMMA TypeStep ==
  ASSUME TypeOK, OrderInv, [Next]_vars
  PROVE  TypeOK'
<1> USE BoundAssumption DEF TypeOK
<1>1. ASSUME NEW op \in {"write", "terminal"}, Write(op) PROVE TypeOK'
  <2>1. written + 1 \in Receipts /\ [op |-> op, receipt |-> written + 1] \in Request
    BY <1>1 DEF Write, Receipts, Request
  <2>2. queue' \in Seq(Request)
    BY <1>1, <2>1, Posted DEF Write
  <2>3. owed' \subseteq Receipts /\ written' \in 0..MaxWrites
    <3>1. written < MaxWrites /\ written' = written + 1 /\ owed' \subseteq owed \cup {written + 1}
      BY <1>1 DEF Write
    <3>2. written' \in 0..MaxWrites
      BY <3>1
    <3> QED BY <2>1, <3>1, <3>2
  <2> QED BY <1>1, <2>2, <2>3 DEF Write, connection, handler
<1>2. CASE ConfigPath
  <2>1. queue' \in Seq(Request)
    BY <1>2, Posted DEF ConfigPath, Request
  <2> QED BY <1>2, <2>1 DEF ConfigPath, connection, handler
<1>3. CASE ConfigNone
  <2>1. queue' \in Seq(Request)
    BY <1>3, Posted DEF ConfigNone, Request
  <2> QED BY <1>3, <2>1 DEF ConfigNone, connection, handler, WaitsForClose
<1>4. CASE ConfigReturns
  BY <1>4 DEF ConfigReturns, connection, handler
<1>5. CASE OnConfigPath
  <2>1. queue' \in Seq(Request)
    BY <1>5, Taken DEF OnConfigPath
  <2>2. disk' \in Data /\ view' \in Data /\ isOpen' \in BOOLEAN /\ txn' \in BOOLEAN
        /\ lastRowid' \in Nat
    BY <1>5, ConnectionTypes DEF OnConfigPath
  <2>3. faulty' \in BOOLEAN
    BY <1>5 DEF OnConfigPath, Opened, OpenedPartly
  <2> QED BY <1>5, <2>1, <2>2, <2>3 DEF OnConfigPath, handler
<1>6. CASE OnConfigNone
  <2>1. queue' \in Seq(Request)
    BY <1>6, Taken DEF OnConfigNone
  <2>2. disk' \in Data /\ view' \in Data /\ isOpen' \in BOOLEAN /\ txn' \in BOOLEAN
        /\ lastRowid' \in Nat
    BY <1>6, ConnectionTypes DEF OnConfigNone
  <2> QED BY <1>6, <2>1, <2>2 DEF OnConfigNone, handler, history
<1>7. ASSUME NEW op, Drop(op) PROVE TypeOK'
  <2>1. queue' \in Seq(Request)
    BY <1>7, Taken DEF Drop
  <2> QED BY <1>7, <2>1 DEF Drop, connection, handler, history
<1>8. ASSUME NEW op, NEW first \in {"record", "terminal"}, Begin(op, first) PROVE TypeOK'
  <2>1. queue' \in Seq(Request)
    BY <1>8, Taken DEF Begin
  <2> QED BY <1>8, <2>1 DEF Begin, Begun, history
<1>9. CASE InsertRecord
  <2>1. current \in Receipts
    BY <1>9 DEF InsertRecord, OrderInv
  <2>2. [view EXCEPT !.records = Append(@, current)] \in Data /\ Len(view.records) + 1 \in Nat
    <3>1. view.records \in Seq(Receipts) /\ Len(view.records) \in Nat
      BY DEF Data
    <3>2. Append(view.records, current) \in Seq(Receipts)
      BY <2>1, <3>1, AppendProperties
    <3>3. view \in Data
      OBVIOUS
    <3>4. [view EXCEPT !.records = Append(@, current)] \in Data
      BY <3>2, <3>3, DataExcept
    <3> QED BY <3>1, <3>4
  <2>3. /\ disk' \in Data /\ view' \in Data
        /\ isOpen' \in BOOLEAN /\ txn' \in BOOLEAN /\ faulty' \in BOOLEAN
        /\ lastRowid' \in Nat
    BY <1>9, <2>2, StatementTypes DEF InsertRecord
  <2> QED BY <1>9, <2>3 DEF InsertRecord, IsItem
<1>10. CASE InsertItem
  <2>1. current \in Receipts
    BY <1>10 DEF InsertItem, OrderInv
  <2>2. /\ Item \in [id : Nat, i : Nat, receipt : Receipts]
        /\ Len(view.items) + 1 \in Nat
    BY <2>1 DEF Data, Item
  <2>3. [view EXCEPT !.items = Append(@, Item)] \in Data
    <3>1. view.items \in Seq(ItemRows)
      BY DEF Data, ItemRows
    <3>2. Append(view.items, Item) \in Seq(ItemRows)
      BY <2>2, <3>1, AppendProperties DEF ItemRows
    <3> QED BY <3>2, DataExcept
  <2>4. /\ disk' \in Data /\ view' \in Data
        /\ isOpen' \in BOOLEAN /\ txn' \in BOOLEAN /\ faulty' \in BOOLEAN
        /\ lastRowid' \in Nat
    BY <1>10, <2>2, <2>3, StatementTypes DEF InsertItem
  <2> QED BY <1>10, <2>4 DEF InsertItem, IsItem
<1>11. CASE InsertTerminal
  <2>1. current \in Receipts
    BY <1>11 DEF InsertTerminal, OrderInv
  <2>2. [view EXCEPT !.terminals = Append(@, current)] \in Data /\ Len(view.terminals) + 1 \in Nat
    <3>1. view.terminals \in Seq(Receipts) /\ Len(view.terminals) \in Nat
      BY DEF Data
    <3>2. Append(view.terminals, current) \in Seq(Receipts)
      BY <2>1, <3>1, AppendProperties
    <3>3. view \in Data
      OBVIOUS
    <3>4. [view EXCEPT !.terminals = Append(@, current)] \in Data
      BY <3>2, <3>3, DataExcept
    <3> QED BY <3>1, <3>4
  <2>3. /\ disk' \in Data /\ view' \in Data
        /\ isOpen' \in BOOLEAN /\ txn' \in BOOLEAN /\ faulty' \in BOOLEAN
        /\ lastRowid' \in Nat
    BY <1>11, <2>2, StatementTypes DEF InsertTerminal
  <2> QED BY <1>11, <2>3 DEF InsertTerminal
<1>12. CASE End
  BY <1>12 DEF End, Fails
<1>13. CASE Crash
  <2>1. disk' \in Data /\ view' \in Data /\ isOpen' \in BOOLEAN /\ txn' \in BOOLEAN
        /\ lastRowid' \in Nat
    BY <1>13, ConnectionTypes DEF Crash
  <2>2. queue' \in Seq(Request) /\ owed' \subseteq Receipts
    BY <1>13 DEF Crash
  <2> QED BY <1>13, <2>1, <2>2 DEF Crash, Closed
<1>14. CASE UNCHANGED vars
  BY <1>14 DEF vars, connection, handler, history
<1> QED BY <1>1, <1>2, <1>3, <1>4, <1>5, <1>6, <1>7, <1>8, <1>9, <1>10, <1>11, <1>12, <1>13,
           <1>14 DEF Next, OnWrite, OnWriteTerminal

-----------------------------------------------------------------------------
(***************************************************************************)
(* The order of the receipts.                                              *)
(***************************************************************************)
\* A receipt that is newer than a table may be appended to it.
LEMMA AppendOrder ==
  ASSUME NEW table \in Seq(Receipts), NEW r \in Receipts,
         Log!Increasing(table), Older(table, r)
  PROVE  /\ Log!Increasing(Append(table, r))
         /\ \A n \in Nat : r < n => Older(Append(table, r), n)
<1>1. /\ Len(table) \in Nat /\ DOMAIN table = 1..Len(table)
      /\ DOMAIN Append(table, r) = 1..(Len(table) + 1)
      /\ Append(table, r)[Len(table) + 1] = r
      /\ \A k \in 1..Len(table) : Append(table, r)[k] = table[k] /\ table[k] \in Receipts
  BY AppendProperties
<1>2. Receipts \subseteq Nat
  BY BoundAssumption DEF Receipts
<1>3. Log!Increasing(Append(table, r))
  BY <1>1 DEF Log!Increasing, Older
<1>4. ASSUME NEW n \in Nat, r < n PROVE Older(Append(table, r), n)
  <2> SUFFICES ASSUME NEW k \in DOMAIN Append(table, r) PROVE Append(table, r)[k] < n
    BY DEF Older
  <2>1. k \in 1..Len(table) \/ k = Len(table) + 1
    BY <1>1
  <2>2. CASE k \in 1..Len(table)
    <3>1. table[k] \in Nat /\ table[k] < r /\ r \in Nat /\ Append(table, r)[k] = table[k]
      BY <1>1, <1>2, <2>2 DEF Older
    <3> QED BY <1>4, <3>1
  <2> QED BY <1>1, <1>4, <2>1, <2>2
<1> QED BY <1>3, <1>4

\* The tables hold receipts.
LEMMA TableTypes ==
  ASSUME TypeOK
  PROVE  \A table \in Tables : table \in Seq(Receipts)
BY DEF TypeOK, Data, Tables

\* A step that writes nothing to a table of receipts and only takes handlers
\* off the queue keeps the order.
LEMMA OrderShrinks ==
  ASSUME OrderInv,
         \A table \in Tables' : table \in Tables,
         UNCHANGED written,
         pc' \notin {"record", "terminal"},
         pc' # "idle" => pc # "idle" /\ current' = current,
         NEW n \in Nat,
         DOMAIN queue' \subseteq Nat,
         \A i \in DOMAIN queue' : i + n \in DOMAIN queue /\ queue'[i] = queue[i + n]
  PROVE  OrderInv'
<1>1. ASSUME NEW table \in Tables'
      PROVE  /\ Log!Increasing(table) /\ Older(table, written' + 1)
             /\ \A i \in DOMAIN queue' : Writes(queue'[i]) => Older(table, queue'[i].receipt)
  BY <1>1 DEF OrderInv
<1>2. pc' # "idle" => current' \in Receipts /\ current' <= written'
  BY DEF OrderInv
<1>3. \A i \in DOMAIN queue' : Writes(queue'[i]) =>
        /\ queue'[i].receipt \in 1..written'
        /\ pc' # "idle" => current' < queue'[i].receipt
  BY DEF OrderInv
<1>4. \A i, j \in DOMAIN queue' : i < j /\ Writes(queue'[i]) /\ Writes(queue'[j]) =>
        queue'[i].receipt < queue'[j].receipt
  BY DEF OrderInv
<1> QED BY <1>1, <1>2, <1>3, <1>4 DEF OrderInv

\* Taking a handler off the queue moves the others by one place.
LEMMA OrderTaken ==
  ASSUME TypeOK, OrderInv, NEW op, Takes(op),
         \A table \in Tables' : table \in Tables,
         UNCHANGED written, pc' = "idle"
  PROVE  OrderInv'
<1>1. /\ DOMAIN queue' \subseteq Nat
      /\ \A i \in DOMAIN queue' : i + 1 \in DOMAIN queue /\ queue'[i] = queue[i + 1]
  BY Taken DEF TypeOK
<1> QED BY <1>1, OrderShrinks

\* A handler that was not taken off: the queue stays.
LEMMA OrderStays ==
  ASSUME TypeOK, OrderInv,
         \A table \in Tables' : table \in Tables,
         UNCHANGED <<queue, written>>,
         pc' \notin {"record", "terminal"},
         pc' # "idle" => pc # "idle" /\ current' = current
  PROVE  OrderInv'
<1>1. /\ DOMAIN queue' \subseteq Nat
      /\ \A i \in DOMAIN queue' : i + 0 \in DOMAIN queue /\ queue'[i] = queue[i + 0]
  <2>1. DOMAIN queue = 1..Len(queue) /\ Len(queue) \in Nat
    BY DEF TypeOK
  <2> QED BY <2>1
<1> QED BY <1>1, OrderShrinks

\* The INSERT of a receipt keeps the order.
LEMMA OrderInserted ==
  ASSUME TypeOK, OrderInv,
         pc \in {"record", "terminal"}, pc' \in {"item", "end"},
         UNCHANGED <<queue, current, written>>,
         \A table \in Tables' :
           table \in Tables \/ \E old \in Tables : table = Append(old, current)
  PROVE  OrderInv'
<1>1. current \in Receipts /\ current <= written /\ written \in Nat /\ current \in Nat
  BY BoundAssumption DEF OrderInv, TypeOK, Receipts
<1>2. ASSUME NEW table \in Tables'
      PROVE  /\ Log!Increasing(table) /\ Older(table, written' + 1)
             /\ \A i \in DOMAIN queue' : Writes(queue'[i]) => Older(table, queue'[i].receipt)
  <2>1. CASE table \in Tables
    BY <2>1 DEF OrderInv
  <2>2. ASSUME NEW old \in Tables, table = Append(old, current)
        PROVE  /\ Log!Increasing(table) /\ Older(table, written' + 1)
               /\ \A i \in DOMAIN queue' :
                    Writes(queue'[i]) => Older(table, queue'[i].receipt)
    <3>1. old \in Seq(Receipts) /\ Log!Increasing(old) /\ Older(old, current)
      BY TableTypes DEF OrderInv
    <3>2. Log!Increasing(table) /\ \A n \in Nat : current < n => Older(table, n)
      BY <1>1, <2>2, <3>1, AppendOrder
    <3>3. \A i \in DOMAIN queue : Writes(queue[i]) =>
            queue[i].receipt \in 1..written /\ current < queue[i].receipt
      BY DEF OrderInv
    <3> QED BY <1>1, <3>2, <3>3
  <2> QED BY <1>2, <2>1, <2>2
<1>3. /\ pc' # "idle" => current' \in Receipts /\ current' <= written'
      /\ \A i \in DOMAIN queue' : Writes(queue'[i]) =>
           /\ queue'[i].receipt \in 1..written'
           /\ pc' # "idle" => current' < queue'[i].receipt
      /\ \A i, j \in DOMAIN queue' : i < j /\ Writes(queue'[i]) /\ Writes(queue'[j]) =>
           queue'[i].receipt < queue'[j].receipt
  BY DEF OrderInv
<1> QED BY <1>2, <1>3 DEF OrderInv

\* A posted request of a new receipt, or of none, keeps the order.
LEMMA OrderPosted ==
  ASSUME TypeOK, OrderInv, NEW op, NEW r,
         Post(op, r), [op |-> op, receipt |-> r] \in Request,
         UNCHANGED <<disk, view, pc, current>>,
         written' \in Nat, written <= written',
         op \in {"write", "terminal"} => r = written + 1 /\ written' = written + 1
  PROVE  OrderInv'
<1>1. /\ Len(queue) \in Nat
      /\ DOMAIN queue = 1..Len(queue)
      /\ DOMAIN queue' = 1..(Len(queue) + 1)
      /\ \A i \in 1..Len(queue) : queue'[i] = queue[i]
      /\ queue'[Len(queue) + 1] = [op |-> op, receipt |-> r]
  BY Posted DEF TypeOK
<1> DEFINE last == queue'[Len(queue) + 1]
<1>2. Writes(last) => last.receipt = written + 1 /\ written' = written + 1
  BY <1>1 DEF Writes
<1> HIDE DEF last
<1>3. /\ Tables' = Tables /\ written \in Nat
      /\ \A i \in DOMAIN queue' :
           \/ i \in DOMAIN queue /\ queue'[i] = queue[i]
           \/ i = Len(queue) + 1 /\ queue'[i] = last
  <2>1. Tables' = Tables /\ written \in Nat
    BY DEF Tables, TypeOK
  <2>2. ASSUME NEW i \in DOMAIN queue'
        PROVE  \/ i \in DOMAIN queue /\ queue'[i] = queue[i]
               \/ i = Len(queue) + 1 /\ queue'[i] = last
    BY <1>1, <2>2 DEF last
  <2> QED BY <2>1, <2>2
<1>4. ASSUME NEW table \in Tables'
      PROVE  /\ Log!Increasing(table) /\ Older(table, written' + 1)
             /\ pc' \in {"record", "terminal"} => Older(table, current')
             /\ \A i \in DOMAIN queue' : Writes(queue'[i]) => Older(table, queue'[i].receipt)
  <2>1. /\ Log!Increasing(table) /\ Older(table, written + 1)
        /\ pc \in {"record", "terminal"} => Older(table, current)
        /\ \A i \in DOMAIN queue : Writes(queue[i]) => Older(table, queue[i].receipt)
    BY <1>3, <1>4 DEF OrderInv
  <2>2. Older(table, written' + 1)
    <3>1. table \in Seq(Receipts)
      BY <1>3, <1>4, TableTypes
    <3>2. \A k \in DOMAIN table : table[k] \in Nat
      BY <3>1, BoundAssumption DEF Receipts
    <3> QED BY <1>3, <2>1, <3>2 DEF Older
  <2> QED BY <1>2, <1>3, <2>1, <2>2
<1>5. /\ pc' # "idle" => current' \in Receipts /\ current' <= written'
      /\ \A i \in DOMAIN queue' : Writes(queue'[i]) =>
           /\ queue'[i].receipt \in 1..written'
           /\ pc' # "idle" => current' < queue'[i].receipt
  BY <1>2, <1>3, BoundAssumption DEF OrderInv, Receipts
<1>6. \A i, j \in DOMAIN queue' : i < j /\ Writes(queue'[i]) /\ Writes(queue'[j]) =>
        queue'[i].receipt < queue'[j].receipt
  <2> SUFFICES ASSUME NEW i \in DOMAIN queue', NEW j \in DOMAIN queue',
                      i < j, Writes(queue'[i]), Writes(queue'[j])
               PROVE  queue'[i].receipt < queue'[j].receipt
    OBVIOUS
  <2>1. i \in DOMAIN queue /\ queue'[i] = queue[i]
    BY <1>1, <1>3
  <2>2. queue[i].receipt \in 1..written
    BY <2>1 DEF OrderInv
  <2> QED BY <1>2, <1>3, <2>1, <2>2 DEF OrderInv
<1> QED BY <1>4, <1>5, <1>6 DEF OrderInv

LEMMA OrderStep ==
  ASSUME TypeOK, OrderInv, [Next]_vars
  PROVE  OrderInv'
<1> USE DEF Tables
<1>1. ASSUME NEW op \in {"write", "terminal"}, Write(op) PROVE OrderInv'
  <2>1. written + 1 \in Receipts /\ [op |-> op, receipt |-> written + 1] \in Request
        /\ written' \in Nat /\ written <= written'
    BY <1>1, BoundAssumption DEF Write, Receipts, Request, TypeOK
  <2> QED BY <1>1, <2>1, OrderPosted DEF Write, connection, handler
<1>2. CASE ConfigPath
  BY <1>2, OrderPosted, BoundAssumption DEF ConfigPath, Request, connection, handler, TypeOK
<1>3. CASE ConfigNone
  BY <1>3, OrderPosted, BoundAssumption DEF ConfigNone, Request, connection, handler, TypeOK
<1>4. CASE ConfigReturns
  BY <1>4 DEF ConfigReturns, connection, handler, OrderInv, Log!Increasing, Older, Writes
<1>5. CASE OnConfigPath
  <2>1. \A table \in Tables' : table \in Tables
    <3>1. disk \in Data /\ (Opened \/ OpenedPartly \/ Closed)
      BY <1>5 DEF TypeOK, OnConfigPath
    <3>2. PICK data \in Data : /\ data.records = disk.records /\ data.terminals = disk.terminals
                               /\ disk' \in {disk, data} /\ view' \in {disk, data}
      BY <3>1, Reopened
    <3> QED BY <3>2
  <2> HIDE DEF Tables
  <2>2. Takes("open") /\ UNCHANGED written /\ pc' = "idle"
    BY <1>5 DEF OnConfigPath, Takes, handler
  <2> QED BY <2>1, <2>2, OrderTaken
<1>6. CASE OnConfigNone
  BY <1>6, OrderTaken DEF OnConfigNone, Closed, Takes, handler, history
<1>7. ASSUME NEW op, Drop(op) PROVE OrderInv'
  BY <1>7, OrderTaken DEF Drop, Takes, handler, history, connection
<1>8. ASSUME NEW op \in {"write", "terminal"}, NEW first, Begin(op, first) PROVE OrderInv'
  <2>1. Takes(op) /\ UNCHANGED <<disk, view, written>> /\ current' = queue[1].receipt
    BY <1>8, Taken DEF Begin, TypeOK, history
  <2>2. /\ DOMAIN queue' = 1..(Len(queue) - 1) /\ Len(queue) \in Nat
        /\ \A i \in DOMAIN queue' : i + 1 \in DOMAIN queue /\ queue'[i] = queue[i + 1]
        /\ 1 \in DOMAIN queue /\ Writes(queue[1])
    BY <2>1, Taken DEF TypeOK, Writes
  <2>3. Tables' = Tables
    BY <2>1
  <2> HIDE DEF Tables
  <2>4. current' \in 1..written /\ current' \in Receipts
    <3>1. queue[1].receipt \in 1..written
      BY <2>2 DEF OrderInv
    <3> QED BY <2>1, <3>1, BoundAssumption DEF TypeOK, Receipts
  <2>5. \A table \in Tables' :
          /\ Log!Increasing(table) /\ Older(table, written' + 1) /\ Older(table, current')
          /\ \A i \in DOMAIN queue' : Writes(queue'[i]) => Older(table, queue'[i].receipt)
    BY <2>1, <2>2, <2>3 DEF OrderInv
  <2>6. \A i \in DOMAIN queue' : Writes(queue'[i]) =>
          queue'[i].receipt \in 1..written' /\ current' < queue'[i].receipt
    <3> SUFFICES ASSUME NEW i \in DOMAIN queue', Writes(queue'[i])
                 PROVE  queue'[i].receipt \in 1..written' /\ current' < queue'[i].receipt
      OBVIOUS
    <3>1. i + 1 \in DOMAIN queue /\ queue'[i] = queue[i + 1] /\ 1 < i + 1
      BY <2>2
    <3> QED BY <2>1, <2>2, <3>1 DEF OrderInv
  <2>7. \A i, j \in DOMAIN queue' : i < j /\ Writes(queue'[i]) /\ Writes(queue'[j]) =>
          queue'[i].receipt < queue'[j].receipt
    <3> SUFFICES ASSUME NEW i \in DOMAIN queue', NEW j \in DOMAIN queue', i < j,
                        Writes(queue'[i]), Writes(queue'[j])
                 PROVE  queue'[i].receipt < queue'[j].receipt
      OBVIOUS
    <3>1. /\ i + 1 \in DOMAIN queue /\ queue'[i] = queue[i + 1] /\ i + 1 < j + 1
          /\ j + 1 \in DOMAIN queue /\ queue'[j] = queue[j + 1]
      BY <2>2
    <3> QED BY <3>1 DEF OrderInv
  <2>8. current' <= written'
    BY <2>1, <2>4 DEF TypeOK
  <2> QED BY <2>4, <2>5, <2>6, <2>7, <2>8 DEF OrderInv
<1>9. CASE InsertRecord
  <2>1. view.records \in Seq(Receipts) /\ current \in Receipts /\ view \in Data
    BY <1>9 DEF InsertRecord, OrderInv, TypeOK, Data
  <2> DEFINE table == Append(view.records, current)
             data == [view EXCEPT !.records = table]
  <2>2. table \in Seq(Receipts)
    BY <2>1, AppendProperties
  <2>3. data.records = table /\ data.terminals = view.terminals
    BY <2>1, <2>2, DataExcept
  <2> HIDE DEF data
  <2>4. Succeeds(data, Len(view.records) + 1) \/ Fails
    BY <1>9 DEF InsertRecord, data
  <2>5. /\ view' \in {view, disk, data} /\ disk' \in {disk, data}
    BY <2>4 DEF Succeeds, Fails
  <2>6. \A t \in Tables' : t \in Tables \/ t = table
    BY <2>3, <2>5
  <2>7. view.records \in Tables
    OBVIOUS
  <2> HIDE DEF Tables
  <2>8. /\ pc \in {"record", "terminal"} /\ pc' \in {"item", "end"}
        /\ UNCHANGED <<queue, current, written>>
    BY <1>9 DEF InsertRecord
  <2> QED BY <2>6, <2>7, <2>8, OrderInserted
<1>10. CASE InsertItem
  <2>1. view \in Data /\ current \in Receipts
    BY <1>10 DEF TypeOK, OrderInv, InsertItem
  <2>2. Append(view.items, Item) \in Seq(ItemRows)
    <3>1. view.items \in Seq(ItemRows) /\ Item \in ItemRows
      BY <2>1 DEF Data, ItemRows, Item, TypeOK
    <3> QED BY <3>1, AppendProperties
  <2> DEFINE data == [view EXCEPT !.items = Append(@, Item)]
  <2>3. data.records = view.records /\ data.terminals = view.terminals
    BY <2>1, <2>2, DataExcept
  <2> HIDE DEF data
  <2>4. Succeeds(data, Len(view.items) + 1) \/ Fails
    BY <1>10 DEF InsertItem, data
  <2>5. /\ view' \in {view, disk, data} /\ disk' \in {disk, data}
    BY <2>4 DEF Succeeds, Fails
  <2>6. \A t \in Tables' : t \in Tables
    BY <2>3, <2>5
  <2> HIDE DEF Tables
  <2>7. /\ pc' \in {"item", "end"} /\ pc = "item"
        /\ UNCHANGED <<queue, current, written>>
    BY <1>10 DEF InsertItem
  <2> QED BY <2>6, <2>7, OrderStays
<1>11. CASE InsertTerminal
  <2>1. view.terminals \in Seq(Receipts) /\ current \in Receipts /\ view \in Data
    BY <1>11 DEF InsertTerminal, OrderInv, TypeOK, Data
  <2> DEFINE table == Append(view.terminals, current)
             data == [view EXCEPT !.terminals = table]
  <2>2. table \in Seq(Receipts)
    BY <2>1, AppendProperties
  <2>3. data.terminals = table /\ data.records = view.records
    BY <2>1, <2>2, DataExcept
  <2> HIDE DEF data
  <2>4. Succeeds(data, Len(view.terminals) + 1) \/ Fails
    BY <1>11 DEF InsertTerminal, data
  <2>5. /\ view' \in {view, disk, data} /\ disk' \in {disk, data}
    BY <2>4 DEF Succeeds, Fails
  <2>6. \A t \in Tables' : t \in Tables \/ t = table
    BY <2>3, <2>5
  <2>7. view.terminals \in Tables
    OBVIOUS
  <2> HIDE DEF Tables
  <2>8. /\ pc \in {"record", "terminal"} /\ pc' \in {"item", "end"}
        /\ UNCHANGED <<queue, current, written>>
    BY <1>11 DEF InsertTerminal
  <2> QED BY <2>6, <2>7, <2>8, OrderInserted
<1>12. CASE End
  <2>1. \A t \in Tables' : t \in Tables
    BY <1>12 DEF End, Fails
  <2> HIDE DEF Tables
  <2> QED BY <1>12, <2>1, OrderStays DEF End
<1>13. CASE Crash
  <2>1. \A t \in Tables' : t \in Tables
    BY <1>13 DEF Crash, Closed
  <2> HIDE DEF Tables
  <2>2. DOMAIN queue' = {}
    BY <1>13 DEF Crash
  <2>3. 0 \in Nat /\ UNCHANGED written /\ pc' = "idle"
    BY <1>13 DEF Crash
  <2> QED BY <2>1, <2>2, <2>3, OrderShrinks
<1>14. CASE UNCHANGED vars
  BY <1>14 DEF vars, connection, handler, history, OrderInv, Log!Increasing, Older, Writes
<1> QED BY <1>1, <1>2, <1>3, <1>4, <1>5, <1>6, <1>7, <1>8, <1>9, <1>10, <1>11, <1>12, <1>13,
           <1>14 DEF Next, OnWrite, OnWriteTerminal

-----------------------------------------------------------------------------
(***************************************************************************)
(* The file is a log.                                                      *)
(***************************************************************************)
LEMMA Prefixes ==
  ASSUME NEW s \in Seq(Receipts), NEW t \in Seq(Receipts)
  PROVE  /\ Log!IsPrefix(s, s)
         /\ Log!IsPrefix(s, t) => \A r \in Receipts : Log!IsPrefix(s, Append(t, r))
<1>1. Log!IsPrefix(s, s)
  BY DEF Log!IsPrefix
<1>2. ASSUME NEW r \in Receipts, Log!IsPrefix(s, t) PROVE Log!IsPrefix(s, Append(t, r))
  <2>1. Len(s) \in Nat /\ Len(t) \in Nat /\ Len(s) <= Len(t)
        /\ SubSeq(s, 1, Len(s)) = SubSeq(t, 1, Len(s))
    BY <1>2 DEF Log!IsPrefix
  <2>2. Len(Append(t, r)) = Len(t) + 1 /\ \A i \in 1..Len(t) : Append(t, r)[i] = t[i]
    BY AppendProperties
  <2>3. SubSeq(Append(t, r), 1, Len(s)) = SubSeq(t, 1, Len(s))
    <3>1. \A i \in 1..Len(s) : i \in 1..Len(t)
      BY <2>1
    <3>2. /\ SubSeq(Append(t, r), 1, Len(s)) = [i \in 1..Len(s) |-> Append(t, r)[i]]
          /\ SubSeq(t, 1, Len(s)) = [i \in 1..Len(s) |-> t[i]]
      BY <2>1, <2>2
    <3> QED BY <2>2, <3>1, <3>2
  <2> QED BY <2>1, <2>2, <2>3 DEF Log!IsPrefix
<1> QED BY <1>1, <1>2

LEMMA GrowStep ==
  ASSUME TypeOK, OrderInv, GrowInv, [Next]_vars
  PROVE  /\ GrowInv'
         /\ Log!IsPrefix(disk.records, (disk.records)')
         /\ Log!IsPrefix(disk.terminals, (disk.terminals)')
<1> DEFINE Goal == /\ GrowInv'
                   /\ Log!IsPrefix(disk.records, (disk.records)')
                   /\ Log!IsPrefix(disk.terminals, (disk.terminals)')
<1>0. /\ disk \in Data /\ view \in Data
      /\ disk.records \in Seq(Receipts) /\ view.records \in Seq(Receipts)
      /\ disk.terminals \in Seq(Receipts) /\ view.terminals \in Seq(Receipts)
  BY DEF TypeOK, Data
\* The disk keeps its tables, and the connection its own or those of the disk.
<1>1. ASSUME (disk.records)' = disk.records, (disk.terminals)' = disk.terminals,
             \/ (view.records)' = view.records /\ (view.terminals)' = view.terminals
             \/ (view.records)' = disk.records /\ (view.terminals)' = disk.terminals
      PROVE  Goal
  BY <1>0, <1>1, Prefixes DEF GrowInv
<1>2. CASE UNCHANGED <<disk, view>>
  BY <1>1, <1>2
<1>3. CASE Opened \/ OpenedPartly
  <2>1. PICK data \in Data : /\ data.records = disk.records /\ data.terminals = disk.terminals
                             /\ disk' \in {disk, data} /\ view' \in {disk, data}
    BY <1>0, <1>3, Reopened
  <2> QED BY <1>1, <2>1
<1>5. CASE Closed
  BY <1>1, <1>5 DEF Closed
<1>6. CASE Fails
  BY <1>1, <1>6 DEF Fails
\* A statement that succeeds adds to a table of the connection, or to none.
<1>7. ASSUME NEW data, NEW id, Succeeds(data, id),
             data.records \in Seq(Receipts), Log!IsPrefix(disk.records, data.records),
             data.terminals \in Seq(Receipts), Log!IsPrefix(disk.terminals, data.terminals)
      PROVE  Goal
  <2>1. view' = data /\ (disk' = disk \/ disk' = data)
    BY <1>7 DEF Succeeds
  <2> QED BY <1>0, <1>7, <2>1, Prefixes DEF GrowInv
<1>8. CASE InsertRecord
  <2> DEFINE table == Append(view.records, current)
             data == [view EXCEPT !.records = table]
  <2>1. current \in Receipts
    BY <1>8 DEF InsertRecord, OrderInv
  <2>2. table \in Seq(Receipts) /\ Log!IsPrefix(disk.records, table)
    BY <1>0, <2>1, Prefixes, AppendProperties DEF GrowInv
  <2>3. data.records = table /\ data.terminals = view.terminals
    BY <1>0, <2>2, DataExcept
  <2>4. Succeeds(data, Len(view.records) + 1) \/ Fails
    BY <1>8 DEF InsertRecord
  <2> HIDE DEF data, table
  <2> QED BY <1>0, <1>6, <1>7, <2>2, <2>3, <2>4 DEF GrowInv
<1>9. CASE InsertItem
  <2> DEFINE rows == Append(view.items, Item)
             data == [view EXCEPT !.items = rows]
  <2>1. rows \in Seq(ItemRows)
    <3>1. view.items \in Seq(ItemRows) /\ Item \in ItemRows
      BY <1>0, <1>9 DEF Data, ItemRows, Item, TypeOK, OrderInv, InsertItem
    <3> QED BY <3>1, AppendProperties
  <2>2. data.records = view.records /\ data.terminals = view.terminals
    BY <1>0, <2>1, DataExcept
  <2>3. Succeeds(data, Len(view.items) + 1) \/ Fails
    BY <1>9 DEF InsertItem
  <2> HIDE DEF data, rows
  <2> QED BY <1>0, <1>6, <1>7, <2>2, <2>3 DEF GrowInv
<1>10. CASE InsertTerminal
  <2> DEFINE table == Append(view.terminals, current)
             data == [view EXCEPT !.terminals = table]
  <2>1. current \in Receipts
    BY <1>10 DEF InsertTerminal, OrderInv
  <2>2. table \in Seq(Receipts) /\ Log!IsPrefix(disk.terminals, table)
    BY <1>0, <2>1, Prefixes, AppendProperties DEF GrowInv
  <2>3. data.terminals = table /\ data.records = view.records
    BY <1>0, <2>2, DataExcept
  <2>4. Succeeds(data, Len(view.terminals) + 1) \/ Fails
    BY <1>10 DEF InsertTerminal
  <2> HIDE DEF data, table
  <2> QED BY <1>0, <1>6, <1>7, <2>2, <2>3, <2>4 DEF GrowInv
\* END puts the connection's tables on the disk, which they extend.
<1>11. CASE End
  <2>1. CASE disk' = view /\ view' = view
    BY <1>0, <2>1, Prefixes DEF GrowInv
  <2> QED BY <1>6, <1>11, <2>1 DEF End
<1>12. CASE OnConfigPath \/ OnConfigNone \/ Crash
  BY <1>3, <1>5, <1>12 DEF OnConfigPath, OnConfigNone, Crash
<1> HIDE DEF Goal
<1>13. CASE Write("write") \/ Write("terminal") \/ ConfigPath \/ ConfigNone \/ ConfigReturns
  BY <1>2, <1>13 DEF Write, ConfigPath, ConfigNone, ConfigReturns, connection
<1>14. ASSUME NEW op, NEW first, Drop(op) \/ Begin(op, first) PROVE Goal
  <2>1. UNCHANGED <<disk, view>>
    BY <1>14 DEF Drop, Begin, connection
  <2> QED BY <1>2, <2>1 DEF Goal
<1>15. CASE UNCHANGED vars
  BY <1>2, <1>15 DEF vars, connection
<1> QED BY <1>8, <1>9, <1>10, <1>11, <1>12, <1>13, <1>14, <1>15
        DEF Next, OnWrite, OnWriteTerminal, Goal

-----------------------------------------------------------------------------
(***************************************************************************)
(* Receipts are whole.                                                     *)
(***************************************************************************)
\* What is listed for a record depends on the items and its receipt alone.
LEMMA ListedSame ==
  ASSUME NEW data, NEW other, NEW id, NEW n,
         other.items = data.items, other.records[id] = data.records[id],
         Listed(data, id, n)
  PROVE  Listed(other, id, n)
BY DEF Listed, ItemsOf

LEMMA WholeSame ==
  ASSUME NEW data, NEW other,
         other.items = data.items, other.records = data.records,
         Whole(data)
  PROVE  Whole(other)
<1>1. \A id \in DOMAIN other.records : Listed(other, id, ItemCount[other.records[id]])
  BY ListedSame DEF Whole
<1> QED BY <1>1 DEF Whole

\* A record that is inserted behind whole ones has none of its items yet.
LEMMA RecordInserted ==
  ASSUME NEW data \in Data, NEW other, NEW r \in Receipts,
         Whole(data), other.items = data.items,
         other.records = Append(data.records, r)
  PROVE  LET new == Len(data.records) + 1 IN
         /\ new \in Nat \ {0}
         /\ other.records # <<>> /\ Len(other.records) = new /\ other.records[new] = r
         /\ \A id \in DOMAIN other.records :
              Listed(other, id, IF id = new THEN 0 ELSE ItemCount[other.records[id]])
         /\ \A k \in DOMAIN other.items : other.items[k].id \in DOMAIN other.records
<1> DEFINE new == Len(data.records) + 1
<1>1. data.records \in Seq(Receipts)
  BY DEF Data
<1>2. /\ new \in Nat \ {0} /\ DOMAIN data.records = 1..(new - 1)
      /\ other.records # <<>> /\ Len(other.records) = new /\ other.records[new] = r
      /\ DOMAIN other.records = 1..new
      /\ \A id \in DOMAIN data.records : other.records[id] = data.records[id]
  BY <1>1, AppendProperties
<1> HIDE DEF new
<1>3. ASSUME NEW id \in DOMAIN other.records, id # new
      PROVE  Listed(other, id, ItemCount[other.records[id]])
  <2>1. id \in DOMAIN data.records
    BY <1>2, <1>3
  <2> QED BY <1>2, <2>1, ListedSame DEF Whole
<1>4. Listed(other, new, 0)
  <2>1. ItemsOf(other, new) = {}
    BY <1>2 DEF ItemsOf, Whole
  <2> QED BY <2>1 DEF Listed
<1>5. \A k \in DOMAIN other.items : other.items[k].id \in DOMAIN other.records
  BY <1>2 DEF Whole
<1>6. \A id \in DOMAIN other.records :
        Listed(other, id, IF id = new THEN 0 ELSE ItemCount[other.records[id]])
  BY <1>3, <1>4
<1> QED BY <1>2, <1>5, <1>6 DEF new

\* An item that is inserted is the next one of its record, and of no other.
LEMMA ItemInserted ==
  ASSUME NEW data \in Data, NEW other, NEW item \in ItemRows, NEW id \in Nat,
         other.items = Append(data.items, item), other.records = data.records
  PROVE  /\ \A n : id # item.id /\ Listed(data, id, n) => Listed(other, id, n)
         /\ /\ id = item.id /\ item.receipt = data.records[id]
            /\ Listed(data, id, item.i)
            => Listed(other, id, item.i + 1)
<1> DEFINE last == Len(data.items) + 1
<1>1. data.items \in Seq(ItemRows)
  BY DEF Data, ItemRows
<1>2. /\ last \in Nat /\ DOMAIN data.items = 1..(last - 1) /\ DOMAIN other.items = 1..last
      /\ other.items[last] = item
      /\ \A k \in DOMAIN data.items : other.items[k] = data.items[k]
  BY <1>1, AppendProperties
<1> HIDE DEF last
<1>3. ASSUME NEW n, id # item.id, Listed(data, id, n) PROVE Listed(other, id, n)
  <2>1. ItemsOf(other, id) = ItemsOf(data, id)
    BY <1>2, <1>3 DEF ItemsOf
  <2>2. \A k \in ItemsOf(data, id) : other.items[k] = data.items[k]
    BY <1>2 DEF ItemsOf
  <2>3. {other.items[k].i : k \in ItemsOf(data, id)} = {data.items[k].i : k \in ItemsOf(data, id)}
    BY <2>2
  <2>4. /\ \A k \in ItemsOf(data, id) : other.items[k].receipt = other.records[id]
        /\ \A j, k \in ItemsOf(data, id) : other.items[j].i = other.items[k].i => j = k
    BY <1>3, <2>2 DEF Listed
  <2>5. {data.items[k].i : k \in ItemsOf(data, id)} = 0..(n - 1)
    BY <1>3 DEF Listed
  <2> QED BY <2>1, <2>3, <2>4, <2>5 DEF Listed
<1>4. ASSUME id = item.id, item.receipt = data.records[id], Listed(data, id, item.i)
      PROVE  Listed(other, id, item.i + 1)
  <2> DEFINE old == ItemsOf(data, id)
             all == ItemsOf(other, id)
  <2>1. all = old \cup {last} /\ last \notin old
    BY <1>2, <1>4 DEF ItemsOf
  <2>2. \A k \in old : other.items[k] = data.items[k]
    BY <1>2 DEF ItemsOf
  <2>3. /\ \A k \in old : data.items[k].receipt = data.records[id]
        /\ {data.items[k].i : k \in old} = 0..(item.i - 1)
        /\ \A j, k \in old : data.items[j].i = data.items[k].i => j = k
    BY <1>4 DEF Listed
  <2> HIDE DEF old, all
  <2>4. item.i \in Nat
    BY DEF ItemRows
  <2>5. \A k \in all : other.items[k].receipt = other.records[id]
    BY <1>2, <1>4, <2>1, <2>2, <2>3
  <2>6. {other.items[k].i : k \in all} = {data.items[k].i : k \in old} \cup {item.i}
    BY <1>2, <2>1, <2>2
  <2>7. {other.items[k].i : k \in all} = 0..((item.i + 1) - 1)
    <3>1. 0..((item.i + 1) - 1) = 0..(item.i - 1) \cup {item.i}
      BY <2>4
    <3> QED BY <2>3, <2>6, <3>1
  <2>8. \A k \in old : data.items[k].i \in 0..(item.i - 1)
    BY <2>3
  <2>9. ASSUME NEW k \in old PROVE other.items[k].i # item.i
    <3>1. other.items[k] = data.items[k] /\ data.items[k].i \in 0..(item.i - 1)
      BY <2>2, <2>8
    <3>2. data.items[k].i # item.i
      BY <2>4, <3>1
    <3> QED BY <3>1, <3>2
  <2>10. \A j, k \in old : other.items[j].i = other.items[k].i => j = k
    BY <2>2, <2>3
  <2>11. \A j, k \in all : other.items[j].i = other.items[k].i => j = k
    BY <1>2, <2>1, <2>9, <2>10
  <2> QED BY <2>5, <2>7, <2>11 DEF Listed, all
<1> QED BY <1>3, <1>4

\* A step that leaves the disk, and takes the connection's view back to it,
\* between two handlers.
LEMMA WholeClosed ==
  ASSUME WholeInv, faulty' = faulty,
         UNCHANGED disk, view' = disk, txn' = FALSE, pc' = "idle"
  PROVE  WholeInv'
BY DEF WholeInv

\* A step that touches neither the data nor the place of the handler.
LEMMA WholeUntouched ==
  ASSUME WholeInv, UNCHANGED <<disk, view, txn, pc, current, rowid, next, faulty>>
  PROVE  WholeInv'
BY DEF WholeInv, WholeBut

LEMMA WholeStep ==
  ASSUME TypeOK, OrderInv, WholeInv, [Next]_vars
  PROVE  WholeInv'
<1>1. CASE \/ \E op \in {"write", "terminal"} : Write(op)
           \/ ConfigPath \/ ConfigNone \/ ConfigReturns
           \/ UNCHANGED vars
  BY <1>1, WholeUntouched
     DEF Write, ConfigPath, ConfigNone, ConfigReturns, vars, connection, handler, history
<1>2. CASE OnConfigPath
  <2>1. CASE faulty'
    BY <2>1 DEF WholeInv
  <2>2. CASE ~faulty'
    <3>1. Opened /\ ~faulty /\ pc = "idle" /\ pc' = "idle"
      BY <1>2, <2>2 DEF OnConfigPath, OpenedPartly, Opened, Takes, handler
    <3>2. Whole(disk) /\ disk \in Data
      BY <3>1 DEF WholeInv, TypeOK
    <3>3. view'.items = disk.items /\ view'.records = disk.records /\ disk' = view'
      BY <3>1, <3>2, Reopened
    <3>4. Whole(view') /\ Whole(disk')
      BY <3>2, <3>3, WholeSame
    <3> QED BY <3>1, <3>3, <3>4 DEF WholeInv, Opened
  <2> QED BY <2>1, <2>2
<1>3. CASE OnConfigNone
  BY <1>3, WholeClosed DEF OnConfigNone, Closed, Takes, handler, history
<1>4. ASSUME NEW op, Drop(op) PROVE WholeInv'
  BY <1>4, WholeUntouched DEF Drop, connection, handler, history
<1>5. ASSUME NEW op, NEW first \in {"record", "terminal"}, Begin(op, first) PROVE WholeInv'
  <2>1. /\ pc = "idle" /\ pc' = first /\ txn' = TRUE /\ UNCHANGED <<disk, view, faulty>>
    BY <1>5 DEF Begin, Begun, Takes, history
  <2> QED BY <2>1 DEF WholeInv
<1>6. CASE InsertRecord
  <2>1. CASE faulty'
    BY <2>1 DEF WholeInv
  <2>2. CASE ~faulty'
    <3> DEFINE table == Append(view.records, current)
               data == [view EXCEPT !.records = table]
    <3>1. view.records \in Seq(Receipts) /\ current \in Receipts /\ view \in Data
      BY <1>6 DEF InsertRecord, OrderInv, TypeOK, Data
    <3>2. table \in Seq(Receipts)
      BY <3>1, AppendProperties
    <3>3. data.records = table /\ data.items = view.items
      BY <3>1, <3>2, DataExcept
    <3> HIDE DEF data
    <3>4. Succeeds(data, Len(view.records) + 1)
      BY <1>6, <2>2 DEF InsertRecord, data, Fails
    <3>5. /\ pc = "record" /\ ~faulty /\ txn /\ view = disk /\ Whole(view)
          /\ view' = data /\ disk' = disk /\ txn' = txn
          /\ rowid' = Len(view.records) + 1 /\ next' = 0 /\ current' = current
      BY <1>6, <2>2, <3>4 DEF InsertRecord, Succeeds, WholeInv
    <3>6. /\ rowid' \in Nat \ {0}
          /\ view'.records # <<>> /\ Len(view'.records) = rowid'
          /\ view'.records[rowid'] = current
          /\ \A id \in DOMAIN view'.records :
               Listed(view', id, IF id = rowid' THEN 0 ELSE ItemCount[view'.records[id]])
          /\ \A k \in DOMAIN view'.items : view'.items[k].id \in DOMAIN view'.records
      BY <3>1, <3>3, <3>5, RecordInserted
    <3>7. WholeBut(view)'
      BY <3>5, <3>6 DEF WholeBut
    <3>8. pc' = IF 0 < ItemCount[current] THEN "item" ELSE "end"
      BY <1>6, <3>6 DEF InsertRecord, IsItem
    <3>9. pc' = "end" => next' = ItemCount[current]
      BY <3>1, <3>5, <3>8, ItemCountAssumption DEF Receipts
    <3>10. pc' = "end" => Whole(view)'
      BY <3>5, <3>6, <3>9 DEF Whole
    <3> QED BY <3>5, <3>7, <3>8, <3>10 DEF WholeInv
  <2> QED BY <2>1, <2>2
<1>7. CASE InsertItem
  <2>1. CASE faulty'
    BY <2>1 DEF WholeInv
  <2>2. CASE ~faulty'
    <3>1. view \in Data /\ current \in Receipts /\ rowid \in Nat /\ next \in Nat
      BY <1>7 DEF TypeOK, OrderInv, InsertItem
    <3>2. Item \in ItemRows /\ Item.id = rowid /\ Item.i = next /\ Item.receipt = current
      BY <3>1 DEF ItemRows, Item
    <3>3. Append(view.items, Item) \in Seq(ItemRows)
      <4>1. view.items \in Seq(ItemRows)
        BY <3>1 DEF Data, ItemRows
      <4> QED BY <3>2, <4>1, AppendProperties
    <3> DEFINE data == [view EXCEPT !.items = Append(@, Item)]
    <3>4. data.items = Append(view.items, Item) /\ data.records = view.records
      BY <3>1, <3>3, DataExcept
    <3> HIDE DEF data
    <3>5. Succeeds(data, Len(view.items) + 1)
      BY <1>7, <2>2 DEF InsertItem, data, Fails
    <3>6. /\ pc = "item" /\ ~faulty /\ txn /\ WholeBut(view) /\ Whole(disk)
          /\ view' = data /\ disk' = disk /\ txn' = txn
          /\ rowid' = rowid /\ next' = next + 1 /\ current' = current
      BY <1>7, <2>2, <3>5 DEF InsertItem, Succeeds, WholeInv
    <3>7. \A id \in DOMAIN view.records : id \in Nat
      BY <3>1 DEF Data
    <3>8. ASSUME NEW id \in DOMAIN view.records
          PROVE  Listed(data, id, IF id = rowid THEN next + 1 ELSE ItemCount[view.records[id]])
      <4>1. Listed(view, id, IF id = rowid THEN next ELSE ItemCount[view.records[id]])
        BY <3>6 DEF WholeBut
      <4>2. CASE id = rowid
        <5>1. view.records[id] = current
          BY <3>6, <4>2 DEF WholeBut
        <5> QED BY <3>1, <3>2, <3>4, <3>7, <4>1, <4>2, <5>1, ItemInserted
      <4>3. CASE id # rowid
        BY <3>1, <3>2, <3>4, <3>7, <4>1, <4>3, ItemInserted
      <4> QED BY <4>2, <4>3
    <3>9. \A k \in DOMAIN data.items : data.items[k].id \in DOMAIN data.records
      <4>1. rowid \in DOMAIN view.records
        <5>1. view.records \in Seq(Receipts)
          BY <3>1 DEF Data
        <5> QED BY <3>6, <5>1 DEF WholeBut
      <4>2. view.items \in Seq(ItemRows)
        BY <3>1 DEF Data, ItemRows
      <4>3. \A k \in DOMAIN view.items : view.items[k].id \in DOMAIN view.records
        BY <3>6 DEF WholeBut
      <4>4. \A k \in DOMAIN data.items :
              \/ k \in DOMAIN view.items /\ data.items[k] = view.items[k]
              \/ data.items[k] = Item
        BY <3>2, <3>4, <4>2, AppendProperties
      <4> QED BY <3>2, <3>4, <4>1, <4>3, <4>4
    <3>10. WholeBut(view)'
      BY <3>4, <3>6, <3>8, <3>9 DEF WholeBut
    <3>11. pc' = IF next + 1 < ItemCount[current] THEN "item" ELSE "end"
      BY <1>7 DEF InsertItem, IsItem
    <3>12. pc' = "end" => next' = ItemCount[current]
      BY <3>1, <3>6, <3>11, ItemCountAssumption DEF Receipts, TypeOK
    <3>13. pc' = "end" => Whole(view)'
      BY <3>6, <3>10, <3>12 DEF Whole, WholeBut
    <3> QED BY <3>6, <3>10, <3>11, <3>13 DEF WholeInv
  <2> QED BY <2>1, <2>2
<1>8. CASE InsertTerminal
  <2>1. CASE faulty'
    BY <2>1 DEF WholeInv
  <2>2. CASE ~faulty'
    <3> DEFINE table == Append(view.terminals, current)
               data == [view EXCEPT !.terminals = table]
    <3>1. view.terminals \in Seq(Receipts) /\ current \in Receipts /\ view \in Data
      BY <1>8 DEF InsertTerminal, OrderInv, TypeOK, Data
    <3>2. table \in Seq(Receipts)
      BY <3>1, AppendProperties
    <3>3. data.records = view.records /\ data.items = view.items
      BY <3>1, <3>2, DataExcept
    <3> HIDE DEF data
    <3>4. Succeeds(data, Len(view.terminals) + 1)
      BY <1>8, <2>2 DEF InsertTerminal, data, Fails
    <3>5. /\ pc = "terminal" /\ pc' = "end" /\ ~faulty /\ txn /\ view = disk /\ Whole(view)
          /\ view' = data /\ disk' = disk /\ txn' = txn
      BY <1>8, <2>2, <3>4 DEF InsertTerminal, Succeeds, WholeInv
    <3>6. Whole(view')
      BY <3>3, <3>5, WholeSame
    <3> QED BY <3>5, <3>6 DEF WholeInv
  <2> QED BY <2>1, <2>2
<1>9. CASE End
  <2>1. CASE faulty'
    BY <2>1 DEF WholeInv
  <2>2. CASE ~faulty'
    <3>1. /\ pc = "end" /\ pc' = "idle" /\ disk' = view /\ view' = view /\ txn' = FALSE
          /\ ~faulty
      BY <1>9, <2>2 DEF End, Fails
    <3>2. Whole(view)
      BY <3>1 DEF WholeInv
    <3> QED BY <3>1, <3>2 DEF WholeInv
  <2> QED BY <2>1, <2>2
<1>10. CASE Crash
  BY <1>10, WholeClosed DEF Crash, Closed
<1> QED BY <1>1, <1>2, <1>3, <1>4, <1>5, <1>6, <1>7, <1>8, <1>9, <1>10
        DEF Next, OnWrite, OnWriteTerminal

-----------------------------------------------------------------------------
(***************************************************************************)
(* The caller of config.                                                   *)
(***************************************************************************)
LEMMA CallerStep ==
  ASSUME TypeOK, CallerInv, [Next]_vars
  PROVE  CallerInv'
<1>1. ASSUME NEW op \in {"write", "terminal"}, Write(op) PROVE CallerInv'
  <2>1. /\ Post(op, written + 1) /\ [op |-> op, receipt |-> written + 1] \in Request
        /\ UNCHANGED <<caller, configured, isOpen, pc>>
    BY <1>1, BoundAssumption DEF Write, Receipts, Request, TypeOK, connection, handler
  <2>2. /\ DOMAIN queue = 1..Len(queue) /\ DOMAIN queue' = 1..(Len(queue) + 1)
        /\ Len(queue) \in Nat
        /\ \A i \in 1..Len(queue) : queue'[i] = queue[i]
        /\ queue'[Len(queue) + 1].op \notin {"open", "close"}
    BY <2>1, Posted DEF TypeOK
  <2> QED BY <2>1, <2>2 DEF CallerInv
<1>2. CASE ConfigPath
  <2>1. /\ Post("open", 0) /\ [op |-> "open", receipt |-> 0] \in Request
        /\ caller = "idle" /\ UNCHANGED <<caller, isOpen, pc>>
    BY <1>2 DEF ConfigPath, Request, connection, handler
  <2>2. /\ DOMAIN queue = 1..Len(queue) /\ DOMAIN queue' = 1..(Len(queue) + 1)
        /\ Len(queue) \in Nat
        /\ \A i \in 1..Len(queue) : queue'[i] = queue[i]
        /\ queue'[Len(queue) + 1].op = "open"
    BY <2>1, Posted DEF TypeOK
  <2>3. \A i \in DOMAIN queue' : queue'[i].op # "close"
    BY <2>1, <2>2 DEF CallerInv
  <2> QED BY <2>1, <2>3 DEF CallerInv
<1>3. CASE ConfigNone
  <2>1. /\ Post("close", 0) /\ [op |-> "close", receipt |-> 0] \in Request
        /\ caller = "idle" /\ caller' = "closing" /\ ~configured' /\ UNCHANGED <<isOpen, pc>>
    BY <1>3 DEF ConfigNone, Request, WaitsForClose, connection, handler
  <2>2. /\ DOMAIN queue = 1..Len(queue) /\ DOMAIN queue' = 1..(Len(queue) + 1)
        /\ Len(queue) \in Nat
        /\ \A i \in 1..Len(queue) : queue'[i] = queue[i]
        /\ queue'[Len(queue) + 1].op = "close"
    BY <2>1, Posted DEF TypeOK
  <2>3. \A i \in DOMAIN queue' : queue'[i].op = "close" => i = Len(queue) + 1
    BY <2>1, <2>2 DEF CallerInv
  <2>4. \A i, j \in DOMAIN queue' : i < j => queue'[i].op # "close"
    BY <2>2, <2>3
  <2> QED BY <2>1, <2>2, <2>4 DEF CallerInv
<1>4. CASE ConfigReturns
  BY <1>4 DEF ConfigReturns, connection, handler, CallerInv
<1>5. ASSUME NEW op, Takes(op), op # "close", UNCHANGED <<caller, configured>>,
             pc' # "idle" => isOpen /\ isOpen',
             caller = "returning" /\ op # "open" => UNCHANGED isOpen
      PROVE  CallerInv'
  <2>1. /\ Len(queue) \in Nat /\ DOMAIN queue = 1..Len(queue)
        /\ DOMAIN queue' = 1..(Len(queue) - 1)
        /\ \A i \in DOMAIN queue' : i + 1 \in DOMAIN queue /\ queue'[i] = queue[i + 1]
        /\ 1 \in DOMAIN queue /\ queue[1].op = op
    BY <1>5, Taken DEF TypeOK
  <2>2. caller' = "closing" => \E i \in DOMAIN queue' : queue'[i].op = "close"
    <3> SUFFICES ASSUME caller' = "closing" PROVE \E i \in DOMAIN queue' : queue'[i].op = "close"
      OBVIOUS
    <3>1. PICK j \in DOMAIN queue : queue[j].op = "close"
      BY <1>5 DEF CallerInv
    <3>2. j - 1 \in DOMAIN queue' /\ (j - 1) + 1 = j
      BY <1>5, <2>1, <3>1
    <3>3. queue'[j - 1] = queue[j]
      BY <2>1, <3>2
    <3> QED BY <3>1, <3>2, <3>3
  <2>3. \A i, j \in DOMAIN queue' :
          i < j /\ queue'[i].op = "close" => queue'[j].op \notin {"open", "close"}
    <3> SUFFICES ASSUME NEW i \in DOMAIN queue', NEW j \in DOMAIN queue', i < j,
                        queue'[i].op = "close"
                 PROVE  queue'[j].op \notin {"open", "close"}
      OBVIOUS
    <3>1. i + 1 < j + 1
      BY <2>1
    <3> QED BY <2>1, <3>1 DEF CallerInv
  <2>4. /\ caller' # "closing" => \A i \in DOMAIN queue' : queue'[i].op # "close"
        /\ configured' => caller' = "idle"
    BY <1>5, <2>1 DEF CallerInv
  <2>5. caller' = "returning" =>
          ~isOpen' /\ pc' = "idle" /\ \A i \in DOMAIN queue' : queue'[i].op # "open"
    <3> SUFFICES ASSUME caller' = "returning"
                 PROVE  ~isOpen' /\ pc' = "idle" /\ \A i \in DOMAIN queue' : queue'[i].op # "open"
      OBVIOUS
    <3>1. ~isOpen /\ \A i \in DOMAIN queue : queue[i].op # "open"
      BY <1>5 DEF CallerInv
    <3> QED BY <1>5, <2>1, <3>1
  <2> QED BY <1>5, <2>2, <2>3, <2>4, <2>5 DEF CallerInv
<1>6. CASE OnConfigPath
  BY <1>5, <1>6 DEF OnConfigPath, Takes, handler
<1>7. CASE OnConfigNone
  <2>1. /\ Takes("close") /\ UNCHANGED <<pc, configured>> /\ ~isOpen' /\ pc = "idle"
        /\ caller' = IF caller = "closing" THEN "returning" ELSE caller
    BY <1>7 DEF OnConfigNone, Closed, Takes, handler, history
  <2>2. /\ Len(queue) \in Nat /\ DOMAIN queue = 1..Len(queue)
        /\ DOMAIN queue' = 1..(Len(queue) - 1)
        /\ \A i \in DOMAIN queue' : i + 1 \in DOMAIN queue /\ queue'[i] = queue[i + 1]
        /\ 1 \in DOMAIN queue /\ queue[1].op = "close"
    BY <2>1, Taken DEF TypeOK
  <2>3. caller = "closing"
    BY <2>2 DEF CallerInv
  <2>4. ASSUME NEW i \in DOMAIN queue' PROVE queue'[i].op \notin {"open", "close"}
    <3>1. 1 < i + 1
      BY <2>2
    <3> QED BY <2>2, <3>1 DEF CallerInv
  <2> QED BY <2>1, <2>3, <2>4 DEF CallerInv
<1>8. ASSUME NEW op \in {"write", "terminal"}, Drop(op) PROVE CallerInv'
  BY <1>5, <1>8 DEF Drop, Takes, handler, connection, history
<1>9. ASSUME NEW op \in {"write", "terminal"}, NEW first, Begin(op, first) PROVE CallerInv'
  BY <1>5, <1>9 DEF Begin, history
<1>10. ASSUME UNCHANGED <<queue, caller, configured, isOpen>>, pc # "idle" PROVE CallerInv'
  BY <1>10 DEF CallerInv
<1>11. CASE InsertRecord \/ InsertItem \/ InsertTerminal \/ End
  BY <1>10, <1>11 DEF InsertRecord, InsertItem, InsertTerminal, End, Succeeds, Fails
<1>12. CASE Crash
  BY <1>12 DEF Crash, Closed, CallerInv
<1>13. CASE UNCHANGED vars
  BY <1>13 DEF vars, connection, handler, history, CallerInv
<1> QED BY <1>1, <1>2, <1>3, <1>4, <1>6, <1>7, <1>8, <1>9, <1>11, <1>12, <1>13
        DEF Next, OnWrite, OnWriteTerminal

-----------------------------------------------------------------------------
(***************************************************************************)
(* Promises.                                                               *)
(***************************************************************************)
\* Another request that waits behind the first one is handled in the same
\* state of the database when the first one has been taken.
LEMMA OpenAtTaken ==
  ASSUME TypeOK, NEW op, Takes(op), NEW k \in DOMAIN queue, k # 1, OpenAt(k),
         isOpen \/ op = "open" => isOpen'
  PROVE  /\ op # "close"
         /\ k - 1 \in DOMAIN queue' /\ queue'[k - 1] = queue[k] /\ OpenAt(k - 1)'
<1>1. /\ Len(queue) \in Nat /\ DOMAIN queue = 1..Len(queue)
      /\ DOMAIN queue' = 1..(Len(queue) - 1)
      /\ \A i \in 1..(Len(queue) - 1) : queue'[i] = queue[i + 1]
      /\ queue[1].op = op
  BY Taken DEF TypeOK
<1>2. k \in Nat /\ k - 1 \in 1..(Len(queue) - 1) /\ (k - 1) + 1 = k /\ 1 \in 1..(k - 1)
  BY <1>1
<1>3. \A j \in 1..((k - 1) - 1) : j + 1 \in 1..(k - 1) /\ queue'[j] = queue[j + 1]
  BY <1>1, <1>2
<1>4. \A j \in 1..((k - 1) - 1) : queue'[j].op # "close"
  BY <1>3 DEF OpenAt
<1>5. isOpen' \/ \E j \in 1..((k - 1) - 1) : queue'[j].op = "open"
  <2>1. CASE isOpen
    BY <2>1
  <2>2. ASSUME NEW j \in 1..(k - 1), queue[j].op = "open"
        PROVE  isOpen' \/ \E i \in 1..((k - 1) - 1) : queue'[i].op = "open"
    <3>1. CASE j = 1
      BY <1>1, <2>2, <3>1
    <3>2. CASE j # 1
      <4>1. j - 1 \in 1..((k - 1) - 1) /\ (j - 1) + 1 = j
        BY <1>2, <3>2
      <4>2. queue'[j - 1].op = "open"
        BY <1>3, <2>2, <4>1
      <4> QED BY <4>1, <4>2
    <3> QED BY <3>1, <3>2
  <2> QED BY <2>1, <2>2 DEF OpenAt
<1>6. op # "close"
  BY <1>1, <1>2 DEF OpenAt
<1>7. queue'[k - 1] = queue[k]
  BY <1>1, <1>2
<1>8. OpenAt(k - 1)'
  BY <1>4, <1>5 DEF OpenAt
<1> QED BY <1>1, <1>2, <1>6, <1>7, <1>8

\* What is stored stays so in data whose tables begin with the same rows.
LEMMA StoredGrows ==
  ASSUME NEW data \in Data, NEW other, NEW r, NEW x \in Receipts,
         other.records \in {data.records, Append(data.records, x)},
         other.terminals \in {data.terminals, Append(data.terminals, x)},
         StoredIn(data, r)
  PROVE  StoredIn(other, r)
<1>1. \A table \in Seq(Receipts) : \A k \in DOMAIN table :
        k \in DOMAIN Append(table, x) /\ Append(table, x)[k] = table[k]
  <2> SUFFICES ASSUME NEW table \in Seq(Receipts), NEW k \in DOMAIN table
               PROVE  k \in DOMAIN Append(table, x) /\ Append(table, x)[k] = table[k]
    OBVIOUS
  <2> QED BY AppendProperties
<1>2. data.records \in Seq(Receipts) /\ data.terminals \in Seq(Receipts)
  BY DEF Data
<1>3. ASSUME NEW id \in DOMAIN data.records, data.records[id] = r PROVE StoredIn(other, r)
  BY <1>1, <1>2, <1>3 DEF StoredIn
<1>4. ASSUME NEW id \in DOMAIN data.terminals, data.terminals[id] = r PROVE StoredIn(other, r)
  BY <1>1, <1>2, <1>4 DEF StoredIn
<1> QED BY <1>3, <1>4 DEF StoredIn

\* The same for data that has the same tables.
LEMMA StoredSame ==
  ASSUME NEW data, NEW other, NEW r,
         other.records = data.records, other.terminals = data.terminals
  PROVE  StoredIn(data, r) => StoredIn(other, r)
BY DEF StoredIn

\* A posted request keeps what is owed, and the database as it will be.
LEMMA OwingPosted ==
  ASSUME TypeOK, NEW op, NEW n, Post(op, n), [op |-> op, receipt |-> n] \in Request,
         UNCHANGED <<view, pc, current, isOpen>>
  PROVE  /\ \A r : Owing(r) => Owing(r)'
         /\ (\E j \in DOMAIN queue : queue[j].op = "open")
            => \E j \in DOMAIN queue' : queue'[j].op = "open"
<1>1. /\ Len(queue) \in Nat /\ DOMAIN queue = 1..Len(queue)
      /\ DOMAIN queue' = 1..(Len(queue) + 1)
      /\ \A i \in 1..Len(queue) : queue'[i] = queue[i]
  BY Posted DEF TypeOK
<1>2. ASSUME NEW r, Owing(r) PROVE Owing(r)'
  <2>1. CASE StoredIn(view, r) \/ (pc \in {"record", "terminal"} /\ current = r)
    BY <2>1 DEF Owing, StoredIn
  <2>2. ASSUME NEW k \in DOMAIN queue, Writes(queue[k]), queue[k].receipt = r, OpenAt(k)
        PROVE  Owing(r)'
    <3>1. k \in DOMAIN queue' /\ queue'[k] = queue[k]
      BY <1>1
    <3>2. \A j \in 1..(k - 1) : queue'[j] = queue[j]
      BY <1>1
    <3>3. OpenAt(k)'
      BY <2>2, <3>2 DEF OpenAt
    <3>4. Writes(queue'[k])
      BY <2>2, <3>1
    <3> QED BY <2>2, <3>1, <3>3, <3>4 DEF Owing, Writes
  <2> QED BY <1>2, <2>1, <2>2 DEF Owing
<1> QED BY <1>1, <1>2

\* A handler that is taken off and does not store its receipt keeps what is
\* owed of the others.
LEMMA OwingTaken ==
  ASSUME TypeOK, NEW op, Takes(op), NEW r, Owing(r),
         StoredIn(view, r) => StoredIn(view, r)',
         isOpen \/ op = "open" => isOpen' \/ op = "close",
         op \in {"write", "terminal"} /\ isOpen /\ queue[1].receipt = r =>
           pc' \in {"record", "terminal"} /\ current' = r
  PROVE  Owing(r)'
<1>1. 1 \in DOMAIN queue /\ queue[1].op = op /\ pc = "idle"
  BY Taken DEF TypeOK
<1>2. CASE StoredIn(view, r)
  BY <1>2 DEF Owing
<1>3. ASSUME NEW k \in DOMAIN queue, Writes(queue[k]), queue[k].receipt = r, OpenAt(k)
      PROVE  Owing(r)'
  <2>1. CASE k = 1
    <3>1. isOpen
      BY <1>3, <2>1 DEF OpenAt
    <3> QED BY <1>1, <1>3, <2>1, <3>1 DEF Owing, Writes
  <2>2. CASE k # 1
    <3>1. op # "close"
      BY <1>1, <1>3, <2>2 DEF OpenAt, TypeOK
    <3>2. /\ k - 1 \in DOMAIN queue' /\ queue'[k - 1] = queue[k] /\ OpenAt(k - 1)'
      BY <1>3, <2>2, <3>1, OpenAtTaken
    <3>3. Writes(queue'[k - 1])
      BY <1>3, <3>2
    <3> QED BY <1>3, <3>2, <3>3 DEF Owing, Writes
  <2> QED BY <2>1, <2>2
<1> QED BY <1>1, <1>2, <1>3 DEF Owing

\* While nothing is taken off, the queue keeps what is owed in it.
LEMMA OwingStays ==
  ASSUME NEW r, Owing(r), UNCHANGED <<queue, isOpen>>,
         StoredIn(view, r) => StoredIn(view, r)',
         pc \in {"record", "terminal"} /\ current = r =>
           StoredIn(view, r)' \/ (pc' \in {"record", "terminal"} /\ current' = r)
  PROVE  Owing(r)'
BY DEF Owing, OpenAt

\* An opening that waits, waits on when another handler is taken off.
LEMMA OpenWaits ==
  ASSUME TypeOK, NEW op, Takes(op), op # "open",
         NEW j \in DOMAIN queue, queue[j].op = "open"
  PROVE  \E i \in DOMAIN queue' : queue'[i].op = "open"
<1>1. /\ Len(queue) \in Nat /\ DOMAIN queue = 1..Len(queue)
      /\ DOMAIN queue' = 1..(Len(queue) - 1)
      /\ \A i \in 1..(Len(queue) - 1) : queue'[i] = queue[i + 1]
      /\ queue[1].op = op
  BY Taken DEF TypeOK
<1>2. j - 1 \in DOMAIN queue' /\ (j - 1) + 1 = j
  BY <1>1
<1>3. queue'[j - 1].op = "open"
  BY <1>1, <1>2
<1> QED BY <1>2, <1>3

\* The bounds of what is owed and promised, whether or not a statement fails.
LEMMA OwedBounds ==
  ASSUME TypeOK, CallerInv, OwedInv, [Next]_vars
  PROVE  /\ owed' \subseteq 1..written' /\ promised' \subseteq 1..written'
         /\ ~configured' /\ caller' = "idle" => owed' = {}
         /\ ~faulty' => ~faulty
<1> USE DEF OwedInv
<1>1. ASSUME NEW op, Write(op)
      PROVE  /\ owed' \subseteq 1..written' /\ promised' \subseteq 1..written'
             /\ ~configured' /\ caller' = "idle" => owed' = {}
             /\ ~faulty' => ~faulty
  <2>1. /\ written \in Nat /\ written' = written + 1 /\ promised' = promised
        /\ owed' \subseteq owed \cup {written + 1}
        /\ ~configured => owed' = owed
        /\ UNCHANGED <<configured, caller, faulty>>
    BY <1>1 DEF Write, TypeOK
  <2> QED BY <2>1
<1>2. CASE ConfigPath
  BY <1>2 DEF ConfigPath
<1>3. CASE ConfigNone
  BY <1>3 DEF ConfigNone, WaitsForClose
<1>4. CASE ConfigReturns
  BY <1>4 DEF ConfigReturns
<1>5. CASE OnConfigPath
  BY <1>5 DEF OnConfigPath, Opened, OpenedPartly
<1>6. CASE OnConfigNone
  BY <1>6 DEF OnConfigNone, history
<1>7. ASSUME NEW op, Drop(op)
      PROVE  /\ owed' \subseteq 1..written' /\ promised' \subseteq 1..written'
             /\ ~configured' /\ caller' = "idle" => owed' = {}
             /\ ~faulty' => ~faulty
  BY <1>7 DEF Drop, history
<1>8. ASSUME NEW op, NEW first, Begin(op, first)
      PROVE  /\ owed' \subseteq 1..written' /\ promised' \subseteq 1..written'
             /\ ~configured' /\ caller' = "idle" => owed' = {}
             /\ ~faulty' => ~faulty
  BY <1>8 DEF Begin, history
<1>9. CASE InsertRecord \/ InsertItem \/ InsertTerminal \/ End
  BY <1>9 DEF InsertRecord, InsertItem, InsertTerminal, End, Succeeds, Fails
<1>10. CASE Crash
  BY <1>10 DEF Crash
<1>11. CASE UNCHANGED vars
  BY <1>11 DEF vars, history
<1> QED BY <1>1, <1>2, <1>3, <1>4, <1>5, <1>6, <1>7, <1>8, <1>9, <1>10, <1>11
        DEF Next, OnWrite, OnWriteTerminal

\* A statement that stores a row in the transaction loses nothing, and what
\* it stores of the current receipt is owed no longer.
LEMMA OwedStored ==
  ASSUME Inv, ~faulty, pc # "idle", pc' \notin {"record", "terminal"},
         UNCHANGED <<queue, disk, isOpen, configured, promised, owed>>,
         current \in Receipts,
         view'.records \in {view.records, Append(view.records, current)},
         view'.terminals \in {view.terminals, Append(view.terminals, current)},
         pc \in {"record", "terminal"} => StoredIn(view', current)
  PROVE  /\ configured' => isOpen' \/ \E j \in DOMAIN queue' : queue'[j].op = "open"
         /\ \A r \in promised' : StoredIn(disk', r) /\ StoredIn(view', r)
         /\ \A r \in owed' : Owing(r)'
<1>1. ASSUME NEW r, StoredIn(view, r) PROVE StoredIn(view', r)
  BY <1>1, StoredGrows DEF Inv, TypeOK
<1>2. \A r : StoredIn(view, r)' <=> StoredIn(view', r)
  BY DEF StoredIn
<1>3. \A r \in promised' : StoredIn(disk', r) /\ StoredIn(view', r)
  BY <1>1 DEF Inv, OwedInv
<1>4. ASSUME NEW r \in owed PROVE Owing(r)'
  <2>1. Owing(r)
    BY DEF Inv, OwedInv
  <2> QED BY <1>1, <1>2, <2>1, OwingStays
<1> QED BY <1>3, <1>4 DEF Inv, OwedInv

\* What OwedInv says of the database while no statement fails.
Kept ==
  /\ configured => isOpen \/ \E j \in DOMAIN queue : queue[j].op = "open"
  /\ \A r \in promised : StoredIn(disk, r) /\ StoredIn(view, r)
  /\ \A r \in owed : Owing(r)

LEMMA OwedStep ==
  ASSUME Inv, [Next]_vars
  PROVE  OwedInv'
<1> SUFFICES ASSUME ~faulty' PROVE Kept'
  BY OwedBounds DEF Inv, OwedInv, Kept
<1>1. ~faulty /\ Kept /\ TypeOK
  BY OwedBounds DEF Inv, OwedInv, Kept
<1>2. \A r : /\ StoredIn(view, r)' <=> StoredIn(view', r)
             /\ StoredIn(disk, r)' <=> StoredIn(disk', r)
  BY DEF StoredIn
<1>3. ASSUME NEW op \in {"write", "terminal"}, Write(op) PROVE Kept'
  <2>1. /\ Post(op, written + 1) /\ [op |-> op, receipt |-> written + 1] \in Request
        /\ UNCHANGED <<disk, view, isOpen, pc, current, configured, promised>>
    BY <1>1, <1>3, BoundAssumption
       DEF Write, Receipts, Request, TypeOK, connection, handler
  <2>2. /\ \A r : Owing(r) => Owing(r)'
        /\ (\E j \in DOMAIN queue : queue[j].op = "open")
           => \E j \in DOMAIN queue' : queue'[j].op = "open"
    BY <1>1, <2>1, OwingPosted
  <2>3. ASSUME configured, NEW r, r = written + 1 PROVE Owing(r)'
    <3>0. Len(queue) \in Nat
      BY <1>1 DEF TypeOK
    <3> PICK k \in Nat : k = Len(queue) + 1
      BY <3>0
    <3>1. /\ Len(queue) \in Nat /\ DOMAIN queue = 1..Len(queue) /\ DOMAIN queue' = 1..k
          /\ \A i \in 1..Len(queue) : queue'[i] = queue[i]
          /\ queue'[k] = [op |-> op, receipt |-> written + 1]
      BY <1>1, <2>1, Posted DEF TypeOK
    <3>2. \A i \in 1..(k - 1) : i \in DOMAIN queue /\ queue'[i] = queue[i]
      BY <3>1
    <3>3. \A i \in DOMAIN queue : queue[i].op # "close"
      BY <2>3 DEF Inv, CallerInv
    <3>4. isOpen' \/ \E j \in 1..(k - 1) : queue'[j].op = "open"
      BY <1>1, <2>1, <2>3, <3>1, <3>2 DEF Kept
    <3>5. OpenAt(k)'
      BY <3>1, <3>2, <3>3, <3>4 DEF OpenAt
    <3>6. k \in DOMAIN queue' /\ Writes(queue'[k]) /\ queue'[k].receipt = r
      BY <1>3, <2>3, <3>1 DEF Writes
    <3> QED BY <3>5, <3>6 DEF Owing, Writes
  <2>4. \A r \in owed' : r \in owed \/ (configured /\ r = written + 1)
    BY <1>3 DEF Write
  <2>5. \A r \in owed' : Owing(r)'
    BY <1>1, <2>2, <2>3, <2>4 DEF Kept
  <2> QED BY <1>1, <1>2, <2>1, <2>2, <2>5 DEF Kept
<1>4. CASE ConfigPath
  <2>1. /\ Post("open", 0) /\ [op |-> "open", receipt |-> 0] \in Request
        /\ UNCHANGED <<disk, view, isOpen, pc, current, owed, promised>>
    BY <1>4 DEF ConfigPath, Request, connection, handler
  <2>2. \A r : Owing(r) => Owing(r)'
    BY <1>1, <2>1, OwingPosted
  <2>3. \E j \in DOMAIN queue' : queue'[j].op = "open"
    BY <1>1, <2>1, Posted DEF TypeOK
  <2> QED BY <1>1, <1>2, <2>1, <2>2, <2>3 DEF Kept
<1>5. CASE ConfigNone
  <2>1. /\ Post("close", 0) /\ [op |-> "close", receipt |-> 0] \in Request
        /\ ~configured' /\ UNCHANGED <<disk, view, isOpen, pc, current, owed, promised>>
    BY <1>5 DEF ConfigNone, Request, connection, handler
  <2>2. \A r : Owing(r) => Owing(r)'
    BY <1>1, <2>1, OwingPosted
  <2> QED BY <1>1, <1>2, <2>1, <2>2 DEF Kept
<1>6. CASE ConfigReturns
  <2>1. /\ ~isOpen /\ pc = "idle" /\ \A i \in DOMAIN queue : queue[i].op # "open"
    BY <1>6 DEF ConfigReturns, Inv, CallerInv
  <2>2. view = disk
    BY <1>1, <2>1 DEF Inv, WholeInv
  <2>3. ASSUME NEW k \in DOMAIN queue PROVE ~OpenAt(k)
    <3>1. \A j \in 1..(k - 1) : j \in DOMAIN queue
      BY <1>1 DEF TypeOK
    <3> QED BY <2>1, <3>1 DEF OpenAt
  <2>4. ASSUME NEW r \in owed PROVE StoredIn(view, r)
    BY <1>1, <2>1, <2>3 DEF Kept, Owing
  <2>5. /\ ~configured' /\ owed' = {} /\ promised' = promised \cup owed
        /\ UNCHANGED <<disk, view>>
    BY <1>6 DEF ConfigReturns, connection, Inv, CallerInv
  <2> QED BY <1>1, <1>2, <2>2, <2>4, <2>5 DEF Kept
<1>7. CASE OnConfigPath
  <2>1. /\ Takes("open") /\ Opened /\ UNCHANGED <<promised, owed>>
    BY <1>7 DEF OnConfigPath, OpenedPartly
  <2>2. pc = "idle" /\ view = disk /\ isOpen' /\ disk' = view'
    BY <1>1, <2>1 DEF Takes, Opened, Inv, WholeInv
  <2>3. disk'.records = disk.records /\ disk'.terminals = disk.terminals
    BY <1>1, <2>1, Reopened DEF TypeOK
  <2>4. \A r : StoredIn(view, r) => StoredIn(view', r)
    BY <2>2, <2>3, StoredSame
  <2>5. \A r : Owing(r) => Owing(r)'
    BY <1>1, <1>2, <2>1, <2>2, <2>4, OwingTaken
  <2> QED BY <1>1, <1>2, <2>1, <2>2, <2>4, <2>5 DEF Kept
<1>8. CASE OnConfigNone
  <2>1. /\ Takes("close") /\ Closed /\ UNCHANGED <<configured, promised, owed>>
    BY <1>8 DEF OnConfigNone, history
  <2>2. pc = "idle" /\ view = disk /\ disk' = disk /\ view' = view
    BY <1>1, <2>1 DEF Takes, Closed, Inv, WholeInv
  <2>3. \A r : Owing(r) => Owing(r)'
    BY <1>1, <1>2, <2>1, <2>2, OwingTaken
  <2>4. ~configured
    <3>1. 1 \in DOMAIN queue /\ queue[1].op = "close"
      BY <1>1, <2>1, Taken DEF TypeOK
    <3> QED BY <3>1 DEF Inv, CallerInv
  <2> QED BY <1>1, <1>2, <2>1, <2>2, <2>3, <2>4 DEF Kept
<1>9. ASSUME NEW op \in {"write", "terminal"}, Drop(op) PROVE Kept'
  <2>1. /\ Takes(op) /\ ~isOpen
        /\ UNCHANGED <<disk, view, isOpen, configured, promised, owed>>
    BY <1>9 DEF Drop, connection, history
  <2>2. \A r : Owing(r) => Owing(r)'
    BY <1>1, <1>2, <2>1, OwingTaken
  <2>3. configured => \E j \in DOMAIN queue' : queue'[j].op = "open"
    BY <1>1, <2>1, OpenWaits DEF Kept
  <2> QED BY <1>1, <1>2, <2>1, <2>2, <2>3 DEF Kept
<1>10. ASSUME NEW op \in {"write", "terminal"}, NEW first \in {"record", "terminal"},
              Begin(op, first)
       PROVE  Kept'
  <2>1. /\ Takes(op) /\ isOpen /\ pc' = first /\ current' = Head(queue).receipt
        /\ UNCHANGED <<disk, view, isOpen, configured, promised, owed>>
    BY <1>10 DEF Begin, history
  <2>2. Head(queue) = queue[1]
    BY <1>1, <2>1, Taken DEF TypeOK
  <2>3. \A r : Owing(r) => Owing(r)'
    BY <1>1, <1>2, <2>1, <2>2, OwingTaken
  <2> QED BY <1>1, <1>2, <2>1, <2>3 DEF Kept
<1>11. CASE InsertRecord
  <2> DEFINE table == Append(view.records, current)
             data == [view EXCEPT !.records = table]
  <2>1. view.records \in Seq(Receipts) /\ current \in Receipts /\ view \in Data
    BY <1>1, <1>11 DEF InsertRecord, Inv, OrderInv, TypeOK, Data
  <2>2. table \in Seq(Receipts) /\ Len(table) = Len(view.records) + 1 /\ Len(table) \in DOMAIN table
        /\ table[Len(table)] = current
    BY <2>1, AppendProperties
  <2>3. data.records = table /\ data.terminals = view.terminals
    BY <2>1, <2>2, DataExcept
  <2> HIDE DEF table, data
  <2>4. Succeeds(data, Len(view.records) + 1)
    BY <1>11 DEF InsertRecord, data, table, Fails
  <2>5. pc = "record" /\ txn
    BY <1>1, <1>11 DEF InsertRecord, Inv, WholeInv
  <2>6. /\ view' = data /\ pc' \notin {"record", "terminal"}
        /\ UNCHANGED <<queue, disk, isOpen, configured, promised, owed>>
    BY <1>11, <2>4, <2>5 DEF InsertRecord, Succeeds
  <2>7. StoredIn(view', current)
    BY <2>2, <2>3, <2>6 DEF StoredIn
  <2> QED BY <1>1, <1>2, <2>1, <2>3, <2>5, <2>6, <2>7, OwedStored DEF Kept, table
<1>12. CASE InsertItem
  <2> DEFINE table == Append(view.items, Item)
             data == [view EXCEPT !.items = table]
  <2>1. view.items \in Seq(ItemRows) /\ current \in Receipts /\ view \in Data /\ Item \in ItemRows
    BY <1>1, <1>12 DEF InsertItem, Inv, OrderInv, TypeOK, Data, ItemRows, Item
  <2>2. table \in Seq(ItemRows)
    BY <2>1, AppendProperties
  <2>3. data.records = view.records /\ data.terminals = view.terminals
    BY <2>1, <2>2, DataExcept
  <2> HIDE DEF data
  <2>4. Succeeds(data, Len(view.items) + 1)
    BY <1>12 DEF InsertItem, data, Fails
  <2>5. pc = "item" /\ txn
    BY <1>1, <1>12 DEF InsertItem, Inv, WholeInv
  <2>6. /\ view' = data /\ pc' \notin {"record", "terminal"}
        /\ UNCHANGED <<queue, disk, isOpen, configured, promised, owed>>
    BY <1>12, <2>4, <2>5 DEF InsertItem, Succeeds
  <2> QED BY <1>1, <1>2, <2>1, <2>3, <2>5, <2>6, OwedStored DEF Kept
<1>13. CASE InsertTerminal
  <2> DEFINE table == Append(view.terminals, current)
             data == [view EXCEPT !.terminals = table]
  <2>1. view.terminals \in Seq(Receipts) /\ current \in Receipts /\ view \in Data
    BY <1>1, <1>13 DEF InsertTerminal, Inv, OrderInv, TypeOK, Data
  <2>2. table \in Seq(Receipts) /\ Len(table) \in DOMAIN table /\ table[Len(table)] = current
    BY <2>1, AppendProperties
  <2>3. data.terminals = table /\ data.records = view.records
    BY <2>1, <2>2, DataExcept
  <2> HIDE DEF table, data
  <2>4. Succeeds(data, Len(view.terminals) + 1)
    BY <1>13 DEF InsertTerminal, data, table, Fails
  <2>5. pc = "terminal" /\ txn
    BY <1>1, <1>13 DEF InsertTerminal, Inv, WholeInv
  <2>6. /\ view' = data /\ pc' \notin {"record", "terminal"}
        /\ UNCHANGED <<queue, disk, isOpen, configured, promised, owed>>
    BY <1>13, <2>4, <2>5 DEF InsertTerminal, Succeeds
  <2>7. StoredIn(view', current)
    BY <2>2, <2>3, <2>6 DEF StoredIn
  <2> QED BY <1>1, <1>2, <2>1, <2>3, <2>5, <2>6, <2>7, OwedStored DEF Kept, table
<1>14. CASE End
  <2>1. /\ pc = "end" /\ disk' = view /\ view' = view
        /\ UNCHANGED <<queue, isOpen, configured, promised, owed>>
    BY <1>14 DEF End, Fails
  <2>2. \A r : Owing(r) => Owing(r)'
    BY <1>2, <2>1, OwingStays
  <2> QED BY <1>1, <1>2, <2>1, <2>2 DEF Kept
<1>15. CASE Crash
  <2>1. /\ ~configured' /\ owed' = {} /\ promised' = promised /\ disk' = disk /\ view' = disk
    BY <1>15 DEF Crash, Closed
  <2> QED BY <1>1, <1>2, <2>1 DEF Kept
<1>16. CASE UNCHANGED vars
  BY <1>1, <1>16 DEF vars, connection, handler, history, Kept, Owing, OpenAt, StoredIn
<1> QED BY <1>3, <1>4, <1>5, <1>6, <1>7, <1>8, <1>9, <1>10, <1>11, <1>12, <1>13, <1>14, <1>15,
           <1>16 DEF Next, OnWrite, OnWriteTerminal

-----------------------------------------------------------------------------
(***************************************************************************)
(* The theorems.                                                           *)
(***************************************************************************)
\* The service starts with nothing stored, nothing waiting and nothing owed.
LEMMA InitInv == Init => Inv
<1> SUFFICES ASSUME Init PROVE Inv
  OBVIOUS
<1> USE DEF Init
<1>1. NoData \in Data
  BY DEF NoData, Data, MaxInfo
<1>2. /\ NoData.records = <<>> /\ NoData.items = <<>> /\ NoData.terminals = <<>>
  BY DEF NoData
<1>3. TypeOK
  <2>1. queue \in Seq(Request) /\ 0 \in 0..MaxWrites
    BY BoundAssumption
  <2>2. /\ pc = "idle" /\ pc # "item" /\ caller = "idle"
        /\ lastRowid \in Nat /\ rowid \in Nat /\ next \in Nat
        /\ isOpen \in BOOLEAN /\ txn \in BOOLEAN
        /\ configured \in BOOLEAN /\ faulty \in BOOLEAN
    OBVIOUS
  <2>3. disk \in Data /\ view \in Data /\ written \in 0..MaxWrites
    BY <1>1, <2>1
  <2> QED BY <2>1, <2>2, <2>3 DEF TypeOK
<1>4. OrderInv
  BY <1>2 DEF OrderInv, Tables, Log!Increasing, Older
<1>5. Whole(NoData)
  BY <1>2 DEF Whole
<1>6. WholeInv
  BY <1>5 DEF WholeInv
<1>7. CallerInv
  BY DEF CallerInv
<1>8. OwedInv
  BY DEF OwedInv
<1>9. GrowInv
  <2>1. <<>> \in Seq(Receipts)
    OBVIOUS
  <2> QED BY <1>2, <2>1, Prefixes DEF GrowInv
<1> QED BY <1>3, <1>4, <1>6, <1>7, <1>8, <1>9 DEF Inv

THEOREM Invariance == Spec => []Inv
<1>1. Inv /\ [Next]_vars => Inv'
  BY TypeStep, OrderStep, GrowStep, WholeStep, CallerStep, OwedStep DEF Inv
<1> QED BY <1>1, InitInv, PTL DEF Spec

\* Every variable of the database service has its type, and on_write reads
\* only items that its record has.
THEOREM TypeCorrect == Spec => []TypeOK
<1>1. Inv => TypeOK
  BY DEF Inv
<1> QED BY <1>1, Invariance, PTL

\* Whatever statements fail and whenever the process crashes, each table on
\* the disk holds receipts in the order of the calls of write, none twice.
THEOREM OrderKept == Spec => []Log!InOrder
<1>1. Inv => Log!InOrder
  BY DEF Inv, OrderInv, Tables, Log!InOrder
<1> QED BY <1>1, Invariance, PTL

\* The file of pos_db is the log that ReceiptLog specifies: every step leaves
\* it as it is or adds newer receipts behind those that are there.
THEOREM ImplementsLog == Spec => LogGrows
<1>1. Init => Log!Init
  BY DEF Init, NoData, Log!Init
<1>2. Inv /\ Inv' /\ [Next]_vars => [Log!Commit]_<<disk.records, disk.terminals>>
  <2> SUFFICES ASSUME Inv, Inv', [Next]_vars PROVE Log!Commit
    OBVIOUS
  <2>1. Log!InOrder'
    BY DEF Inv, OrderInv, Tables, Log!InOrder
  <2> QED BY <2>1, GrowStep DEF Inv, Log!Commit
<1> QED BY <1>1, <1>2, Invariance, PTL DEF Spec, LogGrows, Log!Spec

\* While no statement fails, a record is on the disk with all its items or not
\* at all, in whatever state the process crashes, and so is it for a query.
THEOREM ReceiptsAreWhole == Spec => []ReceiptsWhole
<1>1. Inv => ReceiptsWhole
  BY DEF Inv, WholeInv, ReceiptsWhole
<1> QED BY <1>1, Invariance, PTL

\* What was written while the database was configured is on the disk, and no
\* handler is at work on it, when config("") returns.
THEOREM PromisesAreKept == Spec => []PromisesKept
<1>1. Inv => PromisesKept
  BY DEF Inv, CallerInv, OwedInv, StoredIn, PromisesKept
<1> QED BY <1>1, Invariance, PTL
=============================================================================
