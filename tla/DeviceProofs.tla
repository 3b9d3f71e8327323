----------------------------- MODULE DeviceProofs -----------------------------
(***************************************************************************)
(* Proofs about Device, for any configurations and any bounds.             *)
(*                                                                         *)
(* The callbacks find what they belong to because of where the owner is    *)
(* when a server is there (StageInv), those of the serial thread because   *)
(* a call that has not overlapped Config is one of this configuration      *)
(* (SerialInv); a record is whole because a parser that is inside a        *)
(* receipt was started by a START of this configuration (ReceiptInv).      *)
(***************************************************************************)
EXTENDS Device, TLAPS, SequenceTheorems

-----------------------------------------------------------------------------
(***************************************************************************)
(* The inductive invariant.                                                *)
(***************************************************************************)
\* Where the server, the display and the argument of Config are while the
\* owner is at one of its places.
StageInv ==
  /\ owner = "idle" => phase \in {"off", "on"}
  /\ owner = "stop" => phase # "on"
  /\ owner \notin {"idle", "stop", "aborted"} => phase = "off"
  /\ calling => phase \in {"on", "stopping"}
  /\ phase # "off" => serving = cfg.type
  /\ owner \in {"idle", "stop", "stopped", "start"} => display = "on"
  /\ owner = "change" => new # <<>>
  /\ owner \in {"stop", "stopped", "change"} /\ new # <<>> => version < MaxConfigs

\* A serial call that has not overlapped Config is one of this configuration,
\* and what it has found of isStarted still holds.
SerialInv ==
  /\ Overlap => raced
  /\ heard <= version
  /\ ~raced /\ serial # "idle" =>
       cfg.line = "serial" /\ SerialItem = Item(cfg.type)
  /\ ~raced /\ serial \in {"items", "unstart", "stopped"} => isStarted

\* The parser in use is inside a receipt: for the serial thread also between
\* the START and the store of isStarted, and between the store and the STOP.
InReceipt ==
  /\ cfg.type = "receipts"
  /\ \/ phase # "off" /\ hasStarted
     \/ cfg.line = "serial" /\ (isStarted \/ serial \in {"opened", "stop"})

\* The record is the receipt so far, and of one configuration.
Whole ==
  /\ record.header = version /\ record.items = receipt
  /\ \A i \in DOMAIN receipt : receipt[i] = Item("receipts")

ReceiptInv == ~raced /\ InReceipt => Whole

\* The items of plain text do not stay; no item is from the future.
ItemsInv ==
  \A i \in DOMAIN record.items :
    /\ record.items[i].version <= version
    /\ ~raced /\ cfg.type = "plaintext" => record.items[i].version < version

Inv ==
  TypeOK /\ StageInv /\ SerialInv /\ ReceiptInv /\ ItemsInv /\ RecordOfOneConfig /\ MixedOnlyAtSwitch

-----------------------------------------------------------------------------
(***************************************************************************)
(* Lemmas on items and on the callback.                                    *)
(***************************************************************************)
\* An item may be appended to any items, and becomes their last one.
LEMMA AppendItem ==
  ASSUME NEW s \in Items, NEW x \in [type : Types, version : 0..MaxConfigs]
  PROVE  /\ Append(s, x) \in Items
         /\ Len(Append(s, x)) = Len(s) + 1
         /\ \A i \in 1..Len(s) : Append(s, x)[i] = s[i]
         /\ Append(s, x)[Len(s) + 1] = x
         /\ DOMAIN Append(s, x) = 1..(Len(s) + 1)
         /\ Last(Append(s, x)) = x
         /\ Front(Append(s, x)) = s
<1>1. /\ Append(s, x) \in Items
      /\ Len(Append(s, x)) = Len(s) + 1
      /\ \A i \in 1..Len(s) : Append(s, x)[i] = s[i]
      /\ Append(s, x)[Len(s) + 1] = x
      /\ DOMAIN Append(s, x) = 1..(Len(s) + 1)
  BY DEF Items
<1>2. Last(Append(s, x)) = x
  BY <1>1 DEF Last
<1>3. Front(Append(s, x)) = s
  BY DEF Front, Items
<1> QED BY <1>1, <1>2, <1>3

\* The empty sequence is one of items.
LEMMA NoItem == <<>> \in Items /\ Len(<<>>) = 0 /\ DOMAIN <<>> = {}
BY DEF Items

\* What the callback does to the record, whichever parser makes it.  If no
\* serial call has overlapped Config, the item is one of the configuration.
LEMMA Received ==
  ASSUME Inv, NEW call \in {"START", "ITEM", "STOP"},
         NEW item \in [type : Types, version : 0..MaxConfigs], item.version <= version,
         PosDataRecv(call, item), UNCHANGED <<cfg, version>>,
         ~raced' => ~raced /\ item = Item(cfg.type),
         ~raced' /\ cfg.type = "receipts" /\ call # "START" => Whole
  PROVE  /\ record'.header \in 0..MaxConfigs /\ record'.items \in Items
         /\ receipt' \in Items /\ written'.items \in Items /\ appended' \in BOOLEAN
         /\ Len(record'.items) <= MaxItems
         /\ ~raced' /\ cfg.type = "receipts" => Whole'
         /\ ItemsInv' /\ RecordOfOneConfig' /\ MixedOnlyAtSwitch'
<1>1. /\ version \in 0..MaxConfigs /\ MaxItems \in Nat
      /\ record.items \in Items /\ receipt \in Items /\ record.header \in 0..MaxConfigs
      /\ Len(record.items) <= MaxItems
  BY BoundAssumption DEF Inv, TypeOK
<1>2. /\ Append(record.items, item) \in Items /\ Append(receipt, item) \in Items
      /\ \A i \in DOMAIN Append(record.items, item) :
           IF i = Len(record.items) + 1 THEN Append(record.items, item)[i] = item
           ELSE i \in DOMAIN record.items /\ Append(record.items, item)[i] = record.items[i]
      /\ \A i \in DOMAIN Append(receipt, item) :
           IF i = Len(receipt) + 1 THEN Append(receipt, item)[i] = item
           ELSE i \in DOMAIN receipt /\ Append(receipt, item)[i] = receipt[i]
  <2>1. ASSUME NEW s \in Items
        PROVE  /\ Append(s, item) \in Items
               /\ \A i \in DOMAIN Append(s, item) :
                    IF i = Len(s) + 1 THEN Append(s, item)[i] = item
                    ELSE i \in DOMAIN s /\ Append(s, item)[i] = s[i]
    <3>1. Len(s) \in Nat /\ DOMAIN s = 1..Len(s)
      BY DEF Items
    <3>2. /\ Append(s, item) \in Items /\ DOMAIN Append(s, item) = 1..(Len(s) + 1)
          /\ \A i \in 1..Len(s) : Append(s, item)[i] = s[i]
          /\ Append(s, item)[Len(s) + 1] = item
      BY AppendItem
    <3> QED BY <3>1, <3>2
  <2> QED BY <1>1, <2>1
<1>3. call = "ITEM" => Len(Append(record.items, item)) <= MaxItems
  BY <1>1 DEF PosDataRecv, Items
<1>4. ASSUME record' = [header |-> record.header, items |-> Append(record.items, item)],
             cfg.type # "plaintext"
      PROVE  ItemsInv'
  <2> SUFFICES ASSUME NEW i \in DOMAIN record'.items
               PROVE  record'.items[i].version <= version
    BY <1>4 DEF ItemsInv
  <2> QED BY <1>1, <1>2, <1>4 DEF Inv, ItemsInv
<1>5. CASE ReceiptRecv(call, item)
  <2>1. cfg.type = "receipts" /\ (~raced' => item = Item("receipts"))
    BY <1>5 DEF ReceiptRecv
  <2>2. appended' \in BOOLEAN
    BY <1>5 DEF ReceiptRecv, HasItem
  <2>3. CASE call = "START"
    <3>1. /\ record' = [header |-> version, items |-> <<>>]
          /\ written' = NoRecord /\ receipt' = <<>>
      BY <1>5, <2>3 DEF ReceiptRecv, AddItem, Record, NoItems
    <3> QED BY <1>1, <2>2, <3>1, NoItem
            DEF NoRecord, Whole, ItemsInv, RecordOfOneConfig, MixedOnlyAtSwitch
  <2>4. CASE call = "ITEM"
    <3>1. /\ record' = [header |-> record.header, items |-> Append(record.items, item)]
          /\ written' = NoRecord /\ receipt' = Append(receipt, item)
      BY <1>5, <2>4 DEF ReceiptRecv, AddItem, Record
    <3>2. ASSUME ~raced' PROVE Whole'
      <4>1. Whole
        BY <2>1, <2>4, <3>2
      <4> HIDE DEF Whole
      <4>2. record'.header = version' /\ record'.items = receipt'
        BY <3>1, <4>1 DEF Whole
      <4>3. ASSUME NEW i \in DOMAIN receipt' PROVE receipt'[i] = item
        BY <1>2, <2>1, <3>1, <3>2, <4>1, <4>3 DEF Whole
      <4> QED BY <2>1, <3>2, <4>2, <4>3 DEF Whole, Item
    <3>3. ItemsInv'
      BY <1>4, <2>1, <3>1
    <3> QED BY <1>1, <1>2, <1>3, <2>2, <2>4, <3>1, <3>2, <3>3, NoItem
            DEF NoRecord, RecordOfOneConfig, MixedOnlyAtSwitch
  <2>5. CASE call = "STOP"
    <3>1. /\ UNCHANGED <<record, receipt>>
          /\ written' = [op |-> "receipt", header |-> record.header, items |-> record.items]
      BY <1>5, <2>5 DEF ReceiptRecv, AddItem
    <3>2. ~raced' => Whole
      BY <2>1, <2>5
    <3>3. (~raced' => Whole') /\ ItemsInv'
      BY <2>1, <3>1, <3>2 DEF Whole, Item, Inv, ItemsInv
    <3>4. RecordOfOneConfig'
      BY <3>1, <3>2 DEF Whole, Item, RecordOfOneConfig
    <3> QED BY <1>1, <2>2, <3>1, <3>3, <3>4 DEF MixedOnlyAtSwitch
  <2> QED BY <2>3, <2>4, <2>5
<1>6. CASE TerminalRecv(call, item)
  <2>1. cfg.type = "terminal" /\ UNCHANGED receipt
    BY <1>6 DEF TerminalRecv
  <2>2. CASE Silent /\ UNCHANGED record
    BY <1>1, <2>1, <2>2, NoItem
       DEF Silent, NoRecord, Inv, ItemsInv, RecordOfOneConfig, MixedOnlyAtSwitch
  <2>3. CASE ~(Silent /\ UNCHANGED record)
    <3>1. /\ call = "ITEM" /\ appended' = TRUE
          /\ record' = [header |-> record.header, items |-> Append(record.items, item)]
          /\ written' = [op |-> "terminal", header |-> version, items |-> <<item>>]
      BY <1>6, <2>3 DEF TerminalRecv, Record, HasItem
    <3>2. ItemsInv'
      BY <1>4, <2>1, <3>1
    <3>3. <<item>> \in Items
      BY DEF Items
    <3> QED BY <1>1, <1>2, <1>3, <2>1, <3>1, <3>2, <3>3
            DEF RecordOfOneConfig, MixedOnlyAtSwitch
  <2> QED BY <2>2, <2>3
<1>7. CASE PlainTextRecv(call, item)
  <2>1. cfg.type = "plaintext" /\ UNCHANGED receipt /\ (~raced' => item = Item("plaintext"))
    BY <1>7 DEF PlainTextRecv
  <2>2. CASE call # "ITEM"
    <3>1. Silent /\ UNCHANGED record
      BY <1>7, <2>2 DEF PlainTextRecv, HasItem
    <3> QED BY <1>1, <2>1, <3>1, NoItem
            DEF Silent, NoRecord, Inv, ItemsInv, RecordOfOneConfig, MixedOnlyAtSwitch
  <2>3. CASE call = "ITEM"
    <3>1. /\ appended' = TRUE
          /\ written' = [op |-> "plaintext", header |-> version,
                         items |-> Append(record.items, item)]
          /\ record' = [header |-> version, items |-> <<>>]
      BY <1>7, <2>3 DEF PlainTextRecv, HasItem, WritePlainText, Record, Cleared
    <3>2. Last(written'.items) = item /\ Front(written'.items) = record.items
      BY <1>1, <3>1, AppendItem
    <3>3. MixedOnlyAtSwitch'
      <4> SUFFICES ASSUME ~raced'
                   PROVE  /\ written'.header = version'
                          /\ Last(written'.items) = Item("plaintext")'
                          /\ \A i \in DOMAIN Front(written'.items) :
                               written'.items[i].version < version'
        BY DEF MixedOnlyAtSwitch
      <4>1. \A i \in DOMAIN record.items : record.items[i].version < version
        BY <2>1 DEF Inv, ItemsInv
      <4>2. ASSUME NEW i \in DOMAIN record.items
            PROVE  written'.items[i].version < version
        <5>1. written'.items[i] = record.items[i]
          BY <1>1, <3>1 DEF Items
        <5> QED BY <4>1, <5>1
      <4>4. Last(written'.items) = Item("plaintext")'
        BY <2>1, <3>2 DEF Item
      <4> QED BY <3>1, <3>2, <4>2, <4>4
    <3>4. ItemsInv' /\ RecordOfOneConfig'
      BY <3>1, NoItem DEF ItemsInv, RecordOfOneConfig
    <3>5. /\ record'.header = version /\ record'.items = <<>>
          /\ written'.items = Append(record.items, item)
      BY <3>1
    <3> QED BY <1>1, <1>2, <2>1, <3>1, <3>3, <3>4, <3>5, NoItem
  <2> QED BY <2>2, <2>3
<1> QED BY <1>5, <1>6, <1>7 DEF PosDataRecv

\* What a step without a callback leaves.
LEMMA NothingReceived ==
  ASSUME Inv, Silent, UNCHANGED <<cfg, version, record, receipt>>,
         ~raced' => ~raced /\ (InReceipt' => InReceipt)
  PROVE  /\ ReceiptInv' /\ ItemsInv' /\ RecordOfOneConfig' /\ MixedOnlyAtSwitch'
         /\ written'.items \in Items /\ appended' = FALSE
<1>1. ReceiptInv'
  BY DEF Inv, ReceiptInv, Whole, Item
<1>2. ItemsInv'
  BY DEF Inv, ItemsInv
<1> QED BY <1>1, <1>2, NoItem DEF Silent, NoRecord, RecordOfOneConfig, MixedOnlyAtSwitch

-----------------------------------------------------------------------------
(***************************************************************************)
(* Every step keeps the invariant.                                         *)
(***************************************************************************)
LEMMA InitInv == Init => Inv
<1> SUFFICES ASSUME Init PROVE Inv
  OBVIOUS
<1>1. cfg \in ConfigInfo
  BY ConfigAssumption DEF Init
<1>2. TypeOK
  <2>1. cfg.type \in Types /\ cfg.encoding \in Encodings /\ cfg.line \in {"serial", "net"}
    BY <1>1 DEF ConfigInfo
  <2>2. converter \in Encodings
    BY <2>1, EncodingAssumption DEF Init, Opened
  <2>3. record.header = 0 /\ record.items = <<>> /\ written.items = <<>> /\ receipt = <<>>
    BY DEF Init, NoRecord
  <2>4. 0 \in 0..MaxConfigs /\ 0 <= MaxItems
    BY BoundAssumption
  <2>5. /\ cfg \in Configs /\ version = 0 /\ owner = "start" /\ new = <<>>
        /\ phase = "off" /\ calling = FALSE /\ serving = cfg.type
        /\ hasStarted = FALSE /\ isStarted = FALSE /\ appended = FALSE /\ display = "on"
        /\ serial = "idle" /\ heard = 0 /\ raced = FALSE
    BY DEF Init, Server!Init
  <2> QED BY <2>1, <2>2, <2>3, <2>4, <2>5, NoItem DEF TypeOK
<1>3. StageInv /\ SerialInv
  BY DEF Init, Server!Init, StageInv, SerialInv, Overlap
<1>4. ReceiptInv /\ ItemsInv
  BY NoItem DEF Init, Server!Init, ReceiptInv, InReceipt, ItemsInv
<1>5. RecordOfOneConfig /\ MixedOnlyAtSwitch
  BY DEF Init, NoRecord, RecordOfOneConfig, MixedOnlyAtSwitch
<1> QED BY <1>2, <1>3, <1>4, <1>5 DEF Inv

\* What a step does that is not the change of the configuration: an overlap
\* is not forgotten.
LEMMA Remembered ==
  ASSUME Inv, Remembers, ~(owner = "change" /\ owner' = "changed")
  PROVE  raced' \in BOOLEAN /\ (Overlap' => raced') /\ (raced => raced')
BY DEF Remembers, Inv, TypeOK, Overlap

\* A callback of the server is one of this configuration's.
LEMMA ServerCallsKeeps ==
  ASSUME Inv, Remembers, NEW call \in {"START", "ITEM", "STOP"}, ServerCalls(call)
  PROVE  Inv'
<1>1. /\ phase \in {"on", "stopping"} /\ calling' = TRUE
      /\ UNCHANGED <<phase, cfg, version, owner, new, serving, isStarted, serial, heard,
                     converter, display>>
  BY DEF ServerCalls, Server!Callback, call485
<1>2. serving = cfg.type /\ cfg.line # "serial"
  BY <1>1 DEF Inv, TypeOK, StageInv
<1>3. PosDataRecv(call, Item(cfg.type))
  BY <1>2 DEF ServerCalls
<1>4. hasStarted' \in BOOLEAN
  BY DEF ServerCalls, Inv, TypeOK
<1>5. ~raced /\ cfg.type = "receipts" /\ call # "START" => Whole
  BY <1>1, <1>2 DEF ServerCalls, Parses, Inv, ReceiptInv, InReceipt
<1>6. raced' \in BOOLEAN /\ (Overlap' => raced') /\ (raced => raced')
  BY <1>1, Remembered
<1>7. /\ Item(cfg.type) \in [type : Types, version : 0..MaxConfigs]
      /\ Item(cfg.type).version <= version
  BY ConfigAssumption, BoundAssumption DEF Item, Inv, TypeOK, ConfigInfo
<1>8. /\ record'.header \in 0..MaxConfigs /\ record'.items \in Items
      /\ receipt' \in Items /\ written'.items \in Items /\ appended' \in BOOLEAN
      /\ Len(record'.items) <= MaxItems
      /\ ~raced' /\ cfg.type = "receipts" => Whole'
      /\ ItemsInv' /\ RecordOfOneConfig' /\ MixedOnlyAtSwitch'
  BY <1>1, <1>3, <1>5, <1>6, <1>7, Received
<1>9. TypeOK'
  BY <1>1, <1>4, <1>6, <1>8 DEF Inv, TypeOK
<1>10. StageInv'
  BY <1>1 DEF Inv, StageInv
<1>11. SerialInv'
  BY <1>1, <1>6 DEF Inv, SerialInv, SerialItem, Item
<1>12. ReceiptInv'
  BY <1>1, <1>8 DEF ReceiptInv, InReceipt
<1> QED BY <1>8, <1>9, <1>10, <1>11, <1>12 DEF Inv

\* So is one of the serial line, unless it has overlapped Config.
LEMMA SerialCallsKeeps ==
  ASSUME Inv, Remembers, NEW call \in {"START", "ITEM", "STOP"}, SerialCalls(call)
  PROVE  Inv'
<1>1. /\ PosDataRecv(call, SerialItem) /\ Makes(call, serial, serial')
      /\ UNCHANGED <<cfg, version, owner, new, phase, calling, serving, hasStarted, isStarted,
                     heard, converter, display>>
      /\ serial' \in {"opened", "loop", "unstart", "stopped", "idle"}
      /\ serial # "idle"
  BY DEF SerialCalls, SerialMoves, server, Makes
<1>2. raced' \in BOOLEAN /\ (Overlap' => raced') /\ (raced => raced')
  BY <1>1, Remembered
<1>3. ~raced => /\ cfg.line = "serial" /\ SerialItem = Item(cfg.type)
                /\ serial = "items" => isStarted
  BY <1>1 DEF Inv, SerialInv
<1>4. /\ SerialItem \in [type : Types, version : 0..MaxConfigs]
      /\ SerialItem.version <= version
  BY DEF SerialItem, Types, Inv, TypeOK, SerialInv
<1>5. ~raced /\ cfg.type = "receipts" /\ call # "START" => Whole
  <2> SUFFICES ASSUME ~raced, cfg.type = "receipts", call # "START" PROVE Whole
    OBVIOUS
  <2>1. serial # "text"
    BY <1>3 DEF SerialItem, Item
  <2>2. serial = "stop" \/ serial = "items"
    BY <1>1, <2>1 DEF Makes
  <2> QED BY <1>3, <2>2 DEF Inv, ReceiptInv, InReceipt
<1>6. /\ record'.header \in 0..MaxConfigs /\ record'.items \in Items
      /\ receipt' \in Items /\ written'.items \in Items /\ appended' \in BOOLEAN
      /\ Len(record'.items) <= MaxItems
      /\ ~raced' /\ cfg.type = "receipts" => Whole'
      /\ ItemsInv' /\ RecordOfOneConfig' /\ MixedOnlyAtSwitch'
  BY <1>1, <1>2, <1>3, <1>4, <1>5, Received
<1>7. TypeOK'
  BY <1>1, <1>2, <1>6 DEF Inv, TypeOK
<1>8. StageInv'
  BY <1>1 DEF Inv, StageInv
<1>9. SerialInv'
  <2>1. ~raced' /\ serial' # "idle" => SerialItem' = Item(cfg.type)'
    BY <1>1, <1>2, <1>3 DEF SerialItem, Item, Makes
  <2>2. ~raced' /\ serial' \in {"items", "unstart", "stopped"} => isStarted'
    BY <1>1, <1>2, <1>3 DEF Makes
  <2> QED BY <1>1, <1>2, <1>3, <2>1, <2>2 DEF Inv, SerialInv
<1>10. ReceiptInv'
  BY <1>1, <1>6 DEF ReceiptInv, InReceipt
<1> QED BY <1>6, <1>7, <1>8, <1>9, <1>10 DEF Inv

\* A serial step without a callback that keeps what the parser has.
LEMMA SerialQuietKeeps ==
  ASSUME Inv, Remembers, Silent, SerialMoves, UNCHANGED <<record, receipt>>,
         isStarted' \in BOOLEAN, heard' \in 0..MaxConfigs, heard' <= version,
         serial' \in {"idle", "loop", "start", "opened", "items", "unstart", "stop",
                      "stopped", "text"},
         ~raced /\ InReceipt' => InReceipt,
         ~raced /\ serial' # "idle" => cfg.line = "serial" /\ SerialItem' = Item(cfg.type),
         ~raced /\ serial' \in {"items", "unstart", "stopped"} => isStarted'
  PROVE  Inv'
<1>1. UNCHANGED <<cfg, version, owner, new, phase, calling, serving, hasStarted, converter,
                  display>>
  BY DEF SerialMoves, server
<1>2. raced' \in BOOLEAN /\ (Overlap' => raced') /\ (raced => raced')
  BY <1>1, Remembered
<1>3. /\ ReceiptInv' /\ ItemsInv' /\ RecordOfOneConfig' /\ MixedOnlyAtSwitch'
      /\ written'.items \in Items /\ appended' = FALSE
  BY <1>1, <1>2, NothingReceived
<1>4. TypeOK'
  BY <1>1, <1>2, <1>3 DEF Inv, TypeOK
<1>5. StageInv'
  BY <1>1 DEF Inv, StageInv
<1>6. SerialInv'
  BY <1>1, <1>2 DEF SerialInv, Item
<1> QED BY <1>3, <1>4, <1>5, <1>6 DEF Inv

\* The serial thread comes in with a string of this configuration.
LEMMA SerialEntersKeeps == Inv /\ Remembers /\ SerialEnters => Inv'
<1> SUFFICES ASSUME Inv, Remembers, SerialEnters PROVE Inv'
  OBVIOUS
<1>1. /\ cfg.line = "serial" /\ serial = "idle" /\ Silent /\ SerialMoves
      /\ UNCHANGED <<isStarted, record, receipt>> /\ heard' = version
      /\ \/ cfg.type = "receipts" /\ serial' = "loop"
         \/ cfg.type = "plaintext" /\ serial' = "text"
  BY DEF SerialEnters, HearsSerial
<1>2. UNCHANGED <<cfg, phase, hasStarted>>
  BY <1>1 DEF SerialMoves, server
<1>3. InReceipt' => InReceipt
  BY <1>1, <1>2 DEF InReceipt
<1>4. SerialItem' = Item(cfg.type)
  BY <1>1 DEF SerialItem, Item
<1>5. version \in 0..MaxConfigs /\ version <= version /\ isStarted \in BOOLEAN
  BY BoundAssumption DEF Inv, TypeOK
<1> QED BY <1>1, <1>3, <1>4, <1>5, SerialQuietKeeps

LEMMA SerialOverflowsKeeps == Inv /\ Remembers /\ SerialOverflows => Inv'
<1> SUFFICES ASSUME Inv, Remembers, SerialOverflows PROVE Inv'
  OBVIOUS
<1>1. /\ isStarted' = FALSE /\ Silent /\ SerialMoves /\ serial = "idle"
      /\ UNCHANGED <<serial, heard, record, receipt>>
  BY DEF SerialOverflows, call485, HearsSerial
<1>2. UNCHANGED <<cfg, phase, hasStarted>>
  BY <1>1 DEF SerialMoves, server
<1>3. InReceipt' => InReceipt
  BY <1>1, <1>2 DEF InReceipt
<1>4. heard \in 0..MaxConfigs /\ heard <= version
  BY DEF Inv, TypeOK, SerialInv
<1> QED BY <1>1, <1>3, <1>4, SerialQuietKeeps

\* The test of isStarted.
LEMMA SerialTestsKeeps == Inv /\ Remembers /\ SerialTests => Inv'
<1> SUFFICES ASSUME Inv, Remembers, SerialTests PROVE Inv'
  OBVIOUS
<1>1. /\ serial = "loop" /\ Silent /\ SerialMoves
      /\ UNCHANGED <<isStarted, heard, record, receipt>>
      /\ serial' \in {"items", "unstart", "idle", "start"}
      /\ serial' \in {"items", "unstart"} => isStarted
  BY DEF SerialTests
<1>2. UNCHANGED <<cfg, phase, hasStarted>>
  BY <1>1 DEF SerialMoves, server
<1>3. InReceipt' => InReceipt
  BY <1>1, <1>2 DEF InReceipt
<1>4. ~raced => cfg.line = "serial" /\ SerialItem = Item(cfg.type)
  BY <1>1 DEF Inv, SerialInv
<1>5. SerialItem' = SerialItem
  BY <1>1 DEF SerialItem
<1>6. heard \in 0..MaxConfigs /\ heard <= version /\ isStarted \in BOOLEAN
  BY DEF Inv, TypeOK, SerialInv
<1> QED BY <1>1, <1>3, <1>4, <1>5, <1>6, SerialQuietKeeps

\* The stores of isStarted.
LEMMA SerialStoresKeeps == Inv /\ Remembers /\ SerialStores => Inv'
<1> SUFFICES ASSUME Inv, Remembers, SerialStores PROVE Inv'
  OBVIOUS
<1>1. /\ Silent /\ SerialMoves /\ UNCHANGED <<heard, record, receipt>>
      /\ \/ serial = "opened"  /\ isStarted' = TRUE  /\ serial' = "loop"
         \/ serial = "stopped" /\ isStarted' = FALSE /\ serial' = "idle"
         \/ serial = "unstart" /\ isStarted' = FALSE /\ serial' = "stop"
  BY DEF SerialStores
<1>2. UNCHANGED <<cfg, phase, hasStarted>>
  BY <1>1 DEF SerialMoves, server
<1>3. ~raced => /\ cfg.line = "serial" /\ SerialItem = Item(cfg.type)
                /\ serial \in {"unstart", "stopped"} => isStarted
  BY <1>1 DEF Inv, SerialInv
<1>4. ~raced /\ InReceipt' => InReceipt
  BY <1>1, <1>2, <1>3 DEF InReceipt
<1>5. SerialItem' = SerialItem
  BY <1>1 DEF SerialItem
<1>6. heard \in 0..MaxConfigs /\ heard <= version
  BY DEF Inv, TypeOK, SerialInv
<1> QED BY <1>1, <1>3, <1>4, <1>5, <1>6, SerialQuietKeeps

\* Only a call that has overlapped Config finds a terminal's configuration.
LEMMA SerialAbortsKeeps == Inv /\ Remembers /\ SerialAborts => Inv' /\ raced
<1> SUFFICES ASSUME Inv, Remembers, SerialAborts PROVE Inv' /\ raced
  OBVIOUS
<1>1. /\ serial \in {"start", "items", "stop", "text"} /\ cfg.type = "terminal"
      /\ owner' = "aborted" /\ Silent
      /\ UNCHANGED <<cfg, version, new, phase, calling, serving, hasStarted, isStarted,
                     serial, heard, converter, display, record, receipt>>
  BY DEF SerialAborts, parser, call485, server
<1>2. raced
  BY <1>1 DEF Inv, SerialInv, SerialItem, Item
<1>3. raced' \in BOOLEAN /\ (Overlap' => raced') /\ raced'
  BY <1>1, <1>2, Remembered
<1>4. /\ ReceiptInv' /\ ItemsInv' /\ RecordOfOneConfig' /\ MixedOnlyAtSwitch'
      /\ written'.items \in Items /\ appended' = FALSE
  BY <1>1, <1>3, NothingReceived
<1>5. TypeOK'
  BY <1>1, <1>3, <1>4 DEF Inv, TypeOK
<1>6. StageInv'
  BY <1>1 DEF Inv, StageInv
<1>7. SerialInv'
  BY <1>1, <1>3 DEF Inv, SerialInv
<1> QED BY <1>2, <1>4, <1>5, <1>6, <1>7 DEF Inv

\* A step of the owner that changes neither the configuration nor a parser.
LEMMA OwnerKeeps ==
  ASSUME Inv, Remembers, Silent, ~(owner = "change" /\ owner' = "changed"),
         UNCHANGED <<cfg, version, serving, hasStarted, isStarted, serial, heard, record,
                     receipt>>,
         phase = "off" => phase' = "off", calling' \in BOOLEAN, converter' \in Encodings,
         phase' \in {"off", "on", "stopping", "quiet"}, new' \in Configs \cup {<<>>},
         display' \in {"on", "off", "deleted"},
         owner' \in {"idle", "stop", "stopped", "change", "changed", "start", "destroyed",
                     "aborted"},
         StageInv'
  PROVE  Inv'
<1>1. InReceipt' => InReceipt
  BY DEF InReceipt
<1>2. raced' \in BOOLEAN /\ (Overlap' => raced') /\ (raced => raced')
  BY Remembered
<1>3. /\ ReceiptInv' /\ ItemsInv' /\ RecordOfOneConfig' /\ MixedOnlyAtSwitch'
      /\ written'.items \in Items /\ appended' = FALSE
  BY <1>1, <1>2, NothingReceived
<1>4. TypeOK'
  BY <1>2, <1>3 DEF Inv, TypeOK
<1>5. SerialInv'
  BY <1>2 DEF Inv, SerialInv, SerialItem, Item
<1> QED BY <1>3, <1>4, <1>5 DEF Inv
\* The owner calls Config or the destructor, and stops its server.
LEMMA StopCallKeeps ==
  ASSUME Inv, Remembers, NEW c \in Configs \cup {<<>>}, StopCall(c)
  PROVE  Inv'
<1>1. /\ owner = "idle" /\ owner' = "stop" /\ new' = c /\ Silent
      /\ c # <<>> => version < MaxConfigs
      /\ UNCHANGED <<cfg, version, serving, hasStarted, isStarted, serial, heard, converter, display,
                     record, receipt>>
  BY DEF StopCall, Goes, parser, call485
<1>2. IF phase = "on" THEN phase' = "stopping" /\ calling' = FALSE
                      ELSE UNCHANGED <<phase, calling>>
  BY DEF StopCall, Server!StopCall, server
<1>3. StageInv'
  BY <1>1, <1>2 DEF Inv, StageInv
<1> QED BY <1>1, <1>2, <1>3, OwnerKeeps DEF Inv, TypeOK

\* The service thread stops the server, and stop returns.
LEMMA StopRunsKeeps == Inv /\ Remembers /\ StopRuns => Inv'
<1> SUFFICES ASSUME Inv, Remembers, StopRuns PROVE Inv'
  OBVIOUS
<1>1. /\ phase = "stopping" /\ phase' = "quiet" /\ calling' = FALSE /\ Silent
      /\ UNCHANGED <<cfg, version, owner, new, serving, hasStarted, isStarted, serial, heard, converter,
                     display, record, receipt>>
  BY DEF StopRuns, Server!Quiesce, parser, call485
<1>2. StageInv'
  BY <1>1 DEF Inv, StageInv
<1> QED BY <1>1, <1>2, OwnerKeeps DEF Inv, TypeOK

LEMMA StopReturnsKeeps == Inv /\ Remembers /\ StopReturns => Inv'
<1> SUFFICES ASSUME Inv, Remembers, StopReturns PROVE Inv'
  OBVIOUS
<1>1. /\ owner = "stop" /\ owner' = "stopped" /\ phase \in {"off", "quiet"} /\ Silent
      /\ UNCHANGED <<cfg, version, new, serving, hasStarted, isStarted, serial, heard, converter, display,
                     record, receipt>>
  BY DEF StopReturns, HasStopped, Goes, parser, call485
<1>2. phase' = "off" /\ calling' = FALSE
  BY <1>1 DEF StopReturns, Server!StopReturn, server, Inv, TypeOK, StageInv
<1>3. StageInv'
  BY <1>1, <1>2 DEF Inv, StageInv
<1> QED BY <1>1, <1>2, <1>3, OwnerKeeps DEF Inv, TypeOK

\* The display stops and starts.
LEMMA DisplayKeeps == Inv /\ Remembers /\ (StopComposing \/ StartComposing) => Inv'
<1>1. ASSUME Inv, Remembers, StopComposing PROVE Inv'
  <2>1. /\ owner = "stopped" /\ new # <<>> /\ owner' = "change" /\ Silent
        /\ display' \in {"off", display}
        /\ UNCHANGED <<cfg, version, new, phase, calling, serving, hasStarted, isStarted, serial, heard,
                       converter, record, receipt>>
    BY <1>1 DEF StopComposing, Goes, parser, call485, server
  <2>2. StageInv'
    BY <1>1, <2>1 DEF Inv, StageInv
  <2> QED BY <1>1, <2>1, <2>2, OwnerKeeps DEF Inv, TypeOK
<1>2. ASSUME Inv, Remembers, StartComposing PROVE Inv'
  <2>1. /\ owner = "changed" /\ owner' = "start" /\ display' = "on" /\ Silent
        /\ UNCHANGED <<cfg, version, new, phase, calling, serving, hasStarted, isStarted, serial, heard,
                       converter, record, receipt>>
    BY <1>2 DEF StartComposing, Goes, parser, call485, server
  <2>2. StageInv'
    BY <1>2, <2>1 DEF Inv, StageInv
  <2> QED BY <1>2, <2>1, <2>2, OwnerKeeps DEF Inv, TypeOK
<1> QED BY <1>1, <1>2

\* No server is there and the serial parser is reset when all items become
\* those of an earlier configuration.
LEMMA ChangeKeeps == Inv /\ Remembers /\ Change => Inv'
<1> SUFFICES ASSUME Inv, Remembers, Change PROVE Inv'
  OBVIOUS
<1>1. /\ owner = "change" /\ owner' = "changed" /\ cfg' = new /\ version' = version + 1
      /\ isStarted' = FALSE /\ converter' \in ConverterAfter /\ Silent
      /\ UNCHANGED <<new, phase, calling, serving, hasStarted, serial, heard, display,
                     record, receipt>>
  BY DEF Change, Goes, StartedAfter, server, call485
<1>2. new \in Configs /\ version < MaxConfigs /\ phase = "off" /\ ~calling
  BY <1>1 DEF Inv, TypeOK, StageInv
<1>3. version \in 0..MaxConfigs /\ version' \in 0..MaxConfigs
  BY <1>1, <1>2, BoundAssumption DEF Inv, TypeOK
<1>4. converter' \in Encodings
  BY <1>1, <1>2, ConfigAssumption, EncodingAssumption
     DEF ConverterAfter, Opened, ConfigInfo, Inv, TypeOK
<1>5. /\ written' = NoRecord /\ appended' = FALSE
      /\ raced' \in BOOLEAN /\ (raced' <=> serial # "idle")
  BY <1>1 DEF Silent, Remembers, Overlap
<1>6. TypeOK'
  BY <1>1, <1>2, <1>3, <1>4, <1>5, NoItem DEF NoRecord, Inv, TypeOK
<1>7. StageInv' /\ SerialInv'
  <2>1. StageInv'
    BY <1>1, <1>2 DEF Inv, StageInv
  <2>2. heard' <= version'
    BY <1>1, <1>3, BoundAssumption DEF Inv, TypeOK, SerialInv
  <2> QED BY <1>1, <1>5, <2>1, <2>2 DEF SerialInv, Overlap
<1>8. ReceiptInv'
  BY <1>1, <1>2, <1>5 DEF ReceiptInv, InReceipt
<1>9. ItemsInv'
  <2>1. record.items \in Seq([type : Types, version : 0..MaxConfigs])
    BY DEF Inv, TypeOK, Items
  <2>2. ASSUME NEW i \in DOMAIN record.items
        PROVE  record.items[i].version < version + 1 /\ record.items[i].version <= version + 1
    <3>1. record.items[i] \in [type : Types, version : 0..MaxConfigs]
      <4>1. i \in 1..Len(record.items)
        BY <2>1
      <4> QED BY <2>1, <4>1, ElementOfSeq
    <3>2. record.items[i].version \in Nat
      BY <3>1, BoundAssumption
    <3>3. record.items[i].version <= version
      BY DEF Inv, ItemsInv
    <3> QED BY <1>3, <3>2, <3>3
  <2> QED BY <1>1, <2>2 DEF ItemsInv
<1>10. RecordOfOneConfig' /\ MixedOnlyAtSwitch'
  BY <1>5 DEF NoRecord, RecordOfOneConfig, MixedOnlyAtSwitch
<1> QED BY <1>6, <1>7, <1>8, <1>9, <1>10 DEF Inv
\* The server is started for the type of the configuration.
LEMMA StartsKeeps == Inv /\ Remembers /\ Starts => Inv'
<1> SUFFICES ASSUME Inv, Remembers, Starts PROVE Inv'
  OBVIOUS
<1>1. /\ owner = "start" /\ owner' = "idle" /\ new' = <<>> /\ serving' = cfg.type
      /\ hasStarted' = FALSE /\ Silent
      /\ UNCHANGED <<cfg, version, isStarted, serial, heard, converter, display, record, receipt>>
  BY DEF Starts, Goes, call485
<1>2. /\ phase = "off" /\ ~calling
      /\ \/ cfg.line = "net" /\ phase' = "on" /\ calling' = FALSE
         \/ UNCHANGED <<phase, calling>>
  BY <1>1 DEF Starts, ServedLines, Server!Start, server, Inv, TypeOK, StageInv
<1>3. InReceipt' => InReceipt
  BY <1>1 DEF InReceipt
<1>4. raced' \in BOOLEAN /\ (Overlap' => raced') /\ (raced => raced')
  BY <1>1, Remembered
<1>5. /\ ReceiptInv' /\ ItemsInv' /\ RecordOfOneConfig' /\ MixedOnlyAtSwitch'
      /\ written'.items \in Items /\ appended' = FALSE
  BY <1>1, <1>3, <1>4, NothingReceived
<1>6. cfg.type \in Types
  BY ConfigAssumption DEF ConfigInfo, Inv, TypeOK
<1>7. TypeOK'
  BY <1>1, <1>2, <1>4, <1>5, <1>6 DEF Inv, TypeOK
<1>8. StageInv'
  BY <1>1, <1>2 DEF Inv, StageInv
<1>9. SerialInv'
  BY <1>1, <1>4 DEF Inv, SerialInv, SerialItem, Item
<1> QED BY <1>5, <1>7, <1>8, <1>9 DEF Inv

LEMMA DestroysKeeps == Inv /\ Remembers /\ Destroys => Inv'
<1> SUFFICES ASSUME Inv, Remembers, Destroys PROVE Inv'
  OBVIOUS
<1>1. /\ owner = "stopped" /\ owner' = "destroyed" /\ converter' = Utf8
      /\ display' = "deleted" /\ Silent
      /\ UNCHANGED <<cfg, version, new, phase, calling, serving, hasStarted, isStarted, serial, heard,
                     record, receipt>>
  BY DEF Destroys, Goes, parser, call485, server
<1>2. StageInv'
  BY <1>1 DEF Inv, StageInv
<1> QED BY <1>1, <1>2, OwnerKeeps, EncodingAssumption DEF Inv, TypeOK

LEMMA StutterKeeps == Inv /\ UNCHANGED vars => Inv'
<1> SUFFICES ASSUME Inv, UNCHANGED vars PROVE Inv'
  OBVIOUS
<1>1. UNCHANGED <<cfg, version, owner, new, phase, calling, serving, hasStarted, isStarted, serial, heard,
                  serial, heard, raced, converter, display, record, written, appended, receipt>>
  BY DEF vars, server, parser, call485, output
<1>2. TypeOK'
  BY <1>1 DEF Inv, TypeOK
<1>3. StageInv' /\ SerialInv' /\ ReceiptInv' /\ ItemsInv'
  BY <1>1 DEF Inv, StageInv, SerialInv, SerialItem, Overlap, ReceiptInv, InReceipt, Whole,
              Item, ItemsInv
<1>4. RecordOfOneConfig' /\ MixedOnlyAtSwitch'
  BY <1>1 DEF Inv, RecordOfOneConfig, MixedOnlyAtSwitch, Item
<1> QED BY <1>2, <1>3, <1>4 DEF Inv

LEMMA StepKeeps == Inv /\ [Next]_vars => Inv'
<1> SUFFICES ASSUME Inv, [Next]_vars PROVE Inv'
  OBVIOUS
<1>1. CASE UNCHANGED vars
  BY <1>1, StutterKeeps
<1>2. CASE Calls /\ Remembers
  BY <1>2, ServerCallsKeeps, SerialCallsKeeps, SerialEntersKeeps, SerialOverflowsKeeps,
     SerialTestsKeeps, SerialStoresKeeps, SerialAbortsKeeps DEF Calls
<1>3. CASE Owner /\ Remembers
  BY <1>3, StopCallKeeps, StopRunsKeeps, StopReturnsKeeps, DisplayKeeps, ChangeKeeps,
     StartsKeeps, DestroysKeeps DEF Owner
<1> QED BY <1>1, <1>2, <1>3 DEF Next

-----------------------------------------------------------------------------
(***************************************************************************)
(* The theorems.                                                           *)
(***************************************************************************)
\* The invariant holds of every state of the device and the two threads that
\* call it back (posdevice.cpp:16-385, posdataanalyzer.cpp:27-62).
THEOREM Invariance == Spec => []Inv
<1>1. Inv /\ [Next]_vars => Inv'
  BY StepKeeps
<1> QED BY InitInv, <1>1, PTL DEF Spec

\* Every variable keeps its type, and a device on a serial line has no server
\* (posdevice.cpp:110-113, pos_net.cpp:402-426).
THEOREM TypeCorrect == Spec => []TypeOK
<1>1. Inv => TypeOK
  BY DEF Inv
<1> QED BY <1>1, Invariance, PTL

\* A stored receipt has exactly the items since its START, all of one
\* configuration (posdataanalyzer.cpp:27-46), unless a serial call has
\* overlapped Config since the last change: the serial thread's test of
\* isStarted, its callbacks and its stores of it are steps of their own
\* (posdevice.cpp:145-191), and so are those of Config.
THEOREM ReceiptsOfOneConfig == Spec => []RecordOfOneConfig
<1>1. Inv => RecordOfOneConfig
  BY DEF Inv
<1> QED BY <1>1, Invariance, PTL

\* A stored plain text has nothing else of its configuration, unless a serial
\* call has overlapped Config (posdataanalyzer.cpp:48-62).
THEOREM MixesOnlyAtSwitch == Spec => []MixedOnlyAtSwitch
<1>1. Inv => MixedOnlyAtSwitch
  BY DEF Inv
<1> QED BY <1>1, Invariance, PTL

\* A server's callback finds its own configuration, and, unless a serial call
\* has overlapped Config, every callback finds a display that composes and
\* a message where it reads one (posdevice.cpp:46-113 and 256-385).
THEOREM CallbacksFindDevice == Spec => []CallbackFindsDevice
<1>1. Init => CallbackFindsDevice
  BY DEF Init, Server!Init, CallbackFindsDevice
<1>2. Inv /\ Inv' /\ CallbackFindsDevice /\ [Next]_vars => CallbackFindsDevice'
  <2> SUFFICES ASSUME Inv, Inv', CallbackFindsDevice, [Next]_vars
               PROVE  CallbackFindsDevice'
    OBVIOUS
  <2>1. calling' => /\ serving' = cfg.type'
                    /\ owner' \notin {"change", "changed", "destroyed"}
    BY DEF Inv, StageInv
  <2>2. CASE UNCHANGED vars
    BY <2>1, <2>2 DEF CallbackFindsDevice, vars, output
  <2>3. ASSUME NEW call \in {"START", "ITEM", "STOP"}, Next, ServerCalls(call)
        PROVE  display' = "on" /\ owner' # "aborted"
    BY <2>3 DEF Next, ServerCalls, Server!Callback, Inv, StageInv
  <2>4. ASSUME NEW call \in {"START", "ITEM", "STOP"}, Next, SerialCalls(call), ~raced'
        PROVE  display' = "on" /\ owner' # "aborted"
    <3>1. serial # "idle" /\ UNCHANGED <<owner, display>>
      BY <2>4 DEF SerialCalls, SerialMoves, Makes
    <3>2. ~raced
      BY <2>4, <3>1 DEF Next, Remembers
    <3>3. owner = "idle"
      BY <2>4, <3>1, <3>2 DEF Next, Inv, SerialInv, Overlap
    <3> QED BY <3>1, <3>3 DEF Inv, StageInv
  <2>5. ASSUME Next, SerialAborts PROVE raced'
    <3>1. Remembers /\ owner' = "aborted"
      BY <2>5 DEF Next, SerialAborts
    <3>2. raced
      BY <2>5, <3>1, SerialAbortsKeeps
    <3> QED BY <3>1, <3>2 DEF Remembers
  <2>6. ASSUME Next,
               \/ SerialEnters \/ SerialOverflows \/ SerialTests \/ SerialStores
               \/ Owner
        PROVE  appended' = FALSE /\ owner' # "aborted"
    <3>1. owner # "aborted"
      BY <2>6 DEF Next
    <3> QED BY <2>6, <3>1
            DEF SerialEnters, SerialOverflows, SerialTests, SerialStores, SerialMoves, Owner,
                StopCall, StopRuns, StopReturns, StopComposing, Change, StartComposing,
                Starts, Destroys, Goes, Silent
  <2> QED BY <2>1, <2>2, <2>3, <2>4, <2>5, <2>6 DEF CallbackFindsDevice, Next, Calls
<1> QED BY <1>1, <1>2, Invariance, PTL DEF Spec

\* A serial line converts by its own encoding's converter, or by none where
\* that could not be opened, from the start and through every change that
\* leaves it serial; and it keeps what it has while the encoding stays
\* (posdevice.cpp:22-28, 59-65, 94-103).
THEOREM ConverterKept == Spec => ConverterFollows
<1>1. Init => (cfg.line = "serial" => Fits)
  BY DEF Init, Opened, Fits
<1>2. [Next]_vars => [cfg.line = "serial" /\ cfg'.line = "serial" /\ owner' # "destroyed" =>
                        /\ Fits => Fits'
                        /\ cfg'.encoding = cfg.encoding => converter' = converter]_vars
  <2> SUFFICES ASSUME Next, cfg'.line = "serial", owner' # "destroyed"
               PROVE  /\ Fits => Fits'
                      /\ cfg'.encoding = cfg.encoding => converter' = converter
    OBVIOUS
  <2>1. ASSUME UNCHANGED <<cfg, converter>>
        PROVE  (Fits => Fits') /\ converter' = converter
    BY <2>1 DEF Fits
  <2>2. CASE Change
    BY <2>2 DEF Change, ConverterAfter, Opened, Fits
  <2>3. CASE Calls
    BY <2>1, <2>3 DEF Calls, ServerCalls, SerialCalls, SerialEnters, SerialOverflows,
                      SerialTests, SerialStores, SerialMoves, SerialAborts
  <2>4. CASE Owner /\ ~Change
    BY <2>1, <2>4 DEF Owner, StopCall, StopRuns, StopReturns, StopComposing,
                      StartComposing, Starts, Destroys, Goes
  <2> QED BY <2>2, <2>3, <2>4 DEF Next
<1> QED BY <1>1, <1>2, PTL DEF Spec, ConverterFollows
=============================================================================
