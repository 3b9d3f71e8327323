------------------------------- MODULE Device -------------------------------
(***************************************************************************)
(* A POSDevice with its PosDataAnalyzer, between the servers that it       *)
(* starts and stops and the display and the database that it feeds.        *)
(*                                                                         *)
(* Three threads meet here: the owner, in the constructor, Config or the   *)
(* destructor; the service thread of pos_net, in the callback PosDataRecv; *)
(* and the serial thread, in Pos485String, which ends in the same          *)
(* callback.  The servers are taken for what PosServer says of them, the   *)
(* parsers for the order of their callbacks (ReceiptStream, SerialStream); *)
(* the display is on or not (TextStreamQueue, Composer).                   *)
(*                                                                         *)
(* The owner waits for the service thread, and for nothing else: a serial  *)
(* call goes on in small steps while Config runs.  The history variable    *)
(* raced says that one has overlapped the last change, and the properties  *)
(* hold of the states in which none has.                                   *)
(***************************************************************************)
EXTENDS Naturals, Sequences, SequencesExt

CONSTANTS
  Encodings,    \* the encodings of ConfigInfo
  Utf8,         \* the one of them that needs no converter
  Looks,        \* the bound channels, composition and font, in one value
  Configs,      \* the configurations that the device may be given
  MaxConfigs,   \* bound: the changes of the configuration
  MaxItems      \* bound: the items of m_record

ASSUME EncodingAssumption == Utf8 \in Encodings
ASSUME BoundAssumption == MaxConfigs \in Nat /\ MaxItems \in Nat

Types == {"receipts", "terminal", "plaintext"}

ConfigInfo == [type : Types, line : {"serial", "net"}, encoding : Encodings, look : Looks]

ASSUME ConfigAssumption == Configs \subseteq ConfigInfo

VARIABLES
  cfg,        \* mPosCfgInfo
  version,    \* the changes of mPosCfgInfo so far
  owner,      \* "idle", or where the owner is in Config or the destructor
  new,        \* the argument of Config, or <<>> in the destructor
  phase,      \* m_pServId, see PosServer
  calling,    \* see PosServer
  serving,    \* the type of the server's parameters
  hasStarted, \* the server's _has_started
  isStarted,  \* isStarted, of the serial parser
  serial,     \* "idle", or where the serial thread is in Pos485String
  heard,      \* the version of the configuration its string came in
  raced,      \* a serial call has overlapped Config since the last change of cfg
  converter,  \* the encoding m_cd converts from, or Utf8 for none
  display,    \* m_pDisplayer: "on", "off" or "deleted"
  record,     \* m_record
  written,    \* the record that the last step gave to pos_db, or NoRecord
  appended,   \* the last step called Append
  receipt     \* the items since the last START

server == <<phase, calling>>
call485 == <<serial, heard>>
parser == <<serving, hasStarted, isStarted>>
output == <<record, written, appended, receipt>>
vars   == <<cfg, version, owner, new, server, parser, call485, raced, converter, display, output>>

Server == INSTANCE PosServer

\* An item is told from others by its type and the configuration it came in.
Item(type) == [type |-> type, version |-> version]

NoRecord == [op |-> "none", header |-> 0, items |-> <<>>]

\* Nothing is appended or written.
Silent == appended' = FALSE /\ written' = NoRecord

-----------------------------------------------------------------------------
(***************************************************************************)
(* PosDataAnalyzer.                                                        *)
(***************************************************************************)
Record(header, items) == record' = [header |-> header, items |-> items]

\* Variant for a mutant run: the items of the last receipt stay.
OldItems == record.items

\* What START leaves of the items.
NoItems == <<>>

AddItem(call, item) ==
  \/ call = "START" /\ Record(version, NoItems) /\ written' = NoRecord
  \/ /\ call = "ITEM" /\ Record(record.header, Append(record.items, item))
     /\ written' = NoRecord
  \/ /\ call = "STOP" /\ UNCHANGED record
     /\ written' = [op |-> "receipt", header |-> record.header, items |-> record.items]

\* Variant for a mutant run: the items written are kept.
Remaining(items) == items

\* What is left of the items once they are written.
Cleared(items) == <<>>

WritePlainText(item) ==
  LET items == Append(record.items, item) IN
    /\ written' = [op |-> "plaintext", header |-> version, items |-> items]
    /\ Record(version, Cleared(items))

-----------------------------------------------------------------------------
(***************************************************************************)
(* PosDataRecv, for the callback call with an item of the given type.      *)
(***************************************************************************)
HasItem(call) == call = "ITEM"

ReceiptRecv(call, item) ==
  /\ cfg.type = "receipts"
  /\ appended' = (HasItem(call) \/ call = "STOP")
  /\ AddItem(call, item)
  /\ receipt' = CASE call = "START" -> <<>>
                  [] call = "ITEM"  -> Append(receipt, item)
                  [] call = "STOP"  -> receipt

\* A message that is not the JSON it should be, or has a field that is too
\* long, is dropped; any other also becomes an item, of a receipt that never
\* stops.  (What the parser of terminal messages makes is an object with the
\* members asserted, or does not parse; for other texts see SerialAborts.)
TerminalRecv(call, item) ==
  /\ cfg.type = "terminal" /\ HasItem(call) /\ UNCHANGED receipt
  /\ \/ Silent /\ UNCHANGED record
     \/ /\ item.type = "terminal"
        /\ appended' = TRUE
        /\ Record(record.header, Append(record.items, item))
        /\ written' = [op |-> "terminal", header |-> version, items |-> <<item>>]

PlainTextRecv(call, item) ==
  /\ cfg.type = "plaintext" /\ UNCHANGED receipt
  /\ IF HasItem(call) THEN appended' = TRUE /\ WritePlainText(item)
                      ELSE Silent /\ UNCHANGED record

PosDataRecv(call, item) ==
  /\ call = "ITEM" => Len(record.items) < MaxItems
  /\ ReceiptRecv(call, item) \/ TerminalRecv(call, item) \/ PlainTextRecv(call, item)

\* The callbacks of a parser of receipts, which is inside one or not.
Parses(inside, inside2, call) ==
  \/ ~inside /\ call = "START" /\ inside2
  \/ inside /\ call = "ITEM" /\ inside2
  \/ inside /\ call = "STOP" /\ ~inside2

\* The service thread runs the callback of the server.
ServerCalls(call) ==
  /\ Server!Callback
  /\ IF serving = "receipts"
       THEN hasStarted' \in BOOLEAN /\ Parses(hasStarted, hasStarted', call)
       ELSE call = "ITEM" /\ UNCHANGED hasStarted
  /\ PosDataRecv(call, Item(serving))
  /\ UNCHANGED <<cfg, version, owner, new, serving, isStarted, call485, converter, display>>

(***************************************************************************)
(* The serial thread, in Pos485String and on_data_loop.  It tests          *)
(* isStarted, calls back and stores isStarted in steps of their own.  The  *)
(* places are "loop" before the test, "start", "items", "stop" and "text"  *)
(* before a callback, "opened", "unstart" and "stopped" before a store.    *)
(***************************************************************************)
\* A serial device that has been constructed gets strings at any time.
HearsSerial ==
  /\ serial = "idle" /\ cfg.line = "serial"
  /\ owner # "destroyed" /\ ~(owner = "start" /\ version = 0)

SerialMoves ==
  UNCHANGED <<cfg, version, owner, new, server, serving, hasStarted, converter, display>>

\* A string comes in.  (Those of a terminal are left be.)
SerialEnters ==
  /\ HearsSerial
  /\ \/ cfg.type = "receipts" /\ serial' = "loop"
     \/ cfg.type = "plaintext" /\ serial' = "text"
  /\ heard' = version
  /\ Silent
  /\ SerialMoves /\ UNCHANGED <<isStarted, record, receipt>>

\* A string that does not fit into m_buf ends the receipt without a STOP.
SerialOverflows ==
  /\ HearsSerial /\ cfg.type = "receipts" /\ isStarted
  /\ isStarted' = FALSE
  /\ Silent
  /\ SerialMoves /\ UNCHANGED <<call485, record, receipt>>

\* The test of isStarted, and what is found then in the buffer, if anything.
SerialTests ==
  /\ serial = "loop"
  /\ serial' \in IF isStarted THEN {"items", "unstart", "idle"} ELSE {"start", "idle"}
  /\ Silent
  /\ SerialMoves /\ UNCHANGED <<isStarted, heard, record, receipt>>

\* The callback made at each place, and where the thread is after it.  A
\* receipt without a separator has its flag cleared before the STOP.
Makes(call, from, to) ==
  \/ call = "START" /\ from = "start" /\ to = "opened"
  \/ call = "ITEM" /\ from = "items" /\ to \in {"loop", "unstart"}
  \/ call = "STOP" /\ from = "items" /\ to = "stopped"
  \/ call = "STOP" /\ from = "stop" /\ to = "idle"
  \/ call = "ITEM" /\ from = "text" /\ to = "idle"

SerialItem == [type |-> IF serial = "text" THEN "plaintext" ELSE "receipts", version |-> heard]

SerialCalls(call) ==
  /\ serial' \in {"opened", "loop", "unstart", "stopped", "idle"}
  /\ Makes(call, serial, serial')
  /\ PosDataRecv(call, SerialItem)
  /\ SerialMoves /\ UNCHANGED <<isStarted, heard>>

\* The stores of isStarted.
SerialStores ==
  /\ \/ serial = "opened"  /\ isStarted' = TRUE  /\ serial' = "loop"
     \/ serial = "stopped" /\ isStarted' = FALSE /\ serial' = "idle"
     \/ serial = "unstart" /\ isStarted' = FALSE /\ serial' = "stop"
  /\ Silent
  /\ SerialMoves /\ UNCHANGED <<heard, record, receipt>>

\* A callback that finds the configuration changed to a terminal's has no
\* message for it: it reads a null item or fails an assertion.
SerialAborts ==
  /\ serial \in {"start", "items", "stop", "text"} /\ cfg.type = "terminal"
  /\ owner' = "aborted"
  /\ Silent
  /\ UNCHANGED <<cfg, version, new, server, parser, call485, converter, display, record, receipt>>

-----------------------------------------------------------------------------
(***************************************************************************)
(* The owner: Config and the destructor.                                   *)
(***************************************************************************)
Goes(pc) == owner' = pc

\* Both call stop, which does nothing without a server.
StopCall(c) ==
  /\ owner = "idle"
  /\ c # <<>> => version < MaxConfigs
  /\ new' = c
  /\ Goes("stop")
  /\ IF phase = "on" THEN Server!StopCall ELSE UNCHANGED server
  /\ Silent
  /\ UNCHANGED <<cfg, version, parser, call485, converter, display, record, receipt>>

\* The service thread runs the handler of stop.
StopRuns ==
  /\ Server!Quiesce
  /\ Silent
  /\ UNCHANGED <<cfg, version, owner, new, parser, call485, converter, display, record, receipt>>

\* Variant for a mutant run: the owner does not wait for the service thread.
DoesNotWait == TRUE

\* stop has returned, or there was nothing to stop.
HasStopped == phase \in {"off", "quiet"}

StopReturns ==
  /\ owner = "stop"
  /\ HasStopped
  /\ IF phase = "quiet" THEN Server!StopReturn ELSE UNCHANGED server
  /\ Goes("stopped")
  /\ Silent
  /\ UNCHANGED <<cfg, version, new, parser, call485, converter, display, record, receipt>>

\* StopComposing, if the composition changes.
StopComposing ==
  /\ owner = "stopped" /\ new # <<>>
  /\ display' = IF new.look # cfg.look THEN "off" ELSE display
  /\ Goes("change")
  /\ Silent
  /\ UNCHANGED <<cfg, version, new, server, parser, call485, converter, record, receipt>>

\* Variant for a mutant run: the converter is left to the next change of it.
ConverterLeft == {converter}

\* The converter of a serial line: libiconv_open may fail, which leaves none.
Opened(c) == IF c.line = "serial" THEN {c.encoding, Utf8} ELSE {Utf8}

\* The old converter is closed and one of the new encoding opened if a serial
\* line changes its encoding.
ConverterAfter ==
  IF new.line = "serial" /\ new.encoding # cfg.encoding THEN Opened(new) ELSE {converter}

\* isStarted when Config has cleared m_buf.
StartedAfter == FALSE

Change ==
  /\ owner = "change"
  /\ cfg' = new
  /\ version' = version + 1
  /\ isStarted' = StartedAfter
  /\ converter' \in ConverterAfter
  /\ Goes("changed")
  /\ Silent
  /\ UNCHANGED <<new, server, serving, hasStarted, call485, display, record, receipt>>

\* The display is resized and composes again, if it was stopped.
StartComposing ==
  /\ owner = "changed"
  /\ display' = "on"
  /\ Goes("start")
  /\ Silent
  /\ UNCHANGED <<cfg, version, new, server, parser, call485, converter, record, receipt>>

\* Variant for a mutant run: a server is started for any line.
AnyLine == {"net", "serial"}

\* The lines that pos_net::start has a server for.
ServedLines == {"net"}

\* No server is started for a serial line, nor if its port cannot be had.
Starts ==
  /\ owner = "start"
  /\ \/ cfg.line \in ServedLines /\ Server!Start
     \/ UNCHANGED server
  /\ serving' = cfg.type
  /\ hasStarted' = FALSE
  /\ Goes("idle")
  /\ new' = <<>>
  /\ Silent
  /\ UNCHANGED <<cfg, version, isStarted, call485, converter, display, record, receipt>>

\* The destructor closes m_cd and deletes the display.
Destroys ==
  /\ owner = "stopped" /\ new = <<>>
  /\ converter' = Utf8
  /\ display' = "deleted"
  /\ Goes("destroyed")
  /\ Silent
  /\ UNCHANGED <<cfg, version, new, server, parser, call485, record, receipt>>

-----------------------------------------------------------------------------
\* The constructor is about to start the server.
Init ==
  /\ cfg \in Configs
  /\ version = 0
  /\ owner = "start" /\ new = <<>>
  /\ Server!Init
  /\ serving = cfg.type /\ hasStarted = FALSE /\ isStarted = FALSE
  /\ serial = "idle" /\ heard = 0 /\ raced = FALSE
  /\ converter \in Opened(cfg)
  /\ display = "on"
  /\ record = [header |-> 0, items |-> <<>>]
  /\ written = NoRecord /\ appended = FALSE
  /\ receipt = <<>>

Calls == \/ \E call \in {"START", "ITEM", "STOP"} : ServerCalls(call) \/ SerialCalls(call)
         \/ SerialEnters \/ SerialOverflows \/ SerialTests \/ SerialStores \/ SerialAborts

Owner == \/ \E c \in Configs \cup {<<>>} : StopCall(c)
         \/ StopRuns \/ StopReturns
         \/ StopComposing \/ Change \/ StartComposing \/ Starts \/ Destroys

\* The serial thread is inside Pos485String, and the owner inside Config or
\* the destructor.
Overlap == serial # "idle" /\ owner \notin {"idle", "aborted"}

\* An overlap is remembered until the next change of the configuration.
Remembers ==
  raced' = \/ Overlap'
           \/ raced /\ ~(owner = "change" /\ owner' = "changed")

Next ==
  /\ owner # "aborted"
  /\ Calls \/ Owner
  /\ Remembers

Spec == Init /\ [][Next]_vars

-----------------------------------------------------------------------------
(***************************************************************************)
(* Properties.                                                             *)
(***************************************************************************)
Items == Seq([type : Types, version : 0..MaxConfigs])

\* Every variable has its type, and a device on a serial line has no server.
TypeOK ==
  /\ cfg \in Configs /\ version \in 0..MaxConfigs
  /\ owner \in {"idle", "stop", "stopped", "change", "changed", "start", "destroyed", "aborted"}
  /\ new \in Configs \cup {<<>>}
  /\ phase \in {"off", "on", "stopping", "quiet"}
  /\ cfg.line = "serial" => phase = "off"
  /\ serving \in Types
  /\ {calling, hasStarted, isStarted, raced, appended} \subseteq BOOLEAN
  /\ serial \in {"idle", "loop", "start", "opened", "items", "unstart", "stop", "stopped", "text"}
  /\ heard \in 0..MaxConfigs
  /\ converter \in Encodings
  /\ display \in {"on", "off", "deleted"}
  /\ record.header \in 0..MaxConfigs
  /\ {record.items, receipt, written.items} \subseteq Items
  /\ Len(record.items) <= MaxItems

\* Unless a serial call has overlapped Config, a receipt that is written has
\* exactly the items since its START, and it and its header are of one
\* configuration: nothing of a receipt that a change of the configuration or
\* an overflow cut off gets into the next one.
RecordOfOneConfig ==
  ~raced /\ written.op = "receipt" =>
    /\ written.header = version
    /\ written.items = receipt
    /\ \A i \in DOMAIN receipt : receipt[i] = Item("receipts")

\* Unless a serial call has overlapped Config, a record of plain text has its
\* text, and besides it nothing of the same configuration.  (It may hold what
\* an earlier configuration has left, a receipt cut off or the messages of a
\* terminal: writePlainText adds to m_record as it finds it.)
MixedOnlyAtSwitch ==
  ~raced /\ written.op = "plaintext" =>
    /\ written.header = version
    /\ Last(written.items) = Item("plaintext")
    /\ \A i \in DOMAIN Front(written.items) : written.items[i].version < version

\* A callback of a server finds the configuration of that server: none comes
\* between the changes of Config, which it would see half done, or after the
\* destructor.  A callback of either thread finds the display it appends to
\* composing, and terminal messages only where it has one, unless a serial
\* call has overlapped Config.
CallbackFindsDevice ==
  /\ calling => serving = cfg.type /\ owner \notin {"change", "changed", "destroyed"}
  /\ ~raced => (appended => display = "on") /\ owner # "aborted"

\* A serial line converts by its own encoding's converter or, where it could
\* not be opened, not at all: so from the start, and once it does so it does
\* through every change that leaves it serial.  The converter it has stays
\* while the encoding does.  (A line that was not serial before may have the
\* converter of an encoding long gone.)
Fits == converter \in {cfg.encoding, Utf8}

ConverterFollows ==
  /\ cfg.line = "serial" => Fits
  /\ [][cfg.line = "serial" /\ cfg'.line = "serial" /\ owner' # "destroyed" =>
          /\ Fits => Fits'
          /\ cfg'.encoding = cfg.encoding => converter' = converter]_vars
=============================================================================
