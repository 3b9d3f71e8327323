---------------------------- MODULE ReceiptStream ----------------------------
(***************************************************************************)
(* server_base::on_data_cashing: cutting the byte stream of a POS machine  *)
(* into receipts (START, ITEM..., STOP callbacks), read by read, with the  *)
(* receive buffer that keeps an unfinished line for the next read.         *)
(*                                                                         *)
(* The read handler runs with one action per round of on_data_loop.  Bytes *)
(* are members of Alphabet, and none is NUL.                               *)
(*                                                                         *)
(* For an encoding that is converted the loop works on the copy that       *)
(* convert_encoding made, and what it leaves unread is moved to the front  *)
(* of that copy, while the receive buffer holds as many bytes of what was  *)
(* there before.  Conversion gives any text, of any size that its buffer   *)
(* of one byte more than a line has room for, and may fail; so the model   *)
(* knows how many bytes the buffer holds, and not which.                   *)
(***************************************************************************)
EXTENDS Naturals, Sequences, FiniteSets, SequencesExt

CONSTANTS
  Alphabet,     \* the bytes
  Parms,        \* the parameters a server may be started with
  Conversions,  \* the texts, up to their first NUL, that conversion may give
  MaxLine,      \* c_max_line, and the size of POSDevice::m_buf
  MaxChunk,     \* bound: the longest read
  MaxInput      \* bound: the bytes received before the history is cut

\* item_sep may be empty; converted is TRUE if a converter is open (m_cd).
\* The bytes come over the network, or over a serial line that the module
\* SerialStream parses, which may be a tidy one.
Parm == [start_tag : Seq(Alphabet), stop_tag : Seq(Alphabet),
         item_sep : Seq(Alphabet), converted : BOOLEAN,
         line : {"net", "serial", "tidy"}]

ASSUME ParmAssumption ==
  /\ Parms \subseteq Parm
  /\ \A p \in Parms : /\ Len(p.start_tag) + Len(p.item_sep) \in 1..MaxLine
                      /\ p.line = "tidy" => ~p.converted
ASSUME ConversionAssumption == Conversions \subseteq Seq(Alphabet)
ASSUME BoundAssumption == MaxLine \in Nat /\ MaxChunk \in Nat /\ MaxInput \in Nat

VARIABLES
  parm,     \* server_base::_parm, set when the server is created
  buf,      \* _buf up to _recv_len
  started,  \* _has_started
  work,     \* the string that on_data_loop has still to look at
  size,     \* its size, as on_data_loop counts it: a string that conversion
            \* gave may end before it
  pc,       \* "read": a read is outstanding; "loop": inside on_data_loop
  calls,    \* the callbacks made since the history was cut
  input,    \* the bytes received since the history was cut
  base,     \* _has_started when the history was cut
  broken    \* (history) the receipt open then has no STOP: it was forgotten

history == <<input, base, broken>>
vars == <<parm, buf, started, work, size, pc, calls, history>>

StopTag == parm.stop_tag
ItemSep == parm.item_sep

\* The constructor of server_base appends the separator to the start tag.
StartOf(p) == p.start_tag \o p.item_sep

Start == StartOf(parm)

-----------------------------------------------------------------------------
(***************************************************************************)
(* boost::find_first: the place of the first occurrence of a non-empty     *)
(* tag, or 0.  An empty tag is found nowhere.                              *)
(***************************************************************************)
OccursAt(s, tag, i) == tag # <<>> /\ SubSeq(s, i, i + Len(tag) - 1) = tag

Places(s, tag) == {i \in 1..(Len(s) - Len(tag) + 1) : OccursAt(s, tag, i)}

FindFirst(s, tag) == IF Places(s, tag) = {} THEN 0 ELSE Min(Places(s, tag))

Before(s, i) == SubSeq(s, 1, i - 1)

Behind(s, i, tag) == SubSeq(s, i + Len(tag), Len(s))

\* The last n bytes of s.
LastBytes(s, n) == SubSeq(s, Len(s) - n + 1, Len(s))

\* The callbacks.
START      == [type |-> "START", text |-> <<>>]
ITEM(text) == [type |-> "ITEM", text |-> text]
STOP       == [type |-> "STOP", text |-> <<>>]

-----------------------------------------------------------------------------
(***************************************************************************)
(* The history that the properties are about starts again when the buffer  *)
(* is emptied for a reason other than its contents.                        *)
(***************************************************************************)
\* A START has been called back, and no STOP since.
Open == IF calls = <<>> THEN base \/ broken ELSE Last(calls).type # "STOP"

CutHistory(on) ==
  /\ calls' = <<>>
  /\ input' = <<>>
  /\ base' = on
  /\ broken' = (Open /\ ~on)

\* Variant for a mutant run: the room does not count the bytes kept.
WholeBuffer == MaxLine

\* The room that a read is given, behind the bytes kept.  With one byte more
\* than a line in the buffer it is a negative number of bytes, as which no
\* read succeeds: the session stops, and udp_server tries again for ever.
Room == IF Len(buf) > MaxLine THEN 0 ELSE MaxLine - Len(buf)

\* n bytes of which the model knows no more, and what it knows of bytes.
Unknown(n) == [i \in 1..n |-> CHOOSE byte \in Alphabet : TRUE]

Known(bytes) == IF parm.converted THEN Unknown(Len(bytes)) ELSE bytes

\* What convert_encoding, whose buffer takes room bytes, hands to the loop:
\* any text and size; or the bytes themselves, when it fails or has nothing
\* to do.
Handed(bytes, room) ==
  {[text |-> bytes, size |-> Len(bytes)]} \cup
  {h \in [text : Conversions, size : 0..room] : parm.converted /\ Len(h.text) <= h.size}

\* A read returns: its bytes go behind those kept.
Receive(chunk) ==
  /\ pc = "read"
  /\ Len(chunk) <= Room
  /\ Len(input) + Len(chunk) <= MaxInput
  /\ buf' = Known(buf \o chunk)
  /\ \E h \in Handed(buf \o chunk, MaxLine + 1) : work' = h.text /\ size' = h.size
  /\ input' = Known(input \o chunk)
  /\ pc' = "loop"
  /\ UNCHANGED <<parm, started, calls, base, broken>>

\* Variant for a mutant run: the loop's rest is not moved to the front.
NotMoved(rest, left) == SubSeq(buf, 1, Len(rest))

\* What the receive buffer holds once the loop has left rest of its data,
\* which it counts as left bytes.
Moved(rest, left) == IF parm.converted THEN Unknown(left) ELSE rest

\* A buffer filled to the last byte is given up: tcp_server stops the
\* session, udp_server drops the bytes.  Either way _has_started stays as
\* it is.  The test is for that very number of bytes.
Leave(rest, left) ==
  /\ pc' = "read" /\ work' = <<>> /\ size' = 0
  /\ IF left = MaxLine
       THEN buf' = <<>> /\ CutHistory(started)
       ELSE buf' = Moved(rest, left) /\ UNCHANGED <<calls, history>>
  /\ UNCHANGED <<parm, started>>

\* The loop goes on behind the tag that it found at i.
GoOn(i, tag) ==
  /\ work' = Behind(work, i, tag)
  /\ size' = size - (i + Len(tag) - 1)
  /\ UNCHANGED <<parm, buf, pc, history>>

InLoop == pc = "loop" /\ size # 0

LoopEnds == pc = "loop" /\ size = 0 /\ Leave(<<>>, 0)

StartShort ==
  /\ InLoop /\ ~started
  /\ size < Len(Start)
  /\ Leave(work, size)

\* Variant for a mutant run: all of a text without the tag is kept.
KeptAll(s) == s

\* What may still be the beginning of a start tag is kept.
Kept(s) == LastBytes(s, Len(Start) - 1)

StartMissing ==
  /\ InLoop /\ ~started
  /\ size >= Len(Start)
  /\ FindFirst(work, Start) = 0
  /\ Leave(Kept(work), Len(Start) - 1)

StartFound ==
  /\ InLoop /\ ~started
  /\ FindFirst(work, Start) # 0
  /\ calls' = Append(calls, START)
  /\ started' = TRUE
  /\ GoOn(FindFirst(work, Start), Start)

\* Variant for a mutant run: _has_started is not reset.
StillStarted == TRUE

\* _has_started behind a stop tag.
AfterStop == FALSE

(***************************************************************************)
(* Without a separator every read is an item, up to the stop tag (one that *)
(* conversion begins with a NUL is an empty item).                         *)
(***************************************************************************)
PlainItem ==
  /\ InLoop /\ started /\ ItemSep = <<>>
  /\ FindFirst(work, StopTag) = 0
  /\ calls' = Append(calls, ITEM(work))
  /\ pc' = "read" /\ work' = <<>> /\ size' = 0 /\ buf' = <<>>
  /\ UNCHANGED <<parm, started, history>>

\* Variant for a mutant run: the text before the stop tag is lost.
TextLost(i) == <<STOP>>

\* An empty text is no item.
TextThenStop(i) == (IF i = 1 THEN <<>> ELSE <<ITEM(Before(work, i))>>) \o <<STOP>>

PlainStop ==
  /\ InLoop /\ started /\ ItemSep = <<>>
  /\ LET i == FindFirst(work, StopTag) IN
       /\ i # 0
       /\ calls' = calls \o TextThenStop(i)
       /\ GoOn(i, StopTag)
  /\ started' = AfterStop

(***************************************************************************)
(* With a separator an item ends at it, and the stop tag is an item.       *)
(***************************************************************************)
ItemShort ==
  /\ InLoop /\ started /\ ItemSep # <<>>
  /\ FindFirst(work, ItemSep) = 0
  /\ Leave(work, size)

ItemEmpty ==
  /\ InLoop /\ started /\ ItemSep # <<>>
  /\ FindFirst(work, ItemSep) = 1
  /\ GoOn(1, ItemSep)
  /\ UNCHANGED <<started, calls>>

IsStop(text) == text = StopTag

ItemFound ==
  /\ InLoop /\ started /\ ItemSep # <<>>
  /\ LET i == FindFirst(work, ItemSep)
         text == Before(work, i) IN
       /\ i > 1
       /\ calls' = Append(calls, IF IsStop(text) THEN STOP ELSE ITEM(text))
       /\ started' = IF IsStop(text) THEN AfterStop ELSE TRUE
       /\ GoOn(i, ItemSep)

\* A TCP client is replaced by another: its session starts with an empty
\* buffer, and the server's _has_started stays as it is.
NewSession ==
  /\ pc = "read"
  /\ buf' = <<>>
  /\ CutHistory(started)
  /\ UNCHANGED <<parm, started, work, size, pc>>

-----------------------------------------------------------------------------
Init ==
  /\ parm \in Parms
  /\ buf = <<>>
  /\ started = FALSE
  /\ work = <<>>
  /\ size = 0
  /\ pc = "read"
  /\ calls = <<>>
  /\ input = <<>>
  /\ base = FALSE
  /\ broken = FALSE

Chunks == UNION {[1..n -> Alphabet] : n \in 1..MaxChunk}

Loop == \/ LoopEnds \/ StartShort \/ StartMissing \/ StartFound
        \/ PlainItem \/ PlainStop
        \/ ItemShort \/ ItemEmpty \/ ItemFound

Next == (\E chunk \in Chunks : Receive(chunk)) \/ Loop \/ NewSession

Spec == Init /\ [][Next]_vars

-----------------------------------------------------------------------------
(***************************************************************************)
(* Properties.                                                             *)
(***************************************************************************)

\* Every variable has its type.  _recv_len stays within a line, and exceeds
\* it, by one, only where the encoding is converted; and over the network
\* the string that on_data_loop looks at stays within what it counts.
TypeOK ==
  /\ parm \in Parms
  /\ {buf, work, input} \subseteq Seq(Alphabet)
  /\ size \in Nat
  /\ Len(buf) <= MaxLine \/ (parm.converted /\ Len(buf) = MaxLine + 1)
  /\ parm.line = "net" => Len(work) <= size /\ size <= MaxLine + 1
  /\ {started, base, broken} \subseteq BOOLEAN
  /\ pc \in {"read", "loop"}
  /\ \A i \in DOMAIN calls : calls[i].type \in {"START", "ITEM", "STOP"}

(***************************************************************************)
(* The reference: an automaton that is fed the stream byte by byte, of a   *)
(* server with parameters p.  line is what it has read since it last made  *)
(* a callback or skipped an empty item.                                    *)
(***************************************************************************)
Tag(p, on) == IF on THEN p.item_sep ELSE StartOf(p)

Automaton(p, st, byte) ==
  LET line == Append(st.line, byte)
      text == SubSeq(line, 1, Len(line) - Len(Tag(p, st.started)))
      To(on, new) == [started |-> on, line |-> <<>>, calls |-> st.calls \o new]
  IN IF ~IsSuffix(Tag(p, st.started), line) THEN [st EXCEPT !.line = line]
     ELSE IF ~st.started        THEN To(TRUE, <<START>>)
     ELSE IF text = <<>>        THEN To(TRUE, <<>>)
     ELSE IF text = p.stop_tag  THEN To(FALSE, <<STOP>>)
     ELSE To(TRUE, <<ITEM(text)>>)

\* The automaton in the state st is fed s.
Feed(p, st, s) ==
  LET fed[n \in 0..Len(s)] == IF n = 0 THEN st ELSE Automaton(p, fed[n - 1], s[n])
  IN fed[Len(s)]

Reference(on, s) ==
  Feed(parm, [started |-> on, line |-> <<>>, calls |-> <<>>], s)

\* With a separator, how the network or a tidy serial line cuts the stream
\* into reads does not matter: the callbacks, the state and the line kept in
\* the buffer are those of the automaton.  (For an encoding that is not
\* converted.)
ChunkingIrrelevant ==
  pc = "read" /\ ItemSep # <<>> /\ ~parm.converted /\ parm.line # "serial" =>
    LET r == Reference(base, input) IN
      /\ calls = r.calls
      /\ started = r.started
      /\ IF started THEN buf = r.line ELSE IsSuffix(buf, r.line)

\* Whatever the encoding and the line, the callbacks are receipts: a START, any
\* number of items and a STOP, in turn.  Over the network they are so across
\* overflows and clients.  On a serial line a receipt that is open when the
\* buffer overflows or the line is configured has no STOP, and the next START
\* follows its last item: that, and nothing else, is what leaves a receipt
\* broken.  Unless it was converted, no item is empty.
WellBracketed ==
  /\ broken => parm.line # "net" /\ ~base
  /\ calls # <<>> =>
       (Head(calls).type = "START") = ~base /\ started = (Last(calls).type # "STOP")
  /\ calls = <<>> => started = base
  /\ \A i \in DOMAIN calls :
       /\ calls[i].type = "ITEM" => calls[i].text # <<>> \/ parm.converted
       /\ i > 1 => (calls[i].type = "START") = (calls[i - 1].type = "STOP")

\* When a read is begun the buffer has room for it, except within a receipt
\* whose encoding is converted: conversion may fill it and still escape the
\* test for a full one.  Unless the line is an untidy serial one the buffer
\* never fills up between two receipts, whatever the encoding, so that only a
\* line that is too long can cost a client its session, and it holds no
\* complete item while more is waited for.
BufferWaits ==
  pc = "read" =>
    /\ Len(buf) < MaxLine \/ parm.converted
    /\ parm.line = "net" => Len(buf) # MaxLine
    /\ parm.line # "serial" =>
         /\ ~started => Len(buf) < Len(Start)
         /\ ~parm.converted /\ ItemSep # <<>> /\ started => FindFirst(buf, ItemSep) = 0

\* The bytes that a callback stands for, and those of callbacks cs.
Text(p, c) == CASE c.type = "ITEM" -> c.text
                [] c.type = "STOP" -> p.stop_tag
                [] OTHER -> StartOf(p)

Spelled(p, cs) == FlattenSeq([k \in DOMAIN cs |-> Text(p, cs[k])])

\* The callbacks i to j make up a receipt, or what there is of the last one.
IsReceipt(i, j) ==
  /\ calls[i].type = "START" \/ (i = 1 /\ base)
  /\ calls[j].type = "STOP" \/ j = Len(calls)
  /\ \A k \in i..(j - 1) : calls[k].type # "STOP"

\* Without a separator no byte of a receipt is lost, repeated or moved,
\* wherever the reads end: the callbacks of a finished receipt spell a part
\* of the input, those of an unfinished one its end.  (Over the network or
\* a tidy serial line, for an encoding that is not converted.)
NothingLost ==
  pc = "read" /\ ItemSep = <<>> /\ ~parm.converted /\ parm.line # "serial" =>
    \A j \in DOMAIN calls : \A i \in 1..j :
      IsReceipt(i, j) =>
        LET ends == IF calls[j].type = "STOP" THEN 0..Len(input) ELSE {Len(input)}
        IN \E n \in ends : IsSuffix(Spelled(parm, SubSeq(calls, i, j)), SubSeq(input, 1, n))
=============================================================================
