---------------------------- MODULE SerialStream ----------------------------
(***************************************************************************)
(* Receipts over a serial line: POSDevice::Pos485String and its            *)
(* on_data_loop, the second parser of this program, next to that of        *)
(* ReceiptStream, whose variables it shares.  Here buf is m_buf and        *)
(* started is isStarted.                                                   *)
(*                                                                         *)
(* Unlike the first, it works in its buffer; what it leaves of a read that *)
(* did not end within a receipt is lost; the buffer is cut by the length   *)
(* of the start tag from its front, wherever the tag was found; size and   *)
(* the string part ways there, so that size may wrap around; and what was  *)
(* converted is kept, and converted again with the next read.              *)
(***************************************************************************)
EXTENDS ReceiptStream, Integers

IsSerial == parm.line \in {"serial", "tidy"}

\* size_t: the modulus stands for 2^32 or 2^64, far above MaxLine.
SizeWidth == 65536

ASSUME WidthAssumption == MaxLine < SizeWidth

Minus(n) == (size - n) % SizeWidth

\* The length of what follows the tag found at i, as on_data_loop counts it.
SizeBehind(i, tag) == Minus(i + Len(tag) - 1)

(***************************************************************************)
(* A tidy line begins a read with the start tag if no receipt is open, and *)
(* sends nothing behind a stop tag in the same read.                       *)
(***************************************************************************)
EndsReceipt(text) ==
  LET i == FindFirst(text, StopTag) IN i = 0 \/ i + Len(StopTag) - 1 = Len(text)

SendsTidy(chunk) ==
  /\ started \/ IsPrefix(Start, chunk)
  /\ IF ItemSep = <<>>
       THEN EndsReceipt(IF started THEN chunk ELSE Behind(chunk, 1, Start))
       ELSE LET r == Reference(started, buf \o chunk) IN
              \A i \in DOMAIN r.calls :
                r.calls[i].type = "STOP" => i = Len(r.calls) /\ r.line = <<>>

\* The buffer is cleared and isStarted reset.  A receipt that is open gets no
\* STOP.
Forgets ==
  /\ buf' = <<>> /\ started' = FALSE
  /\ CutHistory(FALSE)

\* The string is put behind what m_buf holds, or in its place between two
\* receipts.  One that leaves no room for the NUL clears the buffer.
Held(chunk) == IF started THEN buf \o chunk ELSE chunk

Pos485String(chunk) ==
  /\ pc = "read" /\ IsSerial
  /\ parm.line = "tidy" => SendsTidy(chunk)
  /\ Len(input) + Len(chunk) <= MaxInput
  /\ IF Len(buf) + Len(chunk) >= MaxLine
       THEN Forgets /\ UNCHANGED <<work, pc, size>>
       ELSE /\ \E h \in Handed(Held(chunk), MaxLine) :
                 buf' = h.text /\ work' = h.text /\ size' = h.size
            /\ input' = Known(input \o chunk)
            /\ pc' = "loop"
            /\ UNCHANGED <<started, calls, base, broken>>
  /\ UNCHANGED parm

SerialLoop == pc = "loop" /\ IsSerial

\* on_data_loop returns and leaves rest in m_buf.
SerialLeave(rest) ==
  /\ pc' = "read" /\ buf' = rest /\ work' = <<>> /\ size' = 0
  /\ UNCHANGED <<parm, history>>

\* The loop goes on with another string and size.
SerialGoOn(rest, left) ==
  /\ work' = rest /\ size' = left
  /\ UNCHANGED <<parm, buf, pc, history>>

SerialEnds ==
  /\ SerialLoop /\ size = 0
  /\ SerialLeave(work)
  /\ UNCHANGED <<started, calls>>

\* What is left waits for more, or for the next string to overwrite it.
SerialWaits ==
  /\ SerialLoop /\ size # 0
  /\ \/ ~started /\ (size < Len(Start) \/ FindFirst(work, Start) = 0)
     \/ started /\ ItemSep # <<>> /\ (size < Len(ItemSep) \/ FindFirst(work, ItemSep) = 0)
  /\ SerialLeave(work)
  /\ UNCHANGED <<started, calls>>

SerialStart ==
  /\ SerialLoop /\ ~started /\ size >= Len(Start)
  /\ FindFirst(work, Start) # 0
  /\ calls' = Append(calls, START)
  /\ started' = TRUE
  /\ SerialGoOn(Behind(work, 1, Start), SizeBehind(FindFirst(work, Start), Start))

\* Without a separator: up to the stop tag, and all behind it is dropped.
SerialPlain ==
  /\ SerialLoop /\ size # 0 /\ started /\ ItemSep = <<>>
  /\ LET i == FindFirst(work, StopTag) IN
       IF i = 0 THEN calls' = Append(calls, ITEM(work)) /\ UNCHANGED started
                ELSE calls' = calls \o TextThenStop(i) /\ started' = AfterStop
  /\ SerialLeave(<<>>)

\* With a separator: up to it, and all behind a stop tag is dropped.
SerialItem ==
  /\ SerialLoop /\ size >= Len(ItemSep) /\ started /\ ItemSep # <<>>
  /\ LET i == FindFirst(work, ItemSep)
         text == Before(work, i) IN
       /\ i # 0
       /\ IF i > 1 /\ IsStop(text)
            THEN calls' = Append(calls, STOP) /\ started' = AfterStop /\ SerialLeave(<<>>)
            ELSE /\ calls' = IF i > 1 THEN Append(calls, ITEM(text)) ELSE calls
                 /\ SerialGoOn(Behind(work, i, ItemSep), SizeBehind(i, ItemSep))
                 /\ UNCHANGED started

\* Config between two reads.
Config ==
  /\ pc = "read" /\ IsSerial
  /\ Forgets
  /\ UNCHANGED <<parm, work, pc, size>>

-----------------------------------------------------------------------------
SerialNext ==
  \/ \E chunk \in Chunks : Pos485String(chunk)
  \/ SerialEnds \/ SerialWaits \/ SerialStart \/ SerialPlain \/ SerialItem
  \/ Config

\* A line is read by one of the two parsers.
LineNext == SerialNext \/ (~IsSerial /\ Next)

LineSpec == Init /\ [][LineNext]_vars
=============================================================================
