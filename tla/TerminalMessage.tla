--------------------------- MODULE TerminalMessage ---------------------------
(***************************************************************************)
(* A message of a card terminal, from the read that brings it to the item  *)
(* that POSDevice takes: parse_terminal_msg, on_data_terminal and          *)
(* PosDataRecv.                                                            *)
(*                                                                         *)
(* A message is DPOS$a$b$ and an encrypted body: six fields with '$'       *)
(* between them, filled up with NULs, so that the last field is ended      *)
(* within the body.  It is taken here by the lengths of its parts; the     *)
(* letters of the fields need no escape in JSON and are the same in every  *)
(* encoding.  Of the bytes, only the decryption sees them (Aes).           *)
(***************************************************************************)
EXTENDS Integers, Sequences

\* The lengths that a field may have of which the body's end is not the one
\* that the terminal sent: strtok goes on to a '$' or a NUL, wherever it is.
CONSTANT Strays

ASSUME StrayAssumption == Strays \subseteq Nat

BodyLen  == 128  \* c_body_len
BlockLen == 16   \* what aes_dec decrypts at a time
TextSize == 256  \* itemtext of PosDataRecv

Field == <<"terminal_code", "card_id", "money", "terminal_model", "serial", "time">>

NameLen == [terminal_code |-> 13, card_id |-> 7, money |-> 5,
            terminal_model |-> 14, serial |-> 6, time |-> 4]

Limit == [terminal_code |-> 8, card_id |-> 20, terminal_model |-> 16, serial |-> 8]

Total(lengths) ==
  LET sum[i \in 0..Len(lengths)] == IF i = 0 THEN 0 ELSE sum[i - 1] + lengths[i]
  IN sum[Len(lengths)]

\* dpos: the message begins with DPOS; a, b: the header's other fields; fields:
\* the lengths of the six; tail: bytes behind the body.
IsMessage(m) ==
  /\ m.dpos \in BOOLEAN /\ {m.a, m.b, m.tail} \subseteq Nat
  /\ m.fields \in Seq(Nat) /\ Len(m.fields) = 6
  /\ Total(m.fields) + 6 <= BodyLen

HeaderLen(m) == 7 + m.a + m.b

Size(m) == HeaderLen(m) + BodyLen + m.tail

-----------------------------------------------------------------------------
(***************************************************************************)
(* parse_terminal_msg of the first size bytes.  The third '$' ends the     *)
(* loop before it is counted off, so that len is one more than the bytes   *)
(* behind it.                                                              *)
(***************************************************************************)
LenLeft(m, size) == size - HeaderLen(m) + 1

\* Variant for a mutant run: a body may come in part.
HasHeader(m, size) == m.dpos /\ size > HeaderLen(m)

IsDpos(m, size) == m.dpos /\ size >= HeaderLen(m) /\ LenLeft(m, size) >= BodyLen

\* strtok passes over empty fields: the fields that are left are too few.
HasSixFields(m) == \A i \in 1..6 : m.fields[i] > 0

\* Where the i-th field ends, with the '$' or the NUL behind it.
FieldEnd(m, i) == Total(SubSeq(m.fields, 1, i)) + i

\* What aes_dec has in full: a block that lacks a byte decrypts to anything.
WholeBlocks(m, size) == BlockLen * ((size - HeaderLen(m)) \div BlockLen)

IsIntact(m, size) == \A i \in 1..6 : FieldEnd(m, i) <= WholeBlocks(m, size)

\* The fields that are not known: of what follows an empty one strtok finds
\* another field in its place.
Garbled(m, size) ==
  {i \in 1..6 : FieldEnd(m, i) > WholeBlocks(m, size) \/ \E j \in 1..i : m.fields[j] = 0}

\* The item: the length of each field, by its name; stray are the lengths of
\* fields that are not those that the terminal sent.
AddMembers(m, stray) ==
  [f \in {Field[i] : i \in 1..6} |->
     LET i == CHOOSE n \in 1..6 : Field[n] = f
     IN IF i \in DOMAIN stray THEN stray[i] ELSE m.fields[i]]

\* What parse_terminal_msg may return: none or one item.  A garbled body may
\* have six fields or less.
ParseTerminalMsg(m, size) ==
  IF ~IsDpos(m, size) THEN {<<>>}
  ELSE IF IsIntact(m, size) THEN {IF HasSixFields(m) THEN <<AddMembers(m, <<>>)>> ELSE <<>>}
  ELSE {<<>>} \cup {<<AddMembers(m, stray)>> : stray \in [Garbled(m, size) -> Strays]}

-----------------------------------------------------------------------------
(***************************************************************************)
(* on_data_terminal: the item goes as JSON into the receive buffer, of     *)
(* which convert_encoding converts as many bytes as the message had; what  *)
(* is left of a longer JSON is no JSON.  The buffer is empty afterwards:   *)
(* a message that comes in two reads gives what its first read gives, for  *)
(* the rest does not begin with DPOS.                                      *)
(***************************************************************************)
Sum(item) == Total([i \in 1..6 |-> item[Field[i]]])

\* (Without the escapes that a garbled field may need.)
JsonLen(item) == 86 + Sum(item)

StaysJson(item, size, converts) == ~converts \/ JsonLen(item) <= size

\* PosDataRecv: the items that it takes, and the length of the text it shows,
\* which it puts together before it tests the limits.
WithinLimits(item) == \A f \in DOMAIN Limit : item[f] <= Limit[f]

TextLen(item) == Sum(item) + 49 + 12 + 1

Taken(item, size, converts) == StaysJson(item, size, converts) /\ WithinLimits(item)

\* What may come of one read: none or one item.
OnDataTerminal(m, size, converts) ==
  {IF items # <<>> /\ Taken(items[1], size, converts) THEN items ELSE <<>> :
     items \in ParseTerminalMsg(m, size)}

-----------------------------------------------------------------------------
\* The messages that have an item, and are read in one piece.
HasItem(m, size) ==
  /\ m.dpos /\ size >= HeaderLen(m) + BodyLen
  /\ \A i \in 1..6 : m.fields[i] > 0
  /\ m.fields[1] <= 8 /\ m.fields[2] <= 20 /\ m.fields[4] <= 16 /\ m.fields[5] <= 8
=============================================================================
