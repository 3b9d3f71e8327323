-------------------------- MODULE SerialStreamProofs --------------------------
(***************************************************************************)
(* Proofs about ReceiptStream and SerialStream, for any alphabet, any      *)
(* tags, and any sizes of the buffer and the reads: the two parsers call   *)
(* back receipts and nothing else, and their buffer has room when a read   *)
(* is begun, unless conversion fills it; what is not converted, over the   *)
(* network or a tidy serial line, is called back as the automaton does     *)
(* that is fed the line byte by byte, and no byte of it is lost.           *)
(*                                                                         *)
(* Both parsers count what is left in a size that may part from the        *)
(* string: a conversion may give a string that ends before its size, and   *)
(* the serial parser cuts the string in another place than it counts.      *)
(* SizeInv says how far.  Over the network the string is within the size,  *)
(* and fills it unless it was converted; on a serial line the size is no   *)
(* less than the string until a start tag is found, no more without a      *)
(* separator unless it was converted, and always the length on a tidy      *)
(* line.  ChunkInv says that the automaton, fed what has come, has called  *)
(* back the same and is where feeding it what is left from the parser's    *)
(* own place leads; PlainInv, what of the line without a separator the     *)
(* callbacks and the buffer spell.                                         *)
(*                                                                         *)
(* Induction over the natural numbers and over texts is proved here with   *)
(* a set for the predicate.                                                *)
(***************************************************************************)
EXTENDS SerialStream, TLAPS, SequenceTheorems, WellFoundedInduction

-----------------------------------------------------------------------------
(***************************************************************************)
(* The inductive invariant.                                                *)
(***************************************************************************)
Bytes == Seq(Alphabet)
Call  == [type : {"START", "ITEM", "STOP"}, text : Bytes]

TypeInv ==
  /\ parm \in Parms
  /\ buf \in Bytes /\ work \in Bytes /\ input \in Bytes
  /\ Len(buf) <= MaxLine + 1
  /\ ~parm.converted => Len(buf) <= MaxLine
  /\ pc = "read" => work = <<>> /\ size = 0
  /\ started \in BOOLEAN /\ base \in BOOLEAN /\ broken \in BOOLEAN
  /\ pc \in {"read", "loop"}
  /\ calls \in Seq(Call)
  /\ size \in Nat

\* The network's parser, and the serial one.
NetSizeInv ==
  pc = "loop" /\ ~IsSerial =>
    /\ Len(work) <= size /\ size <= MaxLine + 1
    /\ ~parm.converted => size = Len(work) /\ size <= MaxLine

SerialSizeInv ==
  pc = "loop" /\ IsSerial =>
    /\ Len(work) <= Len(buf) /\ Len(buf) <= MaxLine
    /\ ~parm.converted => Len(buf) < MaxLine
    /\ ~started => Len(work) <= size /\ size <= MaxLine
    /\ ~parm.converted /\ ItemSep = <<>> => size <= Len(work)
    /\ parm.line = "tidy" => /\ size = Len(work)
                             /\ ~started => IsPrefix(Start, work)

SizeInv == NetSizeInv /\ SerialSizeInv

Inv == TypeInv /\ SizeInv /\ WellBracketed /\ BufferWaits

-----------------------------------------------------------------------------
(***************************************************************************)
(* Lemmas on the operators that look for tags and cut strings.             *)
(***************************************************************************)
\* A part of a string is a string of its length.
LEMMA Part ==
  ASSUME NEW s \in Bytes, NEW m \in Nat \ {0}, NEW n \in Nat, n <= Len(s)
  PROVE  /\ SubSeq(s, m, n) \in Bytes
         /\ Len(SubSeq(s, m, n)) = IF m <= n THEN n - m + 1 ELSE 0
<1>1. Len(s) \in Nat /\ \A i \in m .. n : s[i] \in Alphabet
  BY DEF Bytes
<1> QED BY <1>1, SubSeqProperties DEF Bytes

\* A set of places that is not empty has a first one.
LEMMA FirstPlace ==
  ASSUME NEW S, S \subseteq Nat, S # {}
  PROVE  Min(S) \in S /\ \A i \in S : Min(S) <= i
<1>1. PICK n \in S : \A i \in S : ~(<<i, n>> \in OpToRel(<, Nat))
  BY NatLessThanWellFounded, WFMin
<1>2. ASSUME NEW i \in S PROVE n <= i
  <2>1. <<i, n>> \in Nat \X Nat /\ (i < n => <<i, n>> \in OpToRel(<, Nat))
    BY DEF OpToRel
  <2>2. n \in Nat /\ i \in Nat /\ ~(i < n)
    BY <1>1, <2>1
  <2> QED BY <2>2
<1>3. Min(S) \in S /\ \A i \in S : Min(S) <= i
  BY <1>2 DEF Min
<1> QED BY <1>3

\* What find_first finds is there, and if it finds nothing there is nothing.
LEMMA Found ==
  ASSUME NEW s \in Bytes, NEW tag \in Bytes
  PROVE  /\ FindFirst(s, tag) \in Nat
         /\ FindFirst(s, tag) # 0 =>
              /\ tag # <<>> /\ Len(tag) \in Nat \ {0}
              /\ FindFirst(s, tag) + Len(tag) - 1 <= Len(s)
              /\ OccursAt(s, tag, FindFirst(s, tag))
         /\ FindFirst(s, tag) = 0 <=> Places(s, tag) = {}
         /\ tag # <<>> /\ Len(tag) <= Len(s) /\ OccursAt(s, tag, 1) => FindFirst(s, tag) = 1
<1>1. Len(s) \in Nat /\ Len(tag) \in Nat /\ (tag # <<>> => Len(tag) # 0)
  BY DEF Bytes
<1>2. \A i \in Places(s, tag) : i \in Nat \ {0} /\ i + Len(tag) - 1 <= Len(s)
                                /\ OccursAt(s, tag, i)
  BY <1>1 DEF Places
<1>3. CASE Places(s, tag) = {}
  <2>1. tag # <<>> /\ Len(tag) <= Len(s) => ~OccursAt(s, tag, 1)
    BY <1>1, <1>3 DEF Places
  <2> QED BY <1>3, <2>1 DEF FindFirst
<1>4. CASE Places(s, tag) # {}
  <2>1. Places(s, tag) \subseteq Nat
    BY <1>2
  <2>2. /\ FindFirst(s, tag) \in Places(s, tag)
        /\ \A i \in Places(s, tag) : FindFirst(s, tag) <= i
    BY <1>4, <2>1, FirstPlace DEF FindFirst
  <2>3. tag # <<>> /\ Len(tag) <= Len(s) /\ OccursAt(s, tag, 1) => 1 \in Places(s, tag)
    BY <1>1 DEF Places
  <2>4. /\ FindFirst(s, tag) \in Nat \ {0} /\ FindFirst(s, tag) + Len(tag) - 1 <= Len(s)
        /\ OccursAt(s, tag, FindFirst(s, tag))
    BY <1>2, <2>2
  <2>5. tag # <<>> /\ Len(tag) \in Nat \ {0}
    BY <1>1, <2>4 DEF OccursAt
  <2>6. 1 \in Places(s, tag) => FindFirst(s, tag) = 1
    BY <2>2, <2>4
  <2> QED BY <1>4, <2>3, <2>4, <2>5, <2>6
<1> QED BY <1>3, <1>4

\* Nothing is found in an empty string, nor a tag that is longer than it.
LEMMA NotFound ==
  ASSUME NEW s \in Bytes, NEW tag \in Bytes, Len(s) < Len(tag)
  PROVE  FindFirst(s, tag) = 0
<1>1. Len(s) \in Nat /\ Len(tag) \in Nat
  BY DEF Bytes
<1>2. Places(s, tag) = {}
  BY <1>1 DEF Places
<1> QED BY <1>2 DEF FindFirst

\* The tags of a server or a line.
LEMMA Tags ==
  ASSUME parm \in Parms
  PROVE  /\ StopTag \in Bytes /\ ItemSep \in Bytes /\ Start \in Bytes
         /\ Len(Start) \in 1..MaxLine /\ MaxLine \in Nat \ {0} /\ Start # <<>>
         /\ ItemSep # <<>> => Len(ItemSep) \in Nat \ {0}
         /\ parm.converted \in BOOLEAN /\ parm.line \in {"net", "serial", "tidy"}
         /\ parm.line = "tidy" => ~parm.converted
<1>0. /\ parm.converted \in BOOLEAN /\ parm.line \in {"net", "serial", "tidy"}
      /\ parm.line = "tidy" => ~parm.converted
  BY ParmAssumption DEF Parm
<1>1. /\ parm.start_tag \in Bytes /\ parm.stop_tag \in Bytes /\ parm.item_sep \in Bytes
      /\ Len(parm.start_tag) + Len(parm.item_sep) \in 1..MaxLine
  BY ParmAssumption DEF Parm, Bytes
<1>2. Start \in Bytes /\ Len(Start) = Len(parm.start_tag) + Len(parm.item_sep)
  BY <1>1, ConcatProperties DEF Start, StartOf, Bytes
<1>3. MaxLine \in Nat \ {0} /\ Len(Start) \in 1..MaxLine
  <2>1. Len(Start) \in 1..MaxLine /\ MaxLine \in Nat
    BY <1>1, <1>2, BoundAssumption
  <2> QED BY <2>1
<1>4. Start # <<>>
  <2>1. Len(Start) # 0
    BY <1>3
  <2> QED BY <2>1
<1>5. ItemSep # <<>> => Len(ItemSep) \in Nat \ {0}
  BY <1>1 DEF ItemSep, Bytes
<1> QED BY <1>0, <1>1, <1>2, <1>3, <1>4, <1>5 DEF StopTag, ItemSep

\* Bytes that are not known are bytes, and as many.
LEMMA KnownBytes ==
  ASSUME parm \in Parms
  PROVE  /\ \A n \in Nat : Unknown(n) \in Bytes /\ Len(Unknown(n)) = n
         /\ \A bytes \in Bytes : /\ Known(bytes) \in Bytes /\ Len(Known(bytes)) = Len(bytes)
                                 /\ ~parm.converted => Known(bytes) = bytes
<1>1. Start \in Bytes /\ Len(Start) \in Nat \ {0}
  BY Tags
<1>2. Start[1] \in Alphabet
  BY <1>1 DEF Bytes
<1>3. (CHOOSE byte \in Alphabet : TRUE) \in Alphabet
  BY <1>2
<1>4. ASSUME NEW n \in Nat PROVE Unknown(n) \in Bytes /\ Len(Unknown(n)) = n
  <2> DEFINE byte == CHOOSE b \in Alphabet : TRUE
  <2>1. byte \in Alphabet /\ Unknown(n) = [i \in 1..n |-> byte]
    BY <1>3 DEF Unknown
  <2> HIDE DEF byte
  <2> QED BY <2>1 DEF Bytes
<1>5. ASSUME NEW bytes \in Bytes
      PROVE  /\ Known(bytes) \in Bytes /\ Len(Known(bytes)) = Len(bytes)
             /\ ~parm.converted => Known(bytes) = bytes
  <2>1. Len(bytes) \in Nat
    BY DEF Bytes
  <2> QED BY <1>4, <2>1 DEF Known
<1> QED BY <1>4, <1>5

\* What conversion hands to the loop fits its buffer, and is the bytes
\* themselves where nothing is converted.
LEMMA HandedOn ==
  ASSUME parm \in Parms, NEW bytes \in Bytes, NEW room \in Nat, Len(bytes) <= room,
         NEW h \in Handed(bytes, room)
  PROVE  /\ h.text \in Bytes /\ h.size \in Nat
         /\ Len(h.text) <= h.size /\ h.size <= room
         /\ ~parm.converted => h.text = bytes /\ h.size = Len(bytes)
<1>1. Len(bytes) \in Nat
  BY DEF Bytes
<1>2. CASE h = [text |-> bytes, size |-> Len(bytes)]
  BY <1>1, <1>2
<1>3. CASE h \in [text : Conversions, size : 0..room] /\ parm.converted /\ Len(h.text) <= h.size
  BY <1>3, ConversionAssumption DEF Bytes
<1> QED BY <1>2, <1>3 DEF Handed

\* What is before and behind a place.
LEMMA BeforeAndBehind ==
  ASSUME NEW s \in Bytes, NEW tag \in Bytes, NEW i \in Nat \ {0}, i + Len(tag) - 1 <= Len(s)
  PROVE  /\ Before(s, i) \in Bytes /\ Len(Before(s, i)) = i - 1
         /\ Behind(s, i, tag) \in Bytes
         /\ Len(Behind(s, i, tag)) = Len(s) - (i + Len(tag) - 1)
<1>1. Len(s) \in Nat /\ Len(tag) \in Nat
  BY DEF Bytes
<1>2. /\ i - 1 \in Nat /\ i - 1 <= Len(s) /\ i + Len(tag) \in Nat \ {0}
      /\ i + Len(tag) <= Len(s) + 1
  BY <1>1
<1>3. Before(s, i) \in Bytes /\ Len(Before(s, i)) = i - 1
  <2>1. /\ SubSeq(s, 1, i - 1) \in Bytes
        /\ Len(SubSeq(s, 1, i - 1)) = IF 1 <= i - 1 THEN (i - 1) - 1 + 1 ELSE 0
    BY <1>2, Part
  <2> QED BY <1>1, <2>1 DEF Before
<1>4. ASSUME NEW m \in Nat \ {0}, m <= Len(s) + 1
      PROVE  SubSeq(s, m, Len(s)) \in Bytes /\ Len(SubSeq(s, m, Len(s))) = Len(s) - (m - 1)
  <2>1. /\ SubSeq(s, m, Len(s)) \in Bytes
        /\ Len(SubSeq(s, m, Len(s))) = IF m <= Len(s) THEN Len(s) - m + 1 ELSE 0
    BY <1>1, Part
  <2> QED BY <1>1, <1>4, <2>1
<1>5. Behind(s, i, tag) \in Bytes /\ Len(Behind(s, i, tag)) = Len(s) - (i + Len(tag) - 1)
  BY <1>2, <1>4 DEF Behind
<1> QED BY <1>3, <1>5

\* What is before and behind a tag that was found.
LEMMA Cut ==
  ASSUME NEW s \in Bytes, NEW tag \in Bytes, FindFirst(s, tag) # 0
  PROVE  LET i == FindFirst(s, tag) IN
         /\ i \in Nat \ {0} /\ Len(tag) \in Nat \ {0} /\ i + Len(tag) - 1 <= Len(s)
         /\ Before(s, i) \in Bytes /\ Len(Before(s, i)) = i - 1
         /\ i > 1 => Before(s, i) # <<>>
         /\ Behind(s, i, tag) \in Bytes
         /\ Len(Behind(s, i, tag)) = Len(s) - (i + Len(tag) - 1)
<1> DEFINE i == FindFirst(s, tag)
<1>1. /\ i \in Nat \ {0} /\ i + Len(tag) - 1 <= Len(s) /\ Len(tag) \in Nat \ {0}
  BY Found
<1> HIDE DEF i
<1>2. /\ Before(s, i) \in Bytes /\ Len(Before(s, i)) = i - 1
      /\ Behind(s, i, tag) \in Bytes
      /\ Len(Behind(s, i, tag)) = Len(s) - (i + Len(tag) - 1)
  BY <1>1, BeforeAndBehind
<1>3. i > 1 => Before(s, i) # <<>>
  BY <1>1, <1>2
<1> QED BY <1>1, <1>2, <1>3 DEF i

-----------------------------------------------------------------------------
(***************************************************************************)
(* Types, and the size.                                                    *)
(***************************************************************************)
\* What a parser calls back is a callback.
LEMMA Calls ==
  ASSUME TypeInv
  PROVE  /\ Append(calls, START) \in Seq(Call)
         /\ Append(calls, STOP) \in Seq(Call)
         /\ \A text \in Bytes : Append(calls, ITEM(text)) \in Seq(Call)
         /\ \A i : FindFirst(work, StopTag) = i /\ i # 0 => calls \o TextThenStop(i) \in Seq(Call)
<1>1. START \in Call /\ STOP \in Call /\ \A text \in Bytes : ITEM(text) \in Call
  BY DEF START, STOP, ITEM, Call, Bytes
<1>2. calls \in Seq(Call)
  BY DEF TypeInv
<1>3. ASSUME NEW i, FindFirst(work, StopTag) = i, i # 0
      PROVE  calls \o TextThenStop(i) \in Seq(Call)
  <2>1. Before(work, i) \in Bytes
    BY <1>3, Cut, Tags DEF TypeInv
  <2>2. TextThenStop(i) \in Seq(Call)
    BY <1>1, <2>1 DEF TextThenStop
  <2> QED BY <1>2, <2>2
<1> QED BY <1>1, <1>2, <1>3, AppendProperties

\* What is kept of a text without a start tag is shorter than the tag.
LEMMA KeptPart ==
  ASSUME TypeInv, Len(work) >= Len(Start)
  PROVE  Kept(work) \in Bytes /\ Len(Kept(work)) = Len(Start) - 1
<1>1. work \in Bytes /\ Len(work) \in Nat /\ Len(Start) \in Nat \ {0}
  BY Tags DEF TypeInv, Bytes
<1>2. ASSUME NEW m \in Nat \ {0}, m = Len(work) - (Len(Start) - 1) + 1
      PROVE  SubSeq(work, m, Len(work)) \in Bytes /\ Len(SubSeq(work, m, Len(work))) = Len(Start) - 1
  <2>1. /\ SubSeq(work, m, Len(work)) \in Bytes
        /\ Len(SubSeq(work, m, Len(work))) = IF m <= Len(work) THEN Len(work) - m + 1 ELSE 0
    BY <1>1, Part
  <2>2. \A n, t, k \in Nat : t # 0 /\ k = n - (t - 1) + 1 => (IF k <= n THEN n - k + 1 ELSE 0) = t - 1
    OBVIOUS
  <2>3. (IF m <= Len(work) THEN Len(work) - m + 1 ELSE 0) = Len(Start) - 1
    BY <1>1, <1>2, <2>2
  <2> QED BY <2>1, <2>3
<1>3. Len(work) - (Len(Start) - 1) + 1 \in Nat \ {0}
  BY <1>1
<1> QED BY <1>2, <1>3 DEF Kept, LastBytes

\* A history begins again.
LEMMA Again ==
  ASSUME NEW on \in BOOLEAN, CutHistory(on)
  PROVE  calls' \in Seq(Call) /\ input' \in Bytes /\ base' \in BOOLEAN /\ broken' \in BOOLEAN
<1>1. calls' = <<>> /\ input' = <<>> /\ base' = on /\ broken' = (Open /\ ~on)
  BY DEF CutHistory
<1>2. <<>> \in Seq(Call) /\ <<>> \in Bytes
  BY DEF Bytes
<1>3. (Open /\ ~on) \in BOOLEAN
  OBVIOUS
<1> QED BY <1>1, <1>2, <1>3

\* When the loop of the network's parser returns, the buffer holds as many
\* bytes as it left, or none; and it is not full.
LEMMA Left ==
  ASSUME TypeInv, NEW rest, NEW left \in Nat, left <= MaxLine + 1, Leave(rest, left),
         ~parm.converted => rest \in Bytes /\ Len(rest) = left /\ left <= MaxLine
  PROVE  /\ buf' \in Bytes /\ Len(buf') \in Nat /\ Len(buf') <= left /\ Len(buf') # MaxLine
         /\ ~parm.converted => (buf' = rest \/ buf' = <<>>) /\ Len(buf') < MaxLine
         /\ calls' \in Seq(Call) /\ input' \in Bytes /\ base' \in BOOLEAN /\ broken' \in BOOLEAN
<1>1. parm \in Parms /\ started \in BOOLEAN /\ MaxLine \in Nat \ {0}
  BY Tags DEF TypeInv
<1>2. <<>> \in Bytes /\ Len(<<>>) = 0
  BY DEF Bytes
<1>3. CASE left = MaxLine
  <2>1. buf' = <<>> /\ CutHistory(started)
    BY <1>3 DEF Leave
  <2> QED BY <1>1, <1>2, <2>1, Again
<1>4. CASE left # MaxLine
  <2>1. buf' = Moved(rest, left) /\ UNCHANGED <<calls, input, base, broken>>
    BY <1>4 DEF Leave, history
  <2>2. Moved(rest, left) \in Bytes /\ Len(Moved(rest, left)) = left
    BY <1>1, KnownBytes DEF Moved
  <2>3. ~parm.converted => Moved(rest, left) = rest /\ left < MaxLine
    BY <1>1, <1>4 DEF Moved
  <2> QED BY <1>1, <1>4, <2>1, <2>2, <2>3 DEF TypeInv
<1> QED BY <1>3, <1>4

\* A read of bytes.
LEMMA Chunk ==
  ASSUME TypeInv, NEW chunk \in Chunks
  PROVE  /\ chunk \in Bytes /\ Len(chunk) \in Nat \ {0}
         /\ buf \o chunk \in Bytes /\ Len(buf \o chunk) = Len(buf) + Len(chunk)
         /\ input \o chunk \in Bytes
<1>1. chunk \in Bytes /\ Len(chunk) \in Nat \ {0}
  <2>1. PICK n \in 1..MaxChunk : chunk \in [1..n -> Alphabet]
    BY DEF Chunks
  <2>2. n \in Nat \ {0}
    BY BoundAssumption
  <2> QED BY <2>1, <2>2 DEF Bytes
<1> QED BY <1>1, ConcatProperties DEF TypeInv, Bytes

\* The loop of the network's parser goes on with less.
LEMMA Goes ==
  ASSUME TypeInv, NetSizeInv, pc = "loop", ~IsSerial, NEW tag \in Bytes, NEW i,
         i = FindFirst(work, tag), i # 0, GoOn(i, tag)
  PROVE  /\ work' = Behind(work, i, tag) /\ work' \in Bytes
         /\ size' = size - (i + Len(tag) - 1) /\ size' \in Nat
         /\ Len(work') <= size' /\ size' <= size
         /\ size = Len(work) => size' = Len(work')
<1>1. /\ Behind(work, i, tag) \in Bytes /\ i \in Nat \ {0} /\ Len(tag) \in Nat \ {0}
      /\ i + Len(tag) - 1 <= Len(work)
      /\ Len(Behind(work, i, tag)) = Len(work) - (i + Len(tag) - 1)
  BY Cut DEF TypeInv
<1>2. Len(work) \in Nat /\ size \in Nat /\ Len(work) <= size
  BY DEF TypeInv, NetSizeInv, Bytes
<1>3. work' = Behind(work, i, tag) /\ size' = size - (i + Len(tag) - 1)
  BY DEF GoOn
<1> QED BY <1>1, <1>2, <1>3

LEMMA NetStep ==
  ASSUME TypeInv, SizeInv, Next, ~IsSerial
  PROVE  TypeInv' /\ SizeInv' /\ UNCHANGED parm
<1> USE DEF TypeInv
<1>0. /\ <<>> \in Bytes /\ Len(<<>>) = 0 /\ Len(work) \in Nat /\ Len(buf) \in Nat
      /\ MaxLine \in Nat \ {0} /\ Len(Start) \in 1..MaxLine /\ Start \in Bytes
      /\ StopTag \in Bytes /\ ItemSep \in Bytes
  BY Tags DEF Bytes
<1>s. ASSUME parm' = parm, NetSizeInv' PROVE SizeInv'
  BY <1>s DEF SizeInv, SerialSizeInv, IsSerial
\* The loop goes on with less.
<1>1. ASSUME NEW tag \in Bytes, NEW i, i = FindFirst(work, tag), i # 0, GoOn(i, tag),
             calls' \in Seq(Call), started' \in BOOLEAN, InLoop
      PROVE  TypeInv' /\ SizeInv' /\ UNCHANGED parm
  <2>1. /\ work' \in Bytes /\ size' \in Nat /\ Len(work') <= size' /\ size' <= size
        /\ size = Len(work) => size' = Len(work')
    BY <1>1, Goes DEF SizeInv, InLoop
  <2>2. UNCHANGED <<parm, buf, pc, input, base, broken>> /\ pc = "loop"
    BY <1>1 DEF GoOn, history, InLoop
  <2>3. TypeInv'
    BY <1>1, <2>1, <2>2
  <2>4. NetSizeInv'
    <3>1. size \in Nat /\ size <= MaxLine + 1 /\ (~parm.converted => size = Len(work) /\ size <= MaxLine)
      BY <2>2 DEF SizeInv, NetSizeInv
    <3> QED BY <1>0, <2>1, <2>2, <3>1 DEF NetSizeInv
  <2> QED BY <1>s, <2>2, <2>3, <2>4
\* The loop returns.
<1>2. ASSUME NEW rest, NEW left \in Nat, left <= MaxLine + 1, Leave(rest, left),
             ~parm.converted => rest \in Bytes /\ Len(rest) = left /\ left <= MaxLine
      PROVE  TypeInv' /\ SizeInv' /\ UNCHANGED parm
  <2>1. /\ buf' \in Bytes /\ Len(buf') \in Nat /\ Len(buf') <= left
        /\ ~parm.converted => Len(buf') < MaxLine
        /\ calls' \in Seq(Call) /\ input' \in Bytes /\ base' \in BOOLEAN /\ broken' \in BOOLEAN
    BY <1>2, Left
  <2>2. pc' = "read" /\ work' = <<>> /\ size' = 0 /\ UNCHANGED <<parm, started>>
    BY <1>2 DEF Leave
  <2>3. Len(buf') <= MaxLine + 1 /\ (~parm.converted => Len(buf') <= MaxLine)
    BY <1>0, <1>2, <2>1
  <2>4. NetSizeInv'
    BY <2>2 DEF NetSizeInv
  <2> QED BY <1>0, <1>s, <2>1, <2>2, <2>3, <2>4
<1>l. ASSUME pc = "loop"
      PROVE  /\ Len(work) <= size /\ size \in Nat /\ size <= MaxLine + 1
             /\ ~parm.converted => size = Len(work) /\ size <= MaxLine
  BY <1>l DEF SizeInv, NetSizeInv
<1>3. ASSUME NEW chunk \in Chunks, Receive(chunk) PROVE TypeInv' /\ SizeInv' /\ UNCHANGED parm
  <2> DEFINE bytes == buf \o chunk
  <2>1. bytes \in Bytes /\ Len(bytes) \in Nat /\ Len(bytes) <= MaxLine /\ input \o chunk \in Bytes
    <3>1. /\ bytes \in Bytes /\ Len(bytes) = Len(buf) + Len(chunk) /\ Len(chunk) \in Nat \ {0}
          /\ input \o chunk \in Bytes
      BY Chunk
    <3>2. Len(chunk) <= IF Len(buf) > MaxLine THEN 0 ELSE MaxLine - Len(buf)
      BY <1>3 DEF Receive, Room
    <3> HIDE DEF bytes
    <3> QED BY <1>0, <3>1, <3>2
  <2> HIDE DEF bytes
  <2>2. PICK h \in Handed(bytes, MaxLine + 1) : work' = h.text /\ size' = h.size
    BY <1>3 DEF Receive, bytes
  <2>3. /\ buf' = Known(bytes) /\ input' = Known(input \o chunk) /\ pc' = "loop"
        /\ UNCHANGED <<parm, started, calls, base, broken>>
    BY <1>3 DEF Receive, bytes
  <2>4. /\ h.text \in Bytes /\ h.size \in Nat /\ Len(h.text) <= h.size /\ h.size <= MaxLine + 1
        /\ ~parm.converted => h.text = bytes /\ h.size = Len(bytes)
    <3>1. MaxLine + 1 \in Nat /\ Len(bytes) <= MaxLine + 1
      BY <1>0, <2>1
    <3>2. parm \in Parms
      OBVIOUS
    <3> QED BY <2>1, <3>1, <3>2, HandedOn
  <2>5. buf' \in Bytes /\ Len(buf') = Len(bytes) /\ input' \in Bytes
    BY <2>1, <2>3, KnownBytes
  <2>6. Len(buf') <= MaxLine + 1 /\ (~parm.converted => Len(buf') <= MaxLine)
    BY <1>0, <2>1, <2>5
  <2>7. NetSizeInv'
    BY <2>1, <2>2, <2>3, <2>4 DEF NetSizeInv
  <2> QED BY <1>s, <2>2, <2>3, <2>4, <2>5, <2>6, <2>7
<1>4. CASE LoopEnds
  <2>1. Leave(<<>>, 0) /\ 0 \in Nat /\ 0 <= MaxLine + 1 /\ 0 <= MaxLine
    BY <1>0, <1>4 DEF LoopEnds
  <2> QED BY <1>0, <1>2, <2>1
<1>5. CASE StartShort \/ ItemShort
  <2>1. Leave(work, size) /\ pc = "loop"
    BY <1>5 DEF StartShort, ItemShort, InLoop
  <2> QED BY <1>2, <1>l, <2>1
<1>6. CASE StartMissing
  <2> DEFINE left == Len(Start) - 1
  <2>1. Leave(Kept(work), left) /\ pc = "loop" /\ size >= Len(Start)
    BY <1>6 DEF StartMissing, InLoop
  <2>2. left \in Nat /\ left <= MaxLine + 1 /\ left <= MaxLine
    BY <1>0
  <2>3. ~parm.converted => Kept(work) \in Bytes /\ Len(Kept(work)) = left
    BY <1>l, <2>1, KeptPart
  <2> HIDE DEF left
  <2> QED BY <1>2, <2>1, <2>2, <2>3
<1>7. CASE StartFound
  <2>1. /\ GoOn(FindFirst(work, Start), Start) /\ FindFirst(work, Start) # 0
        /\ calls' \in Seq(Call) /\ started' \in BOOLEAN /\ InLoop
    BY <1>7, Calls DEF StartFound
  <2> QED BY <1>0, <1>1, <2>1
<1>8. CASE PlainItem
  <2>1. calls' \in Seq(Call)
    BY <1>8, Calls DEF PlainItem
  <2>2. /\ pc' = "read" /\ work' = <<>> /\ size' = 0 /\ buf' = <<>>
        /\ UNCHANGED <<parm, started, input, base, broken>>
    BY <1>8 DEF PlainItem, history
  <2>3. NetSizeInv'
    BY <2>2 DEF NetSizeInv
  <2> QED BY <1>0, <1>s, <2>1, <2>2, <2>3
<1>9. CASE PlainStop
  <2> DEFINE i == FindFirst(work, StopTag)
  <2>1. i # 0 /\ calls' = calls \o TextThenStop(i) /\ GoOn(i, StopTag) /\ started' = FALSE /\ InLoop
    BY <1>9 DEF PlainStop, AfterStop
  <2>2. calls' \in Seq(Call)
    BY <2>1, Calls
  <2>3. started' \in BOOLEAN
    BY <2>1
  <2> QED BY <1>0, <1>1, <2>1, <2>2, <2>3
<1>10. CASE ItemEmpty
  <2>1. FindFirst(work, ItemSep) = 1 /\ GoOn(1, ItemSep) /\ UNCHANGED <<started, calls>> /\ InLoop
    BY <1>10 DEF ItemEmpty
  <2>2. calls' \in Seq(Call) /\ started' \in BOOLEAN
    BY <2>1
  <2> QED BY <1>0, <1>1, <2>1, <2>2
<1>11. CASE ItemFound
  <2> DEFINE i == FindFirst(work, ItemSep)
             text == Before(work, i)
  <2>1. /\ i > 1 /\ GoOn(i, ItemSep) /\ InLoop
        /\ calls' = Append(calls, IF IsStop(text) THEN STOP ELSE ITEM(text))
        /\ started' = IF IsStop(text) THEN AfterStop ELSE TRUE
    BY <1>11 DEF ItemFound
  <2>2. i # 0
    BY <2>1
  <2>3. text \in Bytes
    BY <1>0, <2>2, Cut
  <2>4. calls' \in Seq(Call)
    BY <2>1, <2>3, Calls
  <2>5. started' \in BOOLEAN
    BY <2>1 DEF AfterStop
  <2> HIDE DEF text
  <2> QED BY <1>0, <1>1, <2>1, <2>2, <2>4, <2>5
<1>12. CASE NewSession
  <2>1. /\ buf' = <<>> /\ CutHistory(started) /\ UNCHANGED <<parm, started, work, size, pc>>
        /\ pc = "read"
    BY <1>12 DEF NewSession
  <2>2. calls' \in Seq(Call) /\ input' \in Bytes /\ base' \in BOOLEAN /\ broken' \in BOOLEAN
    BY <2>1, Again
  <2>3. NetSizeInv'
    BY <2>1 DEF NetSizeInv
  <2> QED BY <1>0, <1>s, <2>1, <2>2, <2>3
<1> QED BY <1>3, <1>4, <1>5, <1>6, <1>7, <1>8, <1>9, <1>10, <1>11, <1>12 DEF Next, Loop

\* What a size is when n is taken from it.
LEMMA Less ==
  ASSUME size \in Nat, NEW n \in Nat
  PROVE  /\ Minus(n) \in Nat
         /\ n <= size => Minus(n) <= size - n
         /\ n <= size /\ size < SizeWidth => Minus(n) = size - n
BY DEF Minus, SizeWidth

\* A string that begins with a tag: it is found there.
LEMMA PrefixFound ==
  ASSUME NEW s \in Bytes, NEW tag \in Bytes, tag # <<>>, IsPrefix(tag, s)
  PROVE  FindFirst(s, tag) = 1
<1>1. Len(tag) \in Nat /\ Len(tag) <= Len(s) /\ SubSeq(tag, 1, Len(tag)) = SubSeq(s, 1, Len(tag))
  BY DEF IsPrefix, Bytes
<1>2. SubSeq(tag, 1, Len(tag)) = tag
  BY SubSeqFull DEF Bytes
<1>3. 1 + Len(tag) - 1 = Len(tag)
  BY <1>1
<1>4. OccursAt(s, tag, 1)
  BY <1>1, <1>2, <1>3 DEF OccursAt
<1> QED BY <1>1, <1>4, Found

\* The line is configured, or its buffer overflows.
LEMMA Forgotten ==
  ASSUME TypeInv, Forgets
  PROVE  /\ buf' = <<>> /\ buf' \in Bytes /\ Len(buf') = 0 /\ started' = FALSE /\ base' = FALSE
         /\ calls' = <<>> /\ input' = <<>>
         /\ calls' \in Seq(Call) /\ input' \in Bytes /\ broken' \in BOOLEAN
<1>1. buf' = <<>> /\ started' = FALSE /\ CutHistory(FALSE) /\ FALSE \in BOOLEAN
  BY DEF Forgets
<1>2. calls' \in Seq(Call) /\ input' \in Bytes /\ broken' \in BOOLEAN
  BY <1>1, Again
<1>3. calls' = <<>> /\ input' = <<>> /\ base' = FALSE
  BY <1>1 DEF CutHistory
<1> QED BY <1>1, <1>2, <1>3 DEF Bytes

\* A string is handed to the serial parser, and m_buf holds it.
LEMMA Handing ==
  ASSUME TypeInv, NEW chunk \in Chunks, Pos485String(chunk), ~(Len(buf) + Len(chunk) >= MaxLine)
  PROVE  /\ pc = "read" /\ pc' = "loop" /\ IsSerial /\ UNCHANGED <<parm, started, calls, base, broken>>
         /\ buf' = work' /\ work' \in Bytes /\ Len(work') \in Nat /\ size' \in Nat
         /\ Len(work') <= size' /\ size' <= MaxLine /\ input' \in Bytes
         /\ ~parm.converted => /\ work' = Held(chunk) /\ size' = Len(work') /\ Len(work') < MaxLine
                               /\ input' = input \o chunk
         /\ parm.line = "tidy" => SendsTidy(chunk)
<1>0. parm \in Parms /\ MaxLine \in Nat \ {0} /\ Len(buf) \in Nat
  BY Tags DEF TypeInv, Bytes
<1>1. /\ input' = Known(input \o chunk) /\ pc = "read" /\ pc' = "loop" /\ IsSerial
      /\ UNCHANGED <<parm, started, calls, base, broken>>
      /\ parm.line = "tidy" => SendsTidy(chunk)
  BY DEF Pos485String
<1>2. PICK h \in Handed(Held(chunk), MaxLine) : buf' = h.text /\ work' = h.text /\ size' = h.size
  BY DEF Pos485String
<1>3. Held(chunk) \in Bytes /\ Len(Held(chunk)) \in Nat /\ Len(Held(chunk)) < MaxLine
  BY <1>0, Chunk DEF Held
<1>4. /\ h.text \in Bytes /\ h.size \in Nat /\ Len(h.text) <= h.size /\ h.size <= MaxLine
      /\ ~parm.converted => h.text = Held(chunk) /\ h.size = Len(Held(chunk))
  <2>1. MaxLine \in Nat /\ Len(Held(chunk)) <= MaxLine
    BY <1>0, <1>3
  <2> QED BY <1>0, <1>3, <2>1, HandedOn
<1>5. input' \in Bytes /\ (~parm.converted => input' = input \o chunk)
  BY <1>0, <1>1, Chunk, KnownBytes
<1>6. Len(h.text) \in Nat
  BY <1>4 DEF Bytes
<1> QED BY <1>1, <1>2, <1>3, <1>4, <1>5, <1>6

LEMMA SerialStep ==
  ASSUME TypeInv, SizeInv, SerialNext, IsSerial
  PROVE  TypeInv' /\ SizeInv' /\ UNCHANGED parm
<1> USE DEF TypeInv
<1>0. /\ <<>> \in Bytes /\ Len(<<>>) = 0 /\ Len(work) \in Nat /\ Len(buf) \in Nat /\ MaxLine \in Nat
      /\ parm \in Parms /\ Start \in Bytes /\ ItemSep \in Bytes /\ StopTag \in Bytes
      /\ Len(Start) \in Nat \ {0} /\ (parm.line = "tidy" => ~parm.converted)
  BY Tags DEF Bytes
<1>s. ASSUME parm' = parm, SerialSizeInv' PROVE SizeInv'
  BY <1>s DEF SizeInv, NetSizeInv, IsSerial
<1>l. ASSUME pc = "loop"
      PROVE  /\ Len(work) <= Len(buf) /\ Len(buf) <= MaxLine
             /\ ~parm.converted => Len(buf) < MaxLine
             /\ ~started => Len(work) <= size /\ size <= MaxLine
             /\ ~parm.converted /\ ItemSep = <<>> => size <= Len(work)
             /\ parm.line = "tidy" => /\ size = Len(work)
                                      /\ ~started => IsPrefix(Start, work)
  BY <1>l DEF SizeInv, SerialSizeInv
<1>1. ASSUME NEW rest \in Bytes, Len(rest) <= Len(work), SerialLeave(rest), calls' \in Seq(Call),
             started' \in BOOLEAN, pc = "loop"
      PROVE  TypeInv' /\ SizeInv' /\ UNCHANGED parm
  <2>1. Len(rest) \in Nat /\ Len(rest) <= MaxLine /\ Len(rest) <= MaxLine + 1
    BY <1>0, <1>1, <1>l DEF Bytes
  <2>2. /\ pc' = "read" /\ buf' = rest /\ work' = <<>> /\ size' = 0
        /\ UNCHANGED <<parm, input, base, broken>>
    BY <1>1 DEF SerialLeave, history
  <2>3. SerialSizeInv'
    BY <2>2 DEF SerialSizeInv
  <2> QED BY <1>0, <1>1, <1>s, <2>1, <2>2, <2>3
<1>2. ASSUME Forgets, UNCHANGED <<parm, work, pc, size>>, pc = "read"
      PROVE  TypeInv' /\ SizeInv' /\ UNCHANGED parm
  <2>1. /\ buf' \in Bytes /\ Len(buf') = 0 /\ started' = FALSE /\ base' = FALSE
        /\ calls' \in Seq(Call) /\ input' \in Bytes /\ broken' \in BOOLEAN
    BY <1>2, Forgotten
  <2>2. SerialSizeInv'
    BY <1>2 DEF SerialSizeInv
  <2>3. Len(buf') <= MaxLine + 1 /\ Len(buf') <= MaxLine
    BY <1>0, <2>1
  <2>4. parm' = parm /\ work' = <<>> /\ size' = 0 /\ pc' = "read"
    BY <1>2
  <2> QED BY <1>0, <1>s, <2>1, <2>2, <2>3, <2>4
<1>3. ASSUME NEW chunk \in Chunks, Pos485String(chunk)
      PROVE  TypeInv' /\ SizeInv' /\ UNCHANGED parm
  <2>1. CASE Len(buf) + Len(chunk) >= MaxLine
    BY <1>2, <1>3, <2>1 DEF Pos485String
  <2>2. CASE ~(Len(buf) + Len(chunk) >= MaxLine)
    <3>1. /\ pc = "read" /\ pc' = "loop" /\ UNCHANGED <<parm, started, calls, base, broken>>
          /\ buf' = work' /\ work' \in Bytes /\ Len(work') \in Nat /\ size' \in Nat
          /\ Len(work') <= size' /\ size' <= MaxLine /\ input' \in Bytes
          /\ ~parm.converted => work' = Held(chunk) /\ size' = Len(work') /\ Len(work') < MaxLine
          /\ parm.line = "tidy" => SendsTidy(chunk)
      BY <1>3, <2>2, Handing
    <3>2. Len(work') <= MaxLine /\ Len(work') <= MaxLine + 1
      BY <1>0, <3>1
    <3>3. TypeInv'
      BY <3>1, <3>2
    <3>4. parm.line = "tidy" /\ ~started => IsPrefix(Start, work')
      BY <1>0, <3>1 DEF Held, SendsTidy
    <3>5. Start' = Start /\ ItemSep' = ItemSep
      BY <3>1 DEF Start, ItemSep
    <3>6. SerialSizeInv'
      BY <1>0, <3>1, <3>2, <3>4, <3>5 DEF SerialSizeInv
    <3> QED BY <1>s, <3>1, <3>3, <3>6
  <2> QED BY <2>1, <2>2
<1>4. CASE SerialEnds \/ SerialWaits
  BY <1>0, <1>1, <1>4 DEF SerialEnds, SerialWaits, SerialLoop
<1>5. CASE SerialStart
  <2> DEFINE i == FindFirst(work, Start)
             n == i + Len(Start) - 1
             rest == Behind(work, 1, Start)
  <2>1. /\ i # 0 /\ calls' = Append(calls, START) /\ started' = TRUE /\ SerialGoOn(rest, Minus(n))
        /\ pc = "loop" /\ ~started
    BY <1>5 DEF SerialStart, SerialLoop, SizeBehind
  <2>2. i \in Nat \ {0} /\ Len(Start) \in Nat \ {0} /\ n <= Len(work)
    BY <2>1, Cut, Tags
  <2>3. rest \in Bytes /\ Len(rest) = Len(work) - Len(Start) /\ Len(rest) \in Nat
    <3>1. 1 + Len(Start) - 1 <= Len(work)
      BY <1>0, <2>2
    <3>2. rest \in Bytes /\ Len(rest) = Len(work) - (1 + Len(Start) - 1)
      <4>1. Start \in Bytes /\ work \in Bytes /\ 1 \in Nat \ {0}
        BY Tags
      <4> HIDE DEF TypeInv
      <4> QED BY <3>1, <4>1, BeforeAndBehind
    <3> QED BY <1>0, <2>2, <3>1, <3>2
  <2>4. size \in Nat /\ Len(work) <= size /\ size < SizeWidth
    <3>1. Len(work) <= size /\ size <= MaxLine /\ size \in Nat
      BY <1>l, <2>1
    <3>2. SizeWidth \in Nat
      BY DEF SizeWidth
    <3> QED BY <1>0, <3>1, <3>2, WidthAssumption
  <2>5. parm.line = "tidy" => i = 1
    BY <1>l, <2>1, PrefixFound, Tags
  <2> HIDE DEF i, rest
  <2>6. n \in Nat /\ Minus(n) \in Nat /\ Minus(n) = size - n
    <3>1. n \in Nat
      BY <2>2
    <3> HIDE DEF n
    <3>2. n <= size
      BY <1>0, <2>2, <2>4, <3>1
    <3> QED BY <2>4, <3>1, <3>2, Less
  <2>7. /\ size <= Len(work) => Minus(n) <= Len(rest)
        /\ size = Len(work) /\ i = 1 => Minus(n) = Len(rest)
    BY <1>0, <2>2, <2>3, <2>4, <2>6
  <2>8. calls' \in Seq(Call)
    BY <2>1, Calls
  <2> HIDE DEF n
  <2>9. /\ work' = rest /\ size' = Minus(n) /\ UNCHANGED <<parm, buf, pc, input, base, broken>>
    BY <2>1 DEF SerialGoOn, history
  <2>10. TypeInv'
    BY <2>1, <2>3, <2>6, <2>8, <2>9
  <2>11. Len(rest) <= Len(buf)
    BY <1>0, <1>l, <2>1, <2>2, <2>3
  <2>12. SerialSizeInv'
    BY <1>l, <2>1, <2>5, <2>7, <2>9, <2>11 DEF SerialSizeInv, ItemSep
  <2> QED BY <1>s, <2>9, <2>10, <2>12
<1>6. CASE SerialPlain
  <2>1. SerialLeave(<<>>) /\ pc = "loop"
    BY <1>6 DEF SerialPlain, SerialLoop
  <2>2. started' \in BOOLEAN
    BY <1>6 DEF SerialPlain, AfterStop
  <2>3. calls' \in Seq(Call)
    BY <1>6, Calls DEF SerialPlain
  <2> QED BY <1>0, <1>1, <2>1, <2>2, <2>3
<1>7. CASE SerialItem
  <2> DEFINE i == FindFirst(work, ItemSep)
             n == i + Len(ItemSep) - 1
             text == Before(work, i)
             rest == Behind(work, i, ItemSep)
  <2>1. i # 0 /\ pc = "loop" /\ started /\ ItemSep # <<>>
    BY <1>7 DEF SerialItem, SerialLoop
  <2>2. /\ i \in Nat \ {0} /\ Len(ItemSep) \in Nat \ {0} /\ n <= Len(work)
        /\ text \in Bytes /\ rest \in Bytes /\ Len(rest) = Len(work) - n
    BY <2>1, Cut, Tags
  <2>3. \/ calls' = Append(calls, STOP) /\ started' = FALSE /\ SerialLeave(<<>>)
        \/ /\ calls' \in {calls, Append(calls, ITEM(text))} /\ SerialGoOn(rest, Minus(n))
           /\ UNCHANGED started
    BY <1>7 DEF SerialItem, SizeBehind, AfterStop
  <2> HIDE DEF i, text, rest
  <2>4. CASE calls' = Append(calls, STOP) /\ started' = FALSE /\ SerialLeave(<<>>)
    <3>1. Append(calls, STOP) \in Seq(Call)
      BY Calls
    <3>2. calls' \in Seq(Call) /\ started' \in BOOLEAN
      BY <2>4, <3>1
    <3>3. <<>> \in Bytes /\ Len(<<>>) <= Len(work)
      BY <1>0
    <3> QED BY <1>1, <2>1, <2>4, <3>2, <3>3
  <2>5. CASE /\ calls' \in {calls, Append(calls, ITEM(text))} /\ SerialGoOn(rest, Minus(n))
             /\ UNCHANGED started
    <3>1. calls' \in Seq(Call)
      BY <2>2, <2>5, Calls
    <3>2. /\ n \in Nat /\ Minus(n) \in Nat
          /\ size = Len(work) /\ parm.line = "tidy" => Minus(n) = Len(rest)
      <4>1. n \in Nat
        BY <2>2
      <4> HIDE DEF n
      <4>2. size = Len(work) => n <= size /\ size < SizeWidth
        <5>1. Len(work) <= Len(buf) /\ Len(buf) <= MaxLine /\ SizeWidth \in Nat
          BY <1>l, <2>1 DEF SizeWidth
        <5> QED BY <1>0, <2>2, <5>1, WidthAssumption
      <4> QED BY <1>0, <2>2, <4>1, <4>2, Less
    <3>3. Len(rest) \in Nat /\ Len(rest) <= Len(buf)
      BY <1>0, <1>l, <2>1, <2>2, <3>2
    <3> HIDE DEF n
    <3>4. /\ work' = rest /\ size' = Minus(n) /\ UNCHANGED <<parm, buf, pc, input, base, broken, started>>
      BY <2>5 DEF SerialGoOn, history
    <3>5. TypeInv'
      BY <2>1, <2>2, <3>1, <3>2, <3>4
    <3>6. SerialSizeInv'
      BY <1>l, <2>1, <3>2, <3>3, <3>4 DEF SerialSizeInv, ItemSep
    <3> QED BY <1>s, <3>4, <3>5, <3>6
  <2> QED BY <2>3, <2>4, <2>5
<1>8. CASE Config
  BY <1>2, <1>8 DEF Config
<1> QED BY <1>3, <1>4, <1>5, <1>6, <1>7, <1>8 DEF SerialNext

-----------------------------------------------------------------------------
(***************************************************************************)
(* When the buffer has room as a read is begun.                            *)
(***************************************************************************)
\* An empty buffer has room and holds no item.
LEMMA EmptyWaits ==
  ASSUME parm \in Parms, parm' = parm, buf' = <<>>
  PROVE  BufferWaits'
<1>1. /\ <<>> \in Bytes /\ Len(<<>>) = 0 /\ Len(Start) \in Nat \ {0} /\ MaxLine \in Nat \ {0}
      /\ ItemSep # <<>> => Len(ItemSep) \in Nat \ {0}
  BY Tags DEF Bytes
<1>2. ItemSep # <<>> => FindFirst(<<>>, ItemSep) = 0
  <2>1. ItemSep # <<>> => Len(<<>>) < Len(ItemSep)
    BY <1>1
  <2> QED BY <1>1, <2>1, NotFound, Tags
<1>3. Start' = Start /\ ItemSep' = ItemSep
  BY DEF Start, ItemSep
<1>4. Len(buf') < MaxLine /\ Len(buf') < Len(Start) /\ Len(buf') # MaxLine
  BY <1>1
<1> QED BY <1>2, <1>3, <1>4 DEF BufferWaits

LEMMA NetWaits ==
  ASSUME TypeInv, SizeInv, BufferWaits, Next, ~IsSerial, parm' = parm
  PROVE  BufferWaits'
<1>0. /\ parm \in Parms /\ work \in Bytes /\ <<>> \in Bytes /\ Len(<<>>) = 0 /\ Len(work) \in Nat
      /\ Start' = Start /\ ItemSep' = ItemSep /\ Len(Start) \in Nat \ {0} /\ Len(Start) <= MaxLine
      /\ size \in Nat /\ MaxLine \in Nat
  <2>1. Start' = Start /\ ItemSep' = ItemSep
    BY DEF Start, ItemSep
  <2>2. /\ parm \in Parms /\ work \in Bytes /\ <<>> \in Bytes /\ Len(<<>>) = 0 /\ Len(work) \in Nat
        /\ size \in Nat
    BY DEF TypeInv, Bytes
  <2>3. Len(Start) \in Nat \ {0} /\ Len(Start) <= MaxLine /\ MaxLine \in Nat
    BY <2>2, Tags
  <2> QED BY <2>1, <2>2, <2>3
<1>l. ASSUME pc = "loop"
      PROVE  /\ size <= MaxLine + 1
             /\ ~parm.converted => size = Len(work) /\ size <= MaxLine
  BY <1>l DEF SizeInv, NetSizeInv
<1>1. ASSUME NEW rest, NEW left \in Nat, Leave(rest, left), left <= MaxLine + 1,
             ~parm.converted => rest \in Bytes /\ Len(rest) = left /\ left <= MaxLine,
             ~started => left < Len(Start),
             ~parm.converted /\ started /\ ItemSep # <<>> => FindFirst(rest, ItemSep) = 0
      PROVE  BufferWaits'
  <2>1. CASE buf' = <<>>
    BY <1>0, <2>1, EmptyWaits
  <2>2. CASE buf' # <<>>
    <3>1. /\ Len(buf') \in Nat /\ Len(buf') <= left /\ Len(buf') # MaxLine
          /\ ~parm.converted => buf' = rest /\ Len(buf') < MaxLine
      BY <1>1, <2>2, Left
    <3>2. started' = started
      BY <1>1 DEF Leave
    <3>3. ~started => Len(buf') < Len(Start)
      BY <1>0, <1>1, <3>1
    <3> QED BY <1>0, <1>1, <3>1, <3>2, <3>3 DEF BufferWaits
  <2> QED BY <2>1, <2>2
<1>2. ASSUME pc' = "loop" PROVE BufferWaits'
  BY <1>2 DEF BufferWaits
<1>3. ASSUME NEW i, NEW tag, GoOn(i, tag), InLoop PROVE BufferWaits'
  BY <1>2, <1>3 DEF GoOn, InLoop
<1>4. CASE \E chunk \in Chunks : Receive(chunk)
  BY <1>2, <1>4 DEF Receive
<1>5. CASE LoopEnds
  <2>1. ItemSep # <<>> => FindFirst(<<>>, ItemSep) = 0
    <3>1. ItemSep # <<>> => Len(<<>>) < Len(ItemSep)
      BY <1>0, Tags
    <3> QED BY <1>0, <3>1, NotFound, Tags
  <2>2. Leave(<<>>, 0) /\ 0 \in Nat /\ 0 <= MaxLine + 1 /\ 0 <= MaxLine /\ 0 < Len(Start)
    BY <1>0, <1>5 DEF LoopEnds
  <2> QED BY <1>0, <1>1, <2>1, <2>2
<1>6. CASE StartShort
  <2>1. Leave(work, size) /\ pc = "loop" /\ ~started /\ size < Len(Start)
    BY <1>6 DEF StartShort, InLoop
  <2> QED BY <1>0, <1>1, <1>l, <2>1
<1>7. CASE StartMissing
  <2> DEFINE left == Len(Start) - 1
  <2>1. Leave(Kept(work), left) /\ pc = "loop" /\ ~started /\ size >= Len(Start)
    BY <1>7 DEF StartMissing, InLoop
  <2>2. left \in Nat /\ left <= MaxLine + 1 /\ left <= MaxLine /\ left < Len(Start)
    BY <1>0
  <2>3. ~parm.converted => Kept(work) \in Bytes /\ Len(Kept(work)) = left
    BY <1>l, <2>1, KeptPart
  <2> HIDE DEF left
  <2> QED BY <1>1, <2>1, <2>2, <2>3
<1>8. CASE ItemShort
  <2>1. Leave(work, size) /\ pc = "loop" /\ started /\ FindFirst(work, ItemSep) = 0
    BY <1>8 DEF ItemShort, InLoop
  <2> QED BY <1>0, <1>1, <1>l, <2>1
<1>9. CASE PlainItem
  BY <1>0, <1>9, EmptyWaits DEF PlainItem
<1>10. CASE NewSession
  BY <1>0, <1>10, EmptyWaits DEF NewSession
<1>11. CASE StartFound \/ PlainStop \/ ItemEmpty \/ ItemFound
  BY <1>3, <1>11 DEF StartFound, PlainStop, ItemEmpty, ItemFound
<1> QED BY <1>4, <1>5, <1>6, <1>7, <1>8, <1>9, <1>10, <1>11 DEF Next, Loop

LEMMA SerialWaitsToo ==
  ASSUME TypeInv, SizeInv, SerialNext, IsSerial, parm' = parm
  PROVE  BufferWaits'
<1>0. /\ parm \in Parms /\ work \in Bytes /\ Len(work) \in Nat /\ Len(buf) \in Nat
      /\ size \in Nat /\ MaxLine \in Nat
      /\ Start' = Start /\ ItemSep' = ItemSep /\ Len(Start) \in Nat \ {0}
      /\ Start \in Bytes /\ Start # <<>> /\ ItemSep \in Bytes
  <2>1. Start' = Start /\ ItemSep' = ItemSep
    BY DEF Start, ItemSep
  <2>2. /\ parm \in Parms /\ work \in Bytes /\ Len(work) \in Nat /\ Len(buf) \in Nat
        /\ size \in Nat
    BY DEF TypeInv, Bytes
  <2>3. /\ Len(Start) \in Nat \ {0} /\ MaxLine \in Nat
        /\ Start \in Bytes /\ Start # <<>> /\ ItemSep \in Bytes
    BY <2>2, Tags
  <2> QED BY <2>1, <2>2, <2>3
<1>1. CASE \E chunk \in Chunks : Pos485String(chunk)
  <2>1. buf' = <<>> \/ pc' = "loop"
    BY <1>1 DEF Pos485String, Forgets
  <2> QED BY <1>0, <2>1, EmptyWaits DEF BufferWaits
\* The string that is left is not longer than the buffer was.
<1>2. ASSUME SerialLoop, SerialLeave(work), UNCHANGED started,
             parm.line # "serial" => /\ ~started => work = <<>>
                                     /\ started /\ ItemSep # <<>> => FindFirst(work, ItemSep) = 0
      PROVE  BufferWaits'
  <2>1. /\ Len(work) <= Len(buf) /\ (~parm.converted => Len(buf) < MaxLine) /\ buf' = work
        /\ parm.line # "net"
    BY <1>2 DEF SizeInv, SerialSizeInv, SerialLoop, SerialLeave, IsSerial
  <2>2. ~parm.converted => Len(buf') < MaxLine
    BY <1>0, <2>1
  <2>3. work = <<>> => Len(buf') < Len(Start)
    BY <1>0, <2>1
  <2> QED BY <1>0, <1>2, <2>1, <2>2, <2>3 DEF BufferWaits
<1>3. ASSUME SerialLoop, parm.line # "serial"
      PROVE  size = Len(work) /\ (~started => FindFirst(work, Start) = 1 /\ Len(Start) <= Len(work))
  <2>1. /\ parm.line = "tidy"
        /\ size = Len(work) /\ (~started => IsPrefix(Start, work))
    BY <1>3 DEF SizeInv, SerialSizeInv, SerialLoop, IsSerial
  <2>2. ~started => FindFirst(work, Start) = 1
    BY <1>0, <2>1, PrefixFound
  <2>3. ~started => Len(Start) <= Len(work)
    BY <2>1 DEF IsPrefix
  <2> QED BY <2>1, <2>2, <2>3
<1>4. CASE SerialEnds
  <2>1. SerialLoop /\ size = 0 /\ SerialLeave(work) /\ UNCHANGED started
    BY <1>4 DEF SerialEnds
  <2>2. parm.line # "serial" => work = <<>>
    <3>1. parm.line # "serial" => Len(work) = 0
      BY <1>3, <2>1
    <3> QED BY <1>0, <3>1 DEF Bytes
  <2>3. work = <<>> => buf' = <<>>
    BY <2>1 DEF SerialLeave
  <2> QED BY <1>0, <1>2, <2>1, <2>2, <2>3, EmptyWaits
<1>5. CASE SerialWaits
  <2>1. /\ SerialLoop /\ SerialLeave(work) /\ UNCHANGED started
        /\ \/ ~started /\ (size < Len(Start) \/ FindFirst(work, Start) = 0)
           \/ started /\ ItemSep # <<>> /\ (size < Len(ItemSep) \/ FindFirst(work, ItemSep) = 0)
    BY <1>5 DEF SerialWaits
  <2>2. parm.line # "serial" => started
    <3>1. parm.line # "serial" /\ ~started => ~(size < Len(Start)) /\ FindFirst(work, Start) # 0
      BY <1>0, <1>3, <2>1
    <3> QED BY <2>1, <3>1
  <2>3. parm.line # "serial" /\ started => FindFirst(work, ItemSep) = 0
    BY <1>0, <1>3, <2>1, NotFound
  <2> QED BY <1>2, <2>1, <2>2, <2>3
<1>6. CASE SerialStart
  BY <1>6 DEF SerialStart, SerialLoop, SerialGoOn, BufferWaits
<1>7. CASE SerialPlain
  BY <1>0, <1>7, EmptyWaits DEF SerialPlain, SerialLeave
<1>8. CASE SerialItem
  <2>1. buf' = <<>> \/ pc' = "loop"
    BY <1>8 DEF SerialItem, SerialLoop, SerialGoOn, SerialLeave
  <2> QED BY <1>0, <2>1, EmptyWaits DEF BufferWaits
<1>9. CASE Config
  BY <1>0, <1>9, EmptyWaits DEF Config, Forgets
<1> QED BY <1>1, <1>4, <1>5, <1>6, <1>7, <1>8, <1>9 DEF SerialNext

-----------------------------------------------------------------------------
(***************************************************************************)
(* What is called back is receipts.                                        *)
(***************************************************************************)
\* WellBracketed of callbacks cs that lead from b to on.
Bracketed(cs, b, on) ==
  /\ cs # <<>> => (Head(cs).type = "START") = ~b /\ on = (Last(cs).type # "STOP")
  /\ cs = <<>> => on = b
  /\ \A i \in DOMAIN cs :
       /\ cs[i].type = "ITEM" => cs[i].text # <<>> \/ parm.converted
       /\ i > 1 => (cs[i].type = "START") = (cs[i - 1].type = "STOP")

\* One more callback: a START if no receipt is open, else one of the others.
LEMMA OneMore ==
  ASSUME NEW cs \in Seq(Call), NEW b \in BOOLEAN, NEW on \in BOOLEAN, NEW c \in Call,
         Bracketed(cs, b, on), (c.type = "START") = ~on,
         c.type = "ITEM" => c.text # <<>> \/ parm.converted
  PROVE  Append(cs, c) \in Seq(Call) /\ Bracketed(Append(cs, c), b, c.type # "STOP")
<1> DEFINE new == Append(cs, c)
<1>1. /\ new \in Seq(Call) /\ Len(new) = Len(cs) + 1 /\ Len(cs) \in Nat
      /\ new[Len(cs) + 1] = c /\ \A i \in 1..Len(cs) : new[i] = cs[i]
      /\ new # <<>> /\ DOMAIN new = 1..(Len(cs) + 1) /\ DOMAIN cs = 1..Len(cs)
  BY AppendProperties
<1> HIDE DEF new
<1>2. Head(new) = new[1] /\ Last(new) = c
  BY <1>1 DEF Last
<1>3. CASE cs = <<>>
  <2>1. Len(cs) = 0 /\ on = b /\ new[1] = c
    BY <1>1, <1>3 DEF Bracketed
  <2>2. (Head(new).type = "START") = ~b
    BY <1>2, <2>1
  <2>3. \A i \in DOMAIN new : i = 1
    BY <1>1, <2>1
  <2> QED BY <1>1, <1>2, <2>1, <2>2, <2>3 DEF Bracketed, new
<1>4. CASE cs # <<>>
  <2>1. Len(cs) # 0 /\ Head(cs) = cs[1] /\ Last(cs) = cs[Len(cs)]
    BY <1>1, <1>4 DEF Last
  <2>2. (Head(new).type = "START") = ~b
    <3>1. 1 \in 1..Len(cs)
      BY <1>1, <2>1
    <3>2. Head(new) = Head(cs)
      BY <1>1, <1>2, <2>1, <3>1
    <3> QED BY <1>4, <3>2 DEF Bracketed
  <2>3. on = (cs[Len(cs)].type # "STOP")
    BY <1>4, <2>1 DEF Bracketed
  <2>4. ASSUME NEW i \in DOMAIN new
        PROVE  /\ new[i].type = "ITEM" => new[i].text # <<>> \/ parm.converted
               /\ i > 1 => (new[i].type = "START") = (new[i - 1].type = "STOP")
    <3>1. CASE i = Len(cs) + 1
      <4>1. Len(cs) \in 1..Len(cs) /\ i - 1 = Len(cs)
        BY <1>1, <2>1, <3>1
      <4>2. new[i - 1] = cs[Len(cs)] /\ new[i] = c
        BY <1>1, <3>1, <4>1
      <4> QED BY <2>3, <4>2
    <3>2. CASE i # Len(cs) + 1
      <4>1. i \in DOMAIN cs /\ new[i] = cs[i] /\ (i > 1 => new[i - 1] = cs[i - 1])
        BY <1>1, <3>2
      <4> QED BY <4>1 DEF Bracketed
    <3> QED BY <3>1, <3>2
  <2> QED BY <1>1, <1>2, <2>2, <2>4 DEF Bracketed, new
<1> QED BY <1>3, <1>4

\* No callbacks, as a history begins.
LEMMA NoneYet ==
  ASSUME NEW b
  PROVE  Bracketed(<<>>, b, b)
BY DEF Bracketed

\* The three callbacks, and the text and the STOP of the plain parsers.
LEMMA CalledBack ==
  ASSUME TypeInv, WellBracketed
  PROVE  /\ ~started => Bracketed(Append(calls, START), base, TRUE)
         /\ started => Bracketed(Append(calls, STOP), base, FALSE)
         /\ started => \A text \in Bytes : text # <<>> \/ parm.converted
                                           => Bracketed(Append(calls, ITEM(text)), base, TRUE)
         /\ started => \A i : FindFirst(work, StopTag) = i /\ i # 0
                              => Bracketed(calls \o TextThenStop(i), base, FALSE)
<1>1. /\ calls \in Seq(Call) /\ base \in BOOLEAN /\ started \in BOOLEAN /\ work \in Bytes
      /\ parm \in Parms
  BY DEF TypeInv
<1>2. Bracketed(calls, base, started)
  BY DEF WellBracketed, Bracketed
<1>3. /\ START \in Call /\ START.type = "START"
      /\ STOP \in Call /\ STOP.type = "STOP"
      /\ \A text \in Bytes : ITEM(text) \in Call /\ ITEM(text).type = "ITEM" /\ ITEM(text).text = text
  BY DEF START, STOP, ITEM, Call, Bytes
<1>4. ~started => Bracketed(Append(calls, START), base, TRUE)
  <2> SUFFICES ASSUME ~started PROVE Bracketed(Append(calls, START), base, START.type # "STOP")
    BY <1>3
  <2> QED BY <1>1, <1>2, <1>3, OneMore
<1>5. ASSUME NEW cs \in Seq(Call), Bracketed(cs, base, TRUE)
      PROVE  Bracketed(Append(cs, STOP), base, FALSE)
  <2> SUFFICES Bracketed(Append(cs, STOP), base, STOP.type # "STOP")
    BY <1>3
  <2> QED BY <1>1, <1>3, <1>5, OneMore
<1>6. ASSUME started, NEW text \in Bytes, text # <<>> \/ parm.converted
      PROVE  Append(calls, ITEM(text)) \in Seq(Call) /\ Bracketed(Append(calls, ITEM(text)), base, TRUE)
  <2> DEFINE c == ITEM(text)
  <2>1. c \in Call /\ c.type = "ITEM" /\ c.text = text
    BY <1>3
  <2> HIDE DEF c
  <2>2. (c.type = "START") = ~started /\ (c.type = "ITEM" => c.text # <<>> \/ parm.converted)
        /\ c.type # "STOP"
    BY <1>6, <2>1
  <2>3. Append(calls, c) \in Seq(Call) /\ Bracketed(Append(calls, c), base, c.type # "STOP")
    BY <1>1, <1>2, <2>1, <2>2, OneMore
  <2>4. (c.type # "STOP") = TRUE
    BY <2>2
  <2> QED BY <2>3, <2>4 DEF c
<1>7. ASSUME started, NEW i, FindFirst(work, StopTag) = i, i # 0
      PROVE  Bracketed(calls \o TextThenStop(i), base, FALSE)
  <2>1. i \in Nat \ {0} /\ Before(work, i) \in Bytes /\ (i > 1 => Before(work, i) # <<>>)
    BY <1>1, <1>7, Cut, Tags
  <2>2. CASE i = 1
    <3>1. calls \o TextThenStop(i) = Append(calls, STOP)
      <4>1. TextThenStop(i) = <<STOP>>
        BY <2>2 DEF TextThenStop
      <4>2. calls \o <<STOP>> = Append(calls, STOP)
        BY <1>1, <1>3, AppendIsConcat
      <4> QED BY <4>1, <4>2
    <3> QED BY <1>1, <1>2, <1>5, <1>7, <3>1
  <2>3. CASE i # 1
    <3> DEFINE c == ITEM(Before(work, i))
    <3>1. Append(calls, c) \in Seq(Call) /\ Bracketed(Append(calls, c), base, TRUE)
      <4>1. Before(work, i) \in Bytes /\ Before(work, i) # <<>>
        BY <2>1, <2>3
      <4> QED BY <1>6, <1>7, <4>1
    <3>2. c \in Call
      BY <1>3, <2>1
    <3>3. TextThenStop(i) = <<c>> \o <<STOP>>
      BY <2>3 DEF TextThenStop
    <3> HIDE DEF c
    <3>4. calls \o (<<c>> \o <<STOP>>) = Append(Append(calls, c), STOP)
      <4>1. <<c>> \in Seq(Call) /\ <<STOP>> \in Seq(Call)
        BY <1>3, <3>2
      <4>2. calls \o (<<c>> \o <<STOP>>) = (calls \o <<c>>) \o <<STOP>>
        BY <1>1, <4>1, ConcatAssociative
      <4>3. calls \o <<c>> = Append(calls, c)
        BY <1>1, <3>2, AppendIsConcat
      <4>4. Append(calls, c) \o <<STOP>> = Append(Append(calls, c), STOP)
        BY <1>3, <3>1, AppendIsConcat
      <4> QED BY <4>2, <4>3, <4>4
    <3>5. Bracketed(Append(Append(calls, c), STOP), base, FALSE)
      BY <1>5, <3>1
    <3> QED BY <3>3, <3>4, <3>5
  <2> QED BY <2>2, <2>3
<1> QED BY <1>1, <1>2, <1>4, <1>5, <1>6, <1>7

LEMMA NetBracketed ==
  ASSUME TypeInv, SizeInv, WellBracketed, Next, ~IsSerial, parm' = parm
  PROVE  WellBracketed'
<1>0. /\ work \in Bytes /\ parm \in Parms /\ Bracketed(calls, base, started)
      /\ StopTag \in Bytes /\ ItemSep \in Bytes /\ Start \in Bytes
      /\ parm.line = "net" /\ broken = FALSE
  <2>1. parm.line = "net"
    BY Tags DEF TypeInv, IsSerial
  <2>2. broken = FALSE
    BY <2>1 DEF TypeInv, WellBracketed
  <2> QED BY <2>1, <2>2, Tags DEF TypeInv, WellBracketed, Bracketed
<1>1. ASSUME NEW cs, NEW b, NEW on, Bracketed(cs, b, on), calls' = cs, base' = b, started' = on,
             broken' = FALSE
      PROVE  WellBracketed'
  BY <1>1 DEF Bracketed, WellBracketed
\* The callbacks stay as they are, or are cut: then a receipt is open if and
\* only if the server knows of it.
<1>2. ASSUME \/ UNCHANGED <<calls, base, broken, started>>
             \/ CutHistory(started) /\ UNCHANGED started
      PROVE  WellBracketed'
  <2>1. CASE UNCHANGED <<calls, base, broken, started>>
    BY <1>0, <1>1, <2>1
  <2>2. CASE CutHistory(started) /\ UNCHANGED started
    <3>1. Open => started
      <4>1. CASE calls = <<>>
        BY <1>0, <4>1 DEF Open, Bracketed
      <4>2. CASE calls # <<>>
        BY <1>0, <4>2 DEF Open, Bracketed
      <4> QED BY <4>1, <4>2
    <3>2. calls' = <<>> /\ base' = started /\ broken' = (Open /\ ~started) /\ started' = started
      BY <2>2 DEF CutHistory
    <3>3. broken' = FALSE
      BY <3>1, <3>2
    <3>4. Bracketed(<<>>, started, started)
      BY NoneYet
    <3> QED BY <1>1, <3>2, <3>3, <3>4
  <2> QED BY <1>2, <2>1, <2>2
<1>3. ASSUME NEW rest, NEW left, Leave(rest, left) PROVE WellBracketed'
  BY <1>2, <1>3 DEF Leave, history
<1>4. CASE \E chunk \in Chunks : Receive(chunk)
  BY <1>2, <1>4 DEF Receive
<1>5. CASE LoopEnds \/ StartShort \/ StartMissing \/ ItemShort
  BY <1>3, <1>5 DEF LoopEnds, StartShort, StartMissing, ItemShort
<1>6. CASE StartFound
  <2>1. /\ ~started /\ calls' = Append(calls, START) /\ base' = base /\ started' = TRUE
        /\ broken' = FALSE
    BY <1>0, <1>6 DEF StartFound, GoOn, history
  <2> QED BY <1>1, <2>1, CalledBack
<1>7. CASE PlainItem
  <2>1. /\ started /\ calls' = Append(calls, ITEM(work)) /\ base' = base /\ started' = TRUE
        /\ broken' = FALSE /\ pc = "loop" /\ size # 0
    BY <1>0, <1>7 DEF PlainItem, InLoop, TypeInv, history
  <2>2. work # <<>> \/ parm.converted
    <3>1. ~parm.converted => Len(work) # 0
      BY <2>1 DEF SizeInv, NetSizeInv
    <3> QED BY <3>1
  <2>3. Bracketed(calls', base, TRUE)
    BY <1>0, <2>1, <2>2, CalledBack
  <2> QED BY <1>1, <2>1, <2>3
<1>8. CASE PlainStop
  <2> DEFINE i == FindFirst(work, StopTag)
  <2>1. /\ started /\ i # 0 /\ calls' = calls \o TextThenStop(i) /\ base' = base /\ started' = FALSE
        /\ broken' = FALSE
    BY <1>0, <1>8 DEF PlainStop, GoOn, AfterStop, history
  <2> QED BY <1>1, <2>1, CalledBack
<1>9. CASE ItemEmpty \/ NewSession
  BY <1>2, <1>9 DEF ItemEmpty, GoOn, NewSession, history
<1>10. CASE ItemFound
  <2> DEFINE i == FindFirst(work, ItemSep)
             text == Before(work, i)
  <2>1. /\ started /\ i > 1 /\ base' = base /\ broken' = FALSE
        /\ calls' = Append(calls, IF IsStop(text) THEN STOP ELSE ITEM(text))
        /\ started' = IF IsStop(text) THEN FALSE ELSE TRUE
    BY <1>0, <1>10 DEF ItemFound, GoOn, AfterStop, history
  <2>2. i # 0
    BY <2>1
  <2>3. text \in Bytes /\ text # <<>>
    BY <1>0, <2>1, <2>2, Cut
  <2> HIDE DEF text, i
  <2>4. CASE IsStop(text)
    BY <1>1, <2>1, <2>4, CalledBack
  <2>5. CASE ~IsStop(text)
    BY <1>1, <2>1, <2>3, <2>5, CalledBack
  <2> QED BY <2>4, <2>5
<1> QED BY <1>4, <1>5, <1>6, <1>7, <1>8, <1>9, <1>10 DEF Next, Loop

LEMMA SerialBracketed ==
  ASSUME TypeInv, SizeInv, WellBracketed, SerialNext, IsSerial, parm' = parm
  PROVE  WellBracketed'
<1>0. /\ work \in Bytes /\ parm \in Parms /\ Bracketed(calls, base, started)
      /\ StopTag \in Bytes /\ ItemSep \in Bytes /\ Start \in Bytes
      /\ parm.line # "net" /\ (broken => ~base)
  BY Tags DEF TypeInv, WellBracketed, Bracketed, IsSerial
<1>1. ASSUME NEW cs, NEW on, Bracketed(cs, base, on), calls' = cs, started' = on,
             UNCHANGED <<base, broken>>
      PROVE  WellBracketed'
  BY <1>0, <1>1 DEF Bracketed, WellBracketed
\* What is forgotten leaves a receipt broken, if one was open.
<1>2. ASSUME UNCHANGED <<calls, base, broken, started>> \/ Forgets
      PROVE  WellBracketed'
  <2>1. CASE UNCHANGED <<calls, base, broken, started>>
    BY <1>0, <1>1, <2>1
  <2>2. CASE Forgets
    <3>1. calls' = <<>> /\ base' = FALSE /\ started' = FALSE
      BY <2>2, Forgotten
    <3> QED BY <1>0, <3>1, NoneYet DEF WellBracketed, Bracketed
  <2> QED BY <1>2, <2>1, <2>2
<1>3. CASE (\E chunk \in Chunks : Pos485String(chunk)) \/ Config
  BY <1>2, <1>3 DEF Pos485String, Config
<1>4. CASE SerialEnds \/ SerialWaits
  BY <1>2, <1>4 DEF SerialEnds, SerialWaits, SerialLeave, history
<1>5. CASE SerialStart
  <2>1. ~started /\ calls' = Append(calls, START) /\ UNCHANGED <<base, broken>> /\ started' = TRUE
    BY <1>5 DEF SerialStart, SerialGoOn, history
  <2> QED BY <1>1, <2>1, CalledBack
<1>6. CASE SerialPlain
  <2> DEFINE i == FindFirst(work, StopTag)
  <2>1. /\ started /\ ItemSep = <<>> /\ size # 0 /\ UNCHANGED <<base, broken>>
        /\ \/ i = 0 /\ calls' = Append(calls, ITEM(work)) /\ started' = TRUE
           \/ i # 0 /\ calls' = calls \o TextThenStop(i) /\ started' = FALSE
    BY <1>6 DEF SerialPlain, SerialLeave, AfterStop, TypeInv, history
  <2>2. work # <<>> \/ parm.converted
    <3>1. size \in Nat /\ (~parm.converted => size <= Len(work))
      BY <1>6, <2>1 DEF SerialPlain, SerialLoop, SizeInv, SerialSizeInv, TypeInv
    <3> QED BY <2>1, <3>1
  <2>3. CASE i = 0
    <3>1. Bracketed(calls', base, TRUE)
      BY <1>0, <2>1, <2>2, <2>3, CalledBack
    <3> QED BY <1>1, <2>1, <2>3, <3>1
  <2>4. CASE i # 0
    BY <1>1, <2>1, <2>4, CalledBack
  <2> QED BY <2>3, <2>4
<1>7. CASE SerialItem
  <2> DEFINE i == FindFirst(work, ItemSep)
             text == Before(work, i)
  <2>1. /\ started /\ i # 0 /\ UNCHANGED <<base, broken>>
        /\ \/ calls' = Append(calls, STOP) /\ started' = FALSE
           \/ /\ calls' = IF i > 1 THEN Append(calls, ITEM(text)) ELSE calls
              /\ started' = started
    BY <1>7 DEF SerialItem, SerialLeave, SerialGoOn, AfterStop, history
  <2>2. text \in Bytes /\ (i > 1 => text # <<>>)
    BY <1>0, <2>1, Cut
  <2> HIDE DEF text, i
  <2>3. CASE calls' = Append(calls, STOP) /\ started' = FALSE
    BY <1>1, <2>1, <2>3, CalledBack
  <2>4. CASE calls' = calls /\ started' = started
    BY <1>2, <2>1, <2>4
  <2>5. CASE i > 1 /\ calls' = Append(calls, ITEM(text)) /\ started' = started
    <3>1. started' = TRUE
      BY <2>1, <2>5 DEF TypeInv
    <3> QED BY <1>1, <2>1, <2>2, <2>5, <3>1, CalledBack
  <2> QED BY <2>1, <2>3, <2>4, <2>5
<1> QED BY <1>3, <1>4, <1>5, <1>6, <1>7 DEF SerialNext

-----------------------------------------------------------------------------
(***************************************************************************)
(* The invariant, and the properties that follow from it.                  *)
(***************************************************************************)
LEMMA InitInv == Init => Inv
<1> SUFFICES ASSUME Init PROVE Inv
  OBVIOUS
<1>1. /\ parm \in Parms /\ buf = <<>> /\ started = FALSE /\ work = <<>> /\ pc = "read"
      /\ calls = <<>> /\ input = <<>> /\ base = FALSE /\ broken = FALSE /\ size = 0
  BY DEF Init
<1>2. /\ <<>> \in Bytes /\ Len(<<>>) = 0 /\ Len(Start) \in Nat \ {0} /\ MaxLine \in Nat \ {0}
  BY <1>1, Tags DEF Bytes
<1>3. TypeInv
  <2>1. <<>> \in Seq(Call)
    OBVIOUS
  <2>2. Len(buf) <= MaxLine /\ Len(buf) <= MaxLine + 1
    BY <1>1, <1>2
  <2> QED BY <1>1, <1>2, <2>1, <2>2 DEF TypeInv
<1>4. SizeInv
  BY <1>1 DEF SizeInv, NetSizeInv, SerialSizeInv
<1>5. WellBracketed
  BY <1>1, NoneYet DEF WellBracketed, Bracketed
<1>6. BufferWaits
  <2>1. Len(buf) < MaxLine /\ Len(buf) < Len(Start) /\ Len(buf) # MaxLine
    BY <1>1, <1>2
  <2> QED BY <1>1, <2>1 DEF BufferWaits
<1> QED BY <1>3, <1>4, <1>5, <1>6 DEF Inv

\* The serial parser acts on serial lines only.
LEMMA SerialActs == SerialNext => IsSerial
BY DEF SerialNext, Pos485String, SerialEnds, SerialWaits, SerialStart, SerialPlain,
       SerialItem, Config, SerialLoop

LEMMA StepInv == Inv /\ [LineNext]_vars => Inv'
<1> SUFFICES ASSUME Inv, [LineNext]_vars PROVE Inv'
  OBVIOUS
<1> USE DEF Inv
<1>1. CASE SerialNext
  <2>1. IsSerial
    BY <1>1, SerialActs
  <2>2. TypeInv' /\ SizeInv' /\ parm' = parm
    BY <1>1, <2>1, SerialStep
  <2> QED BY <1>1, <2>1, <2>2, SerialWaitsToo, SerialBracketed
<1>2. CASE ~IsSerial /\ Next
  <2>1. TypeInv' /\ SizeInv' /\ parm' = parm
    BY <1>2, NetStep
  <2> QED BY <1>2, <2>1, NetWaits, NetBracketed
<1>3. CASE UNCHANGED vars
  BY <1>3 DEF vars, history, TypeInv, SizeInv, NetSizeInv, SerialSizeInv, IsSerial,
              WellBracketed, BufferWaits, Start, ItemSep
<1> QED BY <1>1, <1>2, <1>3 DEF LineNext

\* The invariant holds as long as a line is read, by whichever parser.
THEOREM Invariance == LineSpec => []Inv
<1> QED BY InitInv, StepInv, PTL DEF LineSpec

\* Every variable has its type: what is kept of a line fits in the buffer,
\* and exceeds a line, by one byte, only where the encoding is converted.
THEOREM TypeCorrect == LineSpec => []TypeOK
<1>1. Inv => TypeOK
  <2> SUFFICES ASSUME TypeInv, SizeInv PROVE TypeOK
    BY DEF Inv
  <2>1. \A i \in DOMAIN calls : calls[i] \in Call
    BY DEF TypeInv
  <2>2. Len(buf) <= MaxLine \/ (parm.converted /\ Len(buf) = MaxLine + 1)
    <3>1. Len(buf) \in Nat /\ MaxLine \in Nat
      BY BoundAssumption DEF TypeInv, Bytes
    <3> QED BY <3>1 DEF TypeInv
  <2>3. parm.line = "net" => Len(work) <= size /\ size <= MaxLine + 1
    <3>1. MaxLine \in Nat /\ Len(<<>>) = 0
      BY BoundAssumption
    <3> QED BY <3>1 DEF TypeInv, SizeInv, NetSizeInv, IsSerial
  <2> QED BY <2>1, <2>2, <2>3 DEF TypeInv, TypeOK, Bytes, Call
<1> QED BY <1>1, Invariance, PTL

\* on_data_cashing and on_data_loop call back receipts: a START, any number
\* of items and a STOP, in turn, however the bytes come, and whatever
\* overflows and clients come between.  A receipt lacks its STOP only if a
\* serial line overflowed or was configured within it; an item is empty only
\* if it was converted.
THEOREM ReceiptsBracketed == LineSpec => []WellBracketed
<1>1. Inv => WellBracketed
  BY DEF Inv
<1> QED BY <1>1, Invariance, PTL

\* Whenever a read is begun there is room for it, except within a receipt
\* that is converted; and over the network or a tidy serial line less than a
\* start tag waits between two receipts, whatever the encoding, and no
\* complete item waits within one that is not converted.
THEOREM BufferHasRoom == LineSpec => []BufferWaits
<1>1. Inv => BufferWaits
  BY DEF Inv
<1> QED BY <1>1, Invariance, PTL

-----------------------------------------------------------------------------
(***************************************************************************)
(* The automaton.                                                          *)
(***************************************************************************)
\* Induction over the natural numbers, with a set for the predicate.
LEMMA Induct ==
  ASSUME NEW P, 0 \in P, \A n \in Nat : n \in P => n + 1 \in P
  PROVE  \A n \in Nat : n \in P
<1> SUFFICES ASSUME Nat \ P # {} PROVE FALSE
  OBVIOUS
<1> DEFINE S == Nat \ P
<1>1. S \subseteq Nat /\ S # {}
  OBVIOUS
<1>2. Min(S) \in S /\ \A i \in S : Min(S) <= i
  BY <1>1, FirstPlace
<1>3. PICK m \in Nat : m \notin P /\ \A i \in Nat \ P : m <= i
  BY <1>2
<1>4. m # 0
  BY <1>3
<1>5. m - 1 \in Nat /\ m - 1 + 1 = m /\ ~(m <= m - 1)
  BY <1>4
<1>6. m - 1 \in P
  BY <1>3, <1>5
<1> QED BY <1>3, <1>5, <1>6

\* f is what the automaton goes through from st until it has read n of s.
IsFed(f, p, st, s, n) ==
  f = [m \in 0..n |-> IF m = 0 THEN st ELSE Automaton(p, f[m - 1], s[m])]

LEMMA Fed ==
  ASSUME NEW p, NEW st, NEW s, NEW n \in Nat
  PROVE  \E f : IsFed(f, p, st, s, n)
<1> DEFINE P == {k \in Nat : \E f : IsFed(f, p, st, s, k)}
<1>1. 0 \in P
  <2>1. IsFed([m \in 0..0 |-> st], p, st, s, 0)
    BY DEF IsFed
  <2> QED BY <2>1
<1>2. ASSUME NEW k \in Nat, k \in P PROVE k + 1 \in P
  <2>1. PICK f : IsFed(f, p, st, s, k)
    BY <1>2
  <2> DEFINE g == [m \in 0..(k + 1) |-> IF m = k + 1 THEN Automaton(p, f[k], s[k + 1]) ELSE f[m]]
  <2>2. ASSUME NEW m \in 0..(k + 1)
        PROVE  g[m] = IF m = 0 THEN st ELSE Automaton(p, g[m - 1], s[m])
    <3>1. CASE m = k + 1
      <4>1. m # 0 /\ m - 1 = k /\ k \in 0..(k + 1) /\ k # k + 1
        BY <3>1
      <4>2. g[m] = Automaton(p, f[k], s[m]) /\ g[m - 1] = f[k]
        BY <3>1, <4>1
      <4> QED BY <4>1, <4>2
    <3>2. CASE m = 0
      <4>1. 0 # k + 1 /\ 0 \in 0..k
        OBVIOUS
      <4>2. g[0] = f[0] /\ f[0] = st
        BY <2>1, <4>1 DEF IsFed
      <4> QED BY <3>2, <4>2
    <3>3. CASE m # 0 /\ m # k + 1
      <4>1. m \in 0..k /\ m - 1 \in 0..k /\ m - 1 \in 0..(k + 1) /\ m - 1 # k + 1
        BY <3>3
      <4>2. g[m] = f[m] /\ g[m - 1] = f[m - 1]
        BY <3>3, <4>1
      <4>3. f[m] = Automaton(p, f[m - 1], s[m])
        BY <2>1, <3>3, <4>1 DEF IsFed
      <4> QED BY <3>3, <4>2, <4>3
    <3> QED BY <3>1, <3>2, <3>3
  <2> HIDE DEF g
  <2>3. \A h : h = [m \in 0..(k + 1) |-> h[m]] /\ (\A m \in 0..(k + 1) : h[m] = IF m = 0 THEN st ELSE Automaton(p, h[m - 1], s[m]))
               => IsFed(h, p, st, s, k + 1)
    BY DEF IsFed
  <2>4. g = [m \in 0..(k + 1) |-> g[m]]
    BY DEF g
  <2>5. IsFed(g, p, st, s, k + 1)
    BY <2>2, <2>3, <2>4
  <2> QED BY <2>5
<1> HIDE DEF P
<1>3. \A k \in Nat : k \in P
  BY <1>1, <1>2, Induct
<1> QED BY <1>3 DEF P

\* The state that Feed returns is the last of these.
LEMMA FeedIs ==
  ASSUME NEW p, NEW st, NEW s, Len(s) \in Nat
  PROVE  \E f : IsFed(f, p, st, s, Len(s)) /\ Feed(p, st, s) = f[Len(s)]
<1>1. \E f : IsFed(f, p, st, s, Len(s))
  BY Fed
<1> DEFINE fed[n \in 0..Len(s)] == IF n = 0 THEN st ELSE Automaton(p, fed[n - 1], s[n])
<1>2. IsFed(fed, p, st, s, Len(s))
  BY <1>1 DEF IsFed
<1>3. Feed(p, st, s) = fed[Len(s)]
  BY DEF Feed
<1> HIDE DEF fed
<1> QED BY <1>2, <1>3

\* Two of these agree as far as what they are fed does.
LEMMA FedAgree ==
  ASSUME NEW p, NEW st, NEW s, NEW t, NEW m \in Nat, NEW n \in Nat, m <= n,
         \A i \in 1..m : s[i] = t[i],
         NEW f, IsFed(f, p, st, s, m), NEW g, IsFed(g, p, st, t, n)
  PROVE  f[m] = g[m]
<1> DEFINE P == {k \in Nat : k <= m => f[k] = g[k]}
<1>1. 0 \in P
  BY DEF IsFed
<1>2. ASSUME NEW k \in Nat, k \in P PROVE k + 1 \in P
  <2> SUFFICES ASSUME k + 1 <= m PROVE f[k + 1] = g[k + 1]
    OBVIOUS
  <2>1. k + 1 \in 0..m /\ k + 1 \in 0..n /\ k + 1 # 0 /\ k + 1 - 1 = k /\ k <= m /\ k + 1 \in 1..m
    OBVIOUS
  <2>2. f[k + 1] = Automaton(p, f[k], s[k + 1]) /\ g[k + 1] = Automaton(p, g[k], t[k + 1])
    BY <2>1 DEF IsFed
  <2> QED BY <1>2, <2>1, <2>2
<1> HIDE DEF P
<1>3. \A k \in Nat : k \in P
  BY <1>1, <1>2, Induct
<1> QED BY <1>3 DEF P

\* The automaton reads one byte after the other.
LEMMA FeedNone ==
  ASSUME NEW p, NEW st
  PROVE  Feed(p, st, <<>>) = st
<1>1. Len(<<>>) = 0
  OBVIOUS
<1>2. PICK f : IsFed(f, p, st, <<>>, Len(<<>>)) /\ Feed(p, st, <<>>) = f[Len(<<>>)]
  BY <1>1, FeedIs
<1>3. f[0] = st
  BY <1>1, <1>2 DEF IsFed
<1> QED BY <1>1, <1>2, <1>3

LEMMA FeedOne ==
  ASSUME NEW p, NEW st, NEW s \in Bytes, NEW b \in Alphabet
  PROVE  Feed(p, st, Append(s, b)) = Automaton(p, Feed(p, st, s), b)
<1> DEFINE t == Append(s, b)
<1>1. /\ Len(s) \in Nat /\ Len(t) = Len(s) + 1 /\ t[Len(s) + 1] = b
      /\ \A i \in 1..Len(s) : s[i] = t[i]
  BY AppendProperties DEF Bytes
<1> HIDE DEF t
<1>2. PICK f : IsFed(f, p, st, s, Len(s)) /\ Feed(p, st, s) = f[Len(s)]
  BY <1>1, FeedIs
<1>3. PICK g : IsFed(g, p, st, t, Len(t)) /\ Feed(p, st, t) = g[Len(t)]
  BY <1>1, FeedIs
<1>4. f[Len(s)] = g[Len(s)]
  BY <1>1, <1>2, <1>3, FedAgree
<1>5. g[Len(s) + 1] = Automaton(p, g[Len(s)], t[Len(s) + 1])
  <2>1. Len(s) + 1 \in 0..Len(t) /\ Len(s) + 1 # 0 /\ Len(s) + 1 - 1 = Len(s)
    BY <1>1
  <2> QED BY <1>3, <2>1 DEF IsFed
<1> QED BY <1>1, <1>2, <1>3, <1>4, <1>5 DEF t

\* Induction over sequences, likewise.
LEMMA AppendInduct ==
  ASSUME NEW S, NEW P, <<>> \in P,
         \A s \in Seq(S), b \in S : s \in P => Append(s, b) \in P
  PROVE  \A s \in Seq(S) : s \in P
<1> DEFINE Q == {n \in Nat : \A s \in Seq(S) : Len(s) = n => s \in P}
<1>1. 0 \in Q
  <2>1. \A s \in Seq(S) : Len(s) = 0 => s = <<>>
    OBVIOUS
  <2> QED BY <2>1
<1>2. ASSUME NEW n \in Nat, n \in Q PROVE n + 1 \in Q
  <2> SUFFICES ASSUME NEW s \in Seq(S), Len(s) = n + 1 PROVE s \in P
    OBVIOUS
  <2>1. s # <<>>
    OBVIOUS
  <2>2. PICK t \in Seq(S), b \in S : s = Append(t, b)
    BY <2>1, SequenceEmptyOrAppend
  <2>3. Len(t) \in Nat /\ Len(s) = Len(t) + 1
    BY <2>2, AppendProperties
  <2>4. Len(t) = n
    BY <2>3
  <2> QED BY <1>2, <2>2, <2>4
<1> HIDE DEF Q
<1>3. \A n \in Nat : n \in Q
  BY <1>1, <1>2, Induct
<1> QED BY <1>3 DEF Q

State(on, line, cs) == [started |-> on, line |-> line, calls |-> cs]
States == [started : BOOLEAN, line : Bytes, calls : Seq(Call)]

\* Whether a receipt is open.  (A name for each: the provers would take a
\* constant for a formula.)
On  == TRUE
Off == FALSE

LEMMA OnOff == On \in BOOLEAN /\ Off \in BOOLEAN /\ On /\ ~Off
BY DEF On, Off

\* What the automaton does when a line ends with the tag it looks for: text
\* is what is before the tag.
Hit(p, on, text, cs) ==
  IF ~on THEN State(On, <<>>, Append(cs, START))
  ELSE IF text = <<>> THEN State(On, <<>>, cs)
  ELSE IF text = p.stop_tag THEN State(Off, <<>>, Append(cs, STOP))
  ELSE State(On, <<>>, Append(cs, ITEM(text)))

\* The tags that the automaton looks for.
LEMMA LookedFor ==
  ASSUME NEW p \in Parms, p.item_sep # <<>>
  PROVE  /\ \A on \in BOOLEAN : /\ Tag(p, on) \in Bytes /\ Tag(p, on) # <<>>
                                /\ Len(Tag(p, on)) \in Nat \ {0}
         /\ StartOf(p) \in Bytes /\ Len(StartOf(p)) \in Nat \ {0}
<1>1. p.start_tag \in Bytes /\ p.item_sep \in Bytes
  BY ParmAssumption DEF Parm, Bytes
<1>2. StartOf(p) \in Bytes /\ StartOf(p) # <<>>
  BY <1>1, ConcatProperties, ConcatEqualIffEmpty DEF StartOf, Bytes
<1>3. \A on \in BOOLEAN : Tag(p, on) \in Bytes /\ Tag(p, on) # <<>>
  BY <1>1, <1>2 DEF Tag
<1> QED BY <1>2, <1>3, EmptySeq DEF Bytes

LEMMA StateIs ==
  ASSUME NEW st \in States
  PROVE  /\ st = State(st.started, st.line, st.calls)
         /\ st.started \in BOOLEAN /\ st.line \in Bytes /\ st.calls \in Seq(Call)
BY DEF State, States

LEMMA StateType ==
  ASSUME NEW on \in BOOLEAN, NEW line \in Bytes, NEW cs \in Seq(Call)
  PROVE  /\ State(on, line, cs) \in States
         /\ State(on, line, cs).started = on
         /\ State(on, line, cs).line = line
         /\ State(on, line, cs).calls = cs
BY DEF State, States

\* One byte.
LEMMA AutomatonIs ==
  ASSUME NEW p \in Parms, NEW on \in BOOLEAN, NEW l, NEW cs \in Seq(Call), NEW b
  PROVE  LET line == Append(l, b)
             text == SubSeq(line, 1, Len(line) - Len(Tag(p, on)))
         IN Automaton(p, State(on, l, cs), b) =
              IF IsSuffix(Tag(p, on), line) THEN Hit(p, on, text, cs) ELSE State(on, line, cs)
<1> DEFINE line == Append(l, b)
           text == SubSeq(line, 1, Len(line) - Len(Tag(p, on)))
           st == State(on, l, cs)
<1>1. /\ st.started = on /\ st.line = l /\ st.calls = cs
      /\ \A x : [st EXCEPT !.line = x] = State(on, x, cs)
  BY DEF State
<1>2. /\ START \in Call /\ STOP \in Call
      /\ \A c \in Call : cs \o <<c>> = Append(cs, c)
      /\ cs \o <<>> = cs
  <2>1. START \in Call /\ STOP \in Call
    BY DEF START, STOP, Call, Bytes
  <2> QED BY <2>1, AppendIsConcat, ConcatEmptySeq
<1>3. cs \o <<ITEM(text)>> = Append(cs, ITEM(text))
  OBVIOUS
<1> HIDE DEF text, st
<1>4. Automaton(p, st, b) =
        IF ~IsSuffix(Tag(p, on), line) THEN State(on, line, cs)
        ELSE IF ~on THEN State(On, <<>>, cs \o <<START>>)
        ELSE IF text = <<>> THEN State(On, <<>>, cs \o <<>>)
        ELSE IF text = p.stop_tag THEN State(Off, <<>>, cs \o <<STOP>>)
        ELSE State(On, <<>>, cs \o <<ITEM(text)>>)
  BY <1>1 DEF Automaton, text, State, On, Off
<1> QED BY <1>2, <1>3, <1>4 DEF Hit, st, text

LEMMA AutomatonType ==
  ASSUME NEW p \in Parms, p.item_sep # <<>>, NEW st \in States, NEW b \in Alphabet
  PROVE  Automaton(p, st, b) \in States
<1>1. PICK on \in BOOLEAN, l \in Bytes, cs \in Seq(Call) : st = State(on, l, cs)
  BY StateIs
<1> DEFINE line == Append(l, b)
           text == SubSeq(line, 1, Len(line) - Len(Tag(p, on)))
<1>2. line \in Bytes /\ Len(line) \in Nat /\ <<>> \in Bytes
  BY AppendProperties DEF Bytes
<1>3. Automaton(p, st, b) =
        IF IsSuffix(Tag(p, on), line) THEN Hit(p, on, text, cs) ELSE State(on, line, cs)
  BY <1>1, AutomatonIs
<1> HIDE DEF line
<1>4. text \in Bytes
  <2>1. Len(Tag(p, on)) \in Nat
    BY LookedFor
  <2>2. ASSUME NEW n \in Int, n <= Len(line) PROVE SubSeq(line, 1, n) \in Bytes
    <3>1. \A i \in 1..n : line[i] \in Alphabet
      BY <1>2, <2>2 DEF Bytes
    <3> QED BY <2>2, <3>1, SubSeqProperties DEF Bytes
  <2> QED BY <1>2, <2>1, <2>2
<1>5. START \in Call /\ STOP \in Call /\ ITEM(text) \in Call
  BY <1>2, <1>4 DEF START, STOP, ITEM, Call, Bytes
<1> HIDE DEF text
<1>6. Hit(p, on, text, cs) \in States
  BY <1>2, <1>5, StateType, AppendProperties, OnOff DEF Hit
<1>7. State(on, line, cs) \in States
  BY <1>2, StateType
<1> QED BY <1>3, <1>6, <1>7

LEMMA FeedType ==
  ASSUME NEW p \in Parms, p.item_sep # <<>>, NEW st \in States
  PROVE  \A s \in Bytes : Feed(p, st, s) \in States
<1> DEFINE P == {s \in Bytes : Feed(p, st, s) \in States}
<1>1. <<>> \in P
  BY FeedNone DEF Bytes
<1>2. ASSUME NEW s \in Seq(Alphabet), NEW b \in Alphabet, s \in P PROVE Append(s, b) \in P
  <2>1. Append(s, b) \in Bytes
    BY AppendProperties DEF Bytes
  <2>2. Feed(p, st, Append(s, b)) \in States
    BY <1>2, FeedOne, AutomatonType
  <2> QED BY <2>1, <2>2
<1> HIDE DEF P
<1>3. \A s \in Seq(Alphabet) : s \in P
  BY <1>1, <1>2, AppendInduct
<1> QED BY <1>3 DEF P, Bytes

\* What is fed in two parts.
LEMMA FeedConcat ==
  ASSUME NEW p, NEW st, NEW s \in Bytes
  PROVE  \A t \in Bytes : Feed(p, st, s \o t) = Feed(p, Feed(p, st, s), t)
<1> DEFINE P == {t \in Bytes : Feed(p, st, s \o t) = Feed(p, Feed(p, st, s), t)}
<1>1. <<>> \in P
  <2>1. <<>> \in Bytes /\ s \o <<>> = s
    BY ConcatEmptySeq DEF Bytes
  <2> QED BY <2>1, FeedNone
<1>2. ASSUME NEW t \in Seq(Alphabet), NEW b \in Alphabet, t \in P PROVE Append(t, b) \in P
  <2>1. Append(t, b) \in Bytes /\ s \o t \in Bytes
    BY AppendProperties, ConcatProperties DEF Bytes
  <2>2. s \o Append(t, b) = Append(s \o t, b)
    <3>1. <<b>> \in Seq(Alphabet)
      OBVIOUS
    <3>2. s \o (t \o <<b>>) = (s \o t) \o <<b>>
      BY <3>1, ConcatAssociative DEF Bytes
    <3> QED BY <2>1, <3>2, AppendIsConcat DEF Bytes
  <2>3. Feed(p, st, Append(s \o t, b)) = Automaton(p, Feed(p, st, s \o t), b)
    BY <2>1, FeedOne
  <2>4. Feed(p, Feed(p, st, s), Append(t, b)) = Automaton(p, Feed(p, Feed(p, st, s), t), b)
    BY <1>2, FeedOne
  <2> QED BY <1>2, <2>1, <2>2, <2>3, <2>4
<1> HIDE DEF P
<1>3. \A t \in Seq(Alphabet) : t \in P
  BY <1>1, <1>2, AppendInduct
<1> QED BY <1>3 DEF P, Bytes

-----------------------------------------------------------------------------
\* The front of a sequence.
LEMMA FrontPart ==
  ASSUME NEW S, NEW s \in Seq(S), NEW n \in Nat, n <= Len(s)
  PROVE  /\ SubSeq(s, 1, n) \in Seq(S) /\ Len(SubSeq(s, 1, n)) = n
         /\ \A i \in 1..n : SubSeq(s, 1, n)[i] = s[i]
<1>1. \A i \in 1..n : s[i] \in S
  OBVIOUS
<1>2. /\ SubSeq(s, 1, n) \in Seq(S)
      /\ Len(SubSeq(s, 1, n)) = IF 1 <= n THEN n - 1 + 1 ELSE 0
      /\ \A i \in 1..(n - 1 + 1) : SubSeq(s, 1, n)[i] = s[1 + i - 1]
  BY <1>1, SubSeqProperties
<1> QED BY <1>2

\* Suffixes and occurrences of a tag, byte by byte.
LEMMA SuffixIs ==
  ASSUME NEW S, NEW s \in Seq(S), NEW t \in Seq(S)
  PROVE  IsSuffix(s, t) <=> /\ Len(s) <= Len(t)
                            /\ \A i \in 1..Len(s) : s[i] = t[Len(t) - Len(s) + i]
<1> DEFINE m == Len(s)
           n == Len(t)
           rs == Reverse(s)
           rt == Reverse(t)
<1>1. m \in Nat /\ n \in Nat /\ s \in [1..m -> S] /\ t \in [1..n -> S]
  OBVIOUS
<1>2. /\ rs \in Seq(S) /\ Len(rs) = m /\ \A i \in 1..m : rs[i] = s[m - i + 1]
      /\ rt \in Seq(S) /\ Len(rt) = n /\ \A i \in 1..n : rt[i] = t[n - i + 1]
  <2>1. \A i \in 1..m : m - i + 1 \in 1..m
    BY <1>1
  <2>2. \A i \in 1..n : n - i + 1 \in 1..n
    BY <1>1
  <2>3. rs \in [1..m -> S] /\ rt \in [1..n -> S]
    BY <1>1, <2>1, <2>2 DEF Reverse
  <2> QED BY <1>1, <2>3 DEF Reverse
<1>3. IsSuffix(s, t) <=> m <= n /\ SubSeq(rs, 1, m) = SubSeq(rt, 1, m)
  BY <1>2 DEF IsSuffix, IsPrefix
<1> HIDE DEF m, n, rs, rt
<1> SUFFICES ASSUME m <= n
             PROVE  SubSeq(rs, 1, m) = SubSeq(rt, 1, m) <=> \A i \in 1..m : s[i] = t[n - m + i]
  BY <1>3 DEF m, n
<1>4. SubSeq(rs, 1, m) = SubSeq(rt, 1, m) <=> \A k \in 1..m : s[m - k + 1] = t[n - k + 1]
  <2>1. \A i \in 1..m : i \in 1..n
    BY <1>1
  <2>2. /\ SubSeq(rs, 1, m) \in Seq(S) /\ Len(SubSeq(rs, 1, m)) = m
        /\ \A i \in 1..m : SubSeq(rs, 1, m)[i] = s[m - i + 1]
    <3>1. m <= Len(rs)
      BY <1>1, <1>2
    <3>2. /\ SubSeq(rs, 1, m) \in Seq(S) /\ Len(SubSeq(rs, 1, m)) = m
          /\ \A i \in 1..m : SubSeq(rs, 1, m)[i] = rs[i]
      BY <1>1, <1>2, <3>1, FrontPart
    <3> QED BY <1>2, <3>2
  <2>3. /\ SubSeq(rt, 1, m) \in Seq(S) /\ Len(SubSeq(rt, 1, m)) = m
        /\ \A i \in 1..m : SubSeq(rt, 1, m)[i] = t[n - i + 1]
    <3>2. /\ SubSeq(rt, 1, m) \in Seq(S) /\ Len(SubSeq(rt, 1, m)) = m
          /\ \A i \in 1..m : SubSeq(rt, 1, m)[i] = rt[i]
      BY <1>1, <1>2, FrontPart
    <3> QED BY <1>2, <2>1, <3>2
  <2>4. SubSeq(rs, 1, m) = SubSeq(rt, 1, m) => \A k \in 1..m : s[m - k + 1] = t[n - k + 1]
    BY <2>2, <2>3
  <2>5. ASSUME \A k \in 1..m : s[m - k + 1] = t[n - k + 1] PROVE SubSeq(rs, 1, m) = SubSeq(rt, 1, m)
    BY <2>2, <2>3, <2>5, SeqEqual
  <2> QED BY <2>4, <2>5
<1>5. ASSUME \A k \in 1..m : s[m - k + 1] = t[n - k + 1], NEW i \in 1..m PROVE s[i] = t[n - m + i]
  <2>1. m - i + 1 \in 1..m /\ m - (m - i + 1) + 1 = i /\ n - (m - i + 1) + 1 = n - m + i
    BY <1>1
  <2> QED BY <1>5, <2>1
<1>6. ASSUME \A i \in 1..m : s[i] = t[n - m + i], NEW k \in 1..m PROVE s[m - k + 1] = t[n - k + 1]
  <2>1. m - k + 1 \in 1..m /\ n - m + (m - k + 1) = n - k + 1
    BY <1>1
  <2> QED BY <1>6, <2>1
<1> QED BY <1>4, <1>5, <1>6

LEMMA OccursIs ==
  ASSUME NEW s \in Bytes, NEW tag \in Bytes, tag # <<>>, NEW i \in Nat \ {0},
         i + Len(tag) - 1 <= Len(s)
  PROVE  OccursAt(s, tag, i) <=> \A k \in 1..Len(tag) : s[i + k - 1] = tag[k]
<1> DEFINE n == Len(tag)
           part == SubSeq(s, i, i + n - 1)
<1>1. n \in Nat /\ Len(s) \in Nat /\ s \in Seq(Alphabet) /\ tag \in Seq(Alphabet)
  BY DEF Bytes
<1>2. i + n - 1 \in Int /\ (i + n - 1) - i + 1 = n
  BY <1>1
<1>3. \A k \in i..(i + n - 1) : s[k] \in Alphabet
  BY <1>1
<1>4. /\ part \in Seq(Alphabet) /\ Len(part) = IF i <= i + n - 1 THEN n ELSE 0
      /\ \A k \in 1..n : part[k] = s[i + k - 1]
  BY <1>2, <1>3, SubSeqProperties
<1>5. Len(part) = n
  BY <1>1, <1>4
<1>6. OccursAt(s, tag, i) <=> part = tag
  BY DEF OccursAt
<1> HIDE DEF part
<1>7. part = tag <=> \A k \in 1..n : part[k] = tag[k]
  BY <1>1, <1>4, <1>5, SeqEqual
<1> QED BY <1>4, <1>6, <1>7

\* A string with a tag at its end, or at the end of one of its beginnings.
LEMMA EndsWith ==
  ASSUME NEW s \in Bytes, NEW tag \in Bytes, tag # <<>>, NEW n \in 0..Len(s)
  PROVE  IsSuffix(tag, SubSeq(s, 1, n)) <=> n - Len(tag) + 1 \in Places(s, tag)
<1> DEFINE t == SubSeq(s, 1, n)
           m == Len(tag)
<1>1. n \in Nat /\ m \in Nat \ {0} /\ Len(s) \in Nat
  BY EmptySeq DEF Bytes
<1>2. t \in Bytes /\ Len(t) = n /\ \A i \in 1..n : t[i] = s[i]
  <2>1. s \in Seq(Alphabet) /\ n <= Len(s)
    BY <1>1 DEF Bytes
  <2> QED BY <1>1, <2>1, FrontPart DEF Bytes
<1> HIDE DEF t
<1>3. IsSuffix(tag, t) <=> m <= n /\ \A i \in 1..m : tag[i] = t[n - m + i]
  BY <1>2, SuffixIs DEF Bytes
<1>4. n - m + 1 \in Places(s, tag) <=> m <= n /\ OccursAt(s, tag, n - m + 1)
  BY <1>1 DEF Places
<1> HIDE DEF m
<1>5. ASSUME m <= n
      PROVE  OccursAt(s, tag, n - m + 1) <=> \A i \in 1..m : tag[i] = t[n - m + i]
  <2> DEFINE j == n - m + 1
  <2>1. j \in Nat \ {0} /\ j + m - 1 <= Len(s)
    BY <1>1, <1>5
  <2>2. \A i \in 1..m : j + i - 1 = n - m + i /\ n - m + i \in 1..n
    BY <1>1, <1>5
  <2>3. OccursAt(s, tag, j) <=> \A k \in 1..m : s[j + k - 1] = tag[k]
    <3> HIDE DEF j
    <3> QED BY <2>1, OccursIs DEF m
  <2> HIDE DEF j
  <2>4. \A i \in 1..m : s[j + i - 1] = t[n - m + i]
    BY <1>2, <2>2
  <2>5. OccursAt(s, tag, j) <=> \A i \in 1..m : tag[i] = t[n - m + i]
    BY <2>3, <2>4
  <2> QED BY <2>5 DEF j
<1> QED BY <1>3, <1>4, <1>5 DEF t, m

\* The beginnings of a string, one byte after the other.
LEMMA Beginning ==
  ASSUME NEW s \in Bytes
  PROVE  /\ SubSeq(s, 1, 0) = <<>> /\ SubSeq(s, 1, Len(s)) = s
         /\ \A n \in 0..Len(s) : SubSeq(s, 1, n) \in Bytes /\ Len(SubSeq(s, 1, n)) = n
         /\ \A n \in 0..Len(s) : n # Len(s) =>
              /\ s[n + 1] \in Alphabet
              /\ SubSeq(s, 1, n + 1) = Append(SubSeq(s, 1, n), s[n + 1])
<1>1. Len(s) \in Nat /\ s \in Seq(Alphabet)
  BY DEF Bytes
<1>2. ASSUME NEW n \in 0..Len(s) PROVE SubSeq(s, 1, n) \in Bytes /\ Len(SubSeq(s, 1, n)) = n
  <2>1. SubSeq(s, 1, n) \in Bytes /\ Len(SubSeq(s, 1, n)) = IF 1 <= n THEN n - 1 + 1 ELSE 0
    BY <1>1, Part
  <2> QED BY <2>1
<1>3. ASSUME NEW n \in 0..Len(s), n # Len(s)
      PROVE  /\ s[n + 1] \in Alphabet
             /\ SubSeq(s, 1, n + 1) = Append(SubSeq(s, 1, n), s[n + 1])
  <2>1. 1 \in 1..Len(s) /\ n + 1 \in 1..Len(s) /\ n + 1 - 1 = n
    BY <1>1, <1>3
  <2>2. s[n + 1] \in Alphabet
    BY <1>1, <2>1
  <2>3. SubSeq(s, 1, n + 1) = SubSeq(s, 1, n) \o <<s[n + 1]>>
    BY <1>1, <2>1, SubSeqRecursiveSecond
  <2> QED BY <1>2, <2>2, <2>3, AppendIsConcat DEF Bytes
<1>4. SubSeq(s, 1, 0) = <<>> /\ SubSeq(s, 1, Len(s)) = s
  BY <1>1, SubSeqEmpty, SubSeqFull
<1> QED BY <1>2, <1>3, <1>4

\* As long as the tag is not there the automaton only makes its line longer.
LEMMA Unhit ==
  ASSUME NEW p \in Parms, NEW on \in BOOLEAN, NEW cs \in Seq(Call), NEW s \in Bytes,
         NEW m \in 0..Len(s), \A n \in 1..m : ~IsSuffix(Tag(p, on), SubSeq(s, 1, n))
  PROVE  Feed(p, State(on, <<>>, cs), SubSeq(s, 1, m)) = State(on, SubSeq(s, 1, m), cs)
<1> DEFINE st == State(on, <<>>, cs)
           P == {n \in Nat : n <= m => Feed(p, st, SubSeq(s, 1, n)) = State(on, SubSeq(s, 1, n), cs)}
<1>0. Len(s) \in Nat /\ m \in Nat
  BY DEF Bytes
<1>1. 0 \in P
  BY FeedNone, Beginning
<1>2. ASSUME NEW n \in Nat, n \in P PROVE n + 1 \in P
  <2> SUFFICES ASSUME n + 1 <= m
               PROVE  Feed(p, st, SubSeq(s, 1, n + 1)) = State(on, SubSeq(s, 1, n + 1), cs)
    OBVIOUS
  <2>1. n <= m /\ n \in 0..Len(s) /\ n # Len(s) /\ n + 1 \in 1..m
    BY <1>0
  <2>2. /\ SubSeq(s, 1, n) \in Bytes /\ s[n + 1] \in Alphabet
        /\ SubSeq(s, 1, n + 1) = Append(SubSeq(s, 1, n), s[n + 1])
    BY <2>1, Beginning
  <2>3. Feed(p, st, SubSeq(s, 1, n)) = State(on, SubSeq(s, 1, n), cs)
    BY <1>2, <2>1
  <2>4. Feed(p, st, Append(SubSeq(s, 1, n), s[n + 1])) = Automaton(p, Feed(p, st, SubSeq(s, 1, n)), s[n + 1])
    BY <2>2, FeedOne
  <2>5. ~IsSuffix(Tag(p, on), Append(SubSeq(s, 1, n), s[n + 1]))
    BY <2>1, <2>2
  <2>6. Automaton(p, State(on, SubSeq(s, 1, n), cs), s[n + 1]) = State(on, Append(SubSeq(s, 1, n), s[n + 1]), cs)
    BY <2>5, AutomatonIs
  <2> QED BY <2>2, <2>3, <2>4, <2>6
<1> HIDE DEF P, st
<1>3. m \in P
  BY <1>0, <1>1, <1>2, Induct
<1> QED BY <1>3 DEF P, st

LEMMA FedWithoutTag ==
  ASSUME NEW p \in Parms, p.item_sep # <<>>, NEW on \in BOOLEAN, NEW cs \in Seq(Call),
         NEW s \in Bytes, FindFirst(s, Tag(p, on)) = 0
  PROVE  Feed(p, State(on, <<>>, cs), s) = State(on, s, cs)
<1>1. Tag(p, on) \in Bytes /\ Tag(p, on) # <<>> /\ Len(s) \in Nat
  BY LookedFor DEF Bytes
<1>2. Places(s, Tag(p, on)) = {}
  BY <1>1, Found
<1>3. \A n \in 1..Len(s) : ~IsSuffix(Tag(p, on), SubSeq(s, 1, n))
  BY <1>1, <1>2, EndsWith
<1>4. Len(s) \in 0..Len(s)
  BY <1>1
<1>5. Feed(p, State(on, <<>>, cs), SubSeq(s, 1, Len(s))) = State(on, SubSeq(s, 1, Len(s)), cs)
  BY <1>3, <1>4, Unhit
<1> QED BY <1>5, Beginning

\* Up to the first tag, the line; with it, a hit; and then what is behind it.
LEMMA FedTag ==
  ASSUME NEW p \in Parms, p.item_sep # <<>>, NEW on \in BOOLEAN, NEW cs \in Seq(Call),
         NEW s \in Bytes, FindFirst(s, Tag(p, on)) # 0
  PROVE  LET i == FindFirst(s, Tag(p, on)) IN
         Feed(p, State(on, <<>>, cs), s)
           = Feed(p, Hit(p, on, Before(s, i), cs), Behind(s, i, Tag(p, on)))
<1> DEFINE tag == Tag(p, on)
           i == FindFirst(s, tag)
           e == i + Len(tag) - 1
           st == State(on, <<>>, cs)
<1>1. tag \in Bytes /\ tag # <<>> /\ Len(tag) \in Nat \ {0} /\ Len(s) \in Nat /\ s \in Seq(Alphabet)
  BY LookedFor DEF Bytes
<1>2. i \in Places(s, tag) /\ \A k \in Places(s, tag) : i <= k
  <2>1. Places(s, tag) # {} /\ Places(s, tag) \subseteq Nat
    BY <1>1 DEF FindFirst, Places
  <2>2. i = Min(Places(s, tag))
    BY <2>1 DEF FindFirst
  <2> QED BY <2>1, <2>2, FirstPlace
<1> HIDE DEF tag, i
<1>3. i \in Nat \ {0} /\ e \in Nat \ {0} /\ e <= Len(s) /\ e - 1 \in 0..Len(s) /\ e - 1 # Len(s)
      /\ e - Len(tag) + 1 = i /\ e - Len(tag) = i - 1 /\ i - 1 \in Nat /\ i - 1 <= e
  <2>1. i \in 1..(Len(s) - Len(tag) + 1)
    BY <1>2 DEF Places
  <2>2. Len(s) \in Nat /\ Len(tag) \in Nat \ {0}
    BY <1>1
  <2>3. i \in Nat \ {0} /\ i <= Len(s) - Len(tag) + 1
    BY <2>1, <2>2
  <2> QED BY ONLY <2>2, <2>3 DEF e
<1>4. \A n \in 1..(e - 1) : ~IsSuffix(tag, SubSeq(s, 1, n))
  <2> SUFFICES ASSUME NEW n \in 1..(e - 1), n - Len(tag) + 1 \in Places(s, tag) PROVE FALSE
    BY <1>1, <1>3, EndsWith
  <2>1. i <= n - Len(tag) + 1
    BY <1>2
  <2> QED BY <1>1, <1>3, <2>1
<1>5. Feed(p, st, SubSeq(s, 1, e - 1)) = State(on, SubSeq(s, 1, e - 1), cs)
  BY <1>3, <1>4, Unhit DEF tag
<1> HIDE DEF e
<1>6. /\ SubSeq(s, 1, e - 1) \in Bytes /\ s[e] \in Alphabet
      /\ SubSeq(s, 1, e) = Append(SubSeq(s, 1, e - 1), s[e])
      /\ SubSeq(s, 1, e) \in Bytes /\ Len(SubSeq(s, 1, e)) = e
  <2>1. e - 1 + 1 = e /\ e \in 0..Len(s)
    BY <1>1, <1>3
  <2>2. SubSeq(s, 1, e) \in Bytes /\ Len(SubSeq(s, 1, e)) = e
    BY <2>1, Beginning
  <2>3. /\ SubSeq(s, 1, e - 1) \in Bytes /\ s[e - 1 + 1] \in Alphabet
        /\ SubSeq(s, 1, e - 1 + 1) = Append(SubSeq(s, 1, e - 1), s[e - 1 + 1])
    BY <1>3, Beginning
  <2> QED BY <2>1, <2>2, <2>3
<1>7. IsSuffix(tag, SubSeq(s, 1, e))
  <2>1. e \in 0..Len(s)
    BY <1>1, <1>3
  <2> QED BY <1>1, <1>2, <1>3, <2>1, EndsWith
<1>8. SubSeq(SubSeq(s, 1, e), 1, e - Len(tag)) = Before(s, i)
  <2>1. /\ SubSeq(s, 1, e) \in Seq(Alphabet) /\ Len(SubSeq(s, 1, e)) = e
        /\ \A k \in 1..e : SubSeq(s, 1, e)[k] = s[k]
    <3>1. s \in Seq(Alphabet) /\ e \in Nat /\ e <= Len(s)
      BY <1>1, <1>3
    <3> QED BY ONLY <3>1, FrontPart
  <2>2. /\ SubSeq(SubSeq(s, 1, e), 1, i - 1) \in Seq(Alphabet)
        /\ Len(SubSeq(SubSeq(s, 1, e), 1, i - 1)) = i - 1
        /\ \A k \in 1..(i - 1) : SubSeq(SubSeq(s, 1, e), 1, i - 1)[k] = SubSeq(s, 1, e)[k]
    <3> DEFINE front == SubSeq(s, 1, e)
    <3>1. front \in Seq(Alphabet) /\ i - 1 \in Nat /\ i - 1 <= Len(front)
      BY <1>3, <2>1
    <3> HIDE DEF front
    <3>2. /\ SubSeq(front, 1, i - 1) \in Seq(Alphabet) /\ Len(SubSeq(front, 1, i - 1)) = i - 1
          /\ \A k \in 1..(i - 1) : SubSeq(front, 1, i - 1)[k] = front[k]
      BY ONLY <3>1, FrontPart
    <3> QED BY ONLY <3>2 DEF front
  <2>3. /\ SubSeq(s, 1, i - 1) \in Seq(Alphabet) /\ Len(SubSeq(s, 1, i - 1)) = i - 1
        /\ \A k \in 1..(i - 1) : SubSeq(s, 1, i - 1)[k] = s[k]
    <3>1. s \in Seq(Alphabet) /\ i - 1 \in Nat /\ i - 1 <= Len(s)
      BY <1>1, <1>3
    <3> QED BY ONLY <3>1, FrontPart
  <2>4. \A k \in 1..(i - 1) : k \in 1..e
    BY <1>3
  <2>5. SubSeq(SubSeq(s, 1, e), 1, i - 1) = SubSeq(s, 1, i - 1)
    BY <2>1, <2>2, <2>3, <2>4, SeqEqual
  <2> QED BY <1>3, <2>5 DEF Before
<1>9. Feed(p, st, SubSeq(s, 1, e)) = Hit(p, on, Before(s, i), cs)
  <2> DEFINE l == SubSeq(s, 1, e - 1)
  <2>1. Feed(p, st, Append(l, s[e])) = Automaton(p, Feed(p, st, l), s[e])
    BY <1>6, FeedOne
  <2>2. Automaton(p, State(on, l, cs), s[e]) =
          Hit(p, on, SubSeq(Append(l, s[e]), 1, Len(Append(l, s[e])) - Len(tag)), cs)
    <3> HIDE DEF l
    <3>1. IsSuffix(Tag(p, on), Append(l, s[e]))
      BY <1>6, <1>7 DEF l, tag
    <3> QED BY <3>1, AutomatonIs DEF tag
  <2> QED BY <1>5, <1>6, <1>8, <2>1, <2>2
<1>10. s = SubSeq(s, 1, e) \o Behind(s, i, tag) /\ Behind(s, i, tag) \in Bytes
  <2>1. i + Len(tag) = e + 1 /\ i + Len(tag) - 1 <= Len(s)
    BY <1>1, <1>3
  <2>2. 1 \in 1..(Len(s) + 1) /\ e \in (1 - 1)..Len(s) /\ Len(s) \in e..Len(s)
    BY <1>1, <1>3
  <2>3. SubSeq(s, 1, e) \o SubSeq(s, e + 1, Len(s)) = SubSeq(s, 1, Len(s))
    BY <1>1, <2>2, ConcatAdjacentSubSeq
  <2>4. Behind(s, i, tag) \in Bytes
    BY <1>1, <1>3, <2>1, BeforeAndBehind
  <2> QED BY <2>1, <2>3, <2>4, Beginning DEF Behind
<1>11. Feed(p, st, SubSeq(s, 1, e) \o Behind(s, i, tag))
         = Feed(p, Feed(p, st, SubSeq(s, 1, e)), Behind(s, i, tag))
  BY <1>6, <1>10, FeedConcat
<1> QED BY <1>9, <1>10, <1>11 DEF i, tag

\* The callbacks of before do not matter.
LEMMA AutomatonShifts ==
  ASSUME NEW p \in Parms, p.item_sep # <<>>, NEW st \in States, NEW cs \in Seq(Call),
         NEW b \in Alphabet
  PROVE  LET q == Automaton(p, st, b) IN
         Automaton(p, State(st.started, st.line, cs \o st.calls), b)
           = State(q.started, q.line, cs \o q.calls)
<1>1. PICK on \in BOOLEAN, l \in Bytes, ds \in Seq(Call) : st = State(on, l, ds)
  BY StateIs
<1>2. st.started = on /\ st.line = l /\ st.calls = ds /\ cs \o ds \in Seq(Call)
  BY <1>1, StateType, ConcatProperties
<1> DEFINE line == Append(l, b)
           text == SubSeq(line, 1, Len(line) - Len(Tag(p, on)))
<1>3. ASSUME NEW es \in Seq(Call)
      PROVE  Automaton(p, State(on, l, es), b) =
               IF IsSuffix(Tag(p, on), line) THEN Hit(p, on, text, es) ELSE State(on, line, es)
  BY AutomatonIs
<1> HIDE DEF text, line
<1>4. \A c : Append(cs \o ds, c) = cs \o Append(ds, c)
  OBVIOUS
<1>5. \A on2, l2, ds2 : /\ State(on2, l2, ds2).started = on2 /\ State(on2, l2, ds2).line = l2
                        /\ State(on2, l2, ds2).calls = ds2
  BY DEF State
<1>6. LET q == Hit(p, on, text, ds) IN Hit(p, on, text, cs \o ds) = State(q.started, q.line, cs \o q.calls)
  <2>1. CASE ~on
    BY <1>4, <2>1 DEF Hit, State
  <2>2. CASE on /\ text = <<>>
    BY <2>2 DEF Hit, State
  <2>3. CASE on /\ text # <<>> /\ text = p.stop_tag
    BY <1>4, <2>3 DEF Hit, State
  <2>4. CASE on /\ text # <<>> /\ text # p.stop_tag
    BY <1>4, <2>4 DEF Hit, State
  <2> QED BY <2>1, <2>2, <2>3, <2>4
<1>7. /\ Automaton(p, State(on, l, ds), b) =
           IF IsSuffix(Tag(p, on), line) THEN Hit(p, on, text, ds) ELSE State(on, line, ds)
      /\ Automaton(p, State(on, l, cs \o ds), b) =
           IF IsSuffix(Tag(p, on), line) THEN Hit(p, on, text, cs \o ds) ELSE State(on, line, cs \o ds)
  BY <1>2, <1>3
<1> QED BY <1>1, <1>2, <1>5, <1>6, <1>7

LEMMA FeedShifts ==
  ASSUME NEW p \in Parms, p.item_sep # <<>>, NEW on \in BOOLEAN, NEW cs \in Seq(Call)
  PROVE  \A s \in Bytes : LET q == Feed(p, State(on, <<>>, <<>>), s) IN
         Feed(p, State(on, <<>>, cs), s) = State(q.started, q.line, cs \o q.calls)
<1> DEFINE q(s) == Feed(p, State(on, <<>>, <<>>), s)
           P == {s \in Bytes : Feed(p, State(on, <<>>, cs), s)
                                 = State(q(s).started, q(s).line, cs \o q(s).calls)}
<1>0. /\ <<>> \in Bytes /\ <<>> \in Seq(Call) /\ State(on, <<>>, <<>>) \in States
      /\ State(on, <<>>, <<>>).started = on /\ State(on, <<>>, <<>>).line = <<>>
      /\ State(on, <<>>, <<>>).calls = <<>>
  <2>1. <<>> \in Bytes /\ <<>> \in Seq(Call)
    BY DEF Bytes
  <2> QED BY <2>1 DEF State, States
<1>1. <<>> \in P
  <2>1. q(<<>>) = State(on, <<>>, <<>>) /\ Feed(p, State(on, <<>>, cs), <<>>) = State(on, <<>>, cs)
    BY FeedNone
  <2>2. cs \o <<>> = cs
    BY ConcatEmptySeq
  <2> HIDE DEF q
  <2> QED BY <1>0, <2>1, <2>2
<1>2. ASSUME NEW s \in Seq(Alphabet), NEW b \in Alphabet, s \in P PROVE Append(s, b) \in P
  <2>1. Append(s, b) \in Bytes /\ s \in Bytes
    BY AppendProperties DEF Bytes
  <2>2. q(s) \in States
    BY <1>0, <2>1, FeedType
  <2>3. q(Append(s, b)) = Automaton(p, q(s), b)
    BY <2>1, FeedOne
  <2>4. Feed(p, State(on, <<>>, cs), Append(s, b)) = Automaton(p, Feed(p, State(on, <<>>, cs), s), b)
    BY <2>1, FeedOne
  <2>5. Feed(p, State(on, <<>>, cs), s) = State(q(s).started, q(s).line, cs \o q(s).calls)
    BY <1>2
  <2> HIDE DEF q
  <2>6. Automaton(p, State(q(s).started, q(s).line, cs \o q(s).calls), b)
          = State(Automaton(p, q(s), b).started, Automaton(p, q(s), b).line, cs \o Automaton(p, q(s), b).calls)
    BY <2>2, AutomatonShifts
  <2> QED BY <2>1, <2>3, <2>4, <2>5, <2>6
<1> HIDE DEF P
<1>3. \A s \in Seq(Alphabet) : s \in P
  BY <1>1, <1>2, AppendInduct
<1> QED BY <1>3 DEF P, Bytes

\* What is behind a string decides whether it ends with a tag, if it is long
\* enough.
LEMMA SuffixBehind ==
  ASSUME NEW u \in Bytes, NEW t \in Bytes, NEW tag \in Bytes, Len(tag) <= Len(t)
  PROVE  IsSuffix(tag, u \o t) <=> IsSuffix(tag, t)
<1>1. /\ Len(u) \in Nat /\ Len(t) \in Nat /\ Len(tag) \in Nat
      /\ u \o t \in Seq(Alphabet) /\ Len(u \o t) = Len(u) + Len(t)
      /\ \A i \in 1..(Len(u) + Len(t)) : (u \o t)[i] = IF i <= Len(u) THEN u[i] ELSE t[i - Len(u)]
  BY ConcatProperties DEF Bytes
<1>2. \A i \in 1..Len(tag) : (u \o t)[Len(u \o t) - Len(tag) + i] = t[Len(t) - Len(tag) + i]
  <2> SUFFICES ASSUME NEW i \in 1..Len(tag)
               PROVE  (u \o t)[Len(u \o t) - Len(tag) + i] = t[Len(t) - Len(tag) + i]
    OBVIOUS
  <2> DEFINE k == Len(u) + Len(t) - Len(tag) + i
  <2>1. k \in 1..(Len(u) + Len(t)) /\ ~(k <= Len(u)) /\ k - Len(u) = Len(t) - Len(tag) + i
        /\ k = Len(u \o t) - Len(tag) + i
    BY <1>1
  <2> HIDE DEF k
  <2> QED BY <1>1, <2>1
<1>3. IsSuffix(tag, u \o t) <=> /\ Len(tag) <= Len(u \o t)
                                /\ \A i \in 1..Len(tag) : tag[i] = (u \o t)[Len(u \o t) - Len(tag) + i]
  BY <1>1, SuffixIs DEF Bytes
<1>4. IsSuffix(tag, t) <=> /\ Len(tag) <= Len(t)
                           /\ \A i \in 1..Len(tag) : tag[i] = t[Len(t) - Len(tag) + i]
  BY SuffixIs DEF Bytes
<1>5. Len(tag) <= Len(u \o t)
  BY <1>1
<1>6. (\A i \in 1..Len(tag) : tag[i] = (u \o t)[Len(u \o t) - Len(tag) + i])
        <=> (\A i \in 1..Len(tag) : tag[i] = t[Len(t) - Len(tag) + i])
  BY <1>2
<1> QED BY <1>3, <1>4, <1>5, <1>6

(***************************************************************************)
(* Two states of the automaton are alike if they differ at most in the     *)
(* beginning of what was read between two receipts: the second may lack    *)
(* what is too far from its end to be part of a start tag.                 *)
(***************************************************************************)
Alike(p, r, q) ==
  /\ r.started = q.started /\ r.calls = q.calls
  /\ \E u \in Bytes : /\ r.line = u \o q.line
                      /\ u # <<>> => ~r.started /\ Len(q.line) >= Len(StartOf(p)) - 1

LEMMA AlikeItself ==
  ASSUME NEW p, NEW st \in States
  PROVE  Alike(p, st, st)
<1>1. <<>> \in Bytes /\ <<>> \o st.line = st.line
  BY ConcatEmptySeq DEF States, Bytes
<1> QED BY <1>1 DEF Alike

LEMMA AutomatonAlike ==
  ASSUME NEW p \in Parms, p.item_sep # <<>>, NEW r \in States, NEW q \in States, Alike(p, r, q),
         NEW b \in Alphabet
  PROVE  Alike(p, Automaton(p, r, b), Automaton(p, q, b))
<1>1. PICK on \in BOOLEAN, l \in Bytes, cs \in Seq(Call) : q = State(on, l, cs)
  BY StateIs
<1>2. PICK u \in Bytes : /\ r = State(on, u \o l, cs)
                         /\ u # <<>> => ~on /\ Len(l) >= Len(StartOf(p)) - 1
  <2>1. q.started = on /\ q.line = l /\ q.calls = cs
    BY <1>1 DEF State
  <2>2. r = State(r.started, r.line, r.calls)
    BY StateIs
  <2>3. PICK u \in Bytes : /\ r.line = u \o q.line
                           /\ u # <<>> => ~r.started /\ Len(q.line) >= Len(StartOf(p)) - 1
    BY DEF Alike
  <2>4. r.started = on /\ r.calls = cs /\ r.line = u \o l
    BY <2>1, <2>3 DEF Alike
  <2> QED BY <2>1, <2>2, <2>3, <2>4
<1>3. CASE u = <<>>
  <2>1. r = q
    BY <1>1, <1>2, <1>3, ConcatEmptySeq DEF Bytes
  <2>2. Automaton(p, q, b) \in States
    BY AutomatonType
  <2> QED BY <2>1, <2>2, AlikeItself
<1>4. CASE u # <<>>
  <2> DEFINE tag == Tag(p, on)
             line == Append(l, b)
             long == Append(u \o l, b)
  <2>0. ~on /\ tag = StartOf(p)
    BY <1>2, <1>4 DEF Tag
  <2>1. Len(l) >= Len(tag) - 1 /\ tag \in Bytes /\ Len(tag) \in Nat /\ Len(l) \in Nat
    BY <1>2, <1>4, <2>0, LookedFor DEF Bytes
  <2>2. line \in Bytes /\ Len(line) = Len(l) + 1 /\ u \o l \in Bytes
    BY AppendProperties, ConcatProperties DEF Bytes
  <2>3. long = u \o line
    <3>1. <<b>> \in Seq(Alphabet) /\ l \in Seq(Alphabet) /\ u \in Seq(Alphabet)
      BY DEF Bytes
    <3>2. (u \o l) \o <<b>> = u \o (l \o <<b>>)
      BY <3>1, ConcatAssociative
    <3> QED BY <2>2, <3>1, <3>2, AppendIsConcat DEF Bytes
  <2>4. Len(line) >= Len(tag)
    BY <2>1, <2>2
  <2>5. \A s \in Bytes : Automaton(p, State(on, s, cs), b) =
          IF IsSuffix(tag, Append(s, b)) THEN State(On, <<>>, Append(cs, START))
                                         ELSE State(on, Append(s, b), cs)
    <3> SUFFICES ASSUME NEW s \in Bytes
                 PROVE  Automaton(p, State(on, s, cs), b) =
                          IF IsSuffix(tag, Append(s, b)) THEN State(On, <<>>, Append(cs, START))
                                                         ELSE State(on, Append(s, b), cs)
      OBVIOUS
    <3>1. Hit(p, on, SubSeq(Append(s, b), 1, Len(Append(s, b)) - Len(tag)), cs)
            = State(On, <<>>, Append(cs, START))
      BY <2>0 DEF Hit
    <3> QED BY <3>1, AutomatonIs DEF tag
  <2> HIDE DEF line, long, tag
  <2>6. IsSuffix(tag, long) <=> IsSuffix(tag, line)
    BY <2>1, <2>2, <2>3, <2>4, SuffixBehind
  <2>7. CASE IsSuffix(tag, line)
    <3>1. Automaton(p, r, b) = Automaton(p, q, b)
      BY <1>1, <1>2, <2>2, <2>5, <2>6, <2>7 DEF line, long
    <3>2. Automaton(p, q, b) \in States
      BY AutomatonType
    <3> QED BY <3>1, <3>2, AlikeItself
  <2>8. CASE ~IsSuffix(tag, line)
    <3>1. Automaton(p, r, b) = State(on, long, cs) /\ Automaton(p, q, b) = State(on, line, cs)
      BY <1>1, <1>2, <2>2, <2>5, <2>6, <2>8 DEF line, long
    <3>2. /\ State(on, long, cs).started = on /\ State(on, long, cs).line = long
          /\ State(on, line, cs).started = on /\ State(on, line, cs).line = line
          /\ State(on, long, cs).calls = State(on, line, cs).calls
      BY DEF State
    <3>3. Len(line) >= Len(StartOf(p)) - 1
      BY <2>0, <2>1, <2>2
    <3> QED BY <2>0, <2>3, <3>1, <3>2, <3>3 DEF Alike
  <2> QED BY <2>7, <2>8
<1> QED BY <1>3, <1>4

\* States that are alike stay so.
LEMMA FeedAlike ==
  ASSUME NEW p \in Parms, p.item_sep # <<>>, NEW r \in States, NEW q \in States, Alike(p, r, q)
  PROVE  \A s \in Bytes : Alike(p, Feed(p, r, s), Feed(p, q, s))
<1> DEFINE P == {s \in Bytes : Alike(p, Feed(p, r, s), Feed(p, q, s))}
<1>1. <<>> \in P
  BY FeedNone DEF Bytes
<1>2. ASSUME NEW s \in Seq(Alphabet), NEW b \in Alphabet, s \in P PROVE Append(s, b) \in P
  <2>1. Append(s, b) \in Bytes /\ s \in Bytes
    BY AppendProperties DEF Bytes
  <2>2. /\ Feed(p, r, Append(s, b)) = Automaton(p, Feed(p, r, s), b)
        /\ Feed(p, q, Append(s, b)) = Automaton(p, Feed(p, q, s), b)
    BY <2>1, FeedOne
  <2>3. Feed(p, r, s) \in States /\ Feed(p, q, s) \in States
    BY <2>1, FeedType
  <2>4. Alike(p, Automaton(p, Feed(p, r, s), b), Automaton(p, Feed(p, q, s), b))
    BY <1>2, <2>3, AutomatonAlike
  <2> QED BY <2>1, <2>2, <2>4
<1> HIDE DEF P
<1>3. \A s \in Seq(Alphabet) : s \in P
  BY <1>1, <1>2, AppendInduct
<1> QED BY <1>3 DEF P, Bytes

\* Between two receipts, what is read without a callback is the line.
LEMMA QuietOff ==
  ASSUME NEW p \in Parms, p.item_sep # <<>>, NEW s \in Bytes,
         Feed(p, State(Off, <<>>, <<>>), s).calls = <<>>
  PROVE  Feed(p, State(Off, <<>>, <<>>), s).line = s
<1> DEFINE i == FindFirst(s, Tag(p, Off))
           rest == Behind(s, i, Tag(p, Off))
<1>0. <<>> \in Seq(Call) /\ Tag(p, Off) \in Bytes
  BY LookedFor, OnOff
<1>1. CASE i = 0
  <2>1. Feed(p, State(Off, <<>>, <<>>), s) = State(Off, s, <<>>)
    BY <1>0, <1>1, FedWithoutTag, OnOff
  <2> QED BY <2>1 DEF State
<1>2. CASE i # 0
  <2>1. Feed(p, State(Off, <<>>, <<>>), s) = Feed(p, Hit(p, Off, Before(s, i), <<>>), rest)
    BY <1>0, <1>2, FedTag, OnOff
  <2>2. Hit(p, Off, Before(s, i), <<>>) = State(On, <<>>, Append(<<>>, START))
    BY OnOff DEF Hit
  <2>3. rest \in Bytes
    BY <1>0, <1>2, Cut
  <2> DEFINE cs == Append(<<>>, START)
             q == Feed(p, State(On, <<>>, <<>>), rest)
  <2>4. cs \in Seq(Call)
    <3>1. START \in Call
      BY DEF START, Call, Bytes
    <3> QED BY <1>0, <3>1, AppendProperties
  <2>5. cs # <<>>
    OBVIOUS
  <2> HIDE DEF cs
  <2>6. Feed(p, State(On, <<>>, cs), rest) = State(q.started, q.line, cs \o q.calls)
    BY <2>3, <2>4, FeedShifts, OnOff
  <2>7. q.calls \in Seq(Call)
    <3>1. State(On, <<>>, <<>>) \in States
      BY OnOff DEF State, States, Bytes
    <3>2. q \in States
      BY <2>3, <3>1, FeedType
    <3> QED BY <3>2 DEF States
  <2> HIDE DEF q
  <2>8. cs \o q.calls # <<>>
    BY <2>4, <2>5, <2>7, ConcatEqualIffEmpty
  <2>9. State(q.started, q.line, cs \o q.calls).calls = cs \o q.calls
    BY DEF State
  <2>10. Feed(p, State(Off, <<>>, <<>>), s).calls = cs \o q.calls
    BY <2>1, <2>2, <2>6, <2>9 DEF cs
  <2> QED BY <2>8, <2>10
<1> QED BY <1>1, <1>2

-----------------------------------------------------------------------------
(***************************************************************************)
(* How the stream is cut into reads does not matter.                       *)
(***************************************************************************)
\* A STOP is the last that q has called, with nothing behind it.
StopsLast(q) ==
  \A i \in DOMAIN q.calls : q.calls[i].type = "STOP" => i = Len(q.calls) /\ q.line = <<>>

\* What a parser has done and kept is what the automaton has; within the
\* loop, what it has done and what the automaton will make of the rest.  A
\* tidy line keeps nothing between two receipts, and nothing is behind a
\* stop tag.
ChunkInv ==
  ItemSep # <<>> /\ ~parm.converted /\ parm.line # "serial" =>
    /\ pc = "read" => Alike(parm, Reference(base, input), State(started, buf, calls))
    /\ pc = "loop" => Alike(parm, Reference(base, input), Feed(parm, State(started, <<>>, calls), work))
    /\ IsSerial /\ pc = "read" /\ ~started => buf = <<>>
    /\ IsSerial /\ pc = "loop" => StopsLast(Feed(parm, State(started, <<>>, <<>>), work))

\* The automaton and the parser look for the same tag.
LEMMA SameTag ==
  ASSUME TypeInv, ItemSep # <<>>
  PROVE  /\ parm \in Parms /\ parm.item_sep # <<>> /\ parm.stop_tag = StopTag
         /\ ~started => Tag(parm, started) = Start
         /\ started => Tag(parm, started) = ItemSep
         /\ started \in BOOLEAN /\ base \in BOOLEAN /\ calls \in Seq(Call)
         /\ work \in Bytes /\ buf \in Bytes /\ input \in Bytes
         /\ Start \in Bytes /\ ItemSep \in Bytes /\ <<>> \in Bytes /\ <<>> \in Seq(Call)
<1>1. <<>> \in Bytes /\ <<>> \in Seq(Call)
  BY DEF Bytes
<1>2. Start \in Bytes /\ ItemSep \in Bytes
  BY Tags DEF TypeInv
<1> QED BY <1>1, <1>2 DEF Tag, Start, ItemSep, StopTag, TypeInv

LEMMA ReferenceIs ==
  ASSUME TypeInv, ItemSep # <<>>
  PROVE  /\ Reference(base, input) = Feed(parm, State(base, <<>>, <<>>), input)
         /\ Reference(base, input) \in States
<1>1. Reference(base, input) = Feed(parm, State(base, <<>>, <<>>), input)
  BY DEF Reference, State
<1>2. State(base, <<>>, <<>>) \in States
  BY SameTag, StateType
<1> QED BY <1>1, <1>2, SameTag, FeedType

\* A history that has just begun.
LEMMA NewHistory ==
  ASSUME NEW p, NEW on \in BOOLEAN
  PROVE  Alike(p, Feed(p, State(on, <<>>, <<>>), <<>>), State(on, <<>>, <<>>))
<1>1. State(on, <<>>, <<>>) \in States
  BY DEF State, States, Bytes
<1> QED BY <1>1, FeedNone, AlikeItself

\* What the parser has found when it has found the tag it looks for.
LEMMA FoundInWork ==
  ASSUME TypeInv, ItemSep # <<>>, NEW cs \in Seq(Call),
         NEW tag, tag = Tag(parm, started), FindFirst(work, tag) # 0
  PROVE  LET i == FindFirst(work, tag)
             rest == Behind(work, i, tag)
             text == Before(work, i)
         IN /\ ~started => Feed(parm, State(started, <<>>, cs), work)
                             = Feed(parm, State(On, <<>>, Append(cs, START)), rest)
            /\ started /\ text = <<>> =>
                 Feed(parm, State(started, <<>>, cs), work) = Feed(parm, State(started, <<>>, cs), rest)
            /\ started /\ text # <<>> /\ text = StopTag =>
                 Feed(parm, State(started, <<>>, cs), work)
                   = Feed(parm, State(Off, <<>>, Append(cs, STOP)), rest)
            /\ started /\ text # <<>> /\ text # StopTag =>
                 Feed(parm, State(started, <<>>, cs), work)
                   = Feed(parm, State(started, <<>>, Append(cs, ITEM(text))), rest)
<1> DEFINE i == FindFirst(work, tag)
           rest == Behind(work, i, tag)
           text == Before(work, i)
<1>1. Feed(parm, State(started, <<>>, cs), work) = Feed(parm, Hit(parm, started, text, cs), rest)
  BY SameTag, FedTag
<1> HIDE DEF i, rest, text
<1>2. started => started = On
  BY SameTag DEF On
<1>3. parm.stop_tag = StopTag
  BY DEF StopTag
<1>4. /\ ~started => Hit(parm, started, text, cs) = State(On, <<>>, Append(cs, START))
      /\ started /\ text = <<>> => Hit(parm, started, text, cs) = State(On, <<>>, cs)
      /\ started /\ text # <<>> /\ text = StopTag =>
           Hit(parm, started, text, cs) = State(Off, <<>>, Append(cs, STOP))
      /\ started /\ text # <<>> /\ text # StopTag =>
           Hit(parm, started, text, cs) = State(On, <<>>, Append(cs, ITEM(text)))
  BY <1>3 DEF Hit
<1>5. ~started => Feed(parm, State(started, <<>>, cs), work) = Feed(parm, State(On, <<>>, Append(cs, START)), rest)
  BY <1>1, <1>4
<1>6. started /\ text = <<>> =>
        Feed(parm, State(started, <<>>, cs), work) = Feed(parm, State(started, <<>>, cs), rest)
  BY <1>1, <1>2, <1>4
<1>7. started /\ text # <<>> /\ text = StopTag =>
        Feed(parm, State(started, <<>>, cs), work) = Feed(parm, State(Off, <<>>, Append(cs, STOP)), rest)
  BY <1>1, <1>4
<1>8. started /\ text # <<>> /\ text # StopTag =>
        Feed(parm, State(started, <<>>, cs), work)
          = Feed(parm, State(started, <<>>, Append(cs, ITEM(text))), rest)
  BY <1>1, <1>2, <1>4
<1> QED BY <1>5, <1>6, <1>7, <1>8 DEF i, rest, text

\* What is kept of a text is its end.
LEMMA KeptEnds ==
  ASSUME TypeInv, Len(work) >= Len(Start)
  PROVE  \E u \in Bytes : work = u \o Kept(work)
<1> DEFINE m == Len(work) - (Len(Start) - 1)
<1>1. Len(work) \in Nat /\ Len(Start) \in Nat \ {0} /\ work \in Seq(Alphabet) /\ work \in Bytes
  BY Tags DEF TypeInv, Bytes
<1>2. m \in 0..Len(work) /\ Kept(work) = SubSeq(work, m + 1, Len(work))
  BY <1>1 DEF Kept, LastBytes
<1>3. 1 \in 1..(Len(work) + 1) /\ m \in (1 - 1)..Len(work) /\ Len(work) \in m..Len(work)
  BY <1>1, <1>2
<1> HIDE DEF m
<1>4. SubSeq(work, 1, m) \o SubSeq(work, m + 1, Len(work)) = SubSeq(work, 1, Len(work))
  BY <1>1, <1>3, ConcatAdjacentSubSeq
<1>5. SubSeq(work, 1, m) \in Bytes /\ SubSeq(work, 1, Len(work)) = work
  BY <1>1, <1>2, Beginning
<1> QED BY <1>2, <1>4, <1>5

LEMMA NetAlike ==
  ASSUME TypeInv, SizeInv, BufferWaits, ChunkInv, Next, parm' = parm, ~IsSerial
  PROVE  ChunkInv'
<1> SUFFICES ASSUME ItemSep # <<>>, ~parm.converted, parm.line # "serial"
             PROVE  ChunkInv'
  BY DEF ChunkInv, ItemSep
<1> USE SameTag
<1> DEFINE r == Reference(base, input)
<1>0. ~IsSerial'
  BY DEF IsSerial
<1>1. ASSUME pc' = "read", Alike(parm, Feed(parm, State(base', <<>>, <<>>), input'), State(started', buf', calls'))
      PROVE  ChunkInv'
  BY <1>0, <1>1 DEF ChunkInv, Reference, State
<1>2. ASSUME pc' = "loop", Alike(parm, Feed(parm, State(base', <<>>, <<>>), input'),
                                 Feed(parm, State(started', <<>>, calls'), work'))
      PROVE  ChunkInv'
  BY <1>0, <1>2 DEF ChunkInv, Reference, State
\* A history begins.
<1>3. ASSUME pc' = "read", CutHistory(started), buf' = <<>>, UNCHANGED started PROVE ChunkInv'
  <2>1. Alike(parm, Feed(parm, State(started, <<>>, <<>>), <<>>), State(started, <<>>, <<>>))
    BY NewHistory
  <2> QED BY <1>1, <1>3, <2>1 DEF CutHistory
\* The loop returns.
<1>4. ASSUME NEW rest, NEW left, Leave(rest, left), Alike(parm, r, State(started, rest, calls))
      PROVE  ChunkInv'
  <2>1. pc' = "read" /\ UNCHANGED started
    BY <1>4 DEF Leave
  <2>2. CASE left = MaxLine
    BY <1>3, <1>4, <2>1, <2>2 DEF Leave
  <2>3. CASE left # MaxLine
    BY <1>1, <1>4, <2>1, <2>3, ReferenceIs DEF Leave, Moved, history
  <2> QED BY <2>2, <2>3
\* The loop goes on.
<1>5. ASSUME NEW i, NEW tag, GoOn(i, tag), pc = "loop",
             Feed(parm, State(started, <<>>, calls), work)
               = Feed(parm, State(started', <<>>, calls'), Behind(work, i, tag))
      PROVE  ChunkInv'
  BY <1>2, <1>5, ReferenceIs DEF GoOn, ChunkInv, history
\* What is in work without the tag is the line.
<1>6. pc = "loop" /\ FindFirst(work, Tag(parm, started)) = 0 => Alike(parm, r, State(started, work, calls))
  BY FedWithoutTag DEF ChunkInv
<1>7. ASSUME NEW chunk \in Chunks, Receive(chunk) PROVE ChunkInv'
  <2>1. /\ pc = "read" /\ pc' = "loop" /\ work' = buf \o chunk /\ input' = input \o chunk
        /\ UNCHANGED <<parm, started, calls, base>>
    BY <1>7 DEF Receive, Handed, Known
  <2>2. chunk \in Bytes
    BY Chunk
  <2>3. FindFirst(buf, Tag(parm, started)) = 0
    <3>1. started => FindFirst(buf, Tag(parm, started)) = 0
      BY <2>1 DEF BufferWaits
    <3>2. ~started => FindFirst(buf, Tag(parm, started)) = 0
      BY <2>1, NotFound DEF BufferWaits
    <3> QED BY <3>1, <3>2
  <2>4. Feed(parm, State(started, <<>>, calls), buf) = State(started, buf, calls)
    BY <2>3, FedWithoutTag
  <2>5. State(started, buf, calls) \in States
    BY StateType
  <2>6. Alike(parm, Feed(parm, r, chunk), Feed(parm, State(started, buf, calls), chunk))
    BY <2>1, <2>2, <2>5, ReferenceIs, FeedAlike DEF ChunkInv
  <2>7. /\ Feed(parm, State(base, <<>>, <<>>), input \o chunk) = Feed(parm, r, chunk)
        /\ Feed(parm, State(started, <<>>, calls), buf \o chunk)
             = Feed(parm, State(started, buf, calls), chunk)
    BY <2>2, <2>4, ReferenceIs, FeedConcat
  <2> QED BY <1>2, <2>1, <2>6, <2>7
<1>8. CASE LoopEnds
  <2>1. FindFirst(<<>>, Tag(parm, started)) = 0
    <3>1. Tag(parm, started) \in Bytes /\ Len(<<>>) < Len(Tag(parm, started))
      BY LookedFor
    <3> QED BY <3>1, NotFound
  <2>2. pc = "loop" /\ Leave(<<>>, 0) /\ Len(work) = 0
    BY <1>8 DEF LoopEnds, SizeInv, NetSizeInv
  <2>3. work = <<>>
    BY <2>2 DEF Bytes
  <2> QED BY <1>4, <1>6, <2>1, <2>2, <2>3
<1>9. CASE StartShort
  <2>1. FindFirst(work, Tag(parm, started)) = 0
    BY <1>9, NotFound DEF StartShort, InLoop, SizeInv, NetSizeInv
  <2> QED BY <1>4, <1>6, <1>9, <2>1 DEF StartShort, InLoop
<1>10. CASE ItemShort
  <2>1. FindFirst(work, Tag(parm, started)) = 0
    BY <1>10 DEF ItemShort, InLoop
  <2> QED BY <1>4, <1>6, <1>10, <2>1 DEF ItemShort, InLoop
<1>11. CASE StartMissing
  <2>1. /\ ~started /\ Leave(Kept(work), Len(Start) - 1) /\ Len(work) >= Len(Start)
        /\ FindFirst(work, Tag(parm, started)) = 0 /\ pc = "loop"
    BY <1>11 DEF StartMissing, InLoop, SizeInv, NetSizeInv
  <2>2. Alike(parm, r, State(started, work, calls))
    BY <1>6, <2>1
  <2>3. \E u \in Bytes : work = u \o Kept(work)
    BY <2>1, KeptEnds
  <2>4. Alike(parm, r, State(started, Kept(work), calls))
    <3>1. PICK v \in Bytes : work = v \o Kept(work)
      BY <2>3
    <3>2. PICK u \in Bytes : r.line = u \o work
      BY <2>2 DEF Alike, State
    <3>3. Kept(work) \in Bytes /\ Len(Kept(work)) = Len(Start) - 1
      BY <2>1, KeptPart
    <3>4. u \o v \in Bytes /\ r.line = (u \o v) \o Kept(work)
      <4>1. u \in Seq(Alphabet) /\ v \in Seq(Alphabet) /\ Kept(work) \in Seq(Alphabet)
        BY <3>3 DEF Bytes
      <4>2. (u \o v) \o Kept(work) = u \o (v \o Kept(work)) /\ u \o v \in Seq(Alphabet)
        BY <4>1, ConcatAssociative, ConcatProperties
      <4> QED BY <3>1, <3>2, <4>2 DEF Bytes
    <3>5. Start = StartOf(parm) /\ ~r.started /\ r.started = started /\ r.calls = calls
      BY <2>1, <2>2 DEF Start, Alike, State
    <3>6. Len(Kept(work)) >= Len(StartOf(parm)) - 1
      BY <3>3, <3>5, Tags DEF TypeInv
    <3> QED BY <3>4, <3>5, <3>6 DEF Alike, State
  <2> QED BY <1>4, <2>1, <2>4
<1>12. CASE StartFound
  <2> DEFINE i == FindFirst(work, Start)
  <2>1. /\ ~started /\ pc = "loop" /\ i # 0 /\ calls' = Append(calls, START) /\ started' = On
        /\ GoOn(i, Start)
    BY <1>12 DEF StartFound, InLoop, On
  <2>2. Feed(parm, State(started, <<>>, calls), work)
          = Feed(parm, State(started', <<>>, calls'), Behind(work, i, Start))
    BY <2>1, FoundInWork
  <2> QED BY <1>5, <2>1, <2>2
<1>13. CASE ItemEmpty
  <2> DEFINE i == FindFirst(work, ItemSep)
  <2>1. /\ started /\ pc = "loop" /\ i = 1 /\ i # 0 /\ UNCHANGED <<started, calls>>
        /\ GoOn(i, ItemSep)
    BY <1>13 DEF ItemEmpty, InLoop
  <2>2. Before(work, i) = <<>>
    BY <2>1, SubSeqEmpty DEF Before
  <2>3. Feed(parm, State(started, <<>>, calls), work)
          = Feed(parm, State(started', <<>>, calls'), Behind(work, i, ItemSep))
    BY <2>1, <2>2, FoundInWork
  <2> QED BY <1>5, <2>1, <2>3
<1>14. CASE ItemFound
  <2> DEFINE i == FindFirst(work, ItemSep)
             text == Before(work, i)
             rest == Behind(work, i, ItemSep)
  <2>1. /\ started /\ pc = "loop" /\ i > 1 /\ GoOn(i, ItemSep)
        /\ calls' = Append(calls, IF text = StopTag THEN STOP ELSE ITEM(text))
        /\ started' = IF text = StopTag THEN Off ELSE On
    BY <1>14 DEF ItemFound, InLoop, AfterStop, IsStop, On, Off
  <2>2. i # 0
    BY <2>1
  <2>3. text # <<>>
    BY <2>1, <2>2, Cut
  <2>4. started = On
    BY <2>1 DEF On
  <2>5. CASE text = StopTag
    <3>1. Feed(parm, State(started, <<>>, calls), work) = Feed(parm, State(started', <<>>, calls'), rest)
      BY <2>1, <2>2, <2>3, <2>5, FoundInWork
    <3> QED BY <1>5, <2>1, <3>1
  <2>6. CASE text # StopTag
    <3>1. Feed(parm, State(started, <<>>, calls), work) = Feed(parm, State(started', <<>>, calls'), rest)
      BY <2>1, <2>2, <2>3, <2>4, <2>6, FoundInWork
    <3> QED BY <1>5, <2>1, <3>1
  <2> QED BY <2>5, <2>6
<1>15. CASE PlainItem \/ PlainStop
  BY <1>15 DEF PlainItem, PlainStop
<1>16. CASE NewSession
  BY <1>3, <1>16 DEF NewSession
<1> QED BY <1>7, <1>8, <1>9, <1>10, <1>11, <1>12, <1>13, <1>14, <1>15, <1>16 DEF Next, Loop

\* What is behind the first callbacks ends as the whole does.
LEMMA StopsLastBehind ==
  ASSUME NEW q \in States, NEW cs \in Seq(Call), StopsLast(State(q.started, q.line, cs \o q.calls))
  PROVE  StopsLast(q)
<1> DEFINE all == cs \o q.calls
<1>1. /\ q.calls \in Seq(Call) /\ Len(cs) \in Nat /\ Len(q.calls) \in Nat
      /\ all \in Seq(Call) /\ Len(all) = Len(cs) + Len(q.calls)
      /\ \A i \in 1..(Len(cs) + Len(q.calls)) : all[i] = IF i <= Len(cs) THEN cs[i] ELSE q.calls[i - Len(cs)]
  <2>1. q.calls \in Seq(Call)
    BY DEF States
  <2> QED BY <2>1, ConcatProperties
<1>2. \A i \in DOMAIN all : all[i].type = "STOP" => i = Len(all) /\ q.line = <<>>
  BY DEF StopsLast, State
<1> HIDE DEF all
<1>3. ASSUME NEW i \in DOMAIN q.calls, q.calls[i].type = "STOP" PROVE i = Len(q.calls) /\ q.line = <<>>
  <2>1. i \in 1..Len(q.calls) /\ Len(cs) + i \in 1..(Len(cs) + Len(q.calls)) /\ ~(Len(cs) + i <= Len(cs))
        /\ Len(cs) + i - Len(cs) = i
    BY <1>1
  <2>2. Len(cs) + i \in DOMAIN all /\ all[Len(cs) + i] = q.calls[i]
    BY <1>1, <2>1
  <2>3. Len(cs) + i = Len(all) /\ q.line = <<>>
    BY <1>2, <1>3, <2>2
  <2> QED BY <1>1, <2>1, <2>3
<1> QED BY <1>3 DEF StopsLast

\* A receipt's last string has nothing behind the stop tag.
LEMMA NothingBehindStop ==
  ASSUME NEW p \in Parms, p.item_sep # <<>>, NEW rest \in Bytes,
         StopsLast(Feed(p, State(Off, <<>>, <<STOP>>), rest))
  PROVE  rest = <<>>
<1> DEFINE q == Feed(p, State(Off, <<>>, <<>>), rest)
<1>1. <<STOP>> \in Seq(Call) /\ State(Off, <<>>, <<>>) \in States
  <2>1. STOP \in Call /\ <<>> \in Bytes /\ <<>> \in Seq(Call)
    BY DEF STOP, Call, Bytes
  <2>2. <<STOP>> \in Seq(Call)
    BY <2>1
  <2>3. State(Off, <<>>, <<>>) \in States
    BY <2>1, OnOff DEF State, States
  <2> QED BY <2>2, <2>3
<1>2. Feed(p, State(Off, <<>>, <<STOP>>), rest) = State(q.started, q.line, <<STOP>> \o q.calls)
  BY <1>1, OnOff, FeedShifts
<1>3. q.calls \in Seq(Call)
  <2>1. q \in States
    BY <1>1, FeedType
  <2> QED BY <2>1 DEF States
<1>4. q.calls = <<>> => q.line = rest
  BY QuietOff
<1> DEFINE all == <<STOP>> \o q.calls
<1> HIDE DEF q
<1>5. 1 \in DOMAIN all /\ all[1] = STOP /\ Len(all) = 1 + Len(q.calls) /\ Len(q.calls) \in Nat
  BY <1>1, <1>3
<1>6. \A i \in DOMAIN all : all[i].type = "STOP" => i = Len(all) /\ q.line = <<>>
  BY <1>2 DEF StopsLast, State
<1> HIDE DEF all
<1>7. 1 = Len(all) /\ q.line = <<>>
  BY <1>5, <1>6 DEF STOP
<1>8. q.calls = <<>>
  BY <1>3, <1>5, <1>7
<1> QED BY <1>4, <1>7, <1>8

LEMMA SerialAlike ==
  ASSUME TypeInv, SizeInv, BufferWaits, ChunkInv, SerialNext, parm' = parm, IsSerial
  PROVE  ChunkInv'
<1> SUFFICES ASSUME ItemSep # <<>>, ~parm.converted, parm.line # "serial"
             PROVE  ChunkInv'
  BY DEF ChunkInv, ItemSep
<1> USE SameTag
<1> DEFINE r == Reference(base, input)
<1>1. ASSUME pc' = "read", Alike(parm, Feed(parm, State(base', <<>>, <<>>), input'), State(started', buf', calls')),
             ~started' => buf' = <<>>
      PROVE  ChunkInv'
  BY <1>1 DEF ChunkInv, Reference, State
<1>2. ASSUME pc' = "loop", Alike(parm, Feed(parm, State(base', <<>>, <<>>), input'),
                                 Feed(parm, State(started', <<>>, calls'), work')),
             StopsLast(Feed(parm, State(started', <<>>, <<>>), work'))
      PROVE  ChunkInv'
  BY <1>2 DEF ChunkInv, Reference, State
\* The buffer is cleared.
<1>3. ASSUME pc' = "read", Forgets PROVE ChunkInv'
  <2>1. Alike(parm, Feed(parm, State(Off, <<>>, <<>>), <<>>), State(Off, <<>>, <<>>))
    BY OnOff, NewHistory
  <2>2. started' = Off /\ base' = Off /\ buf' = <<>> /\ calls' = <<>> /\ input' = <<>>
    BY <1>3, Forgotten DEF Off
  <2> QED BY <1>1, <1>3, <2>1, <2>2
\* In the loop of a tidy line.
<1>4. ASSUME SerialLoop
      PROVE  /\ pc = "loop" /\ IsSerial /\ size = Len(work) /\ size \in Nat
             /\ ~started => FindFirst(work, Start) = 1 /\ ~(size < Len(Start))
             /\ Alike(parm, r, Feed(parm, State(started, <<>>, calls), work))
             /\ StopsLast(Feed(parm, State(started, <<>>, <<>>), work))
  <2>1. pc = "loop" /\ IsSerial /\ parm.line = "tidy"
    BY <1>4 DEF SerialLoop, IsSerial
  <2>2. size = Len(work) /\ (~started => IsPrefix(Start, work))
    BY <2>1 DEF SizeInv, SerialSizeInv
  <2>3. ~started => FindFirst(work, Start) = 1 /\ ~(size < Len(Start))
    <3>1. Start # <<>> /\ Len(work) \in Nat /\ Len(Start) \in Nat
      BY Tags DEF TypeInv, Bytes
    <3>2. ~started => Len(Start) <= Len(work)
      BY <2>2 DEF IsPrefix
    <3> QED BY <2>2, <3>1, <3>2, PrefixFound
  <2>4. size \in Nat
    BY DEF TypeInv
  <2> QED BY <2>1, <2>2, <2>3, <2>4 DEF ChunkInv
\* The loop returns within a receipt that goes on.
<1>5. ASSUME SerialLoop, SerialLeave(work), UNCHANGED <<started, calls>>,
             FindFirst(work, Tag(parm, started)) = 0
      PROVE  ChunkInv'
  <2>1. Alike(parm, r, State(started, work, calls))
    BY <1>4, <1>5, FedWithoutTag
  <2>2. started
    BY <1>4, <1>5
  <2> QED BY <1>1, <1>5, <2>1, <2>2, ReferenceIs DEF SerialLeave, history
\* The loop goes on.
<1>6. ASSUME NEW rest \in Bytes, NEW left, SerialGoOn(rest, left), SerialLoop, NEW new \in Seq(Call),
             started' \in BOOLEAN,
             Feed(parm, State(started, <<>>, calls), work) = Feed(parm, State(started', <<>>, calls'), rest),
             Feed(parm, State(started, <<>>, <<>>), work) = Feed(parm, State(started', <<>>, new), rest)
      PROVE  ChunkInv'
  <2> DEFINE q == Feed(parm, State(started', <<>>, <<>>), rest)
  <2>1. Feed(parm, State(started', <<>>, new), rest) = State(q.started, q.line, new \o q.calls)
    BY <1>6, FeedShifts
  <2>2. q \in States
    BY <1>6, StateType, FeedType
  <2>3. StopsLast(q)
    <3> HIDE DEF q
    <3> QED BY <1>4, <1>6, <2>1, <2>2, StopsLastBehind
  <2> QED BY <1>2, <1>4, <1>6, <2>3, ReferenceIs DEF SerialGoOn, history
<1>7. ASSUME NEW chunk \in Chunks, Pos485String(chunk) PROVE ChunkInv'
  <2>0. /\ pc = "read" /\ IsSerial /\ parm.line = "tidy" /\ SendsTidy(chunk) /\ chunk \in Bytes
    BY <1>7, Chunk DEF Pos485String, IsSerial
  <2>1. CASE Len(buf) + Len(chunk) >= MaxLine
    BY <1>3, <1>7, <2>0, <2>1 DEF Pos485String
  <2>2. CASE ~(Len(buf) + Len(chunk) >= MaxLine)
    <3>1. /\ pc' = "loop" /\ work' = Held(chunk) /\ input' = input \o chunk
          /\ UNCHANGED <<parm, started, calls, base>>
      BY <1>7, <2>2, Handing
    <3>2. Held(chunk) = buf \o chunk
      <4>1. ~started => buf = <<>>
        BY <2>0 DEF ChunkInv
      <4>2. <<>> \o chunk = chunk
        BY <2>0, ConcatEmptySeq DEF Bytes
      <4> QED BY <4>1, <4>2 DEF Held
    <3>3. FindFirst(buf, Tag(parm, started)) = 0
      <4>1. started => FindFirst(buf, Tag(parm, started)) = 0
        BY <2>0 DEF BufferWaits
      <4>2. ~started => FindFirst(buf, Tag(parm, started)) = 0
        BY <2>0, NotFound DEF BufferWaits
      <4> QED BY <4>1, <4>2
    <3>4. Feed(parm, State(started, <<>>, calls), buf) = State(started, buf, calls)
      BY <3>3, FedWithoutTag
    <3>5. Alike(parm, Feed(parm, r, chunk), Feed(parm, State(started, buf, calls), chunk))
      <4>1. State(started, buf, calls) \in States
        BY StateType
      <4> QED BY <2>0, <4>1, ReferenceIs, FeedAlike DEF ChunkInv
    <3>6. /\ Feed(parm, State(base, <<>>, <<>>), input \o chunk) = Feed(parm, r, chunk)
          /\ Feed(parm, State(started, <<>>, calls), buf \o chunk)
               = Feed(parm, State(started, buf, calls), chunk)
      BY <2>0, <3>4, ReferenceIs, FeedConcat
    <3>7. StopsLast(Feed(parm, State(started, <<>>, <<>>), buf \o chunk))
      BY <2>0 DEF SendsTidy, StopsLast, Reference, State
    <3> QED BY <1>2, <3>1, <3>2, <3>5, <3>6, <3>7
  <2> QED BY <2>1, <2>2
<1>8. CASE SerialEnds
  <2>1. SerialLoop /\ size = 0 /\ SerialLeave(work) /\ UNCHANGED <<started, calls>>
    BY <1>8 DEF SerialEnds
  <2>2. Len(Tag(parm, started)) \in Nat \ {0} /\ Tag(parm, started) \in Bytes
    BY LookedFor
  <2>3. Len(work) < Len(Tag(parm, started))
    BY <1>4, <2>1, <2>2
  <2> QED BY <1>5, <2>1, <2>2, <2>3, NotFound
<1>9. CASE SerialWaits
  <2>1. /\ SerialLoop /\ SerialLeave(work) /\ UNCHANGED <<started, calls>>
        /\ \/ ~started /\ (size < Len(Start) \/ FindFirst(work, Start) = 0)
           \/ started /\ ItemSep # <<>> /\ (size < Len(ItemSep) \/ FindFirst(work, ItemSep) = 0)
    BY <1>9 DEF SerialWaits
  <2>2. started /\ (size < Len(ItemSep) \/ FindFirst(work, ItemSep) = 0) /\ size = Len(work)
    BY <1>4, <2>1
  <2>3. FindFirst(work, Tag(parm, started)) = 0
    BY <2>2, NotFound
  <2> QED BY <1>5, <2>1, <2>3
<1>10. CASE SerialStart
  <2>1. /\ SerialLoop /\ ~started /\ calls' = Append(calls, START) /\ started' = On
        /\ SerialGoOn(Behind(work, 1, Start), SizeBehind(FindFirst(work, Start), Start))
    BY <1>10 DEF SerialStart, On
  <2>2. FindFirst(work, Start) = 1 /\ FindFirst(work, Start) # 0
    BY <1>4, <2>1
  <2>3. /\ Feed(parm, State(started, <<>>, calls), work) = Feed(parm, State(started', <<>>, calls'), Behind(work, 1, Start))
        /\ Feed(parm, State(started, <<>>, <<>>), work)
             = Feed(parm, State(started', <<>>, Append(<<>>, START)), Behind(work, 1, Start))
    BY <2>1, <2>2, FoundInWork
  <2>4. Behind(work, 1, Start) \in Bytes
    BY <2>2, Cut
  <2>5. Append(<<>>, START) \in Seq(Call) /\ started' \in BOOLEAN
    <3>1. START \in Call
      BY DEF START, Call, Bytes
    <3> QED BY <2>1, <3>1, OnOff
  <2> QED BY <1>6, <2>1, <2>3, <2>4, <2>5
<1>11. CASE SerialItem
  <2> DEFINE i == FindFirst(work, ItemSep)
             text == Before(work, i)
             rest == Behind(work, i, ItemSep)
  <2>1. /\ SerialLoop /\ started /\ i # 0
        /\ IF i > 1 /\ text = StopTag
             THEN calls' = Append(calls, STOP) /\ started' = Off /\ SerialLeave(<<>>)
             ELSE /\ calls' = IF i > 1 THEN Append(calls, ITEM(text)) ELSE calls
                  /\ SerialGoOn(rest, SizeBehind(i, ItemSep))
                  /\ UNCHANGED started
    BY <1>11 DEF SerialItem, IsStop, AfterStop, Off
  <2>2. /\ i \in Nat \ {0} /\ text \in Bytes /\ rest \in Bytes /\ (i > 1 => text # <<>>)
        /\ i = 1 => text = <<>>
    <3>1. i \in Nat \ {0} /\ text \in Bytes /\ rest \in Bytes /\ (i > 1 => text # <<>>)
      BY <2>1, Cut
    <3>2. i = 1 => text = <<>>
      BY SubSeqEmpty DEF Before
    <3> QED BY <3>1, <3>2
  <2>3. ASSUME NEW cs \in Seq(Call)
        PROVE  /\ text = <<>> => Feed(parm, State(started, <<>>, cs), work) = Feed(parm, State(started, <<>>, cs), rest)
               /\ text # <<>> /\ text = StopTag =>
                    Feed(parm, State(started, <<>>, cs), work) = Feed(parm, State(Off, <<>>, Append(cs, STOP)), rest)
               /\ text # <<>> /\ text # StopTag =>
                    Feed(parm, State(started, <<>>, cs), work)
                      = Feed(parm, State(started, <<>>, Append(cs, ITEM(text))), rest)
    BY <2>1, FoundInWork
  <2> HIDE DEF i, text, rest
  <2>4. CASE i = 1
    <3>1. calls' = calls /\ SerialGoOn(rest, SizeBehind(i, ItemSep)) /\ started' = started
      BY <2>1, <2>4
    <3> QED BY <1>6, <2>1, <2>2, <2>3, <2>4, <3>1
  <2>5. CASE i > 1 /\ text # StopTag
    <3>1. calls' = Append(calls, ITEM(text)) /\ SerialGoOn(rest, SizeBehind(i, ItemSep)) /\ started' = started
      BY <2>1, <2>5
    <3>2. Append(<<>>, ITEM(text)) \in Seq(Call)
      <4>1. ITEM(text) \in Call
        BY <2>2 DEF ITEM, Call
      <4> QED BY <4>1
    <3>3. /\ Feed(parm, State(started, <<>>, calls), work) = Feed(parm, State(started', <<>>, calls'), rest)
          /\ Feed(parm, State(started, <<>>, <<>>), work)
               = Feed(parm, State(started', <<>>, Append(<<>>, ITEM(text))), rest)
      BY <2>2, <2>3, <2>5, <3>1
    <3> QED BY <1>6, <2>1, <2>2, <3>1, <3>2, <3>3
  <2>6. CASE i > 1 /\ text = StopTag
    <3>1. calls' = Append(calls, STOP) /\ started' = Off /\ SerialLeave(<<>>)
      BY <2>1, <2>6
    <3>2. rest = <<>>
      <4>1. Feed(parm, State(started, <<>>, <<>>), work) = Feed(parm, State(Off, <<>>, <<STOP>>), rest)
        <5>1. Append(<<>>, STOP) = <<STOP>>
          OBVIOUS
        <5> QED BY <2>2, <2>3, <2>6, <5>1
      <4> QED BY <1>4, <2>1, <2>2, <4>1, NothingBehindStop
    <3>3. Feed(parm, State(started, <<>>, calls), work) = State(Off, <<>>, calls')
      <4>1. Feed(parm, State(started, <<>>, calls), work) = Feed(parm, State(Off, <<>>, calls'), <<>>)
        BY <2>2, <2>3, <2>6, <3>1, <3>2
      <4> QED BY <4>1, FeedNone
    <3>4. Alike(parm, r, State(started', buf', calls'))
      BY <1>4, <2>1, <3>1, <3>3 DEF SerialLeave
    <3> QED BY <1>1, <3>1, <3>4, ReferenceIs DEF SerialLeave, history
  <2> QED BY <2>2, <2>4, <2>5, <2>6
<1>12. CASE SerialPlain
  BY <1>12 DEF SerialPlain
<1>13. CASE Config
  BY <1>3, <1>13 DEF Config
<1> QED BY <1>7, <1>8, <1>9, <1>10, <1>11, <1>12, <1>13 DEF SerialNext

LEMMA InitChunk == Init => ChunkInv
<1> SUFFICES ASSUME Init PROVE ChunkInv
  OBVIOUS
<1>1. /\ pc = "read" /\ started = Off /\ base = Off /\ buf = <<>> /\ calls = <<>> /\ input = <<>>
  BY DEF Init, Off
<1>2. Alike(parm, Feed(parm, State(Off, <<>>, <<>>), <<>>), State(Off, <<>>, <<>>))
  BY OnOff, NewHistory
<1>3. Alike(parm, Reference(base, input), State(started, buf, calls))
  BY <1>1, <1>2 DEF Reference, State
<1> QED BY <1>1, <1>3 DEF ChunkInv

LEMMA StepChunk == Inv /\ ChunkInv /\ [LineNext]_vars => ChunkInv'
<1> SUFFICES ASSUME Inv, ChunkInv, [LineNext]_vars PROVE ChunkInv'
  OBVIOUS
<1> USE DEF Inv
<1>1. CASE SerialNext
  <2>1. IsSerial
    BY <1>1, SerialActs
  <2>2. parm' = parm
    BY <1>1, <2>1, SerialStep
  <2> QED BY <1>1, <2>1, <2>2, SerialAlike
<1>2. CASE ~IsSerial /\ Next
  <2>1. parm' = parm
    BY <1>2, NetStep
  <2> QED BY <1>2, <2>1, NetAlike
<1>3. CASE UNCHANGED vars
  BY <1>3 DEF vars, history, ChunkInv, IsSerial, ItemSep, Reference
<1> QED BY <1>1, <1>2, <1>3 DEF LineNext

\* A string is the suffix of what it was put behind.
LEMMA EndIsSuffix ==
  ASSUME NEW u \in Bytes, NEW s \in Bytes
  PROVE  IsSuffix(s, u \o s)
<1>1. /\ Len(u) \in Nat /\ Len(s) \in Nat /\ u \o s \in Seq(Alphabet)
      /\ Len(u \o s) = Len(u) + Len(s)
      /\ \A i \in 1..(Len(u) + Len(s)) : (u \o s)[i] = IF i <= Len(u) THEN u[i] ELSE s[i - Len(u)]
  BY ConcatProperties DEF Bytes
<1>2. \A i \in 1..Len(s) : s[i] = (u \o s)[Len(u \o s) - Len(s) + i]
  <2> SUFFICES ASSUME NEW i \in 1..Len(s) PROVE s[i] = (u \o s)[Len(u) + i]
    BY <1>1
  <2>1. Len(u) + i \in 1..(Len(u) + Len(s)) /\ ~(Len(u) + i <= Len(u)) /\ Len(u) + i - Len(u) = i
    BY <1>1
  <2> QED BY <1>1, <2>1
<1>3. Len(s) <= Len(u \o s) /\ s \in Seq(Alphabet)
  BY <1>1 DEF Bytes
<1>4. IsSuffix(s, u \o s) <=> /\ Len(s) <= Len(u \o s)
                              /\ \A i \in 1..Len(s) : s[i] = (u \o s)[Len(u \o s) - Len(s) + i]
  BY <1>1, <1>3, SuffixIs
<1> QED BY <1>2, <1>3, <1>4

\* With a separator the reads do not matter: what on_data_cashing, or a
\* tidy line's on_data_loop, has called back and kept after any number of
\* reads is what an automaton that is fed the same bytes one by one has
\* called back and read since.
THEOREM ChunkingDoesNotMatter == LineSpec => []ChunkingIrrelevant
<1>1. Inv /\ ChunkInv => ChunkingIrrelevant
  <2> SUFFICES ASSUME Inv, ChunkInv, pc = "read", ItemSep # <<>>, ~parm.converted, parm.line # "serial",
                      NEW r, r = Reference(base, input)
               PROVE  /\ calls = r.calls /\ started = r.started
                      /\ IF started THEN buf = r.line ELSE IsSuffix(buf, r.line)
    BY DEF ChunkingIrrelevant
  <2>1. Alike(parm, r, State(started, buf, calls))
    BY DEF ChunkInv
  <2>2. PICK u \in Bytes : /\ r.started = started /\ r.calls = calls /\ r.line = u \o buf
                           /\ u # <<>> => ~r.started
    BY <2>1 DEF Alike, State
  <2>3. buf \in Bytes
    BY DEF Inv, TypeInv
  <2>4. started => buf = r.line
    BY <2>2, <2>3, ConcatEmptySeq DEF Bytes
  <2>5. IsSuffix(buf, u \o buf)
    BY <2>3, EndIsSuffix
  <2> QED BY <2>2, <2>4, <2>5
<1> QED BY <1>1, InitInv, StepInv, InitChunk, StepChunk, PTL DEF LineSpec

-----------------------------------------------------------------------------
(***************************************************************************)
(* Without a separator no byte is lost.                                    *)
(***************************************************************************)
\* f is what the first n of some sequences make up, one after the other.
IsFlat(f, seqs, n) == f = [i \in 1..n |-> IF i = 1 THEN seqs[i] ELSE f[i - 1] \o seqs[i]]

LEMMA Flat ==
  ASSUME NEW seqs, NEW n \in Nat
  PROVE  \E f : IsFlat(f, seqs, n)
<1> DEFINE P == {k \in Nat : \E f : IsFlat(f, seqs, k)}
<1>1. 0 \in P
  <2>1. IsFlat([i \in 1..0 |-> seqs[i]], seqs, 0)
    BY DEF IsFlat
  <2> QED BY <2>1
<1>2. ASSUME NEW k \in Nat, k \in P PROVE k + 1 \in P
  <2>1. PICK f : IsFlat(f, seqs, k)
    BY <1>2
  <2> DEFINE g == [i \in 1..(k + 1) |-> IF i = k + 1 /\ k # 0 THEN f[k] \o seqs[k + 1]
                                        ELSE IF i = k + 1 THEN seqs[k + 1] ELSE f[i]]
  <2>2. ASSUME NEW i \in 1..(k + 1)
        PROVE  g[i] = IF i = 1 THEN seqs[i] ELSE g[i - 1] \o seqs[i]
    <3>1. CASE i = k + 1 /\ k # 0
      <4>1. i # 1 /\ i - 1 = k /\ k \in 1..(k + 1) /\ k # k + 1
        BY <3>1
      <4>2. g[i] = f[k] \o seqs[i] /\ g[i - 1] = f[k]
        BY <3>1, <4>1
      <4> QED BY <4>1, <4>2
    <3>2. CASE i = k + 1 /\ k = 0
      BY <3>2
    <3>3. CASE i # k + 1
      <4>1. i \in 1..k /\ i \in 1..(k + 1)
        BY <3>3
      <4>2. g[i] = f[i]
        BY <3>3
      <4>3. f[i] = IF i = 1 THEN seqs[i] ELSE f[i - 1] \o seqs[i]
        BY <2>1, <4>1 DEF IsFlat
      <4>4. i # 1 => i - 1 \in 1..(k + 1) /\ i - 1 # k + 1
        BY <4>1
      <4>5. i # 1 => g[i - 1] = f[i - 1]
        BY <4>4
      <4> QED BY <4>2, <4>3, <4>5
    <3> QED BY <3>1, <3>2, <3>3
  <2> HIDE DEF g
  <2>3. \A h : h = [i \in 1..(k + 1) |-> h[i]] /\ (\A i \in 1..(k + 1) : h[i] = IF i = 1 THEN seqs[i] ELSE h[i - 1] \o seqs[i])
               => IsFlat(h, seqs, k + 1)
    BY DEF IsFlat
  <2>4. g = [i \in 1..(k + 1) |-> g[i]]
    BY DEF g
  <2>5. IsFlat(g, seqs, k + 1)
    BY <2>2, <2>3, <2>4
  <2> QED BY <2>5
<1> HIDE DEF P
<1>3. \A k \in Nat : k \in P
  BY <1>1, <1>2, Induct
<1> QED BY <1>3 DEF P

LEMMA FlatFirst ==
  ASSUME NEW seqs, NEW n \in Nat \ {0}, NEW f, IsFlat(f, seqs, n)
  PROVE  f[1] = seqs[1]
<1>1. 1 \in 1..n
  OBVIOUS
<1> QED BY <1>1 DEF IsFlat

LEMMA FlatAt ==
  ASSUME NEW seqs, NEW n \in Nat, NEW f, IsFlat(f, seqs, n), NEW k \in 1..n, k # n
  PROVE  f[k + 1] = f[k] \o seqs[k + 1]
<1>1. ASSUME NEW m, m = k + 1 PROVE f[m] = f[k] \o seqs[m]
  <2>1. m \in 1..n /\ m # 1 /\ m - 1 = k
    BY <1>1
  <2>2. f[m] = f[m - 1] \o seqs[m]
    BY <2>1 DEF IsFlat
  <2> QED BY <2>1, <2>2
<1> QED BY <1>1

LEMMA FlattenIs ==
  ASSUME NEW seqs, Len(seqs) \in Nat \ {0}
  PROVE  \E f : IsFlat(f, seqs, Len(seqs)) /\ FlattenSeq(seqs) = f[Len(seqs)]
<1>1. \E f : IsFlat(f, seqs, Len(seqs))
  BY Flat
<1> DEFINE flatten[i \in 1..Len(seqs)] == IF i = 1 THEN seqs[i] ELSE flatten[i - 1] \o seqs[i]
<1>2. IsFlat(flatten, seqs, Len(seqs))
  BY <1>1 DEF IsFlat
<1>3. FlattenSeq(seqs) = flatten[Len(seqs)]
  BY DEF FlattenSeq
<1> HIDE DEF flatten
<1> QED BY <1>2, <1>3

LEMMA FlatAgree ==
  ASSUME NEW s, NEW t, NEW m \in Nat, NEW n \in Nat, m <= n, \A i \in 1..m : s[i] = t[i],
         NEW f, IsFlat(f, s, m), NEW g, IsFlat(g, t, n)
  PROVE  \A i \in 1..m : f[i] = g[i]
<1> DEFINE P == {k \in Nat : k # 0 /\ k <= m => f[k] = g[k]}
<1>1. 0 \in P
  OBVIOUS
<1>2. ASSUME NEW k \in Nat, k \in P PROVE k + 1 \in P
  <2> SUFFICES ASSUME k + 1 <= m PROVE f[k + 1] = g[k + 1]
    OBVIOUS
  <2>1. CASE k = 0
    <3>1. m \in Nat \ {0} /\ n \in Nat \ {0} /\ 1 \in 1..m /\ k + 1 = 1
      BY <2>1
    <3>2. f[1] = s[1]
      BY <3>1, FlatFirst
    <3>3. g[1] = t[1]
      BY <3>1, FlatFirst
    <3>4. f[1] = g[1]
      BY <3>1, <3>2, <3>3
    <3> QED BY <3>1, <3>4
  <2>2. CASE k # 0
    <3>1. k \in 1..m /\ k \in 1..n /\ k # m /\ k # n /\ k + 1 \in 1..m /\ k <= m
      BY <2>2
    <3>2. f[k + 1] = f[k] \o s[k + 1] /\ g[k + 1] = g[k] \o t[k + 1]
      BY <3>1, FlatAt
    <3> QED BY <1>2, <2>2, <3>1, <3>2
  <2> QED BY <2>1, <2>2
<1> HIDE DEF P
<1>3. \A k \in Nat : k \in P
  BY <1>1, <1>2, Induct
<1>4. ASSUME NEW i \in 1..m PROVE f[i] = g[i]
  <2>1. i \in Nat /\ i # 0 /\ i <= m
    OBVIOUS
  <2> QED BY <1>3, <2>1 DEF P
<1> QED BY <1>4

\* The bytes of a callback.
LEMMA TextType ==
  ASSUME NEW p \in Parms, NEW c \in Call
  PROVE  Text(p, c) \in Bytes
<1>1. p.start_tag \in Bytes /\ p.item_sep \in Bytes /\ p.stop_tag \in Bytes /\ <<>> \in Bytes
  BY ParmAssumption DEF Parm, Bytes
<1>2. StartOf(p) \in Bytes
  BY <1>1, ConcatProperties DEF StartOf, Bytes
<1>3. c.text \in Bytes
  BY DEF Call
<1>4. c.type = "ITEM" => Text(p, c) = c.text
  BY DEF Text
<1>5. c.type = "STOP" => Text(p, c) = p.stop_tag
  BY DEF Text
<1>6. c.type \notin {"ITEM", "STOP"} => Text(p, c) = StartOf(p)
  BY DEF Text
<1> QED BY <1>1, <1>2, <1>3, <1>4, <1>5, <1>6

\* What callbacks spell, one after the other.
LEMMA SpelledNone ==
  ASSUME NEW p
  PROVE  Spelled(p, <<>>) = <<>>
<1> DEFINE texts == [k \in DOMAIN <<>> |-> Text(p, <<>>[k])]
<1>1. texts = <<>>
  OBVIOUS
<1>2. FlattenSeq(<<>>) = <<>>
  BY DEF FlattenSeq
<1> HIDE DEF texts
<1>3. FlattenSeq(texts) = <<>>
  BY <1>1, <1>2
<1> QED BY <1>3 DEF Spelled, texts

LEMMA SpelledOne ==
  ASSUME NEW p \in Parms, NEW cs \in Seq(Call), NEW c \in Call
  PROVE  Spelled(p, Append(cs, c)) = Spelled(p, cs) \o Text(p, c)
<1> DEFINE s == [k \in DOMAIN cs |-> Text(p, cs[k])]
           all == Append(cs, c)
           t == [k \in DOMAIN all |-> Text(p, all[k])]
           n == Len(cs)
<1>0. n \in Nat /\ DOMAIN cs = 1..n
  OBVIOUS
<1>1. Len(all) = n + 1 /\ DOMAIN all = 1..(n + 1) /\ all[n + 1] = c /\ \A i \in 1..n : all[i] = cs[i]
  BY <1>0, AppendProperties
<1> HIDE DEF n, all
<1>2. Len(s) = n /\ \A i \in 1..n : s[i] = Text(p, cs[i])
  BY <1>0
<1>3. Len(t) = n + 1 /\ \A i \in 1..(n + 1) : t[i] = Text(p, all[i])
  BY <1>0, <1>1
<1>4. (\A i \in 1..n : s[i] = t[i]) /\ t[n + 1] = Text(p, c) /\ n + 1 \in Nat \ {0}
  BY <1>0, <1>1, <1>2, <1>3
<1>5. Spelled(p, cs) = FlattenSeq(s) /\ Spelled(p, Append(cs, c)) = FlattenSeq(t)
  BY DEF Spelled, all
<1> HIDE DEF s, t
<1>6. PICK g : IsFlat(g, t, n + 1) /\ FlattenSeq(t) = g[n + 1]
  BY <1>3, <1>4, FlattenIs
<1>7. n = 0 => g[n + 1] = t[n + 1]
  <2>1. n + 1 \in Nat \ {0}
    BY <1>4
  <2>2. g[1] = t[1]
    BY <1>6, <2>1, FlatFirst
  <2>3. n = 0 => n + 1 = 1
    OBVIOUS
  <2> QED BY <2>2, <2>3
<1>8. n # 0 => g[n + 1] = g[n] \o t[n + 1]
  <2>1. n # 0 => n \in 1..(n + 1) /\ n # n + 1 /\ n + 1 \in Nat
    BY <1>0
  <2> QED BY <1>4, <1>6, <2>1, FlatAt
<1>9. CASE n = 0
  <2>1. cs = <<>>
    BY <1>9 DEF n
  <2>2. Spelled(p, cs) = <<>>
    BY <2>1, SpelledNone
  <2>3. <<>> \o Text(p, c) = Text(p, c)
    BY TextType, ConcatEmptySeq DEF Bytes
  <2> QED BY <1>4, <1>5, <1>6, <1>7, <1>9, <2>2, <2>3
<1>10. CASE n # 0
  <2>1. PICK f : IsFlat(f, s, n) /\ FlattenSeq(s) = f[n]
    BY <1>0, <1>2, <1>10, FlattenIs
  <2>2. n \in 1..n /\ n <= n + 1
    BY <1>0, <1>10
  <2>3. \A i \in 1..n : f[i] = g[i]
    <3>1. n \in Nat /\ n + 1 \in Nat /\ \A i \in 1..n : s[i] = t[i]
      BY <1>0, <1>4
    <3> QED BY <1>6, <2>1, <2>2, <3>1, FlatAgree
  <2>4. f[n] = g[n]
    BY <2>2, <2>3
  <2> QED BY <1>4, <1>5, <1>6, <1>8, <1>10, <2>1, <2>4
<1> QED BY <1>9, <1>10

LEMMA SpelledType ==
  ASSUME NEW p \in Parms
  PROVE  \A cs \in Seq(Call) : Spelled(p, cs) \in Bytes
<1> DEFINE P == {cs \in Seq(Call) : Spelled(p, cs) \in Bytes}
<1>1. <<>> \in P
  <2>1. <<>> \in Seq(Call) /\ <<>> \in Bytes
    BY DEF Bytes
  <2> QED BY <2>1, SpelledNone
<1>2. ASSUME NEW cs \in Seq(Call), NEW c \in Call, cs \in P PROVE Append(cs, c) \in P
  <2>1. Spelled(p, Append(cs, c)) = Spelled(p, cs) \o Text(p, c)
    BY SpelledOne
  <2>2. Spelled(p, cs) \o Text(p, c) \in Bytes
    BY <1>2, TextType, ConcatProperties DEF Bytes
  <2>3. Append(cs, c) \in Seq(Call)
    BY AppendProperties
  <2> QED BY <2>1, <2>2, <2>3
<1> HIDE DEF P
<1>3. \A cs \in Seq(Call) : cs \in P
  BY <1>1, <1>2, AppendInduct
<1> QED BY <1>3 DEF P

\* A string and the tag found in it.
LEMMA FoundIs ==
  ASSUME NEW s \in Bytes, NEW tag \in Bytes, FindFirst(s, tag) # 0
  PROVE  LET i == FindFirst(s, tag) IN
         /\ s = (Before(s, i) \o tag) \o Behind(s, i, tag)
         /\ Before(s, i) \o tag \in Bytes
         /\ Len(tag) <= Len(Before(s, i) \o tag)
<1> DEFINE i == FindFirst(s, tag)
           e == i + Len(tag) - 1
<1>0. /\ i \in Nat \ {0} /\ Len(tag) \in Nat \ {0} /\ e <= Len(s)
      /\ Before(s, i) \in Bytes /\ Len(Before(s, i)) = i - 1
      /\ OccursAt(s, tag, i)
  BY Cut, Found
<1> HIDE DEF i
<1>1. /\ i \in Nat \ {0} /\ Len(tag) \in Nat \ {0} /\ e <= Len(s) /\ e \in Nat
      /\ Before(s, i) \in Bytes /\ Len(Before(s, i)) = i - 1
      /\ SubSeq(s, i, e) = tag /\ s \in Seq(Alphabet) /\ Len(s) \in Nat
  BY <1>0 DEF OccursAt, Bytes
<1>2. 1 \in 1..(Len(s) + 1) /\ i - 1 \in (1 - 1)..Len(s) /\ e \in (i - 1)..Len(s) /\ i - 1 + 1 = i
  BY <1>1
<1>3. e \in (1 - 1)..Len(s) /\ Len(s) \in e..Len(s) /\ e + 1 = i + Len(tag)
  BY <1>1
<1> HIDE DEF e
<1>4. SubSeq(s, 1, i - 1) \o SubSeq(s, i - 1 + 1, e) = SubSeq(s, 1, e)
  BY <1>1, <1>2, ConcatAdjacentSubSeq
<1>5. SubSeq(s, 1, e) \o SubSeq(s, e + 1, Len(s)) = SubSeq(s, 1, Len(s))
  BY <1>1, <1>2, <1>3, ConcatAdjacentSubSeq
<1>6. s = (Before(s, i) \o tag) \o Behind(s, i, tag)
  BY <1>1, <1>2, <1>3, <1>4, <1>5, Beginning DEF Before, Behind
<1>7. Before(s, i) \o tag \in Bytes /\ Len(Before(s, i) \o tag) = Len(Before(s, i)) + Len(tag)
  BY <1>1, ConcatProperties DEF Bytes
<1>8. Len(tag) <= Len(Before(s, i) \o tag)
  BY <1>1, <1>7
<1> QED BY <1>6, <1>7, <1>8 DEF i

Ends(s, t) == \E u \in Bytes : s = u \o t

(***************************************************************************)
(* IsReceipt of callbacks cs.                                              *)
(***************************************************************************)
MakeReceipt(cs, b, i, j) ==
  /\ cs[i].type = "START" \/ (i = 1 /\ b)
  /\ cs[j].type = "STOP" \/ j = Len(cs)
  /\ \A k \in i..(j - 1) : cs[k].type # "STOP"

\* The receipts among cs spell parts of the input in; there is only w behind
\* the one that is still open.
Receipts(p, cs, b, in, w) ==
  \A j \in DOMAIN cs : \A i \in 1..j :
    MakeReceipt(cs, b, i, j) =>
      \E u, v \in Bytes : /\ in = (u \o Spelled(p, SubSeq(cs, i, j))) \o v
                          /\ cs[j].type # "STOP" => v = w

\* A receipt is open.
StillOpen(cs) == cs # <<>> /\ cs[Len(cs)].type # "STOP"

LEMMA ReceiptParts ==
  ASSUME NEW p \in Parms, NEW cs \in Seq(Call), NEW j \in DOMAIN cs, NEW i \in 1..j
  PROVE  /\ SubSeq(cs, i, j) \in Seq(Call)
         /\ Spelled(p, SubSeq(cs, i, j)) \in Bytes
<1>1. SubSeq(cs, i, j) \in Seq(Call)
  <2>1. i \in Int /\ j \in Int /\ \A k \in i..j : cs[k] \in Call
    OBVIOUS
  <2> QED BY <2>1, SubSeqProperties
<1> QED BY <1>1, SpelledType

LEMMA Joined ==
  ASSUME NEW a \in Bytes, NEW b \in Bytes
  PROVE  a \o b \in Bytes /\ Len(a \o b) = Len(a) + Len(b) /\ Len(a) \in Nat /\ Len(b) \in Nat
BY ConcatProperties DEF Bytes

\* Three strings that are put together: the one form in which the associativity of
\* concatenation is used, so that it is used for these three only.
Three(a, b, c) == a \in Bytes /\ b \in Bytes /\ c \in Bytes

LEMMA Associate ==
  ASSUME NEW a, NEW b, NEW c, Three(a, b, c)
  PROVE  (a \o b) \o c = a \o (b \o c)
BY ConcatAssociative DEF Three, Bytes

\* More input.
LEMMA ReceiptsOfMore ==
  ASSUME NEW p \in Parms, NEW cs \in Seq(Call), NEW b, NEW in \in Bytes, NEW w \in Bytes,
         Receipts(p, cs, b, in, w),
         NEW t \in Bytes, NEW w2 \in Bytes, StillOpen(cs) => w2 = w \o t
  PROVE  Receipts(p, cs, b, in \o t, w2)
<1> SUFFICES ASSUME NEW j \in DOMAIN cs, NEW i \in 1..j, MakeReceipt(cs, b, i, j)
             PROVE  \E u, v \in Bytes : /\ in \o t = (u \o Spelled(p, SubSeq(cs, i, j))) \o v
                                        /\ cs[j].type # "STOP" => v = w2
  BY DEF Receipts
<1> DEFINE sp == Spelled(p, SubSeq(cs, i, j))
<1>1. PICK u \in Bytes, v \in Bytes : in = (u \o sp) \o v /\ (cs[j].type # "STOP" => v = w)
  BY DEF Receipts
<1>2. sp \in Bytes
  BY ReceiptParts
<1> HIDE DEF sp
<1>3. in \o t = (u \o sp) \o (v \o t) /\ v \o t \in Bytes
  <2>1. u \o sp \in Bytes /\ v \o t \in Bytes
    BY <1>2, Joined
  <2>2. ((u \o sp) \o v) \o t = (u \o sp) \o (v \o t)
    <3> DEFINE a == u \o sp
    <3>1. Three(a, v, t)
      BY <2>1 DEF Three
    <3> HIDE DEF a
    <3>2. (a \o v) \o t = a \o (v \o t)
      BY ONLY <3>1, Associate
    <3> QED BY <3>2 DEF a
  <2> QED BY <1>1, <2>1, <2>2
<1>4. cs[j].type # "STOP" => v \o t = w2
  <2>1. cs[j].type # "STOP" => j = Len(cs) /\ cs # <<>>
    BY DEF MakeReceipt
  <2> QED BY <1>1, <2>1 DEF StillOpen
<1> QED BY <1>3, <1>4 DEF sp

\* One callback more.
LEMMA ReceiptsOfOneMore ==
  ASSUME NEW p \in Parms, NEW cs \in Seq(Call), NEW c \in Call, NEW b, NEW in \in Bytes,
         NEW w \in Bytes, NEW w2 \in Bytes, Receipts(p, cs, b, in, w),
         \E x \in Bytes : in = (x \o Text(p, c)) \o w2,
         StillOpen(cs) => w = Text(p, c) \o w2
  PROVE  Receipts(p, Append(cs, c), b, in, w2)
<1> DEFINE all == Append(cs, c)
           n == Len(cs)
           t == Text(p, c)
<1>1. /\ n \in Nat /\ all \in Seq(Call) /\ Len(all) = n + 1 /\ DOMAIN all = 1..(n + 1) /\ DOMAIN cs = 1..n
      /\ all[n + 1] = c /\ \A k \in 1..n : all[k] = cs[k]
  BY AppendProperties
<1>2. t \in Bytes
  BY TextType
<1> HIDE DEF all
<1> SUFFICES ASSUME NEW j \in 1..(n + 1), NEW i \in 1..j, MakeReceipt(all, b, i, j)
             PROVE  \E u, v \in Bytes : /\ in = (u \o Spelled(p, SubSeq(all, i, j))) \o v
                                        /\ all[j].type # "STOP" => v = w2
  BY <1>1 DEF Receipts, all
<1> DEFINE Goal == \E u, v \in Bytes : /\ in = (u \o Spelled(p, SubSeq(all, i, j))) \o v
                                       /\ all[j].type # "STOP" => v = w2
<1>3. ASSUME NEW k \in 1..n, NEW l \in 1..k PROVE SubSeq(all, l, k) = SubSeq(cs, l, k)
  <2>1. l \in 1..Len(cs) /\ k \in 1..Len(cs) /\ <<c>> \in Seq(Call)
    BY <1>1
  <2>2. all = cs \o <<c>>
    BY AppendIsConcat DEF all
  <2> QED BY <2>1, <2>2, SubSeqOfConcat1
<1>4. CASE j # n + 1
  <2>1. j \in 1..n /\ j # Len(all)
    BY <1>1, <1>4
  <2>2. \A k \in i..j : k \in 1..n
    BY <2>1
  <2>3. MakeReceipt(cs, b, i, j) /\ all[j] = cs[j] /\ cs[j].type = "STOP"
    <3>1. j \in i..j /\ i \in i..j /\ \A k \in i..(j - 1) : k \in i..j
      BY <2>1
    <3>2. all[j] = cs[j] /\ all[i] = cs[i] /\ \A k \in i..(j - 1) : all[k] = cs[k]
      BY <1>1, <2>2, <3>1
    <3>3. cs[j].type = "STOP"
      BY <2>1, <3>2 DEF MakeReceipt
    <3> QED BY <3>2, <3>3 DEF MakeReceipt
  <2>4. j \in DOMAIN cs
    BY <1>1, <2>1
  <2>5. PICK u \in Bytes, v \in Bytes : in = (u \o Spelled(p, SubSeq(cs, i, j))) \o v
    BY <2>3, <2>4 DEF Receipts
  <2> QED BY <1>3, <2>1, <2>3, <2>5
<1>5. CASE j = n + 1 /\ i = n + 1
  <2>1. SubSeq(all, i, j) = <<c>>
    <3>1. n + 1 \in Int /\ \A k \in (n + 1)..(n + 1) : all[k] \in Call
      BY <1>1
    <3>2. /\ SubSeq(all, n + 1, n + 1) \in Seq(Call) /\ Len(SubSeq(all, n + 1, n + 1)) = 1
          /\ SubSeq(all, n + 1, n + 1)[1] = all[n + 1]
      BY <1>1, <3>1, SubSeqProperties
    <3>3. <<c>> \in Seq(Call) /\ Len(<<c>>) = 1 /\ <<c>>[1] = c
      OBVIOUS
    <3>4. SubSeq(all, n + 1, n + 1) = <<c>>
      <4> DEFINE one == SubSeq(all, n + 1, n + 1)
      <4>1. one \in Seq(Call) /\ Len(one) = 1 /\ one[1] = c
        BY <1>1, <3>2
      <4> HIDE DEF one
      <4>2. one = <<c>>
        BY ONLY <3>3, <4>1, SeqEqual
      <4> QED BY <4>2 DEF one
    <3> QED BY <1>5, <3>4
  <2>2. Spelled(p, <<c>>) = t
    <3>1. <<>> \in Seq(Call) /\ Append(<<>>, c) = <<c>>
      OBVIOUS
    <3>2. Spelled(p, Append(<<>>, c)) = Spelled(p, <<>>) \o t
      BY <3>1, SpelledOne
    <3> QED BY <1>2, <3>1, <3>2, SpelledNone, ConcatEmptySeq DEF Bytes
  <2>3. PICK x \in Bytes : in = (x \o t) \o w2
    OBVIOUS
  <2> QED BY <2>1, <2>2, <2>3
<1>6. CASE j = n + 1 /\ i # n + 1
  <2>1. n \in 1..n /\ i \in 1..n /\ n \in i..(j - 1) /\ n \in DOMAIN cs /\ j - 1 = n
    BY <1>1, <1>6
  <2>2. MakeReceipt(cs, b, i, n) /\ cs[n].type # "STOP"
    <3>1. \A k \in i..n : k \in 1..n /\ k \in i..(j - 1)
      BY <2>1
    <3>2. \A k \in i..n : cs[k].type # "STOP"
      BY <1>1, <3>1 DEF MakeReceipt
    <3>3. all[i] = cs[i] /\ (all[i].type = "START" \/ (i = 1 /\ b))
      BY <1>1, <2>1 DEF MakeReceipt
    <3>4. n \in i..n /\ \A k \in i..(n - 1) : k \in i..n
      BY <2>1
    <3> QED BY <3>2, <3>3, <3>4 DEF MakeReceipt
  <2> DEFINE sp == Spelled(p, SubSeq(cs, i, n))
  <2>3. PICK u \in Bytes, v \in Bytes : in = (u \o sp) \o v /\ v = w
    BY <2>1, <2>2 DEF Receipts
  <2>4. w = t \o w2
    <3>1. cs # <<>>
      BY <2>1
    <3> QED BY <2>2, <3>1 DEF StillOpen
  <2>5. SubSeq(all, i, j) = Append(SubSeq(cs, i, n), c)
    <3>1. i \in 1..Len(all) /\ j \in i..Len(all)
      BY <1>1, <1>6
    <3>2. SubSeq(all, i, j) = SubSeq(all, i, j - 1) \o <<all[j]>>
      BY <1>1, <3>1, SubSeqRecursiveSecond
    <3>3. SubSeq(all, i, j) = SubSeq(cs, i, n) \o <<c>>
      BY <1>1, <1>3, <1>6, <2>1, <3>2
    <3> QED BY <2>1, <3>3, ReceiptParts, AppendIsConcat
  <2>6. SubSeq(cs, i, n) \in Seq(Call) /\ sp \in Bytes
    BY <2>1, ReceiptParts
  <2>7. Spelled(p, SubSeq(all, i, j)) = sp \o t
    BY <2>5, <2>6, SpelledOne
  <2> HIDE DEF sp, t
  <2>8. (u \o sp) \o (t \o w2) = (u \o (sp \o t)) \o w2
    <3>1. (u \o sp) \o (t \o w2) = ((u \o sp) \o t) \o w2
      <4> DEFINE a == u \o sp
      <4>1. Three(a, t, w2)
        BY <1>2, <2>6, Joined DEF Three
      <4> HIDE DEF a
      <4>2. a \o (t \o w2) = (a \o t) \o w2
        BY ONLY <4>1, Associate
      <4> QED BY <4>2 DEF a
    <3>2. (u \o sp) \o t = u \o (sp \o t)
      <4>1. Three(u, sp, t)
        BY <1>2, <2>6 DEF Three
      <4> QED BY ONLY <4>1, Associate
    <3> QED BY <3>1, <3>2
  <2>9. in = (u \o Spelled(p, SubSeq(all, i, j))) \o w2
    BY <2>3, <2>4, <2>7, <2>8
  <2> QED BY <2>9
<1> QED BY <1>1, <1>4, <1>5, <1>6

\* Without a separator nothing is kept within a receipt, what is left to be
\* looked at is the end of what was received, and the receipts spell what was
\* received, up to what is left.
PlainInv ==
  ItemSep = <<>> /\ ~parm.converted /\ parm.line # "serial" =>
    /\ pc = "read" /\ started => buf = <<>>
    /\ pc = "read" /\ ~IsSerial => Ends(input, buf)
    /\ pc = "loop" => Ends(input, work)
    /\ Receipts(parm, calls, base, input, work)

\* The ends of strings.
LEMMA EndsItself ==
  ASSUME NEW s \in Bytes
  PROVE  Ends(s, s) /\ Ends(s, <<>>) /\ s \o <<>> = s /\ <<>> \o s = s /\ <<>> \in Bytes
<1>1. <<>> \in Bytes /\ s \o <<>> = s /\ <<>> \o s = s
  BY ConcatEmptySeq DEF Bytes
<1> QED BY <1>1 DEF Ends

LEMMA EndsLater ==
  ASSUME NEW s \in Bytes, NEW t \in Bytes, NEW w \in Bytes, Ends(s, t), Ends(t, w)
  PROVE  Ends(s, w)
<1>1. PICK u \in Bytes : s = u \o t
  BY DEF Ends
<1>2. PICK v \in Bytes : t = v \o w
  BY DEF Ends
<1>3. u \o (v \o w) = (u \o v) \o w
  <2>1. Three(u, v, w)
    BY DEF Three
  <2> QED BY ONLY <2>1, Associate
<1>4. u \o v \in Bytes
  BY Joined
<1> QED BY <1>1, <1>2, <1>3, <1>4 DEF Ends

LEMMA EndsWithMore ==
  ASSUME NEW s \in Bytes, NEW t \in Bytes, NEW w \in Bytes, Ends(s, t)
  PROVE  Ends(s \o w, t \o w)
<1>1. PICK u \in Bytes : s = u \o t
  BY DEF Ends
<1>2. (u \o t) \o w = u \o (t \o w)
  <2>1. Three(u, t, w)
    BY DEF Three
  <2> QED BY ONLY <2>1, Associate
<1> QED BY <1>1, <1>2 DEF Ends

\* A receipt is open while _has_started is set.
LEMMA OpenStarted ==
  ASSUME TypeInv, WellBracketed
  PROVE  StillOpen(calls) => started
BY DEF StillOpen, WellBracketed, Last

\* The steps of the two loops: a start tag is found,
LEMMA PlainStarts ==
  ASSUME TypeInv, WellBracketed, Ends(input, work), Receipts(parm, calls, base, input, work),
         ~started, FindFirst(work, Start) # 0
  PROVE  LET rest == Behind(work, FindFirst(work, Start), Start) IN
         /\ rest \in Bytes /\ Ends(input, rest)
         /\ Receipts(parm, Append(calls, START), base, input, rest)
<1> DEFINE i == FindFirst(work, Start)
           rest == Behind(work, i, Start)
           f == Before(work, i) \o Start
           t == Text(parm, START)
<1>0. parm \in Parms /\ work \in Bytes /\ input \in Bytes /\ calls \in Seq(Call) /\ Start \in Bytes
  BY Tags DEF TypeInv
<1>1. rest \in Bytes /\ Before(work, i) \in Bytes
  BY <1>0, Cut
<1>2. work = f \o rest /\ f \in Bytes
  BY <1>0, FoundIs
<1>3. START \in Call /\ START.type = "START"
  BY DEF START, Call, Bytes
<1>4. t = Start
  BY <1>3 DEF Text, Start
<1> HIDE DEF i, rest, f, t
<1>5. Ends(input, rest)
  <2>1. Ends(work, rest)
    BY <1>2 DEF Ends
  <2> QED BY <1>0, <1>1, <2>1, EndsLater
<1>6. \E x \in Bytes : input = (x \o t) \o rest
  <2>1. PICK x \in Bytes : input = x \o work
    BY DEF Ends
  <2>2. x \o (f \o rest) = (x \o f) \o rest
    <3>1. Three(x, f, rest)
      BY <1>1, <1>2 DEF Three
    <3> QED BY ONLY <3>1, Associate
  <2>3. x \o f = (x \o Before(work, i)) \o Start
    <3>1. f = Before(work, i) \o Start
      BY DEF f
    <3> DEFINE before == Before(work, i)
    <3>2. Three(x, before, Start)
      BY <1>0, <1>1 DEF Three
    <3> HIDE DEF before
    <3>3. x \o (before \o Start) = (x \o before) \o Start
      BY ONLY <3>2, Associate
    <3> QED BY <3>1, <3>3 DEF before
  <2>4. x \o Before(work, i) \in Bytes
    BY <1>1, Joined
  <2> QED BY <1>2, <1>4, <2>1, <2>2, <2>3, <2>4
<1>7. ~StillOpen(calls)
  BY OpenStarted
<1>8. Receipts(parm, Append(calls, START), base, input, rest)
  BY <1>0, <1>1, <1>3, <1>6, <1>7, ReceiptsOfOneMore DEF t
<1> QED BY <1>1, <1>5, <1>8 DEF rest, i

\* or what is read is an item,
LEMMA PlainItems ==
  ASSUME TypeInv, Ends(input, work), Receipts(parm, calls, base, input, work), started
  PROVE  Receipts(parm, Append(calls, ITEM(work)), base, input, <<>>)
<1>0. parm \in Parms /\ work \in Bytes /\ input \in Bytes /\ calls \in Seq(Call) /\ <<>> \in Bytes
  BY DEF TypeInv, Bytes
<1>1. ITEM(work) \in Call /\ Text(parm, ITEM(work)) = work
  BY <1>0 DEF ITEM, Call, Text
<1>2. PICK x \in Bytes : input = x \o work
  BY DEF Ends
<1>3. (x \o work) \o <<>> = x \o work /\ work \o <<>> = work
  BY <1>0, EndsItself, Joined
<1> HIDE DEF ITEM
<1> QED BY <1>0, <1>1, <1>2, <1>3, ReceiptsOfOneMore

\* or the stop tag is found.
LEMMA PlainStops ==
  ASSUME TypeInv, Ends(input, work), Receipts(parm, calls, base, input, work), started,
         NEW i, i = FindFirst(work, StopTag), i # 0
  PROVE  LET rest == Behind(work, i, StopTag)
             all == calls \o TextThenStop(i)
         IN /\ rest \in Bytes /\ Ends(input, rest)
            /\ all \in Seq(Call) /\ ~StillOpen(all)
            /\ Receipts(parm, all, base, input, rest)
<1> DEFINE rest == Behind(work, i, StopTag)
           text == Before(work, i)
           cs == IF i = 1 THEN calls ELSE Append(calls, ITEM(text))
<1>0. parm \in Parms /\ work \in Bytes /\ input \in Bytes /\ calls \in Seq(Call) /\ StopTag \in Bytes
  BY Tags DEF TypeInv
<1>1. rest \in Bytes /\ text \in Bytes /\ i \in Nat
  BY <1>0, Cut
<1>2. work = (text \o StopTag) \o rest
  BY <1>0, FoundIs
<1>3. i = 1 => text = <<>>
  BY SubSeqEmpty DEF Before
<1>4. /\ ITEM(text) \in Call /\ Text(parm, ITEM(text)) = text
      /\ STOP \in Call /\ STOP.type = "STOP" /\ Text(parm, STOP) = StopTag
  BY <1>1 DEF ITEM, STOP, Call, Text, Bytes, StopTag
<1>5. calls \o TextThenStop(i) = Append(cs, STOP)
  BY <1>0, <1>4 DEF TextThenStop
<1>6. cs \in Seq(Call)
  BY <1>0, <1>4, AppendProperties
<1> HIDE DEF rest, text, ITEM, STOP
<1> DEFINE stop == StopTag \o rest
<1>7. stop \in Bytes /\ work = text \o stop
  <2>1. (text \o StopTag) \o rest = text \o (StopTag \o rest)
    <3>1. Three(text, StopTag, rest)
      BY <1>0, <1>1 DEF Three
    <3> QED BY ONLY <3>1, Associate
  <2>2. StopTag \o rest \in Bytes
    BY <1>0, <1>1, Joined
  <2> QED BY <1>2, <2>1, <2>2
<1>8. PICK x \in Bytes : input = x \o work
  BY DEF Ends
<1> HIDE DEF stop
<1>9. x \o text \in Bytes /\ input = (x \o text) \o stop
  <2>1. (x \o text) \o stop = x \o (text \o stop)
    <3>1. Three(x, text, stop)
      BY <1>1, <1>7 DEF Three
    <3> QED BY ONLY <3>1, Associate
  <2>2. x \o text \in Bytes
    BY Zenon, <1>1, Joined
  <2> QED BY <1>7, <1>8, <2>1, <2>2
<1>10. Receipts(parm, cs, base, input, stop)
  <2>1. CASE i = 1
    <3>1. work = stop
      BY <1>3, <1>7, <2>1, EndsItself
    <3> QED BY <2>1, <3>1
  <2>2. CASE i # 1
    <3>1. Receipts(parm, Append(calls, ITEM(text)), base, input, stop)
      BY <1>0, <1>4, <1>7, <1>9, ReceiptsOfOneMore
    <3> QED BY <2>2, <3>1
  <2> QED BY <2>1, <2>2
<1>11. input = ((x \o text) \o StopTag) \o rest /\ (x \o text) \o StopTag \in Bytes
  <2> DEFINE y == x \o text
  <2>1. y \in Bytes /\ input = y \o stop
    BY <1>9
  <2> HIDE DEF y
  <2>2. y \o (StopTag \o rest) = (y \o StopTag) \o rest
    <3>1. Three(y, StopTag, rest)
      BY <1>0, <1>1, <2>1 DEF Three
    <3> QED BY ONLY <3>1, Associate
  <2>3. y \o StopTag \in Bytes
    BY <1>0, <2>1, Joined
  <2>4. input = (y \o StopTag) \o rest
    BY <2>1, <2>2 DEF stop
  <2> QED BY <2>3, <2>4 DEF y
<1> HIDE DEF cs
<1>12. Receipts(parm, Append(cs, STOP), base, input, rest)
  BY <1>0, <1>1, <1>4, <1>6, <1>7, <1>9, <1>10, <1>11, ReceiptsOfOneMore DEF stop
<1>13. Append(cs, STOP) \in Seq(Call) /\ ~StillOpen(Append(cs, STOP))
  BY <1>4, <1>6, AppendProperties DEF StillOpen
<1>14. Ends(input, rest)
  BY <1>11 DEF Ends
<1> QED BY <1>1, <1>5, <1>12, <1>13, <1>14 DEF rest

\* A history that has just begun.
LEMMA NoReceipts ==
  ASSUME NEW p, NEW b, NEW w
  PROVE  Receipts(p, <<>>, b, <<>>, w) /\ Ends(<<>>, <<>>)
<1>1. <<>> \in Bytes /\ <<>> \o <<>> = <<>>
  BY EndsItself DEF Bytes
<1> QED BY <1>1 DEF Receipts, Ends

LEMMA NetPlain ==
  ASSUME TypeInv, SizeInv, WellBracketed, PlainInv, Next, parm' = parm, ~IsSerial
  PROVE  PlainInv'
<1> SUFFICES ASSUME ItemSep = <<>>, ~parm.converted, parm.line # "serial"
             PROVE  PlainInv'
  BY DEF PlainInv, ItemSep
<1>0. /\ parm \in Parms /\ work \in Bytes /\ buf \in Bytes /\ input \in Bytes /\ <<>> \in Bytes
      /\ calls \in Seq(Call) /\ (pc = "read" => work = <<>>) /\ started \in BOOLEAN
      /\ Receipts(parm, calls, base, input, work)
      /\ StillOpen(calls) => started
      /\ Start \in Bytes /\ Start # <<>> /\ Start' = Start /\ ~IsSerial'
  BY Tags, OpenStarted DEF TypeInv, PlainInv, Bytes, Start, IsSerial
<1>1. ASSUME pc' = "read", started' => buf' = <<>>, Ends(input', buf'),
             Receipts(parm, calls', base', input', work')
      PROVE  PlainInv'
  BY <1>1 DEF PlainInv, Ends
<1>2. ASSUME pc' = "loop", Receipts(parm, calls', base', input', work'), Ends(input', work')
      PROVE  PlainInv'
  BY <1>2 DEF PlainInv, Ends
\* A history begins.
<1>3. ASSUME pc' = "read", CutHistory(started), buf' = <<>> PROVE PlainInv'
  BY <1>1, <1>3, NoReceipts DEF CutHistory
\* The loop returns.
<1>4. ASSUME pc = "loop", NEW rest \in Bytes, NEW left, Leave(rest, left), Ends(work, rest),
             started => rest = <<>> /\ work = <<>>
      PROVE  PlainInv'
  <2>1. pc' = "read" /\ UNCHANGED started /\ work' = <<>>
    BY <1>4 DEF Leave
  <2>2. CASE left = MaxLine
    BY <1>3, <1>4, <2>1, <2>2 DEF Leave
  <2>3. CASE left # MaxLine
    <3>1. buf' = rest /\ UNCHANGED <<calls, input, base>>
      BY <1>4, <2>3 DEF Leave, Moved, history
    <3>2. Ends(input, rest)
      BY <1>0, <1>4, EndsLater DEF PlainInv
    <3>3. Receipts(parm, calls, base, input, <<>>)
      <4>1. input \o <<>> = input /\ <<>> \o <<>> = <<>>
        BY <1>0, EndsItself
      <4>2. StillOpen(calls) => <<>> = work \o <<>>
        BY <1>0, <1>4, <4>1
      <4>3. Receipts(parm, calls, base, input \o <<>>, <<>>)
        BY <1>0, <4>2, ReceiptsOfMore
      <4> QED BY <4>1, <4>3
    <3> QED BY <1>1, <1>4, <2>1, <3>1, <3>2, <3>3
  <2> QED BY <2>2, <2>3
\* The loop goes on behind a tag.
<1>5. ASSUME pc = "loop", NEW i, NEW tag, GoOn(i, tag), Ends(input, Behind(work, i, tag)),
             Receipts(parm, calls', base, input, Behind(work, i, tag))
      PROVE  PlainInv'
  BY <1>2, <1>5 DEF GoOn, history
<1>6. ASSUME NEW chunk \in Chunks, Receive(chunk) PROVE PlainInv'
  <2>1. /\ pc = "read" /\ pc' = "loop" /\ work' = buf \o chunk /\ input' = input \o chunk
        /\ UNCHANGED <<parm, started, calls, base>> /\ chunk \in Bytes
    BY <1>6, Chunk DEF Receive, Handed, Known
  <2>2. started => buf = <<>>
    BY <2>1 DEF PlainInv
  <2>3. Receipts(parm, calls, base, input \o chunk, buf \o chunk)
    <3>1. buf \o chunk \in Bytes
      BY <1>0, <2>1, Joined
    <3>2. StillOpen(calls) => buf \o chunk = work \o chunk
      BY <1>0, <2>1, <2>2
    <3> QED BY <1>0, <2>1, <3>1, <3>2, ReceiptsOfMore
  <2>4. Ends(input \o chunk, buf \o chunk)
    BY <1>0, <2>1, EndsWithMore DEF PlainInv
  <2> QED BY <1>2, <2>1, <2>3, <2>4
\* What is left, and how long it is.
<1>s. pc = "loop" => Ends(input, work) /\ size = Len(work)
  BY DEF PlainInv, SizeInv, NetSizeInv
<1>7. CASE LoopEnds
  <2>1. pc = "loop" /\ Leave(<<>>, 0) /\ Len(work) = 0
    BY <1>s, <1>7 DEF LoopEnds
  <2>2. work = <<>>
    BY <1>0, <2>1 DEF Bytes
  <2> QED BY <1>0, <1>4, <2>1, <2>2, EndsItself
<1>8. CASE StartShort
  BY <1>0, <1>4, <1>8, EndsItself DEF StartShort, InLoop
<1>9. CASE StartMissing
  <2>1. /\ Len(work) >= Len(Start) /\ Leave(Kept(work), Len(Start) - 1)
        /\ ~started /\ pc = "loop"
    BY <1>s, <1>9 DEF StartMissing, InLoop
  <2>2. Ends(work, Kept(work))
    BY <2>1, KeptEnds DEF Ends
  <2> QED BY <1>4, <2>1, <2>2, KeptPart
<1>10. CASE StartFound
  <2>1. /\ pc = "loop" /\ ~started /\ FindFirst(work, Start) # 0 /\ calls' = Append(calls, START)
        /\ GoOn(FindFirst(work, Start), Start)
    BY <1>10 DEF StartFound, InLoop
  <2> QED BY <1>0, <1>s, <1>5, <2>1, PlainStarts
<1>11. CASE PlainItem
  <2>1. /\ pc = "loop" /\ started /\ calls' = Append(calls, ITEM(work))
        /\ pc' = "read" /\ work' = <<>> /\ buf' = <<>> /\ UNCHANGED <<parm, started, input, base>>
    BY <1>11 DEF PlainItem, InLoop, history
  <2>2. Receipts(parm, calls', base', input', work')
    BY <1>0, <1>s, <2>1, PlainItems
  <2> QED BY <1>0, <1>1, <2>1, <2>2, EndsItself
<1>12. CASE PlainStop
  <2> DEFINE i == FindFirst(work, StopTag)
  <2>1. /\ pc = "loop" /\ started /\ i # 0 /\ calls' = calls \o TextThenStop(i)
        /\ GoOn(i, StopTag)
    BY <1>12 DEF PlainStop, InLoop
  <2>2. LET rest == Behind(work, i, StopTag)
        IN rest \in Bytes /\ Ends(input, rest) /\ Receipts(parm, calls', base, input, rest)
    BY <1>0, <1>s, <2>1, PlainStops
  <2> HIDE DEF i
  <2> QED BY <1>5, <2>1, <2>2
<1>13. CASE ItemShort \/ ItemEmpty \/ ItemFound
  BY <1>13 DEF ItemShort, ItemEmpty, ItemFound
<1>14. CASE NewSession
  BY <1>3, <1>14 DEF NewSession
<1> QED BY <1>6, <1>7, <1>8, <1>9, <1>10, <1>11, <1>12, <1>13, <1>14 DEF Next, Loop

LEMMA SerialPlains ==
  ASSUME TypeInv, SizeInv, WellBracketed, PlainInv, SerialNext, parm' = parm, IsSerial
  PROVE  PlainInv'
<1> SUFFICES ASSUME ItemSep = <<>>, ~parm.converted, parm.line # "serial"
             PROVE  PlainInv'
  BY DEF PlainInv, ItemSep
<1>0. /\ parm \in Parms /\ work \in Bytes /\ buf \in Bytes /\ input \in Bytes /\ <<>> \in Bytes
      /\ calls \in Seq(Call) /\ (pc = "read" => work = <<>>) /\ started \in BOOLEAN
      /\ Receipts(parm, calls, base, input, work)
      /\ StillOpen(calls) => started
      /\ Start \in Bytes /\ Start # <<>> /\ IsSerial'
  BY Tags, OpenStarted DEF TypeInv, PlainInv, Bytes, IsSerial
<1>1. ASSUME pc' = "read", started' => buf' = <<>>,
             Receipts(parm, calls', base', input', work')
      PROVE  PlainInv'
  BY <1>0, <1>1 DEF PlainInv
<1>2. ASSUME pc' = "loop", Receipts(parm, calls', base', input', work'), Ends(input', work')
      PROVE  PlainInv'
  BY <1>2 DEF PlainInv, Ends
<1>3. ASSUME pc' = "read", Forgets PROVE PlainInv'
  <2>1. buf' = <<>> /\ calls' = <<>> /\ input' = <<>>
    BY <1>3, Forgotten
  <2> QED BY <1>1, <1>3, <2>1, NoReceipts
<1>4. SerialLoop => pc = "loop" /\ Ends(input, work)
  BY DEF SerialLoop, PlainInv
\* The loop returns with what it has not looked at.
<1>5. ASSUME SerialLoop, SerialLeave(work), UNCHANGED <<started, calls>>, started => work = <<>>
      PROVE  PlainInv'
  <2>1. input \o <<>> = input /\ <<>> \o <<>> = <<>>
    BY <1>0, EndsItself
  <2>2. StillOpen(calls) => <<>> = work \o <<>>
    BY <1>0, <1>5, <2>1
  <2>3. Receipts(parm, calls, base, input \o <<>>, <<>>)
    BY <1>0, <2>2, ReceiptsOfMore
  <2> QED BY <1>1, <1>4, <1>5, <2>1, <2>3 DEF SerialLeave, history
<1>6. ASSUME NEW chunk \in Chunks, Pos485String(chunk) PROVE PlainInv'
  <2>0. pc = "read" /\ chunk \in Bytes
    BY <1>6, Chunk DEF Pos485String
  <2>1. CASE Len(buf) + Len(chunk) >= MaxLine
    BY <1>3, <1>6, <2>0, <2>1 DEF Pos485String
  <2>2. CASE ~(Len(buf) + Len(chunk) >= MaxLine)
    <3>1. /\ pc' = "loop" /\ work' = Held(chunk) /\ input' = input \o chunk
          /\ UNCHANGED <<parm, started, calls, base>>
      BY <1>6, <2>2, Handing
    <3>2. Held(chunk) = chunk /\ work \o chunk = chunk
      BY <1>0, <2>0, EndsItself DEF Held, PlainInv
    <3>3. Receipts(parm, calls, base, input \o chunk, chunk)
      BY <1>0, <2>0, <3>2, ReceiptsOfMore
    <3>4. Ends(input \o chunk, chunk)
      BY <1>0 DEF Ends
    <3> QED BY <1>2, <2>0, <3>1, <3>2, <3>3, <3>4
  <2> QED BY <2>1, <2>2
<1>7. CASE SerialEnds
  <2>1. SerialLoop /\ size = 0 /\ SerialLeave(work) /\ UNCHANGED <<started, calls>>
    BY <1>7 DEF SerialEnds
  <2>2. size = Len(work)
    BY <1>4, <2>1 DEF SizeInv, SerialSizeInv, IsSerial
  <2>3. work = <<>>
    BY <1>0, <2>1, <2>2 DEF Bytes
  <2> QED BY <1>5, <2>1, <2>3
<1>8. CASE SerialWaits
  BY <1>5, <1>8 DEF SerialWaits
<1>9. CASE SerialStart
  <2>1. /\ SerialLoop /\ ~started /\ FindFirst(work, Start) # 0 /\ calls' = Append(calls, START)
        /\ SerialGoOn(Behind(work, 1, Start), SizeBehind(FindFirst(work, Start), Start))
    BY <1>9 DEF SerialStart
  <2>2. FindFirst(work, Start) = 1
    <3>1. IsPrefix(Start, work)
      BY <1>4, <2>1 DEF SizeInv, SerialSizeInv, IsSerial
    <3> QED BY <1>0, <3>1, PrefixFound
  <2>3. /\ pc' = "loop" /\ work' = Behind(work, FindFirst(work, Start), Start)
        /\ UNCHANGED <<input, base>>
    BY <1>4, <2>1, <2>2 DEF SerialGoOn, history
  <2>4. work' \in Bytes /\ Ends(input', work') /\ Receipts(parm, calls', base', input', work')
    BY <1>0, <1>4, <2>1, <2>3, PlainStarts
  <2> QED BY <1>2, <2>3, <2>4
<1>10. CASE SerialPlain
  <2> DEFINE i == FindFirst(work, StopTag)
  <2>1. /\ SerialLoop /\ started /\ SerialLeave(<<>>)
        /\ IF i = 0 THEN calls' = Append(calls, ITEM(work)) ELSE calls' = calls \o TextThenStop(i)
    BY <1>10 DEF SerialPlain
  <2>2. pc' = "read" /\ buf' = <<>> /\ work' = <<>> /\ UNCHANGED <<input, base>>
    BY <2>1 DEF SerialLeave, history
  <2>3. Receipts(parm, calls', base, input, <<>>)
    <3>1. CASE i = 0
      BY <1>0, <1>4, <2>1, <3>1, PlainItems
    <3>2. CASE i # 0
      <4>1. PICK rest \in Bytes : /\ calls' \in Seq(Call) /\ ~StillOpen(calls')
                                  /\ Receipts(parm, calls', base, input, rest)
        BY <1>0, <1>4, <2>1, <3>2, PlainStops
      <4>2. input \o <<>> = input
        BY <1>0, EndsItself
      <4>3. Receipts(parm, calls', base, input \o <<>>, <<>>)
        BY <1>0, <4>1, ReceiptsOfMore
      <4> QED BY <4>2, <4>3
    <3> QED BY <3>1, <3>2
  <2> QED BY <1>1, <1>4, <2>1, <2>2, <2>3
<1>11. CASE SerialItem
  BY <1>11 DEF SerialItem
<1>12. CASE Config
  BY <1>3, <1>12 DEF Config
<1> QED BY <1>6, <1>7, <1>8, <1>9, <1>10, <1>11, <1>12 DEF SerialNext

LEMMA InitPlain == Init => PlainInv
<1> SUFFICES ASSUME Init PROVE PlainInv
  OBVIOUS
<1>1. pc = "read" /\ buf = <<>> /\ calls = <<>> /\ input = <<>>
  BY DEF Init
<1>2. Receipts(parm, calls, base, input, work) /\ Ends(input, buf)
  BY <1>1, NoReceipts
<1> QED BY <1>1, <1>2 DEF PlainInv

LEMMA StepPlain == Inv /\ PlainInv /\ [LineNext]_vars => PlainInv'
<1> SUFFICES ASSUME Inv, PlainInv, [LineNext]_vars PROVE PlainInv'
  OBVIOUS
<1> USE DEF Inv
<1>1. CASE SerialNext
  <2>1. parm' = parm /\ IsSerial
    BY <1>1, SerialStep, SerialActs
  <2> QED BY <1>1, <2>1, SerialPlains
<1>2. CASE ~IsSerial /\ Next
  <2>1. parm' = parm
    BY <1>2, NetStep
  <2> QED BY <1>2, <2>1, NetPlain
<1>3. CASE UNCHANGED vars
  <2>1. UNCHANGED <<parm, buf, started, work, pc, calls, input, base>>
    BY <1>3 DEF vars, history
  <2> QED BY <2>1 DEF PlainInv, Ends, IsSerial, ItemSep
<1> QED BY <1>1, <1>2, <1>3 DEF LineNext

\* Without a separator no byte of a receipt is lost, repeated or moved: the
\* callbacks of a receipt, one after the other, spell a part of the input,
\* and those of the receipt that is still open spell its end.
THEOREM NoByteLost == LineSpec => []NothingLost
<1>1. Inv /\ PlainInv => NothingLost
  <2> SUFFICES ASSUME Inv, PlainInv, pc = "read", ItemSep = <<>>,
                      ~parm.converted, parm.line # "serial",
                      NEW j \in DOMAIN calls, NEW i \in 1..j, IsReceipt(i, j)
               PROVE  \E n \in IF calls[j].type = "STOP" THEN 0..Len(input) ELSE {Len(input)} :
                        IsSuffix(Spelled(parm, SubSeq(calls, i, j)), SubSeq(input, 1, n))
    BY DEF NothingLost
  <2> DEFINE sp == Spelled(parm, SubSeq(calls, i, j))
  <2>1. parm \in Parms /\ calls \in Seq(Call) /\ input \in Bytes /\ work = <<>>
    BY DEF Inv, TypeInv
  <2>2. MakeReceipt(calls, base, i, j) /\ Receipts(parm, calls, base, input, work)
    BY DEF IsReceipt, MakeReceipt, PlainInv
  <2>3. PICK u \in Bytes, v \in Bytes : input = (u \o sp) \o v /\ (calls[j].type # "STOP" => v = work)
    BY <2>2 DEF Receipts
  <2>4. sp \in Bytes
    BY <2>1, ReceiptParts
  <2> HIDE DEF sp
  <2> DEFINE s == u \o sp
             n == Len(s)
  <2>5. IsSuffix(sp, s)
    BY <2>4, EndIsSuffix
  <2>6. s \in Bytes /\ input = s \o v
    BY <2>3, <2>4, Joined
  <2> HIDE DEF s
  <2>7. /\ n \in Nat /\ Len(v) \in Nat /\ Len(input) = n + Len(v) /\ input \in Seq(Alphabet)
        /\ \A k \in 1..(n + Len(v)) : input[k] = IF k <= n THEN s[k] ELSE v[k - n]
    BY <2>1, <2>6, ConcatProperties DEF Bytes
  <2>8. SubSeq(input, 1, n) = s
    <3>1. n <= Len(input)
      BY <2>7
    <3>2. /\ SubSeq(input, 1, n) \in Seq(Alphabet) /\ Len(SubSeq(input, 1, n)) = n
          /\ \A k \in 1..n : SubSeq(input, 1, n)[k] = input[k]
      BY <2>7, <3>1, FrontPart
    <3>3. \A k \in 1..n : SubSeq(input, 1, n)[k] = s[k]
      <4>1. \A k \in 1..n : k \in 1..(n + Len(v)) /\ k <= n
        BY <2>7
      <4> QED BY <2>7, <3>2, <4>1
    <3> QED BY <2>6, <3>2, <3>3, SeqEqual DEF Bytes
  <2>9. n \in 0..Len(input) /\ (calls[j].type # "STOP" => n = Len(input))
    <3>1. calls[j].type # "STOP" => Len(v) = 0
      BY <2>1, <2>3
    <3> QED BY <2>7, <3>1
  <2>10. IsSuffix(sp, SubSeq(input, 1, n))
    BY <2>5, <2>8
  <2> HIDE DEF n
  <2> QED BY <2>9, <2>10 DEF sp
<1> QED BY <1>1, InitInv, StepInv, InitPlain, StepPlain, PTL DEF LineSpec
=============================================================================
