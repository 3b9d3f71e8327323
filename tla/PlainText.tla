------------------------------ MODULE PlainText ------------------------------
(***************************************************************************)
(* Plain text: remove_extra_space, which pos_net and the serial parser     *)
(* each have a copy of, and the two handlers that call it.                 *)
(*                                                                         *)
(* A text is a sequence of characters without the NUL that ends it.        *)
(***************************************************************************)
EXTENDS Naturals, Sequences

CONSTANTS Space, Newline, Letter  \* the characters that are told apart

ASSUME CharAssumption == Space # Newline /\ Newline # Letter /\ Letter # Space

Char == {Space, Newline, Letter}

-----------------------------------------------------------------------------
(***************************************************************************)
(* The loop works in place: txt is read at i and written at ps, and the    *)
(* run of spaces from pm to pe waits there until the character behind it   *)
(* tells whether it is kept.  Indexes count from 1.                        *)
(***************************************************************************)
Scan0(txt) == [txt |-> txt, ps |-> 1, pm |-> 1, pe |-> 1, matching |-> FALSE]

Put(s, c) == [s EXCEPT !.txt[s.ps] = c, !.ps = s.ps + 1]

\* The first n characters of the run, moved to ps.
Moved(s, n) ==
  LET move[k \in 0..n] ==
        IF k = 0 THEN s ELSE Put(move[k - 1], move[k - 1].txt[s.pm + k - 1])
  IN move[n]

\* Variant for a mutant run: the last space of a run is left out.
MoveRunShort(s) == Moved(s, s.pe - s.pm)

MoveRun(s) == Moved(s, s.pe - s.pm + 1)

SpaceAt(s, i) ==
  IF s.matching THEN [s EXCEPT !.pe = i]
  ELSE [s EXCEPT !.matching = TRUE, !.pm = i, !.pe = i]

OtherAt(s, i) ==
  LET run == IF s.matching /\ s.txt[i] # Newline THEN MoveRun(s) ELSE s
      at  == [run EXCEPT !.matching = FALSE, !.pm = i, !.pe = i]
  IN Put(at, at.txt[i])

Scan(s, i) == IF s.txt[i] = Space THEN SpaceAt(s, i) ELSE OtherAt(s, i)

RemoveExtraSpace(txt) ==
  LET scan[i \in 0..Len(txt)] == IF i = 0 THEN Scan0(txt) ELSE Scan(scan[i - 1], i)
      end == scan[Len(txt)]
  IN SubSeq(end.txt, 1, end.ps - 1)

-----------------------------------------------------------------------------
(***************************************************************************)
(* The items of one message: none or one.  pos_net counts the NUL that     *)
(* remove_extra_space puts behind the text and so calls back even when     *)
(* nothing is left; the serial parser measures the text again.             *)
(***************************************************************************)
OnDataPlaintext(txt) == <<RemoveExtraSpace(txt)>>

Pos485Plain(txt) ==
  LET rest == RemoveExtraSpace(txt)
  IN IF Len(rest) > 0 THEN <<rest>> ELSE <<>>

-----------------------------------------------------------------------------
\* The reference: a space is extra when only spaces stand between it and the
\* end of its line or of the text.
ExtraSpace(txt, i) ==
  /\ txt[i] = Space
  /\ \A j \in i..Len(txt) :
        txt[j] = Letter => \E k \in i..j : txt[k] = Newline

WithoutExtraSpace(txt) ==
  LET kept[i \in 0..Len(txt)] ==
        IF i = 0 THEN <<>>
        ELSE IF ExtraSpace(txt, i) THEN kept[i - 1] ELSE Append(kept[i - 1], txt[i])
  IN kept[Len(txt)]
=============================================================================
