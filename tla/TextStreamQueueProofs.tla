------------------------- MODULE TextStreamQueueProofs -------------------------
(***************************************************************************)
(* Proofs about TextStreamQueue, for any texts, any numbers of rows and any*)
(* count that clears the display.                                          *)
(*                                                                         *)
(* Rows have a place to be drawn at because what is to be drawn is drawn   *)
(* before the canvas can shrink (DrawInv).  The thread is gone when the    *)
(* canvas is deleted because its flag says where it is (StopInv).  While   *)
(* the threads stay apart, the count is never ahead of the sleeps since the*)
(* last text (AgeInv), and while the composition stays too, what the canvas*)
(* and the overlay lack of the rows is what is marked to be drawn (ShowInv)*)
(***************************************************************************)
EXTENDS TextStreamQueue, TLAPS, SequenceTheorems

-----------------------------------------------------------------------------
(***************************************************************************)
(* The inductive invariants.                                               *)
(***************************************************************************)
\* All that Update has drawn is drawn.
Drawn == \A r \in DOMAIN rows : ~Redrawn(r)

\* The types, without what follows from DrawInv.
TypeInv ==
  /\ mode \in Modes /\ bound \in BOOLEAN /\ maxRows \in RowCounts
  /\ rows \in BoundedSeq(Lines, Max(RowCounts))
  /\ changed \in [Rows -> BOOLEAN] /\ scrolled \in BOOLEAN
  /\ canvas \in [Rows -> SUBSET Lines] /\ shown \in [Rows -> SUBSET Lines]
  /\ tick \in Nat /\ loaded \in Nat /\ age \in 0..ClearTicks
  /\ need \in BOOLEAN /\ end \in BOOLEAN /\ composing \in BOOLEAN /\ missed \in BOOLEAN
  /\ appender \in {"idle", "draw", "push"}
  /\ thread \in {"none", "created", "top", "sleep", "store", "test", "clear",
                 "forget", "draw", "push"}
  /\ owner \in {"idle", "waiting", "stopped", "resized", "starting", "destroyed"}
  /\ appender # "idle" => owner = "idle"

\* With a channel bound all the time, what is not drawn yet is a text that
\* fits, or rows that a smaller font has added.
DrawInv ==
  ~mode.unbound =>
    /\ bound
    /\ appender # "draw" /\ owner # "resized" => Drawn
    /\ appender = "draw" => Len(rows) <= maxRows
    /\ \A r \in DOMAIN rows : Redrawn(r) => r <= maxRows

\* The flag of the thread says whether it is in its loop, and StopComposing
\* waits for a thread that is; one that had not begun it may miss.
StopInv ==
  /\ composing = (thread \notin {"none", "created"})
  /\ owner = "waiting" /\ ~missed => thread # "created"
  /\ owner \in {"stopped", "resized", "destroyed"} /\ ~missed => thread = "none"
  /\ owner = "starting" => thread = "none"

\* A count that has not reached ClearTicks later than the sleeps allow.
Old(count) == count <= age + 1 \/ age = ClearTicks

\* The thread works on the rows while the appender does not.
Apart == thread \notin {"none", "created", "top", "sleep"} => appender = "idle"

AgeInv ==
  ~mode.interleaved =>
    /\ Apart
    /\ appender # "draw" => Old(tick)
    /\ thread = "store" => Old(loaded + 1)
    /\ thread \in {"clear", "forget"} => age >= ClearTicks - 1

\* What Update will draw is what the canvas lacks.
Drawable ==
  scrolled \/ \A r \in Rows :
    canvas[r] = IF r <= Len(rows) /\ ~changed[r] THEN {rows[r]} ELSE {}

Done == canvas = Picture /\ Drawn /\ ~scrolled

ShowInv ==
  ~mode.interleaved /\ ~mode.reconfigured =>
    /\ owner = "idle" /\ Apart
    /\ appender = "draw" => Drawable
    /\ appender = "push" \/ thread = "push" => Done
    /\ appender = "idle" /\ thread \notin {"forget", "draw"} => Done
    /\ thread = "forget" => canvas = Blank
    /\ thread = "draw" => canvas = Blank /\ rows = <<>>
    /\ Quiet => shown = IF bound THEN Picture ELSE Blank

Inv == TypeInv /\ DrawInv /\ AgeInv /\ ShowInv

-----------------------------------------------------------------------------
(***************************************************************************)
(* Lemmas on the operators that a step is built from.                      *)
(***************************************************************************)
\* Max(RowCounts) is the number of rows of the largest canvas.
LEMMA LargestCanvas ==
  /\ Max(RowCounts) \in RowCounts /\ Max(RowCounts) \in Nat \ {0}
  /\ \A n \in RowCounts : n \in Rows
<1>1. PICK n \in RowCounts : \A m \in RowCounts : n >= m
  BY RowsAssumption
<1>2. Max(RowCounts) \in RowCounts /\ \A m \in RowCounts : Max(RowCounts) >= m
  BY <1>1 DEF Max
<1>3. Max(RowCounts) \in Nat \ {0} /\ \A m \in RowCounts : m \in Nat \ {0}
  BY <1>2, RowsAssumption
<1> QED BY <1>2, <1>3 DEF Rows

\* Rows of text that fit on the largest canvas.
LEMMA RowsOfText ==
  ASSUME NEW s
  PROVE  s \in BoundedSeq(Lines, Max(RowCounts)) <=>
           s \in Seq(Lines) /\ Len(s) \in 0..Max(RowCounts)
<1>1. Max(RowCounts) \in Nat
  BY LargestCanvas
<1>2. s \in BoundedSeq(Lines, Max(RowCounts))
      <=> \E n \in 0..Max(RowCounts) : s \in [1..n -> Lines]
  BY DEF BoundedSeq, SeqOf
<1>3. ASSUME NEW n \in 0..Max(RowCounts), s \in [1..n -> Lines]
      PROVE  s \in Seq(Lines) /\ Len(s) = n
  <2>1. n \in Nat
    BY <1>1, <1>3
  <2> QED BY <1>3, <2>1
<1> QED BY <1>1, <1>2, <1>3

\* A text that is appended leaves no more rows than the canvas has, and keeps
\* the place of each row unless it scrolls.
LEMMA Appended ==
  ASSUME TypeInv, NEW text \in Texts, AppendText(text)
  PROVE  /\ rows' \in Seq(Lines) /\ Len(rows') \in 1..maxRows
         /\ scrolled' \in BOOLEAN /\ changed' \in [Rows -> BOOLEAN]
         /\ ~scrolled' => /\ ~scrolled
                          /\ Len(rows) <= Len(rows')
                          /\ \A r \in 1..Len(rows) : rows'[r] = rows[r]
                          /\ \A r \in Rows : changed'[r] <=>
                               changed[r] \/ r \in Len(rows) + 1 .. Len(rows')
<1> DEFINE n    == Len(text)
           gone == Removed(n)
           kept == SubSeq(rows, gone + 1, Len(rows))
<1>1. text \in Seq(Lines) /\ n \in Nat \ {0}
  <2>1. PICK m \in Rows : text \in [1..m -> Lines]
    BY DEF Texts
  <2>2. m \in Nat \ {0}
    BY LargestCanvas DEF Rows
  <2> QED BY <2>1, <2>2
<1>2. rows \in Seq(Lines) /\ Len(rows) \in Nat /\ maxRows \in Nat
  BY RowsOfText, LargestCanvas DEF TypeInv, Rows
<1>3. n <= maxRows
  BY DEF AppendText
<1>4. gone \in 0..Len(rows) /\ Len(rows) - gone + n <= maxRows
  BY <1>1, <1>2, <1>3 DEF Removed
<1>5. kept \in Seq(Lines) /\ Len(kept) = Len(rows) - gone
      /\ \A i \in 1..Len(kept) : kept[i] = rows[gone + i]
  <2>1. gone + 1 \in Int /\ Len(rows) \in Int /\ \A i \in gone + 1 .. Len(rows) : rows[i] \in Lines
    BY <1>2, <1>4
  <2> HIDE DEF gone
  <2>2. /\ kept \in Seq(Lines)
        /\ Len(kept) = IF gone + 1 <= Len(rows) THEN Len(rows) - (gone + 1) + 1 ELSE 0
        /\ \A i \in 1..Len(rows) - (gone + 1) + 1 : kept[i] = rows[(gone + 1) + i - 1]
    BY <2>1, SubSeqProperties
  <2> QED BY <1>2, <1>4, <2>2
<1>6. /\ rows' = kept \o text
      /\ changed' = [r \in Rows |-> changed[r] \/ r <= gone \/ r \in Len(kept) + 1 .. Len(kept) + n]
      /\ scrolled' = (scrolled \/ gone > 0)
  BY DEF AppendText
<1> HIDE DEF n, gone, kept
<1>7. /\ rows' \in Seq(Lines) /\ Len(rows') = Len(kept) + n
      /\ \A i \in 1..Len(kept) + n : rows'[i] = IF i <= Len(kept) THEN kept[i] ELSE text[i - Len(kept)]
  BY <1>1, <1>5, <1>6, ConcatProperties DEF n
<1>8. Len(rows') \in 1..maxRows
  BY <1>1, <1>2, <1>4, <1>5, <1>7
<1>9. scrolled' \in BOOLEAN /\ changed' \in [Rows -> BOOLEAN]
  BY <1>6 DEF TypeInv
<1>10. ASSUME ~scrolled'
       PROVE  /\ ~scrolled
              /\ Len(rows) <= Len(rows')
              /\ \A r \in 1..Len(rows) : rows'[r] = rows[r]
              /\ \A r \in Rows : changed'[r] <=> changed[r] \/ r \in Len(rows) + 1 .. Len(rows')
  <2>0. ~scrolled /\ ~(gone > 0)
    BY <1>6, <1>10
  <2>1. ~scrolled /\ gone = 0
    BY <1>2, <1>4, <2>0
  <2>2. Len(kept) = Len(rows) /\ \A i \in 1..Len(rows) : kept[i] = rows[i]
    BY <1>2, <1>5, <2>1
  <2>3. \A r \in Rows : r \in Nat /\ ~(r <= 0)
    BY LargestCanvas DEF Rows
  <2>4. Len(rows) <= Len(rows') /\ \A r \in 1..Len(rows) : rows'[r] = rows[r]
    BY <1>1, <1>2, <1>7, <2>2
  <2>5. \A r \in Rows : changed'[r] <=> changed[r] \/ r \in Len(rows) + 1 .. Len(rows')
    BY <1>6, <1>7, <2>1, <2>2, <2>3
  <2> QED BY <2>1, <2>4, <2>5
<1> QED BY <1>7, <1>8, <1>9, <1>10

\* Update leaves nothing to be drawn, and if what the canvas lacked was
\* marked, it holds the rows.
LEMMA Drew ==
  ASSUME TypeInv, Draw, UNCHANGED rows
  PROVE  /\ canvas' \in [Rows -> SUBSET Lines] /\ changed' \in [Rows -> BOOLEAN]
         /\ scrolled' = FALSE /\ tick' = 1 /\ tick' \in Nat
         /\ Drawn'
         /\ Drawable => Done'
<1>1. rows \in Seq(Lines) /\ DOMAIN rows = 1..Len(rows) /\ Len(rows) \in 0..Max(RowCounts)
  BY RowsOfText DEF TypeInv
<1>2. /\ \A r \in Rows : r <= Len(rows) => r \in DOMAIN rows /\ rows[r] \in Lines
      /\ \A r \in DOMAIN rows : r \in Rows
  BY <1>1, LargestCanvas DEF Rows
<1>3. /\ canvas' = [r \in Rows |-> Wiped[r] \cup (IF Redrawn(r) THEN {rows[r]} ELSE {})]
      /\ changed' = [r \in Rows |-> changed[r] /\ ~Redrawn(r)]
      /\ scrolled' = FALSE /\ tick' = 1 /\ tick' \in Nat
  BY DEF Draw, TickRestarted
<1>4. Wiped \in [Rows -> SUBSET Lines]
  BY DEF Wiped, Blank, TypeInv
<1>5. canvas' \in [Rows -> SUBSET Lines] /\ changed' \in [Rows -> BOOLEAN]
  <2>1. \A r \in Rows : (IF Redrawn(r) THEN {rows[r]} ELSE {}) \in SUBSET Lines
    BY <1>2 DEF Redrawn
  <2> QED BY <1>3, <1>4, <2>1 DEF TypeInv
<1>6. ASSUME NEW r \in Rows PROVE ~Redrawn(r)'
  <2>1. changed'[r] = (changed[r] /\ ~Redrawn(r))
    BY <1>3
  <2> QED BY <1>3, <2>1 DEF Redrawn
<1>7. Drawn'
  BY <1>2, <1>6 DEF Drawn
<1>8. ASSUME Drawable PROVE canvas' = Picture
  <2>1. ASSUME NEW r \in Rows PROVE canvas'[r] = Picture[r]
    <3>1. canvas'[r] = Wiped[r] \cup (IF Redrawn(r) THEN {rows[r]} ELSE {})
      BY <1>3
    <3>2. CASE scrolled
      BY <3>1, <3>2 DEF Wiped, Blank, Redrawn, Picture
    <3>3. CASE ~scrolled
      <4>1. canvas[r] = IF r <= Len(rows) /\ ~changed[r] THEN {rows[r]} ELSE {}
        BY <1>8, <3>3 DEF Drawable
      <4> QED BY <3>1, <3>3, <4>1 DEF Wiped, Redrawn, Picture
    <3> QED BY <3>2, <3>3
  <2>2. Picture = [r \in Rows |-> Picture[r]]
    BY DEF Picture
  <2> QED BY <1>3, <2>1, <2>2
<1>9. Drawable => Done'
  <2>1. Picture' = Picture
    BY DEF Picture
  <2> QED BY <1>3, <1>7, <1>8, <2>1 DEF Done
<1> QED BY <1>3, <1>5, <1>7, <1>9

\* Where nothing is to be drawn, Update may draw once more.
LEMMA DoneIsDrawable ==
  ASSUME TypeInv, Done
  PROVE  Drawable
<1>1. \A r \in Rows : r <= Len(rows) => r \in DOMAIN rows
  BY RowsOfText, LargestCanvas DEF TypeInv, Rows
<1> QED BY <1>1 DEF Done, Drawable, Drawn, Redrawn, Picture

\* No rows: nothing on a blank canvas lacks.
LEMMA BlankIsDrawable ==
  ASSUME canvas = Blank, rows = <<>>
  PROVE  Drawable
<1>1. \A r \in Rows : ~(r <= 0)
  BY LargestCanvas DEF Rows
<1> QED BY <1>1 DEF Drawable, Blank

-----------------------------------------------------------------------------
(***************************************************************************)
(* Types.                                                                  *)
(***************************************************************************)
LEMMA TypeStep ==
  ASSUME TypeInv, [Next]_vars
  PROVE  TypeInv'
<1>1. ASSUME NEW text \in Texts, AppendText(text) PROVE TypeInv'
  <2>1. rows' \in BoundedSeq(Lines, Max(RowCounts))
    <3>1. maxRows \in 1..Max(RowCounts)
      BY LargestCanvas DEF TypeInv, Rows
    <3>2. rows' \in Seq(Lines) /\ Len(rows') \in 0..Max(RowCounts)
      BY <1>1, <3>1, Appended, LargestCanvas
    <3> QED BY <3>2, RowsOfText
  <2>2. changed' \in [Rows -> BOOLEAN] /\ scrolled' \in BOOLEAN
    BY <1>1, Appended
  <2>3. age' \in 0..ClearTicks
    BY <1>1, TicksAssumption DEF AppendText
  <2> QED BY <1>1, <2>1, <2>2, <2>3 DEF AppendText, TypeInv, config, control
<1>2. CASE AppendDraws
  <2>1. UNCHANGED rows /\ Draw
    BY <1>2 DEF AppendDraws
  <2> QED BY <1>2, <2>1, Drew DEF AppendDraws, TypeInv, config, control
<1>3. Blank \in [Rows -> SUBSET Lines]
  BY DEF Blank
<1>4. Push => shown' \in [Rows -> SUBSET Lines]
  BY <1>3 DEF Push, TypeInv
<1>5. CASE AppendPushes
  BY <1>4, <1>5 DEF AppendPushes, TypeInv, config, control
<1>6. CASE ThreadBegins \/ ThreadEnds
  <2>1. composing' \in BOOLEAN
    BY <1>6 DEF ThreadBegins, ThreadEnds, FlagReset
  <2> QED BY <1>6, <2>1 DEF ThreadBegins, ThreadEnds, TypeInv, config, display
<1>7. CASE ThreadSleeps \/ ThreadTests
  BY <1>7 DEF ThreadSleeps, ThreadTests, TypeInv, config, display, control
<1>8. CASE ThreadLoads
  <2>1. age' \in 0..ClearTicks
    BY <1>8, TicksAssumption DEF ThreadLoads, TypeInv
  <2> QED BY <1>8, <2>1 DEF ThreadLoads, TypeInv, config, display, control
<1>9. CASE ThreadStores
  <2>1. tick' \in Nat
    BY <1>9 DEF ThreadStores, TypeInv
  <2> QED BY <1>9, <2>1 DEF ThreadStores, TypeInv, config, display, control
<1>10. CASE ThreadClears
  BY <1>3, <1>10 DEF ThreadClears, TypeInv, config, control
<1>11. CASE ThreadForgets
  <2>0. <<>> \in Seq(Lines) /\ Len(<<>>) = 0 /\ 0 \in 0..Max(RowCounts)
    BY LargestCanvas
  <2>1. <<>> \in BoundedSeq(Lines, Max(RowCounts))
    BY <2>0, RowsOfText
  <2> QED BY <1>11, <2>1 DEF ThreadForgets, TypeInv, config, control
<1>12. CASE ThreadDraws
  <2>1. UNCHANGED rows /\ Draw
    BY <1>12 DEF ThreadDraws
  <2> QED BY <1>12, <2>1, Drew DEF ThreadDraws, TypeInv, config, control
<1>13. CASE ThreadPushes
  BY <1>4, <1>13 DEF ThreadPushes, TypeInv, config, control
<1>14. CASE StopComposing
  <2>1. need' \in BOOLEAN /\ end' \in BOOLEAN
    BY <1>14 DEF StopComposing
  <2>2. missed' \in BOOLEAN
    BY <1>14 DEF StopComposing
  <2> QED BY <1>14, <2>1, <2>2 DEF StopComposing, TypeInv, config, display
<1>15. CASE StopComposingEnds
  BY <1>3, <1>15 DEF StopComposingEnds, TypeInv, config, control
<1>16. ASSUME NEW n \in RowCounts, NEW chns \in BOOLEAN, Resize(n, chns) PROVE TypeInv'
  <2>1. changed' \in [Rows -> BOOLEAN]
    BY <1>16 DEF Resize, TypeInv
  <2>2. bound' \in BOOLEAN
    BY <1>16 DEF Resize
  <2> QED BY <1>3, <1>16, <2>1, <2>2 DEF Resize, TypeInv, control
<1>17. CASE StartComposing
  <2>1. UNCHANGED rows /\ Draw
    BY <1>17 DEF StartComposing
  <2>2. need' \in BOOLEAN /\ end' \in BOOLEAN
    BY <1>17 DEF StartComposing
  <2> QED BY <1>17, <2>1, <2>2, Drew DEF StartComposing, TypeInv, config
<1>18. CASE StartsNoThread
  <2>1. need' \in BOOLEAN
    BY <1>18 DEF StartsNoThread
  <2> QED BY <1>18, <2>1 DEF StartsNoThread, TypeInv, config, display
<1>19. CASE CreateThread \/ Destroy
  BY <1>19 DEF CreateThread, Destroy, TypeInv, config, display, control
<1>20. CASE UNCHANGED vars
  BY <1>20 DEF TypeInv, vars, config, display, control
<1> QED BY <1>1, <1>2, <1>5, <1>6, <1>7, <1>8, <1>9, <1>10, <1>11, <1>12, <1>13, <1>14, <1>15,
           <1>16, <1>17, <1>18, <1>19, <1>20 DEF Next, Appender, Thread, Owner

\* No step changes how the display is looked at.
LEMMA ModeStays ==
  ASSUME [Next]_vars
  PROVE  mode' = mode
BY DEF Next, Appender, AppendText, AppendDraws, AppendPushes, Thread, ThreadBegins, ThreadEnds,
       ThreadSleeps, ThreadLoads, ThreadStores, ThreadTests, ThreadClears, ThreadForgets,
       ThreadDraws, ThreadPushes, Owner, StopComposing, StopComposingEnds, Resize,
       StartComposing, StartsNoThread, CreateThread, Destroy, vars, config

-----------------------------------------------------------------------------
(***************************************************************************)
(* What is drawn has a place.                                              *)
(***************************************************************************)
LEMMA DrawStep ==
  ASSUME TypeInv, DrawInv, [Next]_vars
  PROVE  DrawInv'
<1> SUFFICES ASSUME ~mode.unbound, ~mode'.unbound
             PROVE  /\ bound'
                    /\ appender' # "draw" /\ owner' # "resized" => Drawn'
                    /\ appender' = "draw" => Len(rows') <= maxRows'
                    /\ \A r \in DOMAIN rows' : Redrawn(r)' => r <= maxRows'
  BY ModeStays DEF DrawInv
<1> DEFINE Holds == /\ bound'
                    /\ appender' # "draw" /\ owner' # "resized" => Drawn'
                    /\ appender' = "draw" => Len(rows') <= maxRows'
                    /\ \A r \in DOMAIN rows' : Redrawn(r)' => r <= maxRows'
<1> USE DEF DrawInv
<1>1. ASSUME NEW text \in Texts, AppendText(text) PROVE Holds
  <2>1. rows' \in Seq(Lines) /\ Len(rows') \in 1..maxRows /\ maxRows' = maxRows
        /\ bound' = bound /\ appender' = "draw"
    BY <1>1, Appended DEF AppendText, config
  <2>2. maxRows \in Nat
    BY RowsAssumption DEF TypeInv
  <2> QED BY <2>1, <2>2
<1>2. ASSUME Drawn', bound', appender' = "draw" => Len(rows') <= maxRows' PROVE Holds
  BY <1>2 DEF Drawn
\* Whoever leaves the rows and their marks alone.
<1>3. ASSUME UNCHANGED <<config, rows, changed, scrolled>>,
             appender' = "draw" => appender = "draw",
             appender = "draw" => appender' = "draw",
             owner = "resized" => owner' = "resized"
      PROVE  Holds
  BY <1>3 DEF Drawn, Redrawn, config
<1>4. CASE AppendDraws
  <2>1. UNCHANGED rows /\ Draw
    BY <1>4 DEF AppendDraws
  <2> QED BY <1>2, <1>4, <2>1, Drew DEF AppendDraws, config
<1>5. CASE AppendPushes \/ ThreadBegins \/ ThreadEnds \/ ThreadSleeps \/ ThreadLoads
           \/ ThreadStores \/ ThreadTests \/ ThreadClears \/ ThreadPushes
  BY <1>3, <1>5 DEF AppendPushes, ThreadBegins, ThreadEnds, ThreadSleeps, ThreadLoads,
                    ThreadStores, ThreadTests, ThreadClears, ThreadPushes, display
<1>6. CASE ThreadForgets
  <2>1. maxRows \in Nat
    BY RowsAssumption DEF TypeInv
  <2>2. rows' = <<>> /\ Len(rows') <= maxRows /\ UNCHANGED config
    BY <1>6, <2>1 DEF ThreadForgets
  <2> QED BY <1>2, <2>2 DEF config, Drawn
<1>7. CASE ThreadDraws
  <2>1. UNCHANGED rows /\ Draw
    BY <1>7 DEF ThreadDraws
  <2> QED BY <1>2, <1>7, <2>1, Drew DEF ThreadDraws, config
<1>8. CASE StopComposing \/ StopComposingEnds \/ CreateThread \/ Destroy
  BY <1>3, <1>8 DEF StopComposing, StopComposingEnds, CreateThread, Destroy, display
<1>9. ASSUME NEW n \in RowCounts, NEW chns \in BOOLEAN, Resize(n, chns) PROVE Holds
  <2>1. /\ bound' /\ maxRows' = n /\ rows' = rows /\ scrolled' = scrolled
        /\ changed' = [r \in Rows |-> changed[r] \/ r \in maxRows + 1 .. n]
        /\ appender = "idle" /\ appender' = "idle" /\ owner' = "resized" /\ Drawn
    BY <1>9 DEF Resize, NewRows, TypeInv
  <2>2. ASSUME NEW r \in DOMAIN rows, Redrawn(r)' PROVE r <= n
    <3>1. r \in Rows /\ ~Redrawn(r) /\ r <= Len(rows)
      BY <2>1, RowsOfText, LargestCanvas DEF TypeInv, Rows, Drawn
    <3>2. ~changed[r] /\ ~scrolled
      BY <3>1 DEF Redrawn
    <3>3. changed'[r]
      BY <2>1, <2>2, <3>2 DEF Redrawn
    <3>4. r \in maxRows + 1 .. n
      BY <2>1, <3>1, <3>2, <3>3
    <3>5. maxRows \in Nat /\ n \in Nat
      BY RowsAssumption DEF TypeInv
    <3> QED BY <3>4, <3>5
  <2> QED BY <2>1, <2>2
<1>10. CASE StartComposing
  <2>1. UNCHANGED rows /\ Draw
    BY <1>10 DEF StartComposing
  <2>2. UNCHANGED <<bound, appender>> /\ appender # "draw"
    BY <1>10 DEF StartComposing, config, TypeInv
  <2> QED BY <1>2, <2>1, <2>2, Drew
<1>11. CASE StartsNoThread
  BY <1>11 DEF StartsNoThread
<1>12. CASE UNCHANGED vars
  BY <1>3, <1>12 DEF vars, display
<1> QED BY <1>1, <1>4, <1>5, <1>6, <1>7, <1>8, <1>9, <1>10, <1>11, <1>12
        DEF Next, Appender, Thread, Owner

-----------------------------------------------------------------------------
(***************************************************************************)
(* The thread and StopComposing.                                           *)
(***************************************************************************)
LEMMA StopStep ==
  ASSUME TypeInv, StopInv, [Next]_vars
  PROVE  StopInv'
<1> USE DEF StopInv
<1>1. CASE Appender
  BY <1>1 DEF Appender, AppendText, AppendDraws, AppendPushes, control
<1>2. CASE ThreadBegins \/ ThreadEnds
  BY <1>2 DEF ThreadBegins, ThreadEnds, FlagReset
<1>3. CASE ThreadSleeps \/ ThreadLoads \/ ThreadStores \/ ThreadTests \/ ThreadClears
           \/ ThreadForgets \/ ThreadDraws \/ ThreadPushes
  <2>1. UNCHANGED <<owner, missed, composing>> /\ {thread, thread'} \cap {"none", "created"} = {}
    BY <1>3 DEF ThreadSleeps, ThreadLoads, ThreadStores, ThreadTests, ThreadClears,
                ThreadForgets, ThreadDraws, ThreadPushes, control
  <2> QED BY <2>1
<1>4. CASE StopComposing
  BY <1>4 DEF StopComposing
<1>5. CASE StopComposingEnds
  BY <1>5 DEF StopComposingEnds, Stopped, control
<1>6. CASE Owner /\ owner \in {"stopped", "resized", "starting"}
  BY <1>6 DEF Owner, StopComposing, StopComposingEnds, Resize, StartComposing, StartsNoThread,
              CreateThread, Destroy, control
<1>7. CASE UNCHANGED vars
  BY <1>7 DEF vars, control
<1>8. Owner => StopComposing \/ StopComposingEnds \/ owner \in {"stopped", "resized", "starting"}
  BY DEF Owner, Resize, StartComposing, StartsNoThread, CreateThread, Destroy
<1> QED BY <1>1, <1>2, <1>3, <1>4, <1>5, <1>6, <1>7, <1>8 DEF Next, Thread

-----------------------------------------------------------------------------
(***************************************************************************)
(* The count.                                                              *)
(***************************************************************************)
\* While the threads stay apart, the thread is where it may be when the
\* appender is at work.
LEMMA ApartStep ==
  ASSUME TypeInv, ~mode.interleaved, Apart, [Next]_vars
  PROVE  Apart'
<1> USE DEF Apart
<1>1. CASE Appender
  BY <1>1 DEF Appender, AppendText, AppendDraws, AppendPushes, ThreadApart
<1>2. CASE ThreadBegins \/ ThreadEnds \/ ThreadSleeps \/ ThreadStores \/ ThreadTests
           \/ ThreadClears \/ ThreadForgets \/ ThreadDraws \/ ThreadPushes
  BY <1>2 DEF ThreadBegins, ThreadEnds, ThreadSleeps, ThreadStores, ThreadTests,
              ThreadClears, ThreadForgets, ThreadDraws, ThreadPushes
<1>3. CASE ThreadLoads
  BY <1>3 DEF ThreadLoads, AppenderApart
<1>4. CASE Owner
  BY <1>4 DEF Owner, StopComposing, StopComposingEnds, Resize, StartComposing, StartsNoThread,
              CreateThread, Destroy
<1>5. CASE UNCHANGED vars
  BY <1>5 DEF vars
<1> QED BY <1>1, <1>2, <1>3, <1>4, <1>5 DEF Next, Thread

LEMMA AgeStep ==
  ASSUME TypeInv, AgeInv, [Next]_vars
  PROVE  AgeInv'
<1> DEFINE Holds == /\ appender' # "draw" => Old(tick)'
                    /\ thread' = "store" => Old(loaded + 1)'
                    /\ thread' \in {"clear", "forget"} => age' >= ClearTicks - 1
<1> SUFFICES ASSUME ~mode.interleaved PROVE Holds
  BY ApartStep, ModeStays DEF AgeInv
<1>1. /\ ClearTicks \in Nat \ {0, 1} /\ age \in Nat /\ tick \in Nat /\ loaded \in Nat
      /\ age <= ClearTicks
  BY TicksAssumption DEF TypeInv
<1>2. /\ Apart
      /\ appender # "draw" => Old(tick)
      /\ thread = "store" => Old(loaded + 1)
      /\ thread \in {"clear", "forget"} => age >= ClearTicks - 1
  BY DEF AgeInv
\* Whoever leaves the counts alone, or restarts the one that is shared.
<1>3. ASSUME UNCHANGED <<loaded, age>>, tick' = tick \/ tick' = 1,
             thread' \in {"store", "clear", "forget"} => thread' = thread,
             appender' # "draw" => appender # "draw" \/ tick' = 1
      PROVE  Holds
  BY <1>1, <1>2, <1>3 DEF Old
<1>4. ASSUME NEW text, AppendText(text) PROVE Holds
  BY <1>4 DEF AppendText, ThreadApart
<1>5. CASE AppendDraws \/ ThreadDraws \/ StartComposing
  BY <1>3, <1>5 DEF AppendDraws, ThreadDraws, StartComposing, Draw, TickRestarted
<1>6. CASE AppendPushes \/ ThreadBegins \/ ThreadEnds \/ ThreadSleeps \/ ThreadPushes
  BY <1>3, <1>6 DEF AppendPushes, ThreadBegins, ThreadEnds, ThreadSleeps, ThreadPushes, display
<1>7. CASE ThreadLoads
  <2>1. /\ appender = "idle" /\ loaded' = tick /\ tick' = tick /\ thread' = "store"
        /\ age' = IF age < ClearTicks THEN age + 1 ELSE age
    BY <1>7 DEF ThreadLoads, AppenderApart
  <2> QED BY <1>1, <1>2, <2>1 DEF Old
<1>8. CASE ThreadStores
  <2>1. thread = "store" /\ tick' = loaded + 1 /\ thread' = "test" /\ age' = age
    BY <1>8 DEF ThreadStores
  <2> QED BY <1>2, <2>1 DEF Old
<1>9. CASE ThreadTests
  <2>1. /\ thread = "test" /\ UNCHANGED <<tick, appender, loaded, age>>
        /\ thread' = IF tick >= ClearTicks THEN "clear" ELSE "top"
    BY <1>9 DEF ThreadTests
  <2>2. Old(tick)
    BY <1>2, <2>1 DEF Apart
  <2> QED BY <1>1, <2>1, <2>2 DEF Old
<1>10. CASE ThreadClears \/ ThreadForgets
  <2>1. /\ UNCHANGED <<tick, appender, loaded, age>> /\ thread \in {"clear", "forget"}
        /\ thread' \in {"forget", "draw"}
    BY <1>10 DEF ThreadClears, ThreadForgets
  <2> QED BY <1>2, <2>1 DEF Old
<1>11. CASE StopComposing \/ StopComposingEnds \/ StartsNoThread \/ CreateThread \/ Destroy
  BY <1>3, <1>11 DEF StopComposing, StopComposingEnds, StartsNoThread, CreateThread, Destroy,
                     display
<1>12. ASSUME NEW n, NEW chns, Resize(n, chns) PROVE Holds
  BY <1>3, <1>12 DEF Resize
<1>13. CASE UNCHANGED vars
  BY <1>3, <1>13 DEF vars
<1> QED BY <1>4, <1>5, <1>6, <1>7, <1>8, <1>9, <1>10, <1>11, <1>12, <1>13
        DEF Next, Appender, Thread, Owner

-----------------------------------------------------------------------------
(***************************************************************************)
(* What the overlay shows.                                                 *)
(***************************************************************************)
\* A text that does not scroll is marked at places where the canvas is blank.
LEMMA AppendedIsDrawable ==
  ASSUME TypeInv, Done, NEW text \in Texts, AppendText(text)
  PROVE  Drawable'
<1>1. canvas' = canvas
  BY DEF AppendText
<1>2. rows \in Seq(Lines) /\ Len(rows) \in Nat /\ DOMAIN rows = 1..Len(rows)
  BY RowsOfText DEF TypeInv
<1>3. SUFFICES ASSUME ~scrolled', NEW r \in Rows
               PROVE  canvas'[r] = IF r <= Len(rows') /\ ~changed'[r] THEN {rows'[r]} ELSE {}
  BY <1>1 DEF Drawable
<1>4. /\ Len(rows') \in Nat /\ Len(rows) <= Len(rows')
      /\ \A i \in 1..Len(rows) : rows'[i] = rows[i]
      /\ changed'[r] <=> changed[r] \/ r \in Len(rows) + 1 .. Len(rows')
  <2>1. maxRows \in Nat
    BY RowsAssumption DEF TypeInv
  <2> QED BY <1>3, <2>1, Appended
<1>5. canvas[r] = IF r <= Len(rows) THEN {rows[r]} ELSE {}
  BY DEF Done, Picture
<1>6. r \in Nat \ {0}
  BY LargestCanvas DEF Rows
<1>7. CASE r <= Len(rows)
  <2>1. r \in DOMAIN rows /\ ~changed[r]
    BY <1>2, <1>6, <1>7 DEF Done, Drawn, Redrawn
  <2>2. r \notin Len(rows) + 1 .. Len(rows') /\ r <= Len(rows')
    BY <1>2, <1>4, <1>6, <1>7
  <2> QED BY <1>1, <1>2, <1>4, <1>5, <1>7, <2>1, <2>2
<1>8. CASE ~(r <= Len(rows))
  <2>1. r <= Len(rows') => r \in Len(rows) + 1 .. Len(rows')
    BY <1>2, <1>4, <1>6, <1>8
  <2> QED BY <1>1, <1>4, <1>5, <1>8, <2>1
<1> QED BY <1>7, <1>8

\* Rows, marks and canvas that stay keep what they are.
LEMMA CanvasStays ==
  ASSUME UNCHANGED <<rows, changed, scrolled, canvas>>
  PROVE  /\ Done' <=> Done
         /\ Drawable' <=> Drawable
         /\ Picture' = Picture
<1>1. Picture' = Picture
  BY DEF Picture
<1>2. Drawn' <=> Drawn
  BY DEF Drawn, Redrawn
<1> QED BY <1>1, <1>2 DEF Done, Drawable

\* What Push shows while the canvas holds the rows.
LEMMA Pushed ==
  ASSUME TypeInv, Done, Push, UNCHANGED <<config, rows, changed, scrolled, canvas>>
  PROVE  Done' /\ shown' = IF bound' THEN Picture' ELSE Blank
BY CanvasStays DEF Push, Done, config

LEMMA ShowStep ==
  ASSUME TypeInv, ShowInv, [Next]_vars
  PROVE  ShowInv'
<1> DEFINE Holds == /\ owner' = "idle" /\ Apart'
                    /\ appender' = "draw" => Drawable'
                    /\ appender' = "push" \/ thread' = "push" => Done'
                    /\ appender' = "idle" /\ thread' \notin {"forget", "draw"} => Done'
                    /\ thread' = "forget" => canvas' = Blank
                    /\ thread' = "draw" => canvas' = Blank /\ rows' = <<>>
                    /\ Quiet' => shown' = IF bound' THEN Picture' ELSE Blank
<1> SUFFICES ASSUME ~mode.interleaved, ~mode.reconfigured PROVE Holds
  <2>1. Blank' = Blank
    BY DEF Blank
  <2> QED BY <2>1, ModeStays DEF ShowInv
<1>1. /\ owner = "idle" /\ Apart
      /\ appender = "draw" => Drawable
      /\ appender = "push" \/ thread = "push" => Done
      /\ appender = "idle" /\ thread \notin {"forget", "draw"} => Done
      /\ thread = "forget" => canvas = Blank
      /\ thread = "draw" => canvas = Blank /\ rows = <<>>
      /\ Quiet => shown = IF bound THEN Picture ELSE Blank
  BY DEF ShowInv
<1>2. Apart'
  BY <1>1, ApartStep
\* Whoever leaves the display alone.
<1>3. ASSUME UNCHANGED <<config, display, owner, appender>>,
             thread' \in {"clear", "forget", "draw", "push"} =>
               thread' = thread \/ (thread' = "clear" /\ thread = "test"),
             thread \in {"clear", "forget", "draw", "push"} => thread' = thread
      PROVE  Holds
  <2>1. UNCHANGED <<rows, changed, scrolled, canvas, shown, bound>>
    BY <1>3 DEF display, config
  <2>2. Quiet' => Quiet
    BY <1>3 DEF Quiet
  <2> QED BY <1>1, <1>2, <1>3, <2>1, <2>2, CanvasStays DEF Apart
<1>4. ASSUME NEW text \in Texts, AppendText(text) PROVE Holds
  <2>1. /\ appender = "idle" /\ thread \in {"none", "created", "top", "sleep"}
        /\ appender' = "draw" /\ UNCHANGED <<owner, thread>>
    BY <1>4 DEF AppendText, ThreadApart
  <2>2. Drawable'
    BY <1>1, <1>4, <2>1, AppendedIsDrawable
  <2> QED BY <1>1, <1>2, <2>1, <2>2 DEF Quiet
<1>5. CASE AppendDraws
  <2>1. /\ UNCHANGED <<rows, owner, thread>> /\ Draw /\ appender = "draw" /\ appender' = "push"
        /\ thread \in {"none", "created", "top", "sleep"}
    BY <1>1, <1>5 DEF AppendDraws, Apart, TypeInv
  <2>2. Done'
    BY <1>1, <2>1, Drew
  <2> QED BY <1>1, <1>2, <2>1, <2>2 DEF Quiet
<1>6. CASE AppendPushes
  <2>1. /\ UNCHANGED <<config, rows, changed, scrolled, canvas, owner, thread>> /\ Push
        /\ appender = "push" /\ appender' = "idle"
        /\ thread \in {"none", "created", "top", "sleep"}
    BY <1>1, <1>6 DEF AppendPushes, Apart, TypeInv
  <2>2. Done' /\ shown' = IF bound' THEN Picture' ELSE Blank
    BY <1>1, <2>1, Pushed
  <2> QED BY <1>1, <1>2, <2>1, <2>2
<1>7. CASE ThreadBegins \/ ThreadEnds \/ ThreadSleeps \/ ThreadLoads \/ ThreadStores \/ ThreadTests
  BY <1>3, <1>7 DEF ThreadBegins, ThreadEnds, ThreadSleeps, ThreadLoads, ThreadStores, ThreadTests
<1>8. CASE ThreadClears
  <2>1. /\ canvas' = Blank /\ thread' = "forget" /\ appender' = "idle" /\ UNCHANGED owner
    BY <1>1, <1>8 DEF ThreadClears, Apart
  <2> QED BY <1>1, <1>2, <2>1 DEF Quiet
<1>9. CASE ThreadForgets
  <2>1. /\ canvas' = Blank /\ rows' = <<>> /\ thread' = "draw" /\ appender' = "idle"
        /\ UNCHANGED owner
    BY <1>1, <1>9 DEF ThreadForgets, Apart
  <2> QED BY <1>1, <1>2, <2>1 DEF Quiet
<1>10. CASE ThreadDraws
  <2>1. /\ UNCHANGED <<rows, owner>> /\ Draw /\ thread' = "push" /\ appender' = "idle"
        /\ thread = "draw"
    BY <1>1, <1>10 DEF ThreadDraws, Apart
  <2>2. Done'
    BY <1>1, <2>1, BlankIsDrawable, Drew
  <2> QED BY <1>1, <1>2, <2>1, <2>2 DEF Quiet
<1>11. CASE ThreadPushes
  <2>1. /\ UNCHANGED <<config, rows, changed, scrolled, canvas, owner>> /\ Push
        /\ appender' = "idle" /\ thread = "push" /\ thread' = "top"
    BY <1>1, <1>11 DEF ThreadPushes, Apart
  <2>2. Done' /\ shown' = IF bound' THEN Picture' ELSE Blank
    BY <1>1, <2>1, Pushed
  <2> QED BY <1>1, <1>2, <2>1, <2>2
<1>12. ~Owner
  BY <1>1 DEF Owner, StopComposing, StopComposingEnds, Resize, StartComposing, StartsNoThread,
              CreateThread, Destroy
<1>13. CASE UNCHANGED vars
  BY <1>3, <1>13 DEF vars
<1> QED BY <1>4, <1>5, <1>6, <1>7, <1>8, <1>9, <1>10, <1>11, <1>12, <1>13
        DEF Next, Appender, Thread

-----------------------------------------------------------------------------
(***************************************************************************)
(* The theorems.                                                           *)
(***************************************************************************)
\* The display starts with no rows and a blank canvas.
LEMMA InitInvs == Init => Inv /\ StopInv
<1> SUFFICES ASSUME Init PROVE Inv /\ StopInv
  OBVIOUS
<1> USE DEF Init
<1>1. rows \in BoundedSeq(Lines, Max(RowCounts))
  <2>1. rows \in Seq(Lines) /\ Len(rows) = 0 /\ 0 \in 0..Max(RowCounts)
    BY LargestCanvas
  <2> QED BY <2>1, RowsOfText
<1>2. Blank \in [Rows -> SUBSET Lines] /\ 0 \in 0..ClearTicks
  BY TicksAssumption DEF Blank
<1>3. TypeInv
  BY <1>1, <1>2 DEF TypeInv
<1>4. DOMAIN rows = {} /\ Len(rows) = 0
  OBVIOUS
<1>5. DrawInv
  BY <1>4 DEF DrawInv, Drawn
<1>6. AgeInv
  BY DEF AgeInv, Apart, Old
<1>7. Picture = Blank
  BY LargestCanvas DEF Picture, Blank, Rows
<1>8. ShowInv
  BY <1>4, <1>7 DEF ShowInv, Apart, Done, Drawn
<1>9. StopInv
  BY DEF StopInv
<1> QED BY <1>3, <1>5, <1>6, <1>8, <1>9 DEF Inv

LEMMA Invariance == Spec => []Inv
<1>1. Inv /\ [Next]_vars => Inv'
  BY TypeStep, DrawStep, AgeStep, ShowStep DEF Inv
<1>2. Init => Inv
  BY InitInvs
<1> QED BY <1>1, <1>2, PTL DEF Spec

\* Every variable of the display has its type, and what Update draws has a place.
THEOREM TypeCorrect == Spec => []TypeOK
<1>1. Inv => TypeOK
  BY DEF Inv, TypeInv, DrawInv, TypeOK
<1> QED BY <1>1, Invariance, PTL

\* When nobody is drawing, the overlay shows exactly the rows, while the
\* composition stays and the threads stay apart.
THEOREM RowsAreShown == Spec => []ShowsRows
<1>1. Inv => ShowsRows
  BY DEF Inv, ShowInv, ShowsRows
<1> QED BY <1>1, Invariance, PTL

\* Rows are cleared by the thread, and only when ClearTicks sleeps but the
\* first one have passed without an Append, while the threads stay apart.
THEOREM ClearedLate == Spec => ClearedWhenOld
<1>1. ASSUME Inv, [Next]_vars
      PROVE  [rows # <<>> /\ rows' = <<>> /\ ~mode.interleaved => age >= ClearTicks - 1]_vars
  <2> SUFFICES ASSUME Next, rows # <<>>, rows' = <<>>, ~mode.interleaved
               PROVE  age >= ClearTicks - 1
    BY <1>1
  <2>1. ASSUME NEW text \in Texts, AppendText(text) PROVE FALSE
    <3>1. Len(rows') \in 1..maxRows /\ maxRows \in Nat
      BY <1>1, <2>1, Appended, RowsAssumption DEF Inv, TypeInv
    <3> QED BY <3>1
  <2>2. rows' # rows
    OBVIOUS
  <2>3. thread = "forget"
    BY <2>1, <2>2 DEF Next, Appender, AppendDraws, AppendPushes, Thread, ThreadBegins,
           ThreadEnds, ThreadSleeps, ThreadLoads, ThreadStores, ThreadTests, ThreadClears,
           ThreadForgets, ThreadDraws, ThreadPushes, Owner, StopComposing, StopComposingEnds,
           Resize, StartComposing, StartsNoThread, CreateThread, Destroy, display
  <2> QED BY <1>1, <2>3 DEF Inv, AgeInv
<1>2. Spec => [][Next]_vars
  BY PTL DEF Spec
<1> QED BY <1>1, <1>2, Invariance, PTL DEF ClearedWhenOld

\* Once StopComposing has returned the thread is gone, unless it had not begun
\* when StopComposing was called.
THEOREM ThreadIsGone == Spec => []ThreadGone
<1>1. Init => StopInv
  BY InitInvs
<1>2. Inv /\ StopInv /\ [Next]_vars => StopInv'
  BY StopStep DEF Inv
<1>3. StopInv => ThreadGone
  BY DEF StopInv, ThreadGone
<1> QED BY <1>1, <1>2, <1>3, Invariance, PTL DEF Spec
=============================================================================
