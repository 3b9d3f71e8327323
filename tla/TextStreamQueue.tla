--------------------------- MODULE TextStreamQueue ---------------------------
(***************************************************************************)
(* TextStreamQueue in its CT_VencModule mode: the rows of receipt text     *)
(* drawn on a canvas and shown as an overlay of the encoded video, and the *)
(* CanvasClear thread that clears them when nothing was appended for a     *)
(* while.                                                                  *)
(*                                                                         *)
(* Three threads share the object without a lock: the appender, which runs *)
(* the callbacks of pos_net; the CanvasClear thread; and the owner, which  *)
(* stops, resizes and restarts the display when POSDevice::Config changes  *)
(* the composition, and destroys it.  A step is what one thread does       *)
(* between two accesses that another one can get between; an access to     *)
(* the list of rows is taken to be indivisible, which it is not.           *)
(***************************************************************************)
EXTENDS Naturals, Sequences, FiniteSets, SequencesExt

CONSTANTS
  Lines,        \* the texts of a row
  RowCounts,    \* the numbers of rows that the sizes of the font leave room for
  ClearTicks,   \* the count of mTickClean that clears the display (100)
  Modes         \* the modes the display is looked at in, see mode

\* interleaved is FALSE if the appender and the CanvasClear thread happen not
\* to work on the rows at the same time; reconfigured is TRUE if the
\* composition changes; unbound is TRUE if there may be no bound channel.
Mode == [interleaved : BOOLEAN, reconfigured : BOOLEAN, unbound : BOOLEAN]

ASSUME RowsAssumption ==
  RowCounts \subseteq Nat \ {0} /\ \E n \in RowCounts : \A m \in RowCounts : n >= m
ASSUME TicksAssumption == ClearTicks \in Nat \ {0, 1}
ASSUME ModeAssumption == Modes \subseteq Mode

VARIABLES
  mode,       \* a member of Modes
  bound,      \* there are BoundChns, and so an overlay
  maxRows,    \* mMaxRowCnt
  rows,       \* mRowText
  changed,    \* m_bRowTextChanged
  scrolled,   \* m_bScrolled
  canvas,     \* the texts drawn over each other at each row of the canvas
  shown,      \* the bitmap last given to the overlay
  tick,       \* mTickClean
  need,       \* m_bNeedComposing
  end,        \* m_bEndThread
  composing,  \* m_bChnComposing of the thread's channel
  appender,   \* the appender: "idle", or where it is in Append
  thread,     \* the CanvasClear thread: "none", "created", or where it is
  loaded,     \* the value of mTickClean that the thread is incrementing
  owner,      \* the owner: "idle", or where it is in Config or destruction
  missed,     \* history: the thread had not begun when StopComposing was called
  age         \* the sleeps the thread has ended since the last Append

display == <<rows, changed, scrolled, canvas, shown>>
control == <<need, end, composing>>
config  == <<mode, bound, maxRows>>
vars    == <<config, display, tick, control, appender, thread, loaded, owner, missed, age>>

\* The rows of the largest canvas.  m_bRowTextChanged keeps the bits behind
\* its end when it is made smaller.
Rows  == 1..Max(RowCounts)
Blank == [r \in Rows |-> {}]

-----------------------------------------------------------------------------
(***************************************************************************)
(* Update draws the rows that have changed, or after scrolling all of      *)
(* them, over what the canvas holds, and restarts the count; then it gives *)
(* the canvas to the overlay.                                              *)
(***************************************************************************)
\* Variant for a mutant run: the canvas is not cleared after scrolling.
NotWiped == canvas

Wiped == IF scrolled THEN Blank ELSE canvas

Redrawn(r) == r <= Len(rows) /\ (changed[r] \/ scrolled)

\* Variant for a mutant run: drawing does not restart the count.
TickKept == tick

TickRestarted == 1

Draw ==
  /\ canvas' = [r \in Rows |-> Wiped[r] \cup (IF Redrawn(r) THEN {rows[r]} ELSE {})]
  /\ changed' = [r \in Rows |-> changed[r] /\ ~Redrawn(r)]
  /\ scrolled' = FALSE
  /\ tick' = TickRestarted

\* Without a bound channel there is no overlay to give the canvas to.
Push == shown' = IF bound THEN canvas ELSE Blank

\* Nothing is half done to the rows by another thread.
AppenderApart == mode.interleaved \/ appender = "idle"
ThreadApart   == mode.interleaved \/ thread \in {"none", "created", "top", "sleep"}

-----------------------------------------------------------------------------
(***************************************************************************)
(* The appender: Append.  The text is one that subText has wrapped to at   *)
(* most maxRows lines.                                                     *)
(***************************************************************************)
\* The number of rows that have to go to make room for n more.
Removed(n) == IF Len(rows) + n > maxRows THEN Len(rows) + n - maxRows ELSE 0

AppendText(text) ==
  LET n    == Len(text)
      gone == Removed(n)
      kept == SubSeq(rows, gone + 1, Len(rows))
  IN
  /\ appender = "idle"
  /\ owner = "idle"
  /\ ThreadApart
  /\ n <= maxRows
  /\ rows' = kept \o text
  /\ changed' = [r \in Rows |-> changed[r] \/ r <= gone \/ r \in Len(kept) + 1 .. Len(kept) + n]
  /\ scrolled' = (scrolled \/ gone > 0)
  /\ age' = 0
  /\ appender' = "draw"
  /\ UNCHANGED <<config, canvas, shown, tick, control, thread, loaded, owner, missed>>

AppendDraws ==
  /\ appender = "draw"
  /\ Draw
  /\ appender' = "push"
  /\ UNCHANGED <<config, rows, shown, control, thread, loaded, owner, missed, age>>

AppendPushes ==
  /\ appender = "push"
  /\ Push
  /\ appender' = "idle"
  /\ UNCHANGED <<config, rows, changed, scrolled, canvas, tick, control, thread, loaded,
                 owner, missed, age>>

-----------------------------------------------------------------------------
(***************************************************************************)
(* The CanvasClear thread.                                                 *)
(***************************************************************************)
ThreadBegins ==
  /\ thread = "created"
  /\ thread' = "top"
  /\ composing' = TRUE
  /\ UNCHANGED <<config, display, tick, need, end, appender, loaded, owner, missed, age>>

\* Variant for a mutant run: the thread returns out of its loop.
FlagLeft == TRUE

\* m_bChnComposing when the thread has ended.
FlagReset == FALSE

MustExit == ~need \/ (tick # 0 /\ end)

ThreadEnds ==
  /\ thread = "top"
  /\ MustExit
  /\ thread' = "none"
  /\ composing' = FlagReset
  /\ UNCHANGED <<config, display, tick, need, end, appender, loaded, owner, missed, age>>

\* With a count of 0 the loop spins.
ThreadSleeps ==
  /\ thread = "top"
  /\ ~MustExit
  /\ tick # 0
  /\ thread' = "sleep"
  /\ UNCHANGED <<config, display, tick, control, appender, loaded, owner, missed, age>>

\* mTickClean++, in a load and a store.
ThreadLoads ==
  /\ thread = "sleep"
  /\ AppenderApart
  /\ age' = IF age < ClearTicks THEN age + 1 ELSE age
  /\ loaded' = tick
  /\ thread' = "store"
  /\ UNCHANGED <<config, display, tick, control, appender, owner, missed>>

ThreadStores ==
  /\ thread = "store"
  /\ tick' = loaded + 1
  /\ thread' = "test"
  /\ UNCHANGED <<config, display, control, appender, loaded, owner, missed, age>>

ThreadTests ==
  /\ thread = "test"
  /\ thread' = IF tick >= ClearTicks THEN "clear" ELSE "top"
  /\ UNCHANGED <<config, display, tick, control, appender, loaded, owner, missed, age>>

ThreadClears ==
  /\ thread = "clear"
  /\ canvas' = Blank
  /\ thread' = "forget"
  /\ UNCHANGED <<config, rows, changed, scrolled, shown, tick, control, appender, loaded,
                 owner, missed, age>>

ThreadForgets ==
  /\ thread = "forget"
  /\ rows' = <<>>
  /\ thread' = "draw"
  /\ UNCHANGED <<config, changed, scrolled, canvas, shown, tick, control, appender,
                 loaded, owner, missed, age>>

ThreadDraws ==
  /\ thread = "draw"
  /\ Draw
  /\ thread' = "push"
  /\ UNCHANGED <<config, rows, shown, control, appender, loaded, owner, missed, age>>

ThreadPushes ==
  /\ thread = "push"
  /\ Push
  /\ thread' = "top"
  /\ UNCHANGED <<config, rows, changed, scrolled, canvas, tick, control, appender,
                 loaded, owner, missed, age>>

-----------------------------------------------------------------------------
(***************************************************************************)
(* The owner: POSDevice::Config, which has stopped the callbacks before,   *)
(* and the destructor.                                                     *)
(***************************************************************************)
StopComposing ==
  /\ mode.reconfigured
  /\ owner = "idle"
  /\ appender = "idle"
  /\ need' = FALSE
  /\ end' = TRUE
  /\ missed' = (thread = "created")
  /\ owner' = "waiting"
  /\ UNCHANGED <<config, display, tick, composing, appender, thread, loaded, age>>

\* Variant for a mutant run: StopComposing does not wait for the thread.
StopsAtOnce == TRUE

Stopped == ~composing

\* The wait of StopComposing ends, and the overlay is destroyed.
StopComposingEnds ==
  /\ owner = "waiting"
  /\ Stopped
  /\ shown' = Blank
  /\ owner' = "stopped"
  /\ UNCHANGED <<config, rows, changed, scrolled, canvas, tick, control, appender,
                 thread, loaded, age, missed>>

\* Variant for a mutant run: every row is marked.
AllRows(n) == Rows

\* The rows that a canvas of n rows adds to the one there is.
NewRows(n) == maxRows + 1 .. n

\* The font or the bound channels change: a new canvas takes the place of
\* the old one, and its new rows are marked as changed.  The rows of text
\* stay, even if the canvas has no longer room for them.
Resize(n, chns) ==
  /\ owner = "stopped"
  /\ maxRows' = n
  /\ mode.unbound \/ chns
  /\ bound' = chns
  /\ canvas' = Blank
  /\ changed' = [r \in Rows |-> changed[r] \/ r \in NewRows(n)]
  /\ owner' = "resized"
  /\ UNCHANGED <<mode, rows, scrolled, shown, tick, control, appender, thread, loaded, age, missed>>

\* StartComposing up to its Update: the overlay is created.  What a thread
\* that was missed does once its ComposingPara is resized away is undefined
\* and not followed: here it ends before.
StartComposing ==
  /\ owner = "resized" /\ bound
  /\ thread = "none"
  /\ need' = TRUE
  /\ end' = FALSE
  /\ Draw
  /\ shown' = canvas'
  /\ owner' = "starting"
  /\ UNCHANGED <<config, rows, composing, appender, thread, loaded, age, missed>>

\* Without a bound channel there is nothing more to start.
StartsNoThread ==
  /\ owner = "resized" /\ ~bound
  /\ need' = TRUE
  /\ owner' = "idle"
  /\ UNCHANGED <<config, display, tick, end, composing, appender, thread, loaded, age, missed>>

CreateThread ==
  /\ owner = "starting"
  /\ thread' = "created"
  /\ owner' = "idle"
  /\ UNCHANGED <<config, display, tick, control, appender, loaded, age, missed>>

\* The destructor deletes the canvas after its StopComposing.
Destroy ==
  /\ owner = "stopped"
  /\ owner' = "destroyed"
  /\ UNCHANGED <<config, display, tick, control, appender, thread, loaded, age, missed>>

-----------------------------------------------------------------------------
\* The constructor has resized and called StartComposing.
Init ==
  /\ mode \in Modes /\ bound \in BOOLEAN /\ maxRows \in RowCounts
  /\ mode.unbound \/ bound
  /\ rows = <<>>
  /\ changed = [r \in Rows |-> TRUE]
  /\ scrolled = FALSE
  /\ canvas = Blank /\ shown = Blank
  /\ tick = IF bound THEN 1 ELSE 0
  /\ need = TRUE /\ end = FALSE /\ composing = FALSE
  /\ appender = "idle"
  /\ thread = IF bound THEN "created" ELSE "none"
  /\ loaded = 0
  /\ owner = "idle" /\ missed = FALSE
  /\ age = 0

Texts == UNION {[1..n -> Lines] : n \in Rows}

Appender == (\E text \in Texts : AppendText(text)) \/ AppendDraws \/ AppendPushes

Thread == \/ ThreadBegins \/ ThreadEnds \/ ThreadSleeps
          \/ ThreadLoads \/ ThreadStores \/ ThreadTests
          \/ ThreadClears \/ ThreadForgets \/ ThreadDraws \/ ThreadPushes

Owner == \/ StopComposing \/ StopComposingEnds
         \/ (\E n \in RowCounts, chns \in BOOLEAN : Resize(n, chns))
         \/ StartComposing \/ StartsNoThread \/ CreateThread \/ Destroy

Next == Appender \/ Thread \/ Owner

\* The threads are scheduled.  Nobody has to append or to reconfigure.
Spec ==
  /\ Init /\ [][Next]_vars
  /\ WF_vars(Thread)
  /\ WF_vars(AppendDraws) /\ WF_vars(AppendPushes) /\ WF_vars(StopComposingEnds)

-----------------------------------------------------------------------------
(***************************************************************************)
(* Properties.                                                             *)
(***************************************************************************)

\* Every variable has its type; what Update would draw has a place in
\* mRowYPos, even when a larger font has left less room than there are rows.
\* (While channels stay bound: without one StartComposing draws nothing, and
\* rows that a smaller font has marked stay so until a larger font follows.)
TypeOK ==
  /\ mode \in Modes /\ bound \in BOOLEAN /\ maxRows \in RowCounts
  /\ rows \in BoundedSeq(Lines, Max(RowCounts))
  /\ (~mode.unbound => \A r \in DOMAIN rows : Redrawn(r) => r <= maxRows)
  /\ changed \in [Rows -> BOOLEAN] /\ scrolled \in BOOLEAN
  /\ canvas \in [Rows -> SUBSET Lines] /\ shown \in [Rows -> SUBSET Lines]
  /\ tick \in Nat /\ loaded \in Nat /\ age \in 0..ClearTicks
  /\ {need, end, composing, missed} \subseteq BOOLEAN
  /\ appender \in {"idle", "draw", "push"}
  /\ thread \in {"none", "created", "top", "sleep", "store", "test", "clear",
                 "forget", "draw", "push"}
  /\ owner \in {"idle", "waiting", "stopped", "resized", "starting", "destroyed"}

Picture == [r \in Rows |-> IF r <= Len(rows) THEN {rows[r]} ELSE {}]

Quiet == appender = "idle" /\ owner = "idle"
         /\ thread \notin {"clear", "forget", "draw", "push"}

\* When nobody is drawing, the overlay shows exactly the rows, each at its
\* place and none over another, however they came and scrolled.  (While the
\* composition stays and the threads happen to stay apart.)
ShowsRows ==
  Quiet /\ bound /\ ~mode.interleaved /\ ~mode.reconfigured => shown = Picture

\* The Update of StartComposing shows the rows that were there before
\* (textstreamqueue.cpp 235: it is there for that).
PreviousRowsShown == owner = "starting" => shown = Picture

\* Rows are cleared only when ten seconds (ClearTicks sleeps, the first one
\* not counted) have passed without an Append, whatever is reconfigured in
\* between.  (While the threads happen to stay apart: the thread's increment
\* of mTickClean may undo the restart of an appender that overtakes it.)
ClearedWhenOld ==
  [][rows # <<>> /\ rows' = <<>> /\ ~mode.interleaved => age >= ClearTicks - 1]_vars

\* Once StopComposing has returned the thread is gone, so that the canvas
\* can be deleted, wherever it was in its loop: unless it had not begun when
\* StopComposing was called, which waits for nothing then.
ThreadGone == owner \in {"stopped", "resized", "destroyed"} /\ ~missed => thread = "none"

\* StopComposing returns: the thread ends and says so.
StopReturns == owner = "waiting" ~> owner = "stopped"
=============================================================================
