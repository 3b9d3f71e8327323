---------------------------- MODULE ComposerProofs ----------------------------
(***************************************************************************)
(* Proofs about Composer, for any finite set of channels and any count of  *)
(* ticks and of failures, and about the Routines that make the text that   *)
(* it draws and put it on the canvas, for any arguments.                   *)
(*                                                                         *)
(* That text is counted and that a running channel is captured hold        *)
(* however the words of m_bChnComposing are written, whatever frames       *)
(* arrive and whichever calls of CIntfMedia fail.  What StopComposing may  *)
(* leave is told by the history of the run: a thread or a capture only     *)
(* when the flags went astray, a frame only when it was lost.              *)
(*                                                                         *)
(* The loops of the routines are recursive functions.  The library proves  *)
(* induction with an operator for the predicate; here it is proved again   *)
(* with a set for it (CountUp), from the order of the natural numbers.     *)
(***************************************************************************)
EXTENDS Composer, Routines, TLAPS, FiniteSetTheorems, SequenceTheorems, WellFoundedInduction

-----------------------------------------------------------------------------
(***************************************************************************)
(* The inductive invariants.                                               *)
(***************************************************************************)
\* A frame that is being composed was taken, and a thread that stores the
\* word of m_bChnComposing has loaded it.
TypeInv ==
  /\ TypeOK
  /\ \A c \in Channels :
       /\ thread[c] = "frame" => frames[c] # 0
       /\ thread[c] \in {"flag", "unflag"} => word[c] \in [Channels -> BOOLEAN]

\* In the phases in which channels may be paused and restored, a channel is
\* off only while it is paused or its thread is about to start it again.
CaptureInv ==
  /\ control \in {"idle", "pausing", "restoring", "starting"} =>
       \A c \in bound : paused[c] \/ thread[c] = "restart" \/ capture[c] # "off"
  /\ control = "pausing" => chn \in bound /\ paused[chn]
  /\ control = "restoring" => chn \in bound /\ (thread[chn] = "restart" \/ capture[chn] # "off")

\* A thread has one frame while it composes; the others were lost.
FramesInv ==
  \A c \in Channels : frames[c] = lost[c] + (IF thread[c] = "frame" THEN 1 ELSE 0)

\* While the flags are not astray, a thread has its own while it runs, and the
\* word of m_bChnComposing that it has loaded is not stale.
SeenInv == \A c \in Channels : thread[c] \notin {"none", "created", "flag"} => composing[c]

WordInv ==
  /\ \A c, d \in Channels :
       thread[c] \in {"flag", "unflag"} /\ thread[d] \in {"flag", "unflag"} => c = d
  /\ \A c \in Channels : thread[c] \in {"flag", "unflag"} => word[c] = composing

\* And there is none that begins while StopComposing waits, and none afterwards.
StopInv ==
  /\ control \in {"waiting", "stopped", "resized"} =>
       \A c \in Channels : thread[c] \notin {"created", "flag"}
  /\ control \in {"stopped", "resized"} => \A c \in Channels : thread[c] = "none"
  /\ control = "stopped" => \A c \in bound : capture[c] # "on"

FlagsInv == ~astray => SeenInv /\ WordInv /\ StopInv

-----------------------------------------------------------------------------
(***************************************************************************)
(* Lemmas on the operators that a step is built from.                      *)
(***************************************************************************)
LEMMA MaxTickPositive == MaxTick \in Nat \ {0}
<1>1. Cardinality(Channels) \in Nat
  BY ChannelAssumption, FS_CardinalityType
<1>2. \A a, b \in Nat : a * b \in Nat
  OBVIOUS
<1>3. ClearTicks * Cardinality(Channels) \in Nat
  BY <1>1, <1>2, CountAssumption
<1> QED BY <1>3 DEF MaxTick

\* A thread goes somewhere, and the others stay.
LEMMA Gone ==
  ASSUME TypeOK, NEW c \in Channels, NEW pc, Goes(c, pc)
  PROVE  thread'[c] = pc /\ \A d \in Channels \ {c} : thread'[d] = thread[d]
BY DEF TypeOK, Goes

\* A capture that is started is not off, and the others stay.
LEMMA Started ==
  ASSUME TypeOK, NEW c \in Channels, StartCapture(c)
  PROVE  /\ capture' \in [Channels -> {"on", "off", "failed"}]
         /\ capture'[c] # "off" /\ \A d \in Channels \ {c} : capture'[d] = capture[d]
<1>1. PICK r \in {"on", "failed"} : capture' = [capture EXCEPT ![c] = r]
  BY DEF StartCapture
<1> QED BY <1>1 DEF TypeOK

LEMMA Stopped ==
  ASSUME TypeOK, NEW c \in Channels, StopCapture(c)
  PROVE  /\ capture' \in [Channels -> {"on", "off", "failed"}]
         /\ \A d \in Channels \ {c} : capture'[d] = capture[d]
<1>1. PICK r \in {"off", "failed"} : capture' = [capture EXCEPT ![c] = r]
  BY DEF StopCapture
<1> QED BY <1>1 DEF TypeOK

\* One more frame of a channel is lost, and as many of the others.
LEMMA Lost ==
  ASSUME TypeOK, NEW c \in Channels, Loses(c)
  PROVE  /\ lost' \in [Channels -> Nat]
         /\ lost'[c] = lost[c] + 1 /\ \A d \in Channels \ {c} : lost'[d] = lost[d]
BY DEF TypeOK, Loses

\* A frame that is given back is one less, or it is lost.
LEMMA GivenBack ==
  ASSUME TypeInv, NEW c \in Channels, GivesBack(c), thread[c] = "frame"
  PROVE  /\ frames' \in [Channels -> Nat] /\ lost' \in [Channels -> Nat]
         /\ frames'[c] - lost'[c] = frames[c] - lost[c] - 1
         /\ \A d \in Channels \ {c} : frames'[d] = frames[d] /\ lost'[d] = lost[d]
<1> TypeOK
  BY DEF TypeInv
<1>1. frames \in [Channels -> Nat] /\ lost \in [Channels -> Nat] /\ frames[c] - 1 \in Nat
  BY DEF TypeInv, TypeOK
<1>2. CASE frames' = [frames EXCEPT ![c] = frames[c] - 1] /\ UNCHANGED lost
  BY <1>1, <1>2
<1>3. CASE UNCHANGED frames /\ Loses(c)
  BY <1>1, <1>3, Lost
<1> QED BY <1>2, <1>3 DEF GivesBack

-----------------------------------------------------------------------------
(***************************************************************************)
(* Types.                                                                  *)
(***************************************************************************)
LEMMA TypeStep ==
  ASSUME TypeInv, [Next]_vars
  PROVE  TypeInv'
<1> USE DEF TypeInv
<1>1. MaxTick \in Nat \ {0}
  BY MaxTickPositive
<1>3. ASSUME NEW c \in Channels, NEW pc \in {"flag", "unflag"}, LoadsWord(c, pc)
      PROVE  TypeInv'
  <2>1. composing \in [Channels -> BOOLEAN]
    BY DEF TypeOK
  <2>2. /\ word' \in [Channels -> [Channels -> BOOLEAN] \cup {NoWord}]
        /\ word'[c] = composing /\ \A d \in Channels \ {c} : word'[d] = word[d]
    BY <1>3, <2>1 DEF TypeOK, LoadsWord
  <2>3. astray' \in BOOLEAN
    BY <1>3 DEF LoadsWord, TypeOK
  <2> QED BY <1>3, <2>1, <2>2, <2>3, Gone DEF TypeOK, LoadsWord, Goes, text, media, taken, taken, calls
<1>4. ASSUME NEW c \in Channels, NEW from \in {"flag", "unflag"}, NEW value \in BOOLEAN,
             NEW pc \in {"top", "none"}, StoresWord(c, from, value, pc)
      PROVE  TypeInv'
  <2>1. word[c] \in [Channels -> BOOLEAN]
    BY <1>4 DEF StoresWord
  <2>2. composing' \in [Channels -> BOOLEAN]
    BY <1>4, <2>1 DEF StoresWord
  <2>3. /\ word' \in [Channels -> [Channels -> BOOLEAN] \cup {NoWord}]
        /\ \A d \in Channels \ {c} : word'[d] = word[d]
    BY <1>4 DEF TypeOK, StoresWord
  <2>4. count' \in [Channels -> 0..Failures]
    BY <1>4, CountAssumption DEF TypeOK, StoresWord
  <2> QED BY <1>4, <2>2, <2>3, <2>4, Gone DEF TypeOK, StoresWord, Goes, text, media, taken, calls
<1>5. ASSUME NEW c \in Channels, LoadsTick(c) PROVE TypeInv'
  <2>1. loaded' \in [Channels -> 0..MaxTick]
    BY <1>5 DEF TypeOK, LoadsTick
  <2> QED BY <1>5, <2>1, Gone DEF TypeOK, LoadsTick, Goes, text, media, taken, flags, calls
<1>6. ASSUME NEW c \in Channels, StoresTick(c) PROVE TypeInv'
  <2>1. loaded' \in [Channels -> 0..MaxTick]
    BY <1>1, <1>6 DEF TypeOK, StoresTick
  <2>2. tick' \in 0..MaxTick
    BY <1>1, <1>6 DEF TypeOK, StoresTick
  <2> QED BY <1>6, <2>1, <2>2, Gone DEF TypeOK, StoresTick, Goes, text, media, taken, flags, calls
<1>7. ASSUME NEW c \in Channels, TestsTick(c) \/ TestsPause(c) PROVE TypeInv'
  BY <1>7, Gone DEF TypeOK, TestsTick, TestsPause, Goes, text, media, taken, flags, calls
<1>8. ASSUME NEW c \in Channels, Clears(c) \/ Forgets(c) PROVE TypeInv'
  <2>1. tick' \in 0..MaxTick
    BY <1>1, <1>8 DEF TypeOK, Clears, Forgets
  <2>2. rows' \in BOOLEAN /\ canvas' \in BOOLEAN
    BY <1>8 DEF TypeOK, Clears, Forgets
  <2>3. \E pc \in {"clear", "forget", "pause"} : Goes(c, pc)
    BY <1>8 DEF Clears, Forgets
  <2> QED BY <1>8, <2>1, <2>2, <2>3, Gone DEF TypeOK, Clears, Forgets, Goes, media, taken, flags, calls
<1>9. ASSUME NEW c \in Channels, GetFails(c) PROVE TypeInv'
  <2>1. count' \in [Channels -> 0..Failures]
    BY <1>9, CountAssumption DEF TypeOK, GetFails
  <2>2. capture' \in [Channels -> {"on", "off", "failed"}]
    BY <1>9, Stopped DEF TypeOK, GetFails
  <2>3. \E pc \in {"restart", "top"} : Goes(c, pc)
    BY <1>9 DEF GetFails
  <2> QED BY <1>9, <2>1, <2>2, <2>3, Gone DEF TypeOK, GetFails, Goes, text, taken, flags, calls
<1>10. ASSUME NEW c \in Channels, RecoveryStarts(c) PROVE TypeInv'
  BY <1>10, Gone, Started DEF TypeOK, RecoveryStarts, Restarts, Goes, text, taken, flags, calls
<1>11. ASSUME NEW c \in Channels, GetsFrame(c) PROVE TypeInv'
  <2>1. count' \in [Channels -> 0..Failures]
    BY <1>11, CountAssumption DEF TypeOK, GetsFrame
  <2>2. /\ frames' \in [Channels -> Nat]
        /\ frames'[c] # 0 /\ \A d \in Channels \ {c} : frames'[d] = frames[d]
    BY <1>11 DEF TypeOK, GetsFrame
  <2>3. lost' \in [Channels -> Nat]
    BY <1>11, Lost DEF TypeOK, GetsFrame
  <2>4. \E pc \in {"frame", "top"} : Goes(c, pc)
    BY <1>11 DEF GetsFrame
  <2> QED BY <1>11, <2>1, <2>2, <2>3, <2>4, Gone DEF TypeOK, GetsFrame, Goes, text, flags, calls
<1>12. ASSUME NEW c \in Channels, HandlesFrame(c) PROVE TypeInv'
  <2>1. GivesBack(c) /\ thread[c] = "frame" /\ Goes(c, "top")
    BY <1>12 DEF HandlesFrame, Skipped, Composed, GivesBack
  <2>2. /\ frames' \in [Channels -> Nat] /\ lost' \in [Channels -> Nat]
        /\ \A d \in Channels \ {c} : frames'[d] = frames[d]
    BY <2>1, GivenBack
  <2> QED BY <1>12, <2>1, <2>2, Gone DEF TypeOK, HandlesFrame, Goes, text, flags, calls
<1>13. CASE Appender
  <2>1. tick' \in 0..MaxTick
    BY <1>1, <1>13 DEF TypeOK, Appender, Appends, Draws, StartsTick
  <2>2. rows' \in BOOLEAN /\ canvas' \in BOOLEAN
    BY <1>13 DEF TypeOK, Appender, Appends, Draws, StartsTick
  <2> QED BY <1>13, <2>1, <2>2
          DEF TypeOK, Appender, Appends, Draws, StartsTick, media, taken, threads, flags, calls
<1>14. ASSUME NEW c \in Channels, Pause(c) \/ Restore(c) PROVE TypeInv'
  <2>1. paused' \in [Channels -> BOOLEAN]
    BY <1>14 DEF TypeOK, Pause, Restore
  <2>2. capture' \in [Channels -> {"on", "off", "failed"}]
    BY <1>14, Started DEF TypeOK, Pause, Restore, media, taken
  <2> QED BY <1>14, <2>1, <2>2 DEF TypeOK, Pause, Restore, text, media, taken, threads, flags
<1>15. CASE PauseStops \/ RestoreEnds
  <2>1. paused' \in [Channels -> BOOLEAN]
    BY <1>15 DEF TypeOK, PauseStops, RestoreEnds
  <2>2. capture' \in [Channels -> {"on", "off", "failed"}]
    BY <1>15 DEF TypeOK, PauseStops, RestoreEnds, StopCapture, media, taken
  <2> QED BY <1>15, <2>1, <2>2 DEF TypeOK, PauseStops, RestoreEnds, text, media, taken, threads, flags
<1>16. CASE StopComposing
  BY <1>16 DEF TypeOK, StopComposing, text, media, taken, threads, flags
<1>17. CASE StopComposingEnds
  <2>1. PICK down \in [bound -> {"off", "failed"}] :
          capture' = [c \in Channels |-> IF c \in bound THEN down[c] ELSE capture[c]]
    BY <1>17 DEF StopComposingEnds
  <2>2. capture' \in [Channels -> {"on", "off", "failed"}]
    BY <2>1 DEF TypeOK
  <2> QED BY <1>17, <2>2 DEF TypeOK, StopComposingEnds, text, taken, threads, flags
<1>18. ASSUME NEW new \in SUBSET Channels, Resize(new) PROVE TypeInv'
  BY <1>18 DEF TypeOK, Resize, media, taken, threads, flags
<1>19. CASE StartComposing
  <2>1. PICK up \in [bound -> {"on", "failed"}] :
          capture' = [c \in Channels |-> IF c \in bound THEN up[c] ELSE capture[c]]
    BY <1>19 DEF StartComposing
  <2>2. capture' \in [Channels -> {"on", "off", "failed"}]
    BY <2>1 DEF TypeOK
  <2> QED BY <1>19, <2>2 DEF TypeOK, StartComposing, text, taken
<1>20. ASSUME NEW c \in Channels, CreateThread(c) PROVE TypeInv'
  BY <1>20, Gone DEF TypeOK, CreateThread, Goes, text, media, taken, flags
<1>21. CASE StartsNoThread
  BY <1>21 DEF TypeOK, StartsNoThread, text, media, taken, threads, flags
<1>22. CASE UNCHANGED vars
  BY <1>22 DEF TypeOK, vars, text, media, taken, threads, flags, calls
<1> QED BY <1>3, <1>4, <1>5, <1>6, <1>7, <1>8, <1>9, <1>10, <1>11, <1>12, <1>13, <1>14,
           <1>15, <1>16, <1>17, <1>18, <1>19, <1>20, <1>21, <1>22
        DEF Next, Thread, Control, Begins, Stops, HasBegun, Ends

-----------------------------------------------------------------------------
(***************************************************************************)
(* Text on the canvas.                                                     *)
(***************************************************************************)
LEMMA CountedStep ==
  ASSUME TypeOK, TextIsCounted, [Next]_vars
  PROVE  TextIsCounted'
<1> USE DEF TextIsCounted
\* Whoever leaves the count and the canvas alone, and is not clearing it.
<1>1. ASSUME UNCHANGED text, appender' = appender \/ appender # "tick",
             \A c \in Channels : thread[c] = "clear" => thread'[c] = "clear"
      PROVE  TextIsCounted'
  BY <1>1 DEF text
<1>2. ASSUME NEW c \in Channels, NEW pc, Goes(c, pc), thread[c] # "clear", UNCHANGED text,
             UNCHANGED appender
      PROVE  TextIsCounted'
  BY <1>1, <1>2, Gone
<1>3. ASSUME NEW c \in Channels,
             Begins(c) \/ Stops(c) \/ HasBegun(c) \/ Ends(c) \/ TestsTick(c) \/ TestsPause(c)
      PROVE  TextIsCounted'
  BY <1>2, <1>3 DEF Begins, Stops, HasBegun, Ends, LoadsWord, StoresWord, TestsTick, TestsPause
<1>4. ASSUME NEW c \in Channels, LoadsTick(c) \/ GetFails(c) \/ RecoveryStarts(c) \/ GetsFrame(c)
                                 \/ HandlesFrame(c)
      PROVE  TextIsCounted'
  BY <1>2, <1>4 DEF LoadsTick, GetFails, RecoveryStarts, GetsFrame, HandlesFrame, Skipped,
                    Composed, GivesBack
<1>5. ASSUME NEW c \in Channels, StoresTick(c) PROVE TextIsCounted'
  <2>1. loaded[c] \in Nat
    BY MaxTickPositive DEF TypeOK
  <2> QED BY <1>5, <2>1, MaxTickPositive DEF StoresTick
<1>6. ASSUME NEW c \in Channels, Clears(c) PROVE TextIsCounted'
  BY <1>6, Gone DEF Clears
<1>7. ASSUME NEW c \in Channels, Forgets(c) PROVE TextIsCounted'
  BY <1>7, Gone DEF Forgets
<1>8. CASE Appender
  <2>1. CASE Appends
    BY <2>1 DEF Appends, threads, flags
  <2>2. CASE Draws
    BY <2>2 DEF Draws
  <2>3. CASE StartsTick
    BY <2>3 DEF StartsTick
  <2> QED BY <1>8, <2>1, <2>2, <2>3 DEF Appender
<1>9. ASSUME NEW c \in Channels, Pause(c) \/ Restore(c) PROVE TextIsCounted'
  BY <1>1, <1>9 DEF Pause, Restore, threads, flags
<1>10. CASE PauseStops \/ RestoreEnds \/ StopComposing \/ StopComposingEnds \/ StartComposing
            \/ StartsNoThread
  BY <1>1, <1>10 DEF PauseStops, RestoreEnds, StopComposing, StopComposingEnds, StartComposing,
                     StartsNoThread, threads, flags
<1>11. ASSUME NEW new, Resize(new) PROVE TextIsCounted'
  BY <1>11 DEF Resize
<1>12. ASSUME NEW c \in Channels, CreateThread(c) PROVE TextIsCounted'
  BY <1>2, <1>12 DEF CreateThread, Created
<1>13. CASE UNCHANGED vars
  BY <1>1, <1>13 DEF vars, threads, flags
<1> QED BY <1>3, <1>4, <1>5, <1>6, <1>7, <1>8, <1>9, <1>10, <1>11, <1>12, <1>13
        DEF Next, Thread, Control

-----------------------------------------------------------------------------
(***************************************************************************)
(* Captures.                                                               *)
(***************************************************************************)
LEMMA CaptureStep ==
  ASSUME TypeOK, CaptureInv, [Next]_vars
  PROVE  CaptureInv'
<1> USE DEF CaptureInv
<1> bound \subseteq Channels
  BY DEF TypeOK
\* Whoever lets each channel be captured or started that was so before.
<1>1. ASSUME UNCHANGED calls,
             \A c \in Channels : thread[c] = "restart" \/ capture[c] # "off"
                                 => thread'[c] = "restart" \/ capture'[c] # "off"
      PROVE  CaptureInv'
  BY <1>1 DEF calls
<1>2. ASSUME NEW c \in Channels, NEW pc, Goes(c, pc), thread[c] # "restart", UNCHANGED capture,
             UNCHANGED calls
      PROVE  CaptureInv'
  BY <1>1, <1>2, Gone
<1>3. ASSUME NEW c \in Channels,
             Begins(c) \/ Stops(c) \/ HasBegun(c) \/ Ends(c) \/ TestsTick(c) \/ TestsPause(c)
      PROVE  CaptureInv'
  BY <1>2, <1>3 DEF Begins, Stops, HasBegun, Ends, LoadsWord, StoresWord, TestsTick, TestsPause,
                    media, taken
<1>4. ASSUME NEW c \in Channels,
             LoadsTick(c) \/ StoresTick(c) \/ Clears(c) \/ Forgets(c) \/ GetsFrame(c)
             \/ HandlesFrame(c)
      PROVE  CaptureInv'
  BY <1>2, <1>4 DEF LoadsTick, StoresTick, Clears, Forgets, GetsFrame, HandlesFrame, Skipped,
                    Composed, GivesBack, media, taken
<1>5. ASSUME NEW c \in Channels, GetFails(c) PROVE CaptureInv'
  <2>1. CASE StopCapture(c) /\ Goes(c, "restart")
    BY <1>1, <1>5, <2>1, Gone, Stopped DEF GetFails
  <2>2. CASE UNCHANGED capture /\ Goes(c, "top")
    BY <1>2, <1>5, <2>2 DEF GetFails
  <2> QED BY <1>5, <2>1, <2>2 DEF GetFails
<1>6. ASSUME NEW c \in Channels, RecoveryStarts(c) PROVE CaptureInv'
  BY <1>1, <1>6, Gone, Started DEF RecoveryStarts, Restarts
<1>7. CASE Appender
  BY <1>1, <1>7 DEF Appender, Appends, Draws, StartsTick, media, taken, threads, flags
<1>8. ASSUME NEW c \in Channels, Pause(c) PROVE CaptureInv'
  BY <1>8 DEF Pause, media, taken, threads, flags, TypeOK
<1>9. ASSUME NEW c \in Channels, Restore(c) PROVE CaptureInv'
  BY <1>9, Started DEF Restore, threads, flags
<1>10. CASE PauseStops
  <2>1. chn \in Channels /\ StopCapture(chn)
    BY <1>10 DEF PauseStops
  <2> QED BY <1>10, <2>1, Stopped DEF PauseStops, threads, flags
<1>11. CASE RestoreEnds
  BY <1>11 DEF RestoreEnds, media, taken, threads, flags, TypeOK
<1>12. CASE StopComposing \/ StopComposingEnds
  BY <1>12 DEF StopComposing, StopComposingEnds
<1>13. ASSUME NEW new, Resize(new) PROVE CaptureInv'
  BY <1>13 DEF Resize
<1>14. CASE StartComposing
  BY <1>14 DEF StartComposing
<1>15. ASSUME NEW c \in Channels, CreateThread(c) PROVE CaptureInv'
  <2>1. thread[c] # "restart" /\ Goes(c, "created") /\ control = "starting"
    BY <1>15 DEF CreateThread, Created
  <2> QED BY <1>15, <2>1, Gone DEF CreateThread, media, taken
<1>16. CASE StartsNoThread
  BY <1>16 DEF StartsNoThread
<1>17. CASE UNCHANGED vars
  BY <1>1, <1>17 DEF vars, media, taken, threads, flags
<1> QED BY <1>3, <1>4, <1>5, <1>6, <1>7, <1>8, <1>9, <1>10, <1>11, <1>12, <1>13, <1>14, <1>15,
           <1>16, <1>17 DEF Next, Thread, Control

-----------------------------------------------------------------------------
(***************************************************************************)
(* StopComposing.                                                          *)
(***************************************************************************)
\* Where a thread is while it does not run: it writes its flag before and after.
Outside == {"none", "created", "flag", "unflag"}

\* Frames are taken by a thread that composes them, given back, or lost.
LEMMA FramesStep ==
  ASSUME TypeInv, FramesInv, [Next]_vars
  PROVE  FramesInv'
<1> TypeOK
  BY DEF TypeInv
<1>1. ASSUME NEW c \in Channels, NEW pc, Goes(c, pc), UNCHANGED taken,
             thread[c] # "frame", pc # "frame"
      PROVE  FramesInv'
  BY <1>1, Gone DEF FramesInv, taken
<1>2. ASSUME UNCHANGED <<taken, thread>> PROVE FramesInv'
  BY <1>2 DEF FramesInv, taken
<1>3. ASSUME NEW c \in Channels,
             Begins(c) \/ Stops(c) \/ HasBegun(c) \/ Ends(c) \/ LoadsTick(c) \/ StoresTick(c)
             \/ TestsTick(c) \/ Clears(c) \/ Forgets(c) \/ TestsPause(c) \/ CreateThread(c)
      PROVE  FramesInv'
  <2>1. /\ UNCHANGED taken /\ thread[c] # "frame"
        /\ \E pc : Goes(c, pc) /\ pc # "frame"
    BY <1>3 DEF Begins, Stops, HasBegun, Ends, LoadsWord, StoresWord, LoadsTick, StoresTick,
                TestsTick, Clears, Forgets, TestsPause, CreateThread, Created, media
  <2> QED BY <1>1, <2>1
<1>4. ASSUME NEW c \in Channels, GetFails(c) \/ RecoveryStarts(c) PROVE FramesInv'
  <2>1. /\ UNCHANGED taken /\ thread[c] # "frame"
        /\ \E pc : Goes(c, pc) /\ pc # "frame"
    BY <1>4 DEF GetFails, RecoveryStarts
  <2> QED BY <1>1, <2>1
<1>5. ASSUME NEW c \in Channels, GetsFrame(c) PROVE FramesInv'
  <2>1. /\ thread[c] = "get" /\ frames' = [frames EXCEPT ![c] = frames[c] + 1]
        /\ \/ Goes(c, "frame") /\ UNCHANGED lost
           \/ Goes(c, "top") /\ Loses(c)
    BY <1>5 DEF GetsFrame
  <2>2. /\ frames'[c] = frames[c] + 1 /\ lost[c] \in Nat
        /\ \A d \in Channels \ {c} : frames'[d] = frames[d]
    BY <2>1 DEF TypeOK
  <2>3. CASE Goes(c, "frame") /\ UNCHANGED lost
    BY <2>1, <2>2, <2>3, Gone DEF FramesInv
  <2>4. CASE Goes(c, "top") /\ Loses(c)
    BY <2>1, <2>2, <2>4, Gone, Lost DEF FramesInv
  <2> QED BY <2>1, <2>3, <2>4
<1>6. ASSUME NEW c \in Channels, HandlesFrame(c) PROVE FramesInv'
  <2>1. GivesBack(c) /\ thread[c] = "frame" /\ Goes(c, "top")
    BY <1>6 DEF HandlesFrame, Skipped, Composed, GivesBack
  <2>2. /\ frames' \in [Channels -> Nat] /\ lost' \in [Channels -> Nat]
        /\ frames'[c] - lost'[c] = frames[c] - lost[c] - 1
        /\ \A d \in Channels \ {c} : frames'[d] = frames[d] /\ lost'[d] = lost[d]
    BY <2>1, GivenBack
  <2>3. frames[c] \in Nat /\ lost[c] \in Nat /\ frames[c] = lost[c] + 1
    BY <2>1 DEF FramesInv, TypeOK
  <2>4. frames'[c] = lost'[c]
    BY <2>2, <2>3
  <2> QED BY <2>1, <2>2, <2>4, Gone DEF FramesInv
<1>7. CASE Appender \/ UNCHANGED vars
  BY <1>2, <1>7 DEF Appender, Appends, Draws, StartsTick, vars, media, threads
<1>8. ASSUME NEW c \in Channels, Pause(c) \/ Restore(c) PROVE FramesInv'
  BY <1>2, <1>8 DEF Pause, Restore, media, threads
<1>9. CASE PauseStops \/ RestoreEnds \/ StopComposing \/ StopComposingEnds \/ StartComposing
           \/ StartsNoThread
  BY <1>2, <1>9 DEF PauseStops, RestoreEnds, StopComposing, StopComposingEnds, StartComposing,
                    StartsNoThread, media, threads
<1>10. ASSUME NEW new, Resize(new) PROVE FramesInv'
  BY <1>2, <1>10 DEF Resize, media, threads
<1> QED BY <1>3, <1>4, <1>5, <1>6, <1>7, <1>8, <1>9, <1>10 DEF Next, Thread, Control

\* A running thread goes elsewhere in its loop.
LEMMA RunningStep ==
  ASSUME TypeOK, FlagsInv, NEW c \in Channels, NEW pc, Goes(c, pc),
         thread[c] \notin Outside, pc \notin Outside, UNCHANGED <<flags, calls>>
  PROVE  FlagsInv'
<1> SUFFICES ASSUME ~astray PROVE SeenInv' /\ WordInv' /\ StopInv'
  BY DEF FlagsInv, flags
<1>1. thread'[c] = pc /\ \A d \in Channels \ {c} : thread'[d] = thread[d]
  BY Gone
<1>2. SeenInv'
  BY <1>1 DEF FlagsInv, SeenInv, Outside, flags
<1>3. WordInv'
  BY <1>1 DEF FlagsInv, WordInv, Outside, flags
<1>4. control \notin {"stopped", "resized"}
  BY DEF FlagsInv, StopInv, Outside
<1>5. StopInv'
  BY <1>1, <1>4 DEF FlagsInv, StopInv, Outside, calls
<1> QED BY <1>2, <1>3, <1>5

\* A thread that begins or ends loads the word: while another one is at it,
\* the flags go astray.
LEMMA LoadsWordStep ==
  ASSUME TypeOK, FlagsInv, NEW c \in Channels, Begins(c) \/ Stops(c)
  PROVE  FlagsInv'
<1>1. PICK pc \in {"flag", "unflag"} :
        /\ LoadsWord(c, pc)
        /\ pc = "flag" => thread[c] = "created"
        /\ pc = "unflag" => thread[c] = "top"
  BY DEF Begins, Stops
<1> SUFFICES ASSUME ~astray' PROVE SeenInv' /\ WordInv' /\ StopInv'
  BY DEF FlagsInv
<1>2. /\ thread'[c] = pc /\ \A d \in Channels \ {c} : thread'[d] = thread[d]
      /\ \A d \in Channels : thread[d] \notin {"flag", "unflag"}
      /\ UNCHANGED <<bound, composing, control, capture>> /\ ~astray
  BY <1>1, Gone DEF LoadsWord, media, calls
<1>3. word'[c] = composing
  BY <1>1 DEF LoadsWord, TypeOK
<1>4. SeenInv'
  BY <1>1, <1>2 DEF FlagsInv, SeenInv
<1>5. WordInv'
  BY <1>2, <1>3 DEF WordInv
<1>6. StopInv'
  BY <1>1, <1>2 DEF FlagsInv, StopInv
<1> QED BY <1>4, <1>5, <1>6

\* It stores the word as it still is but for its own flag.
LEMMA StoresWordStep ==
  ASSUME TypeOK, FlagsInv, NEW c \in Channels, HasBegun(c) \/ Ends(c)
  PROVE  FlagsInv'
<1>1. PICK value \in BOOLEAN :
        /\ StoresWord(c, IF value THEN "flag" ELSE "unflag", value, IF value THEN "top" ELSE "none")
        /\ thread[c] = IF value THEN "flag" ELSE "unflag"
  BY DEF HasBegun, Ends, StoresWord
<1> SUFFICES ASSUME ~astray PROVE SeenInv' /\ WordInv' /\ StopInv'
  BY <1>1 DEF FlagsInv, StoresWord
<1>2. /\ thread'[c] = IF value THEN "top" ELSE "none"
      /\ \A d \in Channels \ {c} : thread'[d] = thread[d]
      /\ UNCHANGED <<bound, control, capture>>
  BY <1>1, Gone DEF StoresWord, media, calls
<1>3. word[c] = composing
  BY <1>1 DEF FlagsInv, WordInv
<1>4. composing'[c] = value /\ \A d \in Channels \ {c} : composing'[d] = composing[d]
  BY <1>1, <1>3 DEF StoresWord, TypeOK
<1>5. SeenInv'
  BY <1>1, <1>2, <1>4 DEF FlagsInv, SeenInv
<1>6. \A d \in Channels : thread'[d] \notin {"flag", "unflag"}
  BY <1>1, <1>2 DEF FlagsInv, WordInv
<1>7. WordInv'
  BY <1>6 DEF WordInv
<1>8. StopInv'
  BY <1>1, <1>2 DEF FlagsInv, StopInv
<1> QED BY <1>5, <1>7, <1>8

\* What the control thread does between two configurations.
LEMMA CallStep ==
  ASSUME FlagsInv, UNCHANGED threads, control' \notin {"waiting", "stopped", "resized"}
  PROVE  FlagsInv'
BY DEF FlagsInv, SeenInv, WordInv, StopInv, threads, flags

LEMMA FlagsStep ==
  ASSUME TypeOK, FlagsInv, [Next]_vars
  PROVE  FlagsInv'
<1>1. ASSUME NEW c \in Channels, Begins(c) \/ Stops(c) \/ HasBegun(c) \/ Ends(c)
      PROVE  FlagsInv'
  BY <1>1, LoadsWordStep, StoresWordStep
<1>2. ASSUME NEW c \in Channels,
             LoadsTick(c) \/ StoresTick(c) \/ TestsTick(c) \/ Clears(c) \/ Forgets(c) \/ TestsPause(c)
      PROVE  FlagsInv'
  <2>1. /\ UNCHANGED <<flags, calls>> /\ thread[c] \notin Outside
        /\ \E pc : Goes(c, pc) /\ pc \notin Outside
    BY <1>2 DEF LoadsTick, StoresTick, TestsTick, Clears, Forgets, TestsPause, Outside
  <2> QED BY <2>1, RunningStep
<1>3. ASSUME NEW c \in Channels, GetFails(c) \/ RecoveryStarts(c) \/ GetsFrame(c) \/ HandlesFrame(c)
      PROVE  FlagsInv'
  <2>1. /\ UNCHANGED <<flags, calls>> /\ thread[c] \notin Outside
        /\ \E pc : Goes(c, pc) /\ pc \notin Outside
    BY <1>3 DEF GetFails, RecoveryStarts, GetsFrame, HandlesFrame, Skipped, Composed, GivesBack,
                Outside
  <2> QED BY <2>1, RunningStep
<1>4. CASE Appender \/ UNCHANGED vars
  <2>1. UNCHANGED <<media, threads, calls>>
    BY <1>4 DEF Appender, Appends, Draws, StartsTick, vars
  <2> QED BY <2>1 DEF FlagsInv, SeenInv, WordInv, StopInv, media, threads, flags, calls
<1>5. ASSUME NEW c \in Channels, Pause(c) \/ Restore(c) PROVE FlagsInv'
  BY <1>5, CallStep DEF Pause, Restore
<1>6. CASE PauseStops \/ RestoreEnds \/ StartsNoThread
  BY <1>6, CallStep DEF PauseStops, RestoreEnds, StartsNoThread
<1>7. CASE StopComposing
  <2> SUFFICES ASSUME ~astray' PROVE SeenInv' /\ WordInv' /\ StopInv'
    BY DEF FlagsInv
  <2>1. /\ ~astray /\ control' = "waiting" /\ UNCHANGED <<thread, composing, word>>
        /\ \A c \in Channels : thread[c] \notin {"created", "flag"}
    BY <1>7 DEF StopComposing
  <2> QED BY <2>1 DEF FlagsInv, SeenInv, WordInv, StopInv
<1>8. CASE StopComposingEnds
  <2> SUFFICES ASSUME ~astray PROVE SeenInv' /\ WordInv' /\ StopInv'
    BY <1>8 DEF FlagsInv, StopComposingEnds, threads, flags
  <2>1. /\ control = "waiting" /\ control' = "stopped" /\ UNCHANGED <<bound, threads>>
        /\ \A c \in Channels : ~composing[c]
    BY <1>8 DEF StopComposingEnds, AllStopped
  <2>2. \A c \in Channels : thread[c] = "none"
    BY <2>1 DEF FlagsInv, SeenInv, StopInv
  <2>3. PICK down \in [bound -> {"off", "failed"}] :
          capture' = [c \in Channels |-> IF c \in bound THEN down[c] ELSE capture[c]]
    BY <1>8 DEF StopComposingEnds
  <2>4. \A c \in bound : capture'[c] # "on"
    BY <2>3 DEF TypeOK
  <2> QED BY <2>1, <2>2, <2>4 DEF FlagsInv, SeenInv, WordInv, StopInv, threads, flags
<1>9. ASSUME NEW new \in SUBSET Channels, Resize(new) PROVE FlagsInv'
  BY <1>9 DEF Resize, FlagsInv, SeenInv, WordInv, StopInv, threads, flags
<1>10. CASE StartComposing
  <2>1. /\ control' = "starting" /\ \A c \in Channels : thread'[c] = "none"
    BY <1>10 DEF StartComposing, Created
  <2> QED BY <2>1 DEF FlagsInv, SeenInv, WordInv, StopInv
<1>11. ASSUME NEW c \in Channels, CreateThread(c) PROVE FlagsInv'
  <2>1. /\ thread[c] = "none" /\ Goes(c, "created")
        /\ control' \in {"starting", "idle"} /\ UNCHANGED flags
    BY <1>11 DEF CreateThread, Created
  <2>2. thread'[c] = "created" /\ \A d \in Channels \ {c} : thread'[d] = thread[d]
    BY <2>1, Gone
  <2> QED BY <2>1, <2>2 DEF FlagsInv, SeenInv, WordInv, StopInv, flags
<1> QED BY <1>1, <1>2, <1>3, <1>4, <1>5, <1>6, <1>7, <1>8, <1>9, <1>10, <1>11
        DEF Next, Thread, Control

-----------------------------------------------------------------------------
(***************************************************************************)
(* The theorems.                                                           *)
(***************************************************************************)
\* After the constructor has resized, nothing is composed, captured or drawn.
LEMMA InitInvs == Init => TypeInv /\ CaptureInv /\ TextIsCounted /\ FramesInv /\ FlagsInv
<1> SUFFICES ASSUME Init PROVE TypeInv /\ CaptureInv /\ TextIsCounted /\ FramesInv /\ FlagsInv
  OBVIOUS
<1> USE DEF Init
<1>1. 0 \in 0..MaxTick /\ 0 \in 0..Failures
  BY MaxTickPositive, CountAssumption
<1>2. rows \in BOOLEAN /\ canvas \in BOOLEAN /\ need \in BOOLEAN
  OBVIOUS
<1>3. TypeOK
  BY <1>1, <1>2 DEF TypeOK
<1>4. TypeInv /\ CaptureInv /\ TextIsCounted
  BY <1>3 DEF TypeInv, CaptureInv, TextIsCounted
<1>5. FramesInv /\ FlagsInv
  BY DEF FramesInv, FlagsInv, SeenInv, WordInv, StopInv
<1> QED BY <1>4, <1>5

LEMMA Invariance == Spec => [](TypeInv /\ CaptureInv /\ TextIsCounted /\ FramesInv /\ FlagsInv)
<1>1. Init => TypeInv /\ CaptureInv /\ TextIsCounted /\ FramesInv /\ FlagsInv
  BY InitInvs
<1>2. TypeInv /\ CaptureInv /\ TextIsCounted /\ FramesInv /\ FlagsInv /\ [Next]_vars
      => (TypeInv /\ CaptureInv /\ TextIsCounted /\ FramesInv /\ FlagsInv)'
  BY TypeStep, CaptureStep, CountedStep, FramesStep, FlagsStep DEF TypeInv
<1> QED BY <1>1, <1>2, PTL DEF Spec

\* Every variable of the composition has its type.
THEOREM TypeCorrect == Spec => []TypeOK
<1>1. TypeInv => TypeOK
  BY DEF TypeInv
<1> QED BY <1>1, Invariance, PTL

\* However the threads' and the appender's accesses to mTickCnt overtake each
\* other, text on the canvas is counted or about to be cleared.
THEOREM TextStaysCounted == Spec => []TextIsCounted
BY Invariance, PTL

\* However pauses, restores, recoveries and configurations follow each other, a
\* channel that runs is captured, or being started, or its last start or stop failed.
THEOREM RunningStaysCaptured == Spec => []RunningIsCaptured
<1>1. CaptureInv => RunningIsCaptured
  BY DEF CaptureInv, RunningIsCaptured
<1> QED BY <1>1, Invariance, PTL

\* When StopComposing has returned, no thread is left and no channel is still
\* captured that was bound, but after two threads wrote their flags at the same
\* time or one had not begun; and of a thread that has ended no frame is left
\* but those that were empty or could not be given back.
THEOREM StopsClean == Spec => []StoppedClean
<1>1. TypeInv /\ FramesInv /\ FlagsInv => StoppedClean
  <2> SUFFICES ASSUME TypeInv, FramesInv, FlagsInv PROVE StoppedClean
    OBVIOUS
  <2>1. \A c \in Channels : thread[c] = "none" => frames[c] = lost[c]
    BY DEF FramesInv, TypeInv, TypeOK
  <2> QED BY <2>1 DEF FlagsInv, StopInv, StoppedClean
<1> QED BY <1>1, Invariance, PTL

-----------------------------------------------------------------------------
(***************************************************************************)
(* Functions that count up from zero.                                      *)
(***************************************************************************)
LEMMA SmallestOf ==
  ASSUME NEW S, S \subseteq Nat, S # {}
  PROVE  \E n \in S : \A i \in S : n <= i
<1>1. PICK n \in S : \A i \in S : ~(<<i, n>> \in OpToRel(<, Nat))
  BY NatLessThanWellFounded, WFMin
<1>2. ASSUME NEW i \in S PROVE n <= i
  <2>1. <<i, n>> \in Nat \X Nat /\ (i < n => <<i, n>> \in OpToRel(<, Nat))
    BY DEF OpToRel
  <2>2. n \in Nat /\ i \in Nat /\ ~(i < n)
    BY <1>1, <2>1
  <2> QED BY <2>2
<1> QED BY <1>2

\* Induction over the natural numbers, with a set for the predicate.
LEMMA CountUp ==
  ASSUME NEW P, 0 \in P, \A n \in Nat : n \in P => n + 1 \in P
  PROVE  \A n \in Nat : n \in P
<1> SUFFICES ASSUME Nat \ P # {} PROVE FALSE
  OBVIOUS
<1> DEFINE S == Nat \ P
<1>1. S \subseteq Nat /\ S # {}
  OBVIOUS
<1>2. \E n \in S : \A i \in S : n <= i
  BY <1>1, SmallestOf
<1>3. PICK m \in Nat : m \notin P /\ \A i \in Nat \ P : m <= i
  BY <1>2
<1>4. m # 0
  BY <1>3
<1>5. m - 1 \in Nat /\ m - 1 + 1 = m /\ ~(m <= m - 1)
  BY <1>4
<1>6. m - 1 \in P
  BY <1>3, <1>5
<1> QED BY <1>3, <1>5, <1>6

\* f[k] is got from f[k - 1] by F[k].
Counts(f, n, base, F) == f = [k \in 0..n |-> IF k = 0 THEN base ELSE F[k][f[k - 1]]]

\* Such a function exists, and what its steps keep it keeps.
LEMMA Counted ==
  ASSUME NEW n \in Nat, NEW base, NEW F, NEW T, base \in T[0],
         \A k \in 1..n : \A x \in T[k - 1] : F[k][x] \in T[k]
  PROVE  \E f : Counts(f, n, base, F) /\ \A k \in 0..n : f[k] \in T[k]
<1> DEFINE P == {m \in Nat : m <= n => \E f : Counts(f, m, base, F) /\ \A k \in 0..m : f[k] \in T[k]}
<1>1. 0 \in P
  <2> DEFINE f == [k \in 0..0 |-> base]
  <2>1. f = [k \in 0..0 |-> IF k = 0 THEN base ELSE F[k][f[k - 1]]]
    OBVIOUS
  <2>2. \A k \in 0..0 : f[k] \in T[k]
    OBVIOUS
  <2> QED BY <2>1, <2>2 DEF Counts
<1>2. ASSUME NEW m \in Nat, m \in P PROVE m + 1 \in P
  <2> SUFFICES ASSUME m + 1 <= n
               PROVE  \E f : Counts(f, m + 1, base, F) /\ \A k \in 0..(m + 1) : f[k] \in T[k]
    OBVIOUS
  <2>1. PICK f : Counts(f, m, base, F) /\ \A k \in 0..m : f[k] \in T[k]
    BY <1>2
  <2> DEFINE g == [k \in 0..(m + 1) |-> IF k = m + 1 THEN F[m + 1][f[m]] ELSE f[k]]
  <2>2. \A k \in 0..m : f[k] = IF k = 0 THEN base ELSE F[k][f[k - 1]]
    BY <2>1 DEF Counts
  <2>3. \A k \in 0..m : k \in 0..(m + 1) /\ k # m + 1 /\ g[k] = f[k]
    OBVIOUS
  <2>4. g[m + 1] = F[m + 1][f[m]] /\ m + 1 - 1 = m /\ m \in 0..m /\ m + 1 \in 1..n
    OBVIOUS
  <2> HIDE DEF g
  <2>5. \A k \in 0..(m + 1) : k = m + 1 \/ k \in 0..m
    OBVIOUS
  <2>6. \A k \in 0..m : k # 0 => k - 1 \in 0..m
    OBVIOUS
  <2>7. ASSUME NEW k \in 0..(m + 1)
        PROVE  g[k] = (IF k = 0 THEN base ELSE F[k][g[k - 1]]) /\ g[k] \in T[k]
    <3>1. CASE k = m + 1
      <4>1. k # 0
        BY <3>1
      <4>2. f[m] \in T[m]
        BY <2>1, <2>4
      <4>3. F[m + 1][f[m]] \in T[m + 1]
        BY <2>4, <4>2
      <4> QED BY <2>3, <2>4, <3>1, <4>1, <4>3
    <3>2. CASE k \in 0..m
      BY <2>1, <2>2, <2>3, <2>6, <3>2
    <3> QED BY <2>5, <3>1, <3>2
  <2>8. g = [k \in 0..(m + 1) |-> g[k]]
    BY DEF g
  <2>9. g = [k \in 0..(m + 1) |-> IF k = 0 THEN base ELSE F[k][g[k - 1]]]
    BY <2>7, <2>8
  <2> QED BY <2>7, <2>9 DEF Counts
<1> HIDE DEF P
<1>3. n \in P
  BY <1>1, <1>2, CountUp
<1> QED BY <1>3 DEF P

\* What the first value has and every step keeps, all values have.
LEMMA CountKeeps ==
  ASSUME NEW n \in Nat, NEW f, NEW T, f[0] \in T[0],
         \A k \in 1..n : f[k - 1] \in T[k - 1] => f[k] \in T[k]
  PROVE  \A k \in 0..n : f[k] \in T[k]
<1> DEFINE P == {m \in Nat : m <= n => f[m] \in T[m]}
<1>1. 0 \in P
  OBVIOUS
<1>2. ASSUME NEW m \in Nat, m \in P PROVE m + 1 \in P
  <2> SUFFICES ASSUME m + 1 <= n PROVE f[m + 1] \in T[m + 1]
    OBVIOUS
  <2>1. m + 1 \in 1..n /\ m + 1 - 1 = m /\ f[m] \in T[m]
    BY <1>2
  <2> QED BY <2>1
<1> HIDE DEF P
<1>3. \A m \in Nat : m \in P
  BY <1>1, <1>2, CountUp
<1> QED BY <1>3 DEF P

-----------------------------------------------------------------------------
(***************************************************************************)
(* remove_extra_space.                                                     *)
(***************************************************************************)
\* The reference, character after character.
IsKept(w, txt) ==
  /\ \A k \in 0..Len(txt) : w[k] \in Seq(Char)
  /\ w[0] = <<>>
  /\ \A k \in 1..Len(txt) :
       w[k] = IF ExtraSpace(txt, k) THEN w[k - 1] ELSE Append(w[k - 1], txt[k])
  /\ WithoutExtraSpace(txt) = w[Len(txt)]

LEMMA Kept ==
  ASSUME NEW txt \in Seq(Char)
  PROVE  \E w : IsKept(w, txt)
<1> DEFINE n == Len(txt)
           T == [k \in 0..n |-> Seq(Char)]
           F == [k \in 1..n |-> [x \in Seq(Char) |->
                                   IF ExtraSpace(txt, k) THEN x ELSE Append(x, txt[k])]]
           kept[i \in 0..Len(txt)] ==
             IF i = 0 THEN <<>>
             ELSE IF ExtraSpace(txt, i) THEN kept[i - 1] ELSE Append(kept[i - 1], txt[i])
<1>1. n \in Nat /\ \A k \in 1..n : txt[k] \in Char /\ k - 1 \in 0..n /\ k \in 0..n
  OBVIOUS
<1>2. <<>> \in T[0]
  BY <1>1
<1>3. ASSUME NEW k \in 1..n, NEW x \in T[k - 1] PROVE F[k][x] \in T[k]
  <2>1. x \in Seq(Char) /\ T[k] = Seq(Char) /\ txt[k] \in Char
    BY <1>1
  <2>2. F[k][x] = IF ExtraSpace(txt, k) THEN x ELSE Append(x, txt[k])
    BY <2>1
  <2> QED BY <2>1, <2>2, AppendProperties
<1>4. \A k \in 0..n : T[k] = Seq(Char)
  OBVIOUS
<1>5. \A k \in 1..n : \A x \in Seq(Char) :
        F[k][x] = IF ExtraSpace(txt, k) THEN x ELSE Append(x, txt[k])
  OBVIOUS
<1> HIDE DEF n, T, F
<1>6. PICK f : Counts(f, n, <<>>, F) /\ \A k \in 0..n : f[k] \in T[k]
  BY <1>1, <1>2, <1>3, Counted
<1>7. \A k \in 0..n : f[k] \in Seq(Char)
  BY <1>4, <1>6
<1>8. f = [k \in 0..n |-> IF k = 0 THEN <<>> ELSE F[k][f[k - 1]]]
  BY <1>6 DEF Counts
<1>9. ASSUME NEW k \in 0..n
      PROVE  f[k] = IF k = 0 THEN <<>>
                    ELSE IF ExtraSpace(txt, k) THEN f[k - 1] ELSE Append(f[k - 1], txt[k])
  <2>1. CASE k = 0
    BY <1>8, <2>1
  <2>2. CASE k # 0
    <3>1. k \in 1..n /\ k - 1 \in 0..n
      BY <1>1, <2>2
    <3> QED BY <1>5, <1>7, <1>8, <2>2, <3>1
  <2> QED BY <2>1, <2>2
<1>10. f = [k \in 0..n |-> f[k]]
  BY <1>8
<1>11. f = [k \in 0..n |-> IF k = 0 THEN <<>>
                           ELSE IF ExtraSpace(txt, k) THEN f[k - 1] ELSE Append(f[k - 1], txt[k])]
  BY Zenon, <1>9, <1>10
<1>12. kept = [k \in 0..n |-> IF k = 0 THEN <<>>
                ELSE IF ExtraSpace(txt, k) THEN kept[k - 1] ELSE Append(kept[k - 1], txt[k])]
  BY Zenon, <1>11 DEF n
<1>13. WithoutExtraSpace(txt) = kept[n]
  BY DEF WithoutExtraSpace, n
<1> HIDE DEF kept
<1>14. /\ kept[0] = <<>>
       /\ \A k \in 1..n : kept[k] = IF ExtraSpace(txt, k) THEN kept[k - 1]
                                    ELSE Append(kept[k - 1], txt[k])
  <2>1. 0 \in 0..n /\ \A k \in 1..n : k \in 0..n /\ k # 0
    BY <1>1
  <2> QED BY <1>12, <2>1
<1>15. kept[0] \in T[0]
  BY <1>2, <1>14
<1>16. ASSUME NEW k \in 1..n, kept[k - 1] \in T[k - 1] PROVE kept[k] \in T[k]
  <2>1. kept[k - 1] \in Seq(Char) /\ txt[k] \in Char
    BY <1>1, <1>4, <1>16
  <2>2. kept[k] \in Seq(Char)
    <3>1. kept[k] = kept[k - 1] \/ kept[k] = Append(kept[k - 1], txt[k])
      BY ONLY <1>14, k \in 1..n
    <3>2. Append(kept[k - 1], txt[k]) \in Seq(Char)
      BY ONLY <2>1, AppendProperties
    <3> QED BY Zenon, <2>1, <3>1, <3>2
  <2> QED BY <1>1, <1>4, <2>2
<1>17. \A k \in 0..n : kept[k] \in T[k]
  BY <1>1, <1>15, <1>16, CountKeeps
<1> QED BY <1>1, <1>4, <1>13, <1>14, <1>17 DEF IsKept, n

\* A state of the loop.
State(n) == [txt : [1..n -> Char], ps : Nat, pm : Nat, pe : Nat, matching : BOOLEAN]

\* The text as far as it is written: that of w, and behind it the text as it was.
Written(s, w, txt) ==
  /\ s \in State(Len(txt))
  /\ s.ps = Len(w) + 1 /\ s.ps <= Len(txt) + 1
  /\ \A k \in 1..Len(w) : s.txt[k] = w[k]
  /\ \A k \in s.ps..Len(txt) : s.txt[k] = txt[k]

\* The state behind the i-th character.  A run of spaces that waits is not written.
Scanned(s, w, txt, i) ==
  /\ IF s.matching
     THEN /\ s.pm \in 1..i /\ s.pe = i /\ s.ps <= s.pm
          /\ \A k \in s.pm..i : txt[k] = Space
          /\ Written(s, w[s.pm - 1], txt)
     ELSE s.ps <= i + 1 /\ Written(s, w[i], txt)

LEMMA PutIs ==
  ASSUME NEW n \in Nat, NEW s \in State(n), NEW c \in Char
  PROVE  /\ Put(s, c) \in State(n)
         /\ Put(s, c).ps = s.ps + 1 /\ Put(s, c).pm = s.pm /\ Put(s, c).pe = s.pe
         /\ Put(s, c).matching = s.matching
         /\ \A k \in 1..n : Put(s, c).txt[k] = IF k = s.ps THEN c ELSE s.txt[k]
<1>1. s.txt \in [1..n -> Char] /\ s.ps \in Nat
  BY DEF State
<1>2. Put(s, c) = [s EXCEPT !.txt = [@ EXCEPT ![s.ps] = c], !.ps = s.ps + 1]
  BY <1>1 DEF Put, State
<1> DEFINE t == [s.txt EXCEPT ![s.ps] = c]
<1>3. t \in [1..n -> Char] /\ \A k \in 1..n : t[k] = IF k = s.ps THEN c ELSE s.txt[k]
  BY <1>1
<1>4. Put(s, c) = [txt |-> t, ps |-> s.ps + 1, pm |-> s.pm, pe |-> s.pe, matching |-> s.matching]
  BY <1>2 DEF State
<1> HIDE DEF t
<1> QED BY <1>1, <1>3, <1>4 DEF State

\* One more character is written.
LEMMA PutWritten ==
  ASSUME NEW txt \in Seq(Char), NEW w \in Seq(Char), NEW s, Written(s, w, txt),
         NEW c \in Char, s.ps <= Len(txt)
  PROVE  Written(Put(s, c), Append(w, c), txt)
<1> DEFINE n == Len(txt)
           a == Append(w, c)
           p == Put(s, c)
<1>1. n \in Nat /\ s \in State(n) /\ s.ps = Len(w) + 1 /\ Len(w) \in Nat
  BY DEF Written
<1>2. Len(a) = Len(w) + 1 /\ a[Len(w) + 1] = c /\ \A k \in 1..Len(w) : a[k] = w[k]
  BY AppendProperties
<1>3. /\ p \in State(n) /\ p.ps = s.ps + 1
      /\ \A k \in 1..n : p.txt[k] = IF k = s.ps THEN c ELSE s.txt[k]
  <2>1. PICK l \in Nat : l = n /\ s \in State(l)
    BY Zenon, <1>1
  <2>2. /\ p \in State(l) /\ p.ps = s.ps + 1
        /\ \A k \in 1..l : p.txt[k] = IF k = s.ps THEN c ELSE s.txt[k]
    BY ONLY <2>1, PutIs, l \in Nat, c \in Char
  <2> QED BY Zenon, <2>1, <2>2
<1>4. s.ps <= n /\ (\A k \in 1..Len(w) : s.txt[k] = w[k]) /\ \A k \in s.ps..n : s.txt[k] = txt[k]
  BY DEF Written
<1> HIDE DEF a, p, n
<1>5. \A k \in 1..Len(a) : p.txt[k] = a[k]
  BY <1>1, <1>2, <1>3, <1>4
<1>6. \A k \in p.ps..n : p.txt[k] = txt[k]
  BY <1>1, <1>3, <1>4
<1>7. p.ps = Len(a) + 1 /\ p.ps <= n + 1
  BY <1>1, <1>2, <1>3, <1>4
<1> QED BY <1>3, <1>5, <1>6, <1>7 DEF Written, a, p, n

\* A run that is extra, and one that is not.
LEMMA RunDropped ==
  ASSUME NEW txt \in Seq(Char), NEW w, IsKept(w, txt),
         NEW a \in 1..Len(txt), NEW b \in Nat, a <= b + 1, b <= Len(txt),
         \A k \in a..b : ExtraSpace(txt, k)
  PROVE  w[b] = w[a - 1]
<1> DEFINE P == {m \in Nat : a - 1 + m <= b => w[a - 1 + m] = w[a - 1]}
<1>0. a \in Nat /\ Len(txt) \in Nat
  OBVIOUS
<1>1. 0 \in P
  BY <1>0
<1>2. ASSUME NEW m \in Nat, m \in P PROVE m + 1 \in P
  <2> SUFFICES ASSUME a - 1 + (m + 1) <= b PROVE w[a - 1 + (m + 1)] = w[a - 1]
    OBVIOUS
  <2>1. a + m \in 1..Len(txt) /\ a + m \in a..b /\ a + m - 1 = a - 1 + m /\ a - 1 + (m + 1) = a + m
    BY <1>0
  <2>2. w[a + m] = w[a + m - 1]
    BY <2>1 DEF IsKept
  <2>3. w[a - 1 + m] = w[a - 1]
    BY <1>0, <1>2
  <2> QED BY <2>1, <2>2, <2>3
<1>3. b - a + 1 \in Nat /\ a - 1 + (b - a + 1) = b
  BY <1>0
<1> HIDE DEF P
<1>4. b - a + 1 \in P
  BY <1>1, <1>2, <1>3, CountUp
<1> QED BY <1>0, <1>3, <1>4 DEF P

\* What MoveRun has moved after k characters of a run that is not extra.
MovedRun(m, s, w, txt, k) ==
  /\ m \in State(Len(txt)) /\ m.ps = s.ps + k /\ m.pm = s.pm /\ m.pe = s.pe
  /\ m.matching = s.matching
  /\ Written(m, w[s.pm - 1 + k], txt)

LEMMA MovedOne ==
  ASSUME NEW txt \in Seq(Char), NEW w, IsKept(w, txt), NEW s \in State(Len(txt)),
         NEW n \in Nat, s.pm \in 1..Len(txt), s.pm + n - 1 <= Len(txt), s.ps <= s.pm,
         \A k \in s.pm..(s.pm + n - 1) : txt[k] = Space /\ ~ExtraSpace(txt, k),
         NEW k \in 1..n, NEW m, MovedRun(m, s, w, txt, k - 1)
  PROVE  MovedRun(Put(m, m.txt[s.pm + k - 1]), s, w, txt, k)
<1> DEFINE i == s.pm + k - 1
<1>1. /\ Len(txt) \in Nat /\ s.pm \in Nat /\ s.ps \in Nat /\ i \in 1..Len(txt) /\ k - 1 \in Nat
      /\ i \in s.pm..(s.pm + n - 1) /\ s.pm - 1 + (k - 1) = i - 1 /\ s.pm - 1 + k = i
      /\ i - 1 \in 0..Len(txt)
  BY DEF State
<1>2. m \in State(Len(txt)) /\ Written(m, w[i - 1], txt) /\ m.ps = s.ps + (k - 1)
  BY <1>1 DEF MovedRun
<1>3. m.ps <= i /\ m.ps \in Nat /\ s.ps + (k - 1) + 1 = s.ps + k
  BY <1>1, <1>2
<1>4. m.txt[i] = Space /\ txt[i] = Space /\ Space \in Char
  <2>1. txt[i] = Space /\ Space \in Char
    BY <1>1 DEF Char
  <2>2. i \in m.ps..Len(txt)
    BY <1>1, <1>3
  <2>3. \A j \in m.ps..Len(txt) : m.txt[j] = txt[j]
    BY <1>2 DEF Written
  <2> QED BY <2>1, <2>2, <2>3
<1>5. w[i - 1] \in Seq(Char) /\ w[i] = Append(w[i - 1], Space)
  BY <1>1, <1>4 DEF IsKept
<1>6. Written(Put(m, Space), w[i], txt)
  <2>1. m.ps <= Len(txt)
    BY <1>1, <1>3
  <2> QED BY <1>2, <1>4, <1>5, <2>1, PutWritten
<1>7. /\ Put(m, Space) \in State(Len(txt)) /\ Put(m, Space).ps = m.ps + 1
      /\ Put(m, Space).pm = m.pm /\ Put(m, Space).pe = m.pe /\ Put(m, Space).matching = m.matching
  <2>1. Len(txt) \in Nat /\ m \in State(Len(txt)) /\ Space \in Char
    BY <1>1, <1>2, <1>4
  <2> QED BY ONLY <2>1, PutIs
<1>8. m.pm = s.pm /\ m.pe = s.pe /\ m.matching = s.matching
  BY DEF MovedRun
<1> HIDE DEF i
<1>9. Put(m, Space).ps = s.ps + k
  BY <1>1, <1>2, <1>3, <1>7
<1>10. MovedRun(Put(m, Space), s, w, txt, k)
  BY <1>1, <1>6, <1>7, <1>8, <1>9 DEF MovedRun
<1> QED BY <1>4, <1>10 DEF i

LEMMA MovedAll ==
  ASSUME NEW txt \in Seq(Char), NEW w, IsKept(w, txt), NEW s \in State(Len(txt)),
         NEW n \in Nat, s.pm \in 1..Len(txt), s.pm + n - 1 <= Len(txt), s.ps <= s.pm,
         Written(s, w[s.pm - 1], txt),
         \A k \in s.pm..(s.pm + n - 1) : txt[k] = Space /\ ~ExtraSpace(txt, k)
  PROVE  MovedRun(Moved(s, n), s, w, txt, n)
<1> DEFINE S == State(Len(txt))
           T == [k \in 0..n |-> {m \in S : MovedRun(m, s, w, txt, k)}]
           F == [k \in 1..n |-> [m \in S |-> Put(m, m.txt[s.pm + k - 1])]]
           move[k \in 0..n] == IF k = 0 THEN s ELSE Put(move[k - 1], move[k - 1].txt[s.pm + k - 1])
<1>1. \A k \in 1..n : k \in 0..n /\ k # 0 /\ k - 1 \in 0..n
  OBVIOUS
<1>2. \A m : \A k \in 0..n : m \in T[k] <=> m \in S /\ MovedRun(m, s, w, txt, k)
  OBVIOUS
<1>3. \A k \in 1..n, m \in S : F[k][m] = Put(m, m.txt[s.pm + k - 1])
  OBVIOUS
<1>4. 0 \in 0..n /\ n \in 0..n
  OBVIOUS
<1> HIDE DEF T, F
<1>5. s \in T[0]
  <2>1. s.pm - 1 + 0 = s.pm - 1 /\ s.ps + 0 = s.ps
    BY DEF State
  <2>2. MovedRun(s, s, w, txt, 0)
    BY <2>1 DEF MovedRun
  <2> QED BY <1>2, <1>4, <2>2
<1>6. ASSUME NEW k \in 1..n, NEW m \in T[k - 1]
      PROVE  m \in S /\ Put(m, m.txt[s.pm + k - 1]) \in T[k]
  <2>1. m \in S /\ MovedRun(m, s, w, txt, k - 1)
    BY <1>1, <1>2
  <2>2. MovedRun(Put(m, m.txt[s.pm + k - 1]), s, w, txt, k)
    BY <2>1, MovedOne
  <2>3. Put(m, m.txt[s.pm + k - 1]) \in S
    BY <2>2 DEF MovedRun
  <2> QED BY <1>1, <1>2, <2>1, <2>2, <2>3
<1> HIDE DEF S
<1>7. \A k \in 1..n : \A m \in T[k - 1] : F[k][m] \in T[k]
  BY <1>3, <1>6
<1>8. PICK f : Counts(f, n, s, F) /\ \A k \in 0..n : f[k] \in T[k]
  BY <1>5, <1>7, Counted
<1>9. f = [k \in 0..n |-> IF k = 0 THEN s ELSE F[k][f[k - 1]]]
  BY <1>8 DEF Counts
<1>10. f = [k \in 0..n |-> f[k]]
  BY <1>9
<1>11. ASSUME NEW k \in 0..n
       PROVE  f[k] = IF k = 0 THEN s ELSE Put(f[k - 1], f[k - 1].txt[s.pm + k - 1])
  <2>1. CASE k = 0
    BY <1>9, <2>1
  <2>2. CASE k # 0
    <3>1. k \in 1..n /\ f[k - 1] \in T[k - 1]
      BY <1>1, <1>8, <2>2
    <3>2. f[k - 1] \in S
      BY <1>6, <3>1
    <3>3. f[k] = F[k][f[k - 1]]
      BY <1>9, <2>2
    <3> QED BY <1>3, <2>2, <3>1, <3>2, <3>3
  <2> QED BY <2>1, <2>2
<1>12. f = [k \in 0..n |-> IF k = 0 THEN s ELSE Put(f[k - 1], f[k - 1].txt[s.pm + k - 1])]
  BY Zenon, <1>10, <1>11
<1>13. move = [k \in 0..n |->
                 IF k = 0 THEN s ELSE Put(move[k - 1], move[k - 1].txt[s.pm + k - 1])]
  BY Zenon, <1>12
<1>14. Moved(s, n) = move[n]
  BY DEF Moved
<1> HIDE DEF move
<1>15. move[0] \in T[0]
  BY <1>4, <1>5, <1>13
<1>16. ASSUME NEW k \in 1..n, move[k - 1] \in T[k - 1] PROVE move[k] \in T[k]
  <2>1. move[k] = Put(move[k - 1], move[k - 1].txt[s.pm + k - 1])
    BY <1>1, <1>13
  <2> QED BY <1>6, <1>16, <2>1
<1>17. \A k \in 0..n : move[k] \in T[k]
  BY <1>15, <1>16, CountKeeps
<1> QED BY <1>2, <1>4, <1>14, <1>17

\* One round of the loop.
LEMMA ScanSpace ==
  ASSUME NEW txt \in Seq(Char), NEW w, IsKept(w, txt), NEW i \in 1..Len(txt), NEW s,
         s \in State(Len(txt)), Scanned(s, w, txt, i - 1), s.txt[i] = Space, txt[i] = Space
  PROVE  SpaceAt(s, i) \in State(Len(txt)) /\ Scanned(SpaceAt(s, i), w, txt, i)
<1>1. i \in Nat /\ Len(txt) \in Nat /\ s.ps \in Nat /\ s.pm \in Nat
  BY DEF State
<1>2. CASE s.matching
  <2> DEFINE p == [s EXCEPT !.pe = i]
  <2>1. SpaceAt(s, i) = p
    BY <1>2 DEF SpaceAt
  <2>2. /\ p \in State(Len(txt)) /\ p.txt = s.txt /\ p.ps = s.ps /\ p.pm = s.pm /\ p.pe = i
        /\ p.matching
    BY <1>1, <1>2 DEF State
  <2> HIDE DEF p
  <2>3. /\ s.pm \in 1..i /\ s.pm <= i - 1 /\ s.ps <= s.pm /\ Written(s, w[s.pm - 1], txt)
        /\ \A k \in s.pm..(i - 1) : txt[k] = Space
    BY <1>1, <1>2 DEF Scanned
  <2>4. \A k \in s.pm..i : k = i \/ k \in s.pm..(i - 1)
    BY <1>1
  <2>5. \A k \in p.pm..i : txt[k] = Space
    BY <2>2, <2>3, <2>4
  <2>6. Written(p, w[p.pm - 1], txt)
    BY <2>2, <2>3 DEF Written
  <2> QED BY <2>1, <2>2, <2>3, <2>5, <2>6 DEF Scanned
<1>3. CASE ~s.matching
  <2> DEFINE p == [s EXCEPT !.matching = TRUE, !.pm = i, !.pe = i]
  <2>1. SpaceAt(s, i) = p
    BY <1>3 DEF SpaceAt
  <2>2. /\ p \in State(Len(txt)) /\ p.txt = s.txt /\ p.ps = s.ps /\ p.pm = i /\ p.pe = i
        /\ p.matching
    BY <1>1 DEF State
  <2> HIDE DEF p
  <2>3. s.ps <= i /\ Written(s, w[i - 1], txt)
    BY <1>1, <1>3 DEF Scanned
  <2>4. \A k \in i..i : txt[k] = Space
    BY <1>1
  <2>5. Written(p, w[p.pm - 1], txt)
    BY <2>2, <2>3 DEF Written
  <2>6. p.pm \in 1..i /\ p.ps <= p.pm
    BY <1>1, <2>2, <2>3
  <2> QED BY <2>1, <2>2, <2>4, <2>5, <2>6 DEF Scanned
<1> QED BY <1>2, <1>3

\* Spaces before a letter are not extra; those before a newline and at the end are.
LEMMA BeforeLetter ==
  ASSUME NEW txt, NEW a \in Nat, NEW i \in Nat, i <= Len(txt), Len(txt) \in Nat, txt[i] = Letter,
         \A k \in a..(i - 1) : txt[k] = Space
  PROVE  \A k \in a..(i - 1) : ~ExtraSpace(txt, k)
<1> SUFFICES ASSUME NEW k \in a..(i - 1), ExtraSpace(txt, k) PROVE FALSE
  OBVIOUS
<1>1. i \in k..Len(txt)
  OBVIOUS
<1>2. PICK j \in k..i : txt[j] = Newline
  BY <1>1 DEF ExtraSpace
<1>3. j = i \/ j \in a..(i - 1)
  OBVIOUS
<1> QED BY <1>2, <1>3, CharAssumption

LEMMA BeforeNewline ==
  ASSUME NEW txt, NEW a \in Nat, NEW i \in Nat, i <= Len(txt), Len(txt) \in Nat, txt[i] = Newline,
         \A k \in a..(i - 1) : txt[k] = Space
  PROVE  \A k \in a..(i - 1) : ExtraSpace(txt, k)
<1> SUFFICES ASSUME NEW k \in a..(i - 1), NEW j \in k..Len(txt), txt[j] = Letter
             PROVE  \E m \in k..j : txt[m] = Newline
  BY DEF ExtraSpace
<1>1. j \in a..(i - 1) \/ i <= j
  OBVIOUS
<1>2. i <= j
  BY <1>1, CharAssumption
<1>3. i \in k..j
  BY <1>2
<1> QED BY <1>3

LEMMA BeforeEnd ==
  ASSUME NEW txt, NEW a \in Nat, Len(txt) \in Nat, \A k \in a..Len(txt) : txt[k] = Space
  PROVE  \A k \in a..Len(txt) : ExtraSpace(txt, k)
<1> SUFFICES ASSUME NEW k \in a..Len(txt), NEW j \in k..Len(txt), txt[j] = Letter PROVE FALSE
  BY DEF ExtraSpace
<1>1. j \in a..Len(txt)
  OBVIOUS
<1> QED BY <1>1, CharAssumption

\* A character that is no space is written behind the run, if there is one.
LEMMA WriteOther ==
  ASSUME NEW txt \in Seq(Char), NEW w, IsKept(w, txt), NEW i \in 1..Len(txt), txt[i] # Space,
         NEW run \in State(Len(txt)), run.ps <= i, Written(run, w[i - 1], txt),
         NEW p, p = [run EXCEPT !.matching = FALSE, !.pm = i, !.pe = i]
  PROVE  Put(p, p.txt[i]) \in State(Len(txt)) /\ Scanned(Put(p, p.txt[i]), w, txt, i)
<1>1. i \in Nat /\ Len(txt) \in Nat /\ run.ps \in Nat /\ i - 1 \in 0..Len(txt) /\ txt[i] \in Char
  BY DEF State
<1>2. /\ p \in State(Len(txt)) /\ p.txt = run.txt /\ p.ps = run.ps /\ p.pm = i /\ p.pe = i
      /\ p.matching = FALSE
  BY <1>1 DEF State
<1>3. Written(p, w[i - 1], txt)
  BY <1>2 DEF Written
<1>4. p.txt[i] = txt[i]
  <2>1. i \in p.ps..Len(txt)
    BY <1>1, <1>2
  <2> QED BY <1>3, <2>1 DEF Written
<1>5. w[i - 1] \in Seq(Char) /\ w[i] = Append(w[i - 1], txt[i])
  <2>1. ~ExtraSpace(txt, i)
    BY DEF ExtraSpace
  <2> QED BY <1>1, <2>1 DEF IsKept
<1>6. Written(Put(p, txt[i]), w[i], txt)
  <2>1. p.ps <= Len(txt)
    BY <1>1, <1>2
  <2> QED BY <1>1, <1>3, <1>5, <2>1, PutWritten
<1>7. /\ Put(p, txt[i]) \in State(Len(txt)) /\ Put(p, txt[i]).ps = p.ps + 1
      /\ Put(p, txt[i]).matching = FALSE
  <2>1. Len(txt) \in Nat /\ p \in State(Len(txt)) /\ txt[i] \in Char
    BY <1>1, <1>2
  <2>2. PICK n \in Nat, c \in Char : n = Len(txt) /\ c = txt[i] /\ p \in State(n)
    BY Zenon, <2>1
  <2>3. Put(p, c) \in State(n) /\ Put(p, c).ps = p.ps + 1 /\ Put(p, c).matching = p.matching
    BY ONLY <2>2, PutIs, n \in Nat, c \in Char
  <2> QED BY Zenon, <1>2, <2>2, <2>3
<1>8. Put(p, txt[i]).ps <= i + 1
  BY <1>1, <1>2, <1>7
<1>9. Scanned(Put(p, txt[i]), w, txt, i)
  BY <1>6, <1>7, <1>8 DEF Scanned
<1> QED BY <1>4, <1>7, <1>9

LEMMA ScanOther ==
  ASSUME NEW txt \in Seq(Char), NEW w, IsKept(w, txt), NEW i \in 1..Len(txt), NEW s,
         s \in State(Len(txt)), Scanned(s, w, txt, i - 1), s.txt[i] = txt[i], txt[i] # Space
  PROVE  OtherAt(s, i) \in State(Len(txt)) /\ Scanned(OtherAt(s, i), w, txt, i)
<1> DEFINE run == IF s.matching /\ s.txt[i] # Newline THEN MoveRun(s) ELSE s
           p == [run EXCEPT !.matching = FALSE, !.pm = i, !.pe = i]
<1>1. OtherAt(s, i) = Put(p, p.txt[i])
  BY DEF OtherAt
<1>2. i \in Nat /\ Len(txt) \in Nat /\ s.ps \in Nat /\ s.pm \in Nat
  BY DEF State
<1>3. run \in State(Len(txt)) /\ run.ps <= i /\ Written(run, w[i - 1], txt)
  <2>1. CASE ~s.matching
    <3>1. s.ps <= i /\ Written(s, w[i - 1], txt)
      BY <1>2, <2>1 DEF Scanned
    <3> QED BY <2>1, <3>1
  <2>2. ASSUME s.matching
        PROVE  /\ s.pm \in 1..(i - 1) /\ s.pe = i - 1 /\ s.ps <= s.pm
               /\ \A k \in s.pm..(i - 1) : txt[k] = Space
               /\ Written(s, w[s.pm - 1], txt)
    BY <1>2, <2>2 DEF Scanned
  <2>3. CASE s.matching /\ txt[i] = Newline
    <3>1. \A k \in s.pm..(i - 1) : ExtraSpace(txt, k)
      <4>1. s.pm \in Nat /\ i <= Len(txt) /\ \A k \in s.pm..(i - 1) : txt[k] = Space
        BY <1>2, <2>2, <2>3
      <4> QED BY <1>2, <2>3, <4>1, BeforeNewline
    <3>2. s.pm \in 1..Len(txt) /\ i - 1 \in Nat /\ s.pm <= i - 1 + 1 /\ i - 1 <= Len(txt)
      BY <1>2, <2>2, <2>3
    <3>3. w[i - 1] = w[s.pm - 1]
      BY <3>1, <3>2, RunDropped
    <3>4. s.ps <= i
      BY <1>2, <2>2, <2>3
    <3> QED BY <2>2, <2>3, <3>3, <3>4
  <2>4. CASE s.matching /\ txt[i] # Newline
    <3> DEFINE n == s.pe - s.pm + 1
    <3>1. run = Moved(s, n)
      BY <2>4 DEF MoveRun
    <3>2. txt[i] = Letter
      BY <2>4 DEF Char
    <3>3. \A k \in s.pm..(i - 1) : ~ExtraSpace(txt, k)
      <4>1. s.pm \in Nat /\ i <= Len(txt) /\ \A k \in s.pm..(i - 1) : txt[k] = Space
        BY <1>2, <2>2, <2>4
      <4> QED BY <1>2, <3>2, <4>1, BeforeLetter
    <3>4. /\ n \in Nat /\ s.pm + n - 1 = i - 1 /\ s.pm + n - 1 <= Len(txt) /\ s.pm - 1 + n = i - 1
          /\ s.pm \in 1..Len(txt) /\ s.ps <= s.pm /\ s.ps + n <= i
      BY <1>2, <2>2, <2>4
    <3> HIDE DEF run, n
    <3>5. \A k \in s.pm..(s.pm + n - 1) : txt[k] = Space /\ ~ExtraSpace(txt, k)
      BY <2>2, <2>4, <3>3, <3>4
    <3>6. Written(s, w[s.pm - 1], txt)
      BY <2>2, <2>4
    <3>7. MovedRun(run, s, w, txt, n)
      BY <3>1, <3>4, <3>5, <3>6, MovedAll
    <3> QED BY <3>4, <3>7 DEF MovedRun
  <2> QED BY <2>1, <2>3, <2>4
<1> HIDE DEF run
<1> QED BY <1>1, <1>3, WriteOther

LEMMA ScanOne ==
  ASSUME NEW txt \in Seq(Char), NEW w, IsKept(w, txt), NEW i \in 1..Len(txt), NEW s,
         s \in State(Len(txt)), Scanned(s, w, txt, i - 1)
  PROVE  Scan(s, i) \in State(Len(txt)) /\ Scanned(Scan(s, i), w, txt, i)
<1>1. i \in Nat /\ Len(txt) \in Nat /\ s.ps \in Nat /\ s.pm \in Nat
  BY DEF State
<1>2. i \in s.ps..Len(txt) /\ \A k \in s.ps..Len(txt) : s.txt[k] = txt[k]
  <2>1. s.ps <= i
    BY <1>1 DEF Scanned
  <2>2. \A k \in s.ps..Len(txt) : s.txt[k] = txt[k]
    BY DEF Scanned, Written
  <2> QED BY <1>1, <2>1, <2>2
<1>3. s.txt[i] = txt[i]
  BY <1>2
<1>4. CASE txt[i] = Space
  BY <1>3, <1>4, ScanSpace DEF Scan
<1>5. CASE txt[i] # Space
  BY <1>3, <1>5, ScanOther DEF Scan
<1> QED BY <1>4, <1>5

LEMMA ScanAll ==
  ASSUME NEW txt \in Seq(Char), NEW w, IsKept(w, txt)
  PROVE  \E s \in State(Len(txt)) : /\ Scanned(s, w, txt, Len(txt))
                                    /\ RemoveExtraSpace(txt) = SubSeq(s.txt, 1, s.ps - 1)
<1> DEFINE n == Len(txt)
           S == State(n)
           T == [k \in 0..n |-> {s \in S : Scanned(s, w, txt, k)}]
           F == [k \in 1..n |-> [s \in S |-> Scan(s, k)]]
           scan[i \in 0..Len(txt)] == IF i = 0 THEN Scan0(txt) ELSE Scan(scan[i - 1], i)
<1>1. n \in Nat /\ 0 \in 0..n /\ n \in 0..n /\ \A k \in 1..n : k \in 0..n /\ k # 0 /\ k - 1 \in 0..n
  OBVIOUS
<1>2. \A s : \A k \in 0..n : s \in T[k] <=> s \in S /\ Scanned(s, w, txt, k)
  OBVIOUS
<1>3. \A k \in 1..n, s \in S : F[k][s] = Scan(s, k)
  OBVIOUS
<1> HIDE DEF T, F
<1>4. Scan0(txt) \in T[0]
  <2> DEFINE s == Scan0(txt)
  <2>1. s = [txt |-> txt, ps |-> 1, pm |-> 1, pe |-> 1, matching |-> FALSE]
    BY DEF Scan0
  <2>2. txt \in [1..n -> Char]
    BY SeqDef
  <2>3. s \in S
    BY <2>1, <2>2 DEF State
  <2>4. w[0] = <<>> /\ Len(<<>>) = 0
    BY DEF IsKept
  <2>5. Written(s, w[0], txt)
    BY <1>1, <2>1, <2>3, <2>4 DEF Written
  <2>6. Scanned(s, w, txt, 0)
    BY <2>1, <2>5 DEF Scanned
  <2> QED BY <1>1, <1>2, <2>3, <2>6
<1>5. ASSUME NEW k \in 1..n, NEW s \in T[k - 1] PROVE s \in S /\ Scan(s, k) \in T[k]
  <2>1. s \in S /\ Scanned(s, w, txt, k - 1)
    BY <1>1, <1>2
  <2>2. Scan(s, k) \in S /\ Scanned(Scan(s, k), w, txt, k)
    BY <2>1, ScanOne
  <2> QED BY <1>1, <1>2, <2>1, <2>2
<1> HIDE DEF S
<1>6. \A k \in 1..n : \A s \in T[k - 1] : F[k][s] \in T[k]
  BY <1>3, <1>5
<1> HIDE DEF n
<1>7. PICK f : Counts(f, n, Scan0(txt), F) /\ \A k \in 0..n : f[k] \in T[k]
  BY <1>1, <1>4, <1>6, Counted
<1>8. f = [k \in 0..n |-> IF k = 0 THEN Scan0(txt) ELSE F[k][f[k - 1]]]
  BY <1>7 DEF Counts
<1>9. f = [k \in 0..n |-> f[k]]
  BY <1>8
<1>10. ASSUME NEW k \in 0..n PROVE f[k] = IF k = 0 THEN Scan0(txt) ELSE Scan(f[k - 1], k)
  <2>1. CASE k = 0
    BY <1>8, <2>1
  <2>2. CASE k # 0
    <3>1. k \in 1..n /\ f[k - 1] \in T[k - 1]
      BY <1>1, <1>7, <2>2
    <3>2. f[k - 1] \in S
      BY <1>5, <3>1
    <3>3. f[k] = F[k][f[k - 1]]
      BY <1>8, <2>2
    <3> QED BY <1>3, <2>2, <3>1, <3>2, <3>3
  <2> QED BY <2>1, <2>2
<1>11. f = [k \in 0..n |-> IF k = 0 THEN Scan0(txt) ELSE Scan(f[k - 1], k)]
  BY Zenon, <1>9, <1>10
<1>12. scan = [k \in 0..n |-> IF k = 0 THEN Scan0(txt) ELSE Scan(scan[k - 1], k)]
  BY Zenon, <1>11 DEF n
<1>13. RemoveExtraSpace(txt) = SubSeq(scan[n].txt, 1, scan[n].ps - 1)
  BY DEF RemoveExtraSpace, n
<1> HIDE DEF scan
<1>14. scan[0] \in T[0]
  BY <1>1, <1>4, <1>12
<1>15. ASSUME NEW k \in 1..n, scan[k - 1] \in T[k - 1] PROVE scan[k] \in T[k]
  <2>1. scan[k] = Scan(scan[k - 1], k)
    BY <1>1, <1>12
  <2> QED BY <1>5, <1>15, <2>1
<1>16. \A k \in 0..n : scan[k] \in T[k]
  BY <1>1, <1>14, <1>15, CountKeeps
<1>17. scan[n] \in S /\ Scanned(scan[n], w, txt, n)
  BY <1>1, <1>2, <1>16
<1> QED BY <1>13, <1>17 DEF S, n

LEMMA RemovesExtraSpace ==
  ASSUME NEW txt \in Seq(Char)
  PROVE  /\ RemoveExtraSpace(txt) = WithoutExtraSpace(txt)
         /\ RemoveExtraSpace(txt) \in Seq(Char)
<1>1. PICK w : IsKept(w, txt)
  BY Kept
<1>2. PICK s \in State(Len(txt)) : /\ Scanned(s, w, txt, Len(txt))
                                   /\ RemoveExtraSpace(txt) = SubSeq(s.txt, 1, s.ps - 1)
  BY <1>1, ScanAll
<1> DEFINE n == Len(txt)
           v == w[n]
<1>3. n \in Nat /\ n \in 0..n /\ s.txt \in [1..n -> Char] /\ s.pm \in Nat
  BY DEF State
<1>4. v \in Seq(Char) /\ WithoutExtraSpace(txt) = v
  BY <1>1, <1>3 DEF IsKept
<1>5. Written(s, v, txt)
  <2>1. CASE ~s.matching
    BY <1>2, <2>1 DEF Scanned
  <2>2. CASE s.matching
    <3>1. s.pm \in 1..n /\ (\A k \in s.pm..n : txt[k] = Space) /\ Written(s, w[s.pm - 1], txt)
      BY <1>2, <2>2 DEF Scanned
    <3>2. \A k \in s.pm..n : ExtraSpace(txt, k)
      BY <1>3, <3>1, BeforeEnd
    <3>3. w[n] = w[s.pm - 1]
      <4>1. s.pm \in 1..Len(txt) /\ n \in Nat /\ s.pm <= n + 1 /\ n <= Len(txt)
        BY ONLY <1>3, <3>1 DEF n
      <4> QED BY Zenon, <1>1, <3>2, <4>1, RunDropped
    <3> QED BY <3>1, <3>3
  <2> QED BY <2>1, <2>2
<1>6. s.ps - 1 = Len(v) /\ Len(v) \in Nat /\ Len(v) <= n /\ \A k \in 1..Len(v) : s.txt[k] = v[k]
  BY <1>3, <1>4, <1>5 DEF Written
<1>7. s.txt \in Seq(Char) /\ Len(s.txt) = n
  BY <1>3, SeqDef
<1> HIDE DEF n, v
<1>8. /\ SubSeq(s.txt, 1, Len(v)) \in Seq(Char) /\ Len(SubSeq(s.txt, 1, Len(v))) = Len(v)
      /\ \A k \in 1..Len(v) : SubSeq(s.txt, 1, Len(v))[k] = s.txt[k]
  <2>1. \A k \in 1..Len(v) : s.txt[k] \in Char
    BY <1>3, <1>6
  <2> QED BY <1>3, <1>6, <1>7, <2>1, SubSeqProperties
<1>9. SubSeq(s.txt, 1, Len(v)) = v
  BY <1>4, <1>6, <1>8, SeqEqual
<1> QED BY <1>2, <1>4, <1>6, <1>9

\* A call of a routine has the arguments of that routine.
RoutineCall == call \in RoutineCalls \/ call.name \notin RoutineNames

LEMMA Arguments ==
  ASSUME RoutineCall
  PROVE  /\ call.name = "plaintext" => call.text \in Texts /\ call.line \in {"net", "serial"}
         /\ call.name = "terminal" => /\ call.message \in Messages /\ call.missing \in Missing
                                      /\ call.encoding \in Encodings
         /\ call.name = "place" => /\ call.position \in 0..9 /\ call.frame \in Frames
                                   /\ call.gap \in Gaps /\ HasSize(call.frame, call.gap)
         /\ call.name = "clear" => call.canvas \in Canvases
         /\ call.name = "text" => call.canvas \in Canvases /\ call.pen \in Pens /\ call.glyphs \in Glyphs
         /\ call.name = "pixel" => /\ call.mem \in Pixels /\ call.coverage \in Octet
                                   /\ call.colour \in Colours
BY DEF RoutineCall, RoutineCalls, RoutineNames

\* A routine returns once, and what it returns is its value.
LEMMA ReturnIs ==
  ASSUME NEW name, NEW value, Return(name, value)
  PROVE  call' = call /\ call.name = name /\ Result' = value /\ Returned'
<1>1. out' = <<value>> /\ call' = call /\ call.name = name
  BY DEF Return
<1> QED BY <1>1 DEF Result, Returned

LEMMA CallStays == RoutineSpec => []RoutineCall
<1>1. RoutineSpec => RoutineCall
  BY DEF RoutineSpec, RoutineCall
<1>2. ASSUME RoutineCall, [Routine \/ (call.name \notin RoutineNames /\ UNCHANGED call)]_<<call, out>>
      PROVE  RoutineCall'
  BY <1>2 DEF RoutineCall, Routine, OnPlaintext, OnTerminal, Places, ClearsCanvas, DrawsText,
              DrawsPixel, Return
<1> QED BY <1>1, <1>2, PTL DEF RoutineSpec

\* remove_extra_space, in place and with its run of spaces kept waiting, drops the
\* spaces at the ends of lines and nothing else from any text, and its two callers
\* hand on what is left (pos_net.cpp:80-88, 153-191, posdevice.cpp:199-237, 282-292).
THEOREM OnlyExtraSpaceGoes == RoutineSpec => []SpacesRemoved
<1>1. RoutineSpec => SpacesRemoved
  <2>1. out = <<>> => ~Returned
    BY DEF Returned
  <2> QED BY <2>1 DEF RoutineSpec, SpacesRemoved
<1>2. ASSUME RoutineCall, SpacesRemoved,
             [Routine \/ (call.name \notin RoutineNames /\ UNCHANGED call)]_<<call, out>>
      PROVE  SpacesRemoved'
  <2>1. CASE OnPlaintext
    <3> DEFINE rest == RemoveExtraSpace(call.text)
               value == IF call.line = "net" THEN OnDataPlaintext(call.text) ELSE Pos485Plain(call.text)
    <3>1. call.name = "plaintext" /\ Return("plaintext", value)
      BY <2>1 DEF OnPlaintext
    <3>2. call' = call /\ Result' = value
      BY <3>1, ReturnIs
    <3>3. call.text \in Seq(Char) /\ call.line \in {"net", "serial"}
      <4>1. call.text \in Texts /\ call.line \in {"net", "serial"}
        BY <1>2, <3>1, Arguments
      <4>2. Texts \subseteq Seq(Char)
        BY TextAssumption
      <4> QED BY <4>1, <4>2
    <3>4. rest = WithoutExtraSpace(call.text) /\ rest \in Seq(Char)
      BY <3>3, RemovesExtraSpace
    <3>5. Len(rest) \in Nat /\ (Len(rest) > 0 <=> rest # <<>>)
      BY <3>4, EmptySeq, LenProperties
    <3>6. value = IF call.line = "serial" /\ rest = <<>> THEN <<>> ELSE <<rest>>
      <4> HIDE DEF rest
      <4>1. OnDataPlaintext(call.text) = <<rest>>
        BY DEF OnDataPlaintext, rest
      <4>2. Pos485Plain(call.text) = IF Len(rest) > 0 THEN <<rest>> ELSE <<>>
        BY DEF Pos485Plain, rest
      <4> QED BY <3>3, <3>5, <4>1, <4>2
    <3> HIDE DEF rest, value
    <3> QED BY <3>2, <3>4, <3>6 DEF SpacesRemoved
  <2>2. CASE Routine /\ ~OnPlaintext
    <3>1. call' = call /\ call.name # "plaintext"
      BY <2>2 DEF Routine, OnTerminal, Places, ClearsCanvas, DrawsText, DrawsPixel, Return
    <3> QED BY <3>1 DEF SpacesRemoved
  <2>3. CASE call.name \notin RoutineNames /\ UNCHANGED call
    BY <2>3 DEF SpacesRemoved, RoutineNames
  <2>4. CASE UNCHANGED <<call, out>>
    BY <1>2, <2>4 DEF SpacesRemoved, Returned, Result
  <2> QED BY <1>2, <2>1, <2>2, <2>3, <2>4
<1> QED BY <1>1, <1>2, CallStays, PTL DEF RoutineSpec

-----------------------------------------------------------------------------
(***************************************************************************)
(* Terminal messages.                                                      *)
(***************************************************************************)
Numbers(s) == Len(s) \in Nat /\ \A k \in 1..Len(s) : s[k] \in Int

\* f[k] is the sum of the first k members of s.
IsSum(f, s) ==
  /\ f[0] = 0
  /\ \A k \in 1..Len(s) : f[k] = f[k - 1] + s[k]
  /\ \A k \in 0..Len(s) : f[k] \in Int
  /\ Total(s) = f[Len(s)]

LEMMA Summed ==
  ASSUME NEW s, Numbers(s)
  PROVE  \E f : IsSum(f, s)
<1> DEFINE n == Len(s)
           T == [k \in 0..n |-> Int]
           F == [k \in 1..n |-> [x \in Int |-> x + s[k]]]
           sum[i \in 0..Len(s)] == IF i = 0 THEN 0 ELSE sum[i - 1] + s[i]
<1>1. /\ n \in Nat /\ 0 \in 0..n
      /\ \A k \in 1..n : s[k] \in Int /\ k \in 0..n /\ k # 0 /\ k - 1 \in 0..n
  BY DEF Numbers
<1>2. \A k \in 0..n : T[k] = Int
  OBVIOUS
<1>3. \A k \in 1..n, x \in Int : F[k][x] = x + s[k]
  OBVIOUS
<1> HIDE DEF T, F, n
<1>4. \A k \in 1..n : \A x \in T[k - 1] : F[k][x] \in T[k]
  BY <1>1, <1>2, <1>3
<1>5. PICK f : Counts(f, n, 0, F) /\ \A k \in 0..n : f[k] \in T[k]
  <2>1. 0 \in T[0]
    BY <1>1, <1>2
  <2> QED BY <1>1, <1>4, <2>1, Counted
<1>6. f = [k \in 0..n |-> IF k = 0 THEN 0 ELSE F[k][f[k - 1]]]
  BY <1>5 DEF Counts
<1>7. f = [k \in 0..n |-> f[k]]
  BY <1>6
<1>8. \A k \in 0..n : f[k] \in Int
  BY <1>2, <1>5
<1>9. ASSUME NEW k \in 0..n PROVE f[k] = IF k = 0 THEN 0 ELSE f[k - 1] + s[k]
  <2>1. CASE k = 0
    BY <1>6, <2>1
  <2>2. CASE k # 0
    <3>1. k \in 1..n /\ f[k - 1] \in Int
      BY <1>1, <1>8, <2>2
    <3>2. f[k] = F[k][f[k - 1]]
      BY <1>6, <2>2
    <3> QED BY <1>3, <2>2, <3>1, <3>2
  <2> QED BY <2>1, <2>2
<1>10. f = [k \in 0..n |-> IF k = 0 THEN 0 ELSE f[k - 1] + s[k]]
  BY Zenon, <1>7, <1>9
<1>11. sum = [k \in 0..n |-> IF k = 0 THEN 0 ELSE sum[k - 1] + s[k]]
  BY Zenon, <1>10 DEF n
<1>12. Total(s) = sum[n]
  BY DEF Total, n
<1> HIDE DEF sum
<1>13. sum[0] = 0 /\ \A k \in 1..n : sum[k] = sum[k - 1] + s[k]
  BY <1>1, <1>11
<1>14. sum[0] \in T[0]
  BY <1>1, <1>2, <1>13
<1>15. ASSUME NEW k \in 1..n, sum[k - 1] \in T[k - 1] PROVE sum[k] \in T[k]
  BY <1>1, <1>2, <1>13, <1>15
<1>16. \A k \in 0..n : sum[k] \in T[k]
  BY <1>1, <1>14, <1>15, CountKeeps
<1> QED BY <1>1, <1>2, <1>12, <1>13, <1>16 DEF IsSum, n

\* The sum of as many members as two sequences share.
LEMMA SumShared ==
  ASSUME NEW s, NEW t, Numbers(s), Numbers(t), NEW f, IsSum(f, s), Len(t) <= Len(s),
         \A k \in 1..Len(t) : t[k] = s[k]
  PROVE  Total(t) = f[Len(t)]
<1>1. PICK g : IsSum(g, t)
  BY Summed
<1> DEFINE T == [k \in 0..Len(t) |-> {f[k]}]
<1>2. Len(t) \in Nat /\ Len(s) \in Nat /\ \A k \in 0..Len(t) : T[k] = {f[k]}
  BY DEF Numbers
<1> HIDE DEF T
<1>3. g[0] \in T[0]
  BY <1>1, <1>2 DEF IsSum
<1>4. ASSUME NEW k \in 1..Len(t), g[k - 1] \in T[k - 1] PROVE g[k] \in T[k]
  <2>1. k \in 1..Len(s) /\ k - 1 \in 0..Len(t) /\ k \in 0..Len(t)
    BY <1>2
  <2>2. g[k - 1] = f[k - 1]
    BY <1>2, <1>4, <2>1
  <2>3. g[k] = g[k - 1] + t[k] /\ f[k] = f[k - 1] + s[k] /\ t[k] = s[k]
    BY <1>1, <2>1 DEF IsSum
  <2> QED BY <1>2, <2>1, <2>2, <2>3
<1>5. \A k \in 0..Len(t) : g[k] \in T[k]
  BY <1>2, <1>3, <1>4, CountKeeps
<1> QED BY <1>1, <1>2, <1>5 DEF IsSum

\* The sum of six.
LEMMA SumOfSix ==
  ASSUME NEW s, Numbers(s), Len(s) = 6, NEW f, IsSum(f, s)
  PROVE  /\ f[0] = 0 /\ f[1] = s[1] /\ f[2] = f[1] + s[2] /\ f[3] = f[2] + s[3]
         /\ f[4] = f[3] + s[4] /\ f[5] = f[4] + s[5] /\ f[6] = f[5] + s[6]
         /\ Total(s) = f[6]
         /\ \A k \in 1..6 : s[k] \in Int /\ f[k] \in Int
<1>1. \A k \in 1..6 : f[k] = f[k - 1] + s[k]
  BY DEF IsSum
<1>2. \A k \in 1..6 : s[k] \in Int /\ f[k] \in Int
  BY DEF Numbers, IsSum
<1>3. f[0] = 0 /\ Total(s) = f[6]
  BY DEF IsSum
<1>4. f[1] = f[1 - 1] + s[1] /\ f[2] = f[2 - 1] + s[2] /\ f[3] = f[3 - 1] + s[3]
      /\ f[4] = f[4 - 1] + s[4] /\ f[5] = f[5 - 1] + s[5] /\ f[6] = f[6 - 1] + s[6]
  BY ONLY <1>1
<1>5. 1 - 1 = 0 /\ 2 - 1 = 1 /\ 3 - 1 = 2 /\ 4 - 1 = 3 /\ 5 - 1 = 4 /\ 6 - 1 = 5
  OBVIOUS
<1>6. s[1] \in Int
  BY <1>2
<1>7. f[1] = 0 + s[1]
  BY ONLY <1>3, <1>4, <1>5
<1> QED BY ONLY <1>2, <1>3, <1>4, <1>5, <1>6, <1>7

\* The fields of a message, and where each of them ends.
LEMMA FieldEnds ==
  ASSUME NEW m, IsMessage(m)
  PROVE  /\ \A i \in 1..6 : m.fields[i] \in Nat
         /\ \A i \in 1..6 : FieldEnd(m, i) \in Int /\ FieldEnd(m, i) <= BodyLen
         /\ m.fields[1] + m.fields[2] + m.fields[3] + m.fields[4] + m.fields[5] + m.fields[6] <= 122
<1> DEFINE s == m.fields
<1>1. s \in Seq(Nat) /\ Len(s) = 6 /\ Total(s) + 6 <= 128
  BY DEF IsMessage, BodyLen
<1>2. \A i \in 1..6 : s[i] \in Nat
  BY <1>1
<1>3. Numbers(s)
  BY <1>1, <1>2 DEF Numbers
<1>4. PICK f : IsSum(f, s)
  BY <1>3, Summed
<1> HIDE DEF s
<1>5. /\ f[0] = 0 /\ f[1] = s[1] /\ f[2] = f[1] + s[2] /\ f[3] = f[2] + s[3]
      /\ f[4] = f[3] + s[4] /\ f[5] = f[4] + s[5] /\ f[6] = f[5] + s[6]
      /\ Total(s) = f[6]
      /\ \A k \in 1..6 : s[k] \in Int /\ f[k] \in Int
  BY <1>1, <1>3, <1>4, SumOfSix
<1>6. s[1] \in Nat /\ s[2] \in Nat /\ s[3] \in Nat /\ s[4] \in Nat /\ s[5] \in Nat /\ s[6] \in Nat
  BY <1>2
<1>7. /\ f[1] \in Nat /\ f[2] \in Nat /\ f[3] \in Nat /\ f[4] \in Nat /\ f[5] \in Nat /\ f[6] \in Nat
      /\ f[1] <= f[2] /\ f[2] <= f[3] /\ f[3] <= f[4] /\ f[4] <= f[5] /\ f[5] <= f[6] /\ f[6] <= 122
      /\ f[6] = s[1] + s[2] + s[3] + s[4] + s[5] + s[6]
  <2>1. f[1] = s[1] /\ f[2] = f[1] + s[2] /\ f[3] = f[2] + s[3]
    BY <1>5
  <2>2. f[4] = f[3] + s[4] /\ f[5] = f[4] + s[5] /\ f[6] = f[5] + s[6] /\ f[6] + 6 <= 128
    BY <1>1, <1>5
  <2>3. f[1] \in Nat /\ f[2] \in Nat /\ f[3] \in Nat /\ f[1] <= f[2] /\ f[2] <= f[3]
        /\ f[3] = s[1] + s[2] + s[3]
    BY ONLY <1>6, <2>1
  <2>4. f[4] \in Nat /\ f[5] \in Nat /\ f[6] \in Nat /\ f[3] <= f[4] /\ f[4] <= f[5] /\ f[5] <= f[6]
        /\ f[6] = f[3] + s[4] + s[5] + s[6]
    BY ONLY <1>6, <2>2, <2>3
  <2>5. f[6] <= 122
    BY ONLY <2>2, <2>4
  <2>6. f[6] = s[1] + s[2] + s[3] + s[4] + s[5] + s[6]
    BY ONLY <1>6, <2>3, <2>4
  <2> QED BY ONLY <2>3, <2>4, <2>5, <2>6
<1>8. \A i \in 1..6 : f[i] \in Nat /\ f[i] <= 122
  BY ONLY <1>7
<1>9. ASSUME NEW i \in 1..6 PROVE FieldEnd(m, i) = f[i] + i
  <2> DEFINE t == SubSeq(s, 1, i)
  <2>1. /\ Len(t) = i /\ \A k \in 1..i : t[k] = s[k]
    <3>1. \A k \in 1..i : s[k] \in Nat
      BY <1>2
    <3> QED BY <1>1, <3>1, SubSeqProperties
  <2>2. \A k \in 1..i : k \in 1..6
    OBVIOUS
  <2> HIDE DEF t
  <2>3. Numbers(t)
    <3>1. \A k \in 1..i : t[k] \in Int
      BY ONLY <1>2, <2>1, <2>2
    <3> QED BY ONLY <2>1, <3>1, i \in 1..6 DEF Numbers
  <2>4. Total(t) = f[i]
    <3>1. Len(t) <= Len(s) /\ \A k \in 1..Len(t) : t[k] = s[k]
      BY <1>1, <2>1
    <3> QED BY <1>3, <1>4, <2>1, <2>3, <3>1, SumShared
  <2> QED BY <2>4 DEF FieldEnd, t, s
<1>10. ASSUME NEW i \in 1..6 PROVE FieldEnd(m, i) \in Int /\ FieldEnd(m, i) <= BodyLen
  BY <1>8, <1>9 DEF BodyLen
<1> QED BY <1>2, <1>7, <1>10 DEF s

\* The item of a message, field by field.
LEMMA ItemIs ==
  ASSUME NEW m, NEW i \in 1..6
  PROVE  AddMembers(m, <<>>)[Field[i]] = m.fields[i]
<1> DEFINE names == {Field[k] : k \in 1..6}
           index(f) == CHOOSE n \in 1..6 : Field[n] = f
<1>1. \A j, k \in 1..6 : Field[j] = Field[k] => j = k
  BY DEF Field
<1>2. Field[i] \in names
  OBVIOUS
<1>3. index(Field[i]) = i
  BY <1>1
<1>4. AddMembers(m, <<>>)
        = [f \in names |-> IF index(f) \in DOMAIN <<>> THEN <<>>[index(f)] ELSE m.fields[index(f)]]
  BY DEF AddMembers
<1>5. i \notin DOMAIN <<>>
  OBVIOUS
<1> HIDE DEF names, index
<1> QED BY <1>2, <1>3, <1>4, <1>5

\* The text of what the terminal sent fits.
LEMMA TextFits ==
  ASSUME NEW m, IsMessage(m)
  PROVE  TextLen(AddMembers(m, <<>>)) < TextSize
<1> DEFINE item == AddMembers(m, <<>>)
           s == [i \in 1..6 |-> item[Field[i]]]
<1>1. \A i \in 1..6 : m.fields[i] \in Nat
  BY FieldEnds
<1>2. \A i \in 1..6 : s[i] = m.fields[i]
  BY ItemIs
<1>3. Len(s) = 6
  BY DEF s
<1> HIDE DEF s
<1>4. \A i \in 1..6 : s[i] \in Int
  BY <1>1, <1>2
<1>5. Numbers(s)
  BY <1>3, <1>4 DEF Numbers
<1>6. PICK f : IsSum(f, s)
  BY <1>5, Summed
<1>7. /\ f[1] = s[1] /\ f[2] = f[1] + s[2] /\ f[3] = f[2] + s[3]
      /\ f[4] = f[3] + s[4] /\ f[5] = f[4] + s[5] /\ f[6] = f[5] + s[6] /\ Total(s) = f[6]
  BY <1>3, <1>5, <1>6, SumOfSix
<1>8. /\ s[1] \in Nat /\ s[2] \in Nat /\ s[3] \in Nat
      /\ s[4] \in Nat /\ s[5] \in Nat /\ s[6] \in Nat
  BY <1>1, <1>2
<1>9. s[1] + s[2] + s[3] + s[4] + s[5] + s[6] <= 122
  BY <1>2, FieldEnds
<1>10. f[6] \in Int /\ f[6] <= 122
  BY ONLY <1>7, <1>8, <1>9
<1>11. Sum(item) = f[6]
  BY <1>7 DEF Sum, s
<1> HIDE DEF item
<1>12. TextLen(item) = f[6] + 49 + 12 + 1
  BY <1>11 DEF TextLen
<1>13. TextLen(item) < 256
  BY <1>10, <1>12
<1> QED BY <1>13 DEF TextSize, item

\* A body that is read whole is decrypted to its last field.
LEMMA WholeIsIntact ==
  ASSUME NEW m, IsMessage(m), NEW size \in Int, size >= HeaderLen(m) + BodyLen
  PROVE  IsIntact(m, size)
<1>1. HeaderLen(m) \in Nat
  BY DEF IsMessage, HeaderLen
<1>2. PICK d \in Int : d = size - HeaderLen(m)
  BY <1>1
<1>3. d >= 128
  BY <1>1, <1>2 DEF BodyLen
<1>4. 16 * (d \div 16) >= 128
  BY <1>3
<1>5. WholeBlocks(m, size) = 16 * (d \div 16)
  BY <1>2 DEF WholeBlocks, BlockLen
<1>6. \A i \in 1..6 : FieldEnd(m, i) \in Int /\ FieldEnd(m, i) <= 128
  BY FieldEnds DEF BodyLen
<1> QED BY <1>3, <1>4, <1>5, <1>6 DEF IsIntact

\* What a read gives, unless it lacks just the last byte of the body.
LEMMA ItemsAreWhole ==
  ASSUME NEW m, IsMessage(m), NEW size \in Int, NEW items \in OnDataTerminal(m, size, FALSE)
  PROVE  /\ HasItem(m, size) => items = <<AddMembers(m, <<>>)>>
         /\ size # HeaderLen(m) + BodyLen - 1 => items = <<>> \/ items = <<AddMembers(m, <<>>)>>
<1> DEFINE item == AddMembers(m, <<>>)
<1>0. HeaderLen(m) \in Nat /\ BodyLen = 128
  BY DEF IsMessage, HeaderLen, BodyLen
<1>1. PICK parsed \in ParseTerminalMsg(m, size) :
        items = IF parsed # <<>> /\ Taken(parsed[1], size, FALSE) THEN parsed ELSE <<>>
  BY DEF OnDataTerminal
<1>2. ASSUME size >= HeaderLen(m) + BodyLen
      PROVE  parsed = IF IsDpos(m, size) /\ HasSixFields(m) THEN <<item>> ELSE <<>>
  <2>1. IsIntact(m, size)
    BY <1>2, WholeIsIntact
  <2> QED BY <1>1, <2>1 DEF ParseTerminalMsg
<1>3. ASSUME HasItem(m, size) PROVE items = <<item>>
  <2>1. IsDpos(m, size)
    BY <1>0, <1>3 DEF HasItem, IsDpos, LenLeft
  <2>2. HasSixFields(m)
    BY <1>3 DEF HasItem, HasSixFields
  <2>3. parsed = <<item>>
    BY <1>2, <1>3, <2>1, <2>2 DEF HasItem
  <2>4. \A i \in 1..6 : item[Field[i]] = m.fields[i]
    BY ItemIs
  <2>5. /\ item["terminal_code"] = m.fields[1] /\ item["card_id"] = m.fields[2]
        /\ item["terminal_model"] = m.fields[4] /\ item["serial"] = m.fields[5]
    <3>1. Field[1] = "terminal_code" /\ Field[2] = "card_id" /\ Field[4] = "terminal_model"
          /\ Field[5] = "serial"
      BY DEF Field
    <3> QED BY <2>4, <3>1
  <2> HIDE DEF item
  <2>6. m.fields[1] <= 8 /\ m.fields[2] <= 20 /\ m.fields[4] <= 16 /\ m.fields[5] <= 8
    BY <1>3 DEF HasItem
  <2>7. WithinLimits(item)
    BY <2>5, <2>6 DEF WithinLimits, Limit
  <2>8. Taken(item, size, FALSE)
    BY <2>7 DEF Taken, StaysJson
  <2> QED BY <1>1, <2>3, <2>8
<1>4. ASSUME size # HeaderLen(m) + BodyLen - 1 PROVE items = <<>> \/ items = <<item>>
  <2> HIDE DEF item
  <2>1. CASE ~IsDpos(m, size)
    <3>1. parsed = <<>>
      BY <1>1, <2>1 DEF ParseTerminalMsg
    <3> QED BY <1>1, <3>1
  <2>2. CASE IsDpos(m, size)
    <3>1. size >= HeaderLen(m) + BodyLen
      BY <1>0, <1>4, <2>2 DEF IsDpos, LenLeft
    <3> QED BY <1>1, <1>2, <3>1
  <2> QED BY <2>1, <2>2
<1> QED BY <1>3, <1>4

\* A message of UTF-8 that comes whole in one read becomes an item with its six
\* fields, however long they are, in a text that fits into itemtext
\* (pos_net.h:21, pos_terminal_parser.cpp:235-302, posdevice.cpp:321-374).  Of
\* another encoding that is not so (on_data_terminal converts too few bytes).
THEOREM WholeMessagesAreItems ==
  ASSUME Encodings \subseteq {"UTF-8"}
  PROVE  RoutineSpec => []ItemWhole
<1>1. RoutineSpec => ItemWhole
  <2>1. out = <<>> => ~Returned
    BY DEF Returned
  <2> QED BY <2>1 DEF RoutineSpec, ItemWhole
<1>2. ASSUME RoutineCall, ItemWhole,
             [Routine \/ (call.name \notin RoutineNames /\ UNCHANGED call)]_<<call, out>>
      PROVE  ItemWhole'
  <2>1. CASE OnTerminal
    <3> DEFINE m == call.message
               size == ReadSize
               item == AddMembers(m, <<>>)
               tooShort == size = HeaderLen(m) + BodyLen - 1
    <3>1. call.name = "terminal"
      BY <2>1 DEF OnTerminal
    <3>2. m \in Messages /\ call.missing \in Missing /\ call.encoding = "UTF-8"
      BY <1>2, <3>1, Arguments
    <3>3. PICK value \in OnDataTerminal(m, size, FALSE) : Return("terminal", value)
      BY <2>1, <3>2 DEF OnTerminal
    <3>4. call' = call /\ Result' = value
      BY <3>3, ReturnIs
    <3>5. IsMessage(m) /\ call.missing \in Int
      BY <3>2, MessageAssumption
    <3>6. size \in Int
      <4>1. m.a \in Nat /\ m.b \in Nat /\ m.tail \in Nat
        BY <3>5 DEF IsMessage
      <4>2. Size(m) \in Int
        BY <4>1 DEF Size, HeaderLen, BodyLen
      <4> QED BY <3>5, <4>2 DEF ReadSize
    <3>7. ReadSize' = size
      BY <3>4 DEF ReadSize
    <3> HIDE DEF size
    <3>8. /\ HasItem(m, size) => value = <<item>>
          /\ ~tooShort => value = <<>> \/ value = <<item>>
      BY <3>3, <3>5, <3>6, ItemsAreWhole
    <3>9. TextLen(item) < TextSize /\ \A i \in 1..6 : item[Field[i]] = m.fields[i]
      BY <3>5, ItemIs, TextFits
    <3> HIDE DEF m, item, tooShort
    <3>10. HasItem(m, size) => Len(value) = 1
      BY <3>8
    <3>11. ASSUME ~tooShort, NEW n \in 1..Len(value)
           PROVE  /\ \A i \in 1..6 : value[n][Field[i]] = m.fields[i]
                  /\ TextLen(value[n]) < TextSize
      <4>1. value = <<item>> /\ value # <<>>
        BY <3>8, <3>11
      <4>2. value[n] = item
        BY <4>1
      <4> QED BY <3>9, <4>2
    <3> QED BY <3>4, <3>7, <3>10, <3>11 DEF ItemWhole, m, tooShort
  <2>2. CASE Routine /\ ~OnTerminal
    <3>1. call' = call /\ call.name # "terminal"
      BY <2>2 DEF Routine, OnPlaintext, Places, ClearsCanvas, DrawsText, DrawsPixel, Return
    <3> QED BY <3>1 DEF ItemWhole
  <2>3. CASE call.name \notin RoutineNames /\ UNCHANGED call
    BY <2>3 DEF ItemWhole, RoutineNames
  <2>4. CASE UNCHANGED <<call, out>>
    BY <1>2, <2>4 DEF ItemWhole, Returned, Result, ReadSize
  <2> QED BY <1>2, <2>1, <2>2, <2>3, <2>4
<1> QED BY <1>1, <1>2, CallStays, PTL DEF RoutineSpec

-----------------------------------------------------------------------------
(***************************************************************************)
(* The place of the overlay, which a thread computes anew for each frame.  *)
(***************************************************************************)
LEMMA EvenBelow ==
  ASSUME NEW n \in Int
  PROVE  Even(n) \in Int /\ Even(n) % 2 = 0 /\ Even(n) <= n /\ n <= Even(n) + 1
BY DEF Even

\* A quotient rounded towards zero, of a number below a multiple of 20.
LEMMA TruncatedBelow ==
  ASSUME NEW a \in Int, NEW d \in Nat, a < 20 * (d + 1)
  PROVE  Truncated(a, 20) \in Int /\ Truncated(a, 20) <= d /\ (a >= 0 => Truncated(a, 20) >= 0)
<1>1. CASE a >= 0
  <2>1. a \div 20 \in Int /\ a \div 20 <= d /\ a \div 20 >= 0
    BY <1>1
  <2> QED BY <1>1, <2>1 DEF Truncated
<1>2. CASE ~(a >= 0)
  <2>1. (-a) \div 20 \in Int /\ (-a) \div 20 >= 0
    BY <1>2
  <2>2. Truncated(a, 20) = -((-a) \div 20)
    BY <1>2 DEF Truncated
  <2> QED BY <1>2, <2>1, <2>2
<1> QED BY <1>1, <1>2

\* Whatever the sizes of the frame and the overlay and at every position,
\* ComposingThread draws an overlay that fits into the frame at even
\* coordinates within it, and left of it only where the margin does not fit.
THEOREM OverlayStaysInFrame ==
  ASSUME NEW position \in Nat, NEW frame \in [w : Nat, h : Nat], NEW osd \in [w : Nat, h : Nat],
         NEW n \in DOMAIN Place(position, frame, osd)
  PROVE  InFrame(Place(position, frame, osd)[n], frame, osd)
<1> DEFINE x == PlaceX(position, frame, osd)
           y == PlaceY(position, frame, osd)
<1>1. Fits(frame, osd) /\ n = 1 /\ Place(position, frame, osd)[n] = [x |-> x, y |-> y]
  BY DEF Place
<1>2. PICK right \in Nat : right = frame.w - osd.w
  BY <1>1 DEF Fits
<1>3. PICK below \in Nat : below = frame.h - osd.h
  BY <1>1 DEF Fits
<1>4. frame.w \in Nat /\ frame.h \in Nat /\ osd.w \in Nat /\ osd.h \in Nat
  OBVIOUS
<1>5. x \in Int /\ x % 2 = 0 /\ x <= right /\ (x < 0 => frame.w > 20 * (right + 1))
  <2>1. CASE x = CentreX(frame, osd)
    <3>1. right \div 2 \in Int /\ right \div 2 <= right /\ right \div 2 >= 0
      BY <1>2
    <3>2. x = Even(right \div 2)
      BY <1>2, <2>1 DEF CentreX
    <3> HIDE DEF x
    <3>3. x \in Int /\ x % 2 = 0 /\ x <= right \div 2 /\ right \div 2 <= x + 1
      BY <3>1, <3>2, EvenBelow
    <3>4. x >= 0
      BY <3>1, <3>3
    <3> QED BY <1>2, <3>1, <3>3, <3>4
  <2>2. CASE x = 0
    BY <1>2, <2>2
  <2>3. CASE x = RightX(frame, osd)
    <3>1. PICK a \in Int : a = 20 * (right + 1) - frame.w
      BY <1>2, <1>4
    <3>2. x = Even(Truncated(a, 20))
      BY <1>2, <2>3, <3>1 DEF RightX
    <3> HIDE DEF x
    <3>3. CASE frame.w = 0
      <4>1. right = 0 /\ a = 20
        BY <1>1, <1>2, <1>4, <3>1, <3>3 DEF Fits
      <4>2. Truncated(20, 20) = 1 /\ Even(1) = 0
        BY DEF Truncated, Even
      <4>3. x = 0
        BY <3>2, <4>1, <4>2
      <4> QED BY <4>1, <4>3
    <3>4. CASE frame.w # 0
      <4>1. a < 20 * (right + 1)
        BY <1>4, <3>1, <3>4
      <4>2. PICK t \in Int : t = Truncated(a, 20) /\ t <= right /\ (a >= 0 => t >= 0)
        BY <4>1, TruncatedBelow
      <4>3. x \in Int /\ x % 2 = 0 /\ x <= t /\ t <= x + 1
        BY <3>2, <4>2, EvenBelow
      <4>4. x = Even(t)
        BY <3>2, <4>2
      <4>5. x < 0 => t < 0
        <5>1. t >= 0 => Even(t) >= 0
          BY <4>2 DEF Even
        <5> QED BY <4>2, <4>3, <4>4, <5>1
      <4>6. x < 0 => frame.w > 20 * (right + 1)
        <5>1. x < 0 => a < 0
          BY <4>2, <4>5
        <5> QED BY <1>4, <3>1, <5>1
      <4> QED BY <4>2, <4>3, <4>6
    <3> QED BY <3>3, <3>4
  <2>4. x \in {CentreX(frame, osd), 0, RightX(frame, osd)}
    BY DEF PlaceX
  <2> QED BY <2>1, <2>2, <2>3, <2>4
<1>6. y \in Int /\ y % 2 = 0 /\ y >= 0 /\ y <= below
  <2>1. /\ below \div 2 \in Int /\ below \div 2 >= 0 /\ below \div 2 <= below
        /\ 2 * (below \div 2) <= below
    BY <1>3
  <2>2. CASE y = 0
    BY <1>3, <2>2
  <2>3. CASE y = MiddleY(frame, osd)
    <3>1. y = Even(below \div 2)
      BY <1>3, <2>3 DEF MiddleY
    <3> HIDE DEF y
    <3>2. y \in Int /\ y % 2 = 0 /\ y <= below \div 2 /\ below \div 2 <= y + 1
      BY <2>1, <3>1, EvenBelow
    <3>3. Even(below \div 2) >= 0
      BY <2>1 DEF Even
    <3> QED BY <1>3, <2>1, <3>1, <3>2, <3>3
  <2>4. CASE y = BottomY(frame, osd)
    <3>1. y = Even(below)
      BY <1>3, <2>4 DEF BottomY
    <3> HIDE DEF y
    <3>2. y \in Int /\ y % 2 = 0 /\ y <= below
      BY <1>3, <3>1, EvenBelow
    <3>3. Even(below) >= 0
      BY <1>3 DEF Even
    <3> QED BY <3>1, <3>2, <3>3
  <2>5. CASE y = MiddleYUp(frame, osd)
    <3>1. y = Even(below \div 2 + 1)
      BY <1>3, <2>5 DEF MiddleYUp
    <3> HIDE DEF y
    <3>2. y \in Int /\ y % 2 = 0 /\ y <= below \div 2 + 1
      BY <2>1, <3>1, EvenBelow
    <3>3. \A b \in Nat : Even(b \div 2 + 1) >= 0 /\ Even(b \div 2 + 1) <= b
      BY DEF Even
    <3> QED BY <1>3, <3>1, <3>2, <3>3
  <2>6. y \in {0, MiddleY(frame, osd), BottomY(frame, osd), MiddleYUp(frame, osd)}
    BY DEF PlaceY
  <2> QED BY <2>2, <2>3, <2>4, <2>5, <2>6
<1> DEFINE at == [x |-> x, y |-> y]
<1>7. at.x = x /\ at.y = y
  OBVIOUS
<1> HIDE DEF x, y, at
<1>8. at.y + osd.h <= frame.h /\ at.x + osd.w <= frame.w
  BY <1>2, <1>3, <1>4, <1>5, <1>6, <1>7
<1>9. at.x < 0 => frame.w > 20 * (frame.w - osd.w + 1)
  BY <1>2, <1>5, <1>7
<1>10. InFrame(at, frame, osd)
  BY <1>5, <1>6, <1>7, <1>8, <1>9 DEF InFrame
<1> QED BY <1>1, <1>10 DEF at

-----------------------------------------------------------------------------
(***************************************************************************)
(* The canvas: its rows, the glyphs on it and the colour of a pixel.       *)
(***************************************************************************)
LEMMA Product ==
  ASSUME NEW a \in Int, NEW b \in Int, NEW l \in Nat, a <= b
  PROVE  l * a \in Int /\ l * b \in Int /\ l * a <= l * b
OBVIOUS

\* Clear sets all bytes of the canvas.
LEMMA FillsAll ==
  ASSUME NEW can \in [w : Nat, h : Nat]
  PROVE  SolidFill(can) = 0 .. 2 * can.w * can.h - 1
<1> DEFINE l == LineLength(can)
           h == can.h
<1>1. l \in Nat /\ h \in Nat /\ 2 * can.w * can.h = l * h
  BY DEF LineLength
<1>2. SolidFill(can) = UNION {l * row .. l * (row + 1) - 1 : row \in 0..h - 1}
  BY DEF SolidFill
<1> HIDE DEF l, h
<1>3. ASSUME NEW row \in 0..h - 1, NEW a \in l * row .. l * (row + 1) - 1
      PROVE  a \in 0 .. l * h - 1
  <2>1. row \in Nat /\ row + 1 \in Nat /\ row + 1 <= h
    BY <1>1
  <2>2. l * (row + 1) \in Int /\ l * h \in Int /\ l * (row + 1) <= l * h
    BY <1>1, <2>1, Product
  <2>3. l * row \in Nat
    BY <1>1, <2>1
  <2> QED BY <1>3, <2>2, <2>3
<1>4. ASSUME NEW a \in 0 .. l * h - 1
      PROVE  \E row \in 0..h - 1 : a \in l * row .. l * (row + 1) - 1
  <2> DEFINE S == {k \in Nat : a < l * k}
  <2>1. l * h \in Int /\ a \in Nat /\ a < l * h
    BY <1>1
  <2>2. h \in S
    BY <1>1, <2>1
  <2>3. PICK k \in S : \A i \in S : k <= i
    <3>1. S \subseteq Nat /\ S # {}
      BY <2>2
    <3> HIDE DEF S
    <3> QED BY <3>1, SmallestOf
  <2>4. k \in Nat /\ a < l * k /\ k <= h
    BY <2>2, <2>3
  <2>5. k # 0
    BY <1>1, <2>1, <2>4
  <2>6. k - 1 \in Nat /\ k - 1 \notin S /\ k - 1 \in 0..h - 1 /\ k - 1 + 1 = k
    <3>1. k - 1 \in Nat /\ k - 1 \in 0..h - 1 /\ k - 1 + 1 = k /\ ~(k <= k - 1)
      BY <1>1, <2>4, <2>5
    <3> HIDE DEF S
    <3>2. k - 1 \notin S
      BY <2>3, <3>1
    <3> QED BY <3>1, <3>2
  <2>7. ~(a < l * (k - 1))
    BY <2>6
  <2>8. l * (k - 1) \in Int /\ l * k \in Int
    BY <1>1, <2>4, <2>6
  <2>9. a \in l * (k - 1) .. l * (k - 1 + 1) - 1
    BY <2>1, <2>4, <2>6, <2>7, <2>8
  <2> QED BY <2>6, <2>9
<1>5. SolidFill(can) = 0 .. l * h - 1
  BY <1>2, <1>3, <1>4
<1> QED BY <1>1, <1>5

\* The address of a pixel tells its row and its column.
LEMMA PixelAt ==
  ASSUME NEW w \in Nat, NEW x \in 0..w - 1, NEW y \in Nat, NEW a, a = y * (2 * w) + 2 * x
  PROVE  (a % (2 * w)) \div 2 = x /\ a \div (2 * w) = y
<1>1. PICK l \in Nat \ {0} : l = 2 * w
  OBVIOUS
<1>2. 2 * x \in 0..l - 1 /\ a = y * l + 2 * x /\ a \in Nat
  BY <1>1
<1>3. a \div l = y /\ a % l = 2 * x
  BY ONLY <1>2, l \in Nat \ {0}, y \in Nat
<1>4. (2 * x) \div 2 = x
  OBVIOUS
<1> QED BY <1>1, <1>3, <1>4

\* The columns and rows of addresses.
At(can, drawn) == {<<(a % (2 * can.w)) \div 2, a \div (2 * can.w)>> : a \in drawn}

\* What is on a canvas of a box with a corner at left, top.
OnCanvas(can, left, top, g) ==
  ((left .. left + g.w - 1) \X (top .. top + g.h - 1)) \cap ((0..can.w - 1) \X (0..can.h - 1))

\* A glyph covers what is on the canvas of its box.
LEMMA GlyphDrawn ==
  ASSUME NEW can \in [w : Nat, h : Nat], NEW x \in Int, NEW y \in Int, NEW g,
         g.w \in Nat, g.h \in Nat, g.x \in Int, g.upper \in Int
  PROVE  At(can, DrawGlyph(can, x, y, g)) = OnCanvas(can, x + g.x, y + 16 - g.upper, g)
<1> DEFINE line == 2 * can.w
           left == x + g.x
           top  == y + 16 - g.upper
           addr == top * LineLength(can) + left * 2
           shown == {p \in (0..g.w - 1) \X (0..g.h - 1) : InClipRect(can, left + p[1], top + p[2])}
           Pixel(a) == <<(a % line) \div 2, a \div line>>
           Address(p) == addr + p[2] * LineLength(can) + p[1] * 2
           box == OnCanvas(can, left, top, g)
<1>1. DrawGlyph(can, x, y, g) = {Address(p) : p \in shown}
  BY DEF DrawGlyph
<1>2. left \in Int /\ top \in Int /\ can.w \in Nat /\ can.h \in Nat
  OBVIOUS
<1> HIDE DEF left, top
<1>3. ASSUME NEW p \in shown
      PROVE  Pixel(Address(p)) = <<left + p[1], top + p[2]>> /\ <<left + p[1], top + p[2]>> \in box
  <2>1. p[1] \in 0..g.w - 1 /\ p[2] \in 0..g.h - 1
    OBVIOUS
  <2>2. left + p[1] \in 0..can.w - 1 /\ top + p[2] \in 0..can.h - 1
    BY DEF InClipRect
  <2>3. PICK i \in Int, j \in Int : i = left + p[1] /\ j = top + p[2]
    BY <1>2, <2>1
  <2>4. Address(p) = j * (2 * can.w) + 2 * i
    <3>1. LineLength(can) = 2 * can.w
      BY DEF LineLength
    <3>2. PICK l \in Nat : l = 2 * can.w
      BY <1>2
    <3>3. Address(p) = top * l + left * 2 + p[2] * l + p[1] * 2
      BY <3>1, <3>2
    <3>4. j * l = top * l + p[2] * l /\ 2 * i = left * 2 + p[1] * 2
      BY <1>2, <2>1, <2>3
    <3>5. top * l \in Int /\ p[2] * l \in Int
      BY <1>2, <2>1
    <3> QED BY <1>2, <2>1, <3>2, <3>3, <3>4, <3>5
  <2>5. i \in 0..can.w - 1 /\ j \in Nat
    BY <1>2, <2>2, <2>3
  <2>6. (Address(p) % line) \div 2 = i /\ Address(p) \div line = j
    BY <1>2, <2>4, <2>5, PixelAt
  <2>7. i \in left .. left + g.w - 1 /\ j \in top .. top + g.h - 1 /\ j \in 0..can.h - 1
    BY <1>2, <2>1, <2>2, <2>3
  <2> HIDE DEF Address
  <2> QED BY <2>3, <2>5, <2>6, <2>7 DEF OnCanvas
<1>4. ASSUME NEW i \in left .. left + g.w - 1, NEW j \in top .. top + g.h - 1,
             i \in 0..can.w - 1, j \in 0..can.h - 1
      PROVE  \E p \in shown : <<i, j>> = <<left + p[1], top + p[2]>>
  <2> DEFINE p == <<i - left, j - top>>
  <2>1. p \in (0..g.w - 1) \X (0..g.h - 1) /\ left + p[1] = i /\ top + p[2] = j
    BY <1>2, <1>4
  <2>2. p \in shown
    BY <1>4, <2>1 DEF InClipRect
  <2> QED BY <2>1, <2>2
<1>5. {Pixel(a) : a \in DrawGlyph(can, x, y, g)} = {Pixel(Address(p)) : p \in shown}
  BY <1>1
<1> HIDE DEF Pixel, Address, shown
<1>6. {Pixel(Address(p)) : p \in shown} = {<<left + p[1], top + p[2]>> : p \in shown}
  BY <1>3
<1>7. {<<left + p[1], top + p[2]>> : p \in shown} = box
  BY <1>3, <1>4 DEF OnCanvas
<1> QED BY <1>5, <1>6, <1>7 DEF At, OnCanvas, Pixel, line, left, top

\* The pen has moved by what the glyphs before say.
LEMMA PenMoves ==
  ASSUME NEW glyphs \in Seq(Glyph), NEW x \in Int
  PROVE  \E pen :
           \A i \in 1..Len(glyphs) :
             LET before == SubSeq(glyphs, 1, i - 1)
             IN /\ pen[i - 1] = x + Total([n \in DOMAIN before |-> before[n].advance])
                /\ pen[i - 1] \in Int
                /\ \A can, y : DrawText(can, x, y, glyphs)[i]
                                 = DrawGlyph(can, pen[i - 1], y, glyphs[i])
<1> DEFINE n == Len(glyphs)
           s == [k \in 1..n |-> glyphs[k].advance]
           pen[i \in 0..Len(glyphs)] == IF i = 0 THEN x ELSE pen[i - 1] + glyphs[i].advance
           T(f) == [k \in 0..n |-> {x + f[k]}]
<1>1. n \in Nat /\ \A k \in 1..n : glyphs[k].advance \in Int
  <2>1. n \in Nat /\ \A k \in 1..n : glyphs[k] \in Glyph
    OBVIOUS
  <2> QED BY <2>1 DEF Glyph
<1>2. s \in Seq(Int) /\ Len(s) = n
  <2>1. s \in [1..n -> Int]
    BY <1>1
  <2> HIDE DEF s
  <2> QED BY <1>1, <2>1, SeqDef
<1>3. \A k \in 1..n : s[k] = glyphs[k].advance
  OBVIOUS
<1>4. Numbers(s)
  BY <1>1, <1>2, <1>3 DEF Numbers
<1>5. PICK f : IsSum(f, s)
  BY <1>4, Summed
<1>6. \A k \in 0..n : T(f)[k] = {x + f[k]}
  OBVIOUS
<1> HIDE DEF s, n, T
<1>7. /\ f[0] = 0 /\ (\A k \in 0..n : f[k] \in Int)
      /\ \A k \in 1..n : f[k] = f[k - 1] + glyphs[k].advance
  BY <1>2, <1>3, <1>5 DEF IsSum
<1>8. 0 \in 0..n /\ \A k \in 1..n : k \in 0..n /\ k - 1 \in 0..n /\ k # 0
  BY <1>1
<1> DEFINE g == [k \in 0..n |-> x + f[k]]
<1>9. \A k \in 0..n : g[k] = IF k = 0 THEN x ELSE g[k - 1] + glyphs[k].advance
  <2>1. g[0] = x
    BY <1>7, <1>8
  <2>2. ASSUME NEW k \in 1..n PROVE g[k] = g[k - 1] + glyphs[k].advance
    <3>1. g[k] = x + f[k] /\ g[k - 1] = x + f[k - 1]
      BY <1>8
    <3> HIDE DEF g
    <3> QED BY <1>1, <1>7, <1>8, <3>1
  <2>3. \A k \in 0..n : k = 0 \/ k \in 1..n
    BY <1>1
  <2> HIDE DEF g
  <2> QED BY <1>8, <2>1, <2>2, <2>3
<1>10. g = [k \in 0..n |-> g[k]]
  OBVIOUS
<1> HIDE DEF g
<1>11. g = [k \in 0..n |-> IF k = 0 THEN x ELSE g[k - 1] + glyphs[k].advance]
  BY Zenon, <1>9, <1>10
<1>12. pen = [k \in 0..n |-> IF k = 0 THEN x ELSE pen[k - 1] + glyphs[k].advance]
  BY Zenon, <1>11 DEF n
<1>13. \A can, y : DrawText(can, x, y, glyphs)
                     = [i \in 1..n |-> DrawGlyph(can, pen[i - 1], y, glyphs[i])]
  BY DEF DrawText, n
<1> HIDE DEF pen
<1>14. pen[0] = x /\ \A k \in 1..n : pen[k] = pen[k - 1] + glyphs[k].advance
  BY <1>8, <1>12
<1>15. pen[0] \in T(f)[0]
  BY <1>6, <1>7, <1>8, <1>14
<1>16. ASSUME NEW k \in 1..n, pen[k - 1] \in T(f)[k - 1] PROVE pen[k] \in T(f)[k]
  <2>1. pen[k - 1] = x + f[k - 1]
    BY <1>6, <1>8, <1>16
  <2>2. pen[k] = pen[k - 1] + glyphs[k].advance /\ f[k] = f[k - 1] + glyphs[k].advance
    BY <1>7, <1>14
  <2>3. f[k - 1] \in Int /\ glyphs[k].advance \in Int
    BY <1>1, <1>7, <1>8
  <2>4. pen[k] = x + f[k]
    BY ONLY <2>1, <2>2, <2>3, x \in Int
  <2> QED BY <1>6, <1>8, <2>4
<1>17. \A k \in 0..n : pen[k] \in T(f)[k]
  BY <1>1, <1>15, <1>16, CountKeeps
<1>18. ASSUME NEW i \in 1..n
       PROVE  LET before == SubSeq(glyphs, 1, i - 1)
              IN Total([k \in DOMAIN before |-> before[k].advance]) = f[i - 1]
  <2> DEFINE before == SubSeq(glyphs, 1, i - 1)
             t == [k \in DOMAIN before |-> before[k].advance]
  <2>1. i - 1 \in Nat /\ i - 1 <= n /\ \A k \in 1..i - 1 : k \in 1..n
    BY <1>1
  <2>2. /\ before \in Seq(Glyph) /\ Len(before) = i - 1
        /\ \A k \in 1..i - 1 : before[k] = glyphs[k]
    <3>1. \A k \in 1..i - 1 : glyphs[k] \in Glyph
      BY <2>1 DEF n
    <3> QED BY <2>1, <3>1, SubSeqProperties DEF n
  <2> HIDE DEF before
  <2>3. DOMAIN before = 1..i - 1
    BY <2>2
  <2>4. t \in [1..i - 1 -> Int] /\ \A k \in 1..i - 1 : t[k] = s[k]
    BY <1>1, <1>3, <2>1, <2>2, <2>3
  <2> HIDE DEF t
  <2>5. Len(t) = i - 1
    BY <2>1, <2>4, SeqDef
  <2>6. Numbers(t)
    BY <2>1, <2>4, <2>5 DEF Numbers
  <2>7. Total(t) = f[i - 1]
    BY <1>2, <1>4, <1>5, <2>1, <2>4, <2>5, <2>6, SumShared
  <2> QED BY <2>7 DEF before, t
<1>19. ASSUME NEW i \in 1..n
       PROVE  LET before == SubSeq(glyphs, 1, i - 1)
              IN /\ pen[i - 1] = x + Total([k \in DOMAIN before |-> before[k].advance])
                 /\ pen[i - 1] \in Int
                 /\ \A can, y : DrawText(can, x, y, glyphs)[i]
                                  = DrawGlyph(can, pen[i - 1], y, glyphs[i])
  <2>1. pen[i - 1] = x + f[i - 1] /\ f[i - 1] \in Int
    BY <1>6, <1>7, <1>8, <1>17
  <2>2. ASSUME NEW can, NEW y
        PROVE  DrawText(can, x, y, glyphs)[i] = DrawGlyph(can, pen[i - 1], y, glyphs[i])
    <3>1. DrawText(can, x, y, glyphs) = [k \in 1..n |-> DrawGlyph(can, pen[k - 1], y, glyphs[k])]
      BY ONLY <1>13
    <3> QED BY ONLY <3>1, i \in 1..n
  <2> QED BY <1>18, <2>1, <2>2
<1> QED BY <1>19 DEF n

\* DrawText covers what is on the canvas of the box of each glyph.
LEMMA TextDrawn ==
  ASSUME call.canvas \in [w : Nat, h : Nat], call.pen \in [x : Int, y : Int],
         call.glyphs \in Seq(Glyph), NEW i \in DOMAIN call.glyphs
  PROVE  At(call.canvas, DrawText(call.canvas, call.pen.x, call.pen.y, call.glyphs)[i])
           = Box(i) \cap ((0..call.canvas.w - 1) \X (0..call.canvas.h - 1))
<1> DEFINE can == call.canvas
           y == call.pen.y
           g == call.glyphs[i]
           before == SubSeq(call.glyphs, 1, i - 1)
           moved == call.pen.x + Total([n \in DOMAIN before |-> before[n].advance])
<1>1. y \in Int /\ call.pen.x \in Int /\ i \in 1..Len(call.glyphs)
  OBVIOUS
<1>2. g.w \in Nat /\ g.h \in Nat /\ g.x \in Int /\ g.upper \in Int
  <2>1. g \in Glyph
    OBVIOUS
  <2> QED BY <2>1 DEF Glyph
<1>3. moved \in Int /\ DrawText(can, call.pen.x, y, call.glyphs)[i] = DrawGlyph(can, moved, y, g)
  <2>1. PICK pen : \A j \in 1..Len(call.glyphs) :
               LET b == SubSeq(call.glyphs, 1, j - 1)
               IN /\ pen[j - 1] = call.pen.x + Total([n \in DOMAIN b |-> b[n].advance])
                  /\ pen[j - 1] \in Int
                  /\ \A c, z : DrawText(c, call.pen.x, z, call.glyphs)[j]
                                 = DrawGlyph(c, pen[j - 1], z, call.glyphs[j])
    BY <1>1, PenMoves
  <2> QED BY <1>1, <2>1
<1>4. Box(i) = ((moved + g.x) .. (moved + g.x) + g.w - 1)
                 \X ((y + 16 - g.upper) .. (y + 16 - g.upper) + g.h - 1)
  BY DEF Box
<1>5. can \in [w : Nat, h : Nat]
  OBVIOUS
<1> HIDE DEF before, moved, y, g, can
<1>6. At(can, DrawGlyph(can, moved, y, g)) = OnCanvas(can, moved + g.x, y + 16 - g.upper, g)
  <2>1. PICK c \in [w : Nat, h : Nat], x0 \in Int, y0 \in Int : c = can /\ x0 = moved /\ y0 = y
    BY <1>1, <1>3, <1>5
  <2>2. PICK g0 : g0 = g
    OBVIOUS
  <2>3. g0.w \in Nat /\ g0.h \in Nat /\ g0.x \in Int /\ g0.upper \in Int
    BY <1>2, <2>2
  <2>4. At(c, DrawGlyph(c, x0, y0, g0)) = OnCanvas(c, x0 + g0.x, y0 + 16 - g0.upper, g0)
    BY ONLY <2>3, GlyphDrawn
  <2> QED BY <2>1, <2>2, <2>4
<1> QED BY <1>3, <1>4, <1>6 DEF OnCanvas, y, can, g

LEMMA DivideBy32 ==
  ASSUME NEW q \in Int, NEW k \in 0..31
  PROVE  (32 * q + k) \div 32 = q /\ (32 * q + k) % 32 = k
OBVIOUS

LEMMA IsOpaque ==
  ASSUME NEW v, v \in Int, v >= 32768, v <= 65535
  PROVE  v \in Opaque
<1>1. PICK lo \in Int, hi \in Int : lo = 32768 /\ hi = 2 * 32768 - 1
  OBVIOUS
<1>2. lo <= v /\ v <= hi
  BY <1>1
<1>3. v \in lo..hi
  BY ONLY <1>2, v \in Int
<1>4. Opaque = lo..hi
  BY <1>1 DEF Opaque
<1> QED BY <1>3, <1>4

\* A pixel by its channels, which it tells.
PixelOf(r, g, b) == Bytes((g % 8) * 32 + b, 128 + r * 4 + g \div 8)

AlphaSet(v) == v \in Opaque /\ v \div 32768 = 1

HasChannels(v, r, g, b) ==
  /\ AlphaSet(v)
  /\ v % 32 = b /\ v \div 32 % 32 = g /\ v \div 1024 % 32 = r

LEMMA PixelChannels ==
  ASSUME NEW r \in 0..31, NEW g \in 0..31, NEW b \in 0..31
  PROVE  HasChannels(PixelOf(r, g, b), r, g, b)
<1> DEFINE v == PixelOf(r, g, b)
<1>1. PICK low \in Int, high \in Int : low = g % 8 /\ high = g \div 8
  OBVIOUS
<1>2. g = 8 * high + low
  BY <1>1
<1>3. v = low * 32 + b + 256 * (128 + r * 4 + high)
  BY <1>1 DEF PixelOf, Bytes
<1> HIDE DEF v
<1>4. PICK rg \in Int : rg = 32 * (32 + r) + g
  OBVIOUS
<1>5. v = 32 * rg + b
  BY ONLY <1>2, <1>3, <1>4, low \in Int, high \in Int, r \in 0..31, b \in 0..31
<1>6. v \div 32 = rg /\ v % 32 = b
  BY ONLY <1>5, DivideBy32, rg \in Int, b \in 0..31
<1>7. rg % 32 = g
  <2>1. 32 + r \in Int
    OBVIOUS
  <2> QED BY ONLY <1>4, <2>1, DivideBy32, g \in 0..31
<1>8. v \div 1024 = 32 + r /\ AlphaSet(v)
  <2>1. v = 1024 * (32 + r) + 32 * g + b
    BY ONLY <1>4, <1>5, r \in 0..31, g \in 0..31, b \in 0..31
  <2>2. v \div 1024 = 32 + r
    BY ONLY <2>1, r \in 0..31, g \in 0..31, b \in 0..31
  <2>3. v \div 32768 = 1
    BY ONLY <2>1, r \in 0..31, g \in 0..31, b \in 0..31
  <2>4. v \in Opaque
    <3>1. 0 <= r /\ r <= 31 /\ 0 <= g /\ g <= 31 /\ 0 <= b /\ b <= 31
          /\ r \in Int /\ g \in Int /\ b \in Int
      OBVIOUS
    <3>2. v \in Int
      BY ONLY <2>1, <3>1
    <3>3. v >= 32768
      BY ONLY <2>1, <3>1
    <3>4. v <= 65535
      BY ONLY <2>1, <3>1
    <3> QED BY ONLY <3>2, <3>3, <3>4, IsOpaque
  <2> QED BY <2>2, <2>3, <2>4 DEF AlphaSet
<1>9. (32 + r) % 32 = r
  OBVIOUS
<1>10. v \div 32 % 32 = g /\ v \div 1024 % 32 = r
  BY ONLY <1>6, <1>7, <1>8, <1>9
<1> QED BY ONLY <1>6, <1>8, <1>10 DEF v, HasChannels

LEMMA ChannelOf ==
  ASSUME NEW k \in Octet
  PROVE  k \div 8 \in 0..31 /\ (k \div 8) \div 8 = k \div 64
<1>1. k \in Int /\ 0 <= k /\ k <= 255
  BY DEF Octet
<1>2. k \div 8 \in Int /\ 0 <= k \div 8 /\ k \div 8 <= 31
  BY ONLY <1>1
<1>3. (k \div 8) \div 8 = k \div 64
  BY ONLY <1>1
<1> QED BY ONLY <1>2, <1>3

LEMMA SolidHas ==
  ASSUME NEW c, {c.r, c.g, c.b} \subseteq Octet
  PROVE  HasChannels(SolidPixel(c), c.r \div 8, c.g \div 8, c.b \div 8)
<1>1. /\ c.r \div 8 \in 0..31 /\ c.g \div 8 \in 0..31 /\ c.b \div 8 \in 0..31
      /\ (c.g \div 8) \div 8 = c.g \div 64
  BY Zenon, ChannelOf
<1>2. PICK r \in 0..31, g \in 0..31, b \in 0..31 : r = c.r \div 8 /\ g = c.g \div 8 /\ b = c.b \div 8
  BY Zenon, <1>1
<1>3. SolidPixel(c) = PixelOf(r, g, b)
  BY <1>1, <1>2 DEF SolidPixel, PixelOf
<1> QED BY Zenon, <1>2, <1>3, PixelChannels

\* A channel between two others.
LEMMA MixedBetween ==
  ASSUME NEW k \in Octet, NEW a \in 1..254
  PROVE  Mixed(5, k \div 8, a) \in 0..31 /\ MixedChannel(Mixed(5, k \div 8, a), k, a)
<1>1. PICK e \in 0..31 : e = k \div 8
  BY ChannelOf
<1>2. PICK p \in Int : p = e * a
  OBVIOUS
<1>3. 0 <= p /\ p <= 31 * a
  <2>1. e \in Nat /\ a \in Nat /\ e <= 31
    OBVIOUS
  <2>2. a * e \in Int /\ a * 31 \in Int /\ a * 0 <= a * e /\ a * e <= a * 31
    BY <2>1, Product
  <2>3. a * e = p /\ a * 0 = 0 /\ a * 31 = 31 * a
    BY <1>2
  <2> QED BY <1>2, <2>2, <2>3
<1>4. 256 * 5 + (e - 5) * a = 256 * 5 - 5 * a + p
  BY <1>2
<1>5. PICK q \in Int : q = 256 * 5 - 5 * a + p
  OBVIOUS
<1>6. Mixed(5, k \div 8, a) = q \div 256
  BY <1>1, <1>4, <1>5 DEF Mixed
<1>7. q >= 0 /\ q < 256 * 32
  BY ONLY <1>3, <1>5, a \in 1..254, p \in Int
<1>8. q \div 256 \in 0..31 /\ 256 * (q \div 256) <= q /\ q < 256 * (q \div 256 + 1)
  BY ONLY <1>7, q \in Int
<1>9. (256 - a) * (45 \div 8) + a * (k \div 8) = q
  <2>1. 45 \div 8 = 5 /\ a * e = p
    BY <1>2
  <2>2. (256 - a) * 5 + p = q
    BY ONLY <1>5, p \in Int, a \in 1..254
  <2> QED BY ONLY <1>1, <2>1, <2>2
<1> QED BY <1>6, <1>8, <1>9 DEF MixedChannel

\* A pixel of a text has the colour of the text, or one between it and the grey.
LEMMA PixelDrawn ==
  ASSUME NEW mem, NEW a \in Octet, NEW c, {c.r, c.g, c.b} \subseteq Octet
  PROVE  HasColour(DrawPixel(mem, a, c), mem, a, c)
<1>1. CASE a = 0
  BY <1>1 DEF DrawPixel, HasColour
<1>2. CASE a = 255
  <2>1. DrawPixel(mem, a, c) = SolidPixel(c)
    BY <1>2 DEF DrawPixel
  <2> QED BY <1>2, <2>1, SolidHas DEF HasChannels, HasColour
<1>3. CASE a # 0 /\ a # 255
  <2> DEFINE grey == SolidPixel(Grey)
             v == DrawPixel(mem, a, c)
  <2>1. v = AlphaPixel(grey, a, c)
    BY <1>3 DEF DrawPixel
  <2>2. grey % 32 = 5 /\ grey \div 32 % 32 = 5 /\ grey \div 1024 % 32 = 5 /\ grey \div 32768 = 1
    <3>1. {Grey.r, Grey.g, Grey.b} \subseteq Octet /\ 45 \div 8 = 5
          /\ Grey.r = 45 /\ Grey.g = 45 /\ Grey.b = 45
      BY DEF Grey, Octet
    <3>2. HasChannels(SolidPixel(Grey), Grey.r \div 8, Grey.g \div 8, Grey.b \div 8)
      BY <3>1, SolidHas
    <3> QED BY <3>1, <3>2 DEF HasChannels, AlphaSet, grey
  <2> HIDE DEF grey, v
  <2> DEFINE b == Mixed(5, c.b \div 8, a)
             g == Mixed(5, c.g \div 8, a)
             r == Mixed(5, c.r \div 8, a)
  <2>4. /\ b \in 0..31 /\ g \in 0..31 /\ r \in 0..31
        /\ MixedChannel(b, c.b, a) /\ MixedChannel(g, c.g, a) /\ MixedChannel(r, c.r, a)
    <3>1. a \in 1..254 /\ c.b \in Octet /\ c.g \in Octet /\ c.r \in Octet
      BY <1>3 DEF Octet
    <3> QED BY Zenon, <3>1, MixedBetween
  <2> HIDE DEF b, g, r
  <2>5. v = PixelOf(r, g, b)
    <3>1. v = Bytes((Mixed(grey \div 32 % 32, c.g \div 8, a) % 8) * 32
                      + Mixed(grey % 32, c.b \div 8, a),
                    128 * (grey \div 32768) + Mixed(grey \div 1024 % 32, c.r \div 8, a) * 4
                      + Mixed(grey \div 32 % 32, c.g \div 8, a) \div 8)
      BY ONLY <2>1 DEF AlphaPixel
    <3> QED BY ONLY <2>2, <3>1 DEF PixelOf, b, g, r
  <2>6. HasChannels(v, r, g, b)
    <3>1. HasChannels(PixelOf(r, g, b), r, g, b)
      BY Zenon, <2>4, PixelChannels
    <3> QED BY Zenon, <2>5, <3>1
  <2>7. v \in Opaque
    BY <2>6 DEF HasChannels, AlphaSet
  <2>8. v % 32 = b /\ v \div 32 % 32 = g /\ v \div 1024 % 32 = r
    BY <2>6 DEF HasChannels
  <2>9. /\ v \in Opaque
        /\ MixedChannel(v \div 1024 % 32, c.r, a)
        /\ MixedChannel(v \div 32 % 32, c.g, a)
        /\ MixedChannel(v % 32, c.b, a)
    BY ONLY <2>4, <2>7, <2>8
  <2> QED BY <1>3, <2>9 DEF v, HasColour
<1> QED BY <1>1, <1>2, <1>3

\* An overlay lies in its frame, a text covers what of its glyphs is on the canvas
\* and Clear all of it, and the pixels of a text have its colour or one between it
\* and the grey, whatever the sizes, the glyphs and the colours
\* (textstreamqueue.cpp:434-499, canvas.cpp:12-33, 163-242 and 244-302).
THEOREM AllIsDrawnInPlace == RoutineSpec => []DrawnInPlace
<1>1. RoutineSpec => DrawnInPlace
  <2>1. out = <<>> => ~Returned
    BY DEF Returned
  <2> QED BY <2>1 DEF RoutineSpec, DrawnInPlace, OverlayInFrame, TextInCanvas, TextHasColour
<1>2. ASSUME RoutineCall, DrawnInPlace,
             [Routine \/ (call.name \notin RoutineNames /\ UNCHANGED call)]_<<call, out>>
      PROVE  DrawnInPlace'
  <2>1. CASE Places
    <3>1. /\ call.name = "place" /\ call' = call
          /\ Result' = Place(call.position, call.frame, Osd)
      BY <2>1, ReturnIs DEF Places
    <3>2. /\ call.position \in 0..9 /\ call.frame \in Frames /\ call.gap \in Gaps
          /\ HasSize(call.frame, call.gap)
      BY <1>2, <3>1, Arguments
    <3>3. call.frame \in [w : Nat, h : Nat] /\ call.gap.w \in Int /\ call.gap.h \in Int
      BY <3>2, SizeAssumption
    <3>4. Osd \in [w : Nat, h : Nat]
      BY <3>2, <3>3 DEF Osd, HasSize
    <3>5. Osd' = Osd
      BY <3>1 DEF Osd
    <3> DEFINE place == Place(call.position, call.frame, Osd)
    <3>6. \A n \in 1..Len(place) : n \in DOMAIN place
      BY DEF Place
    <3>7. \A n \in 1..Len(place) : InFrame(place[n], call.frame, Osd)
      <4>1. call.position \in Nat
        BY <3>2
      <4> QED BY ONLY <3>3, <3>4, <3>6, <4>1, OverlayStaysInFrame
    <3> HIDE DEF place
    <3>8. OverlayInFrame'
      BY <3>1, <3>5, <3>7 DEF OverlayInFrame, place
    <3> QED BY <3>1, <3>8 DEF DrawnInPlace, TextInCanvas, TextHasColour
  <2>2. CASE DrawsText
    <3>1. /\ call.name = "text" /\ call' = call
          /\ Result' = DrawText(call.canvas, call.pen.x, call.pen.y, call.glyphs)
      BY <2>2, ReturnIs DEF DrawsText
    <3>2. /\ call.canvas \in [w : Nat, h : Nat] /\ call.pen \in [x : Int, y : Int]
          /\ call.glyphs \in Seq(Glyph)
      BY <1>2, <3>1, Arguments, SizeAssumption, GlyphAssumption
    <3>3. ASSUME NEW i \in DOMAIN call.glyphs
          PROVE  At(call.canvas, Result'[i])
                   = Box(i) \cap ((0..call.canvas.w - 1) \X (0..call.canvas.h - 1))
      BY <3>1, <3>2, TextDrawn
    <3>4. \A i : Box(i)' = Box(i)
      BY <3>1 DEF Box
    <3>5. TextInCanvas'
      BY <3>1, <3>3, <3>4 DEF TextInCanvas, At
    <3> QED BY <3>1, <3>5 DEF DrawnInPlace, OverlayInFrame, TextHasColour
  <2>3. CASE DrawsPixel
    <3>1. /\ call.name = "pixel" /\ call' = call
          /\ Result' = DrawPixel(call.mem, call.coverage, call.colour)
      BY <2>3, ReturnIs DEF DrawsPixel
    <3>2. call.coverage \in Octet /\ {call.colour.r, call.colour.g, call.colour.b} \subseteq Octet
      BY <1>2, <3>1, Arguments, ColourAssumption
    <3>3. TextHasColour'
      <4>1. HasColour(DrawPixel(call.mem, call.coverage, call.colour),
                      call.mem, call.coverage, call.colour)
        BY Zenon, <3>2, PixelDrawn
      <4> QED BY <3>1, <4>1 DEF TextHasColour, HasColour
    <3> QED BY <3>1, <3>3 DEF DrawnInPlace, OverlayInFrame, TextInCanvas
  <2>4. CASE ClearsCanvas
    <3>1. call.name = "clear" /\ call' = call /\ Result' = SolidFill(call.canvas)
      BY <2>4, ReturnIs DEF ClearsCanvas
    <3>2. call.canvas \in [w : Nat, h : Nat]
      BY <1>2, <3>1, Arguments, SizeAssumption
    <3>3. Result' = 0 .. 2 * call.canvas.w * call.canvas.h - 1
      BY <3>1, <3>2, FillsAll
    <3> QED BY <3>1, <3>3 DEF DrawnInPlace, OverlayInFrame, TextInCanvas, TextHasColour
  <2>5. CASE OnPlaintext \/ OnTerminal
    <3>1. call' = call /\ call.name \in {"plaintext", "terminal"}
      BY <2>5 DEF OnPlaintext, OnTerminal, Return
    <3> QED BY <3>1 DEF DrawnInPlace, OverlayInFrame, TextInCanvas, TextHasColour
  <2>6. CASE call.name \notin RoutineNames /\ UNCHANGED call
    BY <2>6 DEF DrawnInPlace, OverlayInFrame, TextInCanvas, TextHasColour, RoutineNames
  <2>7. CASE UNCHANGED <<call, out>>
    <3>1. (\A i : Box(i)' = Box(i)) /\ Osd' = Osd /\ Result' = Result /\ Returned' = Returned
          /\ call' = call
      BY <2>7 DEF Box, Osd, Result, Returned
    <3>2. OverlayInFrame' /\ TextInCanvas' /\ TextHasColour'
      BY <1>2, <3>1 DEF DrawnInPlace, OverlayInFrame, TextInCanvas, TextHasColour
    <3> QED BY <1>2, <3>1, <3>2 DEF DrawnInPlace
  <2> QED BY <1>2, <2>1, <2>2, <2>3, <2>4, <2>5, <2>6, <2>7 DEF Routine
<1> QED BY <1>1, <1>2, CallStays, PTL DEF RoutineSpec
=============================================================================
