------------------------------- MODULE Composer -------------------------------
(***************************************************************************)
(* TextStreamQueue in its CT_ViModule mode: one ComposingThread per bound  *)
(* channel takes the frames of the video input, adds the canvas to them    *)
(* and gives them back, and all of them count mTickCnt to clear the text.  *)
(*                                                                         *)
(* The threads, the appender (the callbacks of pos_net) and the control    *)
(* thread (Config, PauseOsd, RestoreOsd of POSDevice, called in turn) share*)
(* the object without a lock.  A step is what one of them does between two *)
(* accesses that another one can get between.                              *)
(*                                                                         *)
(* The calls of CIntfMedia are external and may fail.  What is drawn is    *)
(* reduced to whether there is any text; the sizes of frames to whether    *)
(* the canvas fits.  Creating a thread succeeds.                           *)
(*                                                                         *)
(* Two variables are history, which no step reads: the frames that were    *)
(* not given back because they were empty or giving them back failed, and  *)
(* whether StopComposing may have been misled about the threads.           *)
(***************************************************************************)
EXTENDS Naturals, FiniteSets, Functions

CONSTANTS
  Channels,    \* the channels that may be bound
  ClearTicks,  \* the count per bound channel that clears the text (400)
  Failures,    \* the failures in a row that restart the capture (5)
  MaxLost,     \* a bound on the frames that are lost
  NoChannel    \* not a channel

ASSUME CountAssumption == {ClearTicks, Failures} \subseteq Nat \ {0} /\ MaxLost \in Nat
ASSUME ChannelAssumption == IsFiniteSet(Channels) /\ NoChannel \notin Channels

VARIABLES
  bound,      \* ConfigInfo::BoundChns
  need,       \* m_bNeedComposing
  composing,  \* m_bChnComposing, whose elements share a word
  paused,     \* m_bChnNeedPause
  tick,       \* mTickCnt
  rows,       \* mRowText is not empty
  canvas,     \* there is text on m_pPaintBuffer
  capture,    \* each channel's capture: "on", "off", or its last call "failed"
  frames,     \* the frames taken of each channel and not given back
  lost,       \* those that were empty, or that FreeViChnFrame failed for
  thread,     \* each channel's thread: "none", "created", or where it is
  count,      \* its s32Count, with Failures for all that are larger
  word,       \* the word of m_bChnComposing that it is changing, or empty
  astray,     \* since the threads were created, two of them changed the word
              \* at the same time, or one had not begun at StopComposing
  loaded,     \* the value of mTickCnt that it is incrementing, or 0
  appender,   \* the appender: "idle", or where it is in Append
  control,    \* the control thread: "idle", or where it is
  chn         \* the channel that it pauses or restores, or NoChannel

text    == <<tick, rows, canvas>>
taken   == <<frames, lost>>
media   == <<capture, taken>>
flags   == <<composing, word, astray>>
threads == <<flags, thread, count, loaded>>
calls   == <<bound, need, paused, control, chn>>
vars    == <<text, media, threads, calls, appender>>

-----------------------------------------------------------------------------
(***************************************************************************)
(* StartGetViChnFrame and StopGetViChnFrame may fail, and whether the      *)
(* channel is captured is then not known.                                  *)
(***************************************************************************)
StartCapture(c) == \E r \in {"on", "failed"} : capture' = [capture EXCEPT ![c] = r]

StopCapture(c) == \E r \in {"off", "failed"} : capture' = [capture EXCEPT ![c] = r]

Goes(c, pc) == thread' = [thread EXCEPT ![c] = pc]

-----------------------------------------------------------------------------
(***************************************************************************)
(* ComposingThread.                                                        *)
(***************************************************************************)
NoWord == [c \in {} |-> FALSE]

\* Writing an element of a vector<bool> loads the word and stores it.
LoadsWord(c, pc) ==
  /\ word' = [word EXCEPT ![c] = composing]
  /\ astray' = (astray \/ \E d \in Channels : thread[d] \in {"flag", "unflag"})
  /\ Goes(c, pc)
  /\ UNCHANGED <<text, media, composing, count, loaded, calls, appender>>

Begins(c) == thread[c] = "created" /\ LoadsWord(c, "flag")

Stops(c) == thread[c] = "top" /\ ~need /\ LoadsWord(c, "unflag")

StoresWord(c, from, value, pc) ==
  /\ thread[c] = from
  /\ composing' = [word[c] EXCEPT ![c] = value]
  /\ word' = [word EXCEPT ![c] = NoWord]
  /\ count' = [count EXCEPT ![c] = 0]
  /\ Goes(c, pc)
  /\ UNCHANGED <<text, media, astray, loaded, calls, appender>>

HasBegun(c) == StoresWord(c, "flag", TRUE, "top")

Ends(c) == StoresWord(c, "unflag", FALSE, "none")

\* A count of 0 stands; mTickCnt++ is a load and a store.
LoadsTick(c) ==
  /\ thread[c] = "top" /\ need
  /\ Goes(c, IF tick = 0 THEN "pause" ELSE "store")
  /\ loaded' = [loaded EXCEPT ![c] = tick]
  /\ UNCHANGED <<text, media, flags, count, calls, appender>>

\* Stores that overtake each other may drive the count beyond any bound;
\* MaxTick stands for all the values that clear the text for any channels.
MaxTick == ClearTicks * Cardinality(Channels) + 1

StoresTick(c) ==
  /\ thread[c] = "store"
  /\ tick' = IF loaded[c] < MaxTick THEN loaded[c] + 1 ELSE MaxTick
  /\ loaded' = [loaded EXCEPT ![c] = 0]
  /\ Goes(c, "test")
  /\ UNCHANGED <<rows, canvas, media, flags, count, calls, appender>>

IsOld == tick > ClearTicks * Cardinality(bound)

TestsTick(c) ==
  /\ thread[c] = "test"
  /\ Goes(c, IF IsOld THEN "stopTick" ELSE "pause")
  /\ UNCHANGED <<text, media, flags, count, loaded, calls, appender>>

\* Variant for a mutant run: the canvas is cleared before the count stops.
ClearsFirst(c) ==
  \/ /\ thread[c] = "stopTick"
     /\ canvas' = FALSE
     /\ Goes(c, "clear")
     /\ UNCHANGED <<tick, rows, media, flags, count, loaded, calls, appender>>
  \/ /\ thread[c] = "clear"
     /\ tick' = 0
     /\ Goes(c, "forget")
     /\ UNCHANGED <<rows, canvas, media, flags, count, loaded, calls, appender>>

\* The count stops before the canvas is cleared: text drawn in between is
\* cleared with the rest, text drawn later starts the count again.
Clears(c) ==
  \/ /\ thread[c] = "stopTick"
     /\ tick' = 0
     /\ Goes(c, "clear")
     /\ UNCHANGED <<rows, canvas, media, flags, count, loaded, calls, appender>>
  \/ /\ thread[c] = "clear"
     /\ canvas' = FALSE
     /\ Goes(c, "forget")
     /\ UNCHANGED <<tick, rows, media, flags, count, loaded, calls, appender>>

Forgets(c) ==
  /\ thread[c] = "forget"
  /\ rows' = FALSE
  /\ Goes(c, "pause")
  /\ UNCHANGED <<tick, canvas, media, flags, count, loaded, calls, appender>>

TestsPause(c) ==
  /\ thread[c] = "pause"
  /\ Goes(c, IF paused[c] THEN "top" ELSE "get")
  /\ UNCHANGED <<text, media, flags, count, loaded, calls, appender>>

(***************************************************************************)
(* GetViChnFrame.  A failure is counted, and the one that makes Failures   *)
(* in a row restarts the capture, the later ones no more.                  *)
(***************************************************************************)
GetFails(c) ==
  /\ thread[c] = "get"
  /\ count' = [count EXCEPT ![c] = IF @ = Failures THEN @ ELSE @ + 1]
  /\ IF count[c] + 1 = Failures
       THEN StopCapture(c) /\ Goes(c, "restart")
       ELSE UNCHANGED capture /\ Goes(c, "top")
  /\ UNCHANGED <<text, taken, flags, loaded, calls, appender>>

\* Variant for a mutant run: the capture is not started again.
RestartsNothing(c) == UNCHANGED capture

Restarts(c) == StartCapture(c)

RecoveryStarts(c) ==
  /\ thread[c] = "restart"
  /\ Restarts(c)
  /\ Goes(c, "top")
  /\ UNCHANGED <<text, taken, flags, count, loaded, calls, appender>>

Loses(c) ==
  /\ SumFunction(lost) < MaxLost
  /\ lost' = [lost EXCEPT ![c] = @ + 1]

\* A frame of size zero is dropped without being given back.
GetsFrame(c) ==
  /\ thread[c] = "get" /\ capture[c] # "off"
  /\ frames' = [frames EXCEPT ![c] = @ + 1]
  /\ count' = [count EXCEPT ![c] = 0]
  /\ \/ Goes(c, "frame") /\ UNCHANGED lost
     \/ Goes(c, "top") /\ Loses(c)
  /\ UNCHANGED <<text, capture, flags, loaded, calls, appender>>

\* FreeViChnFrame, whose failure is printed at most.
GivesBack(c) ==
  /\ \/ frames' = [frames EXCEPT ![c] = @ - 1] /\ UNCHANGED lost
     \/ UNCHANGED frames /\ Loses(c)
  /\ Goes(c, "top")

\* The canvas does not fit, or VgsBeginJob fails.
Skipped(c) == GivesBack(c)

\* Variant for a mutant run: the frame is given back again after the job.
GivesBackTwice(c) ==
  frames' = [frames EXCEPT ![c] = @ - 2] /\ UNCHANGED lost /\ Goes(c, "top")

\* VgsEndJob succeeds, or fails and the job is cancelled.
Composed(c) == GivesBack(c)

HandlesFrame(c) ==
  /\ thread[c] = "frame"
  /\ Skipped(c) \/ Composed(c)
  /\ UNCHANGED <<text, capture, flags, count, loaded, calls, appender>>

-----------------------------------------------------------------------------
(***************************************************************************)
(* The appender: Append and its Update, which clears first after scrolling.*)
(***************************************************************************)
Appends ==
  /\ appender = "idle"
  /\ control \in {"idle", "pausing", "restoring"}
  /\ rows' = TRUE
  /\ appender' = "draw"
  /\ UNCHANGED <<tick, canvas, media, threads, calls>>

Draws ==
  /\ appender = "draw"
  /\ canvas' \in {rows, canvas \/ rows}
  /\ appender' = "tick"
  /\ UNCHANGED <<tick, rows, media, threads, calls>>

StartsTick ==
  /\ appender = "tick"
  /\ tick' = 1
  /\ appender' = "idle"
  /\ UNCHANGED <<rows, canvas, media, threads, calls>>

-----------------------------------------------------------------------------
(***************************************************************************)
(* The control thread: PauseOsd and RestoreOsd, of bound channels only.    *)
(***************************************************************************)
Pause(c) ==
  /\ control = "idle" /\ c \in bound /\ ~paused[c]
  /\ paused' = [paused EXCEPT ![c] = TRUE]
  /\ control' = "pausing" /\ chn' = c
  /\ UNCHANGED <<bound, need, text, media, threads, appender>>

PauseStops ==
  /\ control = "pausing"
  /\ StopCapture(chn)
  /\ control' = "idle" /\ chn' = NoChannel
  /\ UNCHANGED <<bound, need, paused, text, taken, threads, appender>>

Restore(c) ==
  /\ control = "idle" /\ c \in bound /\ paused[c]
  /\ StartCapture(c)
  /\ control' = "restoring" /\ chn' = c
  /\ UNCHANGED <<bound, need, paused, text, taken, threads, appender>>

RestoreEnds ==
  /\ control = "restoring"
  /\ paused' = [paused EXCEPT ![chn] = FALSE]
  /\ control' = "idle" /\ chn' = NoChannel
  /\ UNCHANGED <<bound, need, text, media, threads, appender>>

(***************************************************************************)
(* Config, which has stopped the callbacks before.  StopComposing waits    *)
(* for the flags; nothing tells it of a thread that has not set its own.   *)
(***************************************************************************)
StopComposing ==
  /\ control = "idle" /\ appender = "idle"
  /\ need' = FALSE
  /\ astray' = (astray \/ \E c \in Channels : thread[c] \in {"created", "flag"})
  /\ control' = "waiting"
  /\ UNCHANGED <<bound, paused, chn, text, media, composing, thread, count, word, loaded,
                 appender>>

\* Variant for a mutant run: only one of the channels is waited for.
SomeStopped == \E c \in Channels : ~composing[c]

AllStopped == \A c \in Channels : ~composing[c]

StopComposingEnds ==
  /\ control = "waiting"
  /\ AllStopped
  /\ \E down \in [bound -> {"off", "failed"}] :
       capture' = [c \in Channels |-> IF c \in bound THEN down[c] ELSE capture[c]]
  /\ control' = "stopped"
  /\ UNCHANGED <<bound, need, paused, chn, text, taken, threads, appender>>

\* The configuration changes, and there is a new canvas.
Resize(new) ==
  /\ control = "stopped"
  /\ bound' = new
  /\ canvas' = FALSE
  /\ control' = "resized"
  /\ UNCHANGED <<need, paused, chn, tick, rows, media, threads, appender>>

Created == {c \in Channels : thread[c] # "none"}

\* The captures are started, up to four times each, whether or not their
\* channels are paused; then the threads are created, one by one.  What a
\* thread left behind does once its ComposingPara is resized away is undefined
\* and not followed: here it ends before.
StartComposing ==
  /\ control = "resized"
  /\ Created = {}
  /\ need' = TRUE
  /\ \E up \in [bound -> {"on", "failed"}] :
       capture' = [c \in Channels |-> IF c \in bound THEN up[c] ELSE capture[c]]
  /\ astray' = FALSE
  /\ control' = "starting"
  /\ UNCHANGED <<bound, paused, chn, text, taken, composing, thread, count, word, loaded,
                 appender>>

CreateThread(c) ==
  /\ control = "starting"
  /\ c \in bound \ Created
  /\ Goes(c, "created")
  /\ control' = IF bound \subseteq Created \cup {c} THEN "idle" ELSE control
  /\ UNCHANGED <<bound, need, paused, chn, text, media, flags, count, loaded,
                 appender>>

StartsNoThread ==
  /\ control = "starting" /\ bound = {}
  /\ control' = "idle"
  /\ UNCHANGED <<bound, need, paused, chn, text, media, threads, appender>>

-----------------------------------------------------------------------------
\* The constructor has resized, and is about to call StartComposing.
Init ==
  /\ bound \in SUBSET Channels
  /\ need = TRUE
  /\ composing = [c \in Channels |-> FALSE] /\ paused = [c \in Channels |-> FALSE]
  /\ tick = 0 /\ rows = FALSE /\ canvas = FALSE
  /\ capture = [c \in Channels |-> "off"] /\ frames = [c \in Channels |-> 0]
  /\ lost = [c \in Channels |-> 0] /\ astray = FALSE
  /\ thread = [c \in Channels |-> "none"]
  /\ word = [c \in Channels |-> NoWord]
  /\ count = [c \in Channels |-> 0] /\ loaded = [c \in Channels |-> 0]
  /\ appender = "idle"
  /\ control = "resized" /\ chn = NoChannel

Thread(c) ==
  \/ Begins(c) \/ HasBegun(c) \/ Stops(c) \/ Ends(c)
  \/ LoadsTick(c) \/ StoresTick(c) \/ TestsTick(c)
  \/ Clears(c) \/ Forgets(c) \/ TestsPause(c)
  \/ GetFails(c) \/ RecoveryStarts(c)
  \/ GetsFrame(c) \/ HandlesFrame(c)

Appender == Appends \/ Draws \/ StartsTick

Control ==
  \/ \E c \in Channels : Pause(c) \/ Restore(c) \/ CreateThread(c)
  \/ PauseStops \/ RestoreEnds \/ StopComposing \/ StopComposingEnds
  \/ (\E new \in SUBSET Channels : Resize(new)) \/ StartComposing \/ StartsNoThread

Next == (\E c \in Channels : Thread(c)) \/ Appender \/ Control

Spec == Init /\ [][Next]_vars

-----------------------------------------------------------------------------
(***************************************************************************)
(* Properties.                                                             *)
(***************************************************************************)

\* Every variable has its type.
TypeOK ==
  /\ bound \subseteq Channels /\ chn \in Channels \cup {NoChannel}
  /\ {need, rows, canvas, astray} \subseteq BOOLEAN
  /\ {composing, paused} \subseteq [Channels -> BOOLEAN]
  /\ tick \in 0..MaxTick /\ loaded \in [Channels -> 0..MaxTick]
  /\ capture \in [Channels -> {"on", "off", "failed"}]
  /\ frames \in [Channels -> Nat] /\ lost \in [Channels -> Nat]
  /\ word \in [Channels -> [Channels -> BOOLEAN] \cup {NoWord}]
  /\ thread \in [Channels -> {"none", "created", "flag", "unflag", "top",
                              "store", "test", "stopTick", "clear", "forget", "pause", "get", "restart", "frame"}]
  /\ count \in [Channels -> 0..Failures]
  /\ appender \in {"idle", "draw", "tick"}
  /\ control \in {"idle", "pausing", "restoring", "waiting", "stopped", "resized", "starting"}

\* When StopComposing has returned, no thread is left and each channel that
\* was bound has been stopped after its last start, whatever the recoveries
\* and pauses were doing when it was called: unless two threads wrote their
\* flags at the same time, or one had not begun to.  Of the frames of a thread
\* that has ended, those are left that were empty or could not be given back.
StoppedClean ==
  /\ control \in {"stopped", "resized"} /\ ~astray => \A c \in Channels : thread[c] = "none"
  /\ control = "stopped" /\ ~astray => \A c \in bound : capture[c] # "on"
  /\ \A c \in Channels : thread[c] = "none" => frames[c] = lost[c]

\* A channel that is not paused is captured, or its last start or stop failed:
\* no order of pauses, restores, recoveries and reconfigurations leaves it
\* switched off.
RunningIsCaptured ==
  control = "idle" =>
    \A c \in bound : paused[c] \/ thread[c] = "restart" \/ capture[c] # "off"

\* Text on the canvas is counted or about to be cleared, even with all
\* channels paused: no order of the threads' and the appender's accesses to
\* mTickCnt switches the count off and leaves text on the video for good.
TextIsCounted ==
  canvas /\ appender # "tick" =>
    tick # 0 \/ \E c \in Channels : thread[c] = "clear"
=============================================================================
