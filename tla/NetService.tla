------------------------------ MODULE NetService ------------------------------
(***************************************************************************)
(* ho::net_service: a queue of handlers and the one thread that runs them, *)
(* with async_call, sync_call and the shutdown done by its destructor, and *)
(* ho::event, which sync_call waits on (the pthread build).                *)
(*                                                                         *)
(* The event of a sync_call lives on the stack of its caller: it exists    *)
(* from the call to the return, and the service thread must not touch it   *)
(* outside that span.  The event's steps are those between two lock        *)
(* operations; a pthread_cond_wait may wake up spuriously.                 *)
(*                                                                         *)
(* The handlers are those of src/: an asynchronous one may start a network *)
(* operation that stays outstanding (pos_net::start) and a synchronous one *)
(* may end it (pos_net::stop).  None of them makes a sync_call itself.     *)
(* instance() creates the service at its first use: the model starts when  *)
(* that is done.                                                           *)
(***************************************************************************)
EXTENDS Naturals, Sequences

CONSTANTS Callers,   \* the threads that use the service
          MaxCalls   \* bound: the number of calls a caller makes

ASSUME MaxCallsAssumption == MaxCalls \in Nat

VARIABLES
  queue,      \* handlers posted and not run yet
  svc,        \* the service thread: waiting for work, or inside event::notify
  client,     \* the caller whose event notify sets, while svc # "idle"
  pc,         \* each caller: outside a call, or where it is in sync_call
  calls,      \* number of calls each caller has made
  ran,        \* number of handlers of each caller that have run
  alive,      \* the callers whose event exists
  set,        \* event::_set
  held,       \* the callers whose event's mutex is locked
  signalled,  \* the callers in pthread_cond_wait that have been signalled
  listening,  \* the callers with an outstanding network operation
  work,       \* net_service::_work exists
  phase       \* the process: "up", "closing" in the join, or "exited"

event == <<alive, set, held, signalled>>
vars  == <<queue, svc, client, pc, calls, ran, event, listening, work, phase>>

\* What a handler does to the network operation of its caller.
Effect == {"none", "open", "close"}
Handler == [caller : Callers, sync : BOOLEAN, effect : Effect]

-----------------------------------------------------------------------------
(***************************************************************************)
(* The callers.                                                            *)
(***************************************************************************)
\* Variant for a mutant run: the handler overtakes those posted before.
PostFirst(h) == <<h>> \o queue

Post(h) == Append(queue, h)

CallAllowed(c) == phase = "up" /\ pc[c] = "idle" /\ calls[c] < MaxCalls

AsyncCall(c, effect) ==
  /\ CallAllowed(c)
  /\ queue' = Post([caller |-> c, sync |-> FALSE, effect |-> effect])
  /\ calls' = [calls EXCEPT ![c] = @ + 1]
  /\ UNCHANGED <<svc, client, pc, ran, event, listening, work, phase>>

\* The event is constructed, and the handler posted.
SyncCall(c, effect) ==
  /\ CallAllowed(c)
  /\ queue' = Post([caller |-> c, sync |-> TRUE, effect |-> effect])
  /\ calls' = [calls EXCEPT ![c] = @ + 1]
  /\ pc' = [pc EXCEPT ![c] = "lock"]
  /\ alive' = alive \cup {c}
  /\ set' = [set EXCEPT ![c] = FALSE]
  /\ UNCHANGED <<svc, client, ran, held, signalled, listening, work, phase>>

\* event::wait takes the mutex, first or when it returns from the wait.
Lock(c) ==
  /\ pc[c] = "lock"
  /\ c \notin held
  /\ held' = held \cup {c}
  /\ pc' = [pc EXCEPT ![c] = "test"]
  /\ UNCHANGED <<queue, svc, client, calls, ran, alive, set, signalled,
                 listening, work, phase>>

\* while (!_set): wait, which unlocks the mutex, or reset the event and
\* unlock the mutex.
Test(c) ==
  /\ pc[c] = "test"
  /\ pc' = [pc EXCEPT ![c] = IF set[c] THEN "return" ELSE "wait"]
  /\ set' = [set EXCEPT ![c] = FALSE]
  /\ held' = held \ {c}
  /\ UNCHANGED <<queue, svc, client, calls, ran, alive, signalled, listening,
                 work, phase>>

Wake(c) ==
  /\ pc[c] = "wait"
  /\ pc' = [pc EXCEPT ![c] = "lock"]
  /\ signalled' = signalled \ {c}
  /\ UNCHANGED <<queue, svc, client, calls, ran, alive, set, held, listening,
                 work, phase>>

WakeSignalled(c) == c \in signalled /\ Wake(c)

WakeSpurious(c) == c \notin signalled /\ Wake(c)

\* sync_call returns and destroys its event.
Return(c) ==
  /\ pc[c] = "return"
  /\ pc' = [pc EXCEPT ![c] = "idle"]
  /\ alive' = alive \ {c}
  /\ UNCHANGED <<queue, svc, client, calls, ran, set, held, signalled,
                 listening, work, phase>>

-----------------------------------------------------------------------------
(***************************************************************************)
(* The service thread.                                                     *)
(***************************************************************************)
Effected(h) ==
  CASE h.effect = "open"  -> listening \cup {h.caller}
    [] h.effect = "close" -> listening \ {h.caller}
    [] OTHER              -> listening

\* Variant for a mutant run: notify sets the event before it takes the lock.
SetEarly(h) == IF h.sync THEN [set EXCEPT ![h.caller] = TRUE] ELSE set

\* Running a handler leaves the events alone: notify sets one afterwards.
SetWhenRun(h) == set

\* io_service::run removes the handler it runs.
QueueRest == Tail(queue)

\* A handler runs; a sync_handler goes on to notify its caller.
Run ==
  /\ svc = "idle"
  /\ queue # <<>>
  /\ LET h == Head(queue) IN
       /\ queue' = QueueRest
       /\ ran' = [ran EXCEPT ![h.caller] = @ + 1]
       /\ listening' = Effected(h)
       /\ set' = SetWhenRun(h)
       /\ svc' = IF h.sync THEN "notify" ELSE "idle"
       /\ client' = h.caller
  /\ UNCHANGED <<pc, calls, alive, held, signalled, work, phase>>

\* Variant for a mutant run: the condition is not signalled.
NotSignalled == signalled

\* pthread_cond_signal reaches the caller if it is in the wait.
Signalled ==
  IF pc[client] = "wait" THEN signalled \cup {client} ELSE signalled

\* event::notify, with the mutex taken.
Notify ==
  /\ svc = "notify"
  /\ client \notin held
  /\ held' = held \cup {client}
  /\ set' = [set EXCEPT ![client] = TRUE]
  /\ signalled' = Signalled
  /\ svc' = "unlock"
  /\ UNCHANGED <<queue, client, pc, calls, ran, alive, listening, work, phase>>

Unlock ==
  /\ svc = "unlock"
  /\ held' = held \ {client}
  /\ svc' = "idle"
  /\ UNCHANGED <<queue, client, pc, calls, ran, alive, set, signalled,
                 listening, work, phase>>

-----------------------------------------------------------------------------
(***************************************************************************)
(* Shutdown: ~net_service deletes the work object and joins the thread,    *)
(* which ends when nothing is queued and no operation is outstanding.      *)
(***************************************************************************)
\* Variant for a mutant run: the work object is not deleted.
WorkKept == TRUE

WorkAfterClose == FALSE

Close ==
  /\ phase = "up"
  /\ \A c \in Callers : pc[c] = "idle"
  /\ phase' = "closing"
  /\ work' = WorkAfterClose
  /\ UNCHANGED <<queue, svc, client, pc, calls, ran, event, listening>>

ThreadMayEnd == ~work /\ queue = <<>> /\ listening = {}

Exit ==
  /\ phase = "closing"
  /\ svc = "idle"
  /\ ThreadMayEnd
  /\ phase' = "exited"
  /\ UNCHANGED <<queue, svc, client, pc, calls, ran, event, listening, work>>

-----------------------------------------------------------------------------
Init ==
  /\ queue = <<>>
  /\ svc = "idle"
  /\ client \in Callers
  /\ pc = [c \in Callers |-> "idle"]
  /\ calls = [c \in Callers |-> 0]
  /\ ran = [c \in Callers |-> 0]
  /\ alive = {}
  /\ set = [c \in Callers |-> FALSE]
  /\ held = {}
  /\ signalled = {}
  /\ listening = {}
  /\ work = TRUE
  /\ phase = "up"

Caller(c) ==
  \/ \E effect \in {"none", "open"} : AsyncCall(c, effect)
  \/ \E effect \in {"none", "close"} : SyncCall(c, effect)
  \/ Lock(c) \/ Test(c) \/ WakeSignalled(c) \/ WakeSpurious(c) \/ Return(c)

Service == Run \/ Notify \/ Unlock

Next == Service \/ Close \/ Exit \/ \E c \in Callers : Caller(c)

\* The threads are scheduled.  A caller that keeps waking up spuriously
\* takes the mutex again and again; it does not starve notify of it.
\* Nobody has to make a call, to shut down, or to wake up spuriously.
Fairness ==
  /\ WF_vars(Run) /\ SF_vars(Notify) /\ WF_vars(Unlock) /\ WF_vars(Exit)
  /\ \A c \in Callers : /\ WF_vars(Lock(c)) /\ WF_vars(Test(c))
                        /\ WF_vars(WakeSignalled(c)) /\ WF_vars(Return(c))

Spec == Init /\ [][Next]_vars /\ Fairness

-----------------------------------------------------------------------------
(***************************************************************************)
(* Properties.                                                             *)
(***************************************************************************)

\* Every variable has its type, and no more handlers run than were posted.
TypeOK ==
  /\ queue \in Seq(Handler)
  /\ svc \in {"idle", "notify", "unlock"}
  /\ client \in Callers
  /\ pc \in [Callers -> {"idle", "lock", "test", "wait", "return"}]
  /\ calls \in [Callers -> 0..MaxCalls]
  /\ ran \in [Callers -> 0..MaxCalls]
  /\ alive \subseteq Callers
  /\ set \in [Callers -> BOOLEAN]
  /\ held \subseteq Callers
  /\ signalled \subseteq Callers
  /\ listening \subseteq Callers
  /\ work \in BOOLEAN
  /\ phase \in {"up", "closing", "exited"}

\* When sync_call returns, its handler and every handler the same caller
\* posted before it have run to their end: pos_net::stop relies on it to
\* free the device, pos_db::config to leave the database closed.  When the
\* destructor returns, every handler that was posted has run.
SyncIsBarrier ==
  \A c \in Callers : pc[c] = "return" \/ phase = "exited" => ran[c] = calls[c]

\* The service thread touches an event only while the sync_call that owns
\* it has not returned: notify sets the event and signals it under the
\* mutex that wait needs to return (net_driver.h 211-232).
EventOutlivesNotify == svc # "idle" => client \in alive

\* Every sync_call returns.
SyncReturns == \A c \in Callers : pc[c] # "idle" ~> pc[c] = "idle"

\* The destructor returns, unless a server that nobody stopped keeps its
\* network operation outstanding.
CloseEnds == phase = "closing" ~> phase = "exited" \/ listening # {}
=============================================================================
