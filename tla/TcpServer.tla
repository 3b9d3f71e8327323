------------------------------ MODULE TcpServer ------------------------------
(***************************************************************************)
(* The TCP server of pos_net (tcp_server and tcp_server::session) on its   *)
(* service thread, and the POSDevice that starts and stops it.             *)
(*                                                                         *)
(* One service thread runs the handlers of a FIFO queue, one at a time.  A *)
(* handler touches server and session objects that other handlers delete,  *)
(* so what matters is the order in which the code posts them: every        *)
(* handler bound to an object must run before the object's deletion.       *)
(* Objects are heap blocks: an identifier is reused once it is freed.      *)
(*                                                                         *)
(* A handler runs as one step: the other threads only append to the queue. *)
(* The bytes of a read, and what on_data finds in them, are the subject of *)
(* ReceiptStream; here a read either runs the callback or not, and leaves  *)
(* the session's buffer full or not.                                       *)
(***************************************************************************)
EXTENDS Naturals, Sequences, FiniteSets

CONSTANTS Servers,    \* the blocks a tcp_server may be allocated in
          Sessions,   \* the blocks a session may be allocated in
          NoServer,   \* the null tcp_server pointer
          NoSession   \* the null session pointer

ASSUME NullAssumption == NoServer \notin Servers /\ NoSession \notin Sessions

VARIABLES
  queue,         \* handlers posted to the service and not run yet
  liveServers,   \* allocated tcp_server objects
  liveSessions,  \* allocated session objects
  dead,          \* tcp_server::_dead
  current,       \* tcp_server::_session
  accepting,     \* the session the outstanding async_accept fills, per server
  closed,        \* session::_dead
  owner,         \* session::_server
  reading,       \* TRUE while the session's async_read_some is outstanding
  servId,        \* POSDevice::m_pServId
  caller,        \* the thread that owns the device: "idle" or inside stop
  notified,      \* the event of the sync_call in progress is set
  callback       \* the server whose callback the last step ran, or NoServer

objects == <<liveServers, liveSessions, dead, current, accepting, closed,
             owner, reading>>
device  == <<servId, caller>>
vars    == <<queue, objects, device, notified, callback>>

-----------------------------------------------------------------------------
(***************************************************************************)
(* Handlers.  ok is FALSE for a completion with an error code.             *)
(***************************************************************************)
Handler ==
  [op : {"start", "stop", "delServer"}, srv : Servers, ses : {NoSession}, ok : {TRUE}]
  \cup [op : {"accept"}, srv : Servers, ses : Sessions, ok : BOOLEAN]
  \cup [op : {"recv"}, srv : {NoServer}, ses : Sessions, ok : BOOLEAN]
  \cup [op : {"delSession"}, srv : {NoServer}, ses : Sessions, ok : {TRUE}]

H(op, v, s, ok) == [op |-> op, srv |-> v, ses |-> s, ok |-> ok]

OnStart(v)         == H("start", v, NoSession, TRUE)
OnAccept(v, s, ok) == H("accept", v, s, ok)
OnRecv(s, ok)      == H("recv", NoServer, s, ok)
OnStop(v)          == H("stop", v, NoSession, TRUE)
DeleteServer(v)    == H("delServer", v, NoSession, TRUE)
DeleteSession(s)   == H("delSession", NoServer, s, TRUE)

(***************************************************************************)
(* session::stop: closing the socket completes an outstanding read with an *)
(* error, then the deletion of the session is posted.  Nothing happens for *)
(* a null pointer or a session that is dead already.                       *)
(***************************************************************************)
Stops(s) == s # NoSession /\ ~closed[s]

\* Variant for a mutant run: the deletion is never posted.
SessionStopPostsNoDelete(s) ==
  IF Stops(s) /\ reading[s] THEN <<OnRecv(s, FALSE)>> ELSE <<>>

SessionStopPosts(s) ==
  IF Stops(s)
    THEN (IF reading[s] THEN <<OnRecv(s, FALSE)>> ELSE <<>>)
         \o <<DeleteSession(s)>>
    ELSE <<>>

(***************************************************************************)
(* tcp_server::stop: closing the acceptor completes an outstanding accept  *)
(* with an error, the current session is stopped, then the deletion of the *)
(* server is posted.                                                       *)
(***************************************************************************)
\* Variant for a mutant run: the deletion is posted before the rest is closed.
ServerStopPostsDeleteFirst(v) ==
  IF dead[v]
    THEN <<>>
    ELSE <<DeleteServer(v)>>
         \o (IF accepting[v] = NoSession
               THEN <<>> ELSE <<OnAccept(v, accepting[v], FALSE)>>)
         \o SessionStopPosts(current[v])

ServerStopPosts(v) ==
  IF dead[v]
    THEN <<>>
    ELSE (IF accepting[v] = NoSession
            THEN <<>> ELSE <<OnAccept(v, accepting[v], FALSE)>>)
         \o SessionStopPosts(current[v])
         \o <<DeleteServer(v)>>

(***************************************************************************)
(* tcp_server::start: an accept for the fresh session n.  On a closed      *)
(* acceptor the accept completes at once with an error.                    *)
(***************************************************************************)
ListenPosts(v, n) == IF dead[v] THEN <<OnAccept(v, n, FALSE)>> ELSE <<>>

Listen(v, n) ==
  /\ accepting' = [accepting EXCEPT ![v] = IF dead[v] THEN @ ELSE n]
  /\ owner' = [owner EXCEPT ![n] = v]

\* The service thread takes handler h off the queue; h posts hs.
Runs(h, hs) ==
  /\ queue # <<>>
  /\ Head(queue) = h
  /\ queue' = Tail(queue) \o hs

-----------------------------------------------------------------------------
(***************************************************************************)
(* The handlers, run by the service thread.                                *)
(***************************************************************************)
RunStart(v, n) ==
  /\ Runs(OnStart(v), ListenPosts(v, n))
  /\ n \in Sessions \ liveSessions
  /\ liveSessions' = liveSessions \cup {n}
  /\ closed' = [closed EXCEPT ![n] = FALSE]
  /\ reading' = [reading EXCEPT ![n] = FALSE]
  /\ Listen(v, n)
  /\ callback' = NoServer
  /\ UNCHANGED <<liveServers, dead, current, device, notified>>

\* Variant for a mutant run: the accepted session is not deleted.
RunAcceptDeadKeeps(v, s, ok) ==
  /\ dead[v]
  /\ Runs(OnAccept(v, s, ok), <<>>)
  /\ callback' = NoServer
  /\ UNCHANGED <<objects, device, notified>>

RunAcceptDead(v, s, ok) ==
  /\ dead[v]
  /\ Runs(OnAccept(v, s, ok), <<>>)
  /\ liveSessions' = liveSessions \ {s}
  /\ callback' = NoServer
  /\ UNCHANGED <<liveServers, dead, current, accepting, closed, owner,
                 reading, device, notified>>

\* Variant for a mutant run: a failed accept ends the accept loop.
RunAcceptErrorGivesUp(v, s, n) ==
  /\ ~dead[v]
  /\ Runs(OnAccept(v, s, FALSE), <<>>)
  /\ n = s
  /\ liveSessions' = liveSessions \ {s}
  /\ callback' = NoServer
  /\ UNCHANGED <<liveServers, dead, current, accepting, closed, owner,
                 reading, device, notified>>

\* The failed session is deleted and tcp_server::start listens again.
RunAcceptError(v, s, n) ==
  /\ ~dead[v]
  /\ Runs(OnAccept(v, s, FALSE), ListenPosts(v, n))
  /\ n \in Sessions \ (liveSessions \ {s})
  /\ liveSessions' = (liveSessions \ {s}) \cup {n}
  /\ closed' = [closed EXCEPT ![n] = FALSE]
  /\ reading' = [reading EXCEPT ![n] = FALSE]
  /\ Listen(v, n)
  /\ callback' = NoServer
  /\ UNCHANGED <<liveServers, dead, current, device, notified>>

\* Variant for a mutant run: the old connection is left alone.
ReplacedNone(v) == NoSession

\* The session that a new connection to server v replaces.
Replaced(v) == current[v]

\* The new connection s replaces the current one, and the server listens
\* again.
RunAcceptOk(v, s, n) ==
  LET old == Replaced(v) IN
  /\ ~dead[v]
  /\ Runs(OnAccept(v, s, TRUE), SessionStopPosts(old) \o ListenPosts(v, n))
  /\ n \in Sessions \ liveSessions
  /\ liveSessions' = liveSessions \cup {n}
  /\ current' = [current EXCEPT ![v] = s]
  /\ closed' = [x \in Sessions |->
                  IF x = old THEN TRUE ELSE IF x = n THEN FALSE ELSE closed[x]]
  /\ reading' = [x \in Sessions |->
                  IF x \in {old, n} THEN FALSE ELSE IF x = s THEN TRUE ELSE reading[x]]
  /\ Listen(v, n)
  /\ callback' = NoServer
  /\ UNCHANGED <<liveServers, dead, device, notified>>

\* on_recv returns at once on a session that has been stopped.
Ignores(s) == closed[s]

RunRecvDead(s, ok) ==
  /\ Ignores(s)
  /\ Runs(OnRecv(s, ok), <<>>)
  /\ callback' = NoServer
  /\ UNCHANGED <<objects, device, notified>>

\* session::stop, called from the session's own on_recv: no read is
\* outstanding.
CloseSession(s) ==
  /\ closed' = [closed EXCEPT ![s] = TRUE]
  /\ current' = [current EXCEPT ![owner[s]] = NoSession]
  /\ UNCHANGED reading

RunRecvError(s) ==
  /\ ~Ignores(s)
  /\ Runs(OnRecv(s, FALSE), SessionStopPosts(s))
  /\ CloseSession(s)
  /\ callback' = NoServer
  /\ UNCHANGED <<liveServers, liveSessions, dead, accepting, owner, device, notified>>

\* on_data runs the callback or not (called), and leaves the buffer full or
\* not: a full buffer stops the session, otherwise the next read starts.
RunRecvData(s, called, full) ==
  /\ ~Ignores(s)
  /\ Runs(OnRecv(s, TRUE), IF full THEN SessionStopPosts(s) ELSE <<>>)
  /\ callback' = IF called THEN owner[s] ELSE NoServer
  /\ IF full
       THEN CloseSession(s)
       ELSE /\ reading' = [reading EXCEPT ![s] = TRUE]
            /\ UNCHANGED <<closed, current>>
  /\ UNCHANGED <<liveServers, liveSessions, dead, accepting, owner, device, notified>>

\* tcp_server::stop inside the sync_handler, which then sets the event.
RunStop(v) ==
  /\ Runs(OnStop(v), ServerStopPosts(v))
  /\ dead' = [dead EXCEPT ![v] = TRUE]
  /\ IF dead[v]
       THEN UNCHANGED <<accepting, current, closed, reading>>
       ELSE /\ accepting' = [accepting EXCEPT ![v] = NoSession]
            /\ current' = [current EXCEPT ![v] = NoSession]
            /\ closed' = [x \in Sessions |-> x = current[v] \/ closed[x]]
            /\ reading' = [x \in Sessions |-> x # current[v] /\ reading[x]]
  /\ notified' = TRUE
  /\ callback' = NoServer
  /\ UNCHANGED <<liveServers, liveSessions, owner, device>>

RunDeleteServer(v) ==
  /\ Runs(DeleteServer(v), <<>>)
  /\ liveServers' = liveServers \ {v}
  /\ callback' = NoServer
  /\ UNCHANGED <<liveSessions, dead, current, accepting, closed, owner,
                 reading, device, notified>>

RunDeleteSession(s) ==
  /\ Runs(DeleteSession(s), <<>>)
  /\ liveSessions' = liveSessions \ {s}
  /\ callback' = NoServer
  /\ UNCHANGED <<liveServers, dead, current, accepting, closed, owner,
                 reading, device, notified>>

-----------------------------------------------------------------------------
(***************************************************************************)
(* The device's owner: the constructor, Config and the destructor of       *)
(* POSDevice start a server only after the stop of the previous one has    *)
(* returned.  A start whose bind throws leaves m_pServId null: no step.    *)
(***************************************************************************)
Start(v) ==
  /\ caller = "idle"
  /\ servId = NoServer
  /\ v \in Servers \ liveServers
  /\ liveServers' = liveServers \cup {v}
  /\ dead' = [dead EXCEPT ![v] = FALSE]
  /\ current' = [current EXCEPT ![v] = NoSession]
  /\ accepting' = [accepting EXCEPT ![v] = NoSession]
  /\ queue' = Append(queue, OnStart(v))
  /\ servId' = v
  /\ callback' = NoServer
  /\ UNCHANGED <<liveSessions, closed, owner, reading, caller, notified>>

HasServer == servId # NoServer

StopCall ==
  /\ caller = "idle"
  /\ HasServer
  /\ queue' = Append(queue, OnStop(servId))
  /\ caller' = "stopping"
  /\ callback' = NoServer
  /\ UNCHANGED <<objects, servId, notified>>

\* Variant for a mutant run: stop posts its handler with async_call.
WokenAtOnce == TRUE

\* event::wait returns once the event is set, and resets it.
Woken == notified

StopReturn ==
  /\ caller = "stopping"
  /\ Woken
  /\ notified' = FALSE
  /\ servId' = NoServer
  /\ caller' = "idle"
  /\ callback' = NoServer
  /\ UNCHANGED <<queue, objects>>

-----------------------------------------------------------------------------
(***************************************************************************)
(* The network completes outstanding operations.                           *)
(***************************************************************************)
AcceptCompletes(v, ok) ==
  /\ accepting[v] # NoSession
  /\ queue' = Append(queue, OnAccept(v, accepting[v], ok))
  /\ accepting' = [accepting EXCEPT ![v] = NoSession]
  /\ callback' = NoServer
  /\ UNCHANGED <<liveServers, liveSessions, dead, current, closed, owner,
                 reading, device, notified>>

ReadCompletes(s, ok) ==
  /\ reading[s]
  /\ queue' = Append(queue, OnRecv(s, ok))
  /\ reading' = [reading EXCEPT ![s] = FALSE]
  /\ callback' = NoServer
  /\ UNCHANGED <<liveServers, liveSessions, dead, current, accepting, closed,
                 owner, device, notified>>

-----------------------------------------------------------------------------
Init ==
  /\ queue = <<>>
  /\ liveServers = {}
  /\ liveSessions = {}
  /\ dead = [v \in Servers |-> FALSE]
  /\ current = [v \in Servers |-> NoSession]
  /\ accepting = [v \in Servers |-> NoSession]
  /\ closed = [s \in Sessions |-> FALSE]
  /\ owner = [s \in Sessions |-> NoServer]
  /\ reading = [s \in Sessions |-> FALSE]
  /\ servId = NoServer
  /\ caller = "idle"
  /\ notified = FALSE
  /\ callback = NoServer

RunAccept(v, s) ==
  \/ \E ok \in BOOLEAN : RunAcceptDead(v, s, ok)
  \/ \E n \in Sessions : RunAcceptError(v, s, n) \/ RunAcceptOk(v, s, n)

RunRecv(s) ==
  \/ \E ok \in BOOLEAN : RunRecvDead(s, ok)
  \/ RunRecvError(s)
  \/ \E called, full \in BOOLEAN : RunRecvData(s, called, full)

\* io_service::run: one handler after the other.
Run ==
  \/ \E v \in Servers :
       \/ \E n \in Sessions : RunStart(v, n)
       \/ \E s \in Sessions : RunAccept(v, s)
       \/ RunStop(v)
       \/ RunDeleteServer(v)
  \/ \E s \in Sessions : RunRecv(s) \/ RunDeleteSession(s)

Owner == (\E v \in Servers : Start(v)) \/ StopCall \/ StopReturn

Network ==
  \E ok \in BOOLEAN : \/ \E v \in Servers : AcceptCompletes(v, ok)
                     \/ \E s \in Sessions : ReadCompletes(s, ok)

Next == Run \/ Owner \/ Network

\* The service thread keeps running handlers, and a caller whose event is
\* set is scheduled.  Nothing is assumed of the network or the owner.
Spec == Init /\ [][Next]_vars /\ WF_vars(Run) /\ WF_vars(StopReturn)

-----------------------------------------------------------------------------
(***************************************************************************)
(* Properties.                                                             *)
(***************************************************************************)

\* Every variable has its type; in particular only handlers bound to real
\* objects are ever posted, which the null test of pos_net::stop ensures.
TypeOK ==
  /\ queue \in Seq(Handler)
  /\ liveServers \subseteq Servers
  /\ liveSessions \subseteq Sessions
  /\ dead \in [Servers -> BOOLEAN]
  /\ current \in [Servers -> Sessions \cup {NoSession}]
  /\ accepting \in [Servers -> Sessions \cup {NoSession}]
  /\ closed \in [Sessions -> BOOLEAN]
  /\ owner \in [Sessions -> Servers \cup {NoServer}]
  /\ reading \in [Sessions -> BOOLEAN]
  /\ servId \in Servers \cup {NoServer}
  /\ caller \in {"idle", "stopping"}
  /\ notified \in BOOLEAN
  /\ callback \in Servers \cup {NoServer}

(***************************************************************************)
(* The objects a handler dereferences if it runs in this state.            *)
(***************************************************************************)
TouchedSessions(h) ==
  ({h.ses} \cup (IF h.srv \in Servers THEN {current[h.srv]} ELSE {}))
    \ {NoSession}

TouchedServers(h) ==
  IF h.op = "recv" /\ ~closed[h.ses]
    THEN {owner[h.ses]}
    ELSE {h.srv} \ {NoServer}

\* No handler waiting to run, and no outstanding network operation, refers
\* to a freed server or session: each deletion is posted behind everything
\* that still uses the object (pos_net.cpp 276-285, 331-341), and no object
\* is deleted twice.
NoUseAfterFree ==
  /\ \A i \in DOMAIN queue : /\ TouchedSessions(queue[i]) \subseteq liveSessions
                            /\ TouchedServers(queue[i]) \subseteq liveServers
  /\ \A v \in Servers : accepting[v] # NoSession =>
       v \in liveServers /\ accepting[v] \in liveSessions
  /\ \A s \in Sessions : reading[s] =>
       s \in liveSessions /\ ~closed[s] /\ owner[s] \in liveServers

IsQueued(h) == \E i \in DOMAIN queue : queue[i] = h

\* The session is waiting for a client: its accept is outstanding or its
\* completion is queued.
Unconnected(s) ==
  \/ \E v \in Servers : accepting[v] = s
  \/ \E v \in Servers, ok \in BOOLEAN : IsQueued(OnAccept(v, s, ok))

\* A server reads from one client at a time, the last one that connected:
\* a new connection closes the one before it.
OneClient ==
  \A s \in liveSessions : ~closed[s] /\ ~Unconnected(s) => current[owner[s]] = s

\* A server that has not been stopped never stops listening, whatever its
\* accepts return: its start handler, an outstanding accept or the
\* completion of one is always there, and only one of the three.  It is the
\* device's own: the port is free again when the next server binds it.
AlwaysListening ==
  \A v \in liveServers : ~dead[v] =>
    LET pending == {i \in DOMAIN queue :
                      queue[i].srv = v /\ queue[i].op \in {"start", "accept"}}
    IN /\ v = servId
       /\ Cardinality(pending) + (IF accepting[v] = NoSession THEN 0 ELSE 1) = 1

\* Only the device's own server has its port open, so that the bind of the
\* next server on the same port does not meet the previous one.
OneListener == \A v \in liveServers : ~dead[v] => v = servId

\* Nothing leaks, however clients come and go: every session waits for a
\* client, is its server's current one or has its deletion posted, and every
\* server is the device's or has its deletion posted.  So at most three
\* sessions are ever allocated, and three blocks are enough for a model.
NoLeak ==
  /\ \A s \in liveSessions :
       \/ Unconnected(s)
       \/ ~closed[s] /\ current[owner[s]] = s /\ owner[s] \in liveServers
       \/ IsQueued(DeleteSession(s))
  /\ \A v \in liveServers : v = servId \/ IsQueued(DeleteServer(v))

\* The callback is run for the device's own server only, and never once the
\* stop handler has run: what lets POSDevice's destructor free the rest.
NoLateCallback == callback # NoServer => callback = servId /\ ~notified

\* Once stop has returned every server and session is freed, unless the
\* device starts another server first.
AllFreed ==
  servId = NoServer ~> servId # NoServer \/ (liveServers = {} /\ liveSessions = {})

(***************************************************************************)
(* The server keeps the contract of PosServer.                             *)
(***************************************************************************)
Phase == IF servId = NoServer THEN "off"
         ELSE IF caller = "idle" THEN "on"
         ELSE IF notified THEN "quiet" ELSE "stopping"

Abstract == INSTANCE PosServer WITH phase <- Phase, calling <- callback # NoServer

\* Callbacks happen only between start and the end of stop, and every stop
\* returns.
Contract == Abstract!Spec
=============================================================================
