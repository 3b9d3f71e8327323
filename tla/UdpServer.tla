------------------------------ MODULE UdpServer ------------------------------
(***************************************************************************)
(* The UDP server of pos_net (udp_server) on its service thread, and the   *)
(* POSDevice that starts and stops it.  One object, one socket: the        *)
(* receive is restarted by its own completion, and the deletion is posted  *)
(* behind the last completion.  The received bytes are counted, because a  *)
(* receive without room completes at once, for ever; what they mean is the *)
(* subject of ReceiptStream.  On a line with a converter on_data replaces  *)
(* the count by the length of the converted text, of up to c_max_line + 1. *)
(***************************************************************************)
EXTENDS Integers, Sequences, FiniteSets

CONSTANTS Servers,    \* the blocks a udp_server may be allocated in
          NoServer,   \* the null udp_server pointer
          MaxLine     \* c_max_line, the size of the receive buffer

ASSUME NullAssumption == NoServer \notin Servers
ASSUME MaxLineAssumption == MaxLine \in Nat \ {0}

VARIABLES
  queue,        \* handlers posted to the service and not run yet
  liveServers,  \* allocated udp_server objects
  dead,         \* udp_server::_dead
  converts,     \* the line has a converter: server_base::m_cd is open
  recvLen,      \* udp_server::_recv_len
  reading,      \* TRUE while async_receive_from is outstanding
  servId,       \* POSDevice::m_pServId
  caller,       \* the thread that owns the device: "idle" or inside stop
  notified,     \* the event of the sync_call in progress is set
  callback      \* the server whose callback the last step ran, or NoServer

objects == <<liveServers, dead, converts, recvLen, reading>>
vars    == <<queue, objects, servId, caller, notified, callback>>

-----------------------------------------------------------------------------
(***************************************************************************)
(* Handlers.  size is the number of bytes a receive returned, 0 for an     *)
(* error or an empty datagram, which on_recv treats alike.                 *)
(***************************************************************************)
Handler == [op : {"start", "stop", "delete"}, srv : Servers, size : {0}]
           \cup [op : {"recv"}, srv : Servers, size : 0..MaxLine]

H(op, v, n) == [op |-> op, srv |-> v, size |-> n]

\* Variant for a mutant run: the deletion is posted before the close.
StopPostsDeleteFirst(v) ==
  IF dead[v]
    THEN <<>>
    ELSE <<H("delete", v, 0)>> \o (IF reading[v] THEN <<H("recv", v, 0)>> ELSE <<>>)

\* udp_server::stop: closing the socket completes an outstanding receive
\* with an error, then the deletion is posted.
StopPosts(v) ==
  IF dead[v]
    THEN <<>>
    ELSE (IF reading[v] THEN <<H("recv", v, 0)>> ELSE <<>>) \o <<H("delete", v, 0)>>

\* The service thread takes handler h off the queue; h posts hs.
Runs(h, hs) ==
  /\ queue # <<>>
  /\ Head(queue) = h
  /\ queue' = Tail(queue) \o hs

-----------------------------------------------------------------------------
(***************************************************************************)
(* The handlers.  udp_server::start on a closed socket completes at once   *)
(* with an error.                                                          *)
(***************************************************************************)
ReceivePosts(v) == IF dead[v] THEN <<H("recv", v, 0)>> ELSE <<>>

Receive(v) == reading' = [reading EXCEPT ![v] = ~dead[v]]

RunStart(v) ==
  /\ Runs(H("start", v, 0), ReceivePosts(v))
  /\ Receive(v)
  /\ callback' = NoServer
  /\ UNCHANGED <<liveServers, dead, converts, recvLen, servId, caller, notified>>

\* Variant for a mutant run: on_recv without its test of _dead.
IgnoresNothing(v) == FALSE

Ignores(v) == dead[v]

RunRecvDead(v, n) ==
  /\ Ignores(v)
  /\ Runs(H("recv", v, n), <<>>)
  /\ callback' = NoServer
  /\ UNCHANGED <<objects, servId, caller, notified>>

\* Variant for a mutant run: an error ends the receive loop.
RunRecvNothingGivesUp(v) ==
  /\ ~Ignores(v)
  /\ Runs(H("recv", v, 0), <<>>)
  /\ callback' = NoServer
  /\ UNCHANGED <<objects, servId, caller, notified>>

RunRecvNothing(v) ==
  /\ ~Ignores(v)
  /\ Runs(H("recv", v, 0), ReceivePosts(v))
  /\ Receive(v)
  /\ callback' = NoServer
  /\ UNCHANGED <<liveServers, dead, converts, recvLen, servId, caller, notified>>

\* What on_data may leave of its text: at most the bytes received, or, when
\* they were converted, the whole converted text, which m_cvt_buf bounds.
Rests(v, n) == 0..(IF converts[v] THEN MaxLine + 1 ELSE recvLen[v] + n)

\* What is kept of the rest bytes that on_data leaves: none of a full buffer.
\* A converted text of MaxLine + 1 bytes escapes the test, which is by =.
Kept(rest) == IF rest = MaxLine THEN 0 ELSE rest

\* on_data runs the callback or not (called) and leaves rest bytes.
RunRecvData(v, n, called, rest) ==
  /\ ~Ignores(v)
  /\ n > 0
  /\ Runs(H("recv", v, n), ReceivePosts(v))
  /\ recvLen' = [recvLen EXCEPT ![v] = Kept(rest)]
  /\ Receive(v)
  /\ callback' = IF called THEN v ELSE NoServer
  /\ UNCHANGED <<liveServers, dead, converts, servId, caller, notified>>

\* udp_server::stop inside the sync_handler, which then sets the event.
RunStop(v) ==
  /\ Runs(H("stop", v, 0), StopPosts(v))
  /\ dead' = [dead EXCEPT ![v] = TRUE]
  /\ reading' = [reading EXCEPT ![v] = FALSE]
  /\ notified' = TRUE
  /\ callback' = NoServer
  /\ UNCHANGED <<liveServers, converts, recvLen, servId, caller>>

RunDelete(v) ==
  /\ Runs(H("delete", v, 0), <<>>)
  /\ liveServers' = liveServers \ {v}
  /\ callback' = NoServer
  /\ UNCHANGED <<dead, converts, recvLen, reading, servId, caller, notified>>

-----------------------------------------------------------------------------
(***************************************************************************)
(* The device's owner, as in TcpServer.  converting says whether the        *)
(* server_base of the new object has opened a converter: not for UTF-8, nor *)
(* when libiconv_open fails.                                                *)
(***************************************************************************)
Start(v, converting) ==
  /\ caller = "idle"
  /\ servId = NoServer
  /\ v \in Servers \ liveServers
  /\ liveServers' = liveServers \cup {v}
  /\ dead' = [dead EXCEPT ![v] = FALSE]
  /\ converts' = [converts EXCEPT ![v] = converting]
  /\ recvLen' = [recvLen EXCEPT ![v] = 0]
  /\ reading' = [reading EXCEPT ![v] = FALSE]
  /\ queue' = Append(queue, H("start", v, 0))
  /\ servId' = v
  /\ callback' = NoServer
  /\ UNCHANGED <<caller, notified>>

StopCall ==
  /\ caller = "idle"
  /\ servId # NoServer
  /\ queue' = Append(queue, H("stop", servId, 0))
  /\ caller' = "stopping"
  /\ callback' = NoServer
  /\ UNCHANGED <<objects, servId, notified>>

\* Variant for a mutant run: stop posts its handler with async_call.
WokenAtOnce == TRUE

Woken == notified

StopReturn ==
  /\ caller = "stopping"
  /\ Woken
  /\ notified' = FALSE
  /\ servId' = NoServer
  /\ caller' = "idle"
  /\ callback' = NoServer
  /\ UNCHANGED <<queue, objects>>

\* The room that a receive is given, behind the bytes kept.
Room(v) == MaxLine - recvLen[v]

\* The network completes an outstanding receive with n bytes that fit, or
\* with none: an error or an empty datagram.  A room of -1, which recvmsg
\* takes for a huge length, always ends in an error (EINVAL).
ReceiveCompletes(v, n) ==
  /\ reading[v]
  /\ n = 0 \/ n <= Room(v)
  /\ queue' = Append(queue, H("recv", v, n))
  /\ reading' = [reading EXCEPT ![v] = FALSE]
  /\ callback' = NoServer
  /\ UNCHANGED <<liveServers, dead, converts, recvLen, servId, caller, notified>>

-----------------------------------------------------------------------------
Init ==
  /\ queue = <<>>
  /\ liveServers = {}
  /\ dead = [v \in Servers |-> FALSE]
  /\ converts = [v \in Servers |-> FALSE]
  /\ recvLen = [v \in Servers |-> 0]
  /\ reading = [v \in Servers |-> FALSE]
  /\ servId = NoServer
  /\ caller = "idle"
  /\ notified = FALSE
  /\ callback = NoServer

RunRecv(v) ==
  \/ RunRecvNothing(v)
  \/ \E n \in 0..MaxLine :
       \/ RunRecvDead(v, n)
       \/ \E called \in BOOLEAN, rest \in Rests(v, n) : RunRecvData(v, n, called, rest)

Run == \E v \in Servers : RunStart(v) \/ RunRecv(v) \/ RunStop(v) \/ RunDelete(v)

Owner ==
  \/ \E v \in Servers, converting \in BOOLEAN : Start(v, converting)
  \/ StopCall
  \/ StopReturn

Network == \E v \in Servers, n \in 0..MaxLine : ReceiveCompletes(v, n)

Next == Run \/ Owner \/ Network

\* The same fairness as TcpServer: the service thread, and a woken caller.
Spec == Init /\ [][Next]_vars /\ WF_vars(Run) /\ WF_vars(StopReturn)

-----------------------------------------------------------------------------
(***************************************************************************)
(* Properties.                                                             *)
(***************************************************************************)

\* Every variable has its type; the count of the bytes kept stays within one
\* byte behind the buffer.
TypeOK ==
  /\ queue \in Seq(Handler)
  /\ liveServers \subseteq Servers
  /\ dead \in [Servers -> BOOLEAN]
  /\ converts \in [Servers -> BOOLEAN]
  /\ recvLen \in [Servers -> 0..(MaxLine + 1)]
  /\ reading \in [Servers -> BOOLEAN]
  /\ servId \in Servers \cup {NoServer}
  /\ caller \in {"idle", "stopping"}
  /\ notified \in BOOLEAN
  /\ callback \in Servers \cup {NoServer}

\* No handler waiting to run and no outstanding receive refers to a freed
\* server (udp_server::stop posts the deletion last, pos_net.cpp 391-399).
NoUseAfterFree ==
  /\ \A i \in DOMAIN queue : queue[i].srv \in liveServers
  /\ \A v \in Servers : reading[v] => v \in liveServers

\* A server that has not been stopped never stops receiving, whatever its
\* receives return: exactly one of its start handler, a receive and a
\* completion is always there.  The receive has room, but for one case: a
\* converted text of MaxLine + 1 bytes without a separator has passed the test
\* on a full buffer (pos_net.cpp 383), and every receive behind it fails.
AlwaysReceiving ==
  \A v \in liveServers : ~dead[v] =>
    LET pending == {i \in DOMAIN queue :
                      queue[i].srv = v /\ queue[i].op \in {"start", "recv"}}
    IN /\ Cardinality(pending) + (IF reading[v] THEN 1 ELSE 0) = 1
       /\ recvLen[v] < MaxLine \/ (converts[v] /\ recvLen[v] = MaxLine + 1)

(***************************************************************************)
(* The server keeps the contract of PosServer.                             *)
(***************************************************************************)
Phase == IF servId = NoServer THEN "off"
         ELSE IF caller = "idle" THEN "on"
         ELSE IF notified THEN "quiet" ELSE "stopping"

Abstract == INSTANCE PosServer WITH phase <- Phase, calling <- callback # NoServer

\* Callbacks happen only between start and the end of stop, and every stop
\* returns.
Contract == Abstract!Spec
=============================================================================
