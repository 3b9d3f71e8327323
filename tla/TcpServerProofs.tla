--------------------------- MODULE TcpServerProofs ---------------------------
(***************************************************************************)
(* Proofs about TcpServer, for any sets of servers and sessions.           *)
(*                                                                         *)
(* The invariant Inv says of the queue only what holds of each handler     *)
(* (Fits) and of each two handlers in their order (Ok), so that a step     *)
(* that takes the head off the queue and appends some handlers is handled  *)
(* once and for all by the lemmas on sequences; no step of the proof for   *)
(* an action mentions a place in the queue.                                *)
(***************************************************************************)
EXTENDS TcpServer, TLAPS, SequenceTheorems, FiniteSetTheorems

-----------------------------------------------------------------------------
(***************************************************************************)
(* The inductive invariant.                                                *)
(***************************************************************************)
\* The handlers that listen, or go on listening.
Listens(h) == h.op \in {"start", "accept"}

\* What must hold of a handler a and a handler b behind it: nothing touches
\* an object behind its deletion, a session being accepted is in no other
\* handler, a session has one completion of a read, a server is started
\* before it is stopped, once, and has one handler that listens.
Ok(a, b) ==
  /\ a.op = "delServer" => b.srv # a.srv
  /\ a.op = "delSession" => b.ses # a.ses
  /\ a.op = "accept" \/ b.op = "accept" => a.ses # b.ses \/ a.ses = NoSession
  /\ a.op = "recv" /\ b.op = "recv" => a.ses # b.ses
  /\ ~(a.op = "stop" /\ b.op \in {"start", "stop"})
  /\ Listens(a) /\ Listens(b) => a.srv # b.srv

Ordered(q) == \A i, j \in 1..Len(q) : i < j => Ok(q[i], q[j])

\* What must hold of a handler that waits.
Fits(h) ==
  /\ h.srv # NoServer => h.srv \in liveServers
  /\ h.ses # NoSession => /\ h.ses \in liveSessions
                          /\ \A w \in Servers : accepting[w] # h.ses
  /\ h.op = "delServer" => dead[h.srv]
  /\ h.op = "delSession" => closed[h.ses]
  /\ h.op = "start" => ~dead[h.srv]
  /\ h.op = "stop" => h.srv = servId /\ caller = "stopping" /\ ~notified
  /\ h.op = "accept" => /\ ~closed[h.ses] /\ owner[h.ses] = h.srv
                        /\ \A w \in Servers : current[w] # h.ses
  /\ Listens(h) => accepting[h.srv] = NoSession
  /\ h.op = "recv" => /\ ~reading[h.ses]
                      /\ closed[h.ses] \/ \E w \in Servers :
                           owner[h.ses] = w /\ current[w] = h.ses

AllFit == \A h \in Handler : IsQueued(h) => Fits(h)

CurrentInv ==
  \A v \in Servers : current[v] # NoSession =>
    /\ v \in liveServers /\ ~dead[v]
    /\ current[v] \in liveSessions /\ ~closed[current[v]] /\ owner[current[v]] = v

AcceptingInv ==
  \A v \in Servers : accepting[v] # NoSession =>
    /\ v \in liveServers /\ ~dead[v]
    /\ accepting[v] \in liveSessions /\ ~closed[accepting[v]]
    /\ owner[accepting[v]] = v
    /\ \A w \in Servers : current[w] # accepting[v]

ReadingInv ==
  \A s \in Sessions : reading[s] => \E v \in Servers : owner[s] = v /\ current[v] = s

DeviceInv ==
  /\ \A v \in liveServers : ~dead[v] => v = servId
  /\ servId # NoServer /\ ~notified => servId \in liveServers /\ ~dead[servId]
  /\ notified => (servId \in liveServers => dead[servId])
  /\ caller = "idle" => ~notified
  /\ caller = "stopping" => servId # NoServer

StateInv == CurrentInv /\ AcceptingInv /\ ReadingInv /\ DeviceInv

Inv == TypeOK /\ Ordered(queue) /\ AllFit /\ StateInv

-----------------------------------------------------------------------------
(***************************************************************************)
(* Lemmas on sequences of handlers.                                        *)
(***************************************************************************)
\* Two ordered sequences make an ordered one if each handler of the first
\* may be before each of the second; and its handlers are theirs.
LEMMA ConcatOrdered ==
  ASSUME NEW q \in Seq(Handler), NEW r \in Seq(Handler),
         Ordered(q), Ordered(r),
         \A i \in 1..Len(q), j \in 1..Len(r) : Ok(q[i], r[j])
  PROVE  /\ q \o r \in Seq(Handler)
         /\ Ordered(q \o r)
         /\ \A k \in 1..Len(q \o r) : \/ \E i \in 1..Len(q) : (q \o r)[k] = q[i]
                                      \/ \E j \in 1..Len(r) : (q \o r)[k] = r[j]
<1>1. q \o r \in Seq(Handler) /\ Len(q \o r) = Len(q) + Len(r)
  OBVIOUS
<1>2. ASSUME NEW k \in 1..Len(q \o r)
      PROVE  \/ k \in 1..Len(q) /\ (q \o r)[k] = q[k]
             \/ k - Len(q) \in 1..Len(r) /\ (q \o r)[k] = r[k - Len(q)]
  BY <1>1
<1>3. Ordered(q \o r)
  <2> SUFFICES ASSUME NEW i \in 1..Len(q \o r), NEW j \in 1..Len(q \o r), i < j
               PROVE  Ok((q \o r)[i], (q \o r)[j])
    BY DEF Ordered
  <2>1. CASE j \in 1..Len(q) /\ (q \o r)[j] = q[j]
    <3>1. i \in 1..Len(q) /\ (q \o r)[i] = q[i]
      BY <1>1, <1>2, <2>1
    <3> QED BY <2>1, <3>1 DEF Ordered
  <2>2. CASE j - Len(q) \in 1..Len(r) /\ (q \o r)[j] = r[j - Len(q)]
    <3>1. CASE i \in 1..Len(q) /\ (q \o r)[i] = q[i]
      BY <2>2, <3>1
    <3>2. CASE i - Len(q) \in 1..Len(r) /\ (q \o r)[i] = r[i - Len(q)]
      BY <2>2, <3>2 DEF Ordered
    <3> QED BY <1>2, <3>1, <3>2
  <2> QED BY <1>2, <2>1, <2>2
<1> QED BY <1>1, <1>2, <1>3

\* The rest of an ordered sequence is ordered, its handlers are the others,
\* and each of them may be behind the head.
LEMMA TailOrdered ==
  ASSUME NEW q \in Seq(Handler), q # <<>>, Ordered(q)
  PROVE  /\ Tail(q) \in Seq(Handler)
         /\ Ordered(Tail(q))
         /\ \A k \in 1..Len(Tail(q)) :
              /\ \E i \in 1..Len(q) : Tail(q)[k] = q[i]
              /\ Ok(Head(q), Tail(q)[k])
<1>1. /\ Tail(q) \in Seq(Handler) /\ Len(Tail(q)) = Len(q) - 1 /\ Len(q) \in Nat \ {0}
      /\ Head(q) = q[1]
      /\ \A k \in 1..Len(Tail(q)) : Tail(q)[k] = q[k + 1]
  BY EmptySeq
<1> QED BY <1>1 DEF Ordered

\* A single handler is an ordered sequence.
LEMMA OneOrdered ==
  ASSUME NEW h \in Handler
  PROVE  <<h>> \in Seq(Handler) /\ Len(<<h>>) = 1 /\ <<h>>[1] = h /\ Ordered(<<h>>)
BY DEF Ordered

\* The empty sequence is ordered.
LEMMA NoneOrdered == <<>> \in Seq(Handler) /\ Len(<<>>) = 0 /\ Ordered(<<>>)
BY DEF Ordered

-----------------------------------------------------------------------------
(***************************************************************************)
(* Lemmas on handlers.                                                     *)
(***************************************************************************)
\* The fields of a handler, by its operation.
LEMMA HandlerFields ==
  ASSUME NEW h \in Handler
  PROVE  /\ h.srv \in Servers \cup {NoServer} /\ h.ses \in Sessions \cup {NoSession}
         /\ \/ h.op \in {"start", "stop", "delServer"} /\ h.srv \in Servers
               /\ h.ses = NoSession
            \/ h.op = "accept" /\ h.srv \in Servers /\ h.ses \in Sessions
            \/ h.op \in {"recv", "delSession"} /\ h.srv = NoServer
               /\ h.ses \in Sessions
BY DEF Handler

\* The handlers the code posts, and their fields.
LEMMA ServerHandlers ==
  ASSUME NEW v \in Servers
  PROVE  /\ OnStart(v) \in Handler /\ OnStart(v).op = "start"
         /\ OnStart(v).srv = v /\ OnStart(v).ses = NoSession
         /\ OnStop(v) \in Handler /\ OnStop(v).op = "stop"
         /\ OnStop(v).srv = v /\ OnStop(v).ses = NoSession
         /\ DeleteServer(v) \in Handler /\ DeleteServer(v).op = "delServer"
         /\ DeleteServer(v).srv = v /\ DeleteServer(v).ses = NoSession
BY DEF Handler, H, OnStart, OnStop, DeleteServer

\* The completions of an accept, and their fields.
LEMMA AcceptHandlers ==
  ASSUME NEW v \in Servers, NEW s \in Sessions, NEW ok \in BOOLEAN
  PROVE  /\ OnAccept(v, s, ok) \in Handler /\ OnAccept(v, s, ok).op = "accept"
         /\ OnAccept(v, s, ok).srv = v /\ OnAccept(v, s, ok).ses = s
BY DEF Handler, H, OnAccept

\* The handlers bound to a session, and their fields.
LEMMA SessionHandlers ==
  ASSUME NEW s \in Sessions, NEW ok \in BOOLEAN
  PROVE  /\ OnRecv(s, ok) \in Handler /\ OnRecv(s, ok).op = "recv"
         /\ OnRecv(s, ok).srv = NoServer /\ OnRecv(s, ok).ses = s
         /\ DeleteSession(s) \in Handler /\ DeleteSession(s).op = "delSession"
         /\ DeleteSession(s).srv = NoServer /\ DeleteSession(s).ses = s
BY DEF Handler, H, OnRecv, DeleteSession

-----------------------------------------------------------------------------
(***************************************************************************)
(* Lemmas on the steps of the queue.                                       *)
(***************************************************************************)
\* The handler that runs has waited.
LEMMA HeadFits ==
  ASSUME Inv, NEW h \in Handler, NEW hs, Runs(h, hs)
  PROVE  Fits(h)
<1>1. queue \in Seq(Handler) /\ queue # <<>> /\ queue[1] = h /\ 1 \in DOMAIN queue
  BY EmptySeq DEF Inv, TypeOK, Runs
<1> QED BY <1>1 DEF Inv, AllFit, IsQueued

\* When h runs and posts hs, each handler then in the queue waited behind h
\* or is one of hs.
LEMMA RunsKeeps ==
  ASSUME Inv, NEW h \in Handler, NEW hs \in Seq(Handler), Runs(h, hs), Ordered(hs),
         \A t \in Handler : Fits(t) /\ Ok(h, t) => \A j \in 1..Len(hs) : Ok(t, hs[j])
  PROVE  /\ queue' \in Seq(Handler)
         /\ Ordered(queue')
         /\ \A t \in Handler : IsQueued(t)' =>
              \/ Fits(t) /\ Ok(h, t)
              \/ \E j \in 1..Len(hs) : t = hs[j]
<1>1. queue \in Seq(Handler) /\ queue # <<>> /\ Head(queue) = h /\ Ordered(queue)
      /\ queue' = Tail(queue) \o hs
  BY DEF Inv, TypeOK, Runs
<1>2. /\ Tail(queue) \in Seq(Handler) /\ Ordered(Tail(queue))
      /\ \A k \in 1..Len(Tail(queue)) : /\ \E i \in 1..Len(queue) : Tail(queue)[k] = queue[i]
                                        /\ Ok(h, Tail(queue)[k])
  BY <1>1, TailOrdered
<1>3. \A k \in 1..Len(Tail(queue)) :
        Tail(queue)[k] \in Handler /\ Fits(Tail(queue)[k]) /\ Ok(h, Tail(queue)[k])
  <2> SUFFICES ASSUME NEW k \in 1..Len(Tail(queue))
               PROVE  Tail(queue)[k] \in Handler /\ Fits(Tail(queue)[k])
    BY <1>2
  <2>1. PICK i \in 1..Len(queue) : Tail(queue)[k] = queue[i]
    BY <1>2
  <2>2. queue[i] \in Handler /\ IsQueued(queue[i])
    BY <1>1 DEF IsQueued
  <2> QED BY <2>1, <2>2 DEF Inv, AllFit
<1>4. \A i \in 1..Len(Tail(queue)), j \in 1..Len(hs) : Ok(Tail(queue)[i], hs[j])
  BY <1>3
<1>5. /\ queue' \in Seq(Handler)
      /\ Ordered(queue')
      /\ \A k \in 1..Len(queue') :
           \/ \E i \in 1..Len(Tail(queue)) : queue'[k] = Tail(queue)[i]
           \/ \E j \in 1..Len(hs) : queue'[k] = hs[j]
  <2> DEFINE q == Tail(queue)
  <2>1. q \in Seq(Handler) /\ Ordered(q)
        /\ \A i \in 1..Len(q), j \in 1..Len(hs) : Ok(q[i], hs[j])
    BY <1>2, <1>4
  <2>2. queue' = q \o hs
    BY <1>1
  <2> HIDE DEF q
  <2>3. /\ q \o hs \in Seq(Handler)
        /\ Ordered(q \o hs)
        /\ \A k \in 1..Len(q \o hs) : \/ \E i \in 1..Len(q) : (q \o hs)[k] = q[i]
                                      \/ \E j \in 1..Len(hs) : (q \o hs)[k] = hs[j]
    BY <2>1, ConcatOrdered
  <2> QED BY <2>2, <2>3 DEF q
<1>6. ASSUME NEW t \in Handler, IsQueued(t)'
      PROVE  \/ Fits(t) /\ Ok(h, t)
             \/ \E j \in 1..Len(hs) : t = hs[j]
  <2>1. PICK k \in DOMAIN queue' : queue'[k] = t
    BY <1>6 DEF IsQueued
  <2>2. k \in 1..Len(queue')
    BY <1>5
  <2> QED BY <1>3, <1>5, <2>1, <2>2
<1> QED BY <1>5, <1>6

\* When a thread posts h, h may be behind every handler that waits.
LEMMA PostKeeps ==
  ASSUME Inv, NEW h \in Handler, queue' = Append(queue, h),
         \A t \in Handler : Fits(t) => Ok(t, h)
  PROVE  /\ queue' \in Seq(Handler)
         /\ Ordered(queue')
         /\ \A t \in Handler : IsQueued(t)' => Fits(t) \/ t = h
<1>1. queue \in Seq(Handler) /\ Ordered(queue)
  BY DEF Inv, TypeOK
<1>2. /\ queue' \in Seq(Handler) /\ Len(queue') = Len(queue) + 1
      /\ \A k \in 1..Len(queue) : queue'[k] = queue[k]
      /\ queue'[Len(queue) + 1] = h
  BY <1>1
<1>3. \A k \in 1..Len(queue) : queue[k] \in Handler /\ Fits(queue[k])
  BY <1>1 DEF Inv, AllFit, IsQueued
<1>4. Ordered(queue')
  BY <1>1, <1>2, <1>3 DEF Ordered
<1>5. ASSUME NEW t \in Handler, IsQueued(t)'
      PROVE  Fits(t) \/ t = h
  <2>1. PICK k \in DOMAIN queue' : queue'[k] = t
    BY <1>5 DEF IsQueued
  <2>2. k \in 1..Len(queue) \/ k = Len(queue) + 1
    BY <1>1, <1>2, <2>1
  <2> QED BY <1>2, <1>3, <2>1, <2>2
<1> QED BY <1>2, <1>4, <1>5

\* The case of a handler that posts nothing.
LEMMA RunsAlone ==
  ASSUME Inv, NEW h \in Handler, Runs(h, <<>>)
  PROVE  /\ Fits(h)
         /\ queue' \in Seq(Handler)
         /\ Ordered(queue)'
         /\ \A t \in Handler : IsQueued(t)' => Fits(t) /\ Ok(h, t)
<1>1. Fits(h)
  BY HeadFits
<1> DEFINE hs == <<>>
<1>2. hs \in Seq(Handler) /\ Len(hs) = 0 /\ Ordered(hs)
  BY NoneOrdered
<1>3. Runs(h, hs)
  OBVIOUS
<1> HIDE DEF hs
<1>4. \A j \in 1..Len(hs) : FALSE
  BY <1>2
<1>5. \A t \in Handler : Fits(t) /\ Ok(h, t) => \A j \in 1..Len(hs) : Ok(t, hs[j])
  BY <1>4
<1>6. /\ queue' \in Seq(Handler)
      /\ Ordered(queue')
      /\ \A t \in Handler : IsQueued(t)' =>
           (Fits(t) /\ Ok(h, t)) \/ \E j \in 1..Len(hs) : t = hs[j]
  BY <1>2, <1>3, <1>5, RunsKeeps
<1>7. Ordered(queue)'
  BY <1>6 DEF Ordered
<1> QED BY <1>1, <1>4, <1>6, <1>7

\* x is a handler that the stop of session s posts.
ClosesSession(s, x) ==
  /\ s \in Sessions /\ ~closed[s]
  /\ x \in Handler /\ x.srv = NoServer /\ x.ses = s
  /\ x.op = "delSession" \/ (x.op = "recv" /\ reading[s])

\* What session::stop posts: the completion of the read, then the deletion.
LEMMA SessionStopShape ==
  ASSUME NEW s \in Sessions \cup {NoSession}
  PROVE  /\ SessionStopPosts(s) \in Seq(Handler)
         /\ Ordered(SessionStopPosts(s))
         /\ \A j \in 1..Len(SessionStopPosts(s)) : ClosesSession(s, SessionStopPosts(s)[j])
<1>1. CASE ~Stops(s)
  <2>1. SessionStopPosts(s) = <<>>
    BY <1>1 DEF SessionStopPosts
  <2> QED BY <2>1, NoneOrdered
<1>2. CASE Stops(s)
  <2>1. s \in Sessions /\ ~closed[s]
    BY <1>2 DEF Stops
  <2> DEFINE r == OnRecv(s, FALSE)
             d == DeleteSession(s)
             a == <<r>>
             b == <<d>>
             q == a \o b
  <2>2. /\ r \in Handler /\ r.op = "recv" /\ r.srv = NoServer /\ r.ses = s
        /\ d \in Handler /\ d.op = "delSession" /\ d.srv = NoServer /\ d.ses = s
    BY <2>1, SessionHandlers
  <2>3. SessionStopPosts(s) = (IF reading[s] THEN a ELSE <<>>) \o b
    BY <1>2 DEF SessionStopPosts
  <2> HIDE DEF r, d
  <2>4. /\ ClosesSession(s, d)
        /\ reading[s] => ClosesSession(s, r)
        /\ Ok(r, d)
    <3>1. ClosesSession(s, d)
      BY <2>1, <2>2 DEF ClosesSession
    <3>2. ASSUME reading[s] PROVE ClosesSession(s, r)
      BY <2>1, <2>2, <3>2 DEF ClosesSession
    <3>3. Ok(r, d)
      BY <2>2 DEF Listens, Ok
    <3> QED BY <3>1, <3>2, <3>3
  <2>5. /\ a \in Seq(Handler) /\ Len(a) = 1 /\ a[1] = r /\ Ordered(a)
        /\ b \in Seq(Handler) /\ Len(b) = 1 /\ b[1] = d /\ Ordered(b)
    BY <2>2, OneOrdered
  <2> HIDE DEF a, b
  <2>6. CASE reading[s]
    <3>1. \A i \in 1..Len(a), j \in 1..Len(b) : Ok(a[i], b[j])
      BY <2>4, <2>5
    <3>2. /\ q \in Seq(Handler)
          /\ Ordered(q)
          /\ \A k \in 1..Len(q) : \/ \E i \in 1..Len(a) : q[k] = a[i]
                                 \/ \E j \in 1..Len(b) : q[k] = b[j]
      BY <2>5, <3>1, ConcatOrdered
    <3> HIDE DEF q
    <3>3. \A k \in 1..Len(q) : q[k] = r \/ q[k] = d
      BY <2>5, <3>2
    <3>4. \A k \in 1..Len(q) : ClosesSession(s, q[k])
      BY <2>4, <2>6, <3>3
    <3>5. SessionStopPosts(s) = q
      BY <2>3, <2>6 DEF q
    <3> QED BY <3>2, <3>4, <3>5
  <2>7. CASE ~reading[s]
    <3>1. SessionStopPosts(s) = b
      BY <2>3, <2>5, <2>7, ConcatEmptySeq
    <3>2. \A k \in 1..Len(b) : ClosesSession(s, b[k])
      BY <2>4, <2>5
    <3> QED BY <2>5, <3>1, <3>2
  <2> QED BY <2>6, <2>7
<1> QED BY <1>1, <1>2

\* x is a handler that the stop of server v posts.
ClosesServer(v, x) ==
  \/ x.op = "accept" /\ x.srv = v /\ x.ses = accepting[v] /\ x.ses \in Sessions
  \/ ClosesSession(current[v], x)
  \/ x.op = "delServer" /\ x.srv = v /\ x.ses = NoSession

\* What tcp_server::stop posts: the completion of the accept, what the stop
\* of the current session posts, then the deletion.
LEMMA ServerStopShape ==
  ASSUME Inv, NEW v \in Servers, ~dead[v]
  PROVE  /\ ServerStopPosts(v) \in Seq(Handler)
         /\ Ordered(ServerStopPosts(v))
         /\ \A j \in 1..Len(ServerStopPosts(v)) : ClosesServer(v, ServerStopPosts(v)[j])
<1> DEFINE a == IF accepting[v] = NoSession
                  THEN <<>> ELSE <<OnAccept(v, accepting[v], FALSE)>>
           b == SessionStopPosts(current[v])
           c == <<DeleteServer(v)>>
<1>1. ServerStopPosts(v) = (a \o b) \o c
  BY DEF ServerStopPosts
<1>2. /\ a \in Seq(Handler) /\ Ordered(a)
      /\ \A i \in 1..Len(a) : /\ a[i].op = "accept" /\ a[i].srv = v
                              /\ a[i].ses = accepting[v] /\ a[i].ses \in Sessions
  <2>1. CASE accepting[v] = NoSession
    <3>1. a = <<>>
      BY <2>1
    <3> HIDE DEF a
    <3> QED BY <3>1, NoneOrdered
  <2>2. CASE accepting[v] # NoSession
    <3> DEFINE h == OnAccept(v, accepting[v], FALSE)
    <3>1. accepting[v] \in Sessions
      BY <2>2 DEF Inv, TypeOK
    <3>2. h \in Handler /\ h.op = "accept" /\ h.srv = v /\ h.ses = accepting[v]
      BY <3>1, AcceptHandlers
    <3>3. a = <<h>>
      BY <2>2
    <3> HIDE DEF a, h
    <3> QED BY <3>1, <3>2, <3>3, OneOrdered
  <2> QED BY <2>1, <2>2
<1>3. current[v] \in Sessions \cup {NoSession}
  BY DEF Inv, TypeOK
<1>4. /\ b \in Seq(Handler) /\ Ordered(b)
      /\ \A i \in 1..Len(b) : ClosesSession(current[v], b[i])
  BY <1>3, SessionStopShape
<1>5. /\ c \in Seq(Handler) /\ Ordered(c)
      /\ \A i \in 1..Len(c) : c[i].op = "delServer" /\ c[i].srv = v /\ c[i].ses = NoSession
  <2> DEFINE h == DeleteServer(v)
  <2>1. h \in Handler /\ h.op = "delServer" /\ h.srv = v /\ h.ses = NoSession
    BY ServerHandlers
  <2> HIDE DEF h
  <2>2. c = <<h>>
    BY DEF h
  <2> HIDE DEF c
  <2> QED BY <2>1, <2>2, OneOrdered
<1> HIDE DEF a, b, c
<1> DEFINE ab == a \o b
<1>6. \A i \in 1..Len(a), j \in 1..Len(b) : Ok(a[i], b[j])
  <2> SUFFICES ASSUME NEW i \in 1..Len(a), NEW j \in 1..Len(b)
               PROVE  Ok(a[i], b[j])
    OBVIOUS
  <2>1. b[j].ses = current[v] /\ b[j].ses \in Sessions /\ accepting[v] # current[v]
        /\ b[j].op \in {"recv", "delSession"}
    BY <1>2, <1>4, NullAssumption DEF ClosesSession, Inv, StateInv, AcceptingInv
  <2> QED BY <1>2, <2>1, NullAssumption DEF Listens, Ok
<1>7. /\ ab \in Seq(Handler)
      /\ Ordered(ab)
      /\ \A k \in 1..Len(ab) : \/ \E i \in 1..Len(a) : ab[k] = a[i]
                              \/ \E j \in 1..Len(b) : ab[k] = b[j]
  BY <1>2, <1>4, <1>6, ConcatOrdered
<1> HIDE DEF ab
<1>8. \A i \in 1..Len(ab), j \in 1..Len(c) : Ok(ab[i], c[j])
  <2> SUFFICES ASSUME NEW i \in 1..Len(ab), NEW j \in 1..Len(c)
               PROVE  Ok(ab[i], c[j])
    OBVIOUS
  <2> DEFINE g == ab[i]
  <2>1. ASSUME NEW k \in 1..Len(a), g = a[k]
        PROVE  g.op \in {"accept", "delSession", "recv"} /\ g.ses \in Sessions
    BY <1>2, <2>1
  <2>2. ASSUME NEW k \in 1..Len(b), g = b[k]
        PROVE  g.op \in {"accept", "delSession", "recv"} /\ g.ses \in Sessions
    BY <1>4, <2>2 DEF ClosesSession
  <2>3. (\E k \in 1..Len(a) : g = a[k]) \/ (\E k \in 1..Len(b) : g = b[k])
    BY <1>7
  <2>4. g.op \in {"accept", "delSession", "recv"} /\ g.ses \in Sessions
    BY <2>1, <2>2, <2>3
  <2> QED BY <1>5, <2>4, NullAssumption DEF Listens, Ok
<1> DEFINE q == ab \o c
<1>9. /\ q \in Seq(Handler)
      /\ Ordered(q)
      /\ \A k \in 1..Len(q) : \/ \E i \in 1..Len(ab) : q[k] = ab[i]
                             \/ \E j \in 1..Len(c) : q[k] = c[j]
  BY <1>5, <1>7, <1>8, ConcatOrdered
<1>10. ServerStopPosts(v) = q
  BY <1>1 DEF ab
<1> HIDE DEF q
<1>11. \A k \in 1..Len(q) : ClosesServer(v, q[k])
  <2> SUFFICES ASSUME NEW k \in 1..Len(q)
               PROVE  ClosesServer(v, q[k])
    OBVIOUS
  <2>1. ASSUME NEW i \in 1..Len(a), q[k] = a[i] PROVE ClosesServer(v, q[k])
    BY <1>2, <2>1 DEF ClosesServer
  <2>2. ASSUME NEW i \in 1..Len(b), q[k] = b[i] PROVE ClosesServer(v, q[k])
    BY <1>4, <2>2 DEF ClosesServer
  <2>3. ASSUME NEW i \in 1..Len(c), q[k] = c[i] PROVE ClosesServer(v, q[k])
    BY <1>5, <2>3 DEF ClosesServer
  <2>4. \/ \E i \in 1..Len(a) : q[k] = a[i]
        \/ \E i \in 1..Len(b) : q[k] = b[i]
        \/ \E i \in 1..Len(c) : q[k] = c[i]
    <3>1. CASE \E i \in 1..Len(ab) : q[k] = ab[i]
      BY <1>7, <3>1
    <3>2. CASE \E i \in 1..Len(c) : q[k] = c[i]
      BY <3>2
    <3> QED BY <1>9, <3>1, <3>2
  <2> QED BY <2>1, <2>2, <2>3, <2>4
<1> QED BY <1>9, <1>10, <1>11

-----------------------------------------------------------------------------
(***************************************************************************)
(* Each action keeps the invariant.                                        *)
(***************************************************************************)
\* The accepted session of a stopped server is in no other handler.
LEMMA RunAcceptDeadKeepsInv ==
  ASSUME Inv, NEW v \in Servers, NEW s \in Sessions, NEW ok \in BOOLEAN,
         RunAcceptDead(v, s, ok)
  PROVE  Inv'
<1> DEFINE h == OnAccept(v, s, ok)
<1>1. h \in Handler /\ h.op = "accept" /\ h.srv = v /\ h.ses = s
  BY AcceptHandlers
<1> HIDE DEF h
<1>2. Runs(h, <<>>) /\ liveSessions' = liveSessions \ {s} /\ callback' = NoServer
      /\ UNCHANGED <<liveServers, dead, current, accepting, closed, owner, reading,
                     servId, caller, notified>>
  BY DEF RunAcceptDead, h, device
<1>3. /\ Fits(h)
      /\ queue' \in Seq(Handler)
      /\ Ordered(queue)'
      /\ \A t \in Handler : IsQueued(t)' => Fits(t) /\ Ok(h, t)
  BY <1>1, <1>2, RunsAlone
<1>4. TypeOK'
  BY <1>2, <1>3 DEF Inv, TypeOK
<1>5. AllFit'
  <2> SUFFICES ASSUME NEW t \in Handler, IsQueued(t)'
               PROVE  Fits(t)'
    BY DEF AllFit
  <2> QED BY <1>1, <1>2, <1>3, HandlerFields, NullAssumption DEF Fits, Ok
<1>6. StateInv'
  BY <1>1, <1>2, <1>3, NullAssumption
     DEF Inv, Fits, StateInv, CurrentInv, AcceptingInv, ReadingInv, DeviceInv
<1> QED BY <1>3, <1>4, <1>5, <1>6 DEF Inv

\* on_recv on a stopped session changes nothing.
LEMMA RunRecvDeadKeepsInv ==
  ASSUME Inv, NEW s \in Sessions, NEW ok \in BOOLEAN, RunRecvDead(s, ok)
  PROVE  Inv'
<1> DEFINE h == OnRecv(s, ok)
<1>1. h \in Handler
  BY SessionHandlers
<1>2. Runs(h, <<>>) /\ callback' = NoServer
      /\ UNCHANGED <<liveServers, liveSessions, dead, current, accepting, closed,
                     owner, reading, servId, caller, notified>>
  BY DEF RunRecvDead, device, objects
<1>3. /\ queue' \in Seq(Handler)
      /\ Ordered(queue)'
      /\ \A t \in Handler : IsQueued(t)' => Fits(t)
  BY <1>1, <1>2, RunsAlone
<1>4. TypeOK'
  BY <1>2, <1>3 DEF Inv, TypeOK
<1>5. AllFit'
  BY <1>2, <1>3 DEF AllFit, Fits
<1>6. StateInv'
  BY <1>2 DEF Inv, StateInv, CurrentInv, AcceptingInv, ReadingInv, DeviceInv
<1> QED BY <1>3, <1>4, <1>5, <1>6 DEF Inv

\* The server deleted has been stopped, and no handler behind names it.
LEMMA RunDeleteServerKeepsInv ==
  ASSUME Inv, NEW v \in Servers, RunDeleteServer(v)
  PROVE  Inv'
<1> DEFINE h == DeleteServer(v)
<1>1. h \in Handler /\ h.op = "delServer" /\ h.srv = v
  BY ServerHandlers
<1> HIDE DEF h
<1>2. Runs(h, <<>>) /\ liveServers' = liveServers \ {v} /\ callback' = NoServer
      /\ UNCHANGED <<liveSessions, dead, current, accepting, closed, owner, reading,
                     servId, caller, notified>>
  BY DEF RunDeleteServer, h, device
<1>3. /\ Fits(h)
      /\ queue' \in Seq(Handler)
      /\ Ordered(queue)'
      /\ \A t \in Handler : IsQueued(t)' => Fits(t) /\ Ok(h, t)
  BY <1>1, <1>2, RunsAlone
<1>4. dead[v]
  BY <1>1, <1>3 DEF Fits
<1>5. TypeOK'
  BY <1>2, <1>3 DEF Inv, TypeOK
<1>6. AllFit'
  <2> SUFFICES ASSUME NEW t \in Handler, IsQueued(t)'
               PROVE  Fits(t)'
    BY DEF AllFit
  <2> QED BY <1>1, <1>2, <1>3 DEF Fits, Ok
<1>7. StateInv'
  BY <1>2, <1>4 DEF Inv, StateInv, CurrentInv, AcceptingInv, ReadingInv, DeviceInv
<1> QED BY <1>3, <1>5, <1>6, <1>7 DEF Inv

\* The session deleted has been stopped, and no handler behind names it.
LEMMA RunDeleteSessionKeepsInv ==
  ASSUME Inv, NEW s \in Sessions, RunDeleteSession(s)
  PROVE  Inv'
<1> DEFINE h == DeleteSession(s)
<1>1. h \in Handler /\ h.op = "delSession" /\ h.ses = s
  BY SessionHandlers
<1> HIDE DEF h
<1>2. Runs(h, <<>>) /\ liveSessions' = liveSessions \ {s} /\ callback' = NoServer
      /\ UNCHANGED <<liveServers, dead, current, accepting, closed, owner, reading,
                     servId, caller, notified>>
  BY DEF RunDeleteSession, h, device
<1>3. /\ Fits(h)
      /\ queue' \in Seq(Handler)
      /\ Ordered(queue)'
      /\ \A t \in Handler : IsQueued(t)' => Fits(t) /\ Ok(h, t)
  BY <1>1, <1>2, RunsAlone
<1>4. closed[s]
  BY <1>1, <1>3, NullAssumption DEF Fits
<1>5. TypeOK'
  BY <1>2, <1>3 DEF Inv, TypeOK
<1>6. AllFit'
  <2> SUFFICES ASSUME NEW t \in Handler, IsQueued(t)'
               PROVE  Fits(t)'
    BY DEF AllFit
  <2> QED BY <1>1, <1>2, <1>3 DEF Fits, Ok
<1>7. StateInv'
  BY <1>2, <1>4 DEF Inv, StateInv, CurrentInv, AcceptingInv, ReadingInv, DeviceInv
<1> QED BY <1>3, <1>5, <1>6, <1>7 DEF Inv

\* The new server is in a block that no handler names.
LEMMA StartKeepsInv ==
  ASSUME Inv, NEW v \in Servers, Start(v)
  PROVE  Inv'
<1> DEFINE h == OnStart(v)
<1>1. h \in Handler /\ h.op = "start" /\ h.srv = v /\ h.ses = NoSession
  BY ServerHandlers
<1> HIDE DEF h
<1>2. /\ queue' = Append(queue, h) /\ caller = "idle" /\ servId = NoServer
      /\ v \notin liveServers /\ liveServers' = liveServers \cup {v}
      /\ dead' = [dead EXCEPT ![v] = FALSE]
      /\ current' = [current EXCEPT ![v] = NoSession]
      /\ accepting' = [accepting EXCEPT ![v] = NoSession]
      /\ servId' = v /\ callback' = NoServer
      /\ UNCHANGED <<liveSessions, closed, owner, reading, caller, notified>>
  BY DEF Start, h
<1>3. \A t \in Handler : Fits(t) => Ok(t, h)
  BY <1>1, <1>2, HandlerFields, NullAssumption DEF Fits, Ok
<1>4. /\ queue' \in Seq(Handler)
      /\ Ordered(queue)'
      /\ \A t \in Handler : IsQueued(t)' => Fits(t) \/ t = h
  BY <1>1, <1>2, <1>3, PostKeeps DEF Ordered
<1>5. TypeOK'
  BY <1>2, <1>4 DEF Inv, TypeOK
<1>6. AllFit'
  <2> SUFFICES ASSUME NEW t \in Handler, IsQueued(t)'
               PROVE  Fits(t)'
    BY DEF AllFit
  <2>1. CASE t = h
    BY <1>1, <1>2, <2>1 DEF Fits, Inv, TypeOK
  <2>2. CASE Fits(t)
    BY <1>2, <2>2, HandlerFields, NullAssumption
       DEF Fits, Inv, TypeOK, StateInv, CurrentInv
  <2> QED BY <1>4, <2>1, <2>2
<1>7. StateInv'
  <2>1. CurrentInv'
    BY <1>2 DEF Inv, TypeOK, StateInv, CurrentInv
  <2>2. AcceptingInv'
    BY <1>2, NullAssumption DEF Inv, TypeOK, StateInv, AcceptingInv
  <2>3. ReadingInv'
    BY <1>2, NullAssumption DEF Inv, TypeOK, StateInv, ReadingInv, CurrentInv
  <2>4. DeviceInv'
    BY <1>2, NullAssumption DEF Inv, TypeOK, StateInv, DeviceInv
  <2> QED BY <2>1, <2>2, <2>3, <2>4 DEF StateInv
<1> QED BY <1>4, <1>5, <1>6, <1>7 DEF Inv

\* The stop handler is behind all the device has posted, and is the only one.
LEMMA StopCallKeepsInv ==
  ASSUME Inv, StopCall
  PROVE  Inv'
<1> DEFINE h == OnStop(servId)
<1>1. servId \in Servers
  BY DEF StopCall, HasServer, Inv, TypeOK
<1>2. h \in Handler /\ h.op = "stop" /\ h.srv = servId /\ h.ses = NoSession
  BY <1>1, ServerHandlers
<1> HIDE DEF h
<1>3. /\ queue' = Append(queue, h) /\ caller = "idle" /\ caller' = "stopping"
      /\ callback' = NoServer
      /\ UNCHANGED <<liveServers, liveSessions, dead, current, accepting, closed,
                     owner, reading, servId, notified>>
  BY DEF StopCall, objects, h
<1>4. ~notified /\ servId # NoServer /\ servId \in liveServers /\ ~dead[servId]
  BY <1>1, <1>3, NullAssumption DEF Inv, StateInv, DeviceInv
<1>5. \A t \in Handler : Fits(t) => Ok(t, h)
  BY <1>1, <1>2, <1>3, <1>4, HandlerFields, NullAssumption DEF Listens, Fits, Ok
<1>6. /\ queue' \in Seq(Handler)
      /\ Ordered(queue)'
      /\ \A t \in Handler : IsQueued(t)' => Fits(t) \/ t = h
  BY <1>2, <1>3, <1>5, PostKeeps DEF Ordered
<1>7. TypeOK'
  BY <1>3, <1>6 DEF Inv, TypeOK
<1>8. AllFit'
  <2> SUFFICES ASSUME NEW t \in Handler, IsQueued(t)'
               PROVE  Fits(t)'
    BY DEF AllFit
  <2>1. CASE t = h
    BY <1>2, <1>3, <1>4, <2>1 DEF Listens, Fits
  <2>2. CASE Fits(t)
    BY <1>3, <2>2 DEF Fits
  <2> QED BY <1>6, <2>1, <2>2
<1>9. StateInv'
  BY <1>3, <1>4 DEF Inv, StateInv, CurrentInv, AcceptingInv, ReadingInv, DeviceInv
<1> QED BY <1>6, <1>7, <1>8, <1>9 DEF Inv

\* stop returns only after its handler has run, so none is queued.
LEMMA StopReturnKeepsInv ==
  ASSUME Inv, StopReturn
  PROVE  Inv'
<1>1. /\ caller = "stopping" /\ notified /\ notified' = FALSE /\ servId' = NoServer
      /\ caller' = "idle" /\ callback' = NoServer
      /\ UNCHANGED <<queue, liveServers, liveSessions, dead, current, accepting,
                     closed, owner, reading>>
  BY DEF StopReturn, Woken, objects
<1>2. TypeOK'
  BY <1>1 DEF Inv, TypeOK
<1>3. Ordered(queue)'
  BY <1>1 DEF Inv, Ordered
<1>4. AllFit'
  BY <1>1 DEF Inv, AllFit, Fits, IsQueued
<1>5. StateInv'
  BY <1>1 DEF Inv, StateInv, CurrentInv, AcceptingInv, ReadingInv, DeviceInv
<1> QED BY <1>2, <1>3, <1>4, <1>5 DEF Inv

\* The accepted session is in no other handler.
LEMMA AcceptCompletesKeepsInv ==
  ASSUME Inv, NEW v \in Servers, NEW ok \in BOOLEAN, AcceptCompletes(v, ok)
  PROVE  Inv'
<1> DEFINE s == accepting[v]
           h == OnAccept(v, s, ok)
<1>1. s \in Sessions
  BY DEF AcceptCompletes, Inv, TypeOK
<1>2. h \in Handler /\ h.op = "accept" /\ h.srv = v /\ h.ses = s
  BY <1>1, AcceptHandlers
<1> HIDE DEF h
<1>3. /\ queue' = Append(queue, h) /\ accepting' = [accepting EXCEPT ![v] = NoSession]
      /\ callback' = NoServer
      /\ UNCHANGED <<liveServers, liveSessions, dead, current, closed, owner, reading,
                     servId, caller, notified>>
  BY DEF AcceptCompletes, device, h
<1>4. /\ v \in liveServers /\ ~dead[v] /\ s \in liveSessions /\ ~closed[s] /\ owner[s] = v
      /\ \A w \in Servers : current[w] # s /\ (accepting[w] = s => w = v)
  BY <1>1, NullAssumption DEF Inv, StateInv, AcceptingInv
<1>5. \A t \in Handler : Fits(t) => Ok(t, h)
  BY <1>1, <1>2, <1>4, HandlerFields, NullAssumption DEF Fits, Ok
<1>6. /\ queue' \in Seq(Handler)
      /\ Ordered(queue)'
      /\ \A t \in Handler : IsQueued(t)' => Fits(t) \/ t = h
  BY <1>2, <1>3, <1>5, PostKeeps DEF Ordered
<1>7. TypeOK'
  BY <1>3, <1>6 DEF Inv, TypeOK
<1>8. AllFit'
  <2> SUFFICES ASSUME NEW t \in Handler, IsQueued(t)'
               PROVE  Fits(t)'
    BY DEF AllFit
  <2> HIDE DEF s
  <2>1. CASE t = h
    BY <1>1, <1>2, <1>3, <1>4, <2>1, NullAssumption DEF Fits, Inv, TypeOK
  <2>2. CASE Fits(t)
    BY <1>3, <2>2, HandlerFields DEF Fits, Inv, TypeOK
  <2> QED BY <1>6, <2>1, <2>2
<1>9. StateInv'
  BY <1>3 DEF Inv, TypeOK, StateInv, CurrentInv, AcceptingInv, ReadingInv, DeviceInv
<1> QED BY <1>6, <1>7, <1>8, <1>9 DEF Inv

\* The session that was reading has no other completion queued.
LEMMA ReadCompletesKeepsInv ==
  ASSUME Inv, NEW s \in Sessions, NEW ok \in BOOLEAN, ReadCompletes(s, ok)
  PROVE  Inv'
<1> DEFINE h == OnRecv(s, ok)
<1>1. h \in Handler /\ h.op = "recv" /\ h.srv = NoServer /\ h.ses = s
  BY SessionHandlers
<1> HIDE DEF h
<1>2. /\ reading[s] /\ queue' = Append(queue, h)
      /\ reading' = [reading EXCEPT ![s] = FALSE] /\ callback' = NoServer
      /\ UNCHANGED <<liveServers, liveSessions, dead, current, accepting, closed, owner,
                     servId, caller, notified>>
  BY DEF ReadCompletes, device, h
<1>3. /\ s # NoSession /\ s \in liveSessions /\ ~closed[s]
      /\ \E v \in Servers : owner[s] = v /\ current[v] = s
      /\ \A w \in Servers : accepting[w] # s
  BY <1>2, NullAssumption DEF Inv, StateInv, ReadingInv, CurrentInv, AcceptingInv
<1>4. \A t \in Handler : Fits(t) => Ok(t, h)
  BY <1>1, <1>2, <1>3, HandlerFields, NullAssumption DEF Listens, Fits, Ok
<1>5. /\ queue' \in Seq(Handler)
      /\ Ordered(queue)'
      /\ \A t \in Handler : IsQueued(t)' => Fits(t) \/ t = h
  BY <1>1, <1>2, <1>4, PostKeeps DEF Ordered
<1>6. TypeOK'
  BY <1>2, <1>5 DEF Inv, TypeOK
<1>7. AllFit'
  <2> SUFFICES ASSUME NEW t \in Handler, IsQueued(t)'
               PROVE  Fits(t)'
    BY DEF AllFit
  <2>1. CASE t = h
    BY <1>1, <1>2, <1>3, <2>1 DEF Listens, Fits, Inv, TypeOK
  <2>2. CASE Fits(t)
    BY <1>2, <2>2, HandlerFields DEF Fits, Inv, TypeOK
  <2> QED BY <1>5, <2>1, <2>2
<1>8. StateInv'
  BY <1>2 DEF Inv, TypeOK, StateInv, CurrentInv, AcceptingInv, ReadingInv, DeviceInv
<1> QED BY <1>5, <1>6, <1>7, <1>8 DEF Inv

\* A start handler runs on a server that has not been stopped.
LEMMA RunStartKeepsInv ==
  ASSUME Inv, NEW v \in Servers, NEW n \in Sessions, RunStart(v, n)
  PROVE  Inv'
<1> DEFINE h == OnStart(v)
<1>1. h \in Handler /\ h.op = "start" /\ h.srv = v
  BY ServerHandlers
<1> HIDE DEF h
<1>2. Fits(h)
  BY <1>1, HeadFits DEF RunStart, h
<1>3. v \in liveServers /\ ~dead[v]
  BY <1>1, <1>2, NullAssumption DEF Fits
<1>4. Runs(h, <<>>)
  BY <1>3 DEF RunStart, ListenPosts, h
<1>5. /\ n \notin liveSessions /\ liveSessions' = liveSessions \cup {n}
      /\ closed' = [closed EXCEPT ![n] = FALSE]
      /\ reading' = [reading EXCEPT ![n] = FALSE]
      /\ accepting' = [accepting EXCEPT ![v] = n]
      /\ owner' = [owner EXCEPT ![n] = v] /\ callback' = NoServer
      /\ UNCHANGED <<liveServers, dead, current, servId, caller, notified>>
  BY <1>3 DEF RunStart, Listen, Inv, TypeOK, device
<1>6. /\ queue' \in Seq(Handler)
      /\ Ordered(queue)'
      /\ \A t \in Handler : IsQueued(t)' => Fits(t) /\ Ok(h, t)
  BY <1>1, <1>4, RunsAlone
<1>7. TypeOK'
  BY <1>5, <1>6 DEF Inv, TypeOK
<1>8. AllFit'
  <2> SUFFICES ASSUME NEW t \in Handler, IsQueued(t)'
               PROVE  Fits(t)'
    BY DEF AllFit
  <2>1. t.ses # NoSession => t.ses # n
    BY <1>5, <1>6 DEF Fits
  <2>2. Listens(t) => t.srv # v
    BY <1>1, <1>6 DEF Listens, Ok
  <2> QED BY <1>5, <1>6, <2>1, <2>2, HandlerFields, NullAssumption
          DEF Listens, Fits, Inv, TypeOK
<1>9. StateInv'
  <2>1. CurrentInv'
    BY <1>5 DEF Inv, TypeOK, StateInv, CurrentInv
  <2>2. AcceptingInv'
    BY <1>3, <1>5, NullAssumption DEF Inv, TypeOK, StateInv, CurrentInv, AcceptingInv
  <2>3. ReadingInv'
    BY <1>5, NullAssumption DEF Inv, TypeOK, StateInv, ReadingInv, CurrentInv
  <2>4. DeviceInv'
    BY <1>5 DEF Inv, StateInv, DeviceInv
  <2> QED BY <2>1, <2>2, <2>3, <2>4 DEF StateInv
<1> QED BY <1>6, <1>7, <1>8, <1>9 DEF Inv

\* The session of a failed accept is deleted, and a fresh one waits.
LEMMA RunAcceptErrorKeepsInv ==
  ASSUME Inv, NEW v \in Servers, NEW s \in Sessions, NEW n \in Sessions,
         RunAcceptError(v, s, n)
  PROVE  Inv'
<1> DEFINE h == OnAccept(v, s, FALSE)
<1>1. h \in Handler /\ h.op = "accept" /\ h.srv = v /\ h.ses = s
  BY AcceptHandlers
<1> HIDE DEF h
<1>2. Runs(h, <<>>) /\ ~dead[v]
  BY DEF RunAcceptError, ListenPosts, h
<1>3. /\ n \notin liveSessions \ {s} /\ liveSessions' = (liveSessions \ {s}) \cup {n}
      /\ closed' = [closed EXCEPT ![n] = FALSE]
      /\ reading' = [reading EXCEPT ![n] = FALSE]
      /\ accepting' = [accepting EXCEPT ![v] = n]
      /\ owner' = [owner EXCEPT ![n] = v] /\ callback' = NoServer
      /\ UNCHANGED <<liveServers, dead, current, servId, caller, notified>>
  BY <1>2 DEF RunAcceptError, Listen, Inv, TypeOK, device
<1>4. /\ Fits(h)
      /\ queue' \in Seq(Handler)
      /\ Ordered(queue)'
      /\ \A t \in Handler : IsQueued(t)' => Fits(t) /\ Ok(h, t)
  BY <1>1, <1>2, RunsAlone
<1>5. /\ v \in liveServers
      /\ \A w \in Servers : accepting[w] # s /\ current[w] # s
  BY <1>1, <1>4, NullAssumption DEF Fits
<1>6. \A w \in Servers : accepting[w] # n /\ current[w] # n
  BY <1>3, <1>5, NullAssumption DEF Inv, TypeOK, StateInv, CurrentInv, AcceptingInv
<1>7. TypeOK'
  BY <1>3, <1>4 DEF Inv, TypeOK
<1>8. AllFit'
  <2> SUFFICES ASSUME NEW t \in Handler, IsQueued(t)'
               PROVE  Fits(t)'
    BY DEF AllFit
  <2>1. Fits(t) /\ (t.ses # NoSession => t.ses # n /\ t.ses # s)
    BY <1>1, <1>3, <1>4, NullAssumption DEF Fits, Ok
  <2>2. Listens(t) => t.srv # v
    BY <1>1, <1>4 DEF Listens, Ok
  <2> QED BY <1>3, <2>1, <2>2, HandlerFields, NullAssumption DEF Listens, Fits, Inv, TypeOK
<1>9. StateInv'
  <2>1. CurrentInv'
    BY <1>3, <1>5, <1>6 DEF Inv, TypeOK, StateInv, CurrentInv
  <2>2. AcceptingInv'
    BY <1>2, <1>3, <1>5, <1>6, NullAssumption DEF Inv, TypeOK, StateInv, AcceptingInv
  <2>3. ReadingInv'
    BY <1>3, <1>6, NullAssumption DEF Inv, TypeOK, StateInv, ReadingInv
  <2>4. DeviceInv'
    BY <1>3 DEF Inv, StateInv, DeviceInv
  <2> QED BY <2>1, <2>2, <2>3, <2>4 DEF StateInv
<1> QED BY <1>4, <1>7, <1>8, <1>9 DEF Inv

\* The session replaced is stopped: its deletion is behind all that names it.
LEMMA RunAcceptOkKeepsInv ==
  ASSUME Inv, NEW v \in Servers, NEW s \in Sessions, NEW n \in Sessions,
         RunAcceptOk(v, s, n)
  PROVE  Inv'
<1> DEFINE h == OnAccept(v, s, TRUE)
           old == current[v]
           hs == SessionStopPosts(old)
<1>1. h \in Handler /\ h.op = "accept" /\ h.srv = v /\ h.ses = s
  BY AcceptHandlers
<1> HIDE DEF h
<1>2. old \in Sessions \cup {NoSession}
  BY DEF Inv, TypeOK
<1>3. /\ hs \in Seq(Handler) /\ Ordered(hs)
      /\ \A j \in 1..Len(hs) : ClosesSession(old, hs[j])
  BY <1>2, SessionStopShape
<1>4. ~dead[v] /\ ListenPosts(v, n) = <<>>
  BY DEF RunAcceptOk, ListenPosts
<1>5. Runs(h, hs)
  <2>1. Runs(h, hs \o <<>>)
    BY <1>4 DEF RunAcceptOk, Replaced, h
  <2> HIDE DEF hs
  <2> QED BY <1>3, <2>1, ConcatEmptySeq
<1>6. /\ n \notin liveSessions /\ liveSessions' = liveSessions \cup {n}
      /\ current' = [current EXCEPT ![v] = s]
      /\ closed' = [x \in Sessions |->
                      IF x = old THEN TRUE ELSE IF x = n THEN FALSE ELSE closed[x]]
      /\ reading' = [x \in Sessions |->
                      IF x \in {old, n} THEN FALSE ELSE IF x = s THEN TRUE ELSE reading[x]]
      /\ accepting' = [accepting EXCEPT ![v] = n]
      /\ owner' = [owner EXCEPT ![n] = v] /\ callback' = NoServer
      /\ UNCHANGED <<liveServers, dead, servId, caller, notified>>
  BY <1>4 DEF RunAcceptOk, Replaced, Listen, device
<1> HIDE DEF hs
<1>7. Fits(h)
  BY <1>1, <1>5, HeadFits
<1>8. /\ v \in liveServers /\ s \in liveSessions /\ ~closed[s] /\ owner[s] = v
      /\ \A w \in Servers : accepting[w] # s /\ current[w] # s
  BY <1>1, <1>7, NullAssumption DEF Fits
<1>9. /\ s # n /\ s # old /\ n # old
      /\ \A w \in Servers : accepting[w] # n /\ current[w] # n
      /\ \A w \in Servers : w # v /\ current[w] # NoSession => current[w] # old
  BY <1>6, <1>8, NullAssumption DEF Inv, TypeOK, StateInv, CurrentInv, AcceptingInv
<1>10. \A t \in Handler : Fits(t) /\ Ok(h, t) => \A j \in 1..Len(hs) : Ok(t, hs[j])
  <2> SUFFICES ASSUME NEW t \in Handler, Fits(t), NEW j \in 1..Len(hs)
               PROVE  Ok(t, hs[j])
    OBVIOUS
  <2> DEFINE x == hs[j]
  <2>1. /\ old \in Sessions /\ ~closed[old] /\ x.srv = NoServer /\ x.ses = old
        /\ x.op = "delSession" \/ (x.op = "recv" /\ reading[old])
    BY <1>3 DEF ClosesSession
  <2> HIDE DEF x
  <2>2. Ok(t, x)
    <3> HIDE DEF old
    <3>1. (t.op = "accept" => t.ses # old)
      BY <1>2, <2>1, HandlerFields DEF Fits, old
    <3> QED BY <2>1, <3>1, HandlerFields, NullAssumption DEF Listens, Fits, Ok
  <2> QED BY <2>2 DEF x
<1>11. /\ queue' \in Seq(Handler)
       /\ Ordered(queue')
       /\ \A t \in Handler : IsQueued(t)' =>
            \/ Fits(t) /\ Ok(h, t)
            \/ \E j \in 1..Len(hs) : t = hs[j]
  BY <1>1, <1>3, <1>5, <1>10, RunsKeeps
<1>12. TypeOK'
  BY <1>6, <1>11 DEF Inv, TypeOK
<1>13. AllFit'
  <2> SUFFICES ASSUME NEW t \in Handler, IsQueued(t)'
               PROVE  Fits(t)'
    BY DEF AllFit
  <2>1. CASE Fits(t) /\ Ok(h, t)
    <3>1. t.ses # NoSession => t.ses # n /\ t.ses # s
      BY <1>1, <1>6, <2>1, NullAssumption DEF Fits, Ok
    <3>2. t.op = "accept" => t.ses # old
      BY <2>1 DEF Fits
    <3> HIDE DEF old
    <3>3. t.op = "recv" => closed[t.ses]' \/ \E w \in Servers :
                             owner'[t.ses] = w /\ current'[w] = t.ses
      <4> SUFFICES ASSUME t.op = "recv", ~closed[t.ses]'
                   PROVE  \E w \in Servers : owner'[t.ses] = w /\ current'[w] = t.ses
        OBVIOUS
      <4>1. t.ses \in Sessions /\ t.ses # n /\ t.ses # old
        BY <1>6, <3>1, HandlerFields, NullAssumption
      <4>2. closed'[t.ses] = closed[t.ses] /\ owner'[t.ses] = owner[t.ses]
        BY <1>6, <4>1 DEF Inv, TypeOK
      <4>3. PICK w \in Servers : owner[t.ses] = w /\ current[w] = t.ses
        BY <2>1, <4>2 DEF Fits
      <4>4. w # v
        BY <4>1, <4>3 DEF old
      <4>5. current'[w] = current[w]
        BY <1>6, <4>4 DEF Inv, TypeOK
      <4> QED BY <4>2, <4>3, <4>5
    <3>4. Listens(t) => t.srv # v
      BY <1>1, <2>1 DEF Listens, Ok
    <3> QED BY <1>6, <2>1, <3>1, <3>2, <3>3, <3>4, HandlerFields, NullAssumption
            DEF Listens, Fits, Inv, TypeOK
  <2>2. CASE \E j \in 1..Len(hs) : t = hs[j]
    <3>1. ClosesSession(old, t)
      BY <1>3, <2>2
    <3>2. old \in liveSessions /\ \A w \in Servers : accepting[w] # old
      BY <3>1, NullAssumption DEF ClosesSession, Inv, StateInv, CurrentInv, AcceptingInv
    <3> HIDE DEF old
    <3> QED BY <1>6, <1>9, <3>1, <3>2, NullAssumption
            DEF Listens, ClosesSession, Fits, Inv, TypeOK
  <2> QED BY <1>11, <2>1, <2>2
<1>14. StateInv'
  <2> HIDE DEF old
  <2>1. CurrentInv'
    BY <1>4, <1>6, <1>8, <1>9 DEF Inv, TypeOK, StateInv, CurrentInv
  <2>2. AcceptingInv'
    <3>1. \A w \in Servers : accepting[w] # NoSession => accepting[w] # old
      BY <1>2 DEF Inv, StateInv, AcceptingInv, old
    <3> QED BY <1>4, <1>6, <1>8, <1>9, <3>1, NullAssumption DEF Inv, TypeOK, StateInv, AcceptingInv
  <2>3. ReadingInv'
    BY <1>6, <1>8, <1>9, NullAssumption DEF Inv, TypeOK, StateInv, ReadingInv, old
  <2>4. DeviceInv'
    BY <1>6 DEF Inv, StateInv, DeviceInv
  <2> QED BY <2>1, <2>2, <2>3, <2>4 DEF StateInv
<1>15. Ordered(queue)'
  BY <1>11 DEF Ordered
<1> QED BY <1>11, <1>12, <1>13, <1>14, <1>15 DEF Inv

\* The step of both on_recv handlers that stop their session.
StopsSession(s, h) ==
  /\ Runs(h, SessionStopPosts(s))
  /\ ~closed[s]
  /\ CloseSession(s)
  /\ callback' \in Servers \cup {NoServer}
  /\ UNCHANGED <<liveServers, liveSessions, dead, accepting, owner, servId, caller, notified>>

\* A session that stops itself is its server's current one.
LEMMA StopsSessionKeepsInv ==
  ASSUME Inv, NEW s \in Sessions, NEW ok \in BOOLEAN, StopsSession(s, OnRecv(s, ok))
  PROVE  Inv'
<1> DEFINE h == OnRecv(s, ok)
           hs == SessionStopPosts(s)
<1>1. h \in Handler /\ h.op = "recv" /\ h.srv = NoServer /\ h.ses = s
  BY SessionHandlers
<1>2. Runs(h, hs) /\ ~closed[s]
  BY DEF StopsSession
<1> HIDE DEF h
<1>3. /\ hs \in Seq(Handler) /\ Ordered(hs)
      /\ \A j \in 1..Len(hs) : ClosesSession(s, hs[j])
  BY SessionStopShape
<1> HIDE DEF hs
<1>4. Fits(h)
  BY <1>1, <1>2, HeadFits
<1>5. /\ s # NoSession /\ s \in liveSessions /\ ~reading[s]
      /\ \A w \in Servers : accepting[w] # s
      /\ \E w \in Servers : owner[s] = w /\ current[w] = s
  BY <1>1, <1>2, <1>4, NullAssumption DEF Fits
<1>6. PICK v \in Servers : owner[s] = v /\ current[v] = s
  BY <1>5
<1>7. /\ closed' = [closed EXCEPT ![s] = TRUE]
      /\ current' = [current EXCEPT ![v] = NoSession]
      /\ callback' \in Servers \cup {NoServer}
      /\ UNCHANGED <<liveServers, liveSessions, dead, accepting, owner, reading,
                     servId, caller, notified>>
  BY <1>6 DEF StopsSession, CloseSession
<1>8. \A t \in Handler : Fits(t) /\ Ok(h, t) => \A j \in 1..Len(hs) : Ok(t, hs[j])
  <2> SUFFICES ASSUME NEW t \in Handler, Fits(t), NEW j \in 1..Len(hs)
               PROVE  Ok(t, hs[j])
    OBVIOUS
  <2> DEFINE x == hs[j]
  <2>1. x.srv = NoServer /\ x.ses = s /\ x.op = "delSession"
    BY <1>3, <1>5 DEF ClosesSession
  <2> HIDE DEF x
  <2>2. Ok(t, x)
    BY <1>2, <1>6, <2>1, HandlerFields, NullAssumption DEF Listens, Fits, Ok
  <2> QED BY <2>2 DEF x
<1>9. /\ queue' \in Seq(Handler)
      /\ Ordered(queue')
      /\ \A t \in Handler : IsQueued(t)' =>
           \/ Fits(t) /\ Ok(h, t)
           \/ \E j \in 1..Len(hs) : t = hs[j]
  BY <1>1, <1>2, <1>3, <1>8, RunsKeeps
<1>10. TypeOK'
  BY <1>7, <1>9 DEF Inv, TypeOK
<1>11. AllFit'
  <2> SUFFICES ASSUME NEW t \in Handler, IsQueued(t)'
               PROVE  Fits(t)'
    BY DEF AllFit
  <2>1. CASE Fits(t) /\ Ok(h, t)
    <3>1. t.op = "recv" => t.ses # s
      BY <1>1, <2>1 DEF Ok
    <3>2. t.op = "accept" => t.ses # s
      BY <1>6, <2>1 DEF Fits
    <3>3. t.op = "recv" => closed[t.ses]' \/ \E w \in Servers :
                             owner'[t.ses] = w /\ current'[w] = t.ses
      BY <1>6, <1>7, <2>1, <3>1, HandlerFields DEF Fits, Inv, TypeOK
    <3> QED BY <1>7, <2>1, <3>2, <3>3, HandlerFields, NullAssumption
            DEF Fits, Inv, TypeOK
  <2>2. CASE \E j \in 1..Len(hs) : t = hs[j]
    <3>1. t.srv = NoServer /\ t.ses = s /\ t.op = "delSession"
      BY <1>3, <1>5, <2>2 DEF ClosesSession
    <3> QED BY <1>5, <1>7, <3>1 DEF Listens, Fits, Inv, TypeOK
  <2> QED BY <1>9, <2>1, <2>2
<1>12. StateInv'
  <2>1. CurrentInv'
    BY <1>6, <1>7 DEF Inv, TypeOK, StateInv, CurrentInv
  <2>2. AcceptingInv'
    BY <1>5, <1>7, NullAssumption DEF Inv, TypeOK, StateInv, AcceptingInv
  <2>3. ReadingInv'
    BY <1>5, <1>6, <1>7 DEF Inv, TypeOK, StateInv, ReadingInv
  <2>4. DeviceInv'
    BY <1>7 DEF Inv, StateInv, DeviceInv
  <2> QED BY <2>1, <2>2, <2>3, <2>4 DEF StateInv
<1>13. Ordered(queue)'
  BY <1>9 DEF Ordered
<1> QED BY <1>9, <1>10, <1>11, <1>12, <1>13 DEF Inv

\* on_recv with an error stops the session.
LEMMA RunRecvErrorKeepsInv ==
  ASSUME Inv, NEW s \in Sessions, RunRecvError(s)
  PROVE  Inv'
<1>1. StopsSession(s, OnRecv(s, FALSE))
  BY DEF RunRecvError, StopsSession, Ignores, device
<1> QED BY <1>1, StopsSessionKeepsInv

\* on_recv with data stops the session or reads again.
LEMMA RunRecvDataKeepsInv ==
  ASSUME Inv, NEW s \in Sessions, NEW called \in BOOLEAN, NEW full \in BOOLEAN,
         RunRecvData(s, called, full)
  PROVE  Inv'
<1> DEFINE h == OnRecv(s, TRUE)
<1>1. h \in Handler /\ h.op = "recv" /\ h.srv = NoServer /\ h.ses = s
  BY SessionHandlers
<1> HIDE DEF h
<1>2. \E hs : Runs(h, hs)
  BY DEF RunRecvData, h
<1>3. Fits(h)
  BY <1>1, <1>2, HeadFits
<1>4. ~closed[s]
  BY DEF RunRecvData, Ignores
<1>5. /\ s # NoSession /\ s \in liveSessions /\ ~reading[s]
      /\ \A w \in Servers : accepting[w] # s
      /\ \E w \in Servers : owner[s] = w /\ current[w] = s
  BY <1>1, <1>3, <1>4, NullAssumption DEF Fits
<1>6. callback' \in Servers \cup {NoServer}
  BY <1>5 DEF RunRecvData
<1>7. CASE full
  <2>1. StopsSession(s, OnRecv(s, TRUE))
    BY <1>6, <1>7 DEF RunRecvData, StopsSession, Ignores, device
  <2> QED BY <2>1, StopsSessionKeepsInv
<1>8. CASE ~full
  <2>1. /\ Runs(h, <<>>) /\ reading' = [reading EXCEPT ![s] = TRUE]
        /\ UNCHANGED <<liveServers, liveSessions, dead, current, accepting, closed,
                       owner, servId, caller, notified>>
    BY <1>8 DEF RunRecvData, device, h
  <2>2. /\ queue' \in Seq(Handler)
        /\ Ordered(queue)'
        /\ \A t \in Handler : IsQueued(t)' => Fits(t) /\ Ok(h, t)
    BY <1>1, <2>1, RunsAlone
  <2>3. TypeOK'
    BY <1>6, <2>1, <2>2 DEF Inv, TypeOK
  <2>4. AllFit'
    <3> SUFFICES ASSUME NEW t \in Handler, IsQueued(t)'
                 PROVE  Fits(t)'
      BY DEF AllFit
    <3>1. t.op = "recv" => t.ses # s
      BY <1>1, <2>2 DEF Ok
    <3> QED BY <2>1, <2>2, <3>1, HandlerFields DEF Fits, Inv, TypeOK
  <2>5. StateInv'
    <3>1. CurrentInv' /\ AcceptingInv'
      BY <2>1 DEF Inv, StateInv, CurrentInv, AcceptingInv
    <3>2. ReadingInv'
      BY <1>5, <2>1 DEF Inv, TypeOK, StateInv, ReadingInv
    <3>3. DeviceInv'
      BY <2>1 DEF Inv, StateInv, DeviceInv
    <3> QED BY <3>1, <3>2, <3>3 DEF StateInv
  <2> QED BY <2>2, <2>3, <2>4, <2>5 DEF Inv
<1> QED BY <1>7, <1>8

\* The stop handler runs once, on the device's own server.
LEMMA RunStopKeepsInv ==
  ASSUME Inv, NEW v \in Servers, RunStop(v)
  PROVE  Inv'
<1> DEFINE h == OnStop(v)
           hs == ServerStopPosts(v)
           c == current[v]
           a == accepting[v]
<1>1. h \in Handler /\ h.op = "stop" /\ h.srv = v /\ h.ses = NoSession
  BY ServerHandlers
<1>2. Runs(h, hs)
  BY DEF RunStop
<1> HIDE DEF h
<1>3. Fits(h)
  BY <1>1, <1>2, HeadFits
<1>4. v = servId /\ v \in liveServers /\ ~notified /\ caller = "stopping" /\ ~dead[v]
  BY <1>1, <1>3, NullAssumption DEF Fits, Inv, StateInv, DeviceInv
<1>5. /\ hs \in Seq(Handler) /\ Ordered(hs)
      /\ \A j \in 1..Len(hs) : ClosesServer(v, hs[j])
  BY <1>4, ServerStopShape
<1>6. /\ dead' = [dead EXCEPT ![v] = TRUE]
      /\ accepting' = [accepting EXCEPT ![v] = NoSession]
      /\ current' = [current EXCEPT ![v] = NoSession]
      /\ closed' = [x \in Sessions |-> x = c \/ closed[x]]
      /\ reading' = [x \in Sessions |-> x # c /\ reading[x]]
      /\ notified' = TRUE /\ callback' = NoServer
      /\ UNCHANGED <<liveServers, liveSessions, owner, servId, caller>>
  BY <1>4 DEF RunStop, device
<1> HIDE DEF hs
<1>7. /\ c \in Sessions => /\ c \in liveSessions /\ ~closed[c] /\ owner[c] = v
                           /\ \A w \in Servers : accepting[w] # c
      /\ a \in Sessions => /\ a \in liveSessions /\ ~closed[a] /\ owner[a] = v
                           /\ \A w \in Servers : current[w] # a
  BY NullAssumption DEF Inv, StateInv, CurrentInv, AcceptingInv
<1>8. \A t \in Handler : Fits(t) /\ Ok(h, t) => \A j \in 1..Len(hs) : Ok(t, hs[j])
  <2> SUFFICES ASSUME NEW t \in Handler, Fits(t), Ok(h, t), NEW j \in 1..Len(hs)
               PROVE  Ok(t, hs[j])
    OBVIOUS
  <2> DEFINE x == hs[j]
  <2>1. ClosesServer(v, x)
    BY <1>5
  <2> HIDE DEF x
  <2>2. t.op # "stop" /\ (t.op = "delServer" => t.srv # v)
    <3>1. t.op # "stop"
      BY <1>1, <1>4 DEF Ok
    <3>2. t.op = "delServer" => t.srv # v
      BY <1>4 DEF Fits
    <3> QED BY <3>1, <3>2
  <2>3. CASE x.op = "accept" /\ x.srv = v /\ x.ses = a /\ x.ses \in Sessions
    <3>1. t.ses # a
      BY <2>3, NullAssumption DEF Fits
    <3>2. Listens(t) => t.srv # v
      BY <2>3, NullAssumption DEF Fits
    <3> QED BY <2>2, <2>3, <3>1, <3>2, HandlerFields, NullAssumption DEF Listens, Ok, x
  <2>4. CASE ClosesSession(c, x)
    <3>1. /\ c \in Sessions /\ ~closed[c] /\ x.srv = NoServer /\ x.ses = c
          /\ x.op = "delSession" \/ (x.op = "recv" /\ reading[c])
      BY <2>4 DEF ClosesSession
    <3>2. /\ t.op = "accept" => t.ses # c
          /\ t.op = "delSession" => t.ses # c
          /\ t.op = "recv" /\ x.op = "recv" => t.ses # c
      BY <3>1 DEF Fits
    <3>3. t.op = "delServer" => t.srv # x.srv
      BY <3>1, HandlerFields, NullAssumption
    <3>4. Ok(t, x)
      BY <2>2, <3>1, <3>2, <3>3, HandlerFields, NullAssumption DEF Listens, Ok
    <3> QED BY <3>4 DEF x
  <2>5. CASE x.op = "delServer" /\ x.srv = v /\ x.ses = NoSession
    <3>1. Ok(t, x)
      BY <2>2, <2>5, HandlerFields, NullAssumption DEF Listens, Ok
    <3> QED BY <3>1 DEF x
  <2> QED BY <2>1, <2>3, <2>4, <2>5 DEF ClosesServer
<1>9. /\ queue' \in Seq(Handler)
      /\ Ordered(queue')
      /\ \A t \in Handler : IsQueued(t)' =>
           \/ Fits(t) /\ Ok(h, t)
           \/ \E j \in 1..Len(hs) : t = hs[j]
  BY <1>1, <1>2, <1>5, <1>8, RunsKeeps
<1>10. TypeOK'
  BY <1>6, <1>9 DEF Inv, TypeOK
<1>11. AllFit'
  <2> SUFFICES ASSUME NEW t \in Handler, IsQueued(t)'
               PROVE  Fits(t)'
    BY DEF AllFit
  <2>1. CASE Fits(t) /\ Ok(h, t)
    <3>1. t.op # "start" /\ t.op # "stop"
      BY <1>1, <2>1 DEF Ok
    <3>2. t.op = "accept" => t.ses # c
      BY <2>1 DEF Fits
    <3>3. t.op = "recv" => ~reading'[t.ses] /\ (closed'[t.ses] \/ \E w \in Servers :
                             owner'[t.ses] = w /\ current'[w] = t.ses)
      BY <1>6, <2>1, HandlerFields DEF Fits, Inv, TypeOK
    <3> QED BY <1>6, <2>1, <3>1, <3>2, <3>3, HandlerFields, NullAssumption
            DEF Fits, Inv, TypeOK
  <2>2. CASE \E j \in 1..Len(hs) : t = hs[j]
    <3>1. ClosesServer(v, t)
      BY <1>5, <2>2
    <3>2. CASE t.op = "accept" /\ t.srv = v /\ t.ses = a /\ t.ses \in Sessions
      BY <1>4, <1>6, <1>7, <3>2, NullAssumption DEF Fits, Inv, TypeOK, StateInv, AcceptingInv
    <3>3. CASE ClosesSession(c, t)
      BY <1>6, <1>7, <3>3, NullAssumption DEF Listens, ClosesSession, Fits, Inv, TypeOK
    <3>4. CASE t.op = "delServer" /\ t.srv = v /\ t.ses = NoSession
      BY <1>4, <1>6, <3>4 DEF Fits, Inv, TypeOK
    <3> QED BY <3>1, <3>2, <3>3, <3>4 DEF ClosesServer
  <2> QED BY <1>9, <2>1, <2>2
<1>12. StateInv'
  <2>1. CurrentInv'
    BY <1>6 DEF Inv, TypeOK, StateInv, CurrentInv
  <2>2. AcceptingInv'
    BY <1>6, NullAssumption DEF Inv, TypeOK, StateInv, AcceptingInv
  <2>3. ReadingInv'
    BY <1>6 DEF Inv, TypeOK, StateInv, ReadingInv
  <2>4. DeviceInv'
    BY <1>4, <1>6 DEF Inv, TypeOK, StateInv, DeviceInv
  <2> QED BY <2>1, <2>2, <2>3, <2>4 DEF StateInv
<1>13. Ordered(queue)'
  BY <1>9 DEF Ordered
<1> QED BY <1>9, <1>10, <1>11, <1>12, <1>13 DEF Inv

-----------------------------------------------------------------------------
(***************************************************************************)
(* The theorems.                                                           *)
(***************************************************************************)
\* The invariant holds at first.
LEMMA InitInv == Init => Inv
<1> SUFFICES ASSUME Init PROVE Inv
  OBVIOUS
<1>1. queue = <<>> /\ queue \in Seq(Handler) /\ Len(queue) = 0 /\ DOMAIN queue = {}
  BY EmptySeq DEF Init
<1>2. TypeOK
  BY <1>1 DEF Init, TypeOK
<1>3. Ordered(queue) /\ AllFit
  BY <1>1 DEF Ordered, AllFit, IsQueued
<1>4. StateInv
  BY DEF Init, StateInv, CurrentInv, AcceptingInv, ReadingInv, DeviceInv
<1> QED BY <1>2, <1>3, <1>4 DEF Inv

\* Every step keeps the invariant.
LEMMA NextInv == Inv /\ [Next]_vars => Inv'
<1> SUFFICES ASSUME Inv, [Next]_vars PROVE Inv'
  OBVIOUS
<1>1. CASE Run
  <2>1. ASSUME NEW v \in Servers, NEW n \in Sessions, RunStart(v, n) PROVE Inv'
    BY <2>1, RunStartKeepsInv
  <2>2. ASSUME NEW v \in Servers, NEW s \in Sessions, RunAccept(v, s) PROVE Inv'
    BY <2>2, RunAcceptDeadKeepsInv, RunAcceptErrorKeepsInv, RunAcceptOkKeepsInv DEF RunAccept
  <2>3. ASSUME NEW v \in Servers, RunStop(v) PROVE Inv'
    BY <2>3, RunStopKeepsInv
  <2>4. ASSUME NEW v \in Servers, RunDeleteServer(v) PROVE Inv'
    BY <2>4, RunDeleteServerKeepsInv
  <2>5. ASSUME NEW s \in Sessions, RunRecv(s) PROVE Inv'
    BY <2>5, RunRecvDeadKeepsInv, RunRecvErrorKeepsInv, RunRecvDataKeepsInv DEF RunRecv
  <2>6. ASSUME NEW s \in Sessions, RunDeleteSession(s) PROVE Inv'
    BY <2>6, RunDeleteSessionKeepsInv
  <2> QED BY <1>1, <2>1, <2>2, <2>3, <2>4, <2>5, <2>6 DEF Run
<1>2. CASE Owner
  BY <1>2, StartKeepsInv, StopCallKeepsInv, StopReturnKeepsInv DEF Owner
<1>3. CASE Network
  BY <1>3, AcceptCompletesKeepsInv, ReadCompletesKeepsInv DEF Network
<1>4. CASE UNCHANGED vars
  <2>1. UNCHANGED <<queue, liveServers, liveSessions, dead, current, accepting, closed,
                    owner, reading, servId, caller, notified, callback>>
    BY <1>4 DEF vars, objects, device
  <2>2. TypeOK'
    BY <2>1 DEF Inv, TypeOK
  <2>3. Ordered(queue)' /\ AllFit'
    BY <2>1 DEF Inv, Ordered, AllFit, Fits, IsQueued
  <2>4. StateInv'
    BY <2>1 DEF Inv, StateInv, CurrentInv, AcceptingInv, ReadingInv, DeviceInv
  <2> QED BY <2>2, <2>3, <2>4 DEF Inv
<1> QED BY <1>1, <1>2, <1>3, <1>4 DEF Next

\* The invariant holds in every reachable state.
THEOREM Invariance == Spec => []Inv
<1>1. Init => Inv
  BY InitInv
<1>2. Inv /\ [Next]_vars => Inv'
  BY NextInv
<1> QED BY <1>1, <1>2, PTL DEF Spec

\* Whatever connects, sends and is stopped, and in whatever order, the
\* variables keep their types: no handler is ever bound to a null object.
THEOREM TypeCorrect == Spec => []TypeOK
<1>1. Inv => TypeOK
  BY DEF Inv
<1> QED BY <1>1, Invariance, PTL

\* No handler of the service thread and no outstanding operation refers to a
\* freed server or session, for any number of either: the order in which
\* session::stop and tcp_server::stop post is right.
THEOREM NothingUsedAfterFree == Spec => []NoUseAfterFree
<1>1. Inv => NoUseAfterFree
  <2> SUFFICES ASSUME Inv PROVE NoUseAfterFree
    OBVIOUS
  <2>1. ASSUME NEW i \in DOMAIN queue
        PROVE  /\ TouchedSessions(queue[i]) \subseteq liveSessions
               /\ TouchedServers(queue[i]) \subseteq liveServers
    <3> DEFINE h == queue[i]
    <3>1. h \in Handler /\ IsQueued(h)
      BY DEF Inv, TypeOK, IsQueued
    <3>2. Fits(h)
      BY <3>1 DEF Inv, AllFit
    <3> HIDE DEF h
    <3>3. h.ses # NoSession => h.ses \in liveSessions
      BY <3>2 DEF Fits
    <3>4. h.srv \in Servers => h.srv \in liveServers
      BY <3>2, NullAssumption DEF Fits
    <3>5. \A w \in Servers : current[w] # NoSession => /\ w \in liveServers
                                                      /\ current[w] \in liveSessions
      BY DEF Inv, StateInv, CurrentInv
    <3>6. TouchedSessions(h) \subseteq liveSessions
      BY <3>3, <3>5 DEF TouchedSessions
    <3>7. TouchedServers(h) \subseteq liveServers
      <4>1. CASE h.op = "recv" /\ ~closed[h.ses]
        <5>1. h.ses \in Sessions
          BY <3>1, <4>1, HandlerFields
        <5>2. PICK w \in Servers : owner[h.ses] = w /\ current[w] = h.ses
          BY <3>2, <4>1 DEF Fits
        <5>3. w \in liveServers
          BY <3>5, <5>1, <5>2, NullAssumption
        <5> QED BY <4>1, <5>2, <5>3 DEF TouchedServers
      <4>2. CASE ~(h.op = "recv" /\ ~closed[h.ses])
        <5>1. h.srv # NoServer => h.srv \in liveServers
          BY <3>2 DEF Fits
        <5> QED BY <4>2, <5>1 DEF TouchedServers
      <4> QED BY <4>1, <4>2
    <3> QED BY <3>6, <3>7 DEF h
  <2>2. \A v \in Servers : accepting[v] # NoSession =>
          v \in liveServers /\ accepting[v] \in liveSessions
    BY DEF Inv, StateInv, AcceptingInv
  <2>3. \A s \in Sessions : reading[s] =>
          s \in liveSessions /\ ~closed[s] /\ owner[s] \in liveServers
    BY NullAssumption DEF Inv, StateInv, ReadingInv, CurrentInv
  <2> QED BY <2>1, <2>2, <2>3 DEF NoUseAfterFree
<1> QED BY <1>1, Invariance, PTL

\* A server that is not the device's own has closed its port.
THEOREM OnlyOneListener == Spec => []OneListener
<1>1. Inv => OneListener
  BY DEF Inv, StateInv, DeviceInv, OneListener
<1> QED BY <1>1, Invariance, PTL

\* A step runs the callback only of the device's own server, before its stop
\* handler.
LEMMA CallbackStep ==
  ASSUME Inv, NEW s \in Sessions, NEW called \in BOOLEAN, NEW full \in BOOLEAN,
         RunRecvData(s, called, full)
  PROVE  /\ callback' # NoServer => callback' = servId /\ servId # NoServer /\ ~notified
         /\ UNCHANGED <<servId, caller, notified>>
<1> DEFINE h == OnRecv(s, TRUE)
<1>1. h \in Handler /\ h.op = "recv" /\ h.ses = s
  BY SessionHandlers
<1> HIDE DEF h
<1>2. \E hs : Runs(h, hs)
  BY DEF RunRecvData, h
<1>3. Fits(h)
  BY <1>1, <1>2, HeadFits
<1>4. PICK w \in Servers : owner[s] = w /\ current[w] = s
  BY <1>1, <1>3 DEF Fits, RunRecvData, Ignores
<1>5. w \in liveServers /\ ~dead[w]
  BY <1>4, NullAssumption DEF Inv, StateInv, CurrentInv
<1>6. w = servId /\ ~notified /\ w # NoServer
  BY <1>5, NullAssumption DEF Inv, StateInv, DeviceInv
<1> QED BY <1>4, <1>6 DEF RunRecvData, device

\* The device's callback is not run for a server it does not hold, nor once
\* the stop handler has run.
THEOREM CallbackInTime == Spec => []NoLateCallback
<1>1. Init => NoLateCallback
  BY DEF Init, NoLateCallback
<1>2. Inv /\ NoLateCallback /\ [Next]_vars => NoLateCallback'
  <2> SUFFICES ASSUME Inv, NoLateCallback, [Next]_vars PROVE NoLateCallback'
    OBVIOUS
  <2>1. CASE UNCHANGED vars
    BY <2>1 DEF NoLateCallback, vars, device
  <2>2. ASSUME NEW s \in Sessions, NEW called \in BOOLEAN, NEW full \in BOOLEAN,
               RunRecvData(s, called, full)
        PROVE  NoLateCallback'
    BY <2>2, CallbackStep DEF NoLateCallback
  <2>3. ASSUME callback' = NoServer PROVE NoLateCallback'
    BY <2>3 DEF NoLateCallback
  <2>4. CASE Run
    <3>1. ASSUME NEW s \in Sessions, RunRecv(s) PROVE NoLateCallback'
      BY <2>2, <2>3, <3>1 DEF RunRecv, RunRecvDead, RunRecvError
    <3>2. ASSUME NEW v \in Servers, NEW s \in Sessions, RunAccept(v, s)
          PROVE  callback' = NoServer
      BY <3>2 DEF RunAccept, RunAcceptDead, RunAcceptError, RunAcceptOk
    <3>3. ASSUME NEW v \in Servers,
                 (\E n \in Sessions : RunStart(v, n)) \/ RunStop(v) \/ RunDeleteServer(v)
          PROVE  callback' = NoServer
      BY <3>3 DEF RunStart, RunStop, RunDeleteServer
    <3>4. ASSUME NEW s \in Sessions, RunDeleteSession(s) PROVE callback' = NoServer
      BY <3>4 DEF RunDeleteSession
    <3> QED BY <2>3, <2>4, <3>1, <3>2, <3>3, <3>4 DEF Run
  <2>5. CASE Owner
    BY <2>3, <2>5 DEF Owner, Start, StopCall, StopReturn
  <2>6. CASE Network
    BY <2>3, <2>6 DEF Network, AcceptCompletes, ReadCompletes
  <2> QED BY <2>1, <2>4, <2>5, <2>6 DEF Next
<1> QED BY <1>1, <1>2, Invariance, PTL DEF Spec

\* Every step of the server is a step of the contract PosServer, or none:
\* TcpServer implements the safety part of the contract.
THEOREM KeepsContract == Spec => Abstract!Init /\ [][Abstract!Next]_(Abstract!vars)
<1>1. Init => Abstract!Init
  BY DEF Init, Abstract!Init, Phase
<1>2. Inv /\ [Next]_vars => [Abstract!Next]_(Abstract!vars)
  <2> SUFFICES ASSUME Inv, [Next]_vars PROVE [Abstract!Next]_(Abstract!vars)
    OBVIOUS
  <2>1. CASE UNCHANGED vars
    BY <2>1 DEF Abstract!vars, Phase, vars, device
  <2>2. ASSUME callback' = NoServer, UNCHANGED <<servId, caller, notified>>
        PROVE  Abstract!Next
    BY <2>2 DEF Abstract!Next, Abstract!Work, Phase
  <2>3. ASSUME NEW s \in Sessions, NEW called \in BOOLEAN, NEW full \in BOOLEAN,
               RunRecvData(s, called, full)
        PROVE  Abstract!Next
    <3>1. CASE callback' = NoServer
      BY <2>2, <2>3, <3>1, CallbackStep
    <3>2. CASE callback' # NoServer
      <4>1. Phase \in {"on", "stopping"} /\ Phase' = Phase
        BY <2>3, <3>2, CallbackStep DEF Phase
      <4> QED BY <3>2, <4>1 DEF Abstract!Next, Abstract!Callback
    <3> QED BY <3>1, <3>2
  <2>4. CASE Run
    <3>1. ASSUME NEW v \in Servers, RunStop(v) PROVE Abstract!Next
      <4>1. OnStop(v) \in Handler /\ OnStop(v).op = "stop" /\ Runs(OnStop(v), ServerStopPosts(v))
        BY <3>1, ServerHandlers DEF RunStop
      <4>2. Fits(OnStop(v))
        BY <4>1, HeadFits
      <4>3. caller = "stopping" /\ ~notified /\ servId # NoServer
        BY <4>1, <4>2 DEF Fits, Inv, StateInv, DeviceInv
      <4> QED BY <3>1, <4>3 DEF RunStop, device, Phase, Abstract!Next, Abstract!Quiesce
    <3>2. ASSUME NEW s \in Sessions, RunRecv(s) PROVE Abstract!Next
      BY <2>2, <2>3, <3>2 DEF RunRecv, RunRecvDead, RunRecvError, device
    <3>3. ASSUME NEW v \in Servers, NEW n \in Sessions, RunStart(v, n) PROVE Abstract!Next
      BY <2>2, <3>3 DEF RunStart, device
    <3>4. ASSUME NEW v \in Servers, NEW s \in Sessions, RunAccept(v, s) PROVE Abstract!Next
      BY <2>2, <3>4 DEF RunAccept, RunAcceptDead, RunAcceptError, RunAcceptOk, device
    <3>5. ASSUME NEW v \in Servers, RunDeleteServer(v) PROVE Abstract!Next
      BY <2>2, <3>5 DEF RunDeleteServer, device
    <3>6. ASSUME NEW s \in Sessions, RunDeleteSession(s) PROVE Abstract!Next
      BY <2>2, <3>6 DEF RunDeleteSession, device
    <3> QED BY <2>4, <3>1, <3>2, <3>3, <3>4, <3>5, <3>6 DEF Run
  <2>5. CASE Owner
    <3>1. ASSUME NEW v \in Servers, Start(v) PROVE Abstract!Next
      BY <3>1, NullAssumption DEF Start, Phase, Abstract!Next, Abstract!Start
    <3>2. CASE StopCall
      <4>1. ~notified
        BY <3>2 DEF StopCall, Inv, StateInv, DeviceInv
      <4> QED BY <3>2, <4>1 DEF StopCall, HasServer, Phase, Abstract!Next, Abstract!StopCall
    <3>3. CASE StopReturn
      <4>1. servId # NoServer
        BY <3>3 DEF StopReturn, Inv, StateInv, DeviceInv
      <4> QED BY <3>3, <4>1 DEF StopReturn, Woken, Phase, Abstract!Next, Abstract!StopReturn
    <3> QED BY <2>5, <3>1, <3>2, <3>3 DEF Owner
  <2>6. CASE Network
    BY <2>2, <2>6 DEF Network, AcceptCompletes, ReadCompletes, device
  <2> QED BY <2>1, <2>4, <2>5, <2>6 DEF Next
<1> QED BY <1>1, <1>2, Invariance, PTL DEF Spec

-----------------------------------------------------------------------------
(***************************************************************************)
(* The second half: every object is accounted for.  Inv shows that nothing *)
(* that waits is bound to an object that is gone.  Here it is the          *)
(* converse: for each object that is there, something still waits that     *)
(* will use it or delete it.                                               *)
(***************************************************************************)

(***************************************************************************)
(* The accounts.                                                           *)
(***************************************************************************)
\* Session s is its server's current one.
Reads(s) == \E w \in Servers : owner[s] = w /\ current[w] = s

\* What session s is there for.
SessionKept(s) ==
  IF closed[s] THEN IsQueued(DeleteSession(s)) ELSE Unconnected(s) \/ Reads(s)

\* Server v has an accept outstanding, or a handler that will start one.
Listening(v) ==
  accepting[v] # NoSession \/ \E h \in Handler : IsQueued(h) /\ Listens(h) /\ h.srv = v

\* What server v is there for.
ServerKept(v) == IF dead[v] THEN IsQueued(DeleteServer(v)) ELSE Listening(v)

Accounts ==
  /\ \A s \in liveSessions : SessionKept(s)
  /\ \A v \in liveServers : ServerKept(v)

-----------------------------------------------------------------------------
(***************************************************************************)
(* Lemmas on the queue.                                                    *)
(***************************************************************************)
\* Handler x is in the sequence q.
Has(q, x) == \E i \in 1..Len(q) : q[i] = x

\* What either of two sequences has, both together have.
LEMMA ConcatHas ==
  ASSUME NEW p \in Seq(Handler), NEW q \in Seq(Handler), NEW x, Has(p, x) \/ Has(q, x)
  PROVE  Has(p \o q, x)
<1>1. p \o q \in Seq(Handler) /\ Len(p \o q) = Len(p) + Len(q)
      /\ \A i \in 1..Len(p) : (p \o q)[i] = p[i]
      /\ \A j \in 1..Len(q) : (p \o q)[Len(p) + j] = q[j]
  OBVIOUS
<1>2. ASSUME Has(p, x) PROVE Has(p \o q, x)
  <2>1. PICK i \in 1..Len(p) : p[i] = x
    BY <1>2 DEF Has
  <2>2. i \in 1..Len(p \o q)
    BY <1>1
  <2> QED BY <1>1, <2>1, <2>2 DEF Has
<1>3. ASSUME Has(q, x) PROVE Has(p \o q, x)
  <2>1. PICK j \in 1..Len(q) : q[j] = x
    BY <1>3 DEF Has
  <2>2. Len(p) + j \in 1..Len(p \o q)
    BY <1>1
  <2> QED BY <1>1, <2>1, <2>2 DEF Has
<1> QED BY <1>2, <1>3

\* The handlers behind h stay when it runs, and those it posts are there.
LEMMA RunsLeaves ==
  ASSUME Inv, NEW h \in Handler, NEW hs \in Seq(Handler), Runs(h, hs)
  PROVE  /\ \A t \in Handler : IsQueued(t) /\ t # h => IsQueued(t)'
         /\ \A t \in Handler : Has(hs, t) => IsQueued(t)'
<1>1. queue \in Seq(Handler) /\ queue # <<>> /\ Head(queue) = h
      /\ queue' = Tail(queue) \o hs
  BY DEF Inv, TypeOK, Runs
<1>2. /\ Tail(queue) \in Seq(Handler) /\ Len(Tail(queue)) = Len(queue) - 1
      /\ Len(queue) \in Nat \ {0} /\ h = queue[1]
      /\ \A k \in 1..Len(Tail(queue)) : Tail(queue)[k] = queue[k + 1]
  BY <1>1, EmptySeq
<1>3. queue' \in Seq(Handler) /\ \A t \in Handler : Has(queue', t) => IsQueued(t)'
  <2>1. \A q, r \in Seq(Handler) : q \o r \in Seq(Handler)
    OBVIOUS
  <2>2. queue' \in Seq(Handler)
    BY <1>1, <1>2, <2>1, Zenon
  <2> QED BY <2>2 DEF Has, IsQueued
<1>4. ASSUME NEW t \in Handler, IsQueued(t), t # h
      PROVE  IsQueued(t)'
  <2>1. PICK i \in 1..Len(queue) : queue[i] = t
    BY <1>1, <1>4 DEF IsQueued
  <2>2. i - 1 \in 1..Len(Tail(queue)) /\ Tail(queue)[i - 1] = t
    BY <1>2, <1>4, <2>1
  <2>3. Has(Tail(queue), t)
    BY <2>2 DEF Has
  <2> QED BY <1>1, <1>2, <1>3, <2>3, ConcatHas
<1>5. ASSUME NEW t \in Handler, Has(hs, t)
      PROVE  IsQueued(t)'
  BY <1>1, <1>2, <1>3, <1>5, ConcatHas
<1> QED BY <1>4, <1>5

\* The case of a handler that posts nothing.
LEMMA RunsAloneLeaves ==
  ASSUME Inv, NEW h \in Handler, Runs(h, <<>>)
  PROVE  \A t \in Handler : IsQueued(t) /\ t # h => IsQueued(t)'
<1> DEFINE hs == <<>>
<1>1. hs \in Seq(Handler) /\ Runs(h, hs)
  BY NoneOrdered
<1> HIDE DEF hs
<1> QED BY <1>1, RunsLeaves

\* A handler that is posted is there, and so are the others.
LEMMA PostLeaves ==
  ASSUME Inv, NEW h \in Handler, queue' = Append(queue, h)
  PROVE  /\ \A t \in Handler : IsQueued(t) => IsQueued(t)'
         /\ IsQueued(h)'
<1>1. /\ queue \in Seq(Handler) /\ queue' \in Seq(Handler)
      /\ Len(queue') = Len(queue) + 1 /\ Len(queue) \in Nat
      /\ \A k \in 1..Len(queue) : queue'[k] = queue[k]
      /\ queue'[Len(queue) + 1] = h
  BY DEF Inv, TypeOK
<1>2. ASSUME NEW t \in Handler, IsQueued(t)
      PROVE  IsQueued(t)'
  <2>1. PICK i \in 1..Len(queue) : queue[i] = t
    BY <1>1, <1>2 DEF IsQueued
  <2>2. i \in DOMAIN queue' /\ queue'[i] = t
    BY <1>1, <2>1
  <2> QED BY <2>2 DEF IsQueued
<1>3. Len(queue) + 1 \in DOMAIN queue'
  BY <1>1
<1> QED BY <1>1, <1>2, <1>3 DEF IsQueued

\* session::stop posts the deletion of the session.
LEMMA SessionStopDeletes ==
  ASSUME NEW s \in Sessions, ~closed[s]
  PROVE  Has(SessionStopPosts(s), DeleteSession(s))
<1> DEFINE d == DeleteSession(s)
           a == IF reading[s] THEN <<OnRecv(s, FALSE)>> ELSE <<>>
           b == <<d>>
<1>1. SessionStopPosts(s) = a \o b
  BY NullAssumption DEF SessionStopPosts, Stops
<1>2. d \in Handler /\ OnRecv(s, FALSE) \in Handler
  BY SessionHandlers
<1>3. a \in Seq(Handler)
  BY <1>2, NoneOrdered, OneOrdered
<1>4. b \in Seq(Handler) /\ Has(b, d)
  <2>1. b \in Seq(Handler) /\ Len(b) = 1 /\ b[1] = d
    BY <1>2, OneOrdered
  <2> HIDE DEF b
  <2> QED BY <2>1 DEF Has
<1> HIDE DEF a, b, d
<1>5. Has(a \o b, d)
  BY <1>3, <1>4, ConcatHas
<1> QED BY <1>1, <1>5 DEF d

\* tcp_server::stop posts the completion of the accept, the deletion of the
\* current session and that of the server.
LEMMA ServerStopDeletes ==
  ASSUME Inv, NEW v \in Servers, ~dead[v]
  PROVE  /\ Has(ServerStopPosts(v), DeleteServer(v))
         /\ accepting[v] # NoSession =>
              Has(ServerStopPosts(v), OnAccept(v, accepting[v], FALSE))
         /\ current[v] # NoSession => Has(ServerStopPosts(v), DeleteSession(current[v]))
<1> DEFINE d == DeleteServer(v)
           o == OnAccept(v, accepting[v], FALSE)
           a == IF accepting[v] = NoSession THEN <<>> ELSE <<o>>
           b == SessionStopPosts(current[v])
           c == <<d>>
           e == DeleteSession(current[v])
<1>1. ServerStopPosts(v) = (a \o b) \o c
  BY DEF ServerStopPosts
<1>2. /\ accepting[v] \in Sessions \cup {NoSession}
      /\ current[v] \in Sessions \cup {NoSession}
      /\ current[v] # NoSession => ~closed[current[v]]
  BY DEF Inv, TypeOK, StateInv, CurrentInv
<1>3. a \in Seq(Handler) /\ (accepting[v] # NoSession => Has(a, o))
  <2>1. CASE accepting[v] = NoSession
    <3>1. a = <<>>
      BY <2>1
    <3> HIDE DEF a
    <3> QED BY <2>1, <3>1, NoneOrdered
  <2>2. CASE accepting[v] # NoSession
    <3>1. o \in Handler
      BY <1>2, <2>2, AcceptHandlers
    <3>2. a = <<o>>
      BY <2>2
    <3> HIDE DEF a, o
    <3>3. a \in Seq(Handler) /\ Len(a) = 1 /\ a[1] = o
      BY <3>1, <3>2, OneOrdered
    <3> QED BY <3>3 DEF Has
  <2> QED BY <2>1, <2>2
<1>4. b \in Seq(Handler) /\ (current[v] # NoSession => Has(b, e))
  BY <1>2, SessionStopShape, SessionStopDeletes
<1>5. c \in Seq(Handler) /\ Has(c, d)
  <2>1. c \in Seq(Handler) /\ Len(c) = 1 /\ c[1] = d
    BY ServerHandlers, OneOrdered
  <2> HIDE DEF c, d
  <2> QED BY <2>1 DEF Has
<1> HIDE DEF a, b, c, d, e, o
<1> DEFINE ab == a \o b
<1>6. /\ ab \in Seq(Handler)
      /\ accepting[v] # NoSession => Has(ab, o)
      /\ current[v] # NoSession => Has(ab, e)
  BY <1>3, <1>4, ConcatHas
<1> HIDE DEF ab
<1>7. /\ Has(ab \o c, d)
      /\ accepting[v] # NoSession => Has(ab \o c, o)
      /\ current[v] # NoSession => Has(ab \o c, e)
  BY <1>5, <1>6, ConcatHas
<1> QED BY <1>1, <1>7 DEF ab, d, e, o

-----------------------------------------------------------------------------
(***************************************************************************)
(* The objects that a step does not concern keep their accounts.  h is the *)
(* handler that runs or is posted in the step.                             *)
(***************************************************************************)
\* A session that the step neither closes, replaces nor connects.
LEMMA OtherSession ==
  ASSUME NEW h \in Handler, \A t \in Handler : IsQueued(t) /\ t # h => IsQueued(t)',
         NEW s \in Sessions, SessionKept(s), h.op \in {"accept", "delSession"} => h.ses # s,
         closed'[s] = closed[s], owner'[s] = owner[s],
         \A w \in Servers : accepting[w] = s => accepting'[w] = s,
         \A w \in Servers : owner[s] = w /\ current[w] = s => current'[w] = s
  PROVE  SessionKept(s)'
<1>1. CASE closed[s]
  <2>1. DeleteSession(s) \in Handler /\ DeleteSession(s) # h /\ IsQueued(DeleteSession(s))
    BY <1>1, SessionHandlers DEF SessionKept
  <2>2. IsQueued(DeleteSession(s))'
    BY <2>1
  <2> QED BY <1>1, <2>2 DEF SessionKept
<1>2. CASE ~closed[s] /\ Unconnected(s)
  <2>1. ASSUME NEW v \in Servers, NEW ok \in BOOLEAN, IsQueued(OnAccept(v, s, ok))
        PROVE  Unconnected(s)'
    <3>1. OnAccept(v, s, ok) \in Handler /\ OnAccept(v, s, ok) # h
      BY AcceptHandlers
    <3>2. IsQueued(OnAccept(v, s, ok))'
      BY <2>1, <3>1
    <3> QED BY <3>2 DEF Unconnected
  <2>2. Unconnected(s)'
    BY <1>2, <2>1 DEF Unconnected
  <2> QED BY <1>2, <2>2 DEF SessionKept
<1>3. CASE ~closed[s] /\ Reads(s)
  BY <1>3 DEF SessionKept, Reads
<1> QED BY <1>1, <1>2, <1>3 DEF SessionKept

\* A server that the step neither stops nor deletes, nor runs the listening of.
LEMMA OtherServer ==
  ASSUME NEW h \in Handler, \A t \in Handler : IsQueued(t) /\ t # h => IsQueued(t)',
         NEW v \in Servers, ServerKept(v), h.op = "delServer" \/ Listens(h) => h.srv # v,
         dead'[v] = dead[v], accepting'[v] = accepting[v]
  PROVE  ServerKept(v)'
<1>1. CASE dead[v]
  <2>1. DeleteServer(v) \in Handler /\ DeleteServer(v) # h /\ IsQueued(DeleteServer(v))
    BY <1>1, ServerHandlers DEF ServerKept
  <2>2. IsQueued(DeleteServer(v))'
    BY <2>1
  <2> QED BY <1>1, <2>2 DEF ServerKept
<1>2. CASE ~dead[v] /\ accepting[v] # NoSession
  BY <1>2 DEF ServerKept, Listening
<1>3. CASE ~dead[v] /\ accepting[v] = NoSession
  <2>1. PICK t \in Handler : IsQueued(t) /\ Listens(t) /\ t.srv = v
    BY <1>3 DEF ServerKept, Listening
  <2>2. IsQueued(t)'
    BY <2>1
  <2>3. Listening(v)'
    BY <2>1, <2>2 DEF Listening, Listens
  <2> QED BY <1>3, <2>3 DEF ServerKept
<1> QED BY <1>1, <1>2, <1>3

-----------------------------------------------------------------------------
(***************************************************************************)
(* Each action keeps the accounts.                                         *)
(***************************************************************************)
\* The server listens again for the fresh session n.
LEMMA RunStartAccounted ==
  ASSUME Inv, Accounts, NEW v \in Servers, NEW n \in Sessions, RunStart(v, n)
  PROVE  Accounts'
<1> DEFINE h == OnStart(v)
<1>1. h \in Handler /\ h.op = "start" /\ h.srv = v
  BY ServerHandlers
<1> HIDE DEF h
<1>2. Fits(h)
  BY <1>1, HeadFits DEF RunStart, h
<1>3. ~dead[v] /\ accepting[v] = NoSession
  BY <1>1, <1>2, NullAssumption DEF Fits, Listens
<1>4. Runs(h, <<>>)
  BY <1>3 DEF RunStart, ListenPosts, h
<1>5. /\ liveSessions' = liveSessions \cup {n}
      /\ closed' = [closed EXCEPT ![n] = FALSE]
      /\ accepting' = [accepting EXCEPT ![v] = n]
      /\ owner' = [owner EXCEPT ![n] = v]
      /\ UNCHANGED <<liveServers, dead, current>>
  BY <1>3 DEF RunStart, Listen, Inv, TypeOK
<1>6. \A t \in Handler : IsQueued(t) /\ t # h => IsQueued(t)'
  BY <1>1, <1>4, RunsAloneLeaves
<1>7. ASSUME NEW s \in liveSessions' PROVE SessionKept(s)'
  <2>1. CASE s = n
    BY <1>5, <2>1 DEF Inv, TypeOK, SessionKept, Unconnected
  <2>2. CASE s # n
    BY <1>1, <1>3, <1>5, <1>6, <2>2, OtherSession, NullAssumption DEF Inv, TypeOK, Accounts
  <2> QED BY <2>1, <2>2
<1>8. ASSUME NEW w \in liveServers' PROVE ServerKept(w)'
  <2>1. CASE w = v
    BY <1>3, <1>5, <2>1, NullAssumption DEF Inv, TypeOK, ServerKept, Listening
  <2>2. CASE w # v
    BY <1>1, <1>5, <1>6, <2>2, OtherServer DEF Inv, TypeOK, Accounts
  <2> QED BY <2>1, <2>2
<1> QED BY <1>7, <1>8 DEF Accounts

\* The accepted session of a stopped server is deleted.
LEMMA RunAcceptDeadAccounted ==
  ASSUME Inv, Accounts, NEW v \in Servers, NEW s \in Sessions, NEW ok \in BOOLEAN,
         RunAcceptDead(v, s, ok)
  PROVE  Accounts'
<1> DEFINE h == OnAccept(v, s, ok)
<1>1. h \in Handler /\ h.op = "accept" /\ h.srv = v /\ h.ses = s
  BY AcceptHandlers
<1> HIDE DEF h
<1>2. /\ Runs(h, <<>>) /\ dead[v] /\ liveSessions' = liveSessions \ {s}
      /\ UNCHANGED <<liveServers, dead, current, accepting, closed, owner>>
  BY DEF RunAcceptDead, h
<1>3. \A t \in Handler : IsQueued(t) /\ t # h => IsQueued(t)'
  BY <1>1, <1>2, RunsAloneLeaves
<1>4. ASSUME NEW x \in liveSessions' PROVE SessionKept(x)'
  BY <1>1, <1>2, <1>3, OtherSession DEF Inv, TypeOK, Accounts
<1>5. ASSUME NEW w \in liveServers' PROVE ServerKept(w)'
  <2>1. CASE w = v
    <3>1. DeleteServer(v) \in Handler /\ DeleteServer(v) # h
      BY <1>1, ServerHandlers
    <3>2. IsQueued(DeleteServer(v))'
      BY <1>2, <1>3, <2>1, <3>1 DEF Accounts, ServerKept
    <3> QED BY <1>2, <2>1, <3>2 DEF ServerKept
  <2>2. CASE w # v
    BY <1>1, <1>2, <1>3, <2>2, OtherServer DEF Inv, TypeOK, Accounts
  <2> QED BY <2>1, <2>2
<1> QED BY <1>4, <1>5 DEF Accounts

\* The failed session is deleted, and the server listens again.
LEMMA RunAcceptErrorAccounted ==
  ASSUME Inv, Accounts, NEW v \in Servers, NEW s \in Sessions, NEW n \in Sessions,
         RunAcceptError(v, s, n)
  PROVE  Accounts'
<1> DEFINE h == OnAccept(v, s, FALSE)
<1>1. h \in Handler /\ h.op = "accept" /\ h.srv = v /\ h.ses = s
  BY AcceptHandlers
<1> HIDE DEF h
<1>2. /\ Runs(h, <<>>) /\ ~dead[v]
  BY DEF RunAcceptError, ListenPosts, h
<1>3. accepting[v] = NoSession
  BY <1>1, <1>2, HeadFits DEF Fits, Listens
<1>4. /\ liveSessions' = (liveSessions \ {s}) \cup {n}
      /\ closed' = [closed EXCEPT ![n] = FALSE]
      /\ accepting' = [accepting EXCEPT ![v] = n]
      /\ owner' = [owner EXCEPT ![n] = v]
      /\ UNCHANGED <<liveServers, dead, current>>
  BY <1>2 DEF RunAcceptError, Listen, Inv, TypeOK
<1>5. \A t \in Handler : IsQueued(t) /\ t # h => IsQueued(t)'
  BY <1>1, <1>2, RunsAloneLeaves
<1>6. ASSUME NEW x \in liveSessions' PROVE SessionKept(x)'
  <2>1. CASE x = n
    BY <1>4, <2>1 DEF Inv, TypeOK, SessionKept, Unconnected
  <2>2. CASE x # n
    <3>1. x \in liveSessions /\ x \in Sessions /\ x # s /\ SessionKept(x)
      BY <1>4, <2>2 DEF Inv, TypeOK, Accounts
    <3>2. closed'[x] = closed[x] /\ owner'[x] = owner[x]
      BY <1>4, <2>2, <3>1 DEF Inv, TypeOK
    <3>3. \A w \in Servers : accepting[w] = x => accepting'[w] = x
      BY <1>3, <1>4, <3>1, NullAssumption DEF Inv, TypeOK
    <3> QED BY <1>1, <1>4, <1>5, <3>1, <3>2, <3>3, OtherSession
  <2> QED BY <2>1, <2>2
<1>7. ASSUME NEW w \in liveServers' PROVE ServerKept(w)'
  <2>1. CASE w = v
    BY <1>2, <1>4, <2>1, NullAssumption DEF Inv, TypeOK, ServerKept, Listening
  <2>2. CASE w # v
    BY <1>1, <1>4, <1>5, <2>2, OtherServer DEF Inv, TypeOK, Accounts
  <2> QED BY <2>1, <2>2
<1> QED BY <1>6, <1>7 DEF Accounts

\* The new connection is the current one, the old one is deleted, and the
\* server listens again.
LEMMA RunAcceptOkAccounted ==
  ASSUME Inv, Accounts, NEW v \in Servers, NEW s \in Sessions, NEW n \in Sessions,
         RunAcceptOk(v, s, n)
  PROVE  Accounts'
<1> DEFINE h == OnAccept(v, s, TRUE)
           hs == SessionStopPosts(current[v])
<1>1. h \in Handler /\ h.op = "accept" /\ h.srv = v /\ h.ses = s
  BY AcceptHandlers
<1> HIDE DEF h
<1>2. PICK old \in Sessions \cup {NoSession} : old = current[v]
  BY DEF Inv, TypeOK
<1>3. hs \in Seq(Handler)
  BY <1>2, SessionStopShape
<1>4. ~dead[v] /\ ListenPosts(v, n) = <<>>
  BY DEF RunAcceptOk, ListenPosts
<1>5. Runs(h, hs)
  <2>1. Runs(h, hs \o <<>>)
    BY <1>4 DEF RunAcceptOk, Replaced, h
  <2> HIDE DEF hs
  <2> QED BY <1>3, <2>1, ConcatEmptySeq
<1>6. old # NoSession => Has(hs, DeleteSession(old)) /\ DeleteSession(old) \in Handler
  BY <1>2, SessionStopDeletes, SessionHandlers DEF Inv, StateInv, CurrentInv
<1>7. /\ n \notin liveSessions /\ liveSessions' = liveSessions \cup {n}
      /\ current' = [current EXCEPT ![v] = s]
      /\ closed' = [x \in Sessions |->
                      IF x = old THEN TRUE ELSE IF x = n THEN FALSE ELSE closed[x]]
      /\ accepting' = [accepting EXCEPT ![v] = n]
      /\ owner' = [owner EXCEPT ![n] = v]
      /\ UNCHANGED <<liveServers, dead>>
  BY <1>2, <1>4 DEF RunAcceptOk, Replaced, Listen
<1> HIDE DEF hs
<1>8. Fits(h)
  BY <1>1, <1>5, HeadFits
<1>9. /\ s \in liveSessions /\ ~closed[s] /\ owner[s] = v /\ accepting[v] = NoSession
      /\ s # n /\ s # old /\ n # old
  BY <1>1, <1>2, <1>7, <1>8, NullAssumption
     DEF Fits, Listens, Inv, StateInv, CurrentInv
<1>10. /\ \A t \in Handler : IsQueued(t) /\ t # h => IsQueued(t)'
       /\ old # NoSession => IsQueued(DeleteSession(old))'
  BY <1>1, <1>3, <1>5, <1>6, RunsLeaves
<1>11. ASSUME NEW x \in liveSessions' PROVE SessionKept(x)'
  <2>1. CASE x = n
    BY <1>7, <1>9, <2>1 DEF Inv, TypeOK, SessionKept, Unconnected
  <2>2. CASE x = s
    BY <1>7, <1>9, <2>2 DEF Inv, TypeOK, SessionKept, Reads
  <2>3. CASE x = old
    BY <1>7, <1>10, <2>3, NullAssumption DEF Inv, TypeOK, SessionKept
  <2>4. CASE x \notin {n, s, old}
    <3>1. x \in Sessions /\ SessionKept(x) /\ closed'[x] = closed[x] /\ owner'[x] = owner[x]
      BY <1>7, <2>4 DEF Inv, TypeOK, Accounts
    <3>2. /\ \A w \in Servers : accepting[w] = x => accepting'[w] = x
          /\ \A w \in Servers : current[w] = x => current'[w] = x
      BY <1>2, <1>7, <1>9, <2>4, <3>1, NullAssumption DEF Inv, TypeOK
    <3> QED BY <1>1, <1>10, <2>4, <3>1, <3>2, OtherSession
  <2> QED BY <2>1, <2>2, <2>3, <2>4
<1>12. ASSUME NEW w \in liveServers' PROVE ServerKept(w)'
  <2>1. CASE w = v
    BY <1>4, <1>7, <2>1, NullAssumption DEF Inv, TypeOK, ServerKept, Listening
  <2>2. CASE w # v
    BY <1>1, <1>7, <1>10, <2>2, OtherServer DEF Inv, TypeOK, Accounts
  <2> QED BY <2>1, <2>2
<1> QED BY <1>11, <1>12 DEF Accounts

\* on_recv on a stopped session changes nothing.
LEMMA RunRecvDeadAccounted ==
  ASSUME Inv, Accounts, NEW s \in Sessions, NEW ok \in BOOLEAN, RunRecvDead(s, ok)
  PROVE  Accounts'
<1> DEFINE h == OnRecv(s, ok)
<1>1. h \in Handler /\ h.op = "recv"
  BY SessionHandlers
<1> HIDE DEF h
<1>2. /\ Runs(h, <<>>)
      /\ UNCHANGED <<liveServers, liveSessions, dead, current, accepting, closed, owner>>
  BY DEF RunRecvDead, objects, h
<1>3. \A t \in Handler : IsQueued(t) /\ t # h => IsQueued(t)'
  BY <1>1, <1>2, RunsAloneLeaves
<1>4. ASSUME NEW x \in liveSessions' PROVE SessionKept(x)'
  BY <1>1, <1>2, <1>3, OtherSession DEF Inv, TypeOK, Accounts
<1>5. ASSUME NEW w \in liveServers' PROVE ServerKept(w)'
  BY <1>1, <1>2, <1>3, OtherServer DEF Inv, TypeOK, Accounts, Listens
<1> QED BY <1>4, <1>5 DEF Accounts

\* The session that on_recv stops is deleted, and its server has none.
LEMMA StopsSessionAccounted ==
  ASSUME Inv, Accounts, NEW s \in Sessions, NEW h \in Handler, h.op = "recv", h.ses = s,
         StopsSession(s, h)
  PROVE  Accounts'
<1> DEFINE hs == SessionStopPosts(s)
<1>1. hs \in Seq(Handler)
  BY SessionStopShape
<1>2. /\ Runs(h, hs) /\ ~closed[s]
      /\ closed' = [closed EXCEPT ![s] = TRUE]
      /\ current' = [current EXCEPT ![owner[s]] = NoSession]
      /\ UNCHANGED <<liveServers, liveSessions, dead, accepting, owner>>
  BY DEF StopsSession, CloseSession, device
<1>3. Has(hs, DeleteSession(s)) /\ DeleteSession(s) \in Handler
  BY <1>2, SessionStopDeletes, SessionHandlers
<1> HIDE DEF hs
<1>4. PICK v \in Servers : owner[s] = v /\ current[v] = s
  BY <1>2, HeadFits DEF Fits
<1>5. /\ \A t \in Handler : IsQueued(t) /\ t # h => IsQueued(t)'
      /\ IsQueued(DeleteSession(s))'
  BY <1>1, <1>2, <1>3, RunsLeaves
<1>6. ASSUME NEW x \in liveSessions' PROVE SessionKept(x)'
  <2>1. CASE x = s
    BY <1>2, <1>5, <2>1 DEF Inv, TypeOK, SessionKept
  <2>2. CASE x # s
    <3>1. \A w \in Servers : current[w] = x => current'[w] = x
      BY <1>2, <1>4, <2>2 DEF Inv, TypeOK
    <3> QED BY <1>2, <1>5, <2>2, <3>1, OtherSession DEF Inv, TypeOK, Accounts
  <2> QED BY <2>1, <2>2
<1>7. ASSUME NEW w \in liveServers' PROVE ServerKept(w)'
  BY <1>2, <1>5, OtherServer DEF Inv, TypeOK, Accounts, Listens
<1> QED BY <1>6, <1>7 DEF Accounts

\* The accept, the session and the server that stop closes have their last
\* handlers posted.
LEMMA RunStopAccounted ==
  ASSUME Inv, Accounts, NEW v \in Servers, RunStop(v)
  PROVE  Accounts'
<1> DEFINE h == OnStop(v)
           hs == ServerStopPosts(v)
<1>1. h \in Handler /\ h.op = "stop" /\ h.srv = v
  BY ServerHandlers
<1>2. Runs(h, hs)
  BY DEF RunStop
<1> HIDE DEF h
<1>3. ~dead[v]
  BY <1>1, <1>2, HeadFits, NullAssumption DEF Fits, Inv, StateInv, DeviceInv
<1>4. /\ hs \in Seq(Handler)
      /\ Has(hs, DeleteServer(v))
      /\ accepting[v] # NoSession => Has(hs, OnAccept(v, accepting[v], FALSE))
      /\ current[v] # NoSession => Has(hs, DeleteSession(current[v]))
  BY <1>3, ServerStopShape, ServerStopDeletes
<1> HIDE DEF hs
<1>5. PICK a \in Sessions \cup {NoSession} : a = accepting[v]
  BY DEF Inv, TypeOK
<1>6. PICK c \in Sessions \cup {NoSession} : c = current[v]
  BY DEF Inv, TypeOK
<1>7. /\ dead' = [dead EXCEPT ![v] = TRUE]
      /\ accepting' = [accepting EXCEPT ![v] = NoSession]
      /\ current' = [current EXCEPT ![v] = NoSession]
      /\ closed' = [x \in Sessions |-> x = c \/ closed[x]]
      /\ UNCHANGED <<liveServers, liveSessions, owner>>
  BY <1>3, <1>6 DEF RunStop
<1>8. /\ \A t \in Handler : IsQueued(t) /\ t # h => IsQueued(t)'
      /\ \A t \in Handler : Has(hs, t) => IsQueued(t)'
  BY <1>1, <1>2, <1>4, RunsLeaves
<1>9. IsQueued(DeleteServer(v))'
  BY <1>4, <1>8, ServerHandlers
<1>10. a # NoSession => IsQueued(OnAccept(v, a, FALSE))'
  BY <1>4, <1>5, <1>8, AcceptHandlers
<1>11. c # NoSession => IsQueued(DeleteSession(c))'
  BY <1>4, <1>6, <1>8, SessionHandlers
<1>12. ASSUME NEW x \in liveSessions' PROVE SessionKept(x)'
  <2>1. x \in Sessions /\ SessionKept(x) /\ x # NoSession
    BY <1>7, NullAssumption DEF Inv, TypeOK, Accounts
  <2>2. CASE x = c
    BY <1>7, <1>11, <2>1, <2>2 DEF SessionKept
  <2>3. CASE x = a /\ x # c
    <3>1. ~closed'[x]
      BY <1>5, <1>7, <2>1, <2>3 DEF Inv, StateInv, AcceptingInv
    <3>2. Unconnected(x)'
      BY <1>10, <2>1, <2>3 DEF Unconnected
    <3> QED BY <3>1, <3>2 DEF SessionKept
  <2>4. CASE x # a /\ x # c
    <3>1. closed'[x] = closed[x] /\ owner'[x] = owner[x]
      BY <1>7, <2>1, <2>4 DEF Inv, TypeOK
    <3>2. /\ \A w \in Servers : accepting[w] = x => accepting'[w] = x
          /\ \A w \in Servers : current[w] = x => current'[w] = x
      BY <1>5, <1>6, <1>7, <2>4 DEF Inv, TypeOK
    <3> QED BY <1>1, <1>8, <2>1, <3>1, <3>2, OtherSession
  <2> QED BY <2>2, <2>3, <2>4
<1>13. ASSUME NEW w \in liveServers' PROVE ServerKept(w)'
  <2>1. CASE w = v
    BY <1>7, <1>9, <2>1 DEF Inv, TypeOK, ServerKept
  <2>2. CASE w # v
    BY <1>1, <1>7, <1>8, <2>2, OtherServer DEF Inv, TypeOK, Accounts, Listens
  <2> QED BY <2>1, <2>2
<1> QED BY <1>12, <1>13 DEF Accounts

\* The deleted server is the only object the step concerns.
LEMMA RunDeleteServerAccounted ==
  ASSUME Inv, Accounts, NEW v \in Servers, RunDeleteServer(v)
  PROVE  Accounts'
<1> DEFINE h == DeleteServer(v)
<1>1. h \in Handler /\ h.op = "delServer" /\ h.srv = v
  BY ServerHandlers
<1> HIDE DEF h
<1>2. /\ Runs(h, <<>>) /\ liveServers' = liveServers \ {v}
      /\ UNCHANGED <<liveSessions, dead, current, accepting, closed, owner>>
  BY DEF RunDeleteServer, h
<1>3. \A t \in Handler : IsQueued(t) /\ t # h => IsQueued(t)'
  BY <1>1, <1>2, RunsAloneLeaves
<1>4. ASSUME NEW x \in liveSessions' PROVE SessionKept(x)'
  BY <1>1, <1>2, <1>3, OtherSession DEF Inv, TypeOK, Accounts
<1>5. ASSUME NEW w \in liveServers' PROVE ServerKept(w)'
  BY <1>1, <1>2, <1>3, OtherServer DEF Inv, TypeOK, Accounts
<1> QED BY <1>4, <1>5 DEF Accounts

\* The deleted session is the only object the step concerns.
LEMMA RunDeleteSessionAccounted ==
  ASSUME Inv, Accounts, NEW s \in Sessions, RunDeleteSession(s)
  PROVE  Accounts'
<1> DEFINE h == DeleteSession(s)
<1>1. h \in Handler /\ h.op = "delSession" /\ h.ses = s
  BY SessionHandlers
<1> HIDE DEF h
<1>2. /\ Runs(h, <<>>) /\ liveSessions' = liveSessions \ {s}
      /\ UNCHANGED <<liveServers, dead, current, accepting, closed, owner>>
  BY DEF RunDeleteSession, h
<1>3. \A t \in Handler : IsQueued(t) /\ t # h => IsQueued(t)'
  BY <1>1, <1>2, RunsAloneLeaves
<1>4. ASSUME NEW x \in liveSessions' PROVE SessionKept(x)'
  BY <1>1, <1>2, <1>3, OtherSession DEF Inv, TypeOK, Accounts
<1>5. ASSUME NEW w \in liveServers' PROVE ServerKept(w)'
  BY <1>1, <1>2, <1>3, OtherServer DEF Inv, TypeOK, Accounts, Listens
<1> QED BY <1>4, <1>5 DEF Accounts

\* A step that only posts a handler, or only works on buffers, keeps what
\* each object is there for.
LEMMA PostAccounted ==
  ASSUME Inv, Accounts, \A t \in Handler : IsQueued(t) => IsQueued(t)',
         UNCHANGED <<liveServers, liveSessions, dead, current, accepting, closed, owner>>
  PROVE  Accounts'
<1>1. ASSUME NEW x \in liveSessions' PROVE SessionKept(x)'
  <2>1. x \in Sessions /\ SessionKept(x)
    BY <1>1 DEF Inv, TypeOK, Accounts
  <2>2. CASE closed[x]
    BY <2>1, <2>2, SessionHandlers DEF SessionKept
  <2>3. CASE ~closed[x]
    <3>1. Unconnected(x) => Unconnected(x)'
      BY <2>1, AcceptHandlers DEF Unconnected
    <3> QED BY <2>1, <2>3, <3>1 DEF SessionKept, Reads
  <2> QED BY <2>2, <2>3
<1>2. ASSUME NEW w \in liveServers' PROVE ServerKept(w)'
  <2>1. w \in Servers /\ ServerKept(w)
    BY <1>2 DEF Inv, TypeOK, Accounts
  <2>2. CASE dead[w]
    BY <2>1, <2>2, ServerHandlers DEF ServerKept
  <2>3. CASE ~dead[w]
    BY <2>1, <2>3 DEF ServerKept, Listening, Listens
  <2> QED BY <2>2, <2>3
<1> QED BY <1>1, <1>2 DEF Accounts

\* The new server's start handler is posted.
LEMMA StartAccounted ==
  ASSUME Inv, Accounts, NEW v \in Servers, Start(v)
  PROVE  Accounts'
<1> DEFINE h == OnStart(v)
<1>1. h \in Handler /\ h.op = "start" /\ h.srv = v
  BY ServerHandlers
<1> HIDE DEF h
<1>2. /\ queue' = Append(queue, h)
      /\ v \notin liveServers /\ liveServers' = liveServers \cup {v}
      /\ dead' = [dead EXCEPT ![v] = FALSE]
      /\ current' = [current EXCEPT ![v] = NoSession]
      /\ accepting' = [accepting EXCEPT ![v] = NoSession]
      /\ UNCHANGED <<liveSessions, closed, owner>>
  BY DEF Start, h
<1>3. /\ \A t \in Handler : IsQueued(t) => IsQueued(t)'
      /\ IsQueued(h)'
  BY <1>1, <1>2, PostLeaves
<1>4. current[v] = NoSession /\ accepting[v] = NoSession
  BY <1>2 DEF Inv, StateInv, CurrentInv, AcceptingInv
<1>5. ASSUME NEW x \in liveSessions' PROVE SessionKept(x)'
  BY <1>1, <1>2, <1>3, <1>4, OtherSession, NullAssumption DEF Inv, TypeOK, Accounts
<1>6. ASSUME NEW w \in liveServers' PROVE ServerKept(w)'
  <2>1. CASE w = v
    <3>1. Listening(v)'
      BY <1>1, <1>3 DEF Listening, Listens
    <3> QED BY <1>2, <2>1, <3>1 DEF Inv, TypeOK, ServerKept
  <2>2. CASE w # v
    BY <1>1, <1>2, <1>3, <2>2, OtherServer DEF Inv, TypeOK, Accounts
  <2> QED BY <2>1, <2>2
<1> QED BY <1>5, <1>6 DEF Accounts

\* The completion takes the place of the accept.
LEMMA AcceptCompletesAccounted ==
  ASSUME Inv, Accounts, NEW v \in Servers, NEW ok \in BOOLEAN, AcceptCompletes(v, ok)
  PROVE  Accounts'
<1>1. PICK s \in Sessions : s = accepting[v]
  BY DEF AcceptCompletes, Inv, TypeOK
<1> DEFINE h == OnAccept(v, s, ok)
<1>2. h \in Handler /\ h.op = "accept" /\ h.srv = v /\ h.ses = s
  BY AcceptHandlers
<1>3. /\ queue' = Append(queue, h)
      /\ accepting' = [accepting EXCEPT ![v] = NoSession]
      /\ UNCHANGED <<liveServers, liveSessions, dead, current, closed, owner>>
  BY <1>1 DEF AcceptCompletes
<1>4. Unconnected(s)' /\ Listening(v)'
  <2>1. IsQueued(h)'
    BY <1>2, <1>3, PostLeaves
  <2>2. Unconnected(s)'
    BY <2>1 DEF Unconnected
  <2> HIDE DEF h
  <2> QED BY <1>2, <2>1, <2>2 DEF Listening, Listens
<1> HIDE DEF h
<1>5. \A t \in Handler : IsQueued(t) => IsQueued(t)'
  BY <1>2, <1>3, PostLeaves
<1>6. ASSUME NEW x \in liveSessions' PROVE SessionKept(x)'
  <2>1. CASE x = s
    <3>1. ~closed[s]
      BY <1>1, NullAssumption DEF Inv, StateInv, AcceptingInv
    <3> QED BY <1>3, <1>4, <2>1, <3>1 DEF SessionKept
  <2>2. CASE x # s
    BY <1>1, <1>2, <1>3, <1>5, <2>2, OtherSession DEF Inv, TypeOK, Accounts
  <2> QED BY <2>1, <2>2
<1>7. ASSUME NEW w \in liveServers' PROVE ServerKept(w)'
  <2>1. CASE w = v
    <3>1. ~dead[v]
      BY <1>1, NullAssumption DEF Inv, StateInv, AcceptingInv
    <3> QED BY <1>3, <1>4, <2>1, <3>1 DEF ServerKept
  <2>2. CASE w # v
    BY <1>2, <1>3, <1>5, <2>2, OtherServer DEF Inv, TypeOK, Accounts
  <2> QED BY <2>1, <2>2
<1> QED BY <1>6, <1>7 DEF Accounts

-----------------------------------------------------------------------------
(***************************************************************************)
(* The accounts balance in every reachable state, and what follows.        *)
(***************************************************************************)
\* Every step keeps the accounts.
LEMMA NextAccounts == Inv /\ Accounts /\ [Next]_vars => Accounts'
<1> SUFFICES ASSUME Inv, Accounts, [Next]_vars PROVE Accounts'
  OBVIOUS
<1>1. CASE Run
  <2>1. ASSUME NEW v \in Servers, NEW s \in Sessions, RunAccept(v, s) PROVE Accounts'
    BY <2>1, RunAcceptDeadAccounted, RunAcceptErrorAccounted, RunAcceptOkAccounted
       DEF RunAccept
  <2>2. ASSUME NEW s \in Sessions, RunRecvError(s) PROVE Accounts'
    <3>1. OnRecv(s, FALSE) \in Handler /\ OnRecv(s, FALSE).op = "recv"
          /\ OnRecv(s, FALSE).ses = s
      BY SessionHandlers
    <3>2. StopsSession(s, OnRecv(s, FALSE))
      BY <2>2 DEF RunRecvError, Ignores, StopsSession, device
    <3> QED BY <3>1, <3>2, StopsSessionAccounted
  <2>3. ASSUME NEW s \in Sessions, NEW called \in BOOLEAN, NEW full \in BOOLEAN,
               RunRecvData(s, called, full)
        PROVE  Accounts'
    <3> DEFINE h == OnRecv(s, TRUE)
    <3>1. h \in Handler /\ h.op = "recv" /\ h.ses = s
      BY SessionHandlers
    <3>2. CASE full
      <4>1. callback' \in Servers \cup {NoServer}
        BY <2>3 DEF RunRecvData, Inv, TypeOK
      <4>2. StopsSession(s, h)
        BY <2>3, <3>2, <4>1 DEF RunRecvData, Ignores, StopsSession, device
      <4> QED BY <3>1, <4>2, StopsSessionAccounted
    <3>3. CASE ~full
      <4>1. /\ Runs(h, <<>>)
            /\ UNCHANGED <<liveServers, liveSessions, dead, current, accepting, closed,
                           owner>>
        BY <2>3, <3>3 DEF RunRecvData
      <4> HIDE DEF h
      <4>2. \A t \in Handler : IsQueued(t) /\ t # h => IsQueued(t)'
        BY <3>1, <4>1, RunsAloneLeaves
      <4>3. ASSUME NEW x \in liveSessions' PROVE SessionKept(x)'
        BY <3>1, <4>1, <4>2, OtherSession DEF Inv, TypeOK, Accounts
      <4>4. ASSUME NEW w \in liveServers' PROVE ServerKept(w)'
        BY <3>1, <4>1, <4>2, OtherServer DEF Inv, TypeOK, Accounts, Listens
      <4> QED BY <4>3, <4>4 DEF Accounts
    <3> QED BY <3>2, <3>3
  <2>4. ASSUME NEW s \in Sessions, RunRecv(s) PROVE Accounts'
    BY <2>2, <2>3, <2>4, RunRecvDeadAccounted DEF RunRecv
  <2> QED BY <1>1, <2>1, <2>4, RunStartAccounted, RunStopAccounted,
             RunDeleteServerAccounted, RunDeleteSessionAccounted DEF Run
<1>2. CASE Owner
  <2>1. CASE StopCall
    <3>1. OnStop(servId) \in Handler
      BY <2>1, ServerHandlers DEF StopCall, HasServer, Inv, TypeOK
    <3> QED BY <2>1, <3>1, PostLeaves, PostAccounted DEF StopCall, objects
  <2>2. CASE StopReturn
    BY <2>2, PostAccounted DEF StopReturn, objects, IsQueued
  <2> QED BY <1>2, <2>1, <2>2, StartAccounted DEF Owner
<1>3. CASE Network
  <2>1. ASSUME NEW s \in Sessions, NEW ok \in BOOLEAN, ReadCompletes(s, ok)
        PROVE  Accounts'
    <3>1. OnRecv(s, ok) \in Handler
      BY SessionHandlers
    <3> QED BY <2>1, <3>1, PostLeaves, PostAccounted DEF ReadCompletes
  <2> QED BY <1>3, <2>1, AcceptCompletesAccounted DEF Network
<1>4. CASE UNCHANGED vars
  BY <1>4, PostAccounted DEF vars, objects, IsQueued
<1> QED BY <1>1, <1>2, <1>3, <1>4 DEF Next

\* Every object is accounted for in every reachable state.
THEOREM AccountsBalance == Spec => []Accounts
<1>1. Init => Accounts
  BY DEF Init, Accounts
<1>2. Inv /\ Accounts /\ [Next]_vars => Accounts'
  BY NextAccounts
<1> QED BY <1>1, <1>2, Invariance, PTL DEF Spec

\* A server reads from one client, the last one that connected, however many
\* connect and whenever they do.
THEOREM ReadsOneClient == Spec => []OneClient
<1>1. Inv /\ Accounts => OneClient
  BY DEF Inv, TypeOK, Accounts, SessionKept, Reads, OneClient
<1> QED BY <1>1, Invariance, AccountsBalance, PTL

\* No session and no server is forgotten.
THEOREM NothingLeaks == Spec => []NoLeak
<1>1. Inv /\ Accounts => NoLeak
  <2> SUFFICES ASSUME Inv, Accounts PROVE NoLeak
    OBVIOUS
  <2>1. ASSUME NEW s \in liveSessions
        PROVE  \/ Unconnected(s)
               \/ ~closed[s] /\ current[owner[s]] = s /\ owner[s] \in liveServers
               \/ IsQueued(DeleteSession(s))
    <3>1. s \in Sessions /\ SessionKept(s)
      BY DEF Inv, TypeOK, Accounts
    <3>2. ASSUME NEW w \in Servers, owner[s] = w, current[w] = s
          PROVE  w \in liveServers
      BY <3>1, <3>2, NullAssumption DEF Inv, StateInv, CurrentInv
    <3> QED BY <3>1, <3>2 DEF SessionKept, Reads
  <2>2. ASSUME NEW v \in liveServers PROVE v = servId \/ IsQueued(DeleteServer(v))
    BY DEF Inv, StateInv, DeviceInv, Accounts, ServerKept
  <2> QED BY <2>1, <2>2 DEF NoLeak
<1> QED BY <1>1, Invariance, AccountsBalance, PTL

\* A server that is not stopped has one start handler, accept or completion,
\* never none and never two: its accept loop neither dies nor is started
\* twice.
THEOREM NeverDeaf == Spec => []AlwaysListening
<1>1. Inv /\ Accounts => AlwaysListening
  <2> SUFFICES ASSUME Inv, Accounts, NEW v \in liveServers, ~dead[v]
               PROVE  LET pending == {i \in DOMAIN queue :
                            queue[i].srv = v /\ queue[i].op \in {"start", "accept"}}
                      IN /\ v = servId
                         /\ Cardinality(pending)
                              + (IF accepting[v] = NoSession THEN 0 ELSE 1) = 1
    BY DEF AlwaysListening
  <2> DEFINE pending == {i \in DOMAIN queue :
                           queue[i].srv = v /\ queue[i].op \in {"start", "accept"}}
  <2>1. v \in Servers /\ v = servId /\ Listening(v)
    BY DEF Inv, TypeOK, StateInv, DeviceInv, Accounts, ServerKept
  <2>2. /\ DOMAIN queue = 1..Len(queue) /\ Len(queue) \in Nat
        /\ \A i \in DOMAIN queue : queue[i] \in Handler /\ Fits(queue[i])
    BY DEF Inv, TypeOK, AllFit, IsQueued
  <2>3. CASE accepting[v] # NoSession
    <3>1. pending = {}
      BY <2>2, <2>3 DEF Fits, Listens
    <3>2. Cardinality(pending) = 0
      BY <3>1, FS_EmptySet
    <3> HIDE DEF pending
    <3> QED BY <2>1, <2>3, <3>2 DEF pending
  <2>4. CASE accepting[v] = NoSession
    <3>1. PICK t \in Handler : IsQueued(t) /\ Listens(t) /\ t.srv = v
      BY <2>1, <2>4 DEF Listening
    <3>2. PICK i \in DOMAIN queue : queue[i] = t
      BY <3>1 DEF IsQueued
    <3>3. i \in pending
      BY <3>1, <3>2 DEF Listens
    <3>4. ASSUME NEW j \in pending PROVE j = i
      <4>1. /\ i \in 1..Len(queue) /\ j \in 1..Len(queue)
            /\ ~Ok(queue[i], queue[j]) /\ ~Ok(queue[j], queue[i])
        BY <2>2, <3>1, <3>2 DEF Ok, Listens
      <4>2. ~(i < j) /\ ~(j < i)
        BY <4>1 DEF Inv, Ordered
      <4> QED BY <4>1, <4>2
    <3>5. pending = {i}
      BY <3>3, <3>4
    <3>6. Cardinality(pending) = 1
      BY <3>5, FS_Singleton
    <3> HIDE DEF pending
    <3> QED BY <2>1, <2>4, <3>6 DEF pending
  <2> QED BY <2>3, <2>4
<1> QED BY <1>1, Invariance, AccountsBalance, PTL
=============================================================================
