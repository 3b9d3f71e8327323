---------------------------- MODULE UdpServerProofs ----------------------------
(***************************************************************************)
(* Proofs about UdpServer, for any set of servers and any buffer.  As in   *)
(* TcpServerProofs, the invariant says of the queue only what holds of     *)
(* each handler (Fits) and of each two in their order (Ok).                *)
(***************************************************************************)
EXTENDS UdpServer, TLAPS, SequenceTheorems, FiniteSetTheorems

-----------------------------------------------------------------------------
(***************************************************************************)
(* The inductive invariant.                                                *)
(***************************************************************************)
\* The handlers that receive, or go on receiving.
Receives(h) == h.op \in {"start", "recv"}

\* What must hold of a handler a and a handler b behind it: nothing touches a
\* server behind its deletion, a server has one handler that receives, and
\* it is started before it is stopped, once.
Ok(a, b) ==
  /\ a.op = "delete" => b.srv # a.srv
  /\ Receives(a) /\ Receives(b) => a.srv # b.srv
  /\ ~(a.op = "stop" /\ b.op \in {"start", "stop"})

Ordered(q) == \A i, j \in 1..Len(q) : i < j => Ok(q[i], q[j])

\* What must hold of a handler that waits.
Fits(h) ==
  /\ h.srv \in liveServers
  /\ Receives(h) => /\ ~reading[h.srv]
                    /\ h.size = 0 \/ h.size + recvLen[h.srv] <= MaxLine
  /\ h.op = "start" => ~dead[h.srv]
  /\ h.op = "stop" => h.srv = servId /\ caller = "stopping" /\ ~notified
  /\ h.op = "delete" => dead[h.srv]

IsQueued(h) == \E i \in DOMAIN queue : queue[i] = h

AllFit == \A h \in Handler : IsQueued(h) => Fits(h)

\* A server that is not stopped is receiving, or will.
Receiving(v) ==
  reading[v] \/ \E h \in Handler : IsQueued(h) /\ Receives(h) /\ h.srv = v

\* n bytes kept leave room for a receive, or have grown past the buffer.
HasRoom(v, n) == n < MaxLine \/ (converts[v] /\ n = MaxLine + 1)

ReceiveInv ==
  /\ \A v \in Servers : HasRoom(v, recvLen[v])
  /\ \A v \in Servers : reading[v] => v \in liveServers /\ ~dead[v]
  /\ \A v \in liveServers : ~dead[v] => Receiving(v)

DeviceInv ==
  /\ \A v \in liveServers : ~dead[v] => v = servId
  /\ servId # NoServer /\ ~notified => servId \in liveServers /\ ~dead[servId]
  /\ notified => (servId \in liveServers => dead[servId])
  /\ caller = "idle" => ~notified
  /\ caller = "stopping" => servId # NoServer

Inv == TypeOK /\ Ordered(queue) /\ AllFit /\ ReceiveInv /\ DeviceInv

-----------------------------------------------------------------------------
(***************************************************************************)
(* Lemmas on sequences of handlers.                                        *)
(***************************************************************************)
\* Two ordered sequences make an ordered one if each handler of the first
\* may be before each of the second; and its handlers are theirs.
LEMMA ConcatOrdered ==
  ASSUME NEW q \in Seq(Handler), NEW r \in Seq(Handler),
         Ordered(q), Ordered(r),
         \A i \in 1..Len(q), j \in 1..Len(r) : Ok(q[i], r[j])
  PROVE  /\ q \o r \in Seq(Handler)
         /\ Ordered(q \o r)
         /\ \A k \in 1..Len(q \o r) : \/ \E i \in 1..Len(q) : (q \o r)[k] = q[i]
                                      \/ \E j \in 1..Len(r) : (q \o r)[k] = r[j]
<1>1. q \o r \in Seq(Handler) /\ Len(q \o r) = Len(q) + Len(r)
  OBVIOUS
<1>2. ASSUME NEW k \in 1..Len(q \o r)
      PROVE  \/ k \in 1..Len(q) /\ (q \o r)[k] = q[k]
             \/ k - Len(q) \in 1..Len(r) /\ (q \o r)[k] = r[k - Len(q)]
  BY <1>1
<1>3. Ordered(q \o r)
  <2> SUFFICES ASSUME NEW i \in 1..Len(q \o r), NEW j \in 1..Len(q \o r), i < j
               PROVE  Ok((q \o r)[i], (q \o r)[j])
    BY DEF Ordered
  <2>1. CASE j \in 1..Len(q) /\ (q \o r)[j] = q[j]
    <3>1. i \in 1..Len(q) /\ (q \o r)[i] = q[i]
      BY <1>1, <1>2, <2>1
    <3> QED BY <2>1, <3>1 DEF Ordered
  <2>2. CASE j - Len(q) \in 1..Len(r) /\ (q \o r)[j] = r[j - Len(q)]
    <3>1. CASE i \in 1..Len(q) /\ (q \o r)[i] = q[i]
      BY <2>2, <3>1
    <3>2. CASE i - Len(q) \in 1..Len(r) /\ (q \o r)[i] = r[i - Len(q)]
      BY <2>2, <3>2 DEF Ordered
    <3> QED BY <1>2, <3>1, <3>2
  <2> QED BY <1>2, <2>1, <2>2
<1> QED BY <1>1, <1>2, <1>3

\* The rest of an ordered sequence is ordered, its handlers are the others,
\* and each of them may be behind the head.
LEMMA TailOrdered ==
  ASSUME NEW q \in Seq(Handler), q # <<>>, Ordered(q)
  PROVE  /\ Tail(q) \in Seq(Handler)
         /\ Ordered(Tail(q))
         /\ \A k \in 1..Len(Tail(q)) :
              /\ \E i \in 1..Len(q) : Tail(q)[k] = q[i]
              /\ Ok(Head(q), Tail(q)[k])
<1>1. /\ Tail(q) \in Seq(Handler) /\ Len(Tail(q)) = Len(q) - 1 /\ Len(q) \in Nat \ {0}
      /\ Head(q) = q[1]
      /\ \A k \in 1..Len(Tail(q)) : Tail(q)[k] = q[k + 1]
  BY EmptySeq
<1> QED BY <1>1 DEF Ordered

\* A single handler is an ordered sequence.
LEMMA OneOrdered ==
  ASSUME NEW h \in Handler
  PROVE  <<h>> \in Seq(Handler) /\ Len(<<h>>) = 1 /\ <<h>>[1] = h /\ Ordered(<<h>>)
BY DEF Ordered

\* The empty sequence is ordered.
LEMMA NoneOrdered == <<>> \in Seq(Handler) /\ Len(<<>>) = 0 /\ Ordered(<<>>)
BY DEF Ordered

-----------------------------------------------------------------------------
(***************************************************************************)
(* Lemmas on the steps of the queue.                                       *)
(***************************************************************************)
\* The handlers the code posts, and their fields.
LEMMA Handlers ==
  ASSUME NEW v \in Servers, NEW op \in {"start", "stop", "delete", "recv"}
  PROVE  /\ H(op, v, 0) \in Handler
         /\ H(op, v, 0).op = op /\ H(op, v, 0).srv = v /\ H(op, v, 0).size = 0
BY MaxLineAssumption DEF Handler, H

\* A completed receive, and its fields.
LEMMA Completions ==
  ASSUME NEW v \in Servers, NEW n \in 0..MaxLine
  PROVE  /\ H("recv", v, n) \in Handler
         /\ H("recv", v, n).op = "recv" /\ H("recv", v, n).srv = v
         /\ H("recv", v, n).size = n
BY DEF Handler, H

\* The handler that runs has waited.
LEMMA HeadFits ==
  ASSUME Inv, NEW h \in Handler, NEW hs, Runs(h, hs)
  PROVE  Fits(h)
<1>1. queue \in Seq(Handler) /\ queue # <<>> /\ queue[1] = h /\ 1 \in DOMAIN queue
  BY EmptySeq DEF Inv, TypeOK, Runs
<1> QED BY <1>1 DEF Inv, AllFit, IsQueued

\* When h runs and posts hs, each handler then in the queue waited behind h
\* or is one of hs.
LEMMA RunsKeeps ==
  ASSUME Inv, NEW h \in Handler, NEW hs \in Seq(Handler), Runs(h, hs), Ordered(hs),
         \A t \in Handler : Fits(t) /\ Ok(h, t) => \A j \in 1..Len(hs) : Ok(t, hs[j])
  PROVE  /\ queue' \in Seq(Handler)
         /\ Ordered(queue')
         /\ \A t \in Handler : IsQueued(t)' =>
              \/ Fits(t) /\ Ok(h, t)
              \/ \E j \in 1..Len(hs) : t = hs[j]
<1>1. queue \in Seq(Handler) /\ queue # <<>> /\ Head(queue) = h /\ Ordered(queue)
      /\ queue' = Tail(queue) \o hs
  BY DEF Inv, TypeOK, Runs
<1>2. /\ Tail(queue) \in Seq(Handler) /\ Ordered(Tail(queue))
      /\ \A k \in 1..Len(Tail(queue)) : /\ \E i \in 1..Len(queue) : Tail(queue)[k] = queue[i]
                                        /\ Ok(h, Tail(queue)[k])
  BY <1>1, TailOrdered
<1>3. \A k \in 1..Len(Tail(queue)) :
        Tail(queue)[k] \in Handler /\ Fits(Tail(queue)[k]) /\ Ok(h, Tail(queue)[k])
  <2> SUFFICES ASSUME NEW k \in 1..Len(Tail(queue))
               PROVE  Tail(queue)[k] \in Handler /\ Fits(Tail(queue)[k])
    BY <1>2
  <2>1. PICK i \in 1..Len(queue) : Tail(queue)[k] = queue[i]
    BY <1>2
  <2>2. queue[i] \in Handler /\ IsQueued(queue[i])
    BY <1>1 DEF IsQueued
  <2> QED BY <2>1, <2>2 DEF Inv, AllFit
<1>4. \A i \in 1..Len(Tail(queue)), j \in 1..Len(hs) : Ok(Tail(queue)[i], hs[j])
  BY <1>3
<1>5. /\ queue' \in Seq(Handler)
      /\ Ordered(queue')
      /\ \A k \in 1..Len(queue') :
           \/ \E i \in 1..Len(Tail(queue)) : queue'[k] = Tail(queue)[i]
           \/ \E j \in 1..Len(hs) : queue'[k] = hs[j]
  <2> DEFINE q == Tail(queue)
  <2>1. q \in Seq(Handler) /\ Ordered(q)
        /\ \A i \in 1..Len(q), j \in 1..Len(hs) : Ok(q[i], hs[j])
    BY <1>2, <1>4
  <2>2. queue' = q \o hs
    BY <1>1
  <2> HIDE DEF q
  <2>3. /\ q \o hs \in Seq(Handler)
        /\ Ordered(q \o hs)
        /\ \A k \in 1..Len(q \o hs) : \/ \E i \in 1..Len(q) : (q \o hs)[k] = q[i]
                                      \/ \E j \in 1..Len(hs) : (q \o hs)[k] = hs[j]
    BY <2>1, ConcatOrdered
  <2> QED BY <2>2, <2>3 DEF q
<1>6. ASSUME NEW t \in Handler, IsQueued(t)'
      PROVE  \/ Fits(t) /\ Ok(h, t)
             \/ \E j \in 1..Len(hs) : t = hs[j]
  <2>1. PICK k \in DOMAIN queue' : queue'[k] = t
    BY <1>6 DEF IsQueued
  <2>2. k \in 1..Len(queue')
    BY <1>5
  <2> QED BY <1>3, <1>5, <2>1, <2>2
<1> QED BY <1>5, <1>6

\* When a thread posts h, h may be behind every handler that waits.
LEMMA PostKeeps ==
  ASSUME Inv, NEW h \in Handler, queue' = Append(queue, h),
         \A t \in Handler : Fits(t) => Ok(t, h)
  PROVE  /\ queue' \in Seq(Handler)
         /\ Ordered(queue')
         /\ \A t \in Handler : IsQueued(t)' => Fits(t) \/ t = h
<1>1. queue \in Seq(Handler) /\ Ordered(queue)
  BY DEF Inv, TypeOK
<1>2. /\ queue' \in Seq(Handler) /\ Len(queue') = Len(queue) + 1
      /\ \A k \in 1..Len(queue) : queue'[k] = queue[k]
      /\ queue'[Len(queue) + 1] = h
  BY <1>1
<1>3. \A k \in 1..Len(queue) : queue[k] \in Handler /\ Fits(queue[k])
  BY <1>1 DEF Inv, AllFit, IsQueued
<1>4. Ordered(queue')
  BY <1>1, <1>2, <1>3 DEF Ordered
<1>5. ASSUME NEW t \in Handler, IsQueued(t)'
      PROVE  Fits(t) \/ t = h
  <2>1. PICK k \in DOMAIN queue' : queue'[k] = t
    BY <1>5 DEF IsQueued
  <2>2. k \in 1..Len(queue) \/ k = Len(queue) + 1
    BY <1>1, <1>2, <2>1
  <2> QED BY <1>2, <1>3, <2>1, <2>2
<1> QED BY <1>2, <1>4, <1>5

\* The case of a handler that posts nothing.
LEMMA RunsAlone ==
  ASSUME Inv, NEW h \in Handler, Runs(h, <<>>)
  PROVE  /\ Fits(h)
         /\ queue' \in Seq(Handler)
         /\ Ordered(queue)'
         /\ \A t \in Handler : IsQueued(t)' => Fits(t) /\ Ok(h, t)
<1>1. Fits(h)
  BY HeadFits
<1> DEFINE hs == <<>>
<1>2. hs \in Seq(Handler) /\ Len(hs) = 0 /\ Ordered(hs)
  BY NoneOrdered
<1>3. Runs(h, hs)
  OBVIOUS
<1> HIDE DEF hs
<1>4. \A j \in 1..Len(hs) : FALSE
  BY <1>2
<1>5. \A t \in Handler : Fits(t) /\ Ok(h, t) => \A j \in 1..Len(hs) : Ok(t, hs[j])
  BY <1>4
<1>6. /\ queue' \in Seq(Handler)
      /\ Ordered(queue')
      /\ \A t \in Handler : IsQueued(t)' =>
           (Fits(t) /\ Ok(h, t)) \/ \E j \in 1..Len(hs) : t = hs[j]
  BY <1>2, <1>3, <1>5, RunsKeeps
<1>7. Ordered(queue)'
  BY <1>6 DEF Ordered
<1> QED BY <1>1, <1>4, <1>6, <1>7

\* The handlers behind h stay when it runs, and those it posts are there.
LEMMA RunsLeaves ==
  ASSUME Inv, NEW h \in Handler, NEW hs \in Seq(Handler), Runs(h, hs)
  PROVE  /\ \A t \in Handler : IsQueued(t) /\ t # h => IsQueued(t)'
         /\ \A j \in 1..Len(hs) : IsQueued(hs[j])'
<1>1. queue \in Seq(Handler) /\ queue # <<>> /\ Head(queue) = h
      /\ queue' = Tail(queue) \o hs
  BY DEF Inv, TypeOK, Runs
<1>2. /\ Tail(queue) \in Seq(Handler) /\ Len(Tail(queue)) = Len(queue) - 1
      /\ Len(queue) \in Nat \ {0} /\ h = queue[1]
      /\ \A k \in 1..Len(Tail(queue)) : Tail(queue)[k] = queue[k + 1]
  BY <1>1, EmptySeq
<1>3. /\ queue' \in Seq(Handler) /\ Len(queue') = Len(queue) - 1 + Len(hs)
      /\ \A k \in 1..(Len(queue) - 1) : queue'[k] = queue[k + 1]
      /\ \A j \in 1..Len(hs) : queue'[Len(queue) - 1 + j] = hs[j]
  BY <1>1, <1>2
<1>4. ASSUME NEW t \in Handler, IsQueued(t), t # h
      PROVE  IsQueued(t)'
  <2>1. PICK i \in 1..Len(queue) : queue[i] = t
    BY <1>1, <1>4 DEF IsQueued
  <2>2. i - 1 \in 1..(Len(queue) - 1) /\ queue'[i - 1] = t
    BY <1>2, <1>3, <1>4, <2>1
  <2>3. i - 1 \in DOMAIN queue'
    BY <1>2, <1>3, <2>2
  <2> QED BY <2>2, <2>3 DEF IsQueued
<1>5. ASSUME NEW j \in 1..Len(hs)
      PROVE  IsQueued(hs[j])'
  <2>1. Len(queue) - 1 + j \in DOMAIN queue'
    BY <1>2, <1>3
  <2> QED BY <1>3, <2>1 DEF IsQueued
<1> QED BY <1>4, <1>5

\* A handler that is posted is there, and so are the others.
LEMMA PostLeaves ==
  ASSUME Inv, NEW h \in Handler, queue' = Append(queue, h)
  PROVE  /\ \A t \in Handler : IsQueued(t) => IsQueued(t)'
         /\ IsQueued(h)'
<1>1. /\ queue \in Seq(Handler) /\ queue' \in Seq(Handler)
      /\ Len(queue') = Len(queue) + 1 /\ Len(queue) \in Nat
      /\ \A k \in 1..Len(queue) : queue'[k] = queue[k]
      /\ queue'[Len(queue) + 1] = h
  BY DEF Inv, TypeOK
<1>2. ASSUME NEW t \in Handler, IsQueued(t)
      PROVE  IsQueued(t)'
  <2>1. PICK i \in 1..Len(queue) : queue[i] = t
    BY <1>1, <1>2 DEF IsQueued
  <2>2. i \in DOMAIN queue' /\ queue'[i] = t
    BY <1>1, <2>1
  <2> QED BY <2>2 DEF IsQueued
<1>3. Len(queue) + 1 \in DOMAIN queue'
  BY <1>1
<1> QED BY <1>1, <1>2, <1>3 DEF IsQueued

\* The case of the server v that goes on receiving: h, which receives, runs
\* while v is not stopped, and posts nothing.
LEMMA OthersReceive ==
  ASSUME Inv, NEW h \in Handler, Runs(h, <<>>),
         NEW w \in Servers, w # h.srv \/ ~Receives(h), Receiving(w),
         reading'[w] = reading[w]
  PROVE  Receiving(w)'
<1> DEFINE hs == <<>>
<1>1. hs \in Seq(Handler) /\ Runs(h, hs)
  BY NoneOrdered
<1> HIDE DEF hs
<1>2. \A t \in Handler : IsQueued(t) /\ t # h => IsQueued(t)'
  BY <1>1, RunsLeaves
<1>3. CASE reading[w]
  BY <1>3 DEF Receiving
<1>4. CASE ~reading[w]
  <2>1. PICK t \in Handler : IsQueued(t) /\ Receives(t) /\ t.srv = w
    BY <1>4 DEF Receiving
  <2>2. IsQueued(t)'
    BY <1>2, <2>1
  <2> QED BY <2>1, <2>2 DEF Receiving, Receives
<1> QED BY <1>3, <1>4

-----------------------------------------------------------------------------
(***************************************************************************)
(* Each action keeps the invariant.                                        *)
(***************************************************************************)
\* A server that starts to receive, or goes on: h runs, the server is not
\* stopped, and n bytes are kept in its buffer.
LEMMA ReceiveKeepsInv ==
  ASSUME Inv, NEW v \in Servers, NEW h \in Handler, Receives(h), h.srv = v,
         Runs(h, ReceivePosts(v)), ~dead[v], Receive(v),
         NEW n \in Nat, HasRoom(v, n), recvLen' = [recvLen EXCEPT ![v] = n],
         callback' \in Servers \cup {NoServer},
         UNCHANGED <<liveServers, dead, converts, servId, caller, notified>>
  PROVE  Inv'
<1>1. Runs(h, <<>>) /\ reading' = [reading EXCEPT ![v] = TRUE]
  BY DEF ReceivePosts, Receive
<1>2. /\ Fits(h)
      /\ queue' \in Seq(Handler)
      /\ Ordered(queue)'
      /\ \A t \in Handler : IsQueued(t)' => Fits(t) /\ Ok(h, t)
  BY <1>1, RunsAlone
<1>3. TypeOK'
  <2>1. n \in 0..(MaxLine + 1)
    BY MaxLineAssumption DEF HasRoom
  <2> QED BY <1>1, <1>2, <2>1 DEF Inv, TypeOK
<1>4. AllFit'
  <2> SUFFICES ASSUME NEW t \in Handler, IsQueued(t)'
               PROVE  Fits(t)'
    BY DEF AllFit
  <2>1. Fits(t) /\ (Receives(t) => t.srv # v) /\ t.srv \in Servers
    BY <1>2 DEF Ok, Handler
  <2> QED BY <1>1, <2>1 DEF Fits, Receives, Inv, TypeOK
<1>5. ReceiveInv'
  <2>1. \A w \in Servers : HasRoom(w, recvLen[w])'
    BY DEF Inv, TypeOK, ReceiveInv, HasRoom
  <2>2. \A w \in Servers : reading'[w] => w \in liveServers' /\ ~dead'[w]
    BY <1>1, <1>2 DEF Inv, TypeOK, ReceiveInv, Fits
  <2>3. ASSUME NEW w \in liveServers', ~dead'[w] PROVE Receiving(w)'
    <3>1. w \in Servers /\ Receiving(w)
      BY <2>3 DEF Inv, TypeOK, ReceiveInv
    <3>2. CASE w = v
      BY <1>1, <3>2 DEF Receiving, Inv, TypeOK
    <3>3. CASE w # v
      <4>1. reading'[w] = reading[w]
        BY <1>1, <3>1, <3>3 DEF Inv, TypeOK
      <4> QED BY <1>1, <3>1, <3>3, <4>1, OthersReceive
    <3> QED BY <3>2, <3>3
  <2> QED BY <2>1, <2>2, <2>3 DEF ReceiveInv
<1>6. DeviceInv'
  BY DEF Inv, DeviceInv
<1> QED BY <1>2, <1>3, <1>4, <1>5, <1>6 DEF Inv

\* A server is started before it is stopped.
LEMMA RunStartKeepsInv ==
  ASSUME Inv, NEW v \in Servers, RunStart(v)
  PROVE  Inv'
<1> DEFINE h == H("start", v, 0)
<1>1. h \in Handler /\ h.op = "start" /\ h.srv = v
  BY Handlers
<1>2. Runs(h, ReceivePosts(v))
  BY DEF RunStart
<1> HIDE DEF h
<1>3. ~dead[v]
  BY <1>1, <1>2, HeadFits DEF Fits
<1>4. /\ recvLen[v] \in Nat /\ HasRoom(v, recvLen[v])
      /\ recvLen' = [recvLen EXCEPT ![v] = recvLen[v]]
  BY DEF Inv, TypeOK, ReceiveInv, RunStart
<1> QED BY <1>1, <1>2, <1>3, <1>4, ReceiveKeepsInv DEF RunStart, Receives

\* on_recv on a stopped server changes nothing.
LEMMA RunRecvDeadKeepsInv ==
  ASSUME Inv, NEW v \in Servers, NEW n \in 0..MaxLine, RunRecvDead(v, n)
  PROVE  Inv'
<1> DEFINE h == H("recv", v, n)
<1>1. h \in Handler /\ h.op = "recv" /\ h.srv = v
  BY Completions
<1>2. Runs(h, <<>>) /\ dead[v] /\ callback' = NoServer
      /\ UNCHANGED <<liveServers, dead, converts, recvLen, reading, servId, caller, notified>>
  BY DEF RunRecvDead, Ignores, objects
<1> HIDE DEF h
<1>3. /\ queue' \in Seq(Handler)
      /\ Ordered(queue)'
      /\ \A t \in Handler : IsQueued(t)' => Fits(t)
  BY <1>1, <1>2, RunsAlone
<1>4. TypeOK'
  BY <1>2, <1>3 DEF Inv, TypeOK
<1>5. AllFit'
  BY <1>2, <1>3 DEF AllFit, Fits
<1>6. ReceiveInv'
  <2>1. ASSUME NEW w \in liveServers', ~dead'[w] PROVE Receiving(w)'
    <3>1. w \in Servers /\ Receiving(w) /\ w # h.srv
      BY <1>1, <1>2, <2>1 DEF Inv, TypeOK, ReceiveInv
    <3> QED BY <1>1, <1>2, <3>1, OthersReceive
  <2> QED BY <1>2, <2>1 DEF Inv, ReceiveInv, HasRoom
<1>7. DeviceInv'
  BY <1>2 DEF Inv, DeviceInv
<1> QED BY <1>3, <1>4, <1>5, <1>6, <1>7 DEF Inv

\* An error, or an empty datagram, keeps the bytes received before.
LEMMA RunRecvNothingKeepsInv ==
  ASSUME Inv, NEW v \in Servers, RunRecvNothing(v)
  PROVE  Inv'
<1> DEFINE h == H("recv", v, 0)
<1>1. h \in Handler /\ h.op = "recv" /\ h.srv = v
  BY Handlers
<1>2. Runs(h, ReceivePosts(v)) /\ ~dead[v]
  BY DEF RunRecvNothing, Ignores
<1> HIDE DEF h
<1>3. /\ recvLen[v] \in Nat /\ HasRoom(v, recvLen[v])
      /\ recvLen' = [recvLen EXCEPT ![v] = recvLen[v]]
  BY DEF Inv, TypeOK, ReceiveInv, RunRecvNothing
<1> QED BY <1>1, <1>2, <1>3, ReceiveKeepsInv DEF RunRecvNothing, Receives

\* What on_data leaves fits in the buffer, and a full buffer is emptied.
LEMMA RunRecvDataKeepsInv ==
  ASSUME Inv, NEW v \in Servers, NEW n \in 0..MaxLine, NEW called \in BOOLEAN,
         NEW rest \in Rests(v, n), RunRecvData(v, n, called, rest)
  PROVE  Inv'
<1> DEFINE h == H("recv", v, n)
<1>1. h \in Handler /\ h.op = "recv" /\ h.srv = v /\ h.size = n
  BY Completions
<1>2. Runs(h, ReceivePosts(v)) /\ ~dead[v]
  BY DEF RunRecvData, Ignores
<1> HIDE DEF h
<1>3. Kept(rest) \in Nat /\ HasRoom(v, Kept(rest))
  <2>1. n > 0 /\ n \in Nat
    BY MaxLineAssumption DEF RunRecvData
  <2>2. recvLen[v] \in Nat /\ n + recvLen[v] <= MaxLine
    BY <1>1, <1>2, <2>1, HeadFits, MaxLineAssumption DEF Fits, Receives, Inv, TypeOK
  <2>3. CASE converts[v]
    BY <2>3, MaxLineAssumption DEF Rests, Kept, HasRoom
  <2>4. CASE ~converts[v]
    BY <2>2, <2>4, MaxLineAssumption DEF Rests, Kept, HasRoom
  <2> QED BY <2>3, <2>4
<1> QED BY <1>1, <1>2, <1>3, ReceiveKeepsInv DEF RunRecvData, Receives

\* The server deleted has been stopped, and no handler behind names it.
LEMMA RunDeleteKeepsInv ==
  ASSUME Inv, NEW v \in Servers, RunDelete(v)
  PROVE  Inv'
<1> DEFINE h == H("delete", v, 0)
<1>1. h \in Handler /\ h.op = "delete" /\ h.srv = v
  BY Handlers
<1>2. Runs(h, <<>>) /\ liveServers' = liveServers \ {v} /\ callback' = NoServer
      /\ UNCHANGED <<dead, converts, recvLen, reading, servId, caller, notified>>
  BY DEF RunDelete
<1> HIDE DEF h
<1>3. /\ Fits(h)
      /\ queue' \in Seq(Handler)
      /\ Ordered(queue)'
      /\ \A t \in Handler : IsQueued(t)' => Fits(t) /\ Ok(h, t)
  BY <1>1, <1>2, RunsAlone
<1>4. dead[v]
  BY <1>1, <1>3 DEF Fits
<1>5. TypeOK'
  BY <1>2, <1>3 DEF Inv, TypeOK
<1>6. AllFit'
  <2> SUFFICES ASSUME NEW t \in Handler, IsQueued(t)'
               PROVE  Fits(t)'
    BY DEF AllFit
  <2> QED BY <1>1, <1>2, <1>3 DEF Fits, Ok
<1>7. ReceiveInv'
  <2>1. ASSUME NEW w \in liveServers', ~dead'[w] PROVE Receiving(w)'
    <3>1. w \in Servers /\ Receiving(w) /\ w # h.srv
      BY <1>1, <1>2, <1>4, <2>1 DEF Inv, TypeOK, ReceiveInv
    <3> QED BY <1>1, <1>2, <3>1, OthersReceive
  <2> QED BY <1>2, <1>4, <2>1 DEF Inv, ReceiveInv, HasRoom
<1>8. DeviceInv'
  BY <1>2, <1>4 DEF Inv, DeviceInv
<1> QED BY <1>3, <1>5, <1>6, <1>7, <1>8 DEF Inv

\* x is a handler that the stop of server v posts.
ClosesServer(v, x) ==
  /\ x \in Handler /\ x.srv = v /\ x.size = 0
  /\ x.op = "delete" \/ (x.op = "recv" /\ reading[v])

\* What udp_server::stop posts: the completion of the receive, then the
\* deletion.
LEMMA StopShape ==
  ASSUME NEW v \in Servers, ~dead[v]
  PROVE  /\ StopPosts(v) \in Seq(Handler)
         /\ Ordered(StopPosts(v))
         /\ \A j \in 1..Len(StopPosts(v)) : ClosesServer(v, StopPosts(v)[j])
<1> DEFINE r == H("recv", v, 0)
           d == H("delete", v, 0)
           a == <<r>>
           b == <<d>>
           q == a \o b
<1>1. /\ r \in Handler /\ r.op = "recv" /\ r.srv = v /\ r.size = 0
      /\ d \in Handler /\ d.op = "delete" /\ d.srv = v /\ d.size = 0
  BY Handlers
<1>2. StopPosts(v) = (IF reading[v] THEN a ELSE <<>>) \o b
  BY DEF StopPosts
<1> HIDE DEF r, d
<1>3. /\ ClosesServer(v, d)
      /\ reading[v] => ClosesServer(v, r)
      /\ Ok(r, d)
  BY <1>1 DEF ClosesServer, Ok, Receives
<1>4. /\ a \in Seq(Handler) /\ Len(a) = 1 /\ a[1] = r /\ Ordered(a)
      /\ b \in Seq(Handler) /\ Len(b) = 1 /\ b[1] = d /\ Ordered(b)
  BY <1>1, OneOrdered
<1> HIDE DEF a, b
<1>5. CASE reading[v]
  <2>1. \A i \in 1..Len(a), j \in 1..Len(b) : Ok(a[i], b[j])
    BY <1>3, <1>4
  <2>2. /\ q \in Seq(Handler)
        /\ Ordered(q)
        /\ \A k \in 1..Len(q) : \/ \E i \in 1..Len(a) : q[k] = a[i]
                               \/ \E j \in 1..Len(b) : q[k] = b[j]
    BY <1>4, <2>1, ConcatOrdered
  <2> HIDE DEF q
  <2>3. \A k \in 1..Len(q) : q[k] = r \/ q[k] = d
    BY <1>4, <2>2
  <2>4. \A k \in 1..Len(q) : ClosesServer(v, q[k])
    BY <1>3, <1>5, <2>3
  <2>5. StopPosts(v) = q
    BY <1>2, <1>5 DEF q
  <2> QED BY <2>2, <2>4, <2>5
<1>6. CASE ~reading[v]
  <2>1. StopPosts(v) = b
    BY <1>2, <1>4, <1>6, ConcatEmptySeq
  <2>2. \A k \in 1..Len(b) : ClosesServer(v, b[k])
    BY <1>3, <1>4
  <2> QED BY <1>4, <2>1, <2>2
<1> QED BY <1>5, <1>6

\* The handler of the device's stop closes the device's server, which is
\* started and not stopped.
LEMMA StopFits ==
  ASSUME Inv, NEW v \in Servers, RunStop(v)
  PROVE  v = servId /\ caller = "stopping" /\ ~notified /\ v \in liveServers /\ ~dead[v]
<1> DEFINE h == H("stop", v, 0)
<1>1. h \in Handler /\ h.op = "stop" /\ h.srv = v
  BY Handlers
<1>2. Runs(h, StopPosts(v))
  BY DEF RunStop
<1> HIDE DEF h
<1>3. Fits(h)
  BY <1>1, <1>2, HeadFits
<1> QED BY <1>1, <1>3, NullAssumption DEF Fits, Inv, DeviceInv

\* stop posts the deletion behind the last completion.
LEMMA RunStopKeepsInv ==
  ASSUME Inv, NEW v \in Servers, RunStop(v)
  PROVE  Inv'
<1> DEFINE h == H("stop", v, 0)
           hs == StopPosts(v)
<1>1. h \in Handler /\ h.op = "stop" /\ h.srv = v
  BY Handlers
<1>2. /\ Runs(h, hs) /\ dead' = [dead EXCEPT ![v] = TRUE]
      /\ reading' = [reading EXCEPT ![v] = FALSE] /\ notified' = TRUE
      /\ callback' = NoServer
      /\ UNCHANGED <<liveServers, converts, recvLen, servId, caller>>
  BY DEF RunStop
<1> HIDE DEF h
<1>3. v = servId /\ caller = "stopping" /\ ~notified /\ v \in liveServers /\ ~dead[v]
  BY StopFits
<1>4. /\ hs \in Seq(Handler)
      /\ Ordered(hs)
      /\ \A j \in 1..Len(hs) : ClosesServer(v, hs[j])
  BY <1>3, StopShape
<1> HIDE DEF hs
<1>5. ASSUME NEW t \in Handler, Fits(t), Ok(h, t), NEW j \in 1..Len(hs)
      PROVE  Ok(t, hs[j])
  <2>1. ClosesServer(v, hs[j])
    BY <1>4
  <2> QED BY <1>1, <1>3, <1>5, <2>1 DEF Ok, Fits, Receives, ClosesServer
<1>6. /\ queue' \in Seq(Handler)
      /\ Ordered(queue')
      /\ \A t \in Handler : IsQueued(t)' =>
           \/ Fits(t) /\ Ok(h, t)
           \/ \E j \in 1..Len(hs) : t = hs[j]
  BY <1>1, <1>2, <1>4, <1>5, RunsKeeps
<1>7. TypeOK'
  BY <1>2, <1>6 DEF Inv, TypeOK
<1>8. AllFit'
  <2> SUFFICES ASSUME NEW t \in Handler, IsQueued(t)'
               PROVE  Fits(t)'
    BY DEF AllFit
  <2>1. t.srv \in Servers
    BY DEF Handler
  <2>2. CASE Fits(t) /\ Ok(h, t)
    BY <1>1, <1>2, <2>1, <2>2 DEF Fits, Ok, Receives, Inv, TypeOK
  <2>3. CASE ClosesServer(v, t)
    BY <1>2, <1>3, <2>3
       DEF Fits, Receives, ClosesServer, Inv, TypeOK
  <2> QED BY <1>4, <1>6, <2>2, <2>3
<1>9. ReceiveInv'
  BY <1>2, <1>3 DEF Inv, TypeOK, ReceiveInv, HasRoom, DeviceInv
<1>10. DeviceInv'
  BY <1>2, <1>3 DEF Inv, TypeOK, DeviceInv
<1>11. Ordered(queue)'
  BY <1>6 DEF Ordered
<1> QED BY <1>7, <1>8, <1>9, <1>10, <1>11 DEF Inv

\* The new server is in a block that no handler names.
LEMMA StartKeepsInv ==
  ASSUME Inv, NEW v \in Servers, NEW converting \in BOOLEAN, Start(v, converting)
  PROVE  Inv'
<1> DEFINE h == H("start", v, 0)
<1>1. h \in Handler /\ h.op = "start" /\ h.srv = v /\ h.size = 0
  BY Handlers
<1> HIDE DEF h
<1>2. /\ queue' = Append(queue, h) /\ caller = "idle" /\ servId = NoServer
      /\ v \notin liveServers /\ liveServers' = liveServers \cup {v}
      /\ dead' = [dead EXCEPT ![v] = FALSE]
      /\ converts' = [converts EXCEPT ![v] = converting]
      /\ recvLen' = [recvLen EXCEPT ![v] = 0]
      /\ reading' = [reading EXCEPT ![v] = FALSE]
      /\ servId' = v /\ callback' = NoServer
      /\ UNCHANGED <<caller, notified>>
  BY DEF Start, h
<1>3. \A t \in Handler : Fits(t) => Ok(t, h)
  BY <1>1, <1>2 DEF Fits, Ok
<1>4. /\ queue' \in Seq(Handler)
      /\ Ordered(queue)'
      /\ \A t \in Handler : IsQueued(t)' => Fits(t) \/ t = h
  BY <1>1, <1>2, <1>3, PostKeeps DEF Ordered
<1>5. TypeOK'
  BY <1>2, <1>4, MaxLineAssumption DEF Inv, TypeOK
<1>6. AllFit'
  <2> SUFFICES ASSUME NEW t \in Handler, IsQueued(t)'
               PROVE  Fits(t)'
    BY DEF AllFit
  <2>1. CASE t = h
    BY <1>1, <1>2, <2>1, MaxLineAssumption DEF Fits, Receives, Inv, TypeOK
  <2>2. CASE Fits(t)
    <3>1. t.srv \in Servers /\ t.srv # v
      BY <1>2, <2>2 DEF Fits, Handler
    <3> QED BY <1>2, <2>2, <3>1, NullAssumption DEF Fits, Receives, Inv, TypeOK
  <2> QED BY <1>4, <2>1, <2>2
<1>7. ReceiveInv'
  <2>1. \A w \in liveServers : dead[w]
    BY <1>2, NullAssumption DEF Inv, TypeOK, DeviceInv
  <2>2. Receiving(v)'
    <3>1. IsQueued(h)'
      BY <1>1, <1>2, PostLeaves
    <3> QED BY <1>1, <3>1 DEF Receiving, Receives
  <2>3. \A w \in liveServers' : ~dead'[w] => Receiving(w)'
    BY <1>2, <2>1, <2>2 DEF Inv, TypeOK
  <2> QED BY <1>2, <2>3, MaxLineAssumption DEF Inv, TypeOK, ReceiveInv, HasRoom
<1>8. DeviceInv'
  BY <1>2, NullAssumption DEF Inv, TypeOK, DeviceInv
<1> QED BY <1>4, <1>5, <1>6, <1>7, <1>8 DEF Inv

\* The stop handler is behind all the device has posted, and is the only one.
LEMMA StopCallKeepsInv ==
  ASSUME Inv, StopCall
  PROVE  Inv'
<1> DEFINE h == H("stop", servId, 0)
<1>1. servId \in Servers
  BY DEF StopCall, Inv, TypeOK
<1>2. h \in Handler /\ h.op = "stop" /\ h.srv = servId
  BY <1>1, Handlers
<1> HIDE DEF h
<1>3. /\ queue' = Append(queue, h) /\ caller = "idle" /\ caller' = "stopping"
      /\ callback' = NoServer
      /\ UNCHANGED <<liveServers, dead, converts, recvLen, reading, servId, notified>>
  BY DEF StopCall, objects, h
<1>4. ~notified /\ servId # NoServer /\ servId \in liveServers /\ ~dead[servId]
  BY <1>1, <1>3, NullAssumption DEF Inv, DeviceInv
<1>5. \A t \in Handler : Fits(t) => Ok(t, h)
  BY <1>2, <1>3, <1>4 DEF Fits, Ok, Receives
<1>6. /\ queue' \in Seq(Handler)
      /\ Ordered(queue)'
      /\ \A t \in Handler : IsQueued(t)' => Fits(t) \/ t = h
  BY <1>2, <1>3, <1>5, PostKeeps DEF Ordered
<1>7. TypeOK'
  BY <1>3, <1>6 DEF Inv, TypeOK
<1>8. AllFit'
  <2> SUFFICES ASSUME NEW t \in Handler, IsQueued(t)'
               PROVE  Fits(t)'
    BY DEF AllFit
  <2>1. CASE t = h
    BY <1>2, <1>3, <1>4, <2>1 DEF Fits, Receives
  <2>2. CASE Fits(t)
    BY <1>3, <2>2 DEF Fits, Receives
  <2> QED BY <1>6, <2>1, <2>2
<1>9. ReceiveInv'
  <2>1. \A t \in Handler : IsQueued(t) => IsQueued(t)'
    BY <1>2, <1>3, PostLeaves
  <2>2. \A w \in liveServers : ~dead[w] => Receiving(w)'
    BY <1>3, <2>1 DEF Inv, ReceiveInv, Receiving, Receives
  <2> QED BY <1>3, <2>2 DEF Inv, ReceiveInv, HasRoom
<1>10. DeviceInv'
  BY <1>3, <1>4 DEF Inv, DeviceInv
<1> QED BY <1>6, <1>7, <1>8, <1>9, <1>10 DEF Inv

\* stop returns only after its handler has run, so none is queued.
LEMMA StopReturnKeepsInv ==
  ASSUME Inv, StopReturn
  PROVE  Inv'
<1>1. /\ caller = "stopping" /\ notified /\ notified' = FALSE /\ servId' = NoServer
      /\ caller' = "idle" /\ callback' = NoServer
      /\ UNCHANGED <<queue, liveServers, dead, converts, recvLen, reading>>
  BY DEF StopReturn, Woken, objects
<1>2. TypeOK'
  BY <1>1 DEF Inv, TypeOK
<1>3. Ordered(queue)'
  BY <1>1 DEF Inv, Ordered
<1>4. AllFit'
  BY <1>1 DEF Inv, AllFit, Fits, IsQueued
<1>5. ReceiveInv'
  BY <1>1 DEF Inv, ReceiveInv, HasRoom, Receiving, IsQueued
<1>6. DeviceInv'
  BY <1>1 DEF Inv, DeviceInv
<1> QED BY <1>2, <1>3, <1>4, <1>5, <1>6 DEF Inv

\* The completion takes the place of the receive.
LEMMA ReceiveCompletesKeepsInv ==
  ASSUME Inv, NEW v \in Servers, NEW n \in 0..MaxLine, ReceiveCompletes(v, n)
  PROVE  Inv'
<1> DEFINE h == H("recv", v, n)
<1>1. h \in Handler /\ h.op = "recv" /\ h.srv = v /\ h.size = n
  BY Completions
<1> HIDE DEF h
<1>2. /\ reading[v] /\ (n = 0 \/ n <= MaxLine - recvLen[v])
      /\ queue' = Append(queue, h)
      /\ reading' = [reading EXCEPT ![v] = FALSE] /\ callback' = NoServer
      /\ UNCHANGED <<liveServers, dead, converts, recvLen, servId, caller, notified>>
  BY DEF ReceiveCompletes, Room, h
<1>3. v \in liveServers /\ ~dead[v] /\ v = servId /\ ~notified
  BY <1>2, NullAssumption DEF Inv, ReceiveInv, DeviceInv
<1>5. \A t \in Handler : Fits(t) => Ok(t, h)
  BY <1>1, <1>2, <1>3 DEF Fits, Ok, Receives
<1>6. /\ queue' \in Seq(Handler)
      /\ Ordered(queue)'
      /\ \A t \in Handler : IsQueued(t)' => Fits(t) \/ t = h
  BY <1>1, <1>2, <1>5, PostKeeps DEF Ordered
<1>7. TypeOK'
  BY <1>2, <1>6 DEF Inv, TypeOK
<1>8. AllFit'
  <2> SUFFICES ASSUME NEW t \in Handler, IsQueued(t)'
               PROVE  Fits(t)'
    BY DEF AllFit
  <2>1. CASE t = h
    <3>1. recvLen[v] \in Nat /\ MaxLine \in Nat
      BY MaxLineAssumption DEF Inv, TypeOK
    <3> QED BY <1>1, <1>2, <1>3, <2>1, <3>1 DEF Fits, Receives, Inv, TypeOK
  <2>2. CASE Fits(t)
    <3>1. t.srv \in Servers
      BY DEF Handler
    <3> QED BY <1>2, <2>2, <3>1 DEF Fits, Receives, Inv, TypeOK
  <2> QED BY <1>6, <2>1, <2>2
<1>9. ReceiveInv'
  <2>1. /\ \A t \in Handler : IsQueued(t) => IsQueued(t)'
        /\ IsQueued(h)'
    BY <1>1, <1>2, PostLeaves
  <2>2. ASSUME NEW w \in liveServers, ~dead[w] PROVE Receiving(w)'
    <3>1. w = v
      BY <1>3, <2>2 DEF Inv, DeviceInv
    <3> QED BY <1>1, <2>1, <3>1 DEF Receiving, Receives
  <2> QED BY <1>2, <2>2 DEF Inv, TypeOK, ReceiveInv, HasRoom
<1>10. DeviceInv'
  BY <1>2 DEF Inv, DeviceInv
<1> QED BY <1>6, <1>7, <1>8, <1>9, <1>10 DEF Inv

-----------------------------------------------------------------------------
(***************************************************************************)
(* The invariant, and what follows from it.                                *)
(***************************************************************************)
\* Nothing has happened yet.
LEMMA InitInv == Init => Inv
<1> SUFFICES ASSUME Init PROVE Inv
  OBVIOUS
<1>1. queue = <<>> /\ queue \in Seq(Handler) /\ Len(queue) = 0 /\ DOMAIN queue = {}
  BY EmptySeq DEF Init
<1>2. TypeOK
  <2>1. 0 \in 0..(MaxLine + 1)
    BY MaxLineAssumption
  <2>2. recvLen \in [Servers -> 0..(MaxLine + 1)]
    BY <2>1 DEF Init
  <2> QED BY <1>1, <2>2 DEF Init, TypeOK
<1>3. Ordered(queue) /\ AllFit
  BY <1>1 DEF Ordered, AllFit, IsQueued
<1>4. ReceiveInv /\ DeviceInv
  BY MaxLineAssumption DEF Init, ReceiveInv, HasRoom, DeviceInv
<1> QED BY <1>2, <1>3, <1>4 DEF Inv

\* Every step keeps the invariant.
LEMMA NextInv == Inv /\ [Next]_vars => Inv'
<1> SUFFICES ASSUME Inv, [Next]_vars PROVE Inv'
  OBVIOUS
<1>1. CASE Run
  <2>1. ASSUME NEW v \in Servers, RunRecv(v) PROVE Inv'
    BY <2>1, RunRecvDeadKeepsInv, RunRecvNothingKeepsInv, RunRecvDataKeepsInv DEF RunRecv
  <2> QED BY <1>1, <2>1, RunStartKeepsInv, RunStopKeepsInv, RunDeleteKeepsInv DEF Run
<1>2. CASE Owner
  BY <1>2, StartKeepsInv, StopCallKeepsInv, StopReturnKeepsInv DEF Owner
<1>3. CASE Network
  BY <1>3, ReceiveCompletesKeepsInv DEF Network
<1>4. CASE UNCHANGED vars
  <2>1. UNCHANGED <<queue, liveServers, dead, converts, recvLen, reading, servId, caller,
                    notified, callback>>
    BY <1>4 DEF vars, objects
  <2>2. TypeOK'
    BY <2>1 DEF Inv, TypeOK
  <2>3. Ordered(queue)' /\ AllFit'
    BY <2>1 DEF Inv, Ordered, AllFit, Fits, IsQueued
  <2>4. ReceiveInv' /\ DeviceInv'
    BY <2>1 DEF Inv, ReceiveInv, HasRoom, Receiving, IsQueued, DeviceInv
  <2> QED BY <2>2, <2>3, <2>4 DEF Inv
<1> QED BY <1>1, <1>2, <1>3, <1>4 DEF Next

\* The invariant holds in every reachable state.
THEOREM Invariance == Spec => []Inv
<1>1. Init => Inv
  BY InitInv
<1>2. Inv /\ [Next]_vars => Inv'
  BY NextInv
<1> QED BY <1>1, <1>2, PTL DEF Spec

\* Whatever is received, converted and kept, the variables keep their types:
\* the count of the bytes kept never passes the buffer's end by more than the
\* one byte that a converted text may, for a buffer of any size.
THEOREM TypeCorrect == Spec => []TypeOK
<1>1. Inv => TypeOK
  BY DEF Inv
<1> QED BY <1>1, Invariance, PTL

\* No handler and no outstanding receive refers to a freed server, for any
\* number of servers: udp_server::stop posts the deletion last.
THEOREM NothingUsedAfterFree == Spec => []NoUseAfterFree
<1>1. Inv => NoUseAfterFree
  <2> SUFFICES ASSUME Inv PROVE NoUseAfterFree
    OBVIOUS
  <2>1. ASSUME NEW i \in DOMAIN queue PROVE queue[i].srv \in liveServers
    <3>1. queue[i] \in Handler /\ IsQueued(queue[i])
      BY DEF Inv, TypeOK, IsQueued
    <3> QED BY <3>1 DEF Inv, AllFit, Fits
  <2> QED BY <2>1 DEF NoUseAfterFree, Inv, ReceiveInv
<1> QED BY <1>1, Invariance, PTL

\* A server that is not stopped has one start handler, receive or completion,
\* never none and never two: its receive loop neither dies nor is started
\* twice.  Its receive has room unless a converted text has grown to
\* MaxLine + 1 bytes, and a line without a converter always has room.
THEOREM NeverDeaf == Spec => []AlwaysReceiving
<1>1. Inv => AlwaysReceiving
  <2> SUFFICES ASSUME Inv, NEW v \in liveServers, ~dead[v]
               PROVE  LET pending == {i \in DOMAIN queue :
                            queue[i].srv = v /\ queue[i].op \in {"start", "recv"}}
                      IN /\ Cardinality(pending) + (IF reading[v] THEN 1 ELSE 0) = 1
                         /\ recvLen[v] < MaxLine \/ (converts[v] /\ recvLen[v] = MaxLine + 1)
    BY DEF AlwaysReceiving
  <2> DEFINE pending == {i \in DOMAIN queue :
                           queue[i].srv = v /\ queue[i].op \in {"start", "recv"}}
  <2>1. /\ v \in Servers /\ Receiving(v)
        /\ recvLen[v] < MaxLine \/ (converts[v] /\ recvLen[v] = MaxLine + 1)
    BY DEF Inv, TypeOK, ReceiveInv, HasRoom
  <2>2. /\ queue \in Seq(Handler) /\ DOMAIN queue = 1..Len(queue) /\ Len(queue) \in Nat
        /\ \A i \in DOMAIN queue : queue[i] \in Handler /\ Fits(queue[i])
    BY DEF Inv, TypeOK, AllFit, IsQueued
  <2>3. CASE reading[v]
    <3>1. pending = {}
      BY <2>2, <2>3 DEF Fits, Receives
    <3>2. Cardinality(pending) = 0
      BY <3>1, FS_EmptySet
    <3> HIDE DEF pending
    <3> QED BY <2>1, <2>3, <3>2 DEF pending
  <2>4. CASE ~reading[v]
    <3>1. PICK t \in Handler : IsQueued(t) /\ Receives(t) /\ t.srv = v
      BY <2>1, <2>4 DEF Receiving
    <3>2. PICK i \in DOMAIN queue : queue[i] = t
      BY <3>1 DEF IsQueued
    <3>3. i \in pending
      BY <3>1, <3>2 DEF Receives
    <3>4. ASSUME NEW j \in pending PROVE j = i
      <4>1. /\ i \in 1..Len(queue) /\ j \in 1..Len(queue)
            /\ ~Ok(queue[i], queue[j]) /\ ~Ok(queue[j], queue[i])
        BY <2>2, <3>1, <3>2 DEF Ok, Receives
      <4>2. ~(i < j) /\ ~(j < i)
        BY <4>1 DEF Inv, Ordered
      <4> QED BY <4>1, <4>2
    <3>5. pending = {i}
      BY <3>3, <3>4
    <3>6. Cardinality(pending) = 1
      BY <3>5, FS_Singleton
    <3> HIDE DEF pending
    <3> QED BY <2>1, <2>4, <3>6 DEF pending
  <2> QED BY <2>3, <2>4
<1> QED BY <1>1, Invariance, PTL

\* A datagram is given to the callback of the device's own server only, and
\* before its stop handler has run.
LEMMA CallbackStep ==
  ASSUME Inv, NEW v \in Servers, NEW n \in 0..MaxLine, NEW called \in BOOLEAN,
         NEW rest \in Rests(v, n), RunRecvData(v, n, called, rest)
  PROVE  v = servId /\ ~notified /\ UNCHANGED <<servId, caller, notified>>
<1> DEFINE h == H("recv", v, n)
<1>1. h \in Handler /\ h.op = "recv" /\ h.srv = v
  BY Completions
<1>2. Runs(h, ReceivePosts(v)) /\ ~dead[v]
  BY DEF RunRecvData, Ignores
<1> HIDE DEF h
<1>3. Fits(h)
  BY <1>1, <1>2, HeadFits
<1>4. v \in liveServers
  BY <1>1, <1>3 DEF Fits
<1> QED BY <1>2, <1>4, NullAssumption DEF RunRecvData, Inv, DeviceInv

\* Every step of the server is a step of the contract PosServer, or none:
\* UdpServer implements the safety part of the contract.
THEOREM KeepsContract == Spec => Abstract!Init /\ [][Abstract!Next]_(Abstract!vars)
<1>1. Init => Abstract!Init
  BY DEF Init, Abstract!Init, Phase
<1>2. Inv /\ [Next]_vars => [Abstract!Next]_(Abstract!vars)
  <2> SUFFICES ASSUME Inv, [Next]_vars PROVE [Abstract!Next]_(Abstract!vars)
    OBVIOUS
  <2>1. CASE UNCHANGED vars
    BY <2>1 DEF Abstract!vars, Phase, vars
  <2>2. ASSUME callback' = NoServer, UNCHANGED <<servId, caller, notified>>
        PROVE  Abstract!Next
    BY <2>2 DEF Abstract!Next, Abstract!Work, Phase
  <2>3. ASSUME NEW v \in Servers, NEW n \in 0..MaxLine, NEW called \in BOOLEAN,
               NEW rest \in Rests(v, n), RunRecvData(v, n, called, rest)
        PROVE  Abstract!Next
    <3>1. CASE callback' = NoServer
      BY <2>2, <2>3, <3>1, CallbackStep
    <3>2. CASE callback' # NoServer
      <4>1. Phase \in {"on", "stopping"} /\ Phase' = Phase
        BY <2>3, CallbackStep, NullAssumption DEF Phase
      <4> QED BY <3>2, <4>1 DEF Abstract!Next, Abstract!Callback
    <3> QED BY <3>1, <3>2
  <2>4. CASE Run
    <3>1. ASSUME NEW v \in Servers, RunStop(v) PROVE Abstract!Next
      <4>1. v = servId /\ caller = "stopping" /\ ~notified
        BY <3>1, StopFits
      <4> QED BY <3>1, <4>1, NullAssumption
              DEF RunStop, Phase, Abstract!Next, Abstract!Quiesce
    <3>2. ASSUME NEW v \in Servers, RunRecv(v) PROVE Abstract!Next
      BY <2>2, <2>3, <3>2 DEF RunRecv, RunRecvDead, RunRecvNothing
    <3>3. ASSUME NEW v \in Servers, RunStart(v) PROVE Abstract!Next
      BY <2>2, <3>3 DEF RunStart
    <3>4. ASSUME NEW v \in Servers, RunDelete(v) PROVE Abstract!Next
      BY <2>2, <3>4 DEF RunDelete
    <3> QED BY <2>4, <3>1, <3>2, <3>3, <3>4 DEF Run
  <2>5. CASE Owner
    <3>1. ASSUME NEW v \in Servers, NEW converting \in BOOLEAN, Start(v, converting)
          PROVE  Abstract!Next
      BY <3>1, NullAssumption DEF Start, Phase, Abstract!Next, Abstract!Start
    <3>2. CASE StopCall
      <4>1. ~notified
        BY <3>2 DEF StopCall, Inv, DeviceInv
      <4> QED BY <3>2, <4>1 DEF StopCall, Phase, Abstract!Next, Abstract!StopCall
    <3>3. CASE StopReturn
      <4>1. servId # NoServer
        BY <3>3 DEF StopReturn, Inv, DeviceInv
      <4> QED BY <3>3, <4>1 DEF StopReturn, Woken, Phase, Abstract!Next, Abstract!StopReturn
    <3> QED BY <2>5, <3>1, <3>2, <3>3 DEF Owner
  <2>6. CASE Network
    BY <2>2, <2>6 DEF Network, ReceiveCompletes
  <2> QED BY <2>1, <2>4, <2>5, <2>6 DEF Next
<1> QED BY <1>1, <1>2, Invariance, PTL DEF Spec
=============================================================================
