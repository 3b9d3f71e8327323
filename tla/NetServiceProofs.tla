--------------------------- MODULE NetServiceProofs ---------------------------
(***************************************************************************)
(* Proofs about NetService, for any set of callers and any number of       *)
(* calls.                                                                  *)
(*                                                                         *)
(* Two arguments are made.  The handlers of a caller are counted: what it  *)
(* posted is what ran and what waits.  And its event is in one place: a    *)
(* sync_handler that waits, the notify in progress, or the event that is   *)
(* set; it is never in the first two once sync_call has seen it set.       *)
(***************************************************************************)
EXTENDS NetService, TLAPS, SequenceTheorems, FiniteSetTheorems, FunctionTheorems

-----------------------------------------------------------------------------
(***************************************************************************)
(* The inductive invariant.                                                *)
(***************************************************************************)
\* Where the handlers of caller c are in the queue q, and how many wait.
Places(q, c) == {i \in 1..Len(q) : q[i].caller = c}

Waiting(c) == Cardinality(Places(queue, c))

Counted == \A c \in Callers : ran[c] + Waiting(c) = calls[c]

\* No handler of c waits.
NoneQueued(c) == \A i \in 1..Len(queue) : queue[i].caller # c

\* c is in event::wait, and has not seen its event set.
Blocked(c) == pc[c] \in {"lock", "test", "wait"}

\* Nothing of a caller is behind its sync_handler.
SyncLast ==
  \A i, j \in 1..Len(queue) : i < j /\ queue[i].sync => queue[j].caller # queue[i].caller

\* Nothing has touched the event that c waits for.
Unheard(c) == Blocked(c) /\ ~set[c] /\ ~(svc # "idle" /\ client = c)

\* A sync_handler that waits has a caller that waits for it.
SyncAwaited ==
  \A i \in 1..Len(queue) : queue[i].sync => Unheard(queue[i].caller)

ServiceInv ==
  /\ svc = "notify" => Blocked(client) /\ ~set[client] /\ NoneQueued(client)
  /\ svc = "unlock" => /\ pc[client] \in {"lock", "wait"} /\ set[client]
                       /\ client \in held /\ NoneQueued(client)

CallerInv ==
  \A c \in Callers :
    /\ c \in alive <=> pc[c] # "idle"
    /\ set[c] => Blocked(c) /\ NoneQueued(c)
    /\ pc[c] = "test" => c \in held
    /\ pc[c] = "return" => NoneQueued(c)

ExitInv == phase = "exited" => queue = <<>>

Inv == TypeOK /\ Counted /\ SyncLast /\ SyncAwaited /\ ServiceInv /\ CallerInv /\ ExitInv

-----------------------------------------------------------------------------
(***************************************************************************)
(* Lemmas on the queue.                                                    *)
(***************************************************************************)
\* The places are finitely many; none if no handler of c is there.
LEMMA PlacesFinite ==
  ASSUME NEW q \in Seq(Handler), NEW c \in Callers
  PROVE  /\ IsFiniteSet(Places(q, c)) /\ Cardinality(Places(q, c)) \in Nat
         /\ (\A i \in 1..Len(q) : q[i].caller # c) => Cardinality(Places(q, c)) = 0
<1>1. Len(q) \in Nat
  OBVIOUS
<1>2. IsFiniteSet(1..Len(q))
  BY <1>1, FS_Interval
<1>3. Places(q, c) \in SUBSET (1..Len(q))
  BY DEF Places
<1>4. IsFiniteSet(Places(q, c))
  BY <1>2, <1>3, FS_Subset
<1>5. Cardinality(Places(q, c)) \in Nat
  BY <1>4, FS_CardinalityType
<1>6. ASSUME \A i \in 1..Len(q) : q[i].caller # c
      PROVE  Cardinality(Places(q, c)) = 0
  <2>1. Places(q, c) = {}
    BY <1>6 DEF Places
  <2> QED BY <2>1, FS_EmptySet
<1> QED BY <1>4, <1>5, <1>6

\* A handler that is posted is one more of its caller.
LEMMA CountAppend ==
  ASSUME NEW q \in Seq(Handler), NEW h \in Handler, NEW c \in Callers
  PROVE  Cardinality(Places(Append(q, h), c)) =
           Cardinality(Places(q, c)) + (IF h.caller = c THEN 1 ELSE 0)
<1> DEFINE n == Len(q) + 1
           r == Append(q, h)
<1>1. /\ Len(q) \in Nat /\ Len(r) = n /\ r[n] = h /\ n \notin 1..Len(q)
      /\ \A i \in 1..Len(q) : r[i] = q[i]
      /\ 1..n = (1..Len(q)) \cup {n}
  OBVIOUS
<1> HIDE DEF n, r
<1>2. n \notin Places(q, c)
  BY <1>1 DEF Places
<1>3. CASE h.caller = c
  <2>1. Places(r, c) = Places(q, c) \cup {n}
    BY <1>1, <1>3 DEF Places
  <2>2. Cardinality(Places(r, c)) = Cardinality(Places(q, c)) + 1
    BY <1>2, <2>1, PlacesFinite, FS_AddElement
  <2> QED BY <1>3, <2>2 DEF r
<1>4. CASE h.caller # c
  <2>1. Places(r, c) = Places(q, c)
    BY <1>1, <1>4 DEF Places
  <2> QED BY <1>4, <2>1, PlacesFinite DEF r
<1> QED BY <1>3, <1>4

\* A handler that runs is one less of its caller.
LEMMA CountTail ==
  ASSUME NEW q \in Seq(Handler), q # <<>>, NEW c \in Callers
  PROVE  Cardinality(Places(Tail(q), c)) =
           Cardinality(Places(q, c)) - (IF Head(q).caller = c THEN 1 ELSE 0)
<1> DEFINE r == Tail(q)
           S == Places(q, c) \ {1}
           T == Places(r, c)
           f == [i \in S |-> i - 1]
<1>1. /\ r \in Seq(Handler) /\ Len(q) \in Nat \ {0} /\ Len(r) = Len(q) - 1
      /\ Head(q) = q[1] /\ 1 \in 1..Len(q)
      /\ \A i \in 1..Len(r) : r[i] = q[i + 1]
  BY EmptySeq
<1> HIDE DEF r
<1>2. \A i \in S : i \in 2..Len(q) /\ i - 1 \in T
  BY <1>1 DEF Places
<1>3. \A j \in T : j \in 1..Len(r) /\ j + 1 \in S
  BY <1>1 DEF Places
<1> HIDE DEF S, T
<1>4. f \in [S -> T]
  BY <1>2
<1>5. \A a, b \in S : f[a] = f[b] => a = b
  BY <1>2
<1>6. \A t \in T : \E s \in S : f[s] = t
  <2> SUFFICES ASSUME NEW t \in T PROVE \E s \in S : f[s] = t
    OBVIOUS
  <2>1. t + 1 \in S /\ f[t + 1] = t
    BY <1>1, <1>3
  <2> QED BY <2>1
<1> HIDE DEF f
<1>7. f \in Bijection(S, T)
  BY <1>4, <1>5, <1>6, Fun_IsBij
<1>8. IsFiniteSet(S) /\ Cardinality(S) =
        IF 1 \in Places(q, c) THEN Cardinality(Places(q, c)) - 1 ELSE Cardinality(Places(q, c))
  BY PlacesFinite, FS_RemoveElement DEF S
<1>9. Cardinality(T) = Cardinality(S)
  BY <1>7, <1>8, Fun_ExistsBij, FS_Bijection
<1>10. 1 \in Places(q, c) <=> Head(q).caller = c
  BY <1>1 DEF Places
<1>11. Cardinality(Places(q, c)) \in Nat
  BY PlacesFinite
<1> QED BY <1>8, <1>9, <1>10, <1>11 DEF T, r

-----------------------------------------------------------------------------
(***************************************************************************)
(* Each action keeps the invariant.                                        *)
(***************************************************************************)
\* What a call posts is behind all that waits, and counted.
LEMMA PostKeeps ==
  ASSUME Inv, NEW c \in Callers, NEW h \in Handler, h.caller = c, CallAllowed(c),
         queue' = Post(h), calls' = [calls EXCEPT ![c] = @ + 1], ran' = ran
  PROVE  /\ queue' \in Seq(Handler)
         /\ calls' \in [Callers -> 0..MaxCalls]
         /\ Counted'
         /\ SyncLast'
         /\ Len(queue') = Len(queue) + 1 /\ queue'[Len(queue) + 1] = h
         /\ \A i \in 1..Len(queue) : queue'[i] = queue[i]
         /\ \A d \in Callers : d # c /\ NoneQueued(d) => NoneQueued(d)'
<1>1. /\ queue \in Seq(Handler) /\ queue' = Append(queue, h)
      /\ calls \in [Callers -> 0..MaxCalls] /\ ran \in [Callers -> 0..MaxCalls]
      /\ pc[c] = "idle" /\ calls[c] < MaxCalls
  BY DEF Inv, TypeOK, Post, CallAllowed
<1>2. /\ queue' \in Seq(Handler)
      /\ Len(queue') = Len(queue) + 1 /\ queue'[Len(queue) + 1] = h
      /\ \A i \in 1..Len(queue) : queue'[i] = queue[i]
      /\ Len(queue) \in Nat
  BY <1>1
<1>3. calls' \in [Callers -> 0..MaxCalls]
  BY <1>1, MaxCallsAssumption
<1>4. Counted'
  <2> SUFFICES ASSUME NEW d \in Callers PROVE (ran[d] + Waiting(d) = calls[d])'
    BY DEF Counted
  <2>1. Cardinality(Places(queue', d)) =
          Cardinality(Places(queue, d)) + (IF c = d THEN 1 ELSE 0)
    BY <1>1, CountAppend
  <2>2. Cardinality(Places(queue, d)) \in Nat
    BY <1>1, PlacesFinite
  <2>3. calls'[d] = calls[d] + (IF c = d THEN 1 ELSE 0)
    BY <1>1, MaxCallsAssumption
  <2>4. ran[d] + Cardinality(Places(queue, d)) = calls[d] /\ ran[d] \in Nat
    BY <1>1, MaxCallsAssumption DEF Inv, Counted, Waiting
  <2> QED BY <2>1, <2>2, <2>3, <2>4 DEF Waiting
<1>5. SyncLast'
  <2> SUFFICES ASSUME NEW i \in 1..Len(queue'), NEW j \in 1..Len(queue'), i < j,
                      queue'[i].sync
               PROVE  queue'[j].caller # queue'[i].caller
    BY DEF SyncLast
  <2>1. i \in 1..Len(queue) /\ queue'[i] = queue[i]
    BY <1>2
  <2>2. CASE j \in 1..Len(queue)
    BY <1>2, <2>1, <2>2 DEF Inv, SyncLast
  <2>3. CASE j = Len(queue) + 1
    <3>1. Blocked(queue[i].caller)
      BY <2>1 DEF Inv, SyncAwaited, Unheard
    <3> QED BY <1>1, <1>2, <2>1, <2>3, <3>1 DEF Blocked
  <2>4. j \in 1..Len(queue) \/ j = Len(queue) + 1
    BY <1>2
  <2> QED BY <2>2, <2>3, <2>4
<1>6. ASSUME NEW d \in Callers, d # c, NoneQueued(d) PROVE NoneQueued(d)'
  BY <1>2, <1>6 DEF NoneQueued
<1> QED BY <1>2, <1>3, <1>4, <1>5, <1>6

\* The service thread is with another caller, and no event is set, when a
\* thread is outside sync_call.
LEMMA IdleCaller ==
  ASSUME Inv, NEW c \in Callers, pc[c] = "idle"
  PROVE  /\ ~set[c] /\ ~(svc # "idle" /\ client = c)
         /\ \A i \in 1..Len(queue) : queue[i].sync => queue[i].caller # c
BY DEF Inv, TypeOK, CallerInv, ServiceInv, SyncAwaited, Unheard, Blocked

\* The callers of the handlers that wait.
LEMMA QueuedCallers ==
  ASSUME Inv, NEW i \in 1..Len(queue)
  PROVE  queue[i] \in Handler /\ queue[i].caller \in Callers
<1>1. queue[i] \in Handler
  BY DEF Inv, TypeOK
<1> QED BY <1>1 DEF Handler

\* async_call does not wait.
LEMMA AsyncCallKeepsInv ==
  ASSUME Inv, NEW c \in Callers, NEW effect \in Effect, AsyncCall(c, effect)
  PROVE  Inv'
<1> DEFINE h == [caller |-> c, sync |-> FALSE, effect |-> effect]
<1>1. h \in Handler /\ h.caller = c /\ h.sync = FALSE
  BY DEF Handler
<1>2. /\ CallAllowed(c) /\ queue' = Post(h) /\ calls' = [calls EXCEPT ![c] = @ + 1]
      /\ UNCHANGED <<svc, client, pc, ran, alive, set, held, signalled, listening,
                     work, phase>>
  BY DEF AsyncCall, event
<1> HIDE DEF h
<1>3. /\ queue' \in Seq(Handler)
      /\ calls' \in [Callers -> 0..MaxCalls]
      /\ Counted'
      /\ SyncLast'
      /\ Len(queue') = Len(queue) + 1 /\ queue'[Len(queue) + 1] = h
      /\ \A i \in 1..Len(queue) : queue'[i] = queue[i]
      /\ \A d \in Callers : d # c /\ NoneQueued(d) => NoneQueued(d)'
  BY <1>1, <1>2, PostKeeps
<1>4. pc[c] = "idle" /\ phase = "up" /\ ~set[c] /\ ~(svc # "idle" /\ client = c)
  BY <1>2, IdleCaller DEF CallAllowed
<1>5. TypeOK'
  BY <1>2, <1>3 DEF Inv, TypeOK
<1>6. SyncAwaited'
  <2> SUFFICES ASSUME NEW i \in 1..Len(queue'), queue'[i].sync,
                      NEW d, d = queue'[i].caller
               PROVE  Unheard(d)'
    BY DEF SyncAwaited
  <2>1. i \in 1..Len(queue) /\ queue'[i] = queue[i]
    BY <1>1, <1>3 DEF Inv, TypeOK
  <2>2. Unheard(d)
    BY <2>1 DEF Inv, SyncAwaited
  <2> QED BY <1>2, <2>2 DEF Unheard, Blocked
<1>7. ServiceInv'
  BY <1>2, <1>3, <1>4 DEF Inv, TypeOK, ServiceInv, Blocked
<1>8. CallerInv'
  BY <1>2, <1>3, <1>4 DEF Inv, CallerInv, Blocked
<1>9. ExitInv'
  BY <1>2, <1>4 DEF ExitInv
<1> QED BY <1>3, <1>5, <1>6, <1>7, <1>8, <1>9 DEF Inv

\* The event is new, and the sync_handler behind all of its caller.
LEMMA SyncCallKeepsInv ==
  ASSUME Inv, NEW c \in Callers, NEW effect \in Effect, SyncCall(c, effect)
  PROVE  Inv'
<1> DEFINE h == [caller |-> c, sync |-> TRUE, effect |-> effect]
<1>1. h \in Handler /\ h.caller = c /\ h.sync = TRUE
  BY DEF Handler
<1>2. /\ CallAllowed(c) /\ queue' = Post(h) /\ calls' = [calls EXCEPT ![c] = @ + 1]
      /\ pc' = [pc EXCEPT ![c] = "lock"] /\ alive' = alive \cup {c}
      /\ set' = [set EXCEPT ![c] = FALSE]
      /\ UNCHANGED <<svc, client, ran, held, signalled, listening, work, phase>>
  BY DEF SyncCall
<1> HIDE DEF h
<1>3. /\ queue' \in Seq(Handler)
      /\ calls' \in [Callers -> 0..MaxCalls]
      /\ Counted'
      /\ SyncLast'
      /\ Len(queue') = Len(queue) + 1 /\ queue'[Len(queue) + 1] = h
      /\ \A i \in 1..Len(queue) : queue'[i] = queue[i]
      /\ \A d \in Callers : d # c /\ NoneQueued(d) => NoneQueued(d)'
  BY <1>1, <1>2, PostKeeps
<1>4. /\ pc[c] = "idle" /\ phase = "up" /\ ~set[c] /\ ~(svc # "idle" /\ client = c)
      /\ \A i \in 1..Len(queue) : queue[i].sync => queue[i].caller # c
  BY <1>2, IdleCaller DEF CallAllowed
<1>5. TypeOK'
  BY <1>2, <1>3 DEF Inv, TypeOK
<1>6. SyncAwaited'
  <2> SUFFICES ASSUME NEW i \in 1..Len(queue'), queue'[i].sync,
                      NEW d, d = queue'[i].caller
               PROVE  Unheard(d)'
    BY DEF SyncAwaited
  <2>1. CASE i \in 1..Len(queue)
    <3>1. queue'[i] = queue[i]
      BY <1>3, <2>1
    <3>2. d \in Callers /\ d # c
      BY <1>4, <2>1, <3>1, QueuedCallers
    <3>3. Unheard(d)
      BY <2>1, <3>1 DEF Inv, SyncAwaited
    <3>4. pc'[d] = pc[d] /\ set'[d] = set[d]
      BY <1>2, <3>2 DEF Inv, TypeOK
    <3> QED BY <1>2, <3>3, <3>4 DEF Unheard, Blocked
  <2>2. CASE i = Len(queue) + 1
    <3>1. d = c
      BY <1>1, <1>3, <2>2
    <3>2. pc'[c] = "lock" /\ ~set'[c] /\ ~(svc' # "idle" /\ client' = c)
      BY <1>2, <1>4 DEF Inv, TypeOK
    <3> QED BY <3>1, <3>2 DEF Unheard, Blocked
  <2>3. Len(queue) \in Nat
    BY DEF Inv, TypeOK
  <2> QED BY <1>3, <2>1, <2>2, <2>3
<1>7. ServiceInv'
  <2>1. CASE svc = "idle"
    BY <1>2, <2>1 DEF ServiceInv
  <2>2. CASE svc # "idle"
    <3>1. client \in Callers /\ client # c
      BY <1>4, <2>2 DEF Inv, TypeOK
    <3>2. /\ pc'[client] = pc[client] /\ set'[client] = set[client]
          /\ client' = client /\ svc' = svc /\ held' = held
      BY <1>2, <3>1 DEF Inv, TypeOK
    <3>3. NoneQueued(client) => NoneQueued(client)'
      BY <1>3, <3>1, <3>2 DEF NoneQueued
    <3> QED BY <3>2, <3>3 DEF Inv, ServiceInv, Blocked
  <2> QED BY <2>1, <2>2
<1>8. CallerInv'
  <2> SUFFICES ASSUME NEW d \in Callers
               PROVE  (/\ d \in alive <=> pc[d] # "idle"
                       /\ set[d] => Blocked(d) /\ NoneQueued(d)
                       /\ pc[d] = "test" => d \in held
                       /\ pc[d] = "return" => NoneQueued(d))'
    BY DEF CallerInv
  <2>1. CASE d = c
    BY <1>2, <2>1 DEF Inv, TypeOK
  <2>2. CASE d # c
    BY <1>2, <1>3, <2>2 DEF Inv, TypeOK, CallerInv, Blocked
  <2> QED BY <2>1, <2>2
<1>9. ExitInv'
  BY <1>2, <1>4 DEF ExitInv
<1> QED BY <1>3, <1>5, <1>6, <1>7, <1>8, <1>9 DEF Inv

\* Steps that change neither the queue nor the counters.
LEMMA QueueUnchanged ==
  ASSUME Inv, UNCHANGED <<queue, calls, ran>>
  PROVE  /\ Counted' /\ SyncLast'
         /\ \A c \in Callers : NoneQueued(c)' <=> NoneQueued(c)
BY DEF Inv, Counted, Waiting, Places, SyncLast, NoneQueued

\* The step of one caller inside event::wait, which leaves it there.
LEMMA LockKeepsInv ==
  ASSUME Inv, NEW c \in Callers, Lock(c)
  PROVE  Inv'
<1>1. /\ pc[c] = "lock" /\ c \notin held /\ held' = held \cup {c}
      /\ pc' = [pc EXCEPT ![c] = "test"]
      /\ UNCHANGED <<queue, svc, client, calls, ran, alive, set, signalled, listening,
                     work, phase>>
  BY DEF Lock
<1>2. /\ Counted' /\ SyncLast'
      /\ \A d \in Callers : NoneQueued(d)' <=> NoneQueued(d)
  BY <1>1, QueueUnchanged
<1>3. TypeOK'
  BY <1>1 DEF Inv, TypeOK
<1>4. \A d \in Callers : /\ Blocked(d)' <=> Blocked(d)
                         /\ d # c => pc'[d] = pc[d]
  BY <1>1 DEF Inv, TypeOK, Blocked
<1>5. SyncAwaited'
  BY <1>1, <1>4, QueuedCallers DEF Inv, SyncAwaited, Unheard
<1>6. ServiceInv'
  BY <1>1, <1>2, <1>4 DEF Inv, TypeOK, ServiceInv
<1>7. CallerInv'
  BY <1>1, <1>2, <1>4 DEF Inv, TypeOK, CallerInv
<1>8. ExitInv'
  BY <1>1 DEF Inv, ExitInv
<1> QED BY <1>2, <1>3, <1>5, <1>6, <1>7, <1>8 DEF Inv

\* The wait, whether it was signalled or not, is over.
LEMMA WakeKeepsInv ==
  ASSUME Inv, NEW c \in Callers, Wake(c)
  PROVE  Inv'
<1>1. /\ pc[c] = "wait" /\ pc' = [pc EXCEPT ![c] = "lock"]
      /\ signalled' = signalled \ {c}
      /\ UNCHANGED <<queue, svc, client, calls, ran, alive, set, held, listening,
                     work, phase>>
  BY DEF Wake
<1>2. /\ Counted' /\ SyncLast'
      /\ \A d \in Callers : NoneQueued(d)' <=> NoneQueued(d)
  BY <1>1, QueueUnchanged
<1>3. TypeOK'
  BY <1>1 DEF Inv, TypeOK
<1>4. \A d \in Callers : /\ Blocked(d)' <=> Blocked(d)
                         /\ d # c => pc'[d] = pc[d]
  BY <1>1 DEF Inv, TypeOK, Blocked
<1>5. SyncAwaited'
  BY <1>1, <1>4, QueuedCallers DEF Inv, SyncAwaited, Unheard
<1>6. ServiceInv'
  BY <1>1, <1>2, <1>4 DEF Inv, TypeOK, ServiceInv
<1>7. CallerInv'
  BY <1>1, <1>2, <1>4 DEF Inv, TypeOK, CallerInv
<1>8. ExitInv'
  BY <1>1 DEF Inv, ExitInv
<1> QED BY <1>2, <1>3, <1>5, <1>6, <1>7, <1>8 DEF Inv

\* The caller that sees its event set is done with the service thread.
LEMMA TestKeepsInv ==
  ASSUME Inv, NEW c \in Callers, Test(c)
  PROVE  Inv'
<1>1. /\ pc[c] = "test" /\ pc' = [pc EXCEPT ![c] = IF set[c] THEN "return" ELSE "wait"]
      /\ set' = [set EXCEPT ![c] = FALSE] /\ held' = held \ {c}
      /\ UNCHANGED <<queue, svc, client, calls, ran, alive, signalled, listening,
                     work, phase>>
  BY DEF Test
<1>2. /\ Counted' /\ SyncLast'
      /\ \A d \in Callers : NoneQueued(d)' <=> NoneQueued(d)
  BY <1>1, QueueUnchanged
<1>3. TypeOK'
  BY <1>1 DEF Inv, TypeOK
<1>4. \A d \in Callers : /\ d # c => pc'[d] = pc[d] /\ set'[d] = set[d]
                         /\ d # c => (Blocked(d)' <=> Blocked(d))
                         /\ d # c /\ d \in held => d \in held'
                         /\ set'[d] => set[d]
  BY <1>1 DEF Inv, TypeOK, Blocked
<1>5. /\ pc'[c] = "return" => set[c] /\ NoneQueued(c)
      /\ ~set[c] => Blocked(c)'
      /\ ~set'[c] /\ c \in alive
  BY <1>1 DEF Inv, TypeOK, CallerInv, Blocked
<1>6. SyncAwaited'
  <2> SUFFICES ASSUME NEW i \in 1..Len(queue), queue[i].sync, NEW d, d = queue[i].caller
               PROVE  Unheard(d)'
    BY <1>1 DEF SyncAwaited
  <2>1. d \in Callers /\ Unheard(d)
    BY QueuedCallers DEF Inv, SyncAwaited
  <2> QED BY <1>1, <1>4, <1>5, <2>1 DEF Unheard
<1>7. ServiceInv'
  <2>1. svc = "unlock" => client # c
    BY <1>1 DEF Inv, ServiceInv
  <2>2. svc = "notify" /\ client = c => ~set[c]
    BY DEF Inv, ServiceInv
  <2>3. client \in Callers
    BY DEF Inv, TypeOK
  <2> QED BY <1>1, <1>2, <1>4, <1>5, <2>1, <2>2, <2>3 DEF Inv, ServiceInv
<1>8. CallerInv'
  <2> SUFFICES ASSUME NEW d \in Callers
               PROVE  (/\ d \in alive <=> pc[d] # "idle"
                       /\ set[d] => Blocked(d) /\ NoneQueued(d)
                       /\ pc[d] = "test" => d \in held
                       /\ pc[d] = "return" => NoneQueued(d))'
    BY DEF CallerInv
  <2>1. CASE d = c
    BY <1>1, <1>2, <1>5, <2>1 DEF Inv, TypeOK
  <2>2. CASE d # c
    BY <1>1, <1>2, <1>4, <2>2 DEF Inv, CallerInv
  <2> QED BY <2>1, <2>2
<1>9. ExitInv'
  BY <1>1 DEF Inv, ExitInv
<1> QED BY <1>2, <1>3, <1>6, <1>7, <1>8, <1>9 DEF Inv

\* The event of a call that returns is in no other hands.
LEMMA ReturnKeepsInv ==
  ASSUME Inv, NEW c \in Callers, Return(c)
  PROVE  Inv'
<1>1. /\ pc[c] = "return" /\ pc' = [pc EXCEPT ![c] = "idle"] /\ alive' = alive \ {c}
      /\ UNCHANGED <<queue, svc, client, calls, ran, set, held, signalled, listening,
                     work, phase>>
  BY DEF Return
<1>2. /\ Counted' /\ SyncLast'
      /\ \A d \in Callers : NoneQueued(d)' <=> NoneQueued(d)
  BY <1>1, QueueUnchanged
<1>3. TypeOK'
  BY <1>1 DEF Inv, TypeOK
<1>4. \A d \in Callers : /\ Blocked(d)' <=> Blocked(d)
                         /\ d # c => pc'[d] = pc[d]
  BY <1>1 DEF Inv, TypeOK, Blocked
<1>5. SyncAwaited'
  BY <1>1, <1>4, QueuedCallers DEF Inv, SyncAwaited, Unheard
<1>6. ServiceInv'
  BY <1>1, <1>2, <1>4 DEF Inv, TypeOK, ServiceInv
<1>7. CallerInv'
  BY <1>1, <1>2, <1>4 DEF Inv, TypeOK, CallerInv
<1>8. ExitInv'
  BY <1>1 DEF Inv, ExitInv
<1> QED BY <1>2, <1>3, <1>5, <1>6, <1>7, <1>8 DEF Inv

\* The handler that runs is one less of its caller; if it is a sync_handler,
\* none of its caller is left.
LEMMA RunOneKeepsInv ==
  ASSUME Inv, Run, NEW h, h = Head(queue), NEW c, c = h.caller
  PROVE  Inv'
<1>1. /\ queue \in Seq(Handler) /\ queue # <<>> /\ Len(queue) \in Nat \ {0}
      /\ h = queue[1] /\ queue' = Tail(queue)
      /\ queue' \in Seq(Handler) /\ Len(queue') = Len(queue) - 1
      /\ \A i \in 1..Len(queue') : queue'[i] = queue[i + 1]
  BY EmptySeq DEF Run, QueueRest, Inv, TypeOK
<1>2. h \in Handler /\ c \in Callers /\ h.sync \in BOOLEAN
  <2>1. h \in Handler
    BY <1>1
  <2> QED BY <2>1 DEF Handler
<1>3. /\ svc = "idle" /\ ran' = [ran EXCEPT ![c] = @ + 1]
      /\ listening' = Effected(h) /\ set' = set
      /\ svc' = (IF h.sync THEN "notify" ELSE "idle") /\ client' = c
      /\ UNCHANGED <<pc, calls, alive, held, signalled, work, phase>>
  BY DEF Run, SetWhenRun
<1>4. listening' \in SUBSET Callers
  <2>1. listening \subseteq Callers
    BY DEF Inv, TypeOK
  <2>2. CASE h.effect = "open"
    BY <1>2, <1>3, <2>1, <2>2, Zenon DEF Effected
  <2>3. CASE h.effect = "close"
    <3>1. listening' = listening \ {c}
      BY <1>3, <2>3, Zenon DEF Effected
    <3> QED BY <2>1, <3>1
  <2>4. CASE h.effect = "none"
    <3>1. listening' = listening
      BY <1>3, <2>4, Zenon DEF Effected
    <3> QED BY <2>1, <3>1
  <2>5. h.effect \in {"none", "open", "close"}
    BY <1>2 DEF Handler, Effect
  <2> QED BY <2>2, <2>3, <2>4, <2>5
<1>5. h.sync => Unheard(c)
  BY <1>1 DEF Inv, SyncAwaited
<1>6. h.sync => NoneQueued(c)'
  <2> SUFFICES ASSUME h.sync, NEW i \in 1..Len(queue') PROVE queue'[i].caller # c
    BY DEF NoneQueued
  <2>1. 1 < i + 1 /\ 1 \in 1..Len(queue) /\ i + 1 \in 1..Len(queue)
    BY <1>1
  <2> QED BY <1>1, <2>1 DEF Inv, SyncLast
<1>7. \A d \in Callers : NoneQueued(d) => NoneQueued(d)'
  BY <1>1 DEF NoneQueued
<1>8. ASSUME NEW d \in Callers
      PROVE  /\ ran'[d] + Waiting(d)' = calls[d]
             /\ ran'[d] \in 0..MaxCalls
  <2>1. Cardinality(Places(queue', d)) =
          Cardinality(Places(queue, d)) - (IF c = d THEN 1 ELSE 0)
    BY <1>1, CountTail
  <2>2. Cardinality(Places(queue, d)) \in Nat /\ Cardinality(Places(queue', d)) \in Nat
    BY <1>1, PlacesFinite
  <2>3. ran'[d] = ran[d] + (IF c = d THEN 1 ELSE 0)
    BY <1>2, <1>3, MaxCallsAssumption DEF Inv, TypeOK
  <2>4. ran[d] + Cardinality(Places(queue, d)) = calls[d]
        /\ ran[d] \in Nat /\ calls[d] \in 0..MaxCalls
    BY MaxCallsAssumption DEF Inv, TypeOK, Counted, Waiting
  <2> QED BY <2>1, <2>2, <2>3, <2>4, MaxCallsAssumption DEF Waiting
<1>9. TypeOK'
  <2>1. ran' \in [Callers -> 0..MaxCalls]
    BY <1>3, <1>8 DEF Inv, TypeOK
  <2> QED BY <1>1, <1>2, <1>3, <1>4, <2>1 DEF Inv, TypeOK
<1>10. Counted'
  BY <1>3, <1>8 DEF Counted
<1>11. SyncLast'
  BY <1>1 DEF Inv, SyncLast
<1>12. SyncAwaited'
  <2> SUFFICES ASSUME NEW i \in 1..Len(queue'), queue'[i].sync,
                      NEW d, d = queue'[i].caller
               PROVE  Unheard(d)'
    BY DEF SyncAwaited
  <2>1. Unheard(d)
    BY <1>1 DEF Inv, SyncAwaited
  <2>2. h.sync => d # c
    BY <1>6 DEF NoneQueued
  <2> QED BY <1>3, <2>1, <2>2 DEF Unheard, Blocked
<1>13. ServiceInv'
  BY <1>3, <1>5, <1>6 DEF ServiceInv, Unheard, Blocked, NoneQueued
<1>14. CallerInv'
  BY <1>3, <1>7 DEF Inv, CallerInv, Blocked
<1>15. ExitInv'
  BY <1>1, <1>3 DEF Inv, ExitInv
<1> QED BY <1>9, <1>10, <1>11, <1>12, <1>13, <1>14, <1>15 DEF Inv

\* The handler that runs is the head of the queue.
LEMMA RunKeepsInv == ASSUME Inv, Run PROVE Inv'
BY RunOneKeepsInv

\* The event set is that of a caller none of whose handlers is left.
LEMMA NotifyKeepsInv == ASSUME Inv, Notify PROVE Inv'
<1>1. /\ svc = "notify" /\ client \notin held /\ held' = held \cup {client}
      /\ set' = [set EXCEPT ![client] = TRUE] /\ signalled' = Signalled /\ svc' = "unlock"
      /\ UNCHANGED <<queue, client, pc, calls, ran, alive, listening, work, phase>>
  BY DEF Notify
<1>2. /\ Counted' /\ SyncLast'
      /\ \A d \in Callers : NoneQueued(d)' <=> NoneQueued(d)
  BY <1>1, QueueUnchanged
<1>3. client \in Callers /\ Blocked(client) /\ NoneQueued(client)
  BY <1>1 DEF Inv, TypeOK, ServiceInv
<1>4. TypeOK'
  BY <1>1, <1>3 DEF Inv, TypeOK, Signalled
<1>5. pc[client] \in {"lock", "wait"}
  BY <1>1, <1>3 DEF Inv, CallerInv, Blocked
<1>6. SyncAwaited'
  <2> SUFFICES ASSUME NEW i \in 1..Len(queue), queue[i].sync, NEW d, d = queue[i].caller
               PROVE  Unheard(d)'
    BY <1>1 DEF SyncAwaited
  <2>1. d \in Callers /\ Unheard(d) /\ d # client
    BY <1>3, QueuedCallers DEF Inv, SyncAwaited, NoneQueued
  <2> QED BY <1>1, <2>1 DEF Inv, TypeOK, Unheard, Blocked
<1>7. ServiceInv'
  BY <1>1, <1>2, <1>3, <1>5 DEF Inv, TypeOK, ServiceInv, NoneQueued
<1>8. CallerInv'
  BY <1>1, <1>2, <1>3 DEF Inv, TypeOK, CallerInv, Blocked
<1>9. ExitInv'
  BY <1>1 DEF Inv, ExitInv
<1> QED BY <1>2, <1>4, <1>6, <1>7, <1>8, <1>9 DEF Inv

\* The caller has not got past the mutex that notify gives back.
LEMMA UnlockKeepsInv == ASSUME Inv, Unlock PROVE Inv'
<1>1. /\ svc = "unlock" /\ held' = held \ {client} /\ svc' = "idle"
      /\ UNCHANGED <<queue, client, pc, calls, ran, alive, set, signalled, listening,
                     work, phase>>
  BY DEF Unlock
<1>2. /\ Counted' /\ SyncLast'
      /\ \A d \in Callers : NoneQueued(d)' <=> NoneQueued(d)
  BY <1>1, QueueUnchanged
<1>3. TypeOK'
  BY <1>1 DEF Inv, TypeOK
<1>4. pc[client] # "test"
  BY <1>1 DEF Inv, ServiceInv
<1>5. SyncAwaited'
  BY <1>1 DEF Inv, SyncAwaited, Unheard, Blocked
<1>6. ServiceInv'
  BY <1>1 DEF ServiceInv
<1>7. CallerInv'
  BY <1>1, <1>2, <1>4 DEF Inv, CallerInv, Blocked
<1>8. ExitInv'
  BY <1>1 DEF Inv, ExitInv
<1> QED BY <1>2, <1>3, <1>5, <1>6, <1>7, <1>8 DEF Inv

\* The destructor begins when no thread calls.
LEMMA CloseKeepsInv == ASSUME Inv, Close PROVE Inv'
<1>1. /\ phase' = "closing" /\ work' = FALSE
      /\ UNCHANGED <<queue, svc, client, pc, calls, ran, alive, set, held, signalled,
                     listening>>
  BY DEF Close, WorkAfterClose, event
<1>2. /\ Counted' /\ SyncLast'
      /\ \A d \in Callers : NoneQueued(d)' <=> NoneQueued(d)
  BY <1>1, QueueUnchanged
<1>3. TypeOK'
  BY <1>1 DEF Inv, TypeOK
<1>4. SyncAwaited'
  BY <1>1 DEF Inv, SyncAwaited, Unheard, Blocked
<1>5. ServiceInv' /\ CallerInv'
  BY <1>1 DEF Inv, ServiceInv, CallerInv, Blocked, NoneQueued
<1>6. ExitInv'
  BY <1>1 DEF ExitInv
<1> QED BY <1>2, <1>3, <1>4, <1>5, <1>6 DEF Inv

\* The thread ends only when nothing waits.
LEMMA ExitKeepsInv == ASSUME Inv, Exit PROVE Inv'
<1>1. /\ phase' = "exited" /\ queue = <<>>
      /\ UNCHANGED <<queue, svc, client, pc, calls, ran, alive, set, held, signalled,
                     listening, work>>
  BY DEF Exit, ThreadMayEnd, event
<1>2. /\ Counted' /\ SyncLast'
      /\ \A d \in Callers : NoneQueued(d)' <=> NoneQueued(d)
  BY <1>1, QueueUnchanged
<1>3. TypeOK'
  BY <1>1 DEF Inv, TypeOK
<1>4. SyncAwaited'
  BY <1>1 DEF Inv, SyncAwaited, Unheard, Blocked
<1>5. ServiceInv' /\ CallerInv'
  BY <1>1 DEF Inv, ServiceInv, CallerInv, Blocked, NoneQueued
<1>6. ExitInv'
  BY <1>1 DEF ExitInv
<1> QED BY <1>2, <1>3, <1>4, <1>5, <1>6 DEF Inv

-----------------------------------------------------------------------------
(***************************************************************************)
(* The invariant, and what follows from it.                                *)
(***************************************************************************)
\* Nothing has been posted yet.
LEMMA InitInv == Init => Inv
<1> SUFFICES ASSUME Init PROVE Inv
  OBVIOUS
<1>1. queue = <<>> /\ queue \in Seq(Handler) /\ Len(queue) = 0
  BY EmptySeq DEF Init
<1>2. TypeOK
  <2>1. 0 \in 0..MaxCalls
    BY MaxCallsAssumption
  <2>2. calls \in [Callers -> 0..MaxCalls] /\ ran \in [Callers -> 0..MaxCalls]
    BY <2>1 DEF Init
  <2> QED BY <1>1, <2>2 DEF Init, TypeOK
<1>3. Counted
  <2> SUFFICES ASSUME NEW c \in Callers PROVE ran[c] + Waiting(c) = calls[c]
    BY DEF Counted
  <2>1. \A i \in 1..Len(queue) : queue[i].caller # c
    BY <1>1
  <2>2. Waiting(c) = 0
    BY <1>1, <2>1, PlacesFinite DEF Waiting
  <2> QED BY <2>2 DEF Init
<1>4. SyncLast /\ SyncAwaited
  BY <1>1 DEF SyncLast, SyncAwaited
<1>5. ServiceInv /\ CallerInv /\ ExitInv
  BY DEF Init, ServiceInv, CallerInv, ExitInv
<1> QED BY <1>2, <1>3, <1>4, <1>5 DEF Inv

\* Every step keeps the invariant.
LEMMA NextInv == Inv /\ [Next]_vars => Inv'
<1> SUFFICES ASSUME Inv, [Next]_vars PROVE Inv'
  OBVIOUS
<1>1. ASSUME NEW c \in Callers, Caller(c) PROVE Inv'
  <2>1. {"none", "open"} \subseteq Effect /\ {"none", "close"} \subseteq Effect
    BY DEF Effect
  <2> QED BY <1>1, <2>1, AsyncCallKeepsInv, SyncCallKeepsInv, LockKeepsInv, TestKeepsInv,
             WakeKeepsInv, ReturnKeepsInv DEF Caller, WakeSignalled, WakeSpurious
<1>2. CASE Service
  BY <1>2, RunKeepsInv, NotifyKeepsInv, UnlockKeepsInv DEF Service
<1>3. CASE UNCHANGED vars
  <2>1. UNCHANGED <<queue, svc, client, pc, calls, ran, alive, set, held, signalled,
                    listening, work, phase>>
    BY <1>3 DEF vars, event
  <2>2. /\ Counted' /\ SyncLast'
        /\ \A d \in Callers : NoneQueued(d)' <=> NoneQueued(d)
    BY <2>1, QueueUnchanged
  <2>3. TypeOK'
    BY <2>1 DEF Inv, TypeOK
  <2>4. SyncAwaited'
    BY <2>1 DEF Inv, SyncAwaited, Unheard, Blocked
  <2>5. ServiceInv' /\ CallerInv' /\ ExitInv'
    BY <2>1 DEF Inv, ServiceInv, CallerInv, ExitInv, Blocked, NoneQueued
  <2> QED BY <2>2, <2>3, <2>4, <2>5 DEF Inv
<1> QED BY <1>1, <1>2, <1>3, CloseKeepsInv, ExitKeepsInv DEF Next

\* The invariant holds in every reachable state.
THEOREM Invariance == Spec => []Inv
<1>1. Init => Inv
  BY InitInv
<1>2. Inv /\ [Next]_vars => Inv'
  BY NextInv
<1> QED BY <1>1, <1>2, PTL DEF Spec

\* The variables keep their types: never do more handlers of a caller run
\* than it posted.
THEOREM TypeCorrect == Spec => []TypeOK
<1>1. Inv => TypeOK
  BY DEF Inv
<1> QED BY <1>1, Invariance, PTL

\* When sync_call returns, all its caller has posted has run; when the
\* destructor returns, all that anybody has posted: for any number of
\* threads and calls, and any spurious wake-ups.
THEOREM SyncCallIsBarrier == Spec => []SyncIsBarrier
<1>1. Inv => SyncIsBarrier
  <2> SUFFICES ASSUME Inv, NEW c \in Callers, pc[c] = "return" \/ phase = "exited"
               PROVE  ran[c] = calls[c]
    BY DEF SyncIsBarrier
  <2>1. queue \in Seq(Handler)
    BY DEF Inv, TypeOK
  <2>2. NoneQueued(c)
    <3>1. CASE pc[c] = "return"
      BY <3>1 DEF Inv, CallerInv
    <3>2. CASE phase = "exited"
      <4>1. Len(queue) = 0
        BY <3>2 DEF Inv, ExitInv
      <4> QED BY <4>1 DEF NoneQueued
    <3> QED BY <3>1, <3>2
  <2>3. Waiting(c) = 0
    BY <2>1, <2>2, PlacesFinite DEF Waiting, NoneQueued
  <2>4. ran[c] + Waiting(c) = calls[c] /\ ran[c] \in Nat
    BY MaxCallsAssumption DEF Inv, TypeOK, Counted
  <2> QED BY <2>3, <2>4
<1> QED BY <1>1, Invariance, PTL

\* The service thread is inside the notify of an event only while the
\* sync_call that owns it has not returned.
THEOREM NotifiesLiveEvents == Spec => []EventOutlivesNotify
<1>1. Inv => EventOutlivesNotify
  BY DEF Inv, TypeOK, ServiceInv, CallerInv, Blocked, EventOutlivesNotify
<1> QED BY <1>1, Invariance, PTL
=============================================================================
