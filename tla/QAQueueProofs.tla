---------------------------- MODULE QAQueueProofs ----------------------------
(***************************************************************************)
(* For any number of instances, users, workers, requests and mishaps: the  *)
(* counters of the question queue are what they count, the limits they     *)
(* stand for are kept, and no wake-up is lost.                             *)
(***************************************************************************)
EXTENDS QAQueue, FiniteSetTheorems, TLAPS

USE QAQueueAssumption

-----------------------------------------------------------------------------
(* Types of the pieces.                                                    *)

LEMMA AbsentType ==
    /\ Absent("done") \in Request /\ Absent("lost") \in Request /\ Absent("new") \in Request
    /\ Absent("done").pc = "done" /\ Absent("lost").pc = "lost" /\ Absent("new").pc = "new"
  BY DEF Absent, Request, ReqStates

LEMMA CounterType ==
    ASSUME NEW c \in Counter
    PROVE  /\ c.n \in Int /\ c.ttl \in 0..TTL
           /\ Incr(c) \in Counter /\ Incr(c).n = c.n + 1
           /\ Decr(c) \in Counter /\ Decr(c).n = c.n - 1
           /\ Older(c) \in Counter
           /\ Older(c).n = c.n \/ (c.ttl = 1 /\ Older(c).n = 0)
           /\ [c EXCEPT !.ttl = TTL] \in Counter /\ [c EXCEPT !.ttl = TTL].n = c.n
           /\ [c EXCEPT !.n = c.n + 1] \in Counter /\ [c EXCEPT !.n = c.n + 1].n = c.n + 1
  <1>1. c.n \in Int /\ c.ttl \in 0..TTL /\ TTL \in 0..TTL
    BY DEF Counter
  <1>2. Incr(c) \in Counter /\ Incr(c).n = c.n + 1
    BY <1>1 DEF Counter, Incr
  <1>3. Decr(c) \in Counter /\ Decr(c).n = c.n - 1
    BY <1>1 DEF Counter, Decr
  <1>4. Older(c) \in Counter /\ (Older(c).n = c.n \/ (c.ttl = 1 /\ Older(c).n = 0))
    <2>1. CASE c.ttl = 1
      BY <2>1 DEF Older, NoKey, Counter
    <2>2. CASE c.ttl # 1
      <3>1. (IF c.ttl = 0 THEN 0 ELSE c.ttl - 1) \in 0..TTL
        BY <1>1
      <3>2. Older(c) = [c EXCEPT !.ttl = IF c.ttl = 0 THEN 0 ELSE c.ttl - 1]
        BY <2>2 DEF Older
      <3> QED  BY <1>1, <3>1, <3>2 DEF Counter
    <2> QED  BY <2>1, <2>2
  <1>5. /\ [c EXCEPT !.ttl = TTL] \in Counter /\ [c EXCEPT !.ttl = TTL].n = c.n
        /\ [c EXCEPT !.n = c.n + 1] \in Counter /\ [c EXCEPT !.n = c.n + 1].n = c.n + 1
    BY <1>1 DEF Counter
  <1> QED  BY <1>1, <1>2, <1>3, <1>4, <1>5

ReqOK == req \in [Requests -> Request]

LocalOK ==
    /\ perUser \in [Instances -> [Users -> Int]]
    /\ state \in [Instances -> {"open", "closing", "closed"}]
    /\ asleep \in [Instances -> 0..WorkerCount] /\ exited \in [Instances -> 0..WorkerCount]

QueueOK == queue \in [Instances -> Seq(Requests)]

SharedOK ==
    /\ redis \in BOOLEAN /\ lapsed \in BOOLEAN
    /\ users \in [Users -> Counter] /\ gate \in Counter
    /\ crashes \in Nat /\ strays \in Nat /\ faults \in Nat

LEMMA TypeParts == TypeOK <=> ReqOK /\ LocalOK /\ QueueOK /\ SharedOK
  BY DEF TypeOK, ReqOK, LocalOK, QueueOK, SharedOK

LEMMA TypePartsNext == TypeOK' <=> ReqOK' /\ LocalOK' /\ QueueOK' /\ SharedOK'
  BY DEF TypeOK, ReqOK, LocalOK, QueueOK, SharedOK

-----------------------------------------------------------------------------
(***************************************************************************)
(* What a step makes of the requests: it moves one of them, or one         *)
(* instance loses its own, or nothing happens to them.                     *)
(***************************************************************************)

\* Request r is elsewhere, and the others are where they were.
Moves(r, there) ==
    /\ req' = [req EXCEPT ![r] = there] /\ there \in Request

LEMMA MovesType ==
    ASSUME ReqOK, NEW r \in Requests, NEW there, Moves(r, there)
    PROVE  /\ ReqOK' /\ req'[r] = there
           /\ \A q \in Requests \ {r} : req'[q] = req[q]
  BY DEF ReqOK, Moves

LEMMA EndMoves ==
    ASSUME ReqOK, NEW r \in Requests, End(r)
    PROVE  Moves(r, Absent("done"))
  BY AbsentType DEF End, Moves

LEMMA GotoMoves ==
    ASSUME ReqOK, NEW r \in Requests, NEW pc \in ReqStates, Goto(r, pc)
    PROVE  /\ Moves(r, [req[r] EXCEPT !.pc = pc])
           /\ [req[r] EXCEPT !.pc = pc].pc = pc
           /\ [req[r] EXCEPT !.pc = pc].at = req[r].at
           /\ [req[r] EXCEPT !.pc = pc].user = req[r].user
  <1>1. req[r] \in Request
    BY DEF ReqOK
  <1> QED  BY <1>1 DEF Goto, Moves, Request

LEMMA QueuedType ==
    ASSUME QueueOK, NEW i \in Instances
    PROVE  /\ queue[i] \in Seq(Requests) /\ Len(queue[i]) \in Nat
           /\ \A k \in DOMAIN queue[i] : queue[i][k] \in Requests
           /\ queue[i] # <<>> => Head(queue[i]) \in Requests /\ Head(queue[i]) = queue[i][1]
  BY DEF QueueOK

\* Admit counts the request, or Redis fails.
LEMMA AdmitMoves ==
    ASSUME ReqOK, NEW r \in Requests, NEW i \in Instances, NEW u \in Users, Admit(r, i, u)
    PROVE  \E pc \in {"over", "admitted"} :
              Moves(r, [pc |-> pc, at |-> i, user |-> u])
  <1>1. \A pc \in {"over", "admitted"} : [pc |-> pc, at |-> i, user |-> u] \in Request
    BY DEF Request, ReqStates
  <1>2. \E pc \in {"over", "admitted"} : req' = [req EXCEPT ![r] = [pc |-> pc, at |-> i, user |-> u]]
    BY DEF Admit
  <1> QED  BY <1>1, <1>2 DEF Moves

LEMMA ReqStep ==
    ASSUME TypeOK, Next
    PROVE  ReqOK'
  <1>1. ReqOK /\ QueueOK
    BY TypeParts
  <1>2. ASSUME NEW r \in Requests, NEW there, Moves(r, there)
        PROVE  ReqOK'
    BY <1>1, <1>2, MovesType
  <1>3. ASSUME NEW r \in Requests, NEW pc \in ReqStates, Goto(r, pc)
        PROVE  ReqOK'
    BY <1>1, <1>2, <1>3, GotoMoves
  <1>4. ASSUME NEW r \in Requests, End(r)
        PROVE  ReqOK'
    BY <1>1, <1>2, <1>4, EndMoves
  <1>5. ASSUME NEW r \in Requests, NEW i \in Instances, NEW u \in Users, Admit(r, i, u)
        PROVE  ReqOK'
    BY <1>1, <1>2, <1>5, AdmitMoves
  <1>6. ASSUME NEW r \in Requests, RejectOver(r) \/ Reject(r) \/ Leave(r)
        PROVE  ReqOK'
    BY <1>4, <1>6 DEF RejectOver, Reject, Leave
  <1>7. ASSUME NEW r \in Requests,
               Enqueue(r) \/ Look(r) \/ Acquire(r) \/ Stray(r) \/ GiveUp(r) \/ Finish(r) \/ Release(r)
        PROVE  ReqOK'
    <2>1. {"queued", "leave", "waiting", "running", "stray", "release"} \subseteq ReqStates
      BY DEF ReqStates
    <2> QED  BY <1>3, <1>7, <2>1 DEF Enqueue, Look, Acquire, Stray, GiveUp, Finish, Release
  <1>8. CASE req' = req
    BY <1>1, <1>8 DEF ReqOK
  <1>9. ASSUME NEW r \in Requests, Poll(r)
        PROVE  ReqOK'
    BY <1>8, <1>9 DEF Poll
  <1>10. ASSUME NEW i \in Instances, DequeueStep(i) \/ Stop(i) \/ Broadcast(i)
         PROVE  ReqOK'
    <2>1. CASE Dequeue(i)
      <3>1. Head(queue[i]) \in Requests /\ "taken" \in ReqStates
        BY <1>1, <2>1, QueuedType DEF Dequeue, ReqStates
      <3> QED  BY <1>3, <2>1, <3>1 DEF Dequeue
    <2> QED  BY <1>8, <1>10, <2>1 DEF DequeueStep, Sleep, Exit, Stop, Broadcast
  <1>11. ASSUME NEW i \in Instances, Crash(i)
         PROVE  ReqOK'
    <2>1. req' = [r \in Requests |-> IF req[r].at = i THEN Absent("lost") ELSE req[r]]
      BY <1>11 DEF Crash
    <2> QED  BY <1>1, <2>1, AbsentType DEF ReqOK
  <1>12. ASSUME NEW i \in Instances, NEW u \in Users, StopUser(i, u)
         PROVE  ReqOK'
    <2>1. PICK k \in DOMAIN queue[i] : End(queue[i][k])
      BY <1>12 DEF StopUser
    <2> QED  BY <1>1, <1>4, <2>1, QueuedType
  <1>13. CASE Tick
    BY <1>8, <1>13 DEF Tick
  <1> QED
    BY <1>5, <1>6, <1>7, <1>9, <1>10, <1>11, <1>12, <1>13 DEF Next, WorkerStep

LEMMA InFinite ==
    ASSUME NEW S, NEW i \in Instances
    PROVE  /\ IsFiniteSet(In(S)) /\ IsFiniteSet(At(i, S))
           /\ Cardinality(In(S)) \in Nat /\ Cardinality(At(i, S)) \in Nat
  <1>1. IsFiniteSet(Requests)
    BY FS_Interval DEF Requests
  <1>2. In(S) \subseteq Requests /\ At(i, S) \subseteq Requests
    BY DEF In, At
  <1> QED  BY <1>1, <1>2, FS_Subset, FS_CardinalityType

\* A request that is somewhere has an instance and a user.
Placed ==
    \A r \in Requests : req[r].pc \notin {"new", "done", "lost"} =>
       req[r].at \in Instances /\ req[r].user \in Users

\* What is in a queue is queued there, once.
HoldsOnce(i) ==
    /\ \A k \in DOMAIN queue[i] : req[queue[i][k]].pc = "queued" /\ req[queue[i][k]].at = i
    /\ \A j, k \in DOMAIN queue[i] : queue[i][j] = queue[i][k] => j = k

Held == \A i \in Instances : HoldsOnce(i)

LEMMA HeadHeld ==
    ASSUME TypeOK, Placed, Held, NEW i \in Instances, NEW k \in DOMAIN queue[i]
    PROVE  /\ queue[i][k] \in Requests /\ req[queue[i][k]].pc = "queued"
           /\ req[queue[i][k]].at = i /\ req[queue[i][k]].user \in Users
  <1>1. queue[i][k] \in Requests
    BY TypeParts, QueuedType
  <1> QED  BY <1>1 DEF Placed, Held, HoldsOnce

LEMMA LocalStep ==
    ASSUME TypeOK, Placed, Held, Next
    PROVE  LocalOK'
  <1> USE TypeParts DEF LocalOK
  <1>1. ASSUME NEW i \in Instances, NEW u \in Users, NEW k \in Int, CountLocal(i, u, k)
        PROVE  perUser' \in [Instances -> [Users -> Int]]
    BY <1>1 DEF CountLocal
  <1>2. ASSUME NEW i \in Instances, Signal(i)
        PROVE  asleep' \in [Instances -> 0..WorkerCount]
    <2>1. (IF asleep[i] > 0 THEN asleep[i] - 1 ELSE 0) \in 0..WorkerCount
      OBVIOUS
    <2> QED  BY <1>2, <2>1 DEF Signal
  <1>3. ASSUME NEW r \in Requests, Enqueue(r)
        PROVE  LocalOK'
    <2>1. req[r].at \in Instances /\ req[r].user \in Users
      BY <1>3 DEF Placed, Enqueue
    <2> QED  BY <1>1, <1>2, <1>3, <2>1 DEF Enqueue
  <1>4. ASSUME NEW i \in Instances, Sleep(i) \/ Exit(i)
        PROVE  LocalOK'
    <2>1. Awake(i) > 0 => asleep[i] + 1 \in 0..WorkerCount /\ exited[i] + 1 \in 0..WorkerCount
      BY InFinite DEF Awake
    <2> QED  BY <1>4, <2>1 DEF Sleep, Exit
  <1>5. ASSUME NEW i \in Instances, Dequeue(i)
        PROVE  LocalOK'
    <2> DEFINE u == req[Head(queue[i])].user
    <2>1. CountLocal(i, u, -1) /\ UNCHANGED <<state, asleep, exited>>
      BY <1>5 DEF Dequeue
    <2>2. u \in Users
      <3>1. Head(queue[i]) = queue[i][1] /\ 1 \in DOMAIN queue[i]
        BY <1>5, QueuedType DEF Dequeue
      <3> QED  BY <3>1, HeadHeld
    <2> QED  BY <1>1, <2>1, <2>2
  <1>6. ASSUME NEW i \in Instances, NEW u \in Users, StopUser(i, u)
        PROVE  LocalOK'
    <2>1. CountLocal(i, u, -1) /\ UNCHANGED <<state, asleep, exited>>
      BY <1>6 DEF StopUser
    <2> QED  BY <1>1, <2>1
  <1>7. ASSUME NEW i \in Instances, Stop(i) \/ Broadcast(i)
        PROVE  LocalOK'
    <2>1. 0 \in 0..WorkerCount
      OBVIOUS
    <2> QED  BY <1>7, <2>1 DEF Stop, Broadcast
  <1>8. ASSUME NEW i \in Instances, Crash(i)
        PROVE  LocalOK'
    BY <1>8 DEF Crash
  <1>9. CASE UNCHANGED localVars
    BY <1>9 DEF localVars
  <1>10. ASSUME NEW r \in Requests, RejectOver(r) \/ Reject(r) \/ WorkerStep(r)
         PROVE  LocalOK'
    BY <1>9, <1>10 DEF RejectOver, Reject, WorkerStep, Look, Acquire, Poll, Stray, GiveUp, Finish,
                       Release, Leave
  <1>11. ASSUME NEW r \in Requests, NEW i \in Instances, NEW u \in Users, Admit(r, i, u)
         PROVE  LocalOK'
    BY <1>9, <1>11 DEF Admit
  <1> QED
    BY <1>3, <1>4, <1>5, <1>6, <1>7, <1>8, <1>9, <1>10, <1>11 DEF Next, DequeueStep, Tick

LEMMA SharedStep ==
    ASSUME TypeOK, Next
    PROVE  SharedOK'
  <1> USE TypeParts DEF SharedOK
  <1>1. ASSUME NEW u, Uncount(u)
        PROVE  users' \in [Users -> Counter] /\ faults' \in Nat
    <2>1. faults' \in Nat
      BY <1>1 DEF Uncount, Fault
    <2>2. CASE u \in Users
      <3>1. users[u] \in Counter /\ Decr(users[u]) \in Counter
        BY <2>2, CounterType
      <3>2. users' = users \/ users' = [users EXCEPT ![u] = Decr(users[u])]
        BY <1>1 DEF Uncount
      <3> QED  BY <2>1, <3>1, <3>2
    <2>3. CASE u \notin Users
      BY <1>1, <2>1, <2>3 DEF Uncount
    <2> QED  BY <2>2, <2>3
  <1>2. ASSUME NEW r \in Requests, RejectOver(r) \/ Reject(r) \/ Leave(r)
        PROVE  SharedOK'
    BY <1>1, <1>2 DEF RejectOver, Reject, Leave
  <1>3. ASSUME NEW r \in Requests, NEW i \in Instances, NEW u \in Users, Admit(r, i, u)
        PROVE  SharedOK'
    <2>1. users[u] \in Counter /\ Incr(users[u]) \in Counter
          /\ [users[u] EXCEPT !.n = users[u].n + 1] \in Counter
      BY CounterType
    <2>2. faults' \in Nat
      BY <1>3 DEF Admit, Fault
    <2>3. \/ users' = users \/ users' = [users EXCEPT ![u] = Incr(users[u])]
          \/ users' = [users EXCEPT ![u] = [users[u] EXCEPT !.n = users[u].n + 1]]
      BY <1>3 DEF Admit
    <2>4. users' \in [Users -> Counter]
      BY <2>1, <2>3
    <2> QED  BY <1>3, <2>2, <2>4 DEF Admit
  <1>4. ASSUME NEW i \in Instances, NEW u \in Users, StopUser(i, u)
        PROVE  SharedOK'
    BY <1>1, <1>4 DEF StopUser
  <1>5. ASSUME NEW r \in Requests, Acquire(r) \/ Release(r) \/ Poll(r)
        PROVE  SharedOK'
    <2>1. gate' \in Counter
      BY <1>5, CounterType DEF Acquire, Release, Poll
    <2>2. faults' \in Nat
      BY <1>5 DEF Acquire, Release, Poll, Fault, bounded
    <2> QED  BY <1>5, <2>1, <2>2 DEF Acquire, Release, Poll, bounded
  <1>6. ASSUME NEW r \in Requests, Enqueue(r) \/ Look(r) \/ Stray(r) \/ GiveUp(r) \/ Finish(r)
        PROVE  SharedOK'
    BY <1>6 DEF Enqueue, Look, Stray, GiveUp, Finish, bounded
  <1>7. ASSUME NEW i \in Instances, DequeueStep(i) \/ Stop(i) \/ Broadcast(i) \/ Crash(i)
        PROVE  SharedOK'
    BY <1>7 DEF DequeueStep, Dequeue, Sleep, Exit, Stop, Broadcast, Crash, bounded
  <1>8. CASE Tick
    <2>1. gate' \in Counter /\ users' \in [Users -> Counter]
      BY <1>8, CounterType DEF Tick
    <2>2. lapsed' \in BOOLEAN
      BY <1>8 DEF Tick
    <2> QED  BY <1>8, <2>1, <2>2 DEF Tick
  <1> QED
    BY <1>2, <1>3, <1>4, <1>5, <1>6, <1>7, <1>8 DEF Next, WorkerStep

LEMMA Joined ==
    ASSUME NEW a \in Seq(Requests), NEW b \in Seq(Requests)
    PROVE  /\ a \o b \in Seq(Requests) /\ Len(a \o b) = Len(a) + Len(b)
           /\ \A j \in 1..Len(a) : (a \o b)[j] = a[j]
           /\ \A j \in 1..Len(b) : (a \o b)[Len(a) + j] = b[j]
  OBVIOUS

\* Where entry j of a sequence without its entry k comes from.
Old(k, j) == IF j < k THEN j ELSE j + 1

LEMMA RemovedAt ==
    ASSUME NEW s \in Seq(Requests), NEW k \in DOMAIN s
    PROVE  /\ RemoveAt(s, k) \in Seq(Requests) /\ Len(RemoveAt(s, k)) = Len(s) - 1
           /\ \A j \in 1..(Len(s) - 1) : RemoveAt(s, k)[j] = s[Old(k, j)]
  <1> DEFINE a == SubSeq(s, 1, k - 1)
             b == SubSeq(s, k + 1, Len(s))
  <1>1. Len(s) \in Nat /\ k \in 1..Len(s)
    OBVIOUS
  <1>2. a \in Seq(Requests) /\ Len(a) = k - 1 /\ \A j \in 1..(k - 1) : a[j] = s[j]
    OBVIOUS
  <1>3. b \in Seq(Requests) /\ Len(b) = Len(s) - k /\ \A j \in 1..(Len(s) - k) : b[j] = s[k + j]
    OBVIOUS
  <1>4. RemoveAt(s, k) = a \o b
    BY DEF RemoveAt
  <1> HIDE DEF a, b
  <1>5. /\ a \o b \in Seq(Requests) /\ Len(a \o b) = Len(s) - 1
        /\ \A j \in 1..(k - 1) : (a \o b)[j] = a[j]
        /\ \A j \in 1..(Len(s) - k) : (a \o b)[(k - 1) + j] = b[j]
    BY <1>1, <1>2, <1>3, Joined
  <1>6. ASSUME NEW j \in 1..(Len(s) - 1), j < k
        PROVE  (a \o b)[j] = s[j]
    <2>1. j \in 1..(k - 1)
      BY <1>1, <1>6
    <2> QED  BY <1>2, <1>5, <2>1
  <1>7. ASSUME NEW j \in 1..(Len(s) - 1), j >= k
        PROVE  (a \o b)[j] = s[j + 1]
    <2>1. \E m \in 1..(Len(s) - k) : (k - 1) + m = j /\ k + m = j + 1
      <3>1. j - k + 1 \in 1..(Len(s) - k) /\ (k - 1) + (j - k + 1) = j /\ k + (j - k + 1) = j + 1
        BY <1>1, <1>7
      <3> QED  BY <3>1
    <2>2. PICK m \in 1..(Len(s) - k) : (k - 1) + m = j /\ k + m = j + 1
      BY <2>1
    <2> QED  BY <1>3, <1>5, <2>2
  <1>8. ASSUME NEW j \in 1..(Len(s) - 1)
        PROVE  (a \o b)[j] = s[Old(k, j)]
    <2>1. j < k \/ (~(j < k) /\ j >= k)
      BY <1>1
    <2> QED  BY <1>6, <1>7, <2>1 DEF Old
  <1> QED  BY <1>4, <1>5, <1>8

-----------------------------------------------------------------------------
(* What the steps do to the requests, seen from the queues and counters.   *)

\* Request r goes from one of the states to another, with its user and instance.
Goes(r, from, pc) ==
    /\ req[r].pc \in from /\ req'[r].pc = pc
    /\ req'[r].at = req[r].at /\ req'[r].user = req[r].user
    /\ \A q \in Requests \ {r} : req'[q] = req[q]

\* Request r is over.
Ends(r, from) ==
    /\ req[r].pc \in from /\ req'[r] = Absent("done")
    /\ \A q \in Requests \ {r} : req'[q] = req[q]

\* Request r comes to instance i.
Comes(r, i, u, pc) ==
    /\ req[r].pc = "new" /\ req'[r].pc = pc /\ req'[r].at = i /\ req'[r].user = u
    /\ \A q \in Requests \ {r} : req'[q] = req[q]

LEMMA Comings ==
    ASSUME TypeOK, NEW r \in Requests, NEW i \in Instances, NEW u \in Users, Admit(r, i, u)
    PROVE  /\ Comes(r, i, u, "over") \/ Comes(r, i, u, "admitted")
           /\ redis /\ faults' = 0 =>
                /\ users' = [users EXCEPT ![u] = Incr(users[u])]
                /\ Comes(r, i, u, "over") \/ (Comes(r, i, u, "admitted") /\ ~Beyond(users[u]))
           /\ ~redis => users' = users
           /\ UNCHANGED <<redis, localVars, gate, lapsed, crashes, strays>>
  <1>1. ReqOK /\ faults \in Nat /\ redis \in BOOLEAN
    BY TypeParts DEF SharedOK
  <1>2. req[r].pc = "new" /\ UNCHANGED <<redis, localVars, gate, lapsed, crashes, strays>>
    BY DEF Admit
  <1>3. ASSUME NEW pc \in {"over", "admitted"},
               req' = [req EXCEPT ![r] = [pc |-> pc, at |-> i, user |-> u]]
        PROVE  Comes(r, i, u, pc)
    <2>1. req'[r] = [pc |-> pc, at |-> i, user |-> u]
      BY <1>1, <1>3 DEF ReqOK
    <2>2. \A q \in Requests \ {r} : req'[q] = req[q]
      BY <1>1, <1>3 DEF ReqOK
    <2> QED  BY <1>2, <2>1, <2>2 DEF Comes
  <1>4. \E pc \in {"over", "admitted"} : req' = [req EXCEPT ![r] = [pc |-> pc, at |-> i, user |-> u]]
    BY DEF Admit
  <1>5. redis /\ faults' = 0 =>
           /\ users' = [users EXCEPT ![u] = Incr(users[u])]
           /\ req' = [req EXCEPT ![r] = [pc |-> IF Beyond(users[u]) THEN "over" ELSE "admitted",
                                        at |-> i, user |-> u]]
    BY <1>1 DEF Admit, Fault
  <1>6. ~redis => users' = users
    BY DEF Admit, Fault
  <1>7. redis /\ faults' = 0 =>
           Comes(r, i, u, "over") \/ (Comes(r, i, u, "admitted") /\ ~Beyond(users[u]))
    <2>1. CASE Beyond(users[u])
      BY <1>3, <1>5, <2>1
    <2>2. CASE ~Beyond(users[u])
      BY <1>3, <1>5, <2>2
    <2> QED  BY <2>1, <2>2
  <1>8. Comes(r, i, u, "over") \/ Comes(r, i, u, "admitted")
    BY <1>3, <1>4
  <1> QED  BY <1>2, <1>5, <1>6, <1>7, <1>8

LEMMA Endings ==
    ASSUME TypeOK, NEW r \in Requests, End(r), NEW from, req[r].pc \in from
    PROVE  Ends(r, from)
  BY TypeParts, EndMoves, MovesType DEF Ends

LEMMA Goings ==
    ASSUME TypeOK, NEW r \in Requests, NEW pc \in ReqStates, Goto(r, pc), NEW from, req[r].pc \in from
    PROVE  Goes(r, from, pc)
  <1>1. ReqOK
    BY TypeParts
  <1>2. req'[r] = [req[r] EXCEPT !.pc = pc] /\ \A q \in Requests \ {r} : req'[q] = req[q]
    BY <1>1 DEF Goto, ReqOK
  <1>3. /\ [req[r] EXCEPT !.pc = pc].pc = pc
        /\ [req[r] EXCEPT !.pc = pc].at = req[r].at
        /\ [req[r] EXCEPT !.pc = pc].user = req[r].user
    BY <1>1, GotoMoves
  <1> QED  BY <1>2, <1>3 DEF Goes

LEMMA WorkerGoings ==
    ASSUME TypeOK, NEW r \in Requests
    PROVE  /\ Look(r) => Goes(r, {"taken"}, "leave") \/ Goes(r, {"taken"}, "waiting")
           /\ Acquire(r) => Goes(r, {"waiting"}, "running")
           /\ Stray(r) => Goes(r, {"waiting"}, "stray")
           /\ GiveUp(r) => Goes(r, {"waiting"}, "leave")
           /\ Finish(r) => Goes(r, {"running", "stray"}, "release")
           /\ Release(r) => Goes(r, {"release"}, "leave")
           /\ Enqueue(r) => Goes(r, {"admitted"}, "queued")
  <1> USE DEF ReqStates
  <1>1. Look(r) => Goes(r, {"taken"}, "leave") \/ Goes(r, {"taken"}, "waiting")
    BY Goings DEF Look
  <1>2. Acquire(r) => Goes(r, {"waiting"}, "running")
    BY Goings DEF Acquire
  <1>3. Stray(r) => Goes(r, {"waiting"}, "stray")
    BY Goings DEF Stray
  <1>4. GiveUp(r) => Goes(r, {"waiting"}, "leave")
    BY Goings DEF GiveUp
  <1>5. Finish(r) => Goes(r, {"running", "stray"}, "release")
    BY Goings DEF Finish
  <1>6. Release(r) => Goes(r, {"release"}, "leave")
    BY Goings DEF Release
  <1>7. Enqueue(r) => Goes(r, {"admitted"}, "queued")
    BY Goings DEF Enqueue
  <1> QED  BY <1>1, <1>2, <1>3, <1>4, <1>5, <1>6, <1>7

LEMMA LeaveEnds ==
    ASSUME TypeOK, NEW r \in Requests
    PROVE  /\ RejectOver(r) => Ends(r, {"over"})
           /\ Reject(r) => Ends(r, {"admitted"})
           /\ Leave(r) => Ends(r, {"leave"})
  BY Endings DEF RejectOver, Reject, Leave

LEMMA DequeueGoes ==
    ASSUME TypeOK, Placed, Held, NEW i \in Instances, Dequeue(i)
    PROVE  /\ queue[i] # <<>> /\ 1 \in DOMAIN queue[i] /\ queue[i][1] \in Requests
           /\ Goes(queue[i][1], {"queued"}, "taken") /\ req[queue[i][1]].at = i
           /\ req[queue[i][1]].user \in Users
           /\ CountLocal(i, req[queue[i][1]].user, -1)
           /\ queue' = [queue EXCEPT ![i] = Tail(queue[i])]
  <1>1. queue[i] # <<>> /\ Head(queue[i]) = queue[i][1] /\ 1 \in DOMAIN queue[i]
    BY TypeParts, QueuedType DEF Dequeue
  <1>2. queue[i][1] \in Requests /\ req[queue[i][1]].pc = "queued" /\ req[queue[i][1]].at = i
        /\ req[queue[i][1]].user \in Users
    BY <1>1, HeadHeld
  <1>3. Goto(queue[i][1], "taken")
    BY <1>1 DEF Dequeue
  <1>4. Goes(queue[i][1], {"queued"}, "taken")
    <2> DEFINE r == queue[i][1]
    <2>1. r \in Requests /\ Goto(r, "taken") /\ req[r].pc \in {"queued"} /\ "taken" \in ReqStates
      BY <1>2, <1>3 DEF ReqStates
    <2> HIDE DEF r
    <2>2. Goes(r, {"queued"}, "taken")
      BY <2>1, Goings
    <2> QED  BY <2>2 DEF r
  <1> QED  BY <1>1, <1>2, <1>4 DEF Dequeue

LEMMA StopEnds ==
    ASSUME TypeOK, Placed, Held, NEW i \in Instances, NEW u \in Users, StopUser(i, u)
    PROVE  \E k \in DOMAIN queue[i] :
              /\ queue[i][k] \in Requests
              /\ Ends(queue[i][k], {"queued"})
              /\ req[queue[i][k]].at = i /\ req[queue[i][k]].user = u
              /\ queue' = [queue EXCEPT ![i] = RemoveAt(queue[i], k)]
              /\ CountLocal(i, u, -1) /\ Uncount(u)
  <1>1. PICK k \in DOMAIN queue[i] :
           /\ req[queue[i][k]].user = u /\ End(queue[i][k])
           /\ queue' = [queue EXCEPT ![i] = RemoveAt(queue[i], k)]
           /\ CountLocal(i, u, -1) /\ Uncount(u)
    BY DEF StopUser
  <1>2. queue[i][k] \in Requests /\ req[queue[i][k]].pc = "queued" /\ req[queue[i][k]].at = i
    BY HeadHeld
  <1>3. Ends(queue[i][k], {"queued"})
    <2> DEFINE r == queue[i][k]
    <2>1. r \in Requests /\ End(r) /\ req[r].pc \in {"queued"}
      BY <1>1, <1>2
    <2> HIDE DEF r
    <2>2. Ends(r, {"queued"})
      BY <2>1, Endings
    <2> QED  BY <2>2 DEF r
  <1> QED  BY <1>1, <1>2, <1>3

LEMMA CrashLoses ==
    ASSUME TypeOK, NEW i \in Instances, Crash(i)
    PROVE  \A r \in Requests : req'[r] = IF req[r].at = i THEN Absent("lost") ELSE req[r]
  BY DEF Crash

\* The other requests are where they were.
Only(r) == \A q \in Requests \ {r} : req'[q] = req[q]

\* Steps that are none of the queues' business.
LEMMA Aside ==
    ASSUME TypeOK, Next,
           NEW r \in Requests, RejectOver(r) \/ Reject(r) \/ WorkerStep(r)
    PROVE  /\ UNCHANGED localVars
           /\ Only(r) /\ req[r].pc # "queued" /\ req'[r].pc \notin {"new", "queued"}
           /\ req'[r].pc \notin {"done", "lost"} =>
                req[r].pc \notin {"new", "done", "lost"} /\ req'[r].at = req[r].at /\ req'[r].user = req[r].user
  <1>1. UNCHANGED localVars
    BY DEF RejectOver, Reject, WorkerStep, Look, Acquire, Poll, Stray, GiveUp, Finish, Release, Leave
  <1>2. CASE Poll(r)
    BY <1>1, <1>2 DEF Poll, Only
  <1>3. CASE RejectOver(r) \/ Reject(r) \/ Leave(r)
    <2>1. Ends(r, {"over", "admitted", "leave"})
      BY <1>3, LeaveEnds DEF Ends
    <2> QED  BY <1>1, <2>1, AbsentType DEF Ends, Only
  <1>4. ASSUME NEW from, NEW pc, Goes(r, from, pc),
               from \subseteq {"taken", "waiting", "running", "stray", "release"},
               pc \in {"leave", "waiting", "running", "stray", "release"}
        PROVE  /\ Only(r) /\ req[r].pc # "queued" /\ req'[r].pc \notin {"new", "queued"}
               /\ req[r].pc \notin {"new", "done", "lost"}
               /\ req'[r].at = req[r].at /\ req'[r].user = req[r].user
    BY <1>4 DEF Goes, Only
  <1>5. ASSUME Look(r) \/ Acquire(r) \/ Stray(r) \/ GiveUp(r) \/ Finish(r) \/ Release(r)
        PROVE  /\ Only(r) /\ req[r].pc # "queued" /\ req'[r].pc \notin {"new", "queued"}
               /\ req[r].pc \notin {"new", "done", "lost"}
               /\ req'[r].at = req[r].at /\ req'[r].user = req[r].user
    BY <1>4, <1>5, WorkerGoings
  <1> QED  BY <1>1, <1>2, <1>3, <1>5 DEF WorkerStep

LEMMA Coming ==
    ASSUME TypeOK, NEW r \in Requests, NEW i \in Instances, NEW u \in Users, Admit(r, i, u)
    PROVE  /\ UNCHANGED localVars
           /\ Only(r) /\ req[r].pc = "new" /\ req'[r].pc \in {"over", "admitted"}
           /\ req'[r].at = i /\ req'[r].user = u
  BY Comings DEF Comes, Only

LEMMA QueueStep ==
    ASSUME TypeOK, Placed, Held, Next
    PROVE  QueueOK'
  <1>1. QueueOK
    BY TypeParts
  <1>2. CASE queue' = queue
    BY <1>1, <1>2 DEF QueueOK
  <1>3. ASSUME NEW r \in Requests, Enqueue(r)
        PROVE  QueueOK'
    <2>1. req[r].at \in Instances /\ queue' = [queue EXCEPT ![req[r].at] = Append(queue[req[r].at], r)]
      BY <1>3 DEF Placed, Enqueue
    <2>2. Append(queue[req[r].at], r) \in Seq(Requests)
      BY <1>1, <2>1 DEF QueueOK
    <2> QED  BY <1>1, <2>1, <2>2 DEF QueueOK
  <1>4. ASSUME NEW i \in Instances, Dequeue(i)
        PROVE  QueueOK'
    <2>1. queue[i] \in Seq(Requests) /\ queue[i] # <<>>
      BY <1>1, <1>4 DEF QueueOK, Dequeue
    <2>2. Tail(queue[i]) \in Seq(Requests)
      BY <2>1
    <2>3. queue' = [queue EXCEPT ![i] = Tail(queue[i])]
      BY <1>4, DequeueGoes
    <2> QED  BY <1>1, <2>2, <2>3 DEF QueueOK
  <1>5. ASSUME NEW i \in Instances, NEW u \in Users, StopUser(i, u)
        PROVE  QueueOK'
    <2>1. PICK k \in DOMAIN queue[i] : queue' = [queue EXCEPT ![i] = RemoveAt(queue[i], k)]
      BY <1>5, StopEnds
    <2>2. RemoveAt(queue[i], k) \in Seq(Requests)
      <3>1. queue[i] \in Seq(Requests)
        BY <1>1 DEF QueueOK
      <3> HIDE DEF QueueOK
      <3> QED  BY <3>1, RemovedAt
    <2> QED  BY <1>1, <2>1, <2>2 DEF QueueOK
  <1>6. ASSUME NEW i \in Instances, Crash(i)
        PROVE  QueueOK'
    <2>1. queue' = [queue EXCEPT ![i] = <<>>] /\ <<>> \in Seq(Requests)
      BY <1>6 DEF Crash
    <2> QED  BY <1>1, <2>1 DEF QueueOK
  <1>7. ASSUME NEW i \in Instances, Sleep(i) \/ Exit(i) \/ Stop(i) \/ Broadcast(i)
        PROVE  QueueOK'
    BY <1>2, <1>7 DEF Sleep, Exit, Stop, Broadcast
  <1>8. ASSUME NEW r \in Requests, RejectOver(r) \/ Reject(r) \/ WorkerStep(r)
        PROVE  QueueOK'
    BY <1>2, <1>8, Aside DEF localVars
  <1>9. ASSUME NEW r \in Requests, NEW i \in Instances, NEW u \in Users, Admit(r, i, u)
        PROVE  QueueOK'
    BY <1>2, <1>9, Coming DEF localVars
  <1>10. CASE Tick
    BY <1>2, <1>10 DEF Tick, localVars
  <1> QED
    BY <1>3, <1>4, <1>5, <1>6, <1>7, <1>8, <1>9, <1>10 DEF Next, DequeueStep

LEMMA TypeStep ==
    ASSUME TypeOK, Placed, Held, Next
    PROVE  TypeOK'
  BY ReqStep, LocalStep, QueueStep, SharedStep, TypePartsNext

-----------------------------------------------------------------------------
(* Requests have their place, and the queues hold what is queued.          *)

LEMMA PlacedStep ==
    ASSUME TypeOK, Placed, Held, Next
    PROVE  Placed'
  <1>1. CASE req' = req
    BY <1>1 DEF Placed
  <1>2. ASSUME NEW r \in Requests, Only(r),
               req'[r].pc \notin {"new", "done", "lost"} =>
                  req'[r].at \in Instances /\ req'[r].user \in Users
        PROVE  Placed'
    BY <1>2 DEF Placed, Only
  <1>3. ASSUME NEW r \in Requests, NEW i \in Instances, NEW u \in Users, Admit(r, i, u)
        PROVE  Placed'
    BY <1>2, <1>3, Coming
  <1>4. ASSUME NEW r \in Requests, RejectOver(r) \/ Reject(r) \/ WorkerStep(r)
        PROVE  Placed'
    BY <1>2, <1>4, Aside DEF Placed
  <1>5. ASSUME NEW r \in Requests, Enqueue(r)
        PROVE  Placed'
    BY <1>2, <1>5, WorkerGoings DEF Goes, Only, Placed
  <1>6. ASSUME NEW i \in Instances, Dequeue(i)
        PROVE  Placed'
    <2> DEFINE r == queue[i][1]
    <2>1. r \in Requests /\ Goes(r, {"queued"}, "taken") /\ req[r].at \in Instances /\ req[r].user \in Users
      BY <1>6, DequeueGoes
    <2> HIDE DEF r
    <2> QED  BY <1>2, <2>1 DEF Goes, Only
  <1>7. ASSUME NEW i \in Instances, NEW u \in Users, StopUser(i, u)
        PROVE  Placed'
    <2>1. PICK r \in Requests : Ends(r, {"queued"})
      BY <1>7, StopEnds
    <2> QED  BY <1>2, <2>1, AbsentType DEF Ends, Only
  <1>8. ASSUME NEW i \in Instances, Crash(i)
        PROVE  Placed'
    BY <1>8, CrashLoses, AbsentType DEF Placed
  <1>9. ASSUME NEW i \in Instances, Sleep(i) \/ Exit(i) \/ Stop(i) \/ Broadcast(i)
        PROVE  Placed'
    BY <1>1, <1>9 DEF Sleep, Exit, Stop, Broadcast
  <1>10. CASE Tick
    BY <1>1, <1>10 DEF Tick
  <1> QED
    BY <1>3, <1>4, <1>5, <1>6, <1>7, <1>8, <1>9, <1>10 DEF Next, DequeueStep

LEMMA HoldsSame ==
    ASSUME TypeOK, Placed, Held, NEW i \in Instances, queue'[i] = queue[i],
           \A k \in DOMAIN queue[i] : req'[queue[i][k]] = req[queue[i][k]]
    PROVE  HoldsOnce(i)'
  BY DEF Held, HoldsOnce

LEMMA HeldStep ==
    ASSUME TypeOK, Placed, Held, Next
    PROVE  Held'
  <1>1. ASSUME queue' = queue,
               \A q \in Requests : req[q].pc = "queued" => req'[q] = req[q]
        PROVE  Held'
    <2>1. \A i \in Instances : \A k \in DOMAIN queue[i] : req'[queue[i][k]] = req[queue[i][k]]
      BY <1>1, HeadHeld
    <2> QED  BY <1>1, <2>1, HoldsSame DEF Held
  <1>2. ASSUME NEW r \in Requests, Only(r), NEW i \in Instances,
               req[r].pc # "queued" \/ req[r].at = i,
               \A j \in Instances \ {i} : queue'[j] = queue[j],
               HoldsOnce(i)'
        PROVE  Held'
    <2>1. ASSUME NEW j \in Instances \ {i}
          PROVE  HoldsOnce(j)'
      <3>1. \A k \in DOMAIN queue[j] : req'[queue[j][k]] = req[queue[j][k]]
        BY <1>2, HeadHeld DEF Only
      <3> QED  BY <1>2, <3>1, HoldsSame
    <2> QED  BY <1>2, <2>1 DEF Held
  <1>3. ASSUME NEW r \in Requests, NEW i \in Instances, NEW u \in Users, Admit(r, i, u)
        PROVE  Held'
    BY <1>1, <1>3, Coming DEF Only, localVars
  <1>4. ASSUME NEW r \in Requests, RejectOver(r) \/ Reject(r) \/ WorkerStep(r)
        PROVE  Held'
    BY <1>1, <1>4, Aside DEF Only, localVars
  <1>5. ASSUME NEW r \in Requests, Enqueue(r)
        PROVE  Held'
    <2>1. PICK i \in Instances : req[r].at = i
      BY <1>5 DEF Placed, Enqueue
    <2>2. PICK s \in Seq(Requests) : queue[i] = s
      BY TypeParts, QueuedType
    <2>3. Goes(r, {"admitted"}, "queued") /\ queue' = [queue EXCEPT ![i] = Append(s, r)]
      BY <1>5, <2>1, <2>2, WorkerGoings DEF Enqueue
    <2>4. queue'[i] = Append(s, r) /\ \A j \in Instances \ {i} : queue'[j] = queue[j]
      BY <2>3, TypeParts DEF QueueOK
    <2>5. \A k \in DOMAIN s : s[k] \in Requests /\ s[k] # r /\ req[s[k]].pc = "queued" /\ req[s[k]].at = i
      BY <2>2, <2>3, HeadHeld DEF Goes
    <2>6. \A j, k \in DOMAIN s : s[j] = s[k] => j = k
      BY <2>2 DEF Held, HoldsOnce
    <2>7. /\ DOMAIN Append(s, r) = DOMAIN s \cup {Len(s) + 1} /\ Append(s, r)[Len(s) + 1] = r
          /\ \A k \in DOMAIN s : Append(s, r)[k] = s[k]
      OBVIOUS
    <2>8. req'[r].pc = "queued" /\ req'[r].at = i /\ Only(r)
      BY <2>1, <2>3 DEF Goes, Only
    <2>9. HoldsOnce(i)'
      <3>1. \A k \in DOMAIN Append(s, r) :
               req'[Append(s, r)[k]].pc = "queued" /\ req'[Append(s, r)[k]].at = i
        BY <2>5, <2>7, <2>8 DEF Only
      <3>2. \A j, k \in DOMAIN Append(s, r) : Append(s, r)[j] = Append(s, r)[k] => j = k
        BY <2>5, <2>6, <2>7
      <3> QED  BY <2>4, <3>1, <3>2 DEF HoldsOnce
    <2> QED  BY <1>2, <2>1, <2>4, <2>8, <2>9
  <1>6. ASSUME NEW i \in Instances, Dequeue(i)
        PROVE  Held'
    <2>1. PICK s \in Seq(Requests) : queue[i] = s
      BY TypeParts, QueuedType
    <2>2. PICK r \in Requests : r = s[1]
      BY <1>6, <2>1, DequeueGoes
    <2>3. /\ s # <<>> /\ Goes(r, {"queued"}, "taken") /\ req[r].at = i
          /\ queue' = [queue EXCEPT ![i] = Tail(s)]
      BY <1>6, <2>1, <2>2, DequeueGoes
    <2>4. queue'[i] = Tail(s) /\ \A j \in Instances \ {i} : queue'[j] = queue[j]
      BY <2>3, TypeParts DEF QueueOK
    <2>5. \A k \in DOMAIN s : s[k] \in Requests /\ req[s[k]].pc = "queued" /\ req[s[k]].at = i
      BY <2>1, HeadHeld
    <2>6. \A j, k \in DOMAIN s : s[j] = s[k] => j = k
      BY <2>1 DEF Held, HoldsOnce
    <2>7. /\ \A k \in DOMAIN Tail(s) : k \in Nat /\ k + 1 \in DOMAIN s /\ k + 1 # 1 /\ Tail(s)[k] = s[k + 1]
          /\ 1 \in DOMAIN s
      BY <2>3
    <2>8. Only(r)
      BY <2>3 DEF Goes, Only
    <2>9. HoldsOnce(i)'
      <3>1. ASSUME NEW k \in DOMAIN Tail(s)
            PROVE  req'[Tail(s)[k]].pc = "queued" /\ req'[Tail(s)[k]].at = i
        <4>1. Tail(s)[k] = s[k + 1] /\ k + 1 \in DOMAIN s /\ s[k + 1] # r
          BY <2>2, <2>6, <2>7
        <4> QED  BY <2>5, <2>8, <4>1 DEF Only
      <3>2. ASSUME NEW j \in DOMAIN Tail(s), NEW k \in DOMAIN Tail(s), Tail(s)[j] = Tail(s)[k]
            PROVE  j = k
        <4>1. j + 1 = k + 1 /\ j \in Nat /\ k \in Nat
          BY <2>6, <2>7, <3>2
        <4> QED  BY <4>1
      <3> QED  BY <2>4, <3>1, <3>2 DEF HoldsOnce
    <2> QED  BY <1>2, <2>3, <2>4, <2>8, <2>9
  <1>7. ASSUME NEW i \in Instances, NEW u \in Users, StopUser(i, u)
        PROVE  Held'
    <2>1. PICK s \in Seq(Requests) : queue[i] = s
      BY TypeParts, QueuedType
    <2>2. PICK m \in DOMAIN s :
             /\ s[m] \in Requests /\ Ends(s[m], {"queued"}) /\ req[s[m]].at = i
             /\ queue' = [queue EXCEPT ![i] = RemoveAt(s, m)]
      BY <1>7, <2>1, StopEnds
    <2>3. queue'[i] = RemoveAt(s, m) /\ \A j \in Instances \ {i} : queue'[j] = queue[j]
      BY <2>2, TypeParts DEF QueueOK
    <2>4. \A k \in DOMAIN s : s[k] \in Requests /\ req[s[k]].pc = "queued" /\ req[s[k]].at = i
      BY <2>1, HeadHeld
    <2>5. \A j, k \in DOMAIN s : s[j] = s[k] => j = k
      BY <2>1 DEF Held, HoldsOnce
    <2>6. \A k \in DOMAIN RemoveAt(s, m) :
             k \in Nat /\ Old(m, k) \in DOMAIN s /\ Old(m, k) # m /\ RemoveAt(s, m)[k] = s[Old(m, k)]
      <3>1. /\ DOMAIN RemoveAt(s, m) = 1..(Len(s) - 1) /\ Len(s) \in Nat /\ m \in 1..Len(s)
            /\ DOMAIN s = 1..Len(s)
        BY RemovedAt
      <3>2. ASSUME NEW k \in 1..(Len(s) - 1)
            PROVE  k \in Nat /\ Old(m, k) \in 1..Len(s) /\ Old(m, k) # m
        BY <3>1 DEF Old
      <3>3. \A k \in 1..(Len(s) - 1) : RemoveAt(s, m)[k] = s[Old(m, k)]
        BY RemovedAt
      <3> QED  BY <3>1, <3>2, <3>3
    <2>7. Only(s[m])
      BY <2>2 DEF Ends, Only
    <2>8. \A j, k \in Nat : Old(m, j) = Old(m, k) => j = k
      <3>1. m \in Nat
        OBVIOUS
      <3> QED  BY <3>1 DEF Old
    <2>9. HoldsOnce(i)'
      <3> DEFINE z == RemoveAt(s, m)
      <3>1. ASSUME NEW k \in DOMAIN z
            PROVE  req'[z[k]].pc = "queued" /\ req'[z[k]].at = i
        <4>1. z[k] = s[Old(m, k)] /\ Old(m, k) \in DOMAIN s /\ s[Old(m, k)] # s[m]
          BY <2>5, <2>6
        <4> QED  BY <2>4, <2>7, <4>1 DEF Only
      <3>2. ASSUME NEW j \in DOMAIN z, NEW k \in DOMAIN z, z[j] = z[k]
            PROVE  j = k
        <4>1. Old(m, j) = Old(m, k) /\ j \in Nat /\ k \in Nat
          BY <2>5, <2>6, <3>2
        <4> QED  BY <2>8, <4>1
      <3> HIDE DEF z
      <3>3. queue'[i] = z
        BY <2>3 DEF z
      <3> QED  BY <3>1, <3>2, <3>3 DEF HoldsOnce
    <2> QED  BY <1>2, <2>2, <2>3, <2>7, <2>9
  <1>8. ASSUME NEW i \in Instances, Crash(i)
        PROVE  Held'
    <2>1. queue' = [queue EXCEPT ![i] = <<>>]
      BY <1>8 DEF Crash
    <2>2. queue'[i] = <<>> /\ \A j \in Instances \ {i} : queue'[j] = queue[j]
      BY <2>1, TypeParts DEF QueueOK
    <2>3. HoldsOnce(i)'
      BY <2>2 DEF HoldsOnce
    <2>4. ASSUME NEW j \in Instances \ {i}
          PROVE  HoldsOnce(j)'
      <3>1. \A k \in DOMAIN queue[j] : req'[queue[j][k]] = req[queue[j][k]]
        BY <1>8, HeadHeld, CrashLoses
      <3> QED  BY <2>2, <3>1, HoldsSame
    <2> QED  BY <2>3, <2>4 DEF Held
  <1>9. CASE UNCHANGED <<req, queue>>
    BY <1>1, <1>9
  <1>10. ASSUME NEW i \in Instances, Sleep(i) \/ Exit(i) \/ Stop(i) \/ Broadcast(i)
         PROVE  Held'
    BY <1>9, <1>10 DEF Sleep, Exit, Stop, Broadcast
  <1>11. CASE Tick
    BY <1>9, <1>11 DEF Tick, localVars
  <1> QED
    BY <1>3, <1>4, <1>5, <1>6, <1>7, <1>8, <1>10, <1>11 DEF Next, DequeueStep

-----------------------------------------------------------------------------
(***************************************************************************)
(* No wake-up is lost.  A worker sleeps or returns at an empty queue only, *)
(* and a request joins a queue only while that is open and no worker of it *)
(* has returned, and wakes one.                                            *)
(***************************************************************************)
StaysOpen == \A i \in Instances : state[i] = "open" => exited[i] = 0

Awakened == StaysOpen /\ NoLostWakeup

LEMMA WakeStep ==
    ASSUME TypeOK, Placed, Held, Awakened, Next
    PROVE  Awakened'
  <1> USE DEF Awakened, StaysOpen, NoLostWakeup
  <1> LocalOK /\ QueueOK
    BY TypeParts
  <1>1. CASE UNCHANGED localVars
    BY <1>1 DEF localVars
  <1>2. ASSUME NEW r \in Requests, Enqueue(r)
        PROVE  Awakened'
    <2>1. PICK i \in Instances : req[r].at = i
      BY <1>2 DEF Placed, Enqueue
    <2>2. state[i] = "open" /\ exited[i] = 0
      BY <1>2, <2>1 DEF Enqueue, Refuses
    <2>3. /\ \A j \in Instances \ {i} : queue'[j] = queue[j] /\ asleep'[j] = asleep[j]
          /\ UNCHANGED <<state, exited>>
      BY <1>2, <2>1 DEF Enqueue, Signal, QueueOK, LocalOK
    <2>4. asleep'[i] < WorkerCount
      <3>1. asleep'[i] = IF asleep[i] > 0 THEN asleep[i] - 1 ELSE 0
        BY <1>2, <2>1 DEF Enqueue, Signal, LocalOK
      <3>2. asleep[i] \in 0..WorkerCount
        BY DEF LocalOK
      <3> QED  BY <3>1, <3>2
    <2>5. asleep'[i] + exited'[i] < WorkerCount
      <3>1. asleep'[i] \in Int
        BY <1>2, LocalStep, TypeParts DEF LocalOK, Next
      <3> QED  BY <2>2, <2>3, <2>4, <3>1
    <2> QED  BY <2>2, <2>3, <2>5
  <1>3. ASSUME NEW i \in Instances, Sleep(i) \/ Exit(i)
        PROVE  Awakened'
    <2>1. /\ \A j \in Instances \ {i} : asleep'[j] = asleep[j] /\ exited'[j] = exited[j]
          /\ UNCHANGED <<state, queue>> /\ queue[i] = <<>>
          /\ state[i] # "open" \/ exited'[i] = exited[i]
      BY <1>3 DEF Sleep, Exit, LocalOK
    <2> QED  BY <2>1
  <1>4. ASSUME NEW i \in Instances, Dequeue(i)
        PROVE  Awakened'
    <2>1. UNCHANGED <<state, asleep, exited>> /\ queue[i] # <<>>
          /\ \A j \in Instances \ {i} : queue'[j] = queue[j]
      BY <1>4 DEF Dequeue, QueueOK
    <2> QED  BY <2>1
  <1>5. ASSUME NEW i \in Instances, NEW u \in Users, StopUser(i, u)
        PROVE  Awakened'
    <2>1. UNCHANGED <<state, asleep, exited>>
      BY <1>5 DEF StopUser
    <2>2. PICK k \in DOMAIN queue[i] : queue' = [queue EXCEPT ![i] = RemoveAt(queue[i], k)]
      BY <1>5, StopEnds
    <2>3. queue[i] # <<>> /\ \A j \in Instances \ {i} : queue'[j] = queue[j]
      BY <2>2 DEF QueueOK
    <2> QED  BY <2>1, <2>3
  <1>6. ASSUME NEW i \in Instances, Stop(i)
        PROVE  Awakened'
    BY <1>6 DEF Stop, LocalOK
  <1>7. ASSUME NEW i \in Instances, Broadcast(i)
        PROVE  Awakened'
    <2>1. /\ UNCHANGED <<queue, exited>> /\ asleep'[i] = 0 /\ state'[i] = "closed"
          /\ \A j \in Instances \ {i} : asleep'[j] = asleep[j] /\ state'[j] = state[j]
      BY <1>7 DEF Broadcast, LocalOK
    <2>2. asleep[i] \in 0..WorkerCount /\ exited[i] \in 0..WorkerCount
      BY DEF LocalOK
    <2>3. queue[i] # <<>> => asleep'[i] + exited'[i] < WorkerCount
      BY <2>1, <2>2
    <2> QED  BY <2>1, <2>3
  <1>8. ASSUME NEW i \in Instances, Crash(i)
        PROVE  Awakened'
    <2>1. /\ queue'[i] = <<>> /\ exited'[i] = 0
          /\ \A j \in Instances \ {i} : /\ asleep'[j] = asleep[j] /\ state'[j] = state[j]
                                         /\ exited'[j] = exited[j] /\ queue'[j] = queue[j]
      BY <1>8 DEF Crash, LocalOK, QueueOK
    <2> QED  BY <2>1
  <1>9. ASSUME NEW r \in Requests, RejectOver(r) \/ Reject(r) \/ WorkerStep(r)
        PROVE  Awakened'
    BY <1>1, <1>9, Aside
  <1>10. ASSUME NEW r \in Requests, NEW i \in Instances, NEW u \in Users, Admit(r, i, u)
         PROVE  Awakened'
    BY <1>1, <1>10, Coming
  <1>11. CASE Tick
    BY <1>1, <1>11 DEF Tick
  <1> QED
    BY <1>2, <1>3, <1>4, <1>5, <1>6, <1>7, <1>8, <1>9, <1>10, <1>11 DEF Next, DequeueStep

-----------------------------------------------------------------------------
(***************************************************************************)
(* Counting.  A step moves at most one request, so the size of any set of  *)
(* requests changes by at most that one.                                   *)
(***************************************************************************)
Weight(b) == IF b THEN 1 ELSE 0

LEMMA Finite ==
    ASSUME NEW S \in SUBSET Requests
    PROVE  IsFiniteSet(S) /\ Cardinality(S) \in Nat
  <1>1. IsFiniteSet(Requests)
    BY FS_Interval DEF Requests
  <1> QED  BY <1>1, FS_Subset, FS_CardinalityType

LEMMA Smaller ==
    ASSUME NEW S \in SUBSET Requests, NEW T \in SUBSET S
    PROVE  Cardinality(T) <= Cardinality(S)
  BY Finite, FS_Subset

LEMMA CountOne ==
    ASSUME NEW S \in SUBSET Requests, NEW T \in SUBSET Requests, NEW r \in Requests,
           \A q \in Requests \ {r} : q \in S <=> q \in T
    PROVE  Cardinality(T) = Cardinality(S) + Weight(r \in T) - Weight(r \in S)
  <1> DEFINE C == S \ {r}
  <1>1. C \in SUBSET Requests /\ IsFiniteSet(C) /\ Cardinality(C) \in Nat /\ r \notin C
    BY Finite
  <1>2. Cardinality(C \cup {r}) = Cardinality(C) + 1
    BY <1>1, FS_AddElement
  <1>3. S = (IF r \in S THEN C \cup {r} ELSE C) /\ T = (IF r \in T THEN C \cup {r} ELSE C)
    OBVIOUS
  <1> HIDE DEF C
  <1>4. Cardinality(S) = Cardinality(C) + Weight(r \in S)
    BY <1>1, <1>2, <1>3 DEF Weight
  <1>5. Cardinality(T) = Cardinality(C) + Weight(r \in T)
    <2>1. CASE r \in T
      <3>1. T = C \cup {r} /\ Weight(r \in T) = 1
        BY <1>3, <2>1 DEF Weight
      <3> QED  BY <1>2, <3>1
    <2>2. CASE r \notin T
      <3>1. T = C /\ Weight(r \in T) = 0
        BY <1>3, <2>2 DEF Weight
      <3> QED  BY <1>1, <3>1
    <2> QED  BY <2>1, <2>2
  <1>6. Weight(r \in S) \in Int /\ Weight(r \in T) \in Int
    BY DEF Weight
  <1> QED  BY <1>1, <1>4, <1>5, <1>6

IsCounted(x, u) == x.pc \notin {"new", "done", "lost"} /\ x.user = u
IsLive(x, u) == IsCounted(x, u) /\ x.pc # "over"
IsHolding(x) == x.pc \in {"running", "release"}
IsQueued(x, i, u) == x.pc = "queued" /\ x.at = i /\ x.user = u

\* Requests counted for the user and not beyond the limit.
Live(u) == {r \in Requests : IsLive(req[r], u)}

\* What UserLimit and CountsExact count.
QueuedOf(i, u) == {r \in At(i, {"queued"}) : req[r].user = u}

LEMMA CountedSets ==
    ASSUME ReqOK
    PROVE  /\ \A u : Counted(u) = {r \in Requests : IsCounted(req[r], u)}
           /\ Holding = {r \in Requests : IsHolding(req[r])}
           /\ \A i, u : QueuedOf(i, u) = {r \in Requests : IsQueued(req[r], i, u)}
  <1>1. \A r \in Requests : req[r].pc \in ReqStates
    BY DEF ReqOK, Request
  <1>2. \A u : Counted(u) = {r \in Requests : IsCounted(req[r], u)}
    BY <1>1 DEF Counted, In, IsCounted
  <1>3. Holding = {r \in Requests : IsHolding(req[r])}
    BY DEF Holding, In, IsHolding
  <1>4. \A i, u : QueuedOf(i, u) = {r \in Requests : IsQueued(req[r], i, u)}
    BY DEF QueuedOf, At, In, IsQueued
  <1> QED  BY <1>2, <1>3, <1>4

LEMMA CountedSetsNext ==
    ASSUME ReqOK'
    PROVE  /\ \A u : Counted(u)' = {r \in Requests : IsCounted(req'[r], u)}
           /\ Holding' = {r \in Requests : IsHolding(req'[r])}
           /\ \A i, u : QueuedOf(i, u)' = {r \in Requests : IsQueued(req'[r], i, u)}
           /\ \A u : Live(u)' = {r \in Requests : IsLive(req'[r], u)}
  <1>1. \A r \in Requests : req'[r].pc \in ReqStates
    BY DEF ReqOK, Request
  <1>2. \A u : Counted(u)' = {r \in Requests : IsCounted(req'[r], u)}
    BY <1>1 DEF Counted, In, IsCounted
  <1>3. Holding' = {r \in Requests : IsHolding(req'[r])}
    BY DEF Holding, In, IsHolding
  <1>4. \A i, u : QueuedOf(i, u)' = {r \in Requests : IsQueued(req'[r], i, u)}
    BY DEF QueuedOf, At, In, IsQueued
  <1>5. \A u : Live(u)' = {r \in Requests : IsLive(req'[r], u)}
    BY DEF Live
  <1> QED  BY <1>2, <1>3, <1>4, <1>5

LEMMA CountsFinite ==
    ASSUME ReqOK
    PROVE  /\ \A u : Counted(u) \in SUBSET Requests /\ Live(u) \in SUBSET Counted(u)
                     /\ Cardinality(Counted(u)) \in Nat /\ Cardinality(Live(u)) \in Nat
                     /\ Cardinality(Live(u)) <= Cardinality(Counted(u))
           /\ Holding \in SUBSET Requests /\ Cardinality(Holding) \in Nat
           /\ \A i, u : QueuedOf(i, u) \in SUBSET Requests /\ Cardinality(QueuedOf(i, u)) \in Nat
  <1>1. \A u : Counted(u) \in SUBSET Requests /\ Live(u) \in SUBSET Counted(u)
    BY CountedSets DEF Live, IsLive
  <1>2. Holding \in SUBSET Requests
    BY CountedSets
  <1>3. \A i, u : QueuedOf(i, u) \in SUBSET Requests
    BY CountedSets
  <1>4. \A u : Cardinality(Counted(u)) \in Nat /\ Cardinality(Live(u)) \in Nat
               /\ Cardinality(Live(u)) <= Cardinality(Counted(u))
    BY <1>1, Finite, Smaller
  <1>5. Cardinality(Holding) \in Nat
    BY <1>2, Finite
  <1>6. \A i, u : Cardinality(QueuedOf(i, u)) \in Nat
    BY <1>3, Finite
  <1> QED  BY <1>1, <1>2, <1>3, <1>4, <1>5, <1>6

LEMMA CountsFiniteNext ==
    ASSUME ReqOK'
    PROVE  /\ \A u : Cardinality(Counted(u)') \in Nat /\ Cardinality(Live(u)') \in Nat
           /\ Cardinality(Holding') \in Nat
           /\ \A i, u : Cardinality(QueuedOf(i, u)') \in Nat
  <1>1. \A u : Counted(u)' \in SUBSET Requests /\ Live(u)' \in SUBSET Requests
    BY CountedSetsNext
  <1>2. Holding' \in SUBSET Requests /\ \A i, u : QueuedOf(i, u)' \in SUBSET Requests
    BY CountedSetsNext
  <1> QED  BY <1>1, <1>2, Finite

LEMMA CountsMove ==
    ASSUME ReqOK, ReqOK', NEW r \in Requests, Only(r)
    PROVE  /\ \A u : Cardinality(Counted(u))' =
                        Cardinality(Counted(u)) + Weight(IsCounted(req'[r], u)) - Weight(IsCounted(req[r], u))
           /\ \A u : Cardinality(Live(u))' =
                        Cardinality(Live(u)) + Weight(IsLive(req'[r], u)) - Weight(IsLive(req[r], u))
           /\ Cardinality(Holding)' =
                 Cardinality(Holding) + Weight(IsHolding(req'[r])) - Weight(IsHolding(req[r]))
           /\ \A i, u : Cardinality(QueuedOf(i, u))' =
                 Cardinality(QueuedOf(i, u)) + Weight(IsQueued(req'[r], i, u)) - Weight(IsQueued(req[r], i, u))
  <1>1. ASSUME NEW S \in SUBSET Requests, NEW T \in SUBSET Requests, NEW a, NEW b,
               \A q \in Requests \ {r} : q \in S <=> q \in T,
               a <=> r \in S, b <=> r \in T
        PROVE  Cardinality(T) = Cardinality(S) + Weight(b) - Weight(a)
    <2>1. Cardinality(T) = Cardinality(S) + Weight(r \in T) - Weight(r \in S)
      BY <1>1, CountOne
    <2>2. Weight(b) = Weight(r \in T) /\ Weight(a) = Weight(r \in S)
      BY <1>1 DEF Weight
    <2> QED  BY <2>1, <2>2
  <1>2. ASSUME NEW u
        PROVE  Cardinality(Counted(u))' =
                  Cardinality(Counted(u)) + Weight(IsCounted(req'[r], u)) - Weight(IsCounted(req[r], u))
    <2> DEFINE S == {q \in Requests : IsCounted(req[q], u)}
               T == {q \in Requests : IsCounted(req'[q], u)}
    <2>1. \A q \in Requests \ {r} : q \in S <=> q \in T
      BY DEF Only
    <2>2. S \in SUBSET Requests /\ T \in SUBSET Requests
          /\ (IsCounted(req[r], u) <=> r \in S) /\ (IsCounted(req'[r], u) <=> r \in T)
      OBVIOUS
    <2>3. Counted(u) = S /\ Counted(u)' = T
      BY CountedSets, CountedSetsNext
    <2> HIDE DEF S, T
    <2>4. Cardinality(T) = Cardinality(S) + Weight(IsCounted(req'[r], u)) - Weight(IsCounted(req[r], u))
      BY <1>1, <2>1, <2>2
    <2> QED  BY <2>3, <2>4
  <1>3. ASSUME NEW u
        PROVE  Cardinality(Live(u))' =
                  Cardinality(Live(u)) + Weight(IsLive(req'[r], u)) - Weight(IsLive(req[r], u))
    <2> DEFINE S == {q \in Requests : IsLive(req[q], u)}
               T == {q \in Requests : IsLive(req'[q], u)}
    <2>1. \A q \in Requests \ {r} : q \in S <=> q \in T
      BY DEF Only
    <2>2. S \in SUBSET Requests /\ T \in SUBSET Requests
          /\ (IsLive(req[r], u) <=> r \in S) /\ (IsLive(req'[r], u) <=> r \in T)
      OBVIOUS
    <2>3. Live(u) = S /\ Live(u)' = T
      BY DEF Live
    <2> HIDE DEF S, T
    <2>4. Cardinality(T) = Cardinality(S) + Weight(IsLive(req'[r], u)) - Weight(IsLive(req[r], u))
      BY <1>1, <2>1, <2>2
    <2> QED  BY <2>3, <2>4
  <1>4. Cardinality(Holding)' =
           Cardinality(Holding) + Weight(IsHolding(req'[r])) - Weight(IsHolding(req[r]))
    <2> DEFINE S == {q \in Requests : IsHolding(req[q])}
               T == {q \in Requests : IsHolding(req'[q])}
    <2>1. \A q \in Requests \ {r} : q \in S <=> q \in T
      BY DEF Only
    <2>2. S \in SUBSET Requests /\ T \in SUBSET Requests
          /\ (IsHolding(req[r]) <=> r \in S) /\ (IsHolding(req'[r]) <=> r \in T)
      OBVIOUS
    <2>3. Holding = S /\ Holding' = T
      BY CountedSets, CountedSetsNext
    <2> HIDE DEF S, T
    <2>4. Cardinality(T) = Cardinality(S) + Weight(IsHolding(req'[r])) - Weight(IsHolding(req[r]))
      BY <1>1, <2>1, <2>2
    <2> QED  BY <2>3, <2>4
  <1>5. ASSUME NEW i, NEW u
        PROVE  Cardinality(QueuedOf(i, u))' =
                  Cardinality(QueuedOf(i, u)) + Weight(IsQueued(req'[r], i, u)) - Weight(IsQueued(req[r], i, u))
    <2> DEFINE S == {q \in Requests : IsQueued(req[q], i, u)}
               T == {q \in Requests : IsQueued(req'[q], i, u)}
    <2>1. \A q \in Requests \ {r} : q \in S <=> q \in T
      BY DEF Only
    <2>2. S \in SUBSET Requests /\ T \in SUBSET Requests
          /\ (IsQueued(req[r], i, u) <=> r \in S) /\ (IsQueued(req'[r], i, u) <=> r \in T)
      OBVIOUS
    <2>3. QueuedOf(i, u) = S /\ QueuedOf(i, u)' = T
      BY CountedSets, CountedSetsNext
    <2> HIDE DEF S, T
    <2>4. Cardinality(T) = Cardinality(S) + Weight(IsQueued(req'[r], i, u)) - Weight(IsQueued(req[r], i, u))
      BY <1>1, <2>1, <2>2
    <2> QED  BY <2>3, <2>4
  <1> QED  BY <1>2, <1>3, <1>4, <1>5

-----------------------------------------------------------------------------
(***************************************************************************)
(* The counters.  While Redis answers and no counter expires under a       *)
(* request, a counter is at least what it counts, and equal to it unless   *)
(* instances crashed; so what is compared with a limit is never too small. *)
(***************************************************************************)
UserCounted(u) ==
    /\ users[u].n >= Cardinality(Counted(u))
    /\ crashes = 0 => users[u].n = Cardinality(Counted(u))
    /\ Cardinality(Live(u)) <= MaxPerUser

GateCounted ==
    /\ gate.n >= Cardinality(Holding)
    /\ crashes = 0 => gate.n = Cardinality(Holding)
    /\ Cardinality(Holding) <= GlobalMax

LocalCounted(i, u) ==
    /\ perUser[i][u] = Cardinality(QueuedOf(i, u))
    /\ perUser[i][u] <= MaxPerUser

StraysNoted == strays = 0 => In({"stray"}) = {}

LEMMA Ageing ==
    ASSUME TypeOK, Placed, Held, Next
    PROVE  /\ redis' = redis
           /\ faults' = 0 => faults = 0
           /\ strays' = 0 => strays = 0
           /\ crashes' = 0 => crashes = 0
           /\ lapsed => lapsed'
  <1>1. faults \in Nat /\ strays \in Nat /\ crashes \in Nat /\ lapsed \in BOOLEAN
    BY DEF TypeOK
  <1> DEFINE Grown == /\ redis' = redis
                      /\ faults' = faults \/ faults' = faults + 1
                      /\ strays' = strays \/ strays' = strays + 1
                      /\ crashes' = crashes \/ crashes' = crashes + 1
                      /\ lapsed => lapsed'
  <1>2. ASSUME NEW r \in Requests, RejectOver(r) \/ Reject(r) \/ Leave(r)
        PROVE  Grown
    BY <1>2 DEF RejectOver, Reject, Leave, Uncount, Fault
  <1>3. ASSUME NEW r \in Requests, Acquire(r) \/ Release(r) \/ Stray(r)
        PROVE  Grown
    BY <1>3 DEF Acquire, Release, Stray, Fault
  <1>4. ASSUME NEW r \in Requests, Look(r) \/ Poll(r) \/ GiveUp(r) \/ Finish(r) \/ Enqueue(r)
        PROVE  Grown
    BY <1>4 DEF Look, Poll, GiveUp, Finish, Enqueue, bounded
  <1>5. ASSUME NEW i \in Instances, DequeueStep(i) \/ Stop(i) \/ Broadcast(i) \/ Crash(i)
        PROVE  Grown
    BY <1>5 DEF DequeueStep, Dequeue, Sleep, Exit, Stop, Broadcast, Crash, bounded
  <1>6. ASSUME NEW i \in Instances, NEW u \in Users, StopUser(i, u)
        PROVE  Grown
    BY <1>6 DEF StopUser, Uncount, Fault
  <1>7. ASSUME NEW r \in Requests, NEW i \in Instances, NEW u \in Users, Admit(r, i, u)
        PROVE  Grown
    BY <1>7 DEF Admit, Fault
  <1>8. ASSUME Tick
        PROVE  Grown
    BY <1>8 DEF Tick
  <1> HIDE DEF Grown
  <1>9. Grown
    BY <1>2, <1>3, <1>4, <1>5, <1>6, <1>7, <1>8 DEF Next, WorkerStep
  <1> QED  BY <1>1, <1>9 DEF Grown

\* A healthy state was healthy before.
LEMMA HealthyBefore ==
    ASSUME TypeOK, Placed, Held, Next, Healthy'
    PROVE  /\ Healthy /\ faults' = 0 /\ faults = 0 /\ strays' = 0 /\ strays = 0 /\ ~lapsed'
           /\ redis' = redis /\ Gated' = Gated /\ (crashes' = 0 => crashes = 0)
  BY Ageing DEF Healthy, Gated

LEMMA StraysStep ==
    ASSUME TypeOK, Placed, Held, Next, StraysNoted
    PROVE  StraysNoted'
  <1> SUFFICES ASSUME strays' = 0, NEW q \in Requests, req'[q].pc = "stray"
               PROVE  FALSE
    BY DEF StraysNoted, In
  <1>1. strays = 0 /\ req[q].pc # "stray"
    BY Ageing DEF StraysNoted, In
  <1>2. ASSUME NEW r \in Requests, Only(r), req'[r].pc # "stray"
        PROVE  FALSE
    BY <1>1, <1>2 DEF Only
  <1>3. CASE req' = req
    BY <1>1, <1>3
  <1>4. ASSUME NEW r \in Requests, NEW i \in Instances, NEW u \in Users, Admit(r, i, u)
        PROVE  FALSE
    BY <1>2, <1>4, Coming
  <1>5. ASSUME NEW r \in Requests, Look(r) \/ Acquire(r) \/ GiveUp(r) \/ Finish(r) \/ Release(r) \/ Enqueue(r)
        PROVE  FALSE
    BY <1>2, <1>5, WorkerGoings DEF Goes, Only
  <1>6. ASSUME NEW r \in Requests, RejectOver(r) \/ Reject(r) \/ Leave(r)
        PROVE  FALSE
    BY <1>2, <1>6, LeaveEnds, AbsentType DEF Ends, Only
  <1>7. ASSUME NEW r \in Requests, Poll(r)
        PROVE  FALSE
    BY <1>3, <1>7 DEF Poll
  <1>8. ASSUME NEW r \in Requests, Stray(r)
        PROVE  FALSE
    BY <1>1, <1>8 DEF Stray
  <1>9. ASSUME NEW i \in Instances, Dequeue(i)
        PROVE  FALSE
    <2>1. \E r \in Requests : Goes(r, {"queued"}, "taken")
      BY <1>9, DequeueGoes
    <2> QED  BY <1>2, <2>1 DEF Goes, Only
  <1>10. ASSUME NEW i \in Instances, NEW u \in Users, StopUser(i, u)
         PROVE  FALSE
    <2>1. \E r \in Requests : Ends(r, {"queued"})
      BY <1>10, StopEnds
    <2> QED  BY <1>2, <2>1, AbsentType DEF Ends, Only
  <1>11. ASSUME NEW i \in Instances, Crash(i)
         PROVE  FALSE
    BY <1>1, <1>11, CrashLoses, AbsentType
  <1>12. ASSUME NEW i \in Instances, Sleep(i) \/ Exit(i) \/ Stop(i) \/ Broadcast(i)
         PROVE  FALSE
    BY <1>3, <1>12 DEF Sleep, Exit, Stop, Broadcast
  <1>13. CASE Tick
    BY <1>3, <1>13 DEF Tick
  <1> QED
    BY <1>4, <1>5, <1>6, <1>7, <1>8, <1>9, <1>10, <1>11, <1>12, <1>13
    DEF Next, WorkerStep, DequeueStep

\* The counters of the users.
UsersCounted == redis => \A u \in Users : UserCounted(u)

LEMMA UsersStep ==
    ASSUME TypeOK, TypeOK', Placed, Held, Next, Healthy', UsersCounted
    PROVE  UsersCounted'
  <1> SUFFICES ASSUME redis', NEW v \in Users
               PROVE  UserCounted(v)'
    BY DEF UsersCounted
  <1>1. /\ redis /\ faults' = 0 /\ ~lapsed' /\ (crashes' = 0 => crashes = 0)
        /\ ReqOK /\ ReqOK' /\ users \in [Users -> Counter] /\ UserCounted(v)
        /\ users[v] \in Counter /\ users[v].n \in Int
    BY HealthyBefore, TypeParts, TypePartsNext, CounterType DEF UsersCounted, SharedOK
  <1>2. /\ Cardinality(Counted(v)) \in Nat /\ Cardinality(Live(v)) \in Nat
        /\ Cardinality(Live(v)) <= Cardinality(Counted(v))
    BY <1>1, CountsFinite
  <1>3. ASSUME Cardinality(Counted(v))' = Cardinality(Counted(v)),
               Cardinality(Live(v))' = Cardinality(Live(v)), users'[v] = users[v]
        PROVE  UserCounted(v)'
    BY <1>1, <1>3 DEF UserCounted
  <1>4. CASE UNCHANGED <<req, users>>
    <2>1. Counted(v)' = Counted(v) /\ Live(v)' = Live(v)
      BY <1>4 DEF Counted, Live, In
    <2> QED  BY <1>3, <1>4, <2>1
  <1>5. ASSUME NEW r \in Requests, Only(r), users'[v] = users[v],
               IsCounted(req'[r], v) <=> IsCounted(req[r], v), IsLive(req'[r], v) <=> IsLive(req[r], v)
        PROVE  UserCounted(v)'
    <2>1. Weight(IsCounted(req'[r], v)) = Weight(IsCounted(req[r], v))
          /\ Weight(IsLive(req'[r], v)) = Weight(IsLive(req[r], v))
          /\ Weight(IsCounted(req[r], v)) \in Int /\ Weight(IsLive(req[r], v)) \in Int
      BY <1>5 DEF Weight
    <2>2. Cardinality(Counted(v))' =
             Cardinality(Counted(v)) + Weight(IsCounted(req'[r], v)) - Weight(IsCounted(req[r], v))
          /\ Cardinality(Live(v))' =
               Cardinality(Live(v)) + Weight(IsLive(req'[r], v)) - Weight(IsLive(req[r], v))
      BY <1>1, <1>5, CountsMove
    <2>3. Cardinality(Counted(v))' = Cardinality(Counted(v)) /\ Cardinality(Live(v))' = Cardinality(Live(v))
      BY <1>2, <2>1, <2>2
    <2> QED  BY <1>3, <1>5, <2>3
  <1>6. ASSUME NEW r \in Requests, NEW from, NEW pc, Goes(r, from, pc), users' = users,
               "new" \notin from, "over" \notin from, "done" \notin from, "lost" \notin from,
               pc \notin {"new", "over", "done", "lost"}
        PROVE  UserCounted(v)'
    <2>1. Only(r) /\ (IsCounted(req'[r], v) <=> IsCounted(req[r], v))
          /\ (IsLive(req'[r], v) <=> IsLive(req[r], v))
      BY <1>6 DEF Goes, Only, IsCounted, IsLive
    <2> QED  BY <1>5, <1>6, <2>1
  <1>7. ASSUME NEW r \in Requests, NEW u \in Users, Ends(r, {"over", "admitted", "leave", "queued"}),
               req[r].user = u, Uncount(u)
        PROVE  UserCounted(v)'
    <2>1. users' = [users EXCEPT ![u] = Decr(users[u])] /\ Only(r)
      BY <1>1, <1>7 DEF Uncount, Fault, Ends, Only, SharedOK, TypeOK
    <2>2. CASE v # u
      <3>1. ~IsCounted(req'[r], v) /\ ~IsCounted(req[r], v) /\ users'[v] = users[v]
        BY <1>1, <1>7, <2>1, <2>2, AbsentType DEF Ends, IsCounted
      <3> QED  BY <1>5, <2>1, <3>1 DEF IsLive
    <2>3. CASE v = u
      <3>1. ~IsCounted(req'[r], v) /\ ~IsLive(req'[r], v) /\ IsCounted(req[r], v)
        BY <1>7, <2>3, AbsentType DEF Ends, IsCounted, IsLive
      <3>2. users'[v].n = users[v].n - 1
        BY <1>1, <2>1, <2>3, CounterType
      <3>3. Cardinality(Counted(v))' = Cardinality(Counted(v)) + 0 - 1
        BY <1>1, <2>1, <3>1, CountsMove DEF Weight
      <3>4. Cardinality(Live(v))' <= Cardinality(Live(v))
        <4>1. Cardinality(Live(v))' = Cardinality(Live(v)) + 0 - Weight(IsLive(req[r], v))
          BY <1>1, <2>1, <3>1, CountsMove DEF Weight
        <4>2. Weight(IsLive(req[r], v)) \in {0, 1}
          BY DEF Weight
        <4> QED  BY <1>2, <4>1, <4>2
      <3>5. Cardinality(Live(v))' \in Nat
        BY <1>1, CountsFiniteNext
      <3> QED  BY <1>1, <1>2, <3>2, <3>3, <3>4, <3>5 DEF UserCounted
    <2> QED  BY <2>2, <2>3
  <1>8. ASSUME NEW r \in Requests, NEW i \in Instances, NEW u \in Users, Admit(r, i, u)
        PROVE  UserCounted(v)'
    <2>1. /\ users' = [users EXCEPT ![u] = Incr(users[u])]
          /\ Comes(r, i, u, "over") \/ (Comes(r, i, u, "admitted") /\ ~Beyond(users[u]))
          /\ UNCHANGED <<redis, localVars, gate, lapsed, crashes, strays>>
      BY <1>1, <1>8, Comings
    <2>2. Only(r) /\ req[r].pc = "new" /\ req'[r].pc \in {"over", "admitted"} /\ req'[r].user = u
      BY <1>8, Coming
    <2>3. CASE v # u
      <3>1. ~IsCounted(req'[r], v) /\ ~IsCounted(req[r], v) /\ users'[v] = users[v]
        BY <1>1, <2>1, <2>2, <2>3 DEF IsCounted
      <3> QED  BY <1>5, <2>2, <3>1 DEF IsLive
    <2>4. CASE v = u
      <3>1. IsCounted(req'[r], v) /\ ~IsCounted(req[r], v) /\ ~IsLive(req[r], v)
        BY <2>2, <2>4 DEF IsCounted, IsLive
      <3>2. users'[v].n = users[v].n + 1
        BY <1>1, <2>1, <2>4, CounterType
      <3>3. Cardinality(Counted(v))' = Cardinality(Counted(v)) + 1 - 0
        BY <1>1, <2>2, <3>1, CountsMove DEF Weight
      <3>4. Cardinality(Live(v))' = Cardinality(Live(v)) + Weight(IsLive(req'[r], v)) - 0
        BY <1>1, <2>2, <3>1, CountsMove DEF Weight
      <3>5. Cardinality(Live(v))' <= MaxPerUser
        <4>1. CASE Comes(r, i, u, "over")
          <5>1. Weight(IsLive(req'[r], v)) = 0
            BY <4>1 DEF Comes, IsLive, Weight
          <5> QED  BY <1>1, <1>2, <3>4, <5>1 DEF UserCounted
        <4>2. CASE Comes(r, i, u, "admitted") /\ ~Beyond(users[u])
          <5>1. users[v].n + 1 <= MaxPerUser
            BY <1>1, <2>4, <4>2 DEF Beyond
          <5>2. Weight(IsLive(req'[r], v)) \in {0, 1}
            BY DEF Weight
          <5> QED  BY <1>1, <1>2, <3>4, <5>1, <5>2 DEF UserCounted
        <4> QED  BY <2>1, <4>1, <4>2
      <3> QED  BY <1>1, <1>2, <3>2, <3>3, <3>5 DEF UserCounted
    <2> QED  BY <2>3, <2>4
  <1>9. ASSUME NEW r \in Requests, RejectOver(r) \/ Reject(r) \/ Leave(r)
        PROVE  UserCounted(v)'
    <2>1. Ends(r, {"over", "admitted", "leave", "queued"}) /\ Uncount(req[r].user)
      BY <1>9, LeaveEnds DEF Ends, RejectOver, Reject, Leave
    <2>2. req[r].user \in Users
      BY <2>1 DEF Ends, Placed
    <2> QED  BY <1>7, <2>1, <2>2
  <1>10. ASSUME NEW i \in Instances, NEW u \in Users, StopUser(i, u)
         PROVE  UserCounted(v)'
    <2>1. \E r \in Requests : Ends(r, {"queued"}) /\ req[r].user = u /\ Uncount(u)
      BY <1>10, StopEnds
    <2> QED  BY <1>7, <2>1 DEF Ends
  <1>11. ASSUME NEW r \in Requests,
                Look(r) \/ Acquire(r) \/ Stray(r) \/ GiveUp(r) \/ Finish(r) \/ Release(r) \/ Enqueue(r)
         PROVE  UserCounted(v)'
    <2>1. users' = users
      BY <1>11 DEF Look, Acquire, Stray, GiveUp, Finish, Release, Enqueue
    <2> QED  BY <1>6, <1>11, <2>1, WorkerGoings
  <1>12. ASSUME NEW r \in Requests, Poll(r)
         PROVE  UserCounted(v)'
    BY <1>4, <1>12 DEF Poll
  <1>13. ASSUME NEW i \in Instances, Sleep(i) \/ Exit(i) \/ Stop(i) \/ Broadcast(i)
         PROVE  UserCounted(v)'
    BY <1>4, <1>13 DEF Sleep, Exit, Stop, Broadcast
  <1>14. ASSUME NEW i \in Instances, Dequeue(i)
         PROVE  UserCounted(v)'
    <2>1. users' = users /\ \E r \in Requests : Goes(r, {"queued"}, "taken")
      BY <1>14, DequeueGoes DEF Dequeue
    <2> QED  BY <1>6, <2>1
  <1>15. ASSUME NEW i \in Instances, Crash(i)
         PROVE  UserCounted(v)'
    <2>1. users' = users /\ crashes' # 0
      BY <1>15 DEF Crash, TypeOK
    <2>2. Counted(v)' \in SUBSET Counted(v) /\ Live(v)' \in SUBSET Live(v)
      BY <1>1, <1>15, CrashLoses, AbsentType, CountedSets, CountedSetsNext DEF IsCounted, IsLive, Live
    <2>3. Cardinality(Counted(v)') <= Cardinality(Counted(v)) /\ Cardinality(Live(v)') <= Cardinality(Live(v))
      BY <1>1, <2>2, CountsFinite, Smaller
    <2>4. Cardinality(Counted(v)') \in Nat /\ Cardinality(Live(v)') \in Nat
      BY <1>1, CountsFiniteNext
    <2> QED  BY <1>1, <1>2, <2>1, <2>3, <2>4 DEF UserCounted
  <1>16. CASE Tick
    <2>1. /\ users' = [u \in Users |-> Older(users[u])] /\ req' = req /\ crashes' = crashes
          /\ users[v].ttl = 1 => Counted(v) = {}
      BY <1>1, <1>16 DEF Tick
    <2>2. Counted(v)' = Counted(v) /\ Live(v)' = Live(v)
      BY <2>1 DEF Counted, Live, In
    <2>3. users'[v].n = users[v].n \/ (users[v].ttl = 1 /\ users'[v].n = 0)
      BY <1>1, <2>1, CounterType
    <2>4. CASE users[v].ttl = 1 /\ users'[v].n = 0
      <3>1. Cardinality(Counted(v)) = 0
        BY <2>1, <2>4, FS_EmptySet
      <3> QED  BY <1>1, <2>1, <2>2, <2>4, <3>1 DEF UserCounted
    <2> QED  BY <1>1, <2>1, <2>2, <2>3, <2>4 DEF UserCounted
  <1> QED
    BY <1>8, <1>9, <1>10, <1>11, <1>12, <1>13, <1>14, <1>15, <1>16 DEF Next, WorkerStep, DequeueStep

\* The counter of the gate.
GateExact == Gated => GateCounted

LEMMA GateStep ==
    ASSUME TypeOK, TypeOK', Placed, Held, Next, Healthy', StraysNoted, GateExact
    PROVE  GateExact'
  <1> SUFFICES ASSUME Gated'
               PROVE  GateCounted'
    BY DEF GateExact
  <1>1. /\ Gated /\ faults' = 0 /\ ~lapsed' /\ strays' = 0 /\ strays = 0 /\ (crashes' = 0 => crashes = 0)
        /\ ReqOK /\ ReqOK' /\ gate \in Counter /\ gate.n \in Int /\ GateCounted
        /\ faults \in Nat /\ crashes \in Nat
    BY HealthyBefore, TypeParts, TypePartsNext, CounterType DEF GateExact, SharedOK
  <1>2. Cardinality(Holding) \in Nat /\ Cardinality(Holding') \in Nat
    BY <1>1, CountsFinite, CountsFiniteNext
  <1>3. ASSUME Cardinality(Holding') = Cardinality(Holding), gate'.n = gate.n
        PROVE  GateCounted'
    BY <1>1, <1>3 DEF GateCounted
  <1>4. CASE req' = req /\ gate' = gate
    <2>1. Holding' = Holding
      BY <1>4 DEF Holding, In
    <2> QED  BY <1>3, <1>4, <2>1
  <1>5. ASSUME NEW r \in Requests, Only(r), gate' = gate, ~IsHolding(req[r]), ~IsHolding(req'[r])
        PROVE  GateCounted'
    <2>1. Cardinality(Holding') = Cardinality(Holding) + 0 - 0
      BY <1>1, <1>5, CountsMove DEF Weight
    <2> QED  BY <1>2, <1>3, <1>5, <2>1
  <1>6. ASSUME NEW r \in Requests, Look(r) \/ Stray(r) \/ GiveUp(r) \/ Enqueue(r)
        PROVE  GateCounted'
    <2>1. gate' = gate
      BY <1>6 DEF Look, Stray, GiveUp, Enqueue
    <2>2. Only(r) /\ ~IsHolding(req[r]) /\ ~IsHolding(req'[r])
      BY <1>6, WorkerGoings DEF Goes, Only, IsHolding
    <2> QED  BY <1>5, <2>1, <2>2
  <1>7. ASSUME NEW r \in Requests, RejectOver(r) \/ Reject(r) \/ Leave(r)
        PROVE  GateCounted'
    <2>1. gate' = gate
      BY <1>7 DEF RejectOver, Reject, Leave
    <2>2. Only(r) /\ ~IsHolding(req[r]) /\ ~IsHolding(req'[r])
      BY <1>7, LeaveEnds, AbsentType DEF Ends, Only, IsHolding
    <2> QED  BY <1>5, <2>1, <2>2
  <1>8. ASSUME NEW r \in Requests, Acquire(r)
        PROVE  GateCounted'
    <2>1. Goes(r, {"waiting"}, "running")
      BY <1>8, WorkerGoings
    <2>2. Only(r) /\ ~IsHolding(req[r]) /\ IsHolding(req'[r])
      BY <2>1 DEF Goes, Only, IsHolding
    <2>3. Cardinality(Holding') = Cardinality(Holding) + 1 - 0
      BY <1>1, <2>2, CountsMove DEF Weight
    <2>4. gate' = Incr(gate) /\ gate.n + 1 <= GlobalMax
      BY <1>1, <1>8 DEF Acquire, Fault, HasRoom
    <2>5. gate'.n = gate.n + 1
      BY <1>1, <2>4, CounterType
    <2> QED  BY <1>1, <1>2, <2>3, <2>4, <2>5 DEF GateCounted
  <1>9. ASSUME NEW r \in Requests, Release(r)
        PROVE  GateCounted'
    <2>1. Goes(r, {"release"}, "leave")
      BY <1>9, WorkerGoings
    <2>2. Only(r) /\ IsHolding(req[r]) /\ ~IsHolding(req'[r])
      BY <2>1 DEF Goes, Only, IsHolding
    <2>3. Cardinality(Holding') = Cardinality(Holding) + 0 - 1
      BY <1>1, <2>2, CountsMove DEF Weight
    <2>4. gate' = Decr(gate)
      BY <1>1, <1>9 DEF Release, Fault
    <2>5. gate'.n = gate.n - 1
      BY <1>1, <2>4, CounterType
    <2> QED  BY <1>1, <1>2, <2>3, <2>5 DEF GateCounted
  <1>10. ASSUME NEW r \in Requests, Finish(r)
         PROVE  GateCounted'
    <2>1. gate' = gate /\ Goes(r, {"running", "stray"}, "release") /\ req[r].pc # "stray"
      BY <1>1, <1>10, WorkerGoings DEF Finish, StraysNoted, In
    <2>2. Only(r) /\ IsHolding(req[r]) /\ IsHolding(req'[r])
      BY <2>1 DEF Goes, Only, IsHolding
    <2>3. Cardinality(Holding') = Cardinality(Holding) + 1 - 1
      BY <1>1, <2>2, CountsMove DEF Weight
    <2> QED  BY <1>2, <1>3, <2>1, <2>3
  <1>11. ASSUME NEW r \in Requests, Poll(r)
         PROVE  GateCounted'
    <2>1. req' = req /\ gate' = [gate EXCEPT !.ttl = TTL]
      BY <1>11 DEF Poll
    <2>2. Holding' = Holding /\ gate'.n = gate.n
      BY <1>1, <2>1, CounterType DEF Holding, In
    <2> QED  BY <1>3, <2>2
  <1>12. ASSUME NEW r \in Requests, NEW i \in Instances, NEW u \in Users, Admit(r, i, u)
         PROVE  GateCounted'
    <2>1. gate' = gate
      BY <1>12 DEF Admit
    <2>2. Only(r) /\ ~IsHolding(req[r]) /\ ~IsHolding(req'[r])
      BY <1>12, Coming DEF IsHolding
    <2> QED  BY <1>5, <2>1, <2>2
  <1>13. ASSUME NEW i \in Instances, NEW u \in Users, StopUser(i, u)
         PROVE  GateCounted'
    <2>1. gate' = gate /\ \E r \in Requests : Ends(r, {"queued"})
      BY <1>13, StopEnds DEF StopUser
    <2> QED  BY <1>5, <2>1, AbsentType DEF Ends, Only, IsHolding
  <1>14. ASSUME NEW i \in Instances, Dequeue(i)
         PROVE  GateCounted'
    <2>1. gate' = gate /\ \E r \in Requests : Goes(r, {"queued"}, "taken")
      BY <1>14, DequeueGoes DEF Dequeue
    <2> QED  BY <1>5, <2>1 DEF Goes, Only, IsHolding
  <1>15. ASSUME NEW i \in Instances, Sleep(i) \/ Exit(i) \/ Stop(i) \/ Broadcast(i)
         PROVE  GateCounted'
    BY <1>4, <1>15 DEF Sleep, Exit, Stop, Broadcast
  <1>16. ASSUME NEW i \in Instances, Crash(i)
         PROVE  GateCounted'
    <2>1. gate' = gate /\ crashes' # 0
      BY <1>1, <1>16 DEF Crash
    <2>2. Holding' \in SUBSET Holding /\ Holding \in SUBSET Requests
      BY <1>1, <1>16, CrashLoses, AbsentType, CountedSets, CountedSetsNext DEF IsHolding
    <2>3. Cardinality(Holding') <= Cardinality(Holding)
      BY <2>2, Smaller
    <2> QED  BY <1>1, <1>2, <2>1, <2>3 DEF GateCounted
  <1>17. CASE Tick
    <2>1. gate' = Older(gate) /\ req' = req /\ crashes' = crashes /\ (gate.ttl = 1 => Holding = {})
      BY <1>1, <1>17 DEF Tick
    <2>2. Holding' = Holding
      BY <2>1 DEF Holding, In
    <2>3. gate'.n = gate.n \/ (gate.ttl = 1 /\ gate'.n = 0)
      BY <1>1, <2>1, CounterType
    <2>4. CASE gate.ttl = 1 /\ gate'.n = 0
      <3>1. Cardinality(Holding) = 0
        BY <2>1, <2>4, FS_EmptySet
      <3> QED  BY <1>1, <2>1, <2>2, <2>4, <3>1 DEF GateCounted
    <2> QED  BY <1>3, <2>2, <2>3, <2>4
  <1> QED
    BY <1>6, <1>7, <1>8, <1>9, <1>10, <1>11, <1>12, <1>13, <1>14, <1>15, <1>16, <1>17
    DEF Next, WorkerStep, DequeueStep

\* The counters each instance keeps without Redis.
LocalExact == ~redis => \A i \in Instances, u \in Users : LocalCounted(i, u)

LEMMA LocalCountStep ==
    ASSUME TypeOK, TypeOK', Placed, Held, Next, LocalExact
    PROVE  LocalExact'
  <1> SUFFICES ASSUME ~redis', NEW j \in Instances, NEW v \in Users
               PROVE  LocalCounted(j, v)'
    BY DEF LocalExact
  <1>1. /\ ~redis /\ ReqOK /\ ReqOK' /\ LocalCounted(j, v)
        /\ perUser \in [Instances -> [Users -> Int]] /\ perUser[j][v] \in Int
    BY Ageing, TypeParts, TypePartsNext DEF LocalExact, LocalOK
  <1>2. Cardinality(QueuedOf(j, v)) \in Nat /\ Cardinality(QueuedOf(j, v)') \in Nat
    BY <1>1, CountsFinite, CountsFiniteNext
  <1>3. ASSUME Cardinality(QueuedOf(j, v)') = Cardinality(QueuedOf(j, v)), perUser'[j][v] = perUser[j][v]
        PROVE  LocalCounted(j, v)'
    BY <1>1, <1>3 DEF LocalCounted
  <1>4. CASE req' = req /\ perUser' = perUser
    <2>1. QueuedOf(j, v)' = QueuedOf(j, v)
      BY <1>4 DEF QueuedOf, At, In
    <2> QED  BY <1>3, <1>4, <2>1
  <1>5. ASSUME NEW r \in Requests, Only(r), perUser'[j][v] = perUser[j][v],
               ~IsQueued(req[r], j, v), ~IsQueued(req'[r], j, v)
        PROVE  LocalCounted(j, v)'
    <2>1. Cardinality(QueuedOf(j, v)') = Cardinality(QueuedOf(j, v)) + 0 - 0
      BY <1>1, <1>5, CountsMove DEF Weight
    <2> QED  BY <1>2, <1>3, <1>5, <2>1
  <1>6. ASSUME NEW r \in Requests, RejectOver(r) \/ Reject(r) \/ WorkerStep(r)
        PROVE  LocalCounted(j, v)'
    BY <1>5, <1>6, Aside DEF IsQueued, localVars
  <1>7. ASSUME NEW r \in Requests, NEW i \in Instances, NEW u \in Users, Admit(r, i, u)
        PROVE  LocalCounted(j, v)'
    BY <1>5, <1>7, Coming DEF IsQueued, localVars
  <1>8. ASSUME NEW r \in Requests, Enqueue(r)
        PROVE  LocalCounted(j, v)'
    <2>1. PICK i \in Instances, u \in Users : req[r].at = i /\ req[r].user = u
      BY <1>8 DEF Placed, Enqueue
    <2>2. /\ Goes(r, {"admitted"}, "queued") /\ ~(perUser[i][u] >= MaxPerUser)
          /\ perUser' = [perUser EXCEPT ![i][u] = perUser[i][u] + 1]
      BY <1>1, <1>8, <2>1, WorkerGoings DEF Enqueue, Refuses, CountLocal
    <2>3. /\ Only(r) /\ ~IsQueued(req[r], j, v)
          /\ IsQueued(req'[r], j, v) <=> (j = i /\ v = u)
      BY <2>1, <2>2 DEF Goes, Only, IsQueued
    <2>4. CASE j = i /\ v = u
      <3>1. perUser'[j][v] = perUser[j][v] + 1
        BY <1>1, <2>2, <2>4
      <3>2. Cardinality(QueuedOf(j, v)') = Cardinality(QueuedOf(j, v)) + 1 - 0
        BY <1>1, <2>3, <2>4, CountsMove DEF Weight
      <3> QED  BY <1>1, <1>2, <2>2, <2>4, <3>1, <3>2 DEF LocalCounted
    <2>5. CASE ~(j = i /\ v = u)
      <3>1. perUser'[j][v] = perUser[j][v]
        BY <1>1, <2>2, <2>5
      <3> QED  BY <1>5, <2>3, <2>5, <3>1
    <2> QED  BY <2>4, <2>5
  <1>9. ASSUME NEW r \in Requests, Only(r), NEW i \in Instances, NEW u \in Users,
               req[r].pc = "queued", req[r].at = i, req[r].user = u, req'[r].pc # "queued",
               CountLocal(i, u, -1)
        PROVE  LocalCounted(j, v)'
    <2>1. perUser' = [perUser EXCEPT ![i][u] = perUser[i][u] - 1]
      BY <1>1, <1>9 DEF CountLocal
    <2>2. /\ ~IsQueued(req'[r], j, v)
          /\ IsQueued(req[r], j, v) <=> (j = i /\ v = u)
      BY <1>9 DEF IsQueued
    <2>3. CASE j = i /\ v = u
      <3>1. perUser'[j][v] = perUser[j][v] - 1
        BY <1>1, <2>1, <2>3
      <3>2. Cardinality(QueuedOf(j, v)') = Cardinality(QueuedOf(j, v)) + 0 - 1
        BY <1>1, <1>9, <2>2, <2>3, CountsMove DEF Weight
      <3> QED  BY <1>1, <1>2, <3>1, <3>2 DEF LocalCounted
    <2>4. CASE ~(j = i /\ v = u)
      <3>1. perUser'[j][v] = perUser[j][v]
        BY <1>1, <2>1, <2>4
      <3> QED  BY <1>5, <1>9, <2>2, <2>4, <3>1
    <2> QED  BY <2>3, <2>4
  <1>10. ASSUME NEW i \in Instances, Dequeue(i)
         PROVE  LocalCounted(j, v)'
    <2>1. \E r \in Requests, u \in Users :
             Goes(r, {"queued"}, "taken") /\ req[r].at = i /\ req[r].user = u /\ CountLocal(i, u, -1)
      BY <1>10, DequeueGoes
    <2> QED  BY <1>9, <2>1 DEF Goes, Only
  <1>11. ASSUME NEW i \in Instances, NEW u \in Users, StopUser(i, u)
         PROVE  LocalCounted(j, v)'
    <2>1. \E r \in Requests :
             Ends(r, {"queued"}) /\ req[r].at = i /\ req[r].user = u /\ CountLocal(i, u, -1)
      BY <1>11, StopEnds
    <2> QED  BY <1>9, <2>1, AbsentType DEF Ends, Only
  <1>12. ASSUME NEW i \in Instances, Sleep(i) \/ Exit(i) \/ Stop(i) \/ Broadcast(i)
         PROVE  LocalCounted(j, v)'
    BY <1>4, <1>12 DEF Sleep, Exit, Stop, Broadcast
  <1>13. ASSUME NEW i \in Instances, Crash(i)
         PROVE  LocalCounted(j, v)'
    <2>1. perUser' = [perUser EXCEPT ![i] = [u \in Users |-> 0]]
      BY <1>13 DEF Crash
    <2>2. QueuedOf(j, v)' = {r \in Requests : IsQueued(req'[r], j, v)}
          /\ QueuedOf(j, v) = {r \in Requests : IsQueued(req[r], j, v)}
      BY <1>1, CountedSets, CountedSetsNext
    <2>3. CASE i = j
      <3>1. QueuedOf(j, v)' = {}
        BY <1>13, <2>2, <2>3, CrashLoses, AbsentType DEF IsQueued
      <3>2. perUser'[j][v] = 0
        BY <1>1, <2>1, <2>3
      <3> QED  BY <3>1, <3>2, FS_EmptySet DEF LocalCounted
    <2>4. CASE i # j
      <3>1. \A r \in Requests : IsQueued(req'[r], j, v) <=> IsQueued(req[r], j, v)
        BY <1>13, <2>4, CrashLoses, AbsentType DEF IsQueued
      <3>2. QueuedOf(j, v)' = QueuedOf(j, v) /\ perUser'[j][v] = perUser[j][v]
        BY <1>1, <2>1, <2>2, <2>4, <3>1
      <3> QED  BY <1>3, <3>2
    <2> QED  BY <2>3, <2>4
  <1>14. CASE Tick
    BY <1>1, <1>14 DEF Tick
  <1> QED
    BY <1>6, <1>7, <1>8, <1>10, <1>11, <1>12, <1>13, <1>14 DEF Next, DequeueStep

-----------------------------------------------------------------------------
(* The invariant, and what follows from it.                                *)

IInv ==
    /\ TypeOK /\ Placed /\ Held /\ Awakened /\ StraysNoted
    /\ Healthy => UsersCounted /\ GateExact
    /\ LocalExact

LEMMA InitInv == Init => IInv
  <1> SUFFICES ASSUME Init
               PROVE  IInv
    OBVIOUS
  <1>1. ReqOK /\ \A r \in Requests : req[r].pc = "new"
    BY AbsentType DEF Init, ReqOK
  <1>2. NoKey \in Counter /\ NoKey.n = 0
    BY DEF NoKey, Counter
  <1>3. TypeOK
    <2>1. LocalOK
      BY DEF Init, LocalOK
    <2>2. QueueOK
      BY DEF Init, QueueOK
    <2>3. SharedOK
      BY <1>2 DEF Init, SharedOK
    <2> QED  BY <1>1, <2>1, <2>2, <2>3, TypeParts
  <1>4. Placed
    BY <1>1 DEF Placed
  <1>5. Held
    BY DEF Init, Held, HoldsOnce
  <1>6. Awakened
    BY DEF Init, Awakened, StaysOpen, NoLostWakeup
  <1>7. StraysNoted
    BY <1>1 DEF StraysNoted, In
  <1>8. /\ \A u : Counted(u) = {} /\ Live(u) = {}
        /\ Holding = {} /\ \A i, u : QueuedOf(i, u) = {}
    BY <1>1, CountedSets DEF IsCounted, IsHolding, IsQueued, Live, IsLive
  <1>9. Cardinality({}) = 0
    BY FS_EmptySet
  <1>10. UsersCounted
    <2>1. \A u \in Users : users[u] = NoKey
      BY DEF Init
    <2>2. \A u \in Users : users[u].n = 0 /\ Cardinality(Counted(u)) = 0 /\ Cardinality(Live(u)) = 0
      BY <1>2, <1>8, <1>9, <2>1
    <2> QED  BY <2>2 DEF UsersCounted, UserCounted
  <1>11. GateExact
    BY <1>2, <1>8, <1>9 DEF Init, GateExact, GateCounted
  <1>12. LocalExact
    <2>1. \A i \in Instances, u \in Users : perUser[i][u] = 0 /\ Cardinality(QueuedOf(i, u)) = 0
      BY <1>8, <1>9 DEF Init
    <2> QED  BY <2>1 DEF LocalExact, LocalCounted
  <1> QED  BY <1>3, <1>4, <1>5, <1>6, <1>7, <1>10, <1>11, <1>12 DEF IInv

LEMMA StutterInv == IInv /\ UNCHANGED vars => IInv'
  <1> SUFFICES ASSUME IInv, UNCHANGED vars
               PROVE  IInv'
    OBVIOUS
  <1>1. /\ UNCHANGED <<redis, req, queue, perUser, state, asleep, exited>>
        /\ UNCHANGED <<users, gate, lapsed, crashes, strays, faults>>
    BY DEF vars, localVars, bounded
  <1>2. TypeOK' /\ Placed' /\ Held' /\ Awakened' /\ StraysNoted'
    BY <1>1 DEF IInv, TypeOK, Placed, Held, HoldsOnce, Awakened, StaysOpen, NoLostWakeup, StraysNoted, In
  <1>3. Healthy' = Healthy /\ Gated' = Gated
    BY <1>1 DEF Healthy, Gated
  <1>4. /\ \A u : Counted(u)' = Counted(u) /\ Live(u)' = Live(u)
        /\ Holding' = Holding /\ \A i, u : QueuedOf(i, u)' = QueuedOf(i, u)
    BY <1>1 DEF Counted, Live, Holding, QueuedOf, At, In
  <1>5. UsersCounted => UsersCounted'
    BY <1>1, <1>4 DEF UsersCounted, UserCounted
  <1>6. GateExact => GateExact'
    BY <1>1, <1>3, <1>4 DEF GateExact, GateCounted
  <1>7. LocalExact => LocalExact'
    BY <1>1, <1>4 DEF LocalExact, LocalCounted
  <1> QED  BY <1>2, <1>3, <1>5, <1>6, <1>7 DEF IInv

LEMMA StepInv == IInv /\ [Next]_vars => IInv'
  <1> SUFFICES ASSUME IInv, Next
               PROVE  IInv'
    BY StutterInv
  <1>1. TypeOK /\ Placed /\ Held /\ Awakened /\ StraysNoted /\ LocalExact
    BY DEF IInv
  <1>2. TypeOK' /\ Placed' /\ Held' /\ Awakened' /\ StraysNoted'
    BY <1>1, TypeStep, PlacedStep, HeldStep, WakeStep, StraysStep
  <1>3. LocalExact'
    BY <1>1, <1>2, LocalCountStep
  <1>4. ASSUME Healthy'
        PROVE  UsersCounted' /\ GateExact'
    <2>1. UsersCounted /\ GateExact
      BY <1>1, <1>4, HealthyBefore DEF IInv
    <2> QED  BY <1>1, <1>2, <1>4, <2>1, UsersStep, GateStep
  <1> QED  BY <1>2, <1>3, <1>4 DEF IInv

LEMMA Invariance == Spec => []IInv
  BY InitInv, StepInv, PTL DEF Spec

\* The state always has the shape the declarations give it.
THEOREM TypeCorrect == Spec => []TypeOK
  <1>1. IInv => TypeOK
    BY DEF IInv
  <1> QED  BY <1>1, Invariance, PTL

\* A queued request always has a worker that is awake or will be: dequeue and
\* Stop lose no wake-up, and no worker returns before a closed queue is drained.
THEOREM WakesUp == Spec => []NoLostWakeup
  <1>1. IInv => NoLostWakeup
    BY DEF IInv, Awakened
  <1> QED  BY <1>1, Invariance, PTL

\* On all instances together, and through their crashes, no more requests
\* execute than acquireGlobalGate allows.
THEOREM GateKept == Spec => []GateLimit
  <1>1. ASSUME IInv
        PROVE  GateLimit
    <2> SUFFICES ASSUME Healthy, Gated
                 PROVE  Cardinality(In({"running"})) <= GlobalMax
      BY DEF GateLimit
    <2>1. Cardinality(Holding) <= GlobalMax
      BY <1>1 DEF IInv, GateExact, GateCounted
    <2>2. Holding \in SUBSET Requests /\ In({"running"}) \in SUBSET Holding
      BY DEF Holding, In
    <2>3. Cardinality(In({"running"})) <= Cardinality(Holding)
      BY <2>2, Smaller
    <2>4. Cardinality(In({"running"})) \in Nat /\ Cardinality(Holding) \in Nat
      BY <2>2, Finite
    <2> QED  BY <2>1, <2>3, <2>4
  <1> QED  BY <1>1, Invariance, PTL

\* Without crashes the counters of users, gate and instances equal what they
\* count at every step: each way a request can end gives its count back, once.
THEOREM CountersExact == Spec => []CountsExact
  <1>1. ASSUME IInv
        PROVE  CountsExact
    <2>1. (UsersCounted /\ GateExact /\ LocalExact) \/ ~Healthy
      BY <1>1 DEF IInv
    <2>2. \A i, u : QueuedOf(i, u) = {r \in At(i, {"queued"}) : req[r].user = u}
      BY DEF QueuedOf
    <2> QED
      BY <2>1, <2>2 DEF CountsExact, UsersCounted, UserCounted, GateExact, GateCounted, LocalExact, LocalCounted
  <1> QED  BY <1>1, Invariance, PTL

\* No user has more requests queued than allowed, on all instances together
\* with Redis (redisCheckAndIncrUser) and on each without (Enqueue).
THEOREM UserKept == Spec => []UserLimit
  <1>1. ASSUME IInv
        PROVE  UserLimit
    <2> SUFFICES ASSUME Healthy, NEW u \in Users
                 PROVE  IF redis THEN Cardinality(UNION {QueuedOf(i, u) : i \in Instances}) <= MaxPerUser
                        ELSE \A i \in Instances : Cardinality(QueuedOf(i, u)) <= MaxPerUser
      BY DEF UserLimit, QueuedOf
    <2>1. ReqOK /\ redis \in BOOLEAN
      BY <1>1, TypeParts DEF IInv, SharedOK
    <2>2. CASE redis
      <3>1. Cardinality(Live(u)) <= MaxPerUser
        BY <1>1, <2>2 DEF IInv, UsersCounted, UserCounted
      <3> DEFINE S == UNION {QueuedOf(i, u) : i \in Instances}
      <3>2. S \in SUBSET Live(u) /\ Live(u) \in SUBSET Requests
        BY <2>1, CountedSets DEF Live, IsLive, IsCounted, IsQueued
      <3> HIDE DEF S
      <3>3. Cardinality(S) <= Cardinality(Live(u)) /\ Cardinality(S) \in Nat /\ Cardinality(Live(u)) \in Nat
        BY <3>2, Smaller, Finite
      <3>4. Cardinality(S) <= MaxPerUser
        BY <3>1, <3>3
      <3> QED  BY <2>2, <3>4 DEF S
    <2>3. CASE ~redis
      BY <1>1, <2>3 DEF IInv, LocalExact, LocalCounted
    <2> QED  BY <2>1, <2>2, <2>3
  <1> QED  BY <1>1, Invariance, PTL
=============================================================================
