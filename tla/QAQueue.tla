------------------------------ MODULE QAQueue ------------------------------
(***************************************************************************)
(* The question queue of the instant-messenger channels                    *)
(* (internal/im/qaqueue.go): on every instance a bounded queue and a fixed *)
(* pool of workers that wait on a condition variable; across instances two *)
(* sorts of counter in Redis, one of the requests of each user and one of  *)
(* the requests that execute (the gate).  Without Redis each instance      *)
(* counts the queued requests of each user itself.                         *)
(*                                                                         *)
(* The counters expire five minutes after they were last incremented.  A   *)
(* request has no deadline once it executes.                               *)
(***************************************************************************)
EXTENDS Integers, Sequences, FiniteSets, SequencesExt

CONSTANTS
    InstanceCount,
    UserCount,    \* user keys: channel, user and chat
    WorkerCount,  \* workers of an instance
    MaxSize,      \* of the queue of an instance
    MaxPerUser,
    GlobalMax,    \* globalMaxWorkers; 0 for no limit
    TTL,          \* units of time before a counter expires
    \* Bounds of the model:
    MaxRequests,  \* requests ever made
    MaxMishaps    \* crashes, failing Redis calls, requests cancelled as the gate's script runs

ASSUME QAQueueAssumption ==
    /\ WorkerCount \in Nat \ {0} /\ MaxSize \in Nat /\ MaxPerUser \in Nat /\ GlobalMax \in Nat
    /\ TTL \in Nat \ {0} /\ MaxMishaps \in Nat
    /\ MaxRequests \in Nat /\ InstanceCount \in Nat /\ UserCount \in Nat

Nobody == 0

\* Requests are numbered in the order in which they come, instances and
\* users in the order in which they have their first request.
Requests == 1..MaxRequests
Instances == 1..InstanceCount
Users == 1..UserCount

VARIABLES
    redis,    \* a Redis client is configured
    req,      \* where each request is
    queue,    \* qaQueue.queue of each instance
    perUser,  \* qaQueue.perUser of each instance
    state,    \* qaQueue.closed of each instance, and Stop between its steps
    asleep,   \* workers of each instance in cond.Wait
    exited,   \* workers of each instance that have returned
    users,    \* the counter of each user in Redis
    gate,     \* the counter of the gate in Redis
    lapsed,   \* some counter expired while requests were counted in it
    crashes, strays, faults

localVars == <<queue, perUser, state, asleep, exited>>
bounded == <<crashes, strays, faults>>
vars == <<redis, req, queue, perUser, state, asleep, exited, users, gate, lapsed, bounded>>

(***************************************************************************)
(* A request is                                                            *)
(*   over      counted beyond its user's limit, about to be uncounted      *)
(*   admitted  counted, about to take the queue's mutex                    *)
(*   queued    in the queue              taken   dequeued by a worker      *)
(*   waiting   at the gate               running executed by the handler   *)
(*   stray     executed, cancelled and without a slot                      *)
(*   release   about to leave the gate   leave   about to be uncounted     *)
(*   done      over, one way or another  lost    gone with its instance    *)
(***************************************************************************)
ReqStates == {"new", "over", "admitted", "queued", "taken", "waiting", "running", "stray",
              "release", "leave", "done", "lost"}

Request == [pc : ReqStates, at : Instances \cup {Nobody}, user : Users \cup {Nobody}]

\* A request that is not there yet, or not any more.
Absent(pc) == [pc |-> pc, at |-> Nobody, user |-> Nobody]

\* A key that does not exist counts as 0; ttl 0 is a key without an expiry.
Counter == [n : Int, ttl : 0..TTL]

NoKey == [n |-> 0, ttl |-> 0]

Incr(c) == [n |-> c.n + 1, ttl |-> TTL]
Decr(c) == [c EXCEPT !.n = @ - 1]

\* A unit of time: the key is deleted when its time is over.
Older(c) == IF c.ttl = 1 THEN NoKey ELSE [c EXCEPT !.ttl = IF @ = 0 THEN 0 ELSE @ - 1]

Init ==
    /\ redis \in BOOLEAN
    /\ req = [r \in Requests |-> Absent("new")]
    /\ queue = [i \in Instances |-> <<>>]
    /\ perUser = [i \in Instances |-> [u \in Users |-> 0]]
    /\ state = [i \in Instances |-> "open"]
    /\ asleep = [i \in Instances |-> 0]
    /\ exited = [i \in Instances |-> 0]
    /\ users = [u \in Users |-> NoKey]
    /\ gate = NoKey
    /\ lapsed = FALSE
    /\ crashes = 0
    /\ strays = 0
    /\ faults = 0

-----------------------------------------------------------------------------
(* Helpers. *)

In(S) == {r \in Requests : req[r].pc \in S}

At(i, S) == {r \in In(S) : req[r].at = i}

Goto(r, there) == req' = [req EXCEPT ![r].pc = there]

End(r) == req' = [req EXCEPT ![r] = Absent("done")]

\* A worker has the request in its hands.
InHand == {"taken", "waiting", "running", "stray", "release", "leave"}

\* Workers that hold the mutex next, or may.
Awake(i) == WorkerCount - asleep[i] - exited[i] - Cardinality(At(i, InHand))

\* perUser counts queued requests, without Redis only.
CountLocal(i, u, k) ==
    perUser' = IF redis THEN perUser ELSE [perUser EXCEPT ![i][u] = @ + k]

\* Something may still go wrong.
MayFail == crashes + strays + faults < MaxMishaps

\* A Redis call fails.
Fault == redis /\ MayFail /\ faults' = faults + 1

\* Mutant: the counter is left alone.
UncountNothing(u) == UNCHANGED <<users, faults>>

\* redisDecrUser ignores errors.
Uncount(u) ==
    \/ /\ users' = IF redis THEN [users EXCEPT ![u] = Decr(@)] ELSE users
       /\ UNCHANGED faults
    \/ Fault /\ UNCHANGED users

-----------------------------------------------------------------------------
(* Enqueue. *)

\* Mutant: the count is compared before it was incremented.
BeyondBefore(c) == c.n > MaxPerUser

\* What redisCheckAndIncrUser compares.
Beyond(c) == c.n + 1 > MaxPerUser

\* redisCheckAndIncrUser.  When Redis fails the request is let through.
Admit(r, i, u) ==
    /\ req[r].pc = "new" /\ \A q \in 1..(r - 1) : req[q].pc # "new"
    /\ i <= r /\ u <= r
    /\ LET at(there) == req' = [req EXCEPT ![r] = [pc |-> there, at |-> i, user |-> u]] IN
       \/ /\ redis
          /\ users' = [users EXCEPT ![u] = Incr(@)]
          /\ at(IF Beyond(users[u]) THEN "over" ELSE "admitted")
          /\ UNCHANGED faults
       \/ /\ ~redis
          /\ at("admitted")
          /\ UNCHANGED <<users, faults>>
       \/ /\ Fault
          /\ at("admitted")
          /\ UNCHANGED users
       \/ /\ Fault  \* of EXPIRE
          /\ users' = [users EXCEPT ![u].n = @ + 1]
          /\ at(IF Beyond(users[u]) THEN "over" ELSE "admitted")
    /\ UNCHANGED <<redis, localVars, gate, lapsed, crashes, strays>>

RejectOver(r) ==
    /\ req[r].pc = "over"
    /\ End(r)
    /\ Uncount(req[r].user)
    /\ UNCHANGED <<redis, localVars, gate, lapsed, crashes, strays>>

\* Under the mutex: the queue is closed, full, or the user's limit reached.
Refuses(i, u) ==
    \/ state[i] # "open"
    \/ Len(queue[i]) >= MaxSize
    \/ ~redis /\ perUser[i][u] >= MaxPerUser

Reject(r) ==
    /\ req[r].pc = "admitted"
    /\ Refuses(req[r].at, req[r].user)
    /\ End(r)
    /\ Uncount(req[r].user)
    /\ UNCHANGED <<redis, localVars, gate, lapsed, crashes, strays>>

\* Mutant: nobody is woken.
SignalNobody(i) == UNCHANGED asleep

\* cond.Signal wakes one sleeping worker.
Signal(i) == asleep' = [asleep EXCEPT ![i] = IF @ > 0 THEN @ - 1 ELSE 0]

Enqueue(r) ==
    LET i == req[r].at IN
    /\ req[r].pc = "admitted"
    /\ ~Refuses(i, req[r].user)
    /\ Goto(r, "queued")
    /\ queue' = [queue EXCEPT ![i] = Append(@, r)]
    /\ CountLocal(i, req[r].user, 1)
    /\ Signal(i)
    /\ UNCHANGED <<redis, state, exited, users, gate, lapsed, bounded>>

\* Remove (the command /stop): the first queued request of the user.
StopUser(i, u) ==
    LET mine == {k \in DOMAIN queue[i] : req[queue[i][k]].user = u} IN
    \E k \in mine :
        /\ \A j \in mine : k <= j
        /\ queue' = [queue EXCEPT ![i] = RemoveAt(@, k)]
        /\ End(queue[i][k])
        /\ CountLocal(i, u, -1)
        /\ Uncount(u)
        /\ UNCHANGED <<redis, state, asleep, exited, gate, lapsed, crashes, strays>>

-----------------------------------------------------------------------------
(* runWorker and dequeue. *)

Sleep(i) ==
    /\ Awake(i) > 0
    /\ queue[i] = <<>> /\ state[i] = "open"
    /\ asleep' = [asleep EXCEPT ![i] = @ + 1]
    /\ UNCHANGED <<redis, req, queue, perUser, state, exited, users, gate, lapsed, bounded>>

\* Mutant: a closed queue is not drained.
ExitAtOnce(i) ==
    /\ Awake(i) > 0
    /\ state[i] # "open"
    /\ exited' = [exited EXCEPT ![i] = @ + 1]
    /\ UNCHANGED <<redis, req, queue, perUser, state, asleep, users, gate, lapsed, bounded>>

Exit(i) ==
    /\ Awake(i) > 0
    /\ queue[i] = <<>> /\ state[i] # "open"
    /\ exited' = [exited EXCEPT ![i] = @ + 1]
    /\ UNCHANGED <<redis, req, queue, perUser, state, asleep, users, gate, lapsed, bounded>>

Dequeue(i) ==
    /\ Awake(i) > 0
    /\ queue[i] # <<>>
    /\ LET r == Head(queue[i]) IN
       Goto(r, "taken") /\ CountLocal(i, req[r].user, -1)
    /\ queue' = [queue EXCEPT ![i] = Tail(@)]
    /\ UNCHANGED <<redis, state, asleep, exited, users, gate, lapsed, bounded>>

\* The request was cancelled or waited too long, or goes on to the gate.
Look(r) ==
    /\ req[r].pc = "taken"
    /\ \E there \in {"leave", "waiting"} : Goto(r, there)
    /\ UNCHANGED <<redis, localVars, users, gate, lapsed, bounded>>

\* Mutant: the count is compared after it was incremented.
HasRoomBefore(c) == c.n <= GlobalMax

\* What globalGateScript compares.
HasRoom(c) == c.n + 1 <= GlobalMax

Gated == redis /\ GlobalMax > 0

\* acquireGlobalGate: a slot is free, there is no gate, or Redis failed.
Acquire(r) ==
    /\ req[r].pc = "waiting"
    /\ Goto(r, "running")
    /\ \/ Gated /\ HasRoom(gate) /\ gate' = Incr(gate) /\ UNCHANGED faults
       \/ ~Gated /\ UNCHANGED <<gate, faults>>
       \/ Gated /\ Fault /\ UNCHANGED gate
    /\ UNCHANGED <<redis, localVars, users, lapsed, crashes, strays>>

\* No slot is free: the script has refreshed the key, and half a second
\* later the worker tries again.
Poll(r) ==
    /\ req[r].pc = "waiting"
    /\ Gated /\ ~HasRoom(gate)
    /\ gate' = [gate EXCEPT !.ttl = TTL]
    /\ UNCHANGED <<redis, req, localVars, users, lapsed, bounded>>

\* The request is cancelled (its channel was stopped) and the script fails
\* with its context: the request goes on as if it had a slot.
Stray(r) ==
    /\ req[r].pc = "waiting" /\ Gated
    /\ MayFail
    /\ strays' = strays + 1
    /\ Goto(r, "stray")
    /\ UNCHANGED <<redis, localVars, users, gate, lapsed, crashes, faults>>

\* The request is cancelled between two tries.
GiveUp(r) ==
    /\ req[r].pc = "waiting" /\ Gated
    /\ Goto(r, "leave")
    /\ UNCHANGED <<redis, localVars, users, gate, lapsed, bounded>>

\* The handler returns.
Finish(r) ==
    /\ req[r].pc \in {"running", "stray"}
    /\ Goto(r, "release")
    /\ UNCHANGED <<redis, localVars, users, gate, lapsed, bounded>>

\* releaseGlobalGate ignores errors.
Release(r) ==
    /\ req[r].pc = "release"
    /\ Goto(r, "leave")
    /\ \/ gate' = (IF Gated THEN Decr(gate) ELSE gate) /\ UNCHANGED faults
       \/ Gated /\ Fault /\ UNCHANGED gate
    /\ UNCHANGED <<redis, localVars, users, lapsed, crashes, strays>>

Leave(r) ==
    /\ req[r].pc = "leave"
    /\ End(r)
    /\ Uncount(req[r].user)
    /\ UNCHANGED <<redis, localVars, gate, lapsed, crashes, strays>>

-----------------------------------------------------------------------------
(* Stop, crashes and time. *)

Stop(i) ==
    /\ state[i] = "open"
    /\ state' = [state EXCEPT ![i] = "closing"]
    /\ UNCHANGED <<redis, req, queue, perUser, asleep, exited, users, gate, lapsed, bounded>>

\* ... and cond.Broadcast, after the mutex is released.
Broadcast(i) ==
    /\ state[i] = "closing"
    /\ state' = [state EXCEPT ![i] = "closed"]
    /\ asleep' = [asleep EXCEPT ![i] = 0]
    /\ UNCHANGED <<redis, req, queue, perUser, exited, users, gate, lapsed, bounded>>

\* An instance dies with its requests and starts again; Redis keeps its counts.
Crash(i) ==
    /\ MayFail
    /\ crashes' = crashes + 1
    /\ req' = [r \in Requests |->
         IF req[r].at = i THEN Absent("lost") ELSE req[r]]
    /\ queue' = [queue EXCEPT ![i] = <<>>]
    /\ perUser' = [perUser EXCEPT ![i] = [u \in Users |-> 0]]
    /\ state' = [state EXCEPT ![i] = "open"]
    /\ asleep' = [asleep EXCEPT ![i] = 0]
    /\ exited' = [exited EXCEPT ![i] = 0]
    /\ UNCHANGED <<redis, users, gate, lapsed, strays, faults>>

\* Requests that hold a slot of the gate, and requests counted for a user.
Holding == In({"running", "release"})

Counted(u) == {r \in In(ReqStates \ {"new", "done", "lost"}) : req[r].user = u}

Tick ==
    /\ redis
    /\ gate' = Older(gate)
    /\ users' = [u \in Users |-> Older(users[u])]
    /\ lapsed' = (\/ lapsed
                  \/ gate.ttl = 1 /\ Holding # {}
                  \/ \E u \in Users : users[u].ttl = 1 /\ Counted(u) # {})
    /\ UNCHANGED <<redis, req, localVars, crashes, strays, faults>>

-----------------------------------------------------------------------------
WorkerStep(r) ==
    \/ Look(r) \/ Acquire(r) \/ Poll(r) \/ Stray(r) \/ GiveUp(r)
    \/ Finish(r) \/ Release(r) \/ Leave(r)

DequeueStep(i) == Dequeue(i) \/ Sleep(i) \/ Exit(i)

Next ==
    \/ \E r \in Requests, i \in Instances, u \in Users : Admit(r, i, u)
    \/ \E r \in Requests : RejectOver(r) \/ Reject(r) \/ Enqueue(r) \/ WorkerStep(r)
    \/ \E i \in Instances : DequeueStep(i) \/ Stop(i) \/ Broadcast(i) \/ Crash(i)
    \/ \E i \in Instances, u \in Users : StopUser(i, u)
    \/ Tick

Spec == Init /\ [][Next]_vars

(***************************************************************************)
(* Fairness: goroutines run, the handler returns (executeQARequest "must   *)
(* not block indefinitely"), a worker at the gate tries again and again,   *)
(* and time passes.  Nobody has to make or stop a request.                 *)
(***************************************************************************)
Fairness ==
    /\ \A r \in Requests :
        /\ WF_vars(Reject(r) \/ Enqueue(r) \/ RejectOver(r))
        /\ WF_vars(Look(r)) /\ WF_vars(Finish(r)) /\ WF_vars(Release(r)) /\ WF_vars(Leave(r))
        /\ SF_vars(Acquire(r))
    /\ \A i \in Instances : WF_vars(DequeueStep(i)) /\ WF_vars(Broadcast(i))
    /\ WF_vars(Tick)

FairSpec == Spec /\ Fairness

-----------------------------------------------------------------------------
(* Properties. *)

\* The state has the shape described above.
TypeOK ==
    /\ redis \in BOOLEAN
    /\ req \in [Requests -> Request]
    /\ queue \in [Instances -> Seq(Requests)]
    /\ perUser \in [Instances -> [Users -> Int]]
    /\ state \in [Instances -> {"open", "closing", "closed"}]
    /\ asleep \in [Instances -> 0..WorkerCount] /\ exited \in [Instances -> 0..WorkerCount]
    /\ users \in [Users -> Counter] /\ gate \in Counter
    /\ lapsed \in BOOLEAN /\ crashes \in Nat /\ strays \in Nat /\ faults \in Nat

\* Redis has answered, no counter expired under a request, and no request went past the
\* gate without a slot.
Healthy == faults = 0 /\ ~lapsed /\ strays = 0

\* Across all instances, through crashes and restarts, no more requests
\* execute than the gate allows (qaQueue.globalMaxWorkers).
GateLimit == Healthy /\ Gated => Cardinality(In({"running"})) <= GlobalMax

\* No user has more requests queued than allowed, on all instances together
\* with Redis, and on each without (defaultMaxPerUser).
UserLimit ==
    Healthy => \A u \in Users :
        LET queued(i) == {r \in At(i, {"queued"}) : req[r].user = u} IN
        IF redis THEN Cardinality(UNION {queued(i) : i \in Instances}) <= MaxPerUser
        ELSE \A i \in Instances : Cardinality(queued(i)) <= MaxPerUser

\* Without crashes every counter is exact at every step: each way a request
\* can end gives back what was counted for it, once.
CountsExact ==
    Healthy /\ crashes = 0 =>
        /\ redis => \A u \in Users : users[u].n = Cardinality(Counted(u))
        /\ Gated => gate.n = Cardinality(Holding)
        /\ ~redis => \A i \in Instances, u \in Users :
             perUser[i][u] = Cardinality({r \in At(i, {"queued"}) : req[r].user = u})

\* A queued request has a worker that is awake or will be: no wake-up is
\* lost, and no worker leaves a closed queue that is not drained.
NoLostWakeup == \A i \in Instances : queue[i] # <<>> => asleep[i] + exited[i] < WorkerCount

\* Slots of the gate that nobody holds any more.
Leaked == gate.n - Cardinality(Holding)

\* Every request that was queued ends, unless the slots of crashed instances
\* fill the gate.
EveryRequestEnds ==
    \A r \in Requests :
        req[r].pc = "queued" ~> req[r].pc \in {"done", "lost"} \/ Leaked >= GlobalMax

=============================================================================
