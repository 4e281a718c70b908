--------------------------- MODULE ChannelLeader ---------------------------
(***************************************************************************)
(* One channel of a messenger on several instances of the server.  A long  *)
(* connection or a poll may be kept by one instance at a time: the leader, *)
(* who owns a lock in Redis and renews it.  The row of the channel says    *)
(* whether it is enabled and how it is configured; requests on any         *)
(* instance change it, restart or stop the channel there, and tell the     *)
(* other instances, who read the row again.                                *)
(*                                                                         *)
(* An instance is its map of running channels and its goroutines: the      *)
(* handler of a request, a start outside one (at boot, or for a message),  *)
(* the subscriber, the renewal of a runtime, the retry of a standby.  What *)
(* the code does under s.mu is one step.                                   *)
(***************************************************************************)
EXTENDS Integers, FiniteSets

CONSTANTS
    Instances,
    NoOne,        \* the owner of a free lock
    LongPoll,     \* whether the mode of the channel is longpoll, not websocket
    \* Bounds of the model:
    MaxBusy,      \* goroutines of an instance that start or stop the channel at once
    MaxChanges,   \* requests that change the row
    MaxTroubles   \* crashes, shutdowns, calls of Redis or the database that fail, lost
                  \* events, connections refused, messages that come late, loops that take
                  \* a tick although they are cancelled

ASSUME ChannelLeaderAssumption ==
    /\ IsFiniteSet(Instances) /\ NoOne \notin Instances
    /\ LongPoll \in BOOLEAN
    /\ MaxBusy \in Nat /\ MaxChanges \in Nat /\ MaxTroubles \in Nat

VARIABLES
    db,         \* the row: its status, and the version of its configuration
    lock,       \* RedisKeyLeader
    up,         \* each instance: up, stopping (stopped is set), stopped, or down
    runtime,    \* s.channels: the version that runs, and the goroutine that renews
    retrying,   \* s.leaderRetries
    go,         \* the goroutines of each instance
    open,       \* connections of each instance
    draining,   \* polls that were told to stop and are not over
    inbox,      \* events not yet read by the subscriber
    late,       \* whether HandleMessage has a message and not yet looked for its channel
    changes, troubles,
    \* History:
    dropped     \* an enabled channel was stopped by one who does not start it again, or
                \* a connection was refused

local == <<up, runtime, retrying, go>>
network == <<inbox, late>>
conns == <<open, draining>>
vars == <<db, lock, local, conns, network, changes, troubles, dropped>>

-----------------------------------------------------------------------------
(***************************************************************************)
(* Of the renewals and the retries of an instance, which may be at work    *)
(* when they are cancelled, two of a kind are considered.  ver is the      *)
(* version of the row a goroutine has read; 0 is none.                     *)
(***************************************************************************)
Renewers == {"renew1", "renew2"}
Retriers == {"retry1", "retry2"}
Goroutines == {"request", "dynamic", "reload"} \cup Renewers \cup Retriers

\* The steps between winning the lock and the entry in the map.
Starting == {"verify", "connect", "register"}

Pcs == {"none", "wait", "due", "check", "stop", "start", "elect", "standby", "publish"} \cup Starting

At(pc, ver) == [pc |-> pc, ver |-> ver, cancelled |-> FALSE]

Nothing == At("none", 0)

\* What remains of a goroutine that is through: a request still has to tell the others.
Over(g) == IF g = "request" THEN At("publish", 0) ELSE Nothing

NoRuntime == [version |-> 0, renewer |-> "none"]

TypeOK ==
    /\ db \in [status : {"on", "off", "gone"}, version : Nat \ {0}]
    /\ lock \in Instances \cup {NoOne}
    /\ up \in [Instances -> {"up", "stopping", "stopped", "down"}]
    /\ runtime \in [Instances -> [version : Nat, renewer : Renewers \cup {"none"}]]
    /\ retrying \in [Instances -> Retriers \cup {"none"}]
    /\ go \in [Instances -> [Goroutines -> [pc : Pcs, ver : Nat, cancelled : BOOLEAN]]]
    /\ open \in [Instances -> Nat]
    /\ draining \in [Instances -> Nat]
    /\ inbox \in [Instances -> Nat]
    /\ late \in [Instances -> BOOLEAN]
    /\ changes \in 0..MaxChanges /\ troubles \in 0..MaxTroubles
    /\ dropped \in BOOLEAN

\* Some time after the instances came up: one leads, the others are on standby.
Init ==
    \E leader \in Instances :
       /\ db = [status |-> "on", version |-> 1]
       /\ lock = leader
       /\ up = [i \in Instances |-> "up"]
       /\ runtime = [i \in Instances |-> IF i = leader
                        THEN [version |-> 1, renewer |-> "renew1"] ELSE NoRuntime]
       /\ retrying = [i \in Instances |-> IF i = leader THEN "none" ELSE "retry1"]
       /\ go = [i \in Instances |-> [g \in Goroutines |->
                   IF g = (IF i = leader THEN "renew1" ELSE "retry1") THEN At("wait", 0)
                                                                      ELSE Nothing]]
       /\ open = [i \in Instances |-> IF i = leader THEN 1 ELSE 0]
       /\ draining = [i \in Instances |-> 0]
       /\ inbox = [i \in Instances |-> 0] /\ late = [i \in Instances |-> FALSE]
       /\ changes = 0 /\ troubles = 0
       /\ dropped = FALSE

Trouble == troubles < MaxTroubles /\ troubles' = troubles + 1

Becomes(i, g, r) == go' = [go EXCEPT ![i][g] = r]

Goes(i, g, pc) == go' = [go EXCEPT ![i][g].pc = pc]

Runs(i) == runtime[i].version # 0

-----------------------------------------------------------------------------
(* Pieces of the critical sections.                                        *)

\* releaseWSLeader: compare and delete.
Released(i) == IF lock = i THEN NoOne ELSE lock

(***************************************************************************)
(* The goroutines of i when those of gs are cancelled.  Of the loops that  *)
(* wait most end; but select may take a tick that was due (those of due):  *)
(* a retry, whose calls have no context, makes one more try, and a renewal *)
(* fails, since the context of its script is cancelled, and stops the      *)
(* channel.  What is at work goes on.                                      *)
(***************************************************************************)
Cancelled(i, gs, due) ==
    [g \in Goroutines |->
       CASE g \notin gs -> go[i][g]
         [] g \in gs /\ go[i][g].pc # "wait" -> [go[i][g] EXCEPT !.cancelled = TRUE]
         [] g \in gs \cap due /\ go[i][g].pc = "wait" ->
              At(IF g \in Renewers THEN "stop" ELSE "due", 0)
         [] OTHER -> Nothing]

Loops(i) == {runtime[i].renewer, retrying[i]} \ {"none"}

DueOf(due) == IF due = {} THEN UNCHANGED troubles ELSE Trouble

\* A connection of i is closed; a poll needs a while to end.
Close(i) ==
    /\ open' = [open EXCEPT ![i] = @ - 1]
    /\ draining' = [draining EXCEPT ![i] = IF LongPoll THEN @ + 1 ELSE @]

\* Mutant: the lock is released whatever the mode.
StopAndRelease(i) ==
    /\ runtime' = [runtime EXCEPT ![i] = NoRuntime]
    /\ retrying' = [retrying EXCEPT ![i] = "none"]
    /\ IF Runs(i)
       THEN Close(i) /\ lock' = Released(i)
       ELSE UNCHANGED <<conns, lock>>

\* StopChannel, and Stop for one channel: the retry goes, and the runtime with
\* its connection and, unless a poll has to end first, the lock.
StopRuntime(i) ==
    /\ runtime' = [runtime EXCEPT ![i] = NoRuntime]
    /\ retrying' = [retrying EXCEPT ![i] = "none"]
    /\ IF Runs(i)
       THEN Close(i) /\ lock' = IF LongPoll THEN lock ELSE Released(i)
       ELSE UNCHANGED <<conns, lock>>

\* Goroutine g has stopped the channel, and goes on as r.
Stops(i, g, r) ==
    /\ StopRuntime(i)
    /\ \E due \in SUBSET Loops(i) :
          /\ DueOf(due)
          /\ go' = [go EXCEPT ![i] = [Cancelled(i, Loops(i), due) EXCEPT ![g] = r]]

\* Goroutine g is through; a retry leaves the map if it is still there.
Ends(i, g) ==
    /\ Becomes(i, g, Over(g))
    /\ retrying' = [retrying EXCEPT ![i] = IF @ = g THEN "none" ELSE @]

-----------------------------------------------------------------------------
(* StartChannel and StopChannel, for whichever goroutine calls them.       *)

Frame == UNCHANGED <<db, up, network, changes>>

StopStep(i, g) ==
    /\ go[i][g].pc = "stop"
    /\ Stops(i, g, IF go[i][g].ver # 0 THEN At("start", go[i][g].ver) ELSE Over(g))
    /\ dropped' = (dropped \/ (db.status = "on" /\ Runs(i) /\ go[i][g].ver = 0))
    /\ Frame

\* What runs is stopped first; an instance that shuts down starts nothing.
StartStep(i, g) ==
    /\ go[i][g].pc = "start"
    /\ IF up[i] = "up"
       THEN Stops(i, g, At("elect", go[i][g].ver))
       ELSE Ends(i, g) /\ UNCHANGED <<runtime, conns, lock, troubles>>
    /\ Frame /\ UNCHANGED dropped

\* tryAcquireWSLeader: SETNX; an error is a no.
Elect(i, g) ==
    /\ go[i][g].pc = "elect"
    /\ \/ lock = NoOne /\ lock' = i /\ Goes(i, g, "connect") /\ UNCHANGED troubles
       \/ lock # NoOne /\ Goes(i, g, "standby") /\ UNCHANGED <<lock, troubles>>
       \/ Trouble /\ Goes(i, g, "standby") /\ UNCHANGED lock
    /\ Frame /\ UNCHANGED <<runtime, retrying, conns, dropped>>

NewRetrier(i) == IF go[i]["retry1"].pc = "none" THEN "retry1" ELSE "retry2"

\* Mutant: a standby does not wait for its turn.
StandbyWithout(i, g) ==
    /\ go[i][g].pc = "standby" /\ Ends(i, g)
    /\ Frame /\ UNCHANGED <<runtime, lock, conns, troubles, dropped>>

\* scheduleWSLeaderRetry: in place of an earlier retry.
Standby(i, g) ==
    LET r == NewRetrier(i) IN
    /\ go[i][g].pc = "standby"
    /\ \E due \in SUBSET ({retrying[i]} \cap Retriers) :
         LET rest == Cancelled(i, {retrying[i]}, due) IN
         /\ DueOf(due)
         /\ IF up[i] = "up"
            THEN /\ go[i][r].pc = "none"
                 /\ go' = [go EXCEPT ![i] = [rest EXCEPT ![g] = Over(g), ![r] = At("wait", 0)]]
                 /\ retrying' = [retrying EXCEPT ![i] = r]
            ELSE /\ go' = [go EXCEPT ![i] = [rest EXCEPT ![g] = Over(g)]]
                 /\ UNCHANGED retrying
    /\ Frame /\ UNCHANGED <<runtime, lock, conns, dropped>>

\* The adapter factory, which is not under s.mu.
Connect(i, g) ==
    /\ go[i][g].pc = "connect"
    /\ \/ /\ open' = [open EXCEPT ![i] = @ + 1] /\ Goes(i, g, "register")
          /\ UNCHANGED <<retrying, lock, troubles, dropped>>
       \/ /\ Trouble /\ Ends(i, g) /\ lock' = Released(i) /\ dropped' = TRUE
          /\ UNCHANGED open
    /\ Frame /\ UNCHANGED <<runtime, draining>>

NewRenewer(i) == IF go[i]["renew1"].pc = "none" THEN "renew1" ELSE "renew2"

\* The runtime is entered, with its renewal.
Enter(i, g) ==
    LET r == NewRenewer(i) IN
    /\ go[i][r].pc = "none"
    /\ \E due \in SUBSET ({runtime[i].renewer} \cap Renewers) :
          /\ DueOf(due)
          /\ go' = [go EXCEPT ![i] = [Cancelled(i, {runtime[i].renewer}, due)
                      EXCEPT ![g] = Over(g), ![r] = At("wait", 0)]]
    /\ runtime' = [runtime EXCEPT ![i] = [version |-> go[i][g].ver, renewer |-> r]]
    /\ retrying' = [retrying EXCEPT ![i] = IF @ = g THEN "none" ELSE @]

\* Mutant: Stop is not looked for again.
RegisterAnyway(i, g) ==
    /\ go[i][g].pc = "register" /\ Enter(i, g)
    /\ IF Runs(i) THEN Close(i) /\ lock' = Released(i) ELSE UNCHANGED <<conns, lock>>
    /\ Frame /\ UNCHANGED dropped

\* Stop may have emptied the map meanwhile: the new connection is closed again,
\* whatever the mode.  A runtime that is there is stopped.
Register(i, g) ==
    /\ go[i][g].pc = "register"
    /\ IF up[i] # "up"
       THEN Ends(i, g) /\ Close(i) /\ lock' = Released(i) /\ UNCHANGED <<runtime, troubles>>
       ELSE /\ Enter(i, g)
            /\ IF Runs(i)
               THEN Close(i) /\ lock' = IF LongPoll THEN lock ELSE Released(i)
               ELSE UNCHANGED <<conns, lock>>
    /\ Frame /\ UNCHANGED dropped

StartOrStop(i, g) ==
    \/ StopStep(i, g) \/ StartStep(i, g) \/ Elect(i, g) \/ Standby(i, g)
    \/ Connect(i, g) \/ Register(i, g)

-----------------------------------------------------------------------------
(* Requests: UpdateChannel, ToggleChannel, DeleteChannel.  The row is read  *)
(* and saved in one step.                                                  *)

\* Goroutine g has nothing to do, and not too many others have.
Calm(i, g) ==
    /\ go[i][g].pc = "none"
    /\ Cardinality({h \in Goroutines : go[i][h].pc \notin {"none", "wait", "publish"}}) < MaxBusy

Request(i, status, version, next) ==
    /\ up[i] = "up" /\ Calm(i, "request")
    /\ db.status # "gone" /\ changes < MaxChanges /\ changes' = changes + 1
    /\ db' = [status |-> status, version |-> version]
    /\ Becomes(i, "request", next)
    /\ UNCHANGED <<lock, up, runtime, retrying, conns, network, troubles, dropped>>

Update(i) ==
    LET v == db.version + 1 IN
    Request(i, db.status, v, At("stop", IF db.status = "on" THEN v ELSE 0))

Toggle(i) ==
    IF db.status = "on" THEN Request(i, "off", db.version, At("stop", 0))
                        ELSE Request(i, "on", db.version, At("start", db.version))

Delete(i) == Request(i, "gone", db.version, At("stop", 0))

\* publishChannelConfigChange, at most once for every subscriber.
Publish(i) ==
    /\ go[i]["request"].pc = "publish" /\ Becomes(i, "request", Nothing)
    /\ IF up[i] = "up"
       THEN \E missed \in SUBSET {j \in Instances \ {i} : up[j] = "up"} :
              /\ IF missed = {} THEN UNCHANGED troubles ELSE Trouble
              /\ inbox' = [j \in Instances |->
                              IF j # i /\ up[j] = "up" /\ j \notin missed THEN inbox[j] + 1
                                                                         ELSE inbox[j]]
       ELSE UNCHANGED <<inbox, troubles>>
    /\ UNCHANGED <<db, lock, up, runtime, retrying, conns, late, changes, dropped>>

\* reloadChannelFromDB for one event.
Reload(i) ==
    /\ up[i] = "up" /\ inbox[i] > 0 /\ Calm(i, "reload")
    /\ inbox' = [inbox EXCEPT ![i] = @ - 1]
    /\ \/ /\ UNCHANGED troubles
          /\ IF db.status = "on"
             THEN IF runtime[i].version = db.version
                  THEN UNCHANGED go
                  ELSE Becomes(i, "reload", At("start", db.version))
             ELSE Becomes(i, "reload", At("stop", 0))
       \/ Trouble /\ UNCHANGED go
    /\ UNCHANGED <<db, lock, up, runtime, retrying, conns, late, changes, dropped>>

-----------------------------------------------------------------------------
(* wsLeaderRenewLoop and wsLeaderRetryLoop.                                *)

LoopFrame == Frame /\ UNCHANGED <<runtime, conns>>

\* The script of the renewal: the lock is lost, or Redis fails, or it is renewed.
Renew(i, g) ==
    /\ g \in Renewers /\ go[i][g].pc = "wait"
    /\ \/ lock = i /\ Goes(i, g, "check") /\ UNCHANGED troubles
       \/ /\ IF lock # i THEN UNCHANGED troubles ELSE Trouble
          /\ Becomes(i, g, At("stop", 0))
    /\ LoopFrame /\ UNCHANGED <<retrying, lock, dropped>>

\* Back to the select of a loop, which ends when it was cancelled meanwhile.
Waits(i, g) ==
    IF go[i][g].cancelled THEN Ends(i, g) ELSE Goes(i, g, "wait") /\ UNCHANGED retrying

\* Mutant: the leader does not look whether the channel is still enabled.
CheckVersion(i, g) ==
    /\ g \in Renewers /\ go[i][g].pc = "check"
    /\ \/ /\ runtime[i].version \notin {0, db.version}
          /\ Becomes(i, g, At("start", db.version)) /\ UNCHANGED <<retrying, troubles>>
       \/ ~Runs(i) /\ Ends(i, g) /\ UNCHANGED troubles
       \/ /\ IF runtime[i].version = db.version THEN UNCHANGED troubles ELSE Trouble
          /\ Waits(i, g)
    /\ LoopFrame /\ UNCHANGED <<lock, dropped>>

\* Mutant: the leader does not compare what it runs with the row.
CheckEnabled(i, g) ==
    /\ g \in Renewers /\ go[i][g].pc = "check"
    /\ \/ /\ db.status # "on"
          /\ Becomes(i, g, At("stop", 0)) /\ UNCHANGED <<retrying, troubles>>
       \/ /\ IF db.status = "on" THEN UNCHANGED troubles ELSE Trouble
          /\ Waits(i, g)
    /\ LoopFrame /\ UNCHANGED <<lock, dropped>>

\* The leader reads the row, or tries to, and compares it with what it runs.
Check(i, g) ==
    /\ g \in Renewers /\ go[i][g].pc = "check"
    /\ \/ /\ db.status # "on"
          /\ Becomes(i, g, At("stop", 0)) /\ UNCHANGED <<retrying, troubles>>
       \/ /\ db.status = "on" /\ runtime[i].version \notin {0, db.version}
          /\ Becomes(i, g, At("start", db.version)) /\ UNCHANGED <<retrying, troubles>>
       \/ db.status = "on" /\ ~Runs(i) /\ Ends(i, g) /\ UNCHANGED troubles
       \/ /\ IF db.status = "on" /\ runtime[i].version = db.version THEN UNCHANGED troubles
                                                              ELSE Trouble
          /\ Waits(i, g)
    /\ LoopFrame /\ UNCHANGED <<lock, dropped>>

\* The tick of a retry, or its end with stopCh; an error of SETNX is a no.
Retry(i, g) ==
    /\ g \in Retriers /\ go[i][g].pc \in {"wait", "due"}
    /\ \/ /\ ~Runs(i) /\ lock = NoOne /\ lock' = i
          /\ go' = [go EXCEPT ![i][g].pc = "verify",
                              ![i][g].cancelled = go[i][g].pc = "due"]
          /\ UNCHANGED retrying
       \/ /\ Runs(i) \/ go[i][g].pc = "due" \/ up[i] # "up"
          /\ Ends(i, g) /\ UNCHANGED lock
    /\ LoopFrame /\ UNCHANGED <<troubles, dropped>>

\* The new leader reads the row before it connects.
Verify(i, g) ==
    /\ go[i][g].pc = "verify"
    /\ \/ /\ db.status = "on" /\ UNCHANGED <<retrying, lock, troubles>>
          /\ Becomes(i, g, At("connect", db.version))
       \/ /\ db.status # "on" /\ UNCHANGED troubles
          /\ Ends(i, g) /\ lock' = Released(i)
       \/ Trouble /\ Waits(i, g) /\ lock' = Released(i)
    /\ LoopFrame /\ UNCHANGED dropped

-----------------------------------------------------------------------------
(* Messages of the channel.                                                *)

\* A message has passed the check for duplicates.
Receive(i) ==
    /\ up[i] = "up" /\ open[i] + draining[i] > 0 /\ ~late[i] /\ Trouble
    /\ late' = [late EXCEPT ![i] = TRUE]
    /\ UNCHANGED <<db, lock, local, conns, inbox, changes, dropped>>

\* HandleMessage: a channel that does not run here is started, even a disabled one.
Handle(i) ==
    /\ late[i] /\ Calm(i, "dynamic") /\ late' = [late EXCEPT ![i] = FALSE]
    /\ IF Runs(i) \/ db.status = "gone"
       THEN UNCHANGED go
       ELSE Becomes(i, "dynamic", At("start", db.version))
    /\ UNCHANGED <<db, lock, up, runtime, retrying, conns, inbox, changes, troubles, dropped>>

-----------------------------------------------------------------------------
(* Processes and time.                                                     *)

\* LoadAndStartChannels.
Boot(i) ==
    /\ up[i] = "down" /\ up' = [up EXCEPT ![i] = "up"]
    /\ IF db.status = "on" THEN Becomes(i, "dynamic", At("start", db.version)) ELSE UNCHANGED go
    /\ UNCHANGED <<db, lock, runtime, retrying, conns, network, changes, troubles, dropped>>

\* Stop, up to its critical section and in it.
Shutdown(i) ==
    /\ up[i] = "up" /\ Trouble /\ up' = [up EXCEPT ![i] = "stopping"]
    /\ UNCHANGED <<db, lock, runtime, retrying, go, conns, network, changes, dropped>>

StopAll(i) ==
    /\ up[i] = "stopping" /\ up' = [up EXCEPT ![i] = "stopped"]
    /\ StopRuntime(i)
    /\ \E due \in SUBSET Loops(i) :
          DueOf(due) /\ go' = [go EXCEPT ![i] = Cancelled(i, Loops(i), due)]
    /\ UNCHANGED <<db, network, changes, dropped>>

\* The process ends, after Stop or without it.  The lock stays.
Die(i) ==
    /\ IF up[i] = "stopped" THEN UNCHANGED troubles ELSE up[i] # "down" /\ Trouble
    /\ up' = [up EXCEPT ![i] = "down"]
    /\ runtime' = [runtime EXCEPT ![i] = NoRuntime]
    /\ retrying' = [retrying EXCEPT ![i] = "none"]
    /\ go' = [go EXCEPT ![i] = [g \in Goroutines |-> Nothing]]
    /\ open' = [open EXCEPT ![i] = 0] /\ draining' = [draining EXCEPT ![i] = 0]
    /\ inbox' = [inbox EXCEPT ![i] = 0] /\ late' = [late EXCEPT ![i] = FALSE]
    /\ UNCHANGED <<db, lock, changes, dropped>>

Drained(i) ==
    /\ draining[i] > 0 /\ draining' = [draining EXCEPT ![i] = @ - 1]
    /\ UNCHANGED <<db, lock, local, open, network, changes, troubles, dropped>>

(***************************************************************************)
(* The lock expires when nobody on the instance keeps it: a start, and the *)
(* time between two renewals, is shorter than its TTL, and a poll ends     *)
(* within it.                                                              *)
(***************************************************************************)
Keeps(i) == Runs(i) \/ draining[i] > 0 \/ \E g \in Goroutines : go[i][g].pc \in Starting

Expire ==
    /\ lock # NoOne /\ ~Keeps(lock) /\ lock' = NoOne
    /\ UNCHANGED <<db, local, conns, network, changes, troubles, dropped>>

-----------------------------------------------------------------------------
LoopStep(i, g) == Renew(i, g) \/ Check(i, g) \/ Retry(i, g) \/ Verify(i, g)

Change == \E i \in Instances : Update(i) \/ Toggle(i) \/ Delete(i)

Environment == Expire \/ \E i \in Instances : Receive(i) \/ Shutdown(i) \/ Die(i)

Next ==
    \/ \E i \in Instances :
          \/ \E g \in Goroutines : StartOrStop(i, g) \/ LoopStep(i, g)
          \/ Publish(i) \/ Reload(i) \/ Handle(i) \/ Boot(i) \/ StopAll(i) \/ Drained(i)
    \/ Change \/ Environment

Spec == Init /\ [][Next]_vars

(***************************************************************************)
(* An instance works, one that went down is started again, tickers tick,   *)
(* and the lock of nobody expires.                                         *)
(***************************************************************************)
Fairness ==
    /\ \A i \in Instances :
          /\ \A g \in Goroutines : WF_vars(StartOrStop(i, g) \/ LoopStep(i, g))
          /\ WF_vars(Publish(i)) /\ WF_vars(Reload(i) \/ Handle(i))
          /\ WF_vars(Boot(i) \/ StopAll(i) \/ Drained(i) \/ (up[i] = "stopped" /\ Die(i)))
    /\ WF_vars(Expire)

FairSpec == Spec /\ Fairness

-----------------------------------------------------------------------------
(***************************************************************************)
(* Properties.                                                             *)
(***************************************************************************)

\* Polls of an instance that shuts down may outlive its lock.
Connections(i) == open[i] + (IF up[i] = "up" THEN draining[i] ELSE 0)

(***************************************************************************)
(* At most one connection serves the channel, over all instances, through  *)
(* restarts of the channel by requests, events, renewals and messages      *)
(* (StartChannel: "only one instance acquires the leader lock and opens    *)
(* the connection").                                                       *)
(***************************************************************************)
OneConnection ==
    \A i \in Instances :
       /\ Connections(i) <= 1
       /\ Connections(i) = 1 => \A j \in Instances \ {i} : Connections(j) = 0

(***************************************************************************)
(* No connection is left behind: each belongs to a runtime in the map or   *)
(* to a start that will enter it, and once Stop has emptied the map        *)
(* nothing enters (startChannelInternal: "this adapter's long connection   *)
(* would outlive process shutdown").                                       *)
(***************************************************************************)
NoLeak ==
    \A i \in Instances :
       /\ open[i] = Cardinality({g \in Goroutines : go[i][g].pc = "register"})
                      + (IF Runs(i) THEN 1 ELSE 0)
       /\ up[i] = "stopped" => ~Runs(i)

(***************************************************************************)
(* A channel that was disabled or deleted is disconnected in the end on    *)
(* whichever instance it runs, also when the event was lost, when the row  *)
(* could not be read, or when a late message has started it again          *)
(* (wsLeaderRenewLoop: "the renew interval bounds the worst-case lag").    *)
(***************************************************************************)
StepsDown == db.status # "on" ~> db.status = "on" \/ \A i \in Instances : open[i] = 0

(***************************************************************************)
(* What runs is brought up to the row, even after a goroutine has started  *)
(* it with a version it had read earlier.                                  *)
(***************************************************************************)
CatchesUp ==
    \A i \in Instances :
       Runs(i) /\ runtime[i].version # db.version
         ~> runtime[i].version = db.version \/ ~Runs(i)

Connected == \E i \in Instances : Runs(i)

(***************************************************************************)
(* An enabled channel is connected in the end, whichever instances die or  *)
(* shut down and whichever events are lost, unless a renewal has dropped or *)
(* a connection was refused.                                               *)
(***************************************************************************)
Served == db.status = "on" ~> Connected \/ db.status # "on" \/ dropped

=============================================================================
