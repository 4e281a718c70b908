---------------------------- MODULE ApprovalGate ----------------------------
(***************************************************************************)
(* The approval gate of MCP tool calls (internal/agent/approval/gate.go).  *)
(*                                                                         *)
(* A tool call registers a waiter on the instance it runs on, shows a      *)
(* prompt and blocks until somebody resolves it, a timer fires or its      *)
(* context is cancelled.  A Resolve request that reaches an instance       *)
(* without the waiter is published to the other instances over Redis, and  *)
(* waits three seconds for the owner's acknowledgement.  RequestAndWait    *)
(* and RequestOAuthAndWait have the same steps.                            *)
(***************************************************************************)
EXTENDS Naturals, FiniteSets

CONSTANTS
    Calls,      \* tool calls: every call has a fresh pending id
    Requests,   \* calls of Resolve
    Instances,  \* replicas of the backend
    Tenants,
    Users,
    CrossInstance,  \* a Redis client is configured
    MaxFaults   \* bound of the model: failing Redis calls and crashes

Nobody == "nobody"

Clocks == {"timeout", "canceled"}

Answers == {"ok", "already", "not_found", "tenant", "user", "error"}

ASSUME ApprovalGateAssumption ==
    /\ Requests \cap (Clocks \cup Answers \cup {Nobody}) = {}
    /\ Nobody \notin Instances
    /\ CrossInstance \in BOOLEAN
    /\ MaxFaults \in Nat

VARIABLES
    call,     \* where each tool call is, and whom it belongs to
    pending,  \* Gate.pending of all instances: waiters that are registered
    sealed,   \* waiter.once has run
    ch,       \* waiter.ch: the decision in the channel
    got,      \* the decision RequestAndWait took from the channel
    req,      \* where each request is, and what it asks
    told,     \* what Resolve returned
    inbox,    \* published requests that an instance has yet to read
    sub,      \* the request each subscriber is delivering
    acks,     \* acknowledgements in each request's reply subscription
    faults

callVars == <<call, pending, sealed, ch, got>>
reqVars  == <<req, told>>
busVars  == <<inbox, sub, acks>>
vars == <<call, pending, sealed, ch, got, req, told, inbox, sub, acks, faults>>

\* A user "nobody" is the empty user id: a waiter without one skips the check.
Call == [pc : {"new", "emit", "wait", "receive", "leave", "fail", "returned", "failed", "crashed"},
         at : Instances \cup {Nobody}, tenant : Tenants \cup {Nobody}, user : Users \cup {Nobody}]

Req == [pc : {"idle", "deliver", "publish", "ack", "done"},
        at : Instances \cup {Nobody}, call : Calls \cup {Nobody},
        tenant : Tenants \cup {Nobody}, user : Users \cup {Nobody}]

Ack == [from : Requests, status : Answers]

NewCall == [pc |-> "new", at |-> Nobody, tenant |-> Nobody, user |-> Nobody]
NewReq == [pc |-> "idle", at |-> Nobody, call |-> Nobody, tenant |-> Nobody, user |-> Nobody]

Init ==
    /\ call = [p \in Calls |-> NewCall]
    /\ pending = {}
    /\ sealed = [p \in Calls |-> FALSE]
    /\ ch = [p \in Calls |-> Nobody]
    /\ got = [p \in Calls |-> Nobody]
    /\ req = [r \in Requests |-> NewReq]
    /\ told = [r \in Requests |-> Nobody]
    /\ inbox = {}
    /\ sub = [i \in Instances |-> Nobody]
    /\ acks = [r \in Requests |-> {}]
    /\ faults = 0

\* A Redis call fails.
Fault == faults < MaxFaults /\ faults' = faults + 1

-----------------------------------------------------------------------------
(* waiter.deliver: sync.Once around a send that does not block.            *)

\* Mutant: without sync.Once whoever finds the channel empty delivers.
DeliversToEmpty(p) == ch[p] = Nobody

\* deliver returns true.
Delivers(p) == ~sealed[p] /\ ch[p] = Nobody

Deliver(p, x) ==
    /\ sealed' = [sealed EXCEPT ![p] = TRUE]
    /\ ch' = IF Delivers(p) THEN [ch EXCEPT ![p] = x] ELSE ch

-----------------------------------------------------------------------------
(* The tool call: RequestAndWait. *)

CallAt(p, here, there) == call[p].pc = here /\ call' = [call EXCEPT ![p].pc = there]

\* The waiter is put into pending before the prompt is shown.
Register(p) ==
    /\ call[p].pc = "new"
    /\ \E i \in Instances, t \in Tenants, u \in Users \cup {Nobody} :
         call' = [call EXCEPT ![p] = [pc |-> "emit", at |-> i, tenant |-> t, user |-> u]]
    /\ pending' = pending \cup {p}
    /\ UNCHANGED <<sealed, ch, got, reqVars, busVars, faults>>

\* Emit runs the handlers of the prompt, one of which may fail.
Emit(p) ==
    /\ CallAt(p, "emit", "wait") \/ CallAt(p, "emit", "fail")
    /\ UNCHANGED <<pending, sealed, ch, got, reqVars, busVars, faults>>

\* select: a decision is in the channel.
Receive(p) ==
    /\ CallAt(p, "wait", "leave")
    /\ ch[p] # Nobody
    /\ got' = [got EXCEPT ![p] = ch[p]]
    /\ ch' = [ch EXCEPT ![p] = Nobody]
    /\ UNCHANGED <<pending, sealed, reqVars, busVars, faults>>

\* Mutant: the timer's branch does not deliver its own decision.
FireSilently(p, x) ==
    /\ CallAt(p, "wait", "receive")
    /\ UNCHANGED <<pending, sealed, ch, got, reqVars, busVars, faults>>

\* select: the timer fired or the context is done.  Its decision is
\* delivered like any other and may lose to one that is there already.
Fire(p, x) ==
    /\ CallAt(p, "wait", "receive")
    /\ Deliver(p, x)
    /\ UNCHANGED <<pending, got, reqVars, busVars, faults>>

\* d = <-w.ch
ReceiveLate(p) ==
    /\ CallAt(p, "receive", "leave")
    /\ ch[p] # Nobody
    /\ got' = [got EXCEPT ![p] = ch[p]]
    /\ ch' = [ch EXCEPT ![p] = Nobody]
    /\ UNCHANGED <<pending, sealed, reqVars, busVars, faults>>

\* Mutant: the waiter stays registered.
LeaveRegistered(p) ==
    /\ CallAt(p, "leave", "returned") \/ CallAt(p, "fail", "failed")
    /\ UNCHANGED <<pending, sealed, ch, got, reqVars, busVars, faults>>

\* The deferred delete, and the return.
Leave(p) ==
    /\ CallAt(p, "leave", "returned") \/ CallAt(p, "fail", "failed")
    /\ pending' = pending \ {p}
    /\ UNCHANGED <<sealed, ch, got, reqVars, busVars, faults>>

-----------------------------------------------------------------------------
(* The request: Resolve. *)

ReqAt(r, here, there) == req[r].pc = here /\ req' = [req EXCEPT ![r].pc = there]

Answer(r, a) == told' = [told EXCEPT ![r] = a]

Here(i, q) == q.call \in pending /\ call[q.call].at = i

\* Mutant: the user is not compared.
LookupAnyUser(i, q) ==
    IF ~Here(i, q) THEN "not_found"
    ELSE IF call[q.call].tenant # q.tenant THEN "tenant"
    ELSE "found"

\* The lookup of deliverLocal on instance i: "found" lets it deliver.
Lookup(i, q) ==
    IF ~Here(i, q) THEN "not_found"
    ELSE IF call[q.call].tenant # q.tenant THEN "tenant"
    ELSE IF call[q.call].user \notin {Nobody, q.user} THEN "user"
    ELSE "found"

\* Resolve on instance i looks for the waiter there.
Resolve(r, i, p, t, u) ==
    LET q == [pc |-> "deliver", at |-> i, call |-> p, tenant |-> t, user |-> u]
        found == Lookup(i, q)
        next == CASE found = "found" -> "deliver"
                  [] found = "not_found" /\ CrossInstance -> "publish"
                  [] OTHER -> "done" IN
    /\ req[r].pc = "idle" /\ call[p].pc # "new"
    /\ req' = [req EXCEPT ![r] = [q EXCEPT !.pc = next]]
    /\ IF next = "done" THEN Answer(r, found) ELSE UNCHANGED told
    /\ UNCHANGED <<callVars, busVars, faults>>

\* ... and delivers, after the mutex is released.
ResolveDeliver(r) ==
    LET p == req[r].call IN
    /\ ReqAt(r, "deliver", "done")
    /\ Deliver(p, r)
    /\ Answer(r, IF Delivers(p) THEN "ok" ELSE "already")
    /\ UNCHANGED <<call, pending, got, busVars, faults>>

\* resolveCrossInstance: subscribe to the replies, then publish to the others.
\* A call that fails may have published all the same.
Publish(r) ==
    LET sent == inbox \cup {[to |-> i, from |-> r] : i \in Instances \ {req[r].at}} IN
    \/ /\ ReqAt(r, "publish", "ack")
       /\ inbox' = sent
       /\ UNCHANGED <<callVars, told, sub, acks, faults>>
    \/ /\ ReqAt(r, "publish", "done") /\ Fault
       /\ Answer(r, "error")
       /\ inbox' \in {inbox, sent}
       /\ UNCHANGED <<callVars, sub, acks>>

\* Mutant: the acknowledgement of another request is taken for one's own.
ForMeOrOthers(r, a) == TRUE

\* The reply channel is shared by the requests about one call; the nonce
\* tells their acknowledgements apart.
ForMe(r, a) == a.from = r

ReadAck(r) ==
    /\ ReqAt(r, "ack", "done")
    /\ \E a \in acks[r] : ForMe(r, a) /\ Answer(r, a.status)
    /\ UNCHANGED <<callVars, busVars, faults>>

\* Three seconds without an acknowledgement.
AckTimeout(r) ==
    /\ ReqAt(r, "ack", "done")
    /\ Answer(r, "not_found")
    /\ UNCHANGED <<callVars, busVars, faults>>

-----------------------------------------------------------------------------
(* The subscriber of an instance: runSubscriber, one message at a time. *)

\* The acknowledgement reaches every request that waits for one about the
\* same call, or is lost.
Reply(r, s) ==
    \/ /\ acks' = [q \in Requests |->
            IF req[q].pc = "ack" /\ req[q].call = req[r].call
            THEN acks[q] \cup {[from |-> r, status |-> s]} ELSE acks[q]]
       /\ UNCHANGED faults
    \/ Fault /\ UNCHANGED acks

SubLookup(i, r) ==
    LET found == Lookup(i, req[r]) IN
    /\ sub[i] = Nobody
    /\ [to |-> i, from |-> r] \in inbox
    /\ inbox' = inbox \ {[to |-> i, from |-> r]}
    /\ CASE found = "found" ->
              sub' = [sub EXCEPT ![i] = r] /\ UNCHANGED <<acks, faults>>
         [] found = "not_found" -> UNCHANGED <<sub, acks, faults>>
         [] OTHER -> Reply(r, found) /\ UNCHANGED sub
    /\ UNCHANGED <<callVars, reqVars>>

SubDeliver(i) ==
    LET r == sub[i]
        p == req[r].call IN
    /\ r # Nobody
    /\ sub' = [sub EXCEPT ![i] = Nobody]
    /\ Deliver(p, r)
    /\ Reply(r, IF Delivers(p) THEN "ok" ELSE "already")
    /\ UNCHANGED <<call, pending, got, reqVars, inbox>>

\* The subscription is down while a message is published.
LoseMessage(i) ==
    /\ \E m \in inbox : m.to = i /\ inbox' = inbox \ {m}
    /\ Fault
    /\ UNCHANGED <<callVars, reqVars, sub, acks>>

\* An instance dies: its waiters, requests and messages are gone.
Crash(i) ==
    /\ Fault
    /\ call' = [p \in Calls |->
         IF call[p].at = i /\ call[p].pc \notin {"returned", "failed"}
         THEN [call[p] EXCEPT !.pc = "crashed"] ELSE call[p]]
    /\ pending' = {p \in pending : call[p].at # i}
    /\ req' = [r \in Requests |->
         IF req[r].at = i THEN [req[r] EXCEPT !.pc = "done"] ELSE req[r]]
    /\ inbox' = {m \in inbox : m.to # i}
    /\ sub' = [sub EXCEPT ![i] = Nobody]
    /\ UNCHANGED <<sealed, ch, got, told, acks>>

-----------------------------------------------------------------------------
CallStep(p) ==
    \/ Emit(p) \/ Receive(p) \/ ReceiveLate(p) \/ Leave(p)
    \/ \E x \in Clocks : Fire(p, x)

ReqStep(r) == ResolveDeliver(r) \/ Publish(r) \/ ReadAck(r) \/ AckTimeout(r)

SubStep(i) == SubDeliver(i) \/ \E r \in Requests : SubLookup(i, r)

Next ==
    \/ \E p \in Calls : Register(p) \/ CallStep(p)
    \/ \E r \in Requests : ReqStep(r)
    \/ \E r \in Requests, i \in Instances, p \in Calls, t \in Tenants, u \in Users \cup {Nobody} :
         Resolve(r, i, p, t, u)
    \/ \E i \in Instances : SubStep(i) \/ LoseMessage(i) \/ Crash(i)

Spec == Init /\ [][Next]_vars

\* Goroutines run, the handlers of the prompt return, timers fire.
\* Tool calls, requests and failures are never forced.
Fairness ==
    /\ \A p \in Calls : WF_vars(CallStep(p))
    /\ \A r \in Requests : WF_vars(ReqStep(r))
    /\ \A i \in Instances : WF_vars(SubStep(i))

FairSpec == Spec /\ Fairness

-----------------------------------------------------------------------------
(* Properties. *)

\* Who decided each call: the decision is in the channel until it is taken.
Decision == [p \in Calls |-> IF got[p] # Nobody THEN got[p] ELSE ch[p]]

\* What each call returned.
Outcome ==
    [p \in Calls |->
        CASE call[p].pc = "returned" -> got[p]
          [] call[p].pc = "failed"   -> "error"
          [] OTHER                   -> Nobody]

One == INSTANCE OneDecision WITH decision <- Decision, outcome <- Outcome

\* The state has the shape described above.
TypeOK ==
    /\ call \in [Calls -> Call] /\ pending \subseteq Calls
    /\ sealed \in [Calls -> BOOLEAN]
    /\ ch \in [Calls -> Requests \cup Clocks \cup {Nobody}]
    /\ got \in [Calls -> Requests \cup Clocks \cup {Nobody}]
    /\ req \in [Requests -> Req] /\ told \in [Requests -> Answers \cup {Nobody}]
    /\ inbox \subseteq [to : Instances, from : Requests]
    /\ sub \in [Instances -> Requests \cup {Nobody}]
    /\ acks \in [Requests -> SUBSET Ack]
    /\ faults \in Nat

\* Through local and remote requests, timeouts, cancellations, lost messages
\* and crashes, every call is decided once and returns that decision, and a
\* request that is told ok or already resolved is told the truth (gate.go,
\* deliver and Resolve).
KeepsOneDecision == One!OneSpec

\* Only a request of the waiter's tenant and, when the waiter has a user, of
\* that user decides a call, on whichever instance it is delivered.
Authorized ==
    \A p \in Calls, r \in Requests : Decision[p] = r =>
        /\ req[r].call = p /\ req[r].tenant = call[p].tenant
        /\ call[p].user \in {Nobody, req[r].user}

\* A waiter whose timer fired always finds a decision to receive: whoever
\* won sync.Once has filled the channel (gate.go, d = <-w.ch).
NeverStuck == \A p \in Calls : call[p].pc = "receive" => ch[p] # Nobody

\* Every call that waits comes to an end, resolved or not, and leaves nothing
\* behind in pending unless its instance dies.
CallsEnd ==
    \A p \in Calls :
        call[p].pc = "wait" ~> p \notin pending /\ call[p].pc \in {"returned", "crashed"}
=============================================================================
