------------------------- MODULE ApprovalGateProofs -------------------------
(***************************************************************************)
(* Proofs about the approval gate, for any numbers of calls, requests,     *)
(* instances, tenants and users and any number of faults.                  *)
(***************************************************************************)
EXTENDS ApprovalGate, TLAPS

-----------------------------------------------------------------------------
(* The inductive invariant. *)

Msg(i, r) == [to |-> i, from |-> r]

\* Request r may decide its call.
Entitled(r) ==
    /\ req[r].call \in Calls /\ call[req[r].call].pc # "new"
    /\ req[r].tenant = call[req[r].call].tenant
    /\ call[req[r].call].user \in {Nobody, req[r].user}

\* Request r has decided nothing.
Undecided(r) == \A p \in Calls : Decision[p] # r

\* ... and is on no other instance's way either.
Unsent(r) ==
    /\ Undecided(r)
    /\ \A i \in Instances : sub[i] # r /\ Msg(i, r) \notin inbox
    /\ \A q \in Requests : \A a \in acks[q] : a.from # r

\* The channel, sync.Once and the step a call is at agree.
CallsOK ==
    \A p \in Calls :
        /\ sealed[p] <=> Decision[p] # Nobody
        /\ got[p] # Nobody =>
             ch[p] = Nobody /\ call[p].pc \in {"leave", "returned", "crashed"}
        /\ call[p].pc \in {"leave", "returned"} => got[p] # Nobody
        /\ call[p].pc = "receive" => sealed[p]
        /\ call[p].pc = "new" => Decision[p] = Nobody /\ p \notin pending /\ call[p].at = Nobody

\* A request that is not delivered or published yet has left no trace.
ReqsOK ==
    \A r \in Requests :
        /\ req[r].pc # "idle" => req[r].call \in Calls /\ call[req[r].call].pc # "new"
        /\ req[r].pc = "idle" => req[r].at = Nobody
        /\ req[r].pc # "done" => told[r] = Nobody
        /\ req[r].pc \in {"idle", "deliver", "publish"} => Unsent(r)
        /\ req[r].pc = "deliver" => Entitled(r)

\* What a subscriber delivers was looked up on the instance of the call, has
\* decided nothing, and will not be delivered again.
SubsOK ==
    \A i \in Instances, r \in Requests : sub[i] = r =>
        /\ Entitled(r) /\ Undecided(r)
        /\ call[req[r].call].at = i
        /\ Msg(i, r) \notin inbox

\* A request that decided its call was entitled to, and the instance of the
\* call does not get it again.
DecidedOK ==
    \A p \in Calls, r \in Requests : Decision[p] = r =>
        /\ req[r].call = p /\ Entitled(r)
        /\ \A i \in Instances : call[p].at = i => sub[i] # r /\ Msg(i, r) \notin inbox

\* An acknowledgement tells the truth about its request.
TrueAck(a) ==
    /\ a.status = "ok" => Decision[req[a.from].call] = a.from
    /\ a.status = "already" => Decision[req[a.from].call] \notin {Nobody, a.from}

AcksOK == \A q \in Requests : \A a \in acks[q] : TrueAck(a)

GateInv == TypeOK /\ CallsOK /\ ReqsOK /\ SubsOK /\ DecidedOK /\ AcksOK
-----------------------------------------------------------------------------
(* Type correctness. *)

LEMMA InitType == Init => TypeOK
  BY DEF Init, TypeOK, Call, Req, NewCall, NewReq

LEMMA LookupType ==
  ASSUME NEW i, NEW q
  PROVE  Lookup(i, q) \in {"not_found", "tenant", "user", "found"}
  BY DEF Lookup

LEMMA CallPc ==
  ASSUME NEW c \in Call, NEW s \in {"wait", "fail", "receive", "leave", "returned", "failed", "crashed"}
  PROVE  [c EXCEPT !.pc = s] \in Call
  BY DEF Call

LEMMA ReqPc ==
  ASSUME NEW q \in Req, NEW s \in {"ack", "done"}
  PROVE  [q EXCEPT !.pc = s] \in Req
  BY DEF Req

\* What a call of the tool does to the types.
LEMMA CallType ==
  ASSUME TypeOK, NEW p \in Calls, Register(p) \/ CallStep(p)
  PROVE  TypeOK'
<1>1. CASE Register(p)
  BY <1>1 DEF TypeOK, Register, reqVars, busVars, Call
<1>2. CASE Emit(p)
  <2>1. PICK s \in {"wait", "fail"} : call' = [call EXCEPT ![p].pc = s]
    BY <1>2 DEF Emit, CallAt
  <2>2. [call[p] EXCEPT !.pc = s] \in Call
    BY CallPc DEF TypeOK
  <2>3. call' \in [Calls -> Call]
    BY <2>1, <2>2 DEF TypeOK
  <2> QED
    BY <1>2, <2>3 DEF TypeOK, Emit, reqVars, busVars
<1>3. CASE Receive(p)
  BY <1>3 DEF TypeOK, Receive, CallAt, reqVars, busVars, Call
<1>4. CASE ReceiveLate(p)
  BY <1>4 DEF TypeOK, ReceiveLate, CallAt, reqVars, busVars, Call
<1>5. CASE Leave(p)
  BY <1>5 DEF TypeOK, Leave, CallAt, reqVars, busVars, Call
<1>6. ASSUME NEW x \in Clocks, Fire(p, x)
      PROVE  TypeOK'
  BY <1>6 DEF TypeOK, Fire, Deliver, CallAt, reqVars, busVars, Call
<1> QED
  BY <1>1, <1>2, <1>3, <1>4, <1>5, <1>6 DEF CallStep

\* What a request does to the types.
LEMMA ReqType ==
  ASSUME TypeOK, NEW r \in Requests, ReqStep(r)
  PROVE  TypeOK'
<1>1. CASE ResolveDeliver(r)
  <2>1. req[r].pc = "deliver" /\ req[r].call \in Calls \cup {Nobody}
    BY <1>1 DEF TypeOK, ResolveDeliver, ReqAt, Req
  <2> QED
    BY <1>1, <2>1 DEF TypeOK, ResolveDeliver, Deliver, Answer, ReqAt, busVars, Req, Answers
<1>2. CASE Publish(r)
  <2>1. inbox' \subseteq [to : Instances, from : Requests]
    BY <1>2 DEF TypeOK, Publish
  <2>2. req' \in [Requests -> Req]
    BY <1>2 DEF TypeOK, Publish, ReqAt, Req
  <2>3. told' \in [Requests -> Answers \cup {Nobody}] /\ faults' \in Nat
    BY <1>2 DEF TypeOK, Publish, Answer, Answers, Fault
  <2>4. UNCHANGED <<callVars, sub, acks>>
    BY <1>2 DEF Publish
  <2> QED
    BY <2>1, <2>2, <2>3, <2>4 DEF TypeOK, callVars
<1>3. CASE ReadAck(r)
  <2>1. PICK a \in acks[r] : Answer(r, a.status)
    BY <1>3 DEF ReadAck
  <2>2. a.status \in Answers
    BY <2>1 DEF TypeOK, Ack
  <2>3. told' \in [Requests -> Answers \cup {Nobody}]
    BY <2>1, <2>2 DEF TypeOK, Answer
  <2>4. req' \in [Requests -> Req]
    BY <1>3 DEF TypeOK, ReadAck, ReqAt, Req
  <2>5. UNCHANGED <<callVars, busVars, faults>>
    BY <1>3 DEF ReadAck
  <2> QED
    BY <2>3, <2>4, <2>5 DEF TypeOK, callVars, busVars
<1>4. CASE AckTimeout(r)
  BY <1>4 DEF TypeOK, AckTimeout, Answer, ReqAt, callVars, busVars, Req, Answers
<1> QED
  BY <1>1, <1>2, <1>3, <1>4 DEF ReqStep

LEMMA ResolveType ==
  ASSUME TypeOK, NEW r \in Requests, NEW i \in Instances, NEW p \in Calls,
         NEW t \in Tenants, NEW u \in Users \cup {Nobody}, Resolve(r, i, p, t, u)
  PROVE  TypeOK'
<1> DEFINE q == [pc |-> "deliver", at |-> i, call |-> p, tenant |-> t, user |-> u]
<1>1. Lookup(i, q) \in {"not_found", "tenant", "user", "found"}
  BY LookupType
<1>2. PICK next \in {"deliver", "publish", "done"} :
        /\ req' = [req EXCEPT ![r] = [q EXCEPT !.pc = next]]
        /\ \/ next = "done" /\ Answer(r, Lookup(i, q)) /\ Lookup(i, q) # "found"
           \/ UNCHANGED told
  <2> HIDE DEF q
  <2> QED
    BY <1>1 DEF Resolve, q
<1>3. req' \in [Requests -> Req]
  BY <1>2 DEF TypeOK, Req
<1>4. told' \in [Requests -> Answers \cup {Nobody}]
  BY <1>1, <1>2 DEF TypeOK, Answer, Answers
<1>5. UNCHANGED <<callVars, busVars, faults>>
  BY DEF Resolve
<1> QED
  BY <1>3, <1>4, <1>5 DEF TypeOK, callVars, busVars

LEMMA ReplyType ==
  ASSUME TypeOK, NEW r \in Requests, NEW s \in Answers, Reply(r, s)
  PROVE  acks' \in [Requests -> SUBSET Ack] /\ faults' \in Nat
  BY DEF TypeOK, Reply, Ack, Fault

\* What a subscriber, a lost message and a crash do to the types.
LEMMA InstanceType ==
  ASSUME TypeOK, NEW i \in Instances, SubStep(i) \/ LoseMessage(i) \/ Crash(i)
  PROVE  TypeOK'
<1>1. CASE SubDeliver(i)
  <2>1. sub[i] \in Requests
    BY <1>1 DEF TypeOK, SubDeliver
  <2>2. acks' \in [Requests -> SUBSET Ack] /\ faults' \in Nat
    BY <1>1, <2>1, ReplyType DEF SubDeliver, Answers
  <2> QED
    BY <1>1, <2>1, <2>2 DEF TypeOK, SubDeliver, Deliver, reqVars
<1>2. ASSUME NEW r \in Requests, SubLookup(i, r)
      PROVE  TypeOK'
  <2>1. Lookup(i, req[r]) \in {"not_found", "tenant", "user", "found"}
    BY LookupType
  <2>2. acks' \in [Requests -> SUBSET Ack] /\ faults' \in Nat
    <3>1. CASE Lookup(i, req[r]) \in {"tenant", "user"}
      <4>1. Reply(r, Lookup(i, req[r])) /\ Lookup(i, req[r]) \in Answers
        BY <1>2, <3>1 DEF SubLookup, Answers
      <4> QED
        BY <4>1, ReplyType
    <3> QED
      BY <1>2, <2>1, <3>1 DEF SubLookup, TypeOK
  <2>3. sub' \in [Instances -> Requests \cup {Nobody}]
    BY <1>2, <2>1 DEF SubLookup, TypeOK
  <2>4. inbox' \subseteq inbox /\ UNCHANGED <<callVars, reqVars>>
    BY <1>2 DEF SubLookup
  <2> QED
    BY <2>2, <2>3, <2>4 DEF TypeOK, callVars, reqVars
<1>3. CASE LoseMessage(i)
  BY <1>3 DEF TypeOK, LoseMessage, Fault, callVars, reqVars
<1>4. CASE Crash(i)
  <2>1. call' \in [Calls -> Call]
    BY <1>4, CallPc DEF TypeOK, Crash
  <2>2. req' \in [Requests -> Req]
    BY <1>4, ReqPc DEF TypeOK, Crash
  <2>3. pending' \subseteq pending /\ inbox' \subseteq inbox /\ faults' \in Nat
    BY <1>4 DEF TypeOK, Crash, Fault
  <2> QED
    BY <1>4, <2>1, <2>2, <2>3 DEF TypeOK, Crash
<1> QED
  BY <1>1, <1>2, <1>3, <1>4 DEF SubStep

LEMMA NextType == TypeOK /\ [Next]_vars => TypeOK'
<1> SUFFICES ASSUME TypeOK, [Next]_vars
             PROVE  TypeOK'
  OBVIOUS
<1>1. CASE UNCHANGED vars
  BY <1>1 DEF TypeOK, vars
<1> QED
  BY <1>1, CallType, ReqType, ResolveType, InstanceType DEF Next

-----------------------------------------------------------------------------
(* The invariant holds in every reachable state. *)

LEMMA Names ==
  Nobody \notin Requests /\ Nobody \notin Instances /\ Nobody \notin Clocks
    /\ \A r \in Requests : r \notin Clocks
  BY ApprovalGateAssumption DEF Nobody, Clocks

LEMMA InitInv == Init => GateInv
<1> SUFFICES ASSUME Init
             PROVE  GateInv
  OBVIOUS
<1>1. TypeOK
  BY InitType
<1>2. \A p \in Calls : Decision[p] = Nobody
  BY DEF Init, Decision
<1>3. \A r \in Requests : Unsent(r)
  BY <1>2, Names DEF Init, Unsent, Undecided
<1>4. CallsOK
  BY <1>2 DEF Init, CallsOK, NewCall
<1>5. ReqsOK
  BY <1>3 DEF Init, ReqsOK, NewReq
<1>6. SubsOK /\ DecidedOK /\ AcksOK
  BY <1>2, Names DEF Init, SubsOK, DecidedOK, AcksOK
<1> QED
  BY <1>1, <1>4, <1>5, <1>6 DEF GateInv

\* A registered call keeps its instance, tenant and user.
CallsKept ==
    \A p \in Calls : call[p].pc # "new" =>
        /\ call'[p].pc # "new" /\ call'[p].at = call[p].at
        /\ call'[p].tenant = call[p].tenant /\ call'[p].user = call[p].user

\* A request that was made keeps what it asks.
ReqsKept ==
    \A r \in Requests : req[r].pc # "idle" =>
        /\ req'[r].pc # "idle" /\ req'[r].call = req[r].call
        /\ req'[r].tenant = req[r].tenant /\ req'[r].user = req[r].user

\* No request decides; a clock may.
OnlyClocksDecide ==
    \A p \in Calls :
        \/ Decision'[p] = Decision[p]
        \/ Decision[p] = Nobody /\ Decision'[p] \in Clocks

\* No message and no acknowledgement is sent.
BusShrinks ==
    /\ inbox' \subseteq inbox
    /\ \A i \in Instances : sub'[i] \in {sub[i], Nobody}
    /\ \A q \in Requests : acks'[q] \subseteq acks[q]

LEMMA EntitledKept ==
  ASSUME CallsKept, ReqsKept, NEW r \in Requests, req[r].pc # "idle", Entitled(r)
  PROVE  Entitled(r)'
  BY DEF CallsKept, ReqsKept, Entitled

LEMMA DecidedStays ==
  ASSUME OnlyClocksDecide, NEW p \in Calls, Decision[p] # Nobody
  PROVE  Decision'[p] = Decision[p]
  BY DEF OnlyClocksDecide

LEMMA UndecidedStays ==
  ASSUME OnlyClocksDecide, NEW r \in Requests, Undecided(r)
  PROVE  Undecided(r)'
  BY Names DEF OnlyClocksDecide, Undecided

\* Who is on a subscriber's desk, in an acknowledgement or a decision is not
\* idle.
LEMMA NotIdle ==
  ASSUME GateInv, NEW r \in Requests, ~Unsent(r)
  PROVE  req[r].pc \notin {"idle", "deliver", "publish"} /\ req[r].call \in Calls
  BY DEF GateInv, ReqsOK

LEMMA QuietStep ==
  ASSUME GateInv, TypeOK', CallsKept, ReqsKept, OnlyClocksDecide, BusShrinks
  PROVE  /\ SubsOK' /\ DecidedOK' /\ AcksOK'
         /\ \A r \in Requests : Unsent(r) => Unsent(r)'
<1> USE DEF GateInv
<1>1. ASSUME NEW i \in Instances, NEW r \in Requests, sub'[i] = r
      PROVE  Entitled(r)' /\ Undecided(r)' /\ call'[req'[r].call].at = i /\ Msg(i, r) \notin inbox'
  <2>1. sub[i] = r
    BY <1>1, Names DEF BusShrinks
  <2>2. ~Unsent(r) /\ Entitled(r) /\ Undecided(r)
    BY <2>1 DEF SubsOK, Unsent
  <2>3. req[r].pc # "idle" /\ req[r].call \in Calls
    BY <2>2, NotIdle
  <2>4. Entitled(r)' /\ Undecided(r)'
    BY <2>2, <2>3, EntitledKept, UndecidedStays
  <2>5. call'[req'[r].call].at = i
    BY <2>1, <2>2, <2>3 DEF SubsOK, CallsKept, ReqsKept, Entitled
  <2>6. Msg(i, r) \notin inbox'
    BY <2>1 DEF SubsOK, BusShrinks
  <2> QED
    BY <2>4, <2>5, <2>6
<1>2. ASSUME NEW p \in Calls, NEW r \in Requests, Decision'[p] = r
      PROVE  /\ req'[r].call = p /\ Entitled(r)'
             /\ \A i \in Instances : call'[p].at = i => sub'[i] # r /\ Msg(i, r) \notin inbox'
  <2>1. Decision[p] = r
    BY <1>2, Names DEF OnlyClocksDecide
  <2>2. ~Unsent(r)
    BY <2>1 DEF Unsent, Undecided
  <2>3. req[r].pc # "idle" /\ req[r].call = p /\ Entitled(r)
    BY <2>1, <2>2, NotIdle DEF DecidedOK
  <2>4. Entitled(r)'
    BY <2>3, EntitledKept
  <2>5. req'[r].call = p /\ call'[p].at = call[p].at
    BY <2>3 DEF CallsKept, ReqsKept, Entitled
  <2>6. \A i \in Instances : call[p].at = i => sub'[i] # r /\ Msg(i, r) \notin inbox'
    BY <2>1, Names DEF DecidedOK, BusShrinks
  <2> QED
    BY <2>4, <2>5, <2>6
<1>3. ASSUME NEW q \in Requests, NEW a \in acks'[q]
      PROVE  TrueAck(a)'
  <2>1. a \in acks[q] /\ a.from \in Requests
    BY DEF BusShrinks, TypeOK, Ack
  <2>2. ~Unsent(a.from)
    BY <2>1 DEF Unsent
  <2>3. req'[a.from].call = req[a.from].call /\ req[a.from].call \in Calls
    BY <2>1, <2>2, NotIdle DEF ReqsKept
  <2>4. Decision[req[a.from].call] # Nobody =>
          Decision'[req[a.from].call] = Decision[req[a.from].call]
    BY <2>3, DecidedStays
  <2> QED
    BY <2>1, <2>3, <2>4, Names DEF AcksOK, TrueAck
<1>4. ASSUME NEW r \in Requests, Unsent(r)
      PROVE  Unsent(r)'
  <2>1. Undecided(r)'
    BY <1>4, UndecidedStays DEF Unsent
  <2> QED
    BY <1>4, <2>1, Names DEF Unsent, BusShrinks
<1> QED
  BY <1>1, <1>2, <1>3, <1>4 DEF SubsOK, DecidedOK, AcksOK

-----------------------------------------------------------------------------
(* Delivering, and the steps of a tool call. *)

\* deliver succeeds exactly when the call is undecided, and then decides it.
LEMMA DeliverDecides ==
  ASSUME GateInv, NEW p \in Calls, NEW x \in Requests \cup Clocks, Deliver(p, x), UNCHANGED got
  PROVE  /\ Delivers(p) <=> Decision[p] = Nobody
         /\ Decision' = [Decision EXCEPT ![p] = IF @ = Nobody THEN x ELSE @]
         /\ \A q \in Calls :
               Decision'[q] = IF q = p /\ Decision[p] = Nobody THEN x ELSE Decision[q]
         /\ \A q \in Calls : sealed'[q] <=> q = p \/ sealed[q]
<1>1. sealed[p] <=> Decision[p] # Nobody
  BY DEF GateInv, CallsOK
<1>2. Delivers(p) <=> Decision[p] = Nobody
  BY <1>1 DEF Delivers, Decision
<1>3. ch' = [ch EXCEPT ![p] = IF Decision[p] = Nobody THEN x ELSE @]
  BY <1>2 DEF Deliver, GateInv, TypeOK
<1>4. \A q \in Calls : Decision'[q] = IF q = p /\ Decision[p] = Nobody THEN x ELSE Decision[q]
  BY <1>3 DEF Decision, GateInv, TypeOK
<1>5. Decision' = [Decision EXCEPT ![p] = IF @ = Nobody THEN x ELSE @]
  BY <1>4 DEF Decision
<1>6. \A q \in Calls : sealed'[q] <=> q = p \/ sealed[q]
  BY DEF Deliver, GateInv, TypeOK
<1> QED
  BY <1>2, <1>4, <1>5, <1>6

\* After a delivery CallsOK holds when call and pending did not change.
LEMMA DeliverCallsOK ==
  ASSUME GateInv, NEW p \in Calls, NEW x \in Requests \cup Clocks, Deliver(p, x),
         UNCHANGED <<call, pending, got>>, call[p].pc # "new"
  PROVE  CallsOK'
<1>1. ASSUME NEW q \in Calls
      PROVE  sealed'[q] <=> Decision'[q] # Nobody
  BY DeliverDecides, Names DEF GateInv, CallsOK
<1>2. ASSUME NEW q \in Calls, got[q] # Nobody
      PROVE  ch'[q] = Nobody
  BY <1>2 DEF Deliver, Delivers, GateInv, CallsOK, Decision, TypeOK
<1>3. ASSUME NEW q \in Calls, sealed[q]
      PROVE  sealed'[q]
  BY <1>3 DEF Deliver, GateInv, TypeOK
<1>4. ASSUME NEW q \in Calls, call[q].pc = "new"
      PROVE  Decision'[q] = Nobody
  BY <1>4, DeliverDecides DEF GateInv, CallsOK, Decision
<1> QED
  BY <1>1, <1>2, <1>3, <1>4 DEF GateInv, CallsOK

LEMMA ReqsStay ==
  ASSUME GateInv, TypeOK', CallsKept, OnlyClocksDecide, BusShrinks, UNCHANGED <<req, told>>
  PROVE  ReqsKept /\ ReqsOK'
<1>1. ReqsKept
  BY DEF ReqsKept
<1>2. \A r \in Requests : Unsent(r) => Unsent(r)'
  BY <1>1, QuietStep
<1>3. ASSUME NEW r \in Requests, req[r].pc = "deliver"
      PROVE  Entitled(r)'
  BY <1>1, <1>3, EntitledKept DEF GateInv, ReqsOK
<1> QED
  BY <1>1, <1>2, <1>3 DEF GateInv, ReqsOK, CallsKept

\* Receiving moves the decision from the channel to the caller.
LEMMA TakeKeeps ==
  ASSUME GateInv, NEW p \in Calls, ch[p] # Nobody,
         got' = [got EXCEPT ![p] = ch[p]], ch' = [ch EXCEPT ![p] = Nobody]
  PROVE  Decision' = Decision
<1>1. got[p] = Nobody
  BY DEF GateInv, CallsOK
<1>2. \A q \in Calls : Decision'[q] = Decision[q]
  BY <1>1 DEF GateInv, TypeOK, Decision
<1> QED
  BY <1>2 DEF Decision

LEMMA CallInv ==
  ASSUME GateInv, NEW p \in Calls, Register(p) \/ CallStep(p)
  PROVE  GateInv'
<1>0. TypeOK'
  BY CallType DEF GateInv
<1>1. UNCHANGED <<req, told, inbox, sub, acks>>
  BY DEF CallStep, Register, Emit, Receive, ReceiveLate, Leave, Fire, reqVars, busVars
<1>2. BusShrinks
  BY <1>1 DEF BusShrinks
<1>3. CallsKept /\ OnlyClocksDecide /\ CallsOK'
  <2>1. CASE Register(p)
    <3>1. Decision' = Decision
      BY <2>1 DEF Register, Decision
    <3>2. CallsKept
      BY <2>1 DEF Register, CallsKept, GateInv, TypeOK
    <3>3. CallsOK'
      BY <2>1, <3>1 DEF Register, CallsOK, GateInv, TypeOK
    <3> QED
      BY <3>1, <3>2, <3>3 DEF OnlyClocksDecide
  <2>2. CASE Emit(p)
    <3>1. Decision' = Decision
      BY <2>2 DEF Emit, Decision
    <3>2. PICK s \in {"wait", "fail"} : call[p].pc = "emit" /\ call' = [call EXCEPT ![p].pc = s]
      BY <2>2 DEF Emit, CallAt
    <3>3. CallsKept
      BY <3>2 DEF CallsKept, GateInv, TypeOK, Call
    <3>4. CallsOK'
      BY <2>2, <3>1, <3>2 DEF Emit, CallsOK, GateInv, TypeOK, Call
    <3> QED
      BY <3>1, <3>3, <3>4 DEF OnlyClocksDecide
  <2>3. CASE Receive(p) \/ ReceiveLate(p)
    <3>1. /\ call[p].pc # "new" /\ call' = [call EXCEPT ![p].pc = "leave"]
          /\ ch[p] # Nobody
          /\ got' = [got EXCEPT ![p] = ch[p]] /\ ch' = [ch EXCEPT ![p] = Nobody]
          /\ UNCHANGED <<pending, sealed>>
      BY <2>3 DEF Receive, ReceiveLate, CallAt
    <3>2. Decision' = Decision
      BY <3>1, TakeKeeps
    <3>3. CallsKept
      BY <3>1 DEF CallsKept, GateInv, TypeOK, Call
    <3>4. CallsOK'
      BY <3>1, <3>2 DEF CallsOK, GateInv, TypeOK, Call
    <3> QED
      BY <3>2, <3>3, <3>4 DEF OnlyClocksDecide
  <2>4. CASE Leave(p)
    <3>1. Decision' = Decision
      BY <2>4 DEF Leave, Decision
    <3>2. PICK s \in {"returned", "failed"} :
            /\ call' = [call EXCEPT ![p].pc = s]
            /\ call[p].pc = IF s = "returned" THEN "leave" ELSE "fail"
      BY <2>4 DEF Leave, CallAt
    <3>3. CallsKept
      BY <3>2 DEF CallsKept, GateInv, TypeOK, Call
    <3>4. CallsOK'
      BY <2>4, <3>1, <3>2 DEF Leave, CallsOK, GateInv, TypeOK, Call
    <3> QED
      BY <3>1, <3>3, <3>4 DEF OnlyClocksDecide
  <2>5. ASSUME NEW x \in Clocks, Fire(p, x)
        PROVE  CallsKept /\ OnlyClocksDecide /\ CallsOK'
    <3>1. /\ call[p].pc = "wait" /\ call' = [call EXCEPT ![p].pc = "receive"]
          /\ Deliver(p, x) /\ UNCHANGED <<pending, got>>
      BY <2>5 DEF Fire, CallAt
    <3>2. \A q \in Calls :
            /\ Decision'[q] = IF q = p /\ Decision[p] = Nobody THEN x ELSE Decision[q]
            /\ sealed'[q] <=> q = p \/ sealed[q]
      BY <3>1, DeliverDecides
    <3>3. CallsKept
      BY <3>1 DEF CallsKept, GateInv, TypeOK, Call
    <3>4. OnlyClocksDecide
      BY <3>2 DEF OnlyClocksDecide
    <3>5. \A q \in Calls : sealed'[q] <=> Decision'[q] # Nobody
      BY <3>2, Names DEF CallsOK, GateInv
    <3>6. \A q \in Calls : got[q] # Nobody => q # p /\ ch'[q] = ch[q]
      BY <3>1 DEF Deliver, CallsOK, GateInv, TypeOK
    <3>7. \A q \in Calls : q # p => call'[q] = call[q] /\ Decision'[q] = Decision[q]
      BY <3>1, <3>2 DEF GateInv, TypeOK
    <3>8. call'[p].pc = "receive" /\ sealed'[p]
      BY <3>1, <3>2 DEF GateInv, TypeOK, Call
    <3>9. CallsOK'
      BY <3>1, <3>2, <3>5, <3>6, <3>7, <3>8 DEF CallsOK, GateInv
    <3> QED
      BY <3>3, <3>4, <3>9
  <2> QED
    BY <2>1, <2>2, <2>3, <2>4, <2>5 DEF CallStep
<1>4. ReqsKept /\ ReqsOK'
  BY <1>0, <1>1, <1>2, <1>3, ReqsStay
<1>5. SubsOK' /\ DecidedOK' /\ AcksOK'
  BY <1>0, <1>2, <1>3, <1>4, QuietStep
<1> QED
  BY <1>0, <1>3, <1>4, <1>5 DEF GateInv

-----------------------------------------------------------------------------
(* Steps in which a request may decide its call. *)

\* What stays true when request r, entitled and undecided, delivers to p.
LEMMA DecideStep ==
  ASSUME GateInv, TypeOK', UNCHANGED call, ReqsKept,
         NEW p \in Calls, NEW r \in Requests, req[r].call = p, req[r].pc # "idle",
         Entitled(r), Undecided(r),
         \A q \in Calls :
            Decision'[q] = IF q = p /\ Decision[p] = Nobody THEN r ELSE Decision[q],
         inbox' \subseteq inbox, \A i \in Instances : sub'[i] \in {sub[i], Nobody},
         \A i \in Instances : sub'[i] # r,
         \A i \in Instances : call[p].at = i => Msg(i, r) \notin inbox'
  PROVE  /\ SubsOK' /\ DecidedOK'
         /\ \A q \in Requests : \A a \in acks[q] : TrueAck(a)'
         /\ \A k \in Requests : k # r /\ Unsent(k) => Undecided(k)'
<1> USE DEF GateInv
<1>0. CallsKept
  BY DEF CallsKept
<1>1. ASSUME NEW k \in Requests, k # r, Undecided(k)
      PROVE  Undecided(k)'
  BY <1>1 DEF Undecided
<1>2. ASSUME NEW i \in Instances, NEW k \in Requests, sub'[i] = k
      PROVE  Entitled(k)' /\ Undecided(k)' /\ call'[req'[k].call].at = i /\ Msg(i, k) \notin inbox'
  <2>1. sub[i] = k /\ k # r
    BY <1>2, Names
  <2>2. ~Unsent(k) /\ Entitled(k) /\ Undecided(k)
    BY <2>1 DEF SubsOK, Unsent
  <2>3. req[k].pc # "idle" /\ req[k].call \in Calls
    BY <2>2, NotIdle
  <2>4. Entitled(k)' /\ Undecided(k)'
    BY <1>0, <1>1, <2>1, <2>2, <2>3, EntitledKept
  <2>5. call'[req'[k].call].at = i /\ Msg(i, k) \notin inbox'
    BY <2>1, <2>3 DEF SubsOK, ReqsKept
  <2> QED
    BY <2>4, <2>5
<1>3. ASSUME NEW q \in Calls, NEW k \in Requests, Decision'[q] = k
      PROVE  /\ req'[k].call = q /\ Entitled(k)'
             /\ \A i \in Instances : call'[q].at = i => sub'[i] # k /\ Msg(i, k) \notin inbox'
  <2>1. CASE k = r
    <3>1. q = p
      BY <1>3, <2>1 DEF Undecided
    <3>2. Entitled(r)' /\ req'[r].call = p
      BY <1>0, EntitledKept DEF ReqsKept
    <3> QED
      BY <2>1, <3>1, <3>2
  <2>2. CASE k # r
    <3>1. Decision[q] = k
      BY <1>3, <2>2
    <3>2. ~Unsent(k) /\ Entitled(k) /\ req[k].call = q
      BY <3>1 DEF DecidedOK, Unsent, Undecided
    <3>3. req[k].pc # "idle"
      BY <3>2, NotIdle
    <3>4. Entitled(k)' /\ req'[k].call = q
      BY <1>0, <3>2, <3>3, EntitledKept DEF ReqsKept
    <3>5. \A i \in Instances : call'[q].at = i => sub'[i] # k /\ Msg(i, k) \notin inbox'
      BY <3>1, Names DEF DecidedOK
    <3> QED
      BY <3>4, <3>5
  <2> QED
    BY <2>1, <2>2
<1>4. ASSUME NEW q \in Requests, NEW a \in acks[q]
      PROVE  TrueAck(a)'
  <2>1. a.from \in Requests /\ ~Unsent(a.from) /\ TrueAck(a)
    BY DEF TypeOK, Ack, Unsent, AcksOK
  <2>2. req'[a.from].call = req[a.from].call /\ req[a.from].call \in Calls
    BY <2>1, NotIdle DEF ReqsKept
  <2> QED
    BY <2>1, <2>2, Names DEF TrueAck
<1> QED
  BY <1>1, <1>2, <1>3, <1>4 DEF SubsOK, DecidedOK, Unsent

LEMMA ResolveDeliverInv ==
  ASSUME GateInv, NEW r \in Requests, ResolveDeliver(r)
  PROVE  GateInv'
<1> DEFINE p == req[r].call
<1>0. TypeOK'
  BY ReqType DEF GateInv, ReqStep
<1>1. /\ req[r].pc = "deliver" /\ req' = [req EXCEPT ![r].pc = "done"]
      /\ Deliver(p, r)
      /\ \E a \in Answers : told' = [told EXCEPT ![r] = a]
      /\ UNCHANGED <<call, pending, got, inbox, sub, acks>>
  BY DEF ResolveDeliver, ReqAt, Answer, Answers, busVars
<1>2. Unsent(r) /\ Entitled(r) /\ p \in Calls /\ call[p].pc # "new"
  BY <1>1 DEF GateInv, ReqsOK
<1>3. ReqsKept /\ \A k \in Requests : k # r => req'[k] = req[k] /\ told'[k] = told[k]
  BY <1>1 DEF ReqsKept, GateInv, TypeOK, Req
<1>4. CallsOK'
  BY <1>1, <1>2, DeliverCallsOK
<1>5. /\ SubsOK' /\ DecidedOK' /\ AcksOK'
      /\ \A k \in Requests : k # r /\ Unsent(k) => Undecided(k)'
  <2>1. \A q \in Calls :
          Decision'[q] = IF q = p /\ Decision[p] = Nobody THEN r ELSE Decision[q]
    BY <1>1, <1>2, DeliverDecides
  <2>2. \A i \in Instances : sub[i] # r /\ Msg(i, r) \notin inbox
    BY <1>2 DEF Unsent
  <2>3. Undecided(r) /\ UNCHANGED <<call, inbox, sub, acks>> /\ req[r].pc # "idle"
    BY <1>1, <1>2 DEF Unsent
  <2> HIDE DEF p
  <2>4. /\ SubsOK' /\ DecidedOK'
        /\ \A q \in Requests : \A a \in acks[q] : TrueAck(a)'
        /\ \A k \in Requests : k # r /\ Unsent(k) => Undecided(k)'
    BY <1>0, <1>2, <1>3, <2>1, <2>2, <2>3, DecideStep DEF p
  <2> QED
    BY <2>3, <2>4 DEF AcksOK
<1>6. ReqsOK'
  <2>1. CallsKept
    BY <1>1 DEF CallsKept
  <2>2. req'[r].pc = "done" /\ req'[r].call = p
    BY <1>1 DEF GateInv, TypeOK, Req
  <2>3. \A k \in Requests : k # r /\ Unsent(k) => Unsent(k)'
    BY <1>1, <1>5 DEF Unsent
  <2>4. ASSUME NEW k \in Requests, req[k].pc = "deliver"
        PROVE  Entitled(k)'
    BY <1>3, <2>1, <2>4, EntitledKept DEF GateInv, ReqsOK
  <2> QED
    BY <1>1, <1>2, <1>3, <2>2, <2>3, <2>4 DEF GateInv, ReqsOK
<1> QED
  BY <1>0, <1>4, <1>5, <1>6 DEF GateInv

\* Nothing changes for requests that are not touched when calls do not change.
LEMMA UntouchedReqs ==
  ASSUME GateInv, UNCHANGED <<call, req, told>>,
         \A r \in Requests :
            req[r].pc \in {"idle", "deliver", "publish"} /\ Unsent(r) => Unsent(r)'
  PROVE  ReqsOK'
<1>1. \A r \in Requests : Entitled(r) => Entitled(r)'
  BY DEF Entitled
<1> QED
  BY <1>1 DEF GateInv, ReqsOK

\* The acknowledgements after a reply: the earlier ones and one from r.
LEMMA ReplyAcks ==
  ASSUME NEW r \in Requests, NEW s, Reply(r, s),
         NEW q \in Requests, NEW a \in acks'[q]
  PROVE  a \in acks[q] \/ a = [from |-> r, status |-> s]
  BY DEF Reply

LEMMA SubDeliverInv ==
  ASSUME GateInv, NEW i \in Instances, SubDeliver(i)
  PROVE  GateInv'
<1>0. TypeOK'
  BY InstanceType DEF GateInv, SubStep
<1>1. PICK r \in Requests : sub[i] = r
  BY DEF SubDeliver, GateInv, TypeOK
<1> DEFINE p == req[r].call
           s == IF Delivers(p) THEN "ok" ELSE "already"
<1>2. /\ sub' = [sub EXCEPT ![i] = Nobody]
      /\ Deliver(p, r) /\ Reply(r, s)
      /\ UNCHANGED <<call, pending, got, req, told, inbox>>
  BY <1>1 DEF SubDeliver, reqVars
<1>3. /\ Entitled(r) /\ Undecided(r) /\ call[p].at = i /\ Msg(i, r) \notin inbox
      /\ p \in Calls /\ call[p].pc # "new"
  BY <1>1 DEF GateInv, SubsOK, Entitled
<1>4. req[r].pc \notin {"idle", "deliver", "publish"}
  BY <1>1, NotIdle DEF Unsent
<1>5. CallsOK'
  BY <1>2, <1>3, DeliverCallsOK
<1>6. /\ Delivers(p) <=> Decision[p] = Nobody
      /\ \A q \in Calls :
           Decision'[q] = IF q = p /\ Decision[p] = Nobody THEN r ELSE Decision[q]
  BY <1>2, <1>3, DeliverDecides
<1>7. ReqsKept
  BY <1>2 DEF ReqsKept
<1>8. \A j \in Instances : sub'[j] \in {sub[j], Nobody} /\ sub'[j] # r
  BY <1>1, <1>2, <1>3, Names DEF GateInv, TypeOK, SubsOK
<1>9. /\ SubsOK' /\ DecidedOK'
      /\ \A q \in Requests : \A a \in acks[q] : TrueAck(a)'
      /\ \A k \in Requests : k # r /\ Unsent(k) => Undecided(k)'
  <2> HIDE DEF p
  <2>1. UNCHANGED call /\ inbox' \subseteq inbox
    BY <1>2
  <2>2. \A j \in Instances : call[p].at = j => Msg(j, r) \notin inbox'
    BY <1>2, <1>3
  <2> QED
    BY <1>0, <1>3, <1>4, <1>6, <1>7, <1>8, <2>1, <2>2, DecideStep DEF p
<1>10. AcksOK'
  <2> SUFFICES ASSUME NEW q \in Requests, NEW a \in acks'[q]
               PROVE  TrueAck(a)'
    BY DEF AcksOK
  <2>1. CASE a \in acks[q]
    BY <1>9, <2>1
  <2>2. CASE a = [from |-> r, status |-> s]
    <3>1. Decision'[p] \in {r, Decision[p]} /\ Decision[p] # r
      BY <1>3, <1>6 DEF Undecided
    <3>2. Decision[p] = Nobody => s = "ok" /\ Decision'[p] = r
      BY <1>3, <1>6
    <3>3. Decision[p] # Nobody => s = "already" /\ Decision'[p] = Decision[p]
      BY <1>3, <1>6
    <3> QED
      BY <1>2, <2>2, <3>1, <3>2, <3>3 DEF TrueAck
  <2> QED
    BY <1>2, <2>1, <2>2, ReplyAcks
<1>11. ReqsOK'
  <2>1. ASSUME NEW k \in Requests, req[k].pc \in {"idle", "deliver", "publish"}, Unsent(k)
        PROVE  Unsent(k)'
    <3>1. k # r
      BY <1>4, <2>1
    <3>2. Undecided(k)'
      BY <1>9, <2>1, <3>1
    <3>3. \A j \in Instances : sub'[j] # k /\ Msg(j, k) \notin inbox'
      BY <1>2, <1>8, <2>1, Names DEF Unsent
    <3>4. ASSUME NEW q \in Requests, NEW a \in acks'[q]
          PROVE  a.from # k
      BY <1>2, <2>1, <3>1, <3>4, ReplyAcks DEF Unsent
    <3> QED
      BY <3>2, <3>3, <3>4 DEF Unsent
  <2> QED
    BY <1>2, <2>1, UntouchedReqs
<1> QED
  BY <1>0, <1>5, <1>9, <1>10, <1>11 DEF GateInv

\* Steps that leave the tool calls alone.
LEMMA CallsStay ==
  ASSUME GateInv, UNCHANGED callVars
  PROVE  CallsKept /\ OnlyClocksDecide /\ CallsOK' /\ Decision' = Decision
<1>1. Decision' = Decision
  BY DEF callVars, Decision
<1> QED
  BY <1>1 DEF callVars, CallsKept, OnlyClocksDecide, GateInv, CallsOK

LEMMA SubLookupInv ==
  ASSUME GateInv, NEW i \in Instances, NEW r \in Requests, SubLookup(i, r)
  PROVE  GateInv'
<1> DEFINE p == req[r].call
           found == Lookup(i, req[r])
<1>0. TypeOK'
  BY InstanceType DEF GateInv, SubStep
<1>1. /\ sub[i] = Nobody /\ Msg(i, r) \in inbox /\ inbox' = inbox \ {Msg(i, r)}
      /\ UNCHANGED callVars /\ UNCHANGED <<call, req, told>>
  BY DEF SubLookup, Msg, callVars, reqVars
<1>2. \/ found = "found" /\ sub' = [sub EXCEPT ![i] = r] /\ UNCHANGED acks
      \/ UNCHANGED <<sub, acks>>
      \/ found \in {"tenant", "user"} /\ Reply(r, found) /\ UNCHANGED sub
  BY LookupType DEF SubLookup
<1>3. CallsKept /\ CallsOK' /\ Decision' = Decision /\ ReqsKept
  BY <1>1, CallsStay DEF ReqsKept
<1>4. req[r].pc \notin {"idle", "deliver", "publish"} /\ p \in Calls
  BY <1>1, NotIdle DEF Unsent
<1>5. \A k \in Requests : Entitled(k) => Entitled(k)'
  BY <1>1 DEF Entitled
<1>6. \A k \in Requests : Undecided(k) => Undecided(k)'
  BY <1>3 DEF Undecided
<1>7. \A j \in Instances, k \in Requests : sub'[j] = k /\ sub[j] # k => j = i /\ k = r /\ found = "found"
  BY <1>2 DEF GateInv, TypeOK
<1>8. found = "found" => Entitled(r) /\ Undecided(r) /\ call[p].at = i
  <2> SUFFICES ASSUME found = "found"
               PROVE  Entitled(r) /\ Undecided(r) /\ call[p].at = i
    OBVIOUS
  <2>1. /\ p \in pending /\ call[p].at = i /\ call[p].tenant = req[r].tenant
        /\ call[p].user \in {Nobody, req[r].user}
    BY DEF Lookup, Here
  <2>2. Entitled(r)
    BY <1>4, <2>1 DEF Entitled, GateInv, CallsOK
  <2>3. Undecided(r)
    BY <1>1, <2>1 DEF Undecided, GateInv, DecidedOK
  <2> QED
    BY <2>1, <2>2, <2>3
<1>9. SubsOK'
  <2> SUFFICES ASSUME NEW j \in Instances, NEW k \in Requests, sub'[j] = k
               PROVE  Entitled(k)' /\ Undecided(k)' /\ call'[req'[k].call].at = j /\ Msg(j, k) \notin inbox'
    BY DEF SubsOK
  <2>1. Entitled(k) /\ Undecided(k) /\ call[req[k].call].at = j
    BY <1>7, <1>8 DEF GateInv, SubsOK
  <2>2. Msg(j, k) \notin inbox'
    BY <1>1, <1>7 DEF GateInv, SubsOK
  <2> QED
    BY <1>1, <1>5, <1>6, <2>1, <2>2
<1>10. DecidedOK'
  <2> SUFFICES ASSUME NEW q \in Calls, NEW k \in Requests, Decision'[q] = k
               PROVE  /\ req'[k].call = q /\ Entitled(k)'
                      /\ \A j \in Instances : call'[q].at = j => sub'[j] # k /\ Msg(j, k) \notin inbox'
    BY DEF DecidedOK
  <2>1. Decision[q] = k /\ ~Undecided(k)
    BY <1>3 DEF Undecided
  <2> QED
    BY <1>1, <1>5, <1>7, <1>8, <2>1 DEF GateInv, DecidedOK
<1>11. AcksOK'
  <2> SUFFICES ASSUME NEW q \in Requests, NEW a \in acks'[q]
               PROVE  TrueAck(a)'
    BY DEF AcksOK
  <2>1. CASE a \in acks[q]
    BY <1>1, <1>3, <2>1 DEF GateInv, AcksOK, TrueAck
  <2>2. CASE a \notin acks[q]
    BY <1>2, <2>2, ReplyAcks DEF TrueAck
  <2> QED
    BY <2>1, <2>2
<1>12. ReqsOK'
  <2>1. ASSUME NEW k \in Requests, req[k].pc \in {"idle", "deliver", "publish"}, Unsent(k)
        PROVE  Unsent(k)'
    <3>1. k # r
      BY <1>4, <2>1
    <3>2. \A j \in Instances : sub'[j] # k /\ Msg(j, k) \notin inbox'
      BY <1>1, <1>7, <2>1, <3>1 DEF Unsent
    <3>3. ASSUME NEW q \in Requests, NEW a \in acks'[q]
          PROVE  a.from # k
      BY <1>2, <2>1, <3>1, <3>3, ReplyAcks DEF Unsent
    <3> QED
      BY <1>6, <2>1, <3>2, <3>3 DEF Unsent
  <2> QED
    BY <1>1, <2>1, UntouchedReqs
<1> QED
  BY <1>0, <1>3, <1>9, <1>10, <1>11, <1>12 DEF GateInv

LEMMA PublishInv ==
  ASSUME GateInv, NEW r \in Requests, Publish(r)
  PROVE  GateInv'
<1>0. TypeOK'
  BY ReqType DEF GateInv, ReqStep
<1>1. PICK s \in {"ack", "done"} :
        req[r].pc = "publish" /\ req' = [req EXCEPT ![r].pc = s] /\ (s = "ack" => UNCHANGED told)
  BY DEF Publish, ReqAt
<1>2. /\ UNCHANGED callVars /\ UNCHANGED <<call, sub, acks>>
      /\ \A i \in Instances, k \in Requests : k # r => (Msg(i, k) \in inbox' <=> Msg(i, k) \in inbox)
  BY DEF Publish, callVars, Msg
<1>3. \A k \in Requests : k # r => req'[k] = req[k] /\ told'[k] = told[k]
  BY <1>1 DEF Publish, Answer, GateInv, TypeOK
<1>4. Unsent(r) /\ req'[r].pc = s /\ req'[r].call = req[r].call
  BY <1>1 DEF GateInv, ReqsOK, TypeOK, Req
<1>5. CallsKept /\ CallsOK' /\ Decision' = Decision /\ ReqsKept
  BY <1>2, <1>3, <1>1, CallsStay DEF ReqsKept, GateInv, TypeOK, Req
<1>6. \A k \in Requests : k # r /\ Entitled(k) => Entitled(k)'
  BY <1>2, <1>3 DEF Entitled
<1>7. \A k \in Requests : Undecided(k) => Undecided(k)'
  BY <1>5 DEF Undecided
<1>8. SubsOK'
  BY <1>2, <1>3, <1>4, <1>6, <1>7 DEF GateInv, SubsOK, Unsent
<1>9. DecidedOK'
  BY <1>2, <1>3, <1>4, <1>5, <1>6 DEF GateInv, DecidedOK, Unsent, Undecided
<1>10. AcksOK'
  BY <1>2, <1>3, <1>4, <1>5 DEF GateInv, AcksOK, TrueAck, TypeOK, Ack
<1>11. \A k \in Requests : k # r /\ Unsent(k) => Unsent(k)'
  BY <1>2, <1>7 DEF Unsent
<1>12. ReqsOK'
  BY <1>1, <1>2, <1>3, <1>4, <1>6, <1>11 DEF GateInv, ReqsOK
<1> QED
  BY <1>0, <1>5, <1>8, <1>9, <1>10, <1>12 DEF GateInv

\* A request is answered, or dies.
LEMMA EndedReqs ==
  ASSUME GateInv, TypeOK', CallsKept, OnlyClocksDecide, BusShrinks, NEW D \in SUBSET Requests,
         \A r \in D : req[r].pc # "idle",
         req' = [r \in Requests |-> IF r \in D THEN [req[r] EXCEPT !.pc = "done"] ELSE req[r]],
         \A r \in Requests \ D : told'[r] = told[r]
  PROVE  SubsOK' /\ DecidedOK' /\ AcksOK' /\ ReqsOK'
<1>1. ASSUME NEW r \in Requests
      PROVE  /\ r \in D => req'[r].pc = "done"
             /\ r \notin D => req'[r] = req[r]
             /\ req'[r].call = req[r].call /\ req'[r].tenant = req[r].tenant
             /\ req'[r].user = req[r].user
  BY DEF GateInv, TypeOK, Req
<1>2. ReqsKept
  BY <1>1 DEF ReqsKept
<1>3. /\ SubsOK' /\ DecidedOK' /\ AcksOK'
      /\ \A r \in Requests : Unsent(r) => Unsent(r)'
  BY <1>2, QuietStep
<1>4. \A r \in Requests : req[r].pc = "deliver" => Entitled(r)'
  BY <1>2, EntitledKept DEF GateInv, ReqsOK
<1>5. ReqsOK'
  BY <1>1, <1>3, <1>4 DEF GateInv, ReqsOK, CallsKept
<1> QED
  BY <1>3, <1>5

LEMMA AnsweredInv ==
  ASSUME GateInv, NEW r \in Requests, ReadAck(r) \/ AckTimeout(r)
  PROVE  GateInv'
<1>0. TypeOK'
  BY ReqType DEF GateInv, ReqStep
<1>1. /\ UNCHANGED callVars /\ BusShrinks
      /\ req[r].pc = "ack" /\ req' = [req EXCEPT ![r].pc = "done"]
      /\ \A k \in Requests \ {r} : told'[k] = told[k]
  BY DEF ReadAck, AckTimeout, ReqAt, Answer, busVars, BusShrinks, GateInv, TypeOK
<1>2. req' = [k \in Requests |-> IF k \in {r} THEN [req[k] EXCEPT !.pc = "done"] ELSE req[k]]
  BY <1>1 DEF GateInv, TypeOK
<1>3. CallsKept /\ OnlyClocksDecide /\ CallsOK'
  BY <1>1, CallsStay
<1>4. SubsOK' /\ DecidedOK' /\ AcksOK' /\ ReqsOK'
  BY <1>0, <1>1, <1>2, <1>3, EndedReqs
<1> QED
  BY <1>0, <1>3, <1>4 DEF GateInv

LEMMA LoseInv ==
  ASSUME GateInv, NEW i \in Instances, LoseMessage(i)
  PROVE  GateInv'
<1>0. TypeOK'
  BY InstanceType DEF GateInv
<1>1. UNCHANGED callVars /\ BusShrinks /\ UNCHANGED <<req, told>>
  BY DEF LoseMessage, reqVars, BusShrinks
<1>2. CallsKept /\ OnlyClocksDecide /\ CallsOK'
  BY <1>1, CallsStay
<1>3. ReqsKept /\ ReqsOK'
  BY <1>0, <1>1, <1>2, ReqsStay
<1> QED
  BY <1>0, <1>1, <1>2, <1>3, QuietStep DEF GateInv

LEMMA CrashInv ==
  ASSUME GateInv, NEW i \in Instances, Crash(i)
  PROVE  GateInv'
<1>0. TypeOK'
  BY InstanceType DEF GateInv
<1>1. Decision' = Decision /\ OnlyClocksDecide
  BY DEF Crash, Decision, OnlyClocksDecide
<1>2. \A p \in Calls :
        /\ call'[p].pc \in {call[p].pc, "crashed"} /\ call'[p].at = call[p].at
        /\ call'[p].tenant = call[p].tenant /\ call'[p].user = call[p].user
        /\ call[p].at # i => call'[p] = call[p]
        /\ call[p].pc = "new" => call[p].at # i
  BY Names DEF Crash, GateInv, CallsOK, TypeOK, Call
<1>3. CallsKept
  BY <1>2 DEF CallsKept
<1>4. CallsOK'
  BY <1>1, <1>2 DEF Crash, GateInv, CallsOK, TypeOK, Call
<1>5. BusShrinks
  BY DEF Crash, BusShrinks, GateInv, TypeOK
<1> DEFINE D == {r \in Requests : req[r].at = i}
<1>6. /\ \A r \in D : req[r].pc # "idle"
      /\ req' = [r \in Requests |-> IF r \in D THEN [req[r] EXCEPT !.pc = "done"] ELSE req[r]]
      /\ \A r \in Requests \ D : told'[r] = told[r]
  BY Names DEF Crash, GateInv, ReqsOK
<1>7. SubsOK' /\ DecidedOK' /\ AcksOK' /\ ReqsOK'
  <2> HIDE DEF D
  <2>1. D \in SUBSET Requests
    BY DEF D
  <2> QED
    BY <1>0, <1>1, <1>3, <1>5, <1>6, <2>1, EndedReqs
<1> QED
  BY <1>0, <1>4, <1>7 DEF GateInv

LEMMA ResolveInv ==
  ASSUME GateInv, NEW r \in Requests, NEW i \in Instances, NEW p \in Calls,
         NEW t \in Tenants, NEW u \in Users \cup {Nobody}, Resolve(r, i, p, t, u)
  PROVE  GateInv'
<1> DEFINE q == [pc |-> "deliver", at |-> i, call |-> p, tenant |-> t, user |-> u]
<1>0. TypeOK'
  BY ResolveType DEF GateInv
<1>1. req[r].pc = "idle" /\ call[p].pc # "new" /\ UNCHANGED callVars /\ UNCHANGED <<inbox, sub, acks>>
  BY DEF Resolve, busVars
<1>2. PICK next \in {"deliver", "publish", "done"} :
        /\ req' = [req EXCEPT ![r] = [q EXCEPT !.pc = next]]
        /\ next = "deliver" => Lookup(i, q) = "found"
        /\ next # "done" => UNCHANGED told
        /\ \A k \in Requests : k # r => told'[k] = told[k]
  <2>1. Lookup(i, q) \in {"not_found", "tenant", "user", "found"}
    BY LookupType
  <2> HIDE DEF q
  <2> QED
    BY <2>1 DEF Resolve, q, Answer, GateInv, TypeOK
<1>3. /\ req'[r].pc = next /\ req'[r].call = p /\ req'[r].tenant = t /\ req'[r].user = u
      /\ \A k \in Requests : k # r => req'[k] = req[k]
  BY <1>2 DEF GateInv, TypeOK
<1>4. CallsKept /\ OnlyClocksDecide /\ CallsOK' /\ ReqsKept /\ BusShrinks
  BY <1>1, <1>3, CallsStay DEF ReqsKept, BusShrinks
<1>5. /\ SubsOK' /\ DecidedOK' /\ AcksOK'
      /\ \A k \in Requests : Unsent(k) => Unsent(k)'
  BY <1>0, <1>4, QuietStep
<1>6. next = "deliver" => Entitled(r)'
  BY <1>1, <1>2, <1>3 DEF Lookup, Entitled, callVars
<1>7. ReqsOK'
  <2>1. ASSUME NEW k \in Requests, k # r, req[k].pc = "deliver"
        PROVE  Entitled(k)'
    BY <1>4, <2>1, EntitledKept DEF GateInv, ReqsOK
  <2>2. told[r] = Nobody /\ Unsent(r)
    BY <1>1 DEF GateInv, ReqsOK
  <2> QED
    BY <1>1, <1>2, <1>3, <1>5, <1>6, <2>1, <2>2 DEF GateInv, ReqsOK, callVars
<1> QED
  BY <1>0, <1>4, <1>5, <1>7 DEF GateInv

LEMMA NextInv == GateInv /\ [Next]_vars => GateInv'
<1> SUFFICES ASSUME GateInv, [Next]_vars
             PROVE  GateInv'
  OBVIOUS
<1>1. CASE UNCHANGED vars
  <2>1. TypeOK' /\ BusShrinks /\ UNCHANGED callVars /\ UNCHANGED <<req, told>>
    BY <1>1 DEF vars, GateInv, TypeOK, BusShrinks, callVars
  <2>2. CallsKept /\ OnlyClocksDecide /\ CallsOK'
    BY <2>1, CallsStay
  <2>3. ReqsKept /\ ReqsOK'
    BY <2>1, <2>2, ReqsStay
  <2> QED
    BY <2>1, <2>2, <2>3, QuietStep DEF GateInv
<1>2. ASSUME NEW r \in Requests, ReqStep(r)
      PROVE  GateInv'
  BY <1>2, ResolveDeliverInv, PublishInv, AnsweredInv DEF ReqStep
<1>3. ASSUME NEW i \in Instances, SubStep(i) \/ LoseMessage(i) \/ Crash(i)
      PROVE  GateInv'
  BY <1>3, SubDeliverInv, SubLookupInv, LoseInv, CrashInv DEF SubStep
<1> QED
  BY <1>1, <1>2, <1>3, CallInv, ResolveInv DEF Next

LEMMA Invariance == Spec => []GateInv
  BY InitInv, NextInv, PTL DEF Spec

\* The state always has the shape of the type invariant.
THEOREM TypeCorrect == Spec => []TypeOK
<1>1. GateInv => TypeOK
  BY DEF GateInv
<1> QED
  BY <1>1, Invariance, PTL

\* Whatever instance a decision is delivered on, it comes from a request that
\* the tenant and the user of the waiter allow (gate.go, deliverLocal).
THEOREM AlwaysAuthorized == Spec => []Authorized
<1>1. GateInv => Authorized
  <2> SUFFICES ASSUME GateInv, NEW p \in Calls, NEW r \in Requests, Decision[p] = r
               PROVE  /\ req[r].call = p /\ req[r].tenant = call[p].tenant
                      /\ call[p].user \in {Nobody, req[r].user}
    BY DEF Authorized
  <2>1. req[r].call = p /\ Entitled(r)
    BY DEF GateInv, DecidedOK
  <2> QED
    BY <2>1 DEF Entitled
<1> QED
  BY <1>1, Invariance, PTL

\* A waiter whose timer fired or whose context ended always finds a decision
\* in its channel, its own or the one that was faster.
THEOREM NeverBlocked == Spec => []NeverStuck
<1>1. GateInv => NeverStuck
  <2> SUFFICES ASSUME GateInv, NEW p \in Calls, call[p].pc = "receive"
               PROVE  ch[p] # Nobody
    BY DEF NeverStuck
  <2>1. sealed[p] /\ got[p] = Nobody
    BY DEF GateInv, CallsOK
  <2>2. Decision[p] # Nobody
    BY <2>1 DEF GateInv, CallsOK
  <2> QED
    BY <2>1, <2>2 DEF Decision
<1> QED
  BY <1>1, Invariance, PTL

-----------------------------------------------------------------------------
(* The gate implements OneDecision. *)

LEMMA InitOne == Init => One!OneInit
<1> SUFFICES ASSUME Init
             PROVE  One!OneInit
  OBVIOUS
<1>1. Decision = [p \in Calls |-> Nobody]
  BY DEF Init, Decision
<1>2. Outcome = [p \in Calls |-> Nobody]
  BY DEF Init, Outcome, NewCall
<1> QED
  BY <1>1, <1>2 DEF Init, One!OneInit, One!Nobody, Nobody

\* A step of a tool call decides it, returns, or shows nothing.
LEMMA CallOne ==
  ASSUME GateInv, NEW p \in Calls, Register(p) \/ CallStep(p)
  PROVE  One!OneNext \/ UNCHANGED One!oneVars
<1>1. UNCHANGED told
  BY DEF CallStep, Register, Emit, Receive, ReceiveLate, Leave, Fire, reqVars
<1>2. CASE Register(p) \/ Emit(p)
  <2>1. \A q \in Calls : call'[q].pc = call[q].pc \/ {call'[q].pc, call[q].pc} \cap {"returned", "failed"} = {}
    BY <1>2 DEF Register, Emit, CallAt, GateInv, TypeOK, Call
  <2>2. UNCHANGED <<ch, got>>
    BY <1>2 DEF Register, Emit
  <2>3. Outcome' = Outcome
    BY <2>1, <2>2 DEF Outcome
  <2> QED
    BY <1>1, <2>2, <2>3 DEF One!oneVars, Decision
<1>3. CASE Receive(p) \/ ReceiveLate(p)
  <2>1. /\ call[p].pc \in {"wait", "receive"} /\ call' = [call EXCEPT ![p].pc = "leave"]
        /\ ch[p] # Nobody
        /\ got' = [got EXCEPT ![p] = ch[p]] /\ ch' = [ch EXCEPT ![p] = Nobody]
    BY <1>3 DEF Receive, ReceiveLate, CallAt
  <2>2. Decision' = Decision
    BY <2>1, TakeKeeps
  <2>3. Outcome' = Outcome
    BY <2>1 DEF Outcome, GateInv, TypeOK, Call
  <2> QED
    BY <1>1, <2>2, <2>3 DEF One!oneVars
<1>4. CASE Leave(p)
  <2>1. UNCHANGED <<ch, got>> /\ Decision' = Decision
    BY <1>4 DEF Leave, Decision
  <2>2. \/ call[p].pc = "leave" /\ call' = [call EXCEPT ![p].pc = "returned"]
        \/ call[p].pc = "fail" /\ call' = [call EXCEPT ![p].pc = "failed"]
    BY <1>4 DEF Leave, CallAt
  <2>3. call[p].pc = "leave" => got[p] # Nobody
    BY DEF GateInv, CallsOK
  <2>4. Outcome[p] = Nobody
    BY <2>2 DEF Outcome
  <2>5. \/ call[p].pc = "leave" /\ Decision[p] = got[p] /\ Outcome' = [Outcome EXCEPT ![p] = got[p]]
        \/ Outcome' = [Outcome EXCEPT ![p] = "error"]
    <3>1. \A q \in Calls : q # p => call'[q] = call[q] /\ got'[q] = got[q]
      BY <2>1, <2>2 DEF GateInv, TypeOK
    <3>2. \A q \in Calls : q # p => Outcome'[q] = Outcome[q]
      BY <3>1 DEF Outcome
    <3>3. CASE call[p].pc = "leave"
      <4>1. call'[p].pc = "returned"
        BY <2>2, <3>3 DEF GateInv, TypeOK, Call
      <4>2. Outcome'[p] = got[p] /\ Decision[p] = got[p]
        BY <2>1, <2>3, <3>3, <4>1 DEF Outcome, Decision
      <4> QED
        BY <3>2, <3>3, <4>2 DEF Outcome
    <3>4. CASE call[p].pc = "fail"
      <4>1. call'[p].pc = "failed"
        BY <2>2, <3>4 DEF GateInv, TypeOK, Call
      <4>2. Outcome'[p] = "error"
        BY <4>1 DEF Outcome
      <4> QED
        BY <3>2, <4>2 DEF Outcome
    <3> QED
      BY <2>2, <3>3, <3>4
  <2>6. One!Return(p)
    BY <1>1, <2>1, <2>3, <2>4, <2>5 DEF One!Return, One!Nobody, Nobody
  <2> QED
    BY <2>6 DEF One!OneNext
<1>5. ASSUME NEW x \in Clocks, Fire(p, x)
      PROVE  One!OneNext \/ UNCHANGED One!oneVars
  <2>1. Deliver(p, x) /\ UNCHANGED got /\ call[p].pc = "wait" /\ call' = [call EXCEPT ![p].pc = "receive"]
    BY <1>5 DEF Fire, CallAt
  <2>2. Decision' = [Decision EXCEPT ![p] = IF @ = Nobody THEN x ELSE @]
    BY <2>1, DeliverDecides
  <2>3. Outcome' = Outcome
    BY <2>1 DEF Outcome, GateInv, TypeOK, Call
  <2>4. CASE Decision[p] = Nobody
    <3>1. One!Decide(p, x)
      BY <1>1, <2>2, <2>3, <2>4 DEF One!Decide, One!Nobody, Nobody
    <3> QED
      BY <3>1 DEF One!OneNext, One!Clocks, Clocks
  <2>5. CASE Decision[p] # Nobody
    <3>1. Decision' = Decision
      BY <2>2, <2>5 DEF Decision
    <3> QED
      BY <1>1, <2>3, <3>1 DEF One!oneVars
  <2> QED
    BY <2>4, <2>5
<1> QED
  BY <1>2, <1>3, <1>4, <1>5 DEF CallStep

\* A delivery by a request, which may answer it ok.
LEMMA DeliverOne ==
  ASSUME GateInv, NEW p \in Calls, NEW r \in Requests, Deliver(p, r), UNCHANGED <<call, got>>,
         Decision[p] = Nobody, told[r] = Nobody \/ UNCHANGED told,
         told' = [told EXCEPT ![r] = "ok"] \/ UNCHANGED told
  PROVE  One!OneNext
<1>1. Decision' = [Decision EXCEPT ![p] = r]
  BY DeliverDecides
<1>2. Outcome' = Outcome
  BY DEF Outcome
<1>3. One!Decide(p, r)
  BY <1>1, <1>2 DEF One!Decide, One!Nobody, Nobody
<1> QED
  BY <1>3 DEF One!OneNext

\* An answer that says nothing about the decision, or the truth.
LEMMA TellOne ==
  ASSUME NEW p \in Calls, NEW r \in Requests, NEW a \in Answers, told[r] = Nobody,
         a = "ok" => Decision[p] = r, a = "already" => Decision[p] \notin {Nobody, r},
         told' = [told EXCEPT ![r] = a], Decision' = Decision, Outcome' = Outcome
  PROVE  One!OneNext
<1>1. One!Tell(r, p, a)
  BY DEF One!Tell, One!Nobody, Nobody
<1> QED
  BY <1>1 DEF One!OneNext, One!Answers, Answers

LEMMA Shows ==
  ASSUME UNCHANGED <<call, ch, got>>
  PROVE  Decision' = Decision /\ Outcome' = Outcome
  BY DEF Decision, Outcome

LEMMA ReqOne ==
  ASSUME GateInv, NEW r \in Requests, ReqStep(r)
  PROVE  One!OneNext \/ UNCHANGED One!oneVars
<1> DEFINE p == req[r].call
<1>0. told[r] = Nobody /\ p \in Calls
  BY DEF ReqStep, ResolveDeliver, Publish, ReadAck, AckTimeout, ReqAt, GateInv, ReqsOK
<1>1. CASE ResolveDeliver(r)
  <2>1. /\ req[r].pc = "deliver" /\ Deliver(p, r) /\ UNCHANGED <<call, got>>
        /\ told' = [told EXCEPT ![r] = IF Delivers(p) THEN "ok" ELSE "already"]
    BY <1>1 DEF ResolveDeliver, ReqAt, Answer
  <2>2. Decision[p] # r
    BY <1>0, <2>1 DEF GateInv, ReqsOK, Unsent, Undecided
  <2>3. /\ Delivers(p) <=> Decision[p] = Nobody
        /\ Decision' = [Decision EXCEPT ![p] = IF @ = Nobody THEN r ELSE @]
    BY <1>0, <2>1, DeliverDecides
  <2>4. CASE Decision[p] = Nobody
    BY <1>0, <2>1, <2>3, <2>4, DeliverOne
  <2>5. CASE Decision[p] # Nobody
    <3>1. Decision' = Decision /\ Outcome' = Outcome
      BY <2>1, <2>3, <2>5 DEF Decision, Outcome
    <3>2. told' = [told EXCEPT ![r] = "already"] /\ "already" \in Answers
      BY <2>1, <2>3, <2>5 DEF Answers
    <3> QED
      BY <1>0, <2>2, <2>5, <3>1, <3>2, TellOne
  <2> QED
    BY <2>4, <2>5
<1>2. CASE Publish(r)
  <2>1. Decision' = Decision /\ Outcome' = Outcome
    BY <1>2, Shows DEF Publish, callVars
  <2>2. UNCHANGED told \/ told' = [told EXCEPT ![r] = "error"]
    BY <1>2 DEF Publish, Answer
  <2>3. "error" \in Answers
    BY DEF Answers
  <2> QED
    BY <1>0, <2>1, <2>2, <2>3, TellOne DEF One!oneVars
<1>3. CASE ReadAck(r)
  <2>1. PICK a \in acks[r] : a.from = r /\ told' = [told EXCEPT ![r] = a.status]
    BY <1>3 DEF ReadAck, ForMe, Answer
  <2>2. a.status \in Answers
    BY <2>1 DEF GateInv, TypeOK, Ack
  <2>3. TrueAck(a)
    BY <2>1 DEF GateInv, AcksOK
  <2>4. Decision' = Decision /\ Outcome' = Outcome
    BY <1>3, Shows DEF ReadAck, callVars
  <2> QED
    BY <1>0, <2>1, <2>2, <2>3, <2>4, TellOne DEF TrueAck
<1>4. CASE AckTimeout(r)
  <2>1. Decision' = Decision /\ Outcome' = Outcome
    BY <1>4, Shows DEF AckTimeout, callVars
  <2>2. told' = [told EXCEPT ![r] = "not_found"] /\ "not_found" \in Answers
    BY <1>4 DEF AckTimeout, Answer, Answers
  <2> QED
    BY <1>0, <2>1, <2>2, TellOne
<1> QED
  BY <1>1, <1>2, <1>3, <1>4 DEF ReqStep

LEMMA ResolveOne ==
  ASSUME GateInv, NEW r \in Requests, NEW i \in Instances, NEW p \in Calls,
         NEW t \in Tenants, NEW u \in Users \cup {Nobody}, Resolve(r, i, p, t, u)
  PROVE  One!OneNext \/ UNCHANGED One!oneVars
<1> DEFINE q == [pc |-> "deliver", at |-> i, call |-> p, tenant |-> t, user |-> u]
<1>1. Lookup(i, q) \in {"not_found", "tenant", "user", "found"}
  BY LookupType
<1>2. \/ UNCHANGED told
      \/ told' = [told EXCEPT ![r] = Lookup(i, q)] /\ Lookup(i, q) # "found"
  <2> HIDE DEF q
  <2> QED
    BY <1>1 DEF Resolve, q, Answer
<1>3. told[r] = Nobody
  BY DEF Resolve, GateInv, ReqsOK
<1>4. Decision' = Decision /\ Outcome' = Outcome
  BY Shows DEF Resolve, callVars
<1>5. CASE UNCHANGED told
  BY <1>4, <1>5 DEF One!oneVars
<1>6. CASE told' = [told EXCEPT ![r] = Lookup(i, q)] /\ Lookup(i, q) # "found"
  <2>1. Lookup(i, q) \in Answers \ {"ok", "already"}
    BY <1>1, <1>6 DEF Answers
  <2> HIDE DEF q
  <2> QED
    BY <1>3, <1>4, <1>6, <2>1, TellOne
<1> QED
  BY <1>2, <1>5, <1>6

LEMMA InstanceOne ==
  ASSUME GateInv, NEW i \in Instances, SubStep(i) \/ LoseMessage(i) \/ Crash(i)
  PROVE  One!OneNext \/ UNCHANGED One!oneVars
<1>1. CASE SubDeliver(i)
  <2>1. PICK r \in Requests : sub[i] = r
    BY <1>1 DEF SubDeliver, GateInv, TypeOK
  <2> DEFINE p == req[r].call
  <2>2. Deliver(p, r) /\ UNCHANGED <<call, got, told>> /\ p \in Calls
    BY <1>1, <2>1 DEF SubDeliver, reqVars, GateInv, SubsOK, Entitled
  <2>3. Decision' = [Decision EXCEPT ![p] = IF @ = Nobody THEN r ELSE @]
    BY <2>2, DeliverDecides
  <2>4. CASE Decision[p] = Nobody
    BY <2>2, <2>4, DeliverOne
  <2>5. CASE Decision[p] # Nobody
    BY <2>2, <2>3, <2>5 DEF Decision, Outcome, One!oneVars
  <2> QED
    BY <2>4, <2>5
<1>2. ASSUME NEW r \in Requests, SubLookup(i, r)
      PROVE  UNCHANGED One!oneVars
  BY <1>2, Shows DEF SubLookup, callVars, reqVars, One!oneVars
<1>3. CASE LoseMessage(i)
  BY <1>3, Shows DEF LoseMessage, callVars, reqVars, One!oneVars
<1>4. CASE Crash(i)
  <2>1. \A p \in Calls :
          call'[p].pc = call[p].pc \/ {call'[p].pc, call[p].pc} \cap {"returned", "failed"} = {}
    BY <1>4 DEF Crash, GateInv, TypeOK, Call
  <2>2. UNCHANGED <<ch, got, told>>
    BY <1>4 DEF Crash
  <2>3. Outcome' = Outcome
    BY <2>1, <2>2 DEF Outcome
  <2> QED
    BY <2>2, <2>3 DEF Decision, One!oneVars
<1> QED
  BY <1>1, <1>2, <1>3, <1>4 DEF SubStep

LEMMA NextOne == GateInv /\ [Next]_vars => [One!OneNext]_(One!oneVars)
<1> SUFFICES ASSUME GateInv, [Next]_vars
             PROVE  One!OneNext \/ UNCHANGED One!oneVars
  OBVIOUS
<1>1. CASE UNCHANGED vars
  BY <1>1, Shows DEF vars, One!oneVars
<1> QED
  BY <1>1, CallOne, ReqOne, ResolveOne, InstanceOne DEF Next

\* The gate keeps the promise of OneDecision, for any number of calls,
\* requests and instances: every call is decided once and returns that
\* decision, and ok and already resolved are told truthfully.
THEOREM ImplementsOneDecision == Spec => KeepsOneDecision
<1>1. Init /\ []GateInv /\ [][Next]_vars => One!OneSpec
  BY InitOne, NextOne, PTL DEF One!OneSpec
<1> QED
  BY <1>1, Invariance, PTL DEF Spec, KeepsOneDecision
=============================================================================
