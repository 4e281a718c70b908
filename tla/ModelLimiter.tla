---------------------------- MODULE ModelLimiter ----------------------------
(***************************************************************************)
(* The limit on concurrent calls of one model, across processes: a sorted  *)
(* set in Redis whose members are the tokens of the calls in a slot, each  *)
(* scored by the end of its lease.  A call acquires with a script that     *)
(* prunes what has expired by the caller's clock and admits it while there *)
(* is room; while it runs a goroutine refreshes the lease.                 *)
(*                                                                         *)
(* Times are relative to now, so that all of them shrink as time passes: a *)
(* lease is what remains of it, a stamp is how far the reading of some     *)
(* clock is ahead of now or, once it is old, behind.  The clock of a       *)
(* process is at most Skew ahead of the slowest one, and a script or a     *)
(* refresh is over within Lag of the moment it was due.  No call comes     *)
(* twice, which bounds crashes and errors.                                 *)
(***************************************************************************)
EXTENDS Integers, FiniteSets

CONSTANTS
    Calls,     \* calls of the model, each with a token of its own
    Limit,     \* the model's limit
    Ttl,       \* defaultLeaseTTL
    Beat,      \* the period of the refresh, ttl / 3
    Lag, Skew

\* The lease outlasts a refresh that fails and one that is late.
ASSUME ModelLimiterAssumption ==
    /\ IsFiniteSet(Calls)
    /\ Limit \in Nat \ {0} /\ Ttl \in Nat /\ Beat \in Nat
    /\ Lag \in Nat /\ Skew \in Nat
    /\ Lag < Beat /\ 2 * Beat + 2 * Lag + Skew < Ttl

VARIABLES
    call,      \* where each call is
    skew,      \* how far the clock of its process is ahead
    sent,      \* the stamp of the script it has sent
    lease,     \* what is left of the lease of its token, Absent without one
    expiry,    \* what is left of the key, 0 when it does not exist
    beat,      \* its refresh: off, wait, write, or last, told to stop while it writes
    due,       \* when the ticker fires next, or fired for the refresh under way
    stamp,     \* the stamp of the refresh under way
    failed     \* whether the last refresh ended with an error

vars == <<call, skew, sent, lease, expiry, beat, due, stamp, failed>>

Absent == -Lag - 1

(***************************************************************************)
(* idle, then asking (the script is under way) and polling (it said no)    *)
(* until it is granted a slot, and holding once it learns that; open is a  *)
(* call without a slot, since Redis failed or its context was cancelled;   *)
(* over: it has ended, or its process died.                                *)
(***************************************************************************)
Pcs == {"idle", "asking", "polling", "granted", "holding", "open", "over"}

InSlot == {c \in Calls : call[c] \in {"granted", "holding"}}

TypeOK ==
    /\ call \in [Calls -> Pcs]
    /\ skew \in [Calls -> 0..Skew]
    /\ sent \in [Calls -> (-Lag)..Skew]
    /\ lease \in [Calls -> Absent..(Ttl + Skew)]
    /\ expiry \in 0..(2 * Ttl)
    /\ beat \in [Calls -> {"off", "wait", "write", "last"}]
    /\ due \in [Calls -> (-Lag)..Beat]
    /\ stamp \in [Calls -> (-Lag)..Skew]
    /\ failed \in [Calls -> BOOLEAN]

Init ==
    /\ call = [c \in Calls |-> "idle"]
    /\ skew \in [Calls -> 0..Skew]
    /\ sent = [c \in Calls |-> 0]
    /\ lease = [c \in Calls |-> Absent]
    /\ expiry = 0
    /\ beat = [c \in Calls |-> "off"]
    /\ due = [c \in Calls |-> 0]
    /\ stamp = [c \in Calls |-> 0]
    /\ failed = [c \in Calls |-> FALSE]

Goes(c, pc) == call' = [call EXCEPT ![c] = pc]

Forget(c) == sent' = [sent EXCEPT ![c] = 0]

-----------------------------------------------------------------------------
(* Acquire.                                                                *)

\* The caller reads its clock and sends the script, first and after each poll.
Ask(c) ==
    /\ call[c] \in {"idle", "polling"} /\ Goes(c, "asking")
    /\ sent' = [sent EXCEPT ![c] = skew[c]]
    /\ UNCHANGED <<skew, lease, expiry, beat, due, stamp, failed>>

\* Mutant: what has expired is counted until the key goes.
PrunedNothing(at) == lease

\* ZREMRANGEBYSCORE up to the reading at.
Pruned(at) == [c \in Calls |-> IF lease[c] <= at THEN Absent ELSE lease[c]]

\* ZCARD.
HasRoom(at) == Cardinality({c \in Calls : Pruned(at)[c] # Absent}) < Limit

\* The script adds the token and pushes out the key.
Admit(c) ==
    /\ call[c] = "asking" /\ HasRoom(sent[c]) /\ Goes(c, "granted")
    /\ lease' = [Pruned(sent[c]) EXCEPT ![c] = sent[c] + Ttl]
    /\ expiry' = 2 * Ttl
    /\ UNCHANGED <<skew, sent, beat, due, stamp, failed>>

Refuse(c) ==
    /\ call[c] = "asking" /\ ~HasRoom(sent[c]) /\ Goes(c, "polling")
    /\ lease' = Pruned(sent[c])
    /\ Forget(c)
    /\ UNCHANGED <<skew, expiry, beat, due, stamp, failed>>

\* The answer arrives: hold starts the refresh.
Hold(c) ==
    /\ call[c] = "granted" /\ Goes(c, "holding")
    /\ beat' = [beat EXCEPT ![c] = "wait"]
    /\ due' = [due EXCEPT ![c] = Beat]
    /\ Forget(c)
    /\ UNCHANGED <<skew, lease, expiry, stamp, failed>>

\* The script ends with an error, which may have run, or the context is
\* cancelled between two polls: the call goes on without a slot.
FailOpen(c) ==
    /\ call[c] \in {"asking", "granted", "polling"} /\ Goes(c, "open")
    /\ Forget(c)
    /\ UNCHANGED <<skew, lease, expiry, beat, due, stamp, failed>>

-----------------------------------------------------------------------------
(* The refresh goroutine of hold, and release.                             *)

\* The ticker fires, at its time or late, and the clock is read.
Tick(c) ==
    /\ beat[c] = "wait" /\ due[c] <= 0
    /\ beat' = [beat EXCEPT ![c] = "write"]
    /\ stamp' = [stamp EXCEPT ![c] = skew[c]]
    /\ UNCHANGED <<call, skew, sent, lease, expiry, due, failed>>

\* The loop goes on, or ends when it was told to.
Loop(c) ==
    /\ beat' = [beat EXCEPT ![c] = IF @ = "write" THEN "wait" ELSE "off"]
    /\ due' = [due EXCEPT ![c] = IF beat[c] = "write" THEN @ + Beat ELSE 0]
    /\ stamp' = [stamp EXCEPT ![c] = 0]

\* Mutant: the key itself is not refreshed.
RefreshMember(c) ==
    /\ beat[c] \in {"write", "last"}
    /\ lease' = [lease EXCEPT ![c] = stamp[c] + Ttl]
    /\ failed' = [failed EXCEPT ![c] = FALSE]
    /\ Loop(c)
    /\ UNCHANGED <<call, skew, sent, expiry>>

\* ZADD and PEXPIRE, whatever the set holds by now.
Refresh(c) ==
    /\ beat[c] \in {"write", "last"}
    /\ lease' = [lease EXCEPT ![c] = stamp[c] + Ttl]
    /\ expiry' = 2 * Ttl
    /\ failed' = [failed EXCEPT ![c] = FALSE]
    /\ Loop(c)
    /\ UNCHANGED <<call, skew, sent>>

\* Best effort: the error is dropped.  Two in a row are not considered.
RefreshFails(c) ==
    /\ beat[c] \in {"write", "last"} /\ ~failed[c]
    /\ failed' = [failed EXCEPT ![c] = beat[c] = "write"]
    /\ Loop(c)
    /\ UNCHANGED <<call, skew, sent, lease, expiry>>

\* Mutant: the goroutine is not told to stop.
ReleaseBeating(c) ==
    /\ call[c] = "holding" /\ Goes(c, "over")
    /\ lease' = [lease EXCEPT ![c] = Absent]
    /\ UNCHANGED <<skew, sent, expiry, beat, due, stamp, failed>>

\* The goroutine is told to stop and the token is removed; a refresh that is
\* under way arrives all the same.
Release(c) ==
    /\ call[c] = "holding" /\ Goes(c, "over")
    /\ lease' = [lease EXCEPT ![c] = Absent]
    /\ beat' = [beat EXCEPT ![c] = IF @ = "write" THEN "last" ELSE "off"]
    /\ due' = [due EXCEPT ![c] = 0]
    /\ failed' = [failed EXCEPT ![c] = FALSE]
    /\ UNCHANGED <<skew, sent, expiry, stamp>>

\* The process of the call dies, and nobody removes its token.
Crash(c) ==
    /\ call[c] \in {"asking", "polling", "granted", "holding"} /\ Goes(c, "over")
    /\ beat' = [beat EXCEPT ![c] = "off"]
    /\ due' = [due EXCEPT ![c] = 0]
    /\ stamp' = [stamp EXCEPT ![c] = 0]
    /\ failed' = [failed EXCEPT ![c] = FALSE]
    /\ Forget(c)
    /\ UNCHANGED <<skew, lease, expiry>>

-----------------------------------------------------------------------------
(* Time.                                                                   *)

\* What has to happen before the clock moves on.
Urgent(c) ==
    \/ call[c] \in {"asking", "granted"} /\ sent[c] = skew[c] - Lag
    \/ beat[c] \in {"wait", "write"} /\ due[c] = -Lag
    \/ beat[c] = "last" /\ stamp[c] = skew[c] - Lag

\* t one unit later, no lower than floor.
Later(t, floor) == IF t > floor THEN t - 1 ELSE floor

\* The members go with the key when it expires; readings are no older than Lag.
Clock ==
    /\ \A c \in Calls : ~Urgent(c)
    /\ expiry' = Later(expiry, 0)
    /\ lease' = [c \in Calls |->
                   IF expiry <= 1 \/ lease[c] = Absent THEN Absent ELSE Later(lease[c], -Lag)]
    /\ sent' = [c \in Calls |-> IF call[c] \in {"asking", "granted"} THEN sent[c] - 1 ELSE sent[c]]
    /\ due' = [c \in Calls |-> IF beat[c] \in {"wait", "write"} THEN due[c] - 1 ELSE due[c]]
    /\ stamp' = [c \in Calls |-> IF beat[c] \in {"write", "last"} THEN stamp[c] - 1 ELSE stamp[c]]
    /\ UNCHANGED <<call, skew, beat, failed>>

Answer(c) == Admit(c) \/ Refuse(c) \/ Hold(c)

Beats(c) == Tick(c) \/ Refresh(c) \/ RefreshFails(c)

Next ==
    \/ \E c \in Calls : Ask(c) \/ Answer(c) \/ FailOpen(c) \/ Beats(c) \/ Release(c) \/ Crash(c)
    \/ Clock

Spec == Init /\ [][Next]_vars

(***************************************************************************)
(* A call polls until it is answered, the calls in a slot end, and time    *)
(* passes.                                                                 *)
(***************************************************************************)
Fairness ==
    /\ \A c \in Calls : WF_vars(Ask(c) \/ Answer(c) \/ Beats(c)) /\ WF_vars(Release(c))
    /\ WF_vars(Clock)

FairSpec == Spec /\ Fairness

-----------------------------------------------------------------------------
(***************************************************************************)
(* Properties.                                                             *)
(***************************************************************************)

(***************************************************************************)
(* No more calls than the limit are in a slot, whatever the clocks of      *)
(* their processes, as long as a lease outlasts a failed refresh and a     *)
(* late one: a call that is alive is never pruned, and the key is not lost *)
(* under calls that hold on to their slots (limiter.go, acquireScript and  *)
(* the comment of hold).                                                   *)
(***************************************************************************)
AtMostLimit == Cardinality(InSlot) <= Limit

\* How long the token of a call that is not in a slot may still occupy one by anybody's clock,
\* that of a refresh which is under way after the release included.
Owed(c) ==
    LET ends == IF beat[c] = "last" /\ stamp[c] + Ttl > lease[c] THEN stamp[c] + Ttl ELSE lease[c]
    IN  IF c \in InSlot \/ ends <= -Lag THEN 0 ELSE Lag + ends

Debts == [c \in Calls |-> Owed(c)]

Refused == {c \in Calls : call[c] = "polling"}

(***************************************************************************)
(* The set in Redis, with its leases, refreshes and clocks, implements a   *)
(* semaphore whose permits come back by themselves (limiter.go, Acquire    *)
(* and hold, and the comment of defaultLeaseTTL on restarts): no call is   *)
(* turned away unless live calls, and what dead, failed and released ones  *)
(* have left behind, fill the limit; and that is gone within a lease and   *)
(* the delays after they left, though a refresh may arrive after the       *)
(* release, since nothing extends it and it runs out as time passes.       *)
(***************************************************************************)
S == INSTANCE Semaphore WITH
        held <- InSlot, owed <- Debts, denied <- Refused, Bound <- Ttl + Skew + Lag

ImplementsSemaphore ==
    /\ S!SemSpec
    /\ [][Clock => \A c \in Calls : Owed(c) > 0 => Owed(c)' < Owed(c)]_vars

(***************************************************************************)
(* Nobody waits for ever, so that time and again nobody waits: tokens of   *)
(* dead processes, of scripts that ran although their answer was lost, and *)
(* of calls whose last refresh came after the release do not occupy slots  *)
(* for good (limiter.go, the comments of defaultLeaseTTL and hold).        *)
(***************************************************************************)
Served == []<>(\A c \in Calls : call[c] \notin {"asking", "polling"})

=============================================================================
