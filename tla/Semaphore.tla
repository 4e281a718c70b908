----------------------------- MODULE Semaphore -----------------------------
(***************************************************************************)
(* What a limit on concurrent calls promises when a call may leave without *)
(* giving its permit back: a call that is let in takes one of Limit        *)
(* permits; when it leaves, its permit is back within Bound; and a call is *)
(* turned away only while the permits of others, in use or not yet back,   *)
(* are as many as the limit.                                               *)
(***************************************************************************)
EXTENDS Integers, FiniteSets

CONSTANTS Calls, Limit, Bound

VARIABLES
    held,      \* the calls with a permit
    owed,      \* how long the permit of each call that left may still be out
    denied     \* the calls that were turned away and have not asked again

SemInit == held = {} /\ owed = [c \in Calls |-> 0] /\ denied = {}

Out == held \cup {c \in Calls : owed[c] > 0}

\* A permit may be back sooner than it has to be, but its time is not extended.
NoLater == owed' \in [Calls -> 0..Bound] /\ \A c \in Calls : owed'[c] <= owed[c]

Enter(c) ==
    /\ c \notin held /\ Cardinality(held) < Limit
    /\ held' = held \cup {c} /\ NoLater
    /\ UNCHANGED denied

Deny(c) ==
    /\ c \notin held /\ Cardinality(Out) >= Limit
    /\ denied' = denied \cup {c} /\ NoLater
    /\ UNCHANGED held

\* A call that was turned away asks again, or gives up.
Retry(c) ==
    /\ denied' = denied \ {c}
    /\ UNCHANGED <<held, owed>>

Exit(c) ==
    /\ c \in held /\ held' = held \ {c}
    /\ \E n \in 0..Bound : owed' = [owed EXCEPT ![c] = n]
    /\ UNCHANGED denied

Return == NoLater /\ UNCHANGED <<held, denied>>

SemNext ==
    \/ \E c \in Calls : Enter(c) \/ Deny(c) \/ Retry(c) \/ Exit(c)
    \/ Return

SemSpec == SemInit /\ [][SemNext]_<<held, owed, denied>>

=============================================================================
