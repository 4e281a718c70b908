------------------------- MODULE ModelLimiterProofs -------------------------
(***************************************************************************)
(* The limit holds for every number of calls and every lease that outlasts *)
(* a failed and a late refresh: what is left of the lease of a call in a   *)
(* slot is bounded from below by when its next refresh is due.  What a     *)
(* call leaves behind is bounded from above by the lease and the delays.   *)
(***************************************************************************)
EXTENDS ModelLimiter, FiniteSetTheorems, TLAPS

Asks(c) ==
    /\ call[c] \in {"asking", "granted"} => sent[c] >= skew[c] - Lag
    /\ call[c] = "granted" => lease[c] >= sent[c] + Ttl
    /\ call[c] = "holding" <=> beat[c] \in {"wait", "write"}
    /\ beat[c] = "last" => call[c] = "over"

Spare(c) == IF failed[c] THEN 2 * Beat ELSE Beat

Beating(c) ==
    /\ beat[c] \in {"wait", "write"} => lease[c] + Spare(c) + Lag >= due[c] + Ttl
    /\ beat[c] = "write" => due[c] <= 0 /\ stamp[c] >= due[c] + skew[c]
    /\ beat[c] = "last" => stamp[c] >= skew[c] - Lag

KeyOutlives(c) == lease[c] <= expiry

Timely == \A c \in Calls : Asks(c) /\ Beating(c) /\ KeyOutlives(c)

IInv == TypeOK /\ Timely /\ AtMostLimit

-----------------------------------------------------------------------------

\* A call in a slot is never pruned, whoever asks.
LEMMA LeaseLasts ==
    ASSUME TypeOK, Timely, NEW c \in InSlot
    PROVE  lease[c] > Skew
  BY ModelLimiterAssumption DEF TypeOK, Timely, Asks, Beating, Spare, InSlot, Pcs

LEMMA InSlotFinite == IsFiniteSet(InSlot)
  BY ModelLimiterAssumption, FS_Subset DEF InSlot

LEMMA AdmitKeeps ==
    ASSUME TypeOK, Timely, NEW c \in Calls, Admit(c)
    PROVE  /\ c \notin InSlot
           /\ Cardinality(InSlot) < Limit
           /\ InSlot' = InSlot \cup {c}
  <1> DEFINE Left == {d \in Calls : Pruned(sent[c])[d] # Absent}
  <1>1. InSlot \subseteq Left
    <2> SUFFICES ASSUME NEW d \in InSlot
                 PROVE  d \in Left
      OBVIOUS
    <2>1. lease[d] > Skew
      BY LeaseLasts
    <2> QED
      BY <2>1, ModelLimiterAssumption DEF TypeOK, Pruned, Absent, InSlot
  <1>2. IsFiniteSet(Left) /\ Cardinality(Left) < Limit
    BY ModelLimiterAssumption, FS_Subset DEF Admit, HasRoom
  <1>3. Cardinality(InSlot) <= Cardinality(Left)
    BY <1>1, <1>2, FS_Subset
  <1>4. Cardinality(InSlot) \in Nat /\ Cardinality(Left) \in Nat
    BY <1>2, InSlotFinite, FS_CardinalityType
  <1>5. InSlot' = InSlot \cup {c} /\ c \notin InSlot
    BY DEF TypeOK, Admit, Goes, InSlot
  <1> QED
    BY <1>2, <1>3, <1>4, <1>5, ModelLimiterAssumption

\* Every other step only takes calls out of their slots.
LEMMA OthersLeave ==
    ASSUME TypeOK, NEW c \in Calls,
           Ask(c) \/ Refuse(c) \/ Hold(c) \/ FailOpen(c) \/ Beats(c) \/ Release(c) \/ Crash(c)
    PROVE  InSlot' = InSlot \/ (c \in InSlot /\ InSlot' = InSlot \ {c})
  BY DEF TypeOK, InSlot, Goes, Ask, Refuse, Hold, FailOpen, Beats, Tick, Refresh, RefreshFails, Release, Crash

-----------------------------------------------------------------------------
(* The invariant is inductive.                                             *)

LEMMA InitInv == Init => IInv
  <1> SUFFICES ASSUME Init PROVE IInv
    OBVIOUS
  <1>1. TypeOK
    BY ModelLimiterAssumption DEF Init, TypeOK, Pcs, Absent
  <1>2. Timely
    BY ModelLimiterAssumption DEF Init, Timely, Asks, Beating, KeyOutlives, Absent
  <1>3. InSlot = {}
    BY DEF Init, InSlot
  <1>4. AtMostLimit
    BY <1>3, FS_EmptySet, ModelLimiterAssumption DEF AtMostLimit
  <1> QED
    BY <1>1, <1>2, <1>4 DEF IInv

LEMMA CallType ==
    ASSUME TypeOK, Timely, NEW c \in Calls,
           Ask(c) \/ Answer(c) \/ FailOpen(c) \/ Release(c) \/ Crash(c)
    PROVE  TypeOK' /\ Timely'
  <1> USE ModelLimiterAssumption DEF TypeOK, Timely, Asks, Beating, KeyOutlives, Spare, Pcs, Goes, Forget, Absent
  <1>1. CASE Ask(c)
    BY <1>1 DEF Ask
  <1>2. CASE Admit(c)
    BY <1>2 DEF Admit, Pruned
  <1>3. CASE Refuse(c)
    BY <1>3 DEF Refuse, Pruned
  <1>4. CASE Hold(c)
    BY <1>4 DEF Hold
  <1>5. CASE FailOpen(c)
    BY <1>5 DEF FailOpen
  <1>6. CASE Release(c)
    BY <1>6 DEF Release
  <1>7. CASE Crash(c)
    BY <1>7 DEF Crash
  <1> QED
    BY <1>1, <1>2, <1>3, <1>4, <1>5, <1>6, <1>7 DEF Answer

LEMMA BeatType ==
    ASSUME TypeOK, Timely, NEW c \in Calls, Beats(c)
    PROVE  TypeOK' /\ Timely'
  <1> USE ModelLimiterAssumption
  <1>1. CASE Tick(c)
    BY <1>1 DEF Tick, TypeOK, Timely, Asks, Beating, KeyOutlives, Spare
  <1>2. ASSUME beat[c] \in {"write", "last"}
        PROVE  /\ stamp[c] \in (-Lag)..Skew
               /\ beat[c] = "write" => due[c] \in (-Lag)..0 /\ due[c] <= stamp[c]
               /\ beat[c] = "write" => lease[c] + Spare(c) + Lag >= due[c] + Ttl
    BY <1>2 DEF TypeOK, Timely, Beating
  <1>3. CASE Refresh(c)
    <2>1. TypeOK'
      BY <1>2, <1>3 DEF Refresh, Loop, TypeOK, Absent
    <2>2. ASSUME NEW d \in Calls
          PROVE  Asks(d)' /\ KeyOutlives(d)'
      <3>1. Asks(d)'
        BY <1>3 DEF Refresh, Loop, TypeOK, Timely, Asks
      <3>2. KeyOutlives(d)'
        <4>1. lease'[d] <= Ttl + Skew
          BY <2>1 DEF TypeOK
        <4> QED
          BY <2>1, <4>1, <1>3 DEF Refresh, KeyOutlives, TypeOK
      <3> QED
        BY <3>1, <3>2
    <2>3. ASSUME NEW d \in Calls
          PROVE  Beating(d)'
      <3>1. CASE d = c
        BY <1>2, <1>3, <3>1 DEF Refresh, Loop, TypeOK, Beating, Spare
      <3>2. CASE d # c
        BY <1>3, <3>2 DEF Refresh, Loop, TypeOK, Timely, Beating, Spare
      <3> QED
        BY <3>1, <3>2
    <2> QED
      BY <2>1, <2>2, <2>3 DEF Timely
  <1>4. CASE RefreshFails(c)
    <2>1. TypeOK'
      BY <1>2, <1>4 DEF RefreshFails, Loop, TypeOK
    <2>2. ASSUME NEW d \in Calls
          PROVE  Asks(d)' /\ KeyOutlives(d)'
      BY <1>4 DEF RefreshFails, Loop, TypeOK, Timely, Asks, KeyOutlives
    <2>3. ASSUME NEW d \in Calls
          PROVE  Beating(d)'
      <3>1. CASE d = c /\ beat[c] = "write"
        <4>1. beat'[c] = "wait" /\ due'[c] = due[c] + Beat /\ failed'[c] /\ lease' = lease
          BY <1>4, <3>1 DEF RefreshFails, Loop, TypeOK
        <4>2. lease[c] + Beat + Lag >= due[c] + Ttl
          BY <1>2, <1>4, <3>1 DEF RefreshFails, Spare
        <4> QED
          BY <3>1, <4>1, <4>2 DEF TypeOK, Beating, Spare
      <3>3. CASE d = c /\ beat[c] = "last"
        BY <1>4, <3>3 DEF RefreshFails, Loop, TypeOK, Beating
      <3>2. CASE d # c
        BY <1>4, <3>2 DEF RefreshFails, Loop, TypeOK, Timely, Beating, Spare
      <3> QED
        BY <1>4, <3>1, <3>2, <3>3 DEF RefreshFails
    <2> QED
      BY <2>1, <2>2, <2>3 DEF Timely
  <1> QED
    BY <1>1, <1>3, <1>4 DEF Beats

\* While a call is in a slot its lease has more than a moment to go when the
\* clock may move on, and so has the key.
LEMMA ClockType ==
    ASSUME TypeOK, Timely, Clock
    PROVE  TypeOK' /\ Timely'
  <1> USE ModelLimiterAssumption
  <1>1. ASSUME NEW c \in Calls
        PROVE  /\ call[c] \in {"asking", "granted"} => sent[c] > skew[c] - Lag
               /\ beat[c] \in {"wait", "write"} => due[c] > -Lag
               /\ beat[c] \in {"write", "last"} => stamp[c] > -Lag
               /\ beat[c] = "last" => stamp[c] > skew[c] - Lag
    <2>1. ~Urgent(c)
      BY DEF Clock
    <2>2. Asks(c) /\ Beating(c)
      BY DEF Timely
    <2>3. /\ sent[c] \in Int /\ skew[c] \in Nat
          /\ due[c] \in (-Lag)..Beat /\ stamp[c] \in (-Lag)..Skew
      BY DEF TypeOK
    <2> QED
      BY <2>1, <2>2, <2>3 DEF Asks, Beating, Urgent
  <1>2. ASSUME NEW c \in Calls
        PROVE  lease'[c] \in Absent..(Ttl + Skew) /\ lease'[c] <= expiry' /\ expiry' \in 0..(2 * Ttl)
    BY DEF TypeOK, Timely, KeyOutlives, Clock, Later, Absent
  <1>3. TypeOK'
    <2>1. sent' \in [Calls -> (-Lag)..Skew]
      BY <1>1 DEF TypeOK, Clock
    <2>2. due' \in [Calls -> (-Lag)..Beat]
      BY <1>1 DEF TypeOK, Clock
    <2>3. stamp' \in [Calls -> (-Lag)..Skew]
      BY <1>1 DEF TypeOK, Clock
    <2>4. lease' \in [Calls -> Absent..(Ttl + Skew)] /\ expiry' \in 0..(2 * Ttl)
      BY <1>2 DEF TypeOK, Clock, Later
    <2> QED
      BY <2>1, <2>2, <2>3, <2>4 DEF TypeOK, Clock
  <1>4. ASSUME NEW c \in Calls, c \in InSlot
        PROVE  lease[c] > Skew + 1 /\ lease'[c] = lease[c] - 1
    <2>1. lease[c] > Skew + 1
      BY <1>1, <1>4 DEF TypeOK, Timely, Asks, Beating, Spare, InSlot
    <2>2. expiry > 1
      BY <2>1 DEF TypeOK, Timely, KeyOutlives
    <2> QED
      BY <2>1, <2>2 DEF TypeOK, Clock, Later, Absent
  <1>5. ASSUME NEW c \in Calls
        PROVE  Asks(c)'
    BY <1>1, <1>4 DEF TypeOK, Timely, Asks, Clock, InSlot
  <1>6. ASSUME NEW c \in Calls
        PROVE  Beating(c)'
    BY <1>1, <1>4 DEF TypeOK, Timely, Asks, Beating, Spare, Clock, InSlot
  <1> QED
    BY <1>2, <1>3, <1>5, <1>6 DEF Timely, KeyOutlives

LEMMA StepInv == IInv /\ [Next]_vars => IInv'
  <1> SUFFICES ASSUME IInv, [Next]_vars PROVE IInv'
    OBVIOUS
  <1> USE DEF IInv
  <1>1. TypeOK' /\ Timely'
    <2>1. CASE UNCHANGED vars
      BY <2>1 DEF vars, TypeOK, Timely, Asks, Beating, KeyOutlives, Spare
    <2> QED
      BY <2>1, CallType, BeatType, ClockType DEF Next
  <1>2. AtMostLimit'
    <2>1. CASE \E c \in Calls : Admit(c)
      <3>1. PICK c \in Calls : Admit(c)
        BY <2>1
      <3>2. Cardinality(InSlot') = Cardinality(InSlot) + 1
        BY <3>1, AdmitKeeps, InSlotFinite, FS_AddElement
      <3> QED
        BY <3>1, <3>2, AdmitKeeps, InSlotFinite, FS_CardinalityType, ModelLimiterAssumption DEF AtMostLimit
    <2>2. CASE ~\E c \in Calls : Admit(c)
      <3>1. InSlot' \subseteq InSlot
        BY <2>2, OthersLeave DEF Next, Answer, Clock, InSlot, vars
      <3>2. Cardinality(InSlot') <= Cardinality(InSlot)
        BY <3>1, InSlotFinite, FS_Subset
      <3> QED
        BY <3>1, <3>2, InSlotFinite, FS_CardinalityType, FS_Subset, ModelLimiterAssumption DEF AtMostLimit
    <2> QED
      BY <2>1, <2>2
  <1> QED
    BY <1>1, <1>2

-----------------------------------------------------------------------------

\* The times stay within their bounds: a lease, the key and the ticker are
\* neither late nor early by more than Lag and Skew.
THEOREM TypeCorrect == Spec => []TypeOK
  BY InitInv, StepInv, PTL DEF Spec, IInv

\* Never more calls in a slot than the limit, whatever the clocks, a refresh
\* that fails and the crashes.
THEOREM LimitKept == Spec => []AtMostLimit
  BY InitInv, StepInv, PTL DEF Spec, IInv

-----------------------------------------------------------------------------
(* The set of leases implements a semaphore.                               *)

LEMMA DebtType ==
    ASSUME TypeOK, NEW c \in Calls
    PROVE  Owed(c) \in 0..(Ttl + Skew + Lag)
  BY ModelLimiterAssumption DEF TypeOK, Owed

LEMMA DebtTypeNext ==
    ASSUME TypeOK', NEW c \in Calls
    PROVE  Owed(c)' \in 0..(Ttl + Skew + Lag)
  BY ModelLimiterAssumption DEF TypeOK, Owed

\* A token that nothing has touched.
LEMMA SameDebt ==
    ASSUME NEW c \in Calls, lease'[c] = lease[c], beat'[c] = beat[c], stamp'[c] = stamp[c],
           c \in InSlot' <=> c \in InSlot
    PROVE  Owed(c)' = Owed(c)
  BY DEF Owed

\* Whoever has just been let in, and whoever is in a slot, owes nothing.
LEMMA NoDebt ==
    ASSUME NEW c \in InSlot
    PROVE  Owed(c) = 0
  BY DEF Owed

LEMMA NoneLater ==
    ASSUME TypeOK', \A c \in Calls : Owed(c)' <= Owed(c)
    PROVE  S!NoLater
  <1>1. \A c \in Calls : Owed(c)' \in 0..(Ttl + Skew + Lag)
    BY DebtTypeNext
  <1> QED  BY <1>1 DEF S!NoLater, Debts

LEMMA AllSame ==
    ASSUME \A c \in Calls : Owed(c)' = Owed(c)
    PROVE  Debts' = Debts
  BY DEF Debts

\* Pruning takes the time from tokens, and adds none.
LEMMA PruneDebt ==
    ASSUME TypeOK, NEW c \in Calls, Admit(c) \/ Refuse(c), NEW d \in Calls
    PROVE  Owed(d)' <= Owed(d)
  <1>1. CASE d \in InSlot'
    <2>1. Owed(d)' = 0
      BY <1>1 DEF Owed
    <2> QED  BY <2>1, DebtType
  <1>2. CASE d \notin InSlot'
    <2>1. d \notin InSlot /\ beat'[d] = beat[d] /\ stamp'[d] = stamp[d]
      BY <1>2 DEF Admit, Refuse, Goes, InSlot, TypeOK
    <2>2. lease'[d] = lease[d] \/ lease'[d] = Absent
      BY <1>2 DEF Admit, Refuse, Goes, InSlot, TypeOK, Pruned
    <2> QED  BY <1>2, <2>1, <2>2, ModelLimiterAssumption DEF Owed, TypeOK, Absent
  <1> QED  BY <1>1, <1>2

\* What the script counts is in use or owed.
LEMMA CountedIsOut ==
    ASSUME TypeOK, Timely, NEW c \in Calls, Refuse(c)
    PROVE  Cardinality(S!Out) >= Limit
  <1> DEFINE Left == {d \in Calls : Pruned(sent[c])[d] # Absent}
  <1>1. Left \subseteq S!Out
    <2> SUFFICES ASSUME NEW d \in Left, d \notin InSlot PROVE Debts[d] > 0
      BY DEF S!Out
    <2>1. d \in Calls /\ lease[d] > sent[c] /\ sent[c] >= -Lag
      BY ModelLimiterAssumption DEF Pruned, TypeOK
    <2>2. Owed(d) > 0
      BY <2>1, ModelLimiterAssumption DEF Owed, TypeOK
    <2> QED  BY <2>1, <2>2 DEF Debts
  <1>2. S!Out \subseteq Calls
    BY DEF S!Out, InSlot
  <1>3. IsFiniteSet(S!Out) /\ IsFiniteSet(Left)
    BY <1>1, <1>2, ModelLimiterAssumption, FS_Subset
  <1>4. Cardinality(Left) <= Cardinality(S!Out)
    BY <1>1, <1>3, FS_Subset
  <1>5. ~(Cardinality(Left) < Limit)
    BY DEF Refuse, HasRoom
  <1>6. Cardinality(Left) \in Nat /\ Cardinality(S!Out) \in Nat
    BY <1>3, FS_CardinalityType
  <1> HIDE DEF Left
  <1> QED  BY <1>4, <1>5, <1>6, ModelLimiterAssumption

\* A call leaves its slot, and what its token still occupies is bounded.
LEMMA LeavesSlot ==
    ASSUME TypeOK, TypeOK', NEW c \in InSlot, InSlot' = InSlot \ {c}, Refused' = Refused,
           \A d \in Calls \ {c} : Owed(d)' = Owed(d)
    PROVE  S!Exit(c)
  <1>1. c \in Calls /\ Owed(c)' \in 0..(Ttl + Skew + Lag)
    BY DebtTypeNext DEF InSlot
  <1>2. Debts' = [Debts EXCEPT ![c] = Owed(c)']
    BY <1>1 DEF Debts
  <1> QED  BY <1>1, <1>2 DEF S!Exit

\* The instance counts as this module does.
LEMMA SameCount == \A X : S!Cardinality(X) = Cardinality(X)
  BY DEF S!Cardinality, Cardinality

LEMMA ScriptStep ==
    ASSUME TypeOK, TypeOK', Timely, NEW c \in Calls, Ask(c) \/ Admit(c) \/ Refuse(c)
    PROVE  S!Retry(c) \/ S!Enter(c) \/ S!Deny(c)
  <1>1. CASE Ask(c)
    <2>1. InSlot' = InSlot /\ Refused' = Refused \ {c}
      BY <1>1 DEF Ask, Goes, InSlot, Refused, TypeOK
    <2>2. Debts' = Debts
      BY <1>1, <2>1, SameDebt, AllSame DEF Ask
    <2> QED  BY <2>1, <2>2 DEF S!Retry
  <1>2. CASE Admit(c)
    <2>1. Refused' = Refused
      BY <1>2 DEF Admit, Goes, Refused, TypeOK
    <2>2. S!NoLater
      BY <1>2, PruneDebt, NoneLater
    <2> QED  BY <1>2, <2>1, <2>2, AdmitKeeps, SameCount DEF S!Enter
  <1>3. CASE Refuse(c)
    <2>1. InSlot' = InSlot /\ Refused' = Refused \cup {c} /\ c \notin InSlot
      BY <1>3 DEF Refuse, Goes, InSlot, Refused, TypeOK
    <2>2. S!NoLater
      BY <1>3, PruneDebt, NoneLater
    <2> QED  BY <1>3, <2>1, <2>2, CountedIsOut, SameCount DEF S!Deny
  <1> QED  BY <1>1, <1>2, <1>3

\* How a call ends: out of its slot, out of the queue, or while it asks.
LEMMA EndStep ==
    ASSUME TypeOK, TypeOK', Timely, NEW c \in Calls, FailOpen(c) \/ Release(c) \/ Crash(c)
    PROVE  S!Exit(c) \/ S!Retry(c)
  <1>1. /\ \A d \in Calls \ {c} : call'[d] = call[d] /\ lease'[d] = lease[d]
                                  /\ beat'[d] = beat[d] /\ stamp'[d] = stamp[d]
        /\ call'[c] \in {"open", "over"}
    BY DEF FailOpen, Release, Crash, Goes, TypeOK
  <1>2. InSlot' = InSlot \ {c} /\ Refused' = Refused \ {c}
    BY <1>1 DEF InSlot, Refused
  <1>3. \A d \in Calls \ {c} : Owed(d)' = Owed(d)
    BY <1>1, <1>2, SameDebt
  <1>4. CASE c \in InSlot
    <2>1. Refused' = Refused
      BY <1>2, <1>4 DEF InSlot, Refused
    <2> QED  BY <1>2, <1>3, <1>4, <2>1, LeavesSlot
  <1>5. CASE c \notin InSlot
    <2>1. call[c] \in {"asking", "polling"} /\ beat[c] \notin {"wait", "write", "last"}
      BY <1>5 DEF FailOpen, Release, Crash, InSlot, Timely, Asks
    <2>2. lease'[c] = lease[c] /\ beat'[c] = "off" /\ beat[c] = "off"
      BY <2>1 DEF FailOpen, Release, Crash, TypeOK
    <2>3. Owed(c)' = Owed(c)
      BY <1>2, <1>5, <2>2 DEF Owed
    <2>4. Debts' = Debts
      BY <1>3, <2>3, AllSame
    <2> QED  BY <1>2, <1>5, <2>4 DEF S!Retry
  <1> QED  BY <1>4, <1>5

\* A refresh of a call in a slot changes nothing, one that comes after the
\* release was reckoned with.
LEMMA BeatStep ==
    ASSUME TypeOK, TypeOK', Timely, NEW c \in Calls, Hold(c) \/ Beats(c)
    PROVE  InSlot' = InSlot /\ Refused' = Refused /\ S!NoLater
  <1>1. InSlot' = InSlot /\ Refused' = Refused
    BY DEF Hold, Goes, Beats, Tick, Refresh, RefreshFails, InSlot, Refused, TypeOK
  <1>2. \A d \in Calls \ {c} : lease'[d] = lease[d] /\ beat'[d] = beat[d] /\ stamp'[d] = stamp[d]
    BY DEF Hold, Beats, Tick, Refresh, RefreshFails, Loop, TypeOK
  <1>3. \A d \in Calls \ {c} : Owed(d)' = Owed(d)
    BY <1>1, <1>2, SameDebt
  <1>4. Owed(c)' <= Owed(c)
    <2>1. CASE c \in InSlot
      BY <1>1, <2>1 DEF Owed
    <2>2. CASE c \notin InSlot
      <3>1. beat[c] = "last" /\ beat'[c] = "off" /\ (Refresh(c) \/ RefreshFails(c))
        BY <2>2 DEF Hold, Beats, Tick, Refresh, RefreshFails, Loop, InSlot, Timely, Asks, TypeOK
      <3>2. lease'[c] = lease[c] \/ lease'[c] = stamp[c] + Ttl
        BY <3>1 DEF Refresh, RefreshFails, TypeOK
      <3> QED  BY <1>1, <2>2, <3>1, <3>2, ModelLimiterAssumption DEF Owed, TypeOK, Absent
    <2> QED  BY <2>1, <2>2
  <1>5. \A d \in Calls : Owed(d) \in Int
    BY DebtType
  <1>6. \A d \in Calls : Owed(d)' <= Owed(d)
    BY <1>3, <1>4, <1>5
  <1> QED  BY <1>1, <1>6, NoneLater

\* Time runs down what is owed.
LEMMA ClockStep ==
    ASSUME TypeOK, Timely, Clock
    PROVE  /\ InSlot' = InSlot /\ Refused' = Refused
           /\ \A c \in Calls : Owed(c)' <= Owed(c) /\ (Owed(c) > 0 => Owed(c)' < Owed(c))
  <1>1. InSlot' = InSlot /\ Refused' = Refused
    BY DEF Clock, InSlot, Refused
  <1> SUFFICES ASSUME NEW c \in Calls PROVE Owed(c)' <= Owed(c) /\ (Owed(c) > 0 => Owed(c)' < Owed(c))
    BY <1>1
  <1>2. beat'[c] = beat[c] /\ (beat[c] = "last" => stamp'[c] = stamp[c] - 1)
    BY DEF Clock, TypeOK
  <1>3. \/ lease'[c] = Absent
        \/ lease[c] > -Lag /\ lease'[c] = lease[c] - 1
        \/ lease[c] <= -Lag /\ lease'[c] = -Lag
    BY ModelLimiterAssumption DEF Clock, Later, TypeOK, Absent
  <1>4. lease[c] \in Absent..(Ttl + Skew) /\ stamp[c] \in (-Lag)..Skew /\ Lag \in Nat /\ Ttl \in Nat
    BY ModelLimiterAssumption DEF TypeOK
  <1> QED  BY <1>1, <1>2, <1>3, <1>4, ModelLimiterAssumption DEF Owed, Absent

\* The lease, the heartbeat and the clocks implement a semaphore whose
\* permits come back within a bounded time of their own accord.
THEOREM IsSemaphore == Spec => ImplementsSemaphore
  <1>1. Init => S!SemInit
    <2> SUFFICES ASSUME Init PROVE S!SemInit
      OBVIOUS
    <2>1. InSlot = {} /\ Refused = {}
      BY DEF Init, InSlot, Refused
    <2>2. \A c \in Calls : Owed(c) = 0
      BY ModelLimiterAssumption DEF Init, Owed, Absent
    <2> QED  BY <2>1, <2>2 DEF S!SemInit, Debts
  <1>2. IInv /\ IInv' /\ [Next]_vars => [S!SemNext]_<<InSlot, Debts, Refused>>
    <2> SUFFICES ASSUME IInv, IInv', [Next]_vars PROVE [S!SemNext]_<<InSlot, Debts, Refused>>
      OBVIOUS
    <2> USE DEF IInv
    <2>1. ASSUME NEW c \in Calls, Ask(c) \/ Admit(c) \/ Refuse(c) PROVE S!SemNext
      BY <2>1, ScriptStep DEF S!SemNext
    <2>2. ASSUME NEW c \in Calls, FailOpen(c) \/ Release(c) \/ Crash(c) PROVE S!SemNext
      BY <2>2, EndStep DEF S!SemNext
    <2>3. ASSUME NEW c \in Calls, Hold(c) \/ Beats(c) PROVE S!SemNext
      BY <2>3, BeatStep DEF S!SemNext, S!Return
    <2>4. CASE Clock
      <3>1. InSlot' = InSlot /\ Refused' = Refused /\ S!NoLater
        BY <2>4, ClockStep, NoneLater
      <3> QED  BY <3>1 DEF S!SemNext, S!Return
    <2>5. CASE UNCHANGED vars
      <3>1. InSlot' = InSlot /\ Refused' = Refused
        BY <2>5 DEF vars, InSlot, Refused
      <3>2. Debts' = Debts
        BY <2>5, <3>1, SameDebt, AllSame DEF vars
      <3> QED  BY <3>1, <3>2
    <2> QED  BY <2>1, <2>2, <2>3, <2>4, <2>5 DEF Next, Answer
  <1>3. IInv /\ [Next]_vars => [Clock => \A c \in Calls : Owed(c) > 0 => Owed(c)' < Owed(c)]_vars
    BY ClockStep DEF IInv
  <1> QED
    BY <1>1, <1>2, <1>3, InitInv, StepInv, PTL DEF Spec, ImplementsSemaphore, S!SemSpec

=============================================================================
