---------------------------- MODULE OneDecision ----------------------------
(***************************************************************************)
(* What the approval gate promises, without instances, channels or         *)
(* messages: every call that waits for approval is decided once, by a      *)
(* request, its timeout or its cancellation; the call returns that         *)
(* decision; and a request that is answered ok, or too late, is told the   *)
(* truth about it.                                                         *)
(***************************************************************************)
CONSTANTS Calls,      \* tool calls that wait for approval (pending ids)
          Requests    \* calls of Resolve

Nobody == "nobody"

\* Who may decide a call besides a request.
Clocks == {"timeout", "canceled"}

Answers == {"ok", "already", "not_found", "tenant", "user", "error"}

VARIABLES decision,   \* who decided each call
          outcome,    \* what each call returned: a decision, or "error"
          told        \* what each request was answered

oneVars == <<decision, outcome, told>>

OneInit ==
    /\ decision = [p \in Calls |-> Nobody]
    /\ outcome = [p \in Calls |-> Nobody]
    /\ told = [r \in Requests |-> Nobody]

\* A call is decided; a request that decides it may be answered at once.
Decide(p, x) ==
    /\ decision[p] = Nobody
    /\ decision' = [decision EXCEPT ![p] = x]
    /\ \/ UNCHANGED told
       \/ /\ x \in Requests /\ told[x] = Nobody
          /\ told' = [told EXCEPT ![x] = "ok"]
    /\ UNCHANGED outcome

\* A call returns the decision, or an error before it waits for one.
Return(p) ==
    /\ outcome[p] = Nobody
    /\ \/ decision[p] # Nobody /\ outcome' = [outcome EXCEPT ![p] = decision[p]]
       \/ outcome' = [outcome EXCEPT ![p] = "error"]
    /\ UNCHANGED <<decision, told>>

\* A request about p is answered.
Tell(r, p, a) ==
    /\ told[r] = Nobody
    /\ a = "ok" => decision[p] = r
    /\ a = "already" => decision[p] \notin {Nobody, r}
    /\ told' = [told EXCEPT ![r] = a]
    /\ UNCHANGED <<decision, outcome>>

OneNext ==
    \/ \E p \in Calls, x \in Requests \cup Clocks : Decide(p, x)
    \/ \E p \in Calls : Return(p)
    \/ \E r \in Requests, p \in Calls, a \in Answers : Tell(r, p, a)

OneSpec == OneInit /\ [][OneNext]_oneVars
=============================================================================
