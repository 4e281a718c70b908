----------------------------- MODULE PendingOps -----------------------------
(***************************************************************************)
(* The task_pending_ops table of one knowledge base, as the repository     *)
(* functions of internal/application/repository/task_queue.go read and     *)
(* change it.  Every operator is one SQL statement or transaction.         *)
(*                                                                         *)
(* A table is a function from the ids of the rows that exist to rows.  Ids *)
(* come from a sequence, so a smaller id is an older row.  Row payloads,   *)
(* tenants and timestamps are left out; claimed_at is kept as the age of   *)
(* the claim.                                                              *)
(***************************************************************************)
EXTENDS Naturals, FiniteSets

CONSTANTS Docs,      \* documents (knowledge ids): the dedup_key of a row
          StaleAge   \* age at which a claim is stale (wikiClaimStaleAfter)

ASSUME StaleAgeAssumption == StaleAge \in Nat \ {0}

OpKinds == {"ingest", "retract"}

(***************************************************************************)
(* claim is the age of the row's claim, saturating at StaleAge.  An        *)
(* unclaimed row (claimed_at IS NULL) also has age StaleAge: no statement  *)
(* of the repository tells an unclaimed row from one with a stale claim.   *)
(***************************************************************************)
Row == [doc : Docs, op : OpKinds, fail : Nat, claim : 0..StaleAge]

NoRows == [i \in {} |-> 0]

IsTable(t) == DOMAIN t \subseteq Nat /\ t \in [DOMAIN t -> Row]

Fresh(r) == r.claim < StaleAge

RowsOf(t, d) == {i \in DOMAIN t : t[i].doc = d}

-----------------------------------------------------------------------------
(* ClaimBatch, in the three statements of its transaction. *)

\* Mutant: a fresh claim hides its own row only.
ClaimableByRow(t) == {d \in Docs : \E i \in RowsOf(t, d) : ~Fresh(t[i])}

\* Documents with an eligible row and no fresh claim: a fresh claim on any
\* row of a document hides the whole document.
Claimable(t) == {d \in Docs : RowsOf(t, d) # {} /\ \A i \in RowsOf(t, d) : ~Fresh(t[i])}

\* The earliest row of a document.
Anchor(t, d) == CHOOSE i \in RowsOf(t, d) : \A j \in RowsOf(t, d) : i <= j

\* The limit claimable documents with the oldest anchors.
Chosen(t, limit) ==
    {d \in Claimable(t) :
        Cardinality({e \in Claimable(t) : Anchor(t, e) < Anchor(t, d)}) < limit}

\* The rows that are stamped and returned: every eligible row of a chosen
\* document.
ClaimIds(t, limit) == {i \in DOMAIN t : t[i].doc \in Chosen(t, limit) /\ ~Fresh(t[i])}

\* Mutant: the rows are read but not stamped (PeekBatch in place of ClaimBatch).
StampNothing(t, I) == t

Stamp(t, I) == [i \in DOMAIN t |-> IF i \in I THEN [t[i] EXCEPT !.claim = 0] ELSE t[i]]

-----------------------------------------------------------------------------
(* The other statements. *)

AddRow(t, id, d, o) ==
    [i \in DOMAIN t \cup {id} |->
        IF i = id THEN [doc |-> d, op |-> o, fail |-> 0, claim |-> StaleAge] ELSE t[i]]

\* ReleaseByIDs does not look at who holds the claim.
ReleaseRows(t, I) ==
    [i \in DOMAIN t |-> IF i \in I THEN [t[i] EXCEPT !.claim = StaleAge] ELSE t[i]]

DeleteRows(t, I) == [i \in DOMAIN t \ I |-> t[i]]

IncrFail(t, id) ==
    [i \in DOMAIN t |-> IF i = id THEN [t[i] EXCEPT !.fail = @ + 1] ELSE t[i]]

\* What IncrFailCount returns: the new count, or 0 when the row is gone.
FailCount(t, id) == IF id \in DOMAIN t THEN t[id].fail + 1 ELSE 0

\* DeleteByDedupKey with op = ingest: claimed rows are deleted as well.
Scrub(t, d) == DeleteRows(t, {i \in RowsOf(t, d) : t[i].op = "ingest"})

\* Time passing: every claim grows older by one unit.
AgeClaims(t) ==
    [i \in DOMAIN t |-> IF Fresh(t[i]) THEN [t[i] EXCEPT !.claim = @ + 1] ELSE t[i]]

\* Mutant: the first operation is kept.
FirstOf(t, I, d) == CHOOSE i \in {k \in I : t[k].doc = d} : \A j \in {k \in I : t[k].doc = d} : i <= j

\* decodePendingRows: of the claimed rows of a document only the last one is
\* carried out; the others are deleted with it.
LastOf(t, I, d) == CHOOSE i \in {k \in I : t[k].doc = d} : \A j \in {k \in I : t[k].doc = d} : j <= i
=============================================================================
