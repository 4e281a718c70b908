-------------------------- MODULE WikiIngestProofs --------------------------
(***************************************************************************)
(* Theorems about WikiIngest, for any documents, workers and bounds, after *)
(* lemmas about the operators it is built from: the statements on          *)
(* task_pending_ops, the asynq tasks and the records of the batches.       *)
(***************************************************************************)
EXTENDS WikiIngest, TLAPS, WellFoundedInduction

-----------------------------------------------------------------------------
(* Sets of numbers. *)

LessThan == {p \in Nat \X Nat : p[1] < p[2]}

\* The order of the natural numbers, as a relation, is well founded.
LEMMA LessThanWellFounded == IsWellFoundedOn(LessThan, Nat)
  BY NatLessThanWellFounded DEF OpToRel, LessThan

\* A bounded set of numbers has a greatest element: the operation that
\* decodePendingRows keeps for a document exists.
LEMMA HasMax ==
  ASSUME NEW S, S \subseteq Nat, NEW n \in Nat, \A i \in S : i < n, S # {}
  PROVE  \E i \in S : \A j \in S : j <= i
<1> DEFINE T == {n - i : i \in S}
<1>1. T \subseteq Nat /\ T # {}
  OBVIOUS
<1>2. PICK x \in T : \A y \in T : <<y, x>> \notin LessThan
  BY <1>1, LessThanWellFounded, WFMin
<1>3. PICK i \in S : x = n - i
  OBVIOUS
<1>4. ASSUME NEW j \in S PROVE j <= i
  <2>1. <<n - j, x>> \notin LessThan
    BY <1>2
  <2> QED BY <2>1, <1>3 DEF LessThan
<1> QED BY <1>4

-----------------------------------------------------------------------------
(* The statements of the repository. *)

\* A table stays a table, and statements that update rows keep its ids.
LEMMA NoRowsTable == IsTable(NoRows) /\ DOMAIN NoRows = {}
  BY DEF IsTable, NoRows

LEMMA UpdateTable ==
  ASSUME NEW t, IsTable(t), NEW I
  PROVE  /\ IsTable(Stamp(t, I)) /\ DOMAIN Stamp(t, I) = DOMAIN t
         /\ IsTable(ReleaseRows(t, I)) /\ DOMAIN ReleaseRows(t, I) = DOMAIN t
         /\ IsTable(IncrFail(t, I)) /\ DOMAIN IncrFail(t, I) = DOMAIN t
  BY StaleAgeAssumption DEF IsTable, Stamp, ReleaseRows, IncrFail, Row

LEMMA AgeTable ==
  ASSUME NEW t, IsTable(t)
  PROVE  IsTable(AgeClaims(t)) /\ DOMAIN AgeClaims(t) = DOMAIN t
  BY StaleAgeAssumption DEF IsTable, AgeClaims, Row, Fresh

LEMMA DeleteTable ==
  ASSUME NEW t, IsTable(t), NEW I
  PROVE  IsTable(DeleteRows(t, I)) /\ DOMAIN DeleteRows(t, I) = DOMAIN t \ I
  BY DEF IsTable, DeleteRows

LEMMA ScrubTable ==
  ASSUME NEW t, IsTable(t), NEW d
  PROVE  IsTable(Scrub(t, d)) /\ DOMAIN Scrub(t, d) \subseteq DOMAIN t
<1> DEFINE I == {i \in RowsOf(t, d) : t[i].op = "ingest"}
<1>1. Scrub(t, d) = DeleteRows(t, I)
  BY DEF Scrub
<1>2. IsTable(DeleteRows(t, I)) /\ DOMAIN DeleteRows(t, I) = DOMAIN t \ I
  BY DeleteTable
<1> HIDE DEF I
<1> QED BY <1>1, <1>2

LEMMA AddRowTable ==
  ASSUME NEW t, IsTable(t), NEW i \in Nat, NEW d \in Docs, NEW o \in OpKinds
  PROVE  IsTable(AddRow(t, i, d, o)) /\ DOMAIN AddRow(t, i, d, o) = DOMAIN t \cup {i}
  BY StaleAgeAssumption DEF IsTable, AddRow, Row

\* What the statements leave alone: a row keeps its document and its kind.
SameOp(r, s) == r.doc = s.doc /\ r.op = s.op

LEMMA RowsAfter ==
  ASSUME NEW t, IsTable(t), NEW i \in DOMAIN t
  PROVE  /\ \A I : SameOp(Stamp(t, I)[i], t[i]) /\ (i \notin I => Stamp(t, I)[i] = t[i])
         /\ \A I : SameOp(ReleaseRows(t, I)[i], t[i]) /\ (i \notin I => ReleaseRows(t, I)[i] = t[i])
         /\ \A k : SameOp(IncrFail(t, k)[i], t[i]) /\ IncrFail(t, k)[i].claim = t[i].claim
         /\ \A I : i \notin I => DeleteRows(t, I)[i] = t[i]
         /\ \A k, d, o : i # k => AddRow(t, k, d, o)[i] = t[i]
<1>0. t[i] \in Row
  BY DEF IsTable
<1> QED BY <1>0 DEF Stamp, ReleaseRows, IncrFail, DeleteRows, AddRow, Row, SameOp

LEMMA AgedRow ==
  ASSUME NEW t, IsTable(t), NEW i \in DOMAIN t
  PROVE  SameOp(AgeClaims(t)[i], t[i]) /\ AgeClaims(t)[i].claim <= t[i].claim + 1
<1>0. t[i] \in Row
  BY DEF IsTable
<1> QED BY <1>0, StaleAgeAssumption DEF AgeClaims, Fresh, Row, SameOp

LEMMA ScrubbedRow ==
  ASSUME NEW t, IsTable(t), NEW d, NEW i \in DOMAIN Scrub(t, d)
  PROVE  Scrub(t, d)[i] = t[i]
  BY DEF Scrub, DeleteRows

\* The row of the operation that is carried out is the newest claimed row of
\* its document.
LEMMA LastOfClaimed ==
  ASSUME NEW t, IsTable(t), NEW n \in Nat, \A i \in DOMAIN t : i < n,
         NEW I, I \subseteq DOMAIN t, NEW d, \E i \in I : t[i].doc = d
  PROVE  /\ LastOf(t, I, d) \in I /\ t[LastOf(t, I, d)].doc = d
         /\ \A j \in I : t[j].doc = d => j <= LastOf(t, I, d)
<1> DEFINE S == {k \in I : t[k].doc = d}
<1>1. \E i \in S : \A j \in S : j <= i
  BY HasMax DEF IsTable
<1>2. LastOf(t, I, d) \in S /\ \A j \in S : j <= LastOf(t, I, d)
  BY <1>1 DEF LastOf
<1> QED BY <1>2

-----------------------------------------------------------------------------
(* The asynq tasks. *)

LEMMA WaitRange == RecheckDelay \in 0..RecheckDelay /\ 0 \in 0..RecheckDelay
  BY RecheckDelayAssumption

LEMMA TaskOps ==
  ASSUME NEW t \in TaskPool
  PROVE  /\ AddPlain(t) \in TaskPool /\ ArmCapped(t) \in TaskPool
         /\ ArmRecheck(t) \in TaskPool /\ Wait(t) \in TaskPool
<1>1. AddPlain(t) \in TaskPool /\ ArmCapped(t) \in TaskPool
  BY DEF TaskPool, AddPlain, ArmCapped, IdStatus
<1>2. ArmRecheck(t) \in TaskPool
  BY WaitRange DEF TaskPool, ArmRecheck, IdStatus
<1>3. Wait(t) \in TaskPool
  BY RecheckDelayAssumption DEF TaskPool, Wait
<1> QED BY <1>1, <1>2, <1>3

LEMMA KindOps ==
  ASSUME NEW t \in TaskPool, NEW k \in TaskKinds
  PROVE  /\ Ack(t, k) \in TaskPool /\ Retry(t, k) \in TaskPool
         /\ Ready(t, k) => Take(t, k) \in TaskPool
<1>1. CASE k = "plain"
  BY <1>1 DEF TaskPool, Ack, Retry, Ready, Take
<1>2. CASE k = "capped"
  BY <1>2 DEF TaskPool, Ack, Retry, Ready, Take, IdStatus
<1>3. CASE k = "recheck"
  BY <1>3, WaitRange DEF TaskPool, Ack, Retry, Ready, Take, IdStatus
<1> QED BY <1>1, <1>2, <1>3 DEF TaskKinds

-----------------------------------------------------------------------------
(* Batches. *)

LEMMA IdleBatch == Idle \in Batch
  BY WikiIngestAssumption DEF Idle, Batch, NoOp, Op, OpStates, OpKinds, TaskKinds

\* SetSt changes the state of one operation and nothing else, FailSt also
\* the error mark.
LEMMA SetStFacts ==
  ASSUME batch \in [Workers -> Batch], NEW w \in Workers, NEW d \in Docs, NEW s \in OpStates,
         SetSt(w, d, s) \/ FailSt(w, d, s)
  PROVE  /\ batch' \in [Workers -> Batch]
         /\ \A v \in Workers \ {w} : batch'[v] = batch[v]
         /\ \A e \in Docs : /\ batch'[w].work[e].id = batch[w].work[e].id
                            /\ batch'[w].work[e].op = batch[w].work[e].op
                            /\ batch'[w].work[e].st = IF e = d THEN s ELSE batch[w].work[e].st
                            /\ e # d => batch'[w].work[e] = batch[w].work[e]
         /\ batch'[w].ids = batch[w].ids /\ batch'[w].pc = batch[w].pc /\ batch'[w].slot = batch[w].slot
         /\ batch'[w].age = batch[w].age /\ (SetSt(w, d, s) => batch'[w].err = batch[w].err)
<1> DEFINE r == IF SetSt(w, d, s) THEN batch[w].err ELSE TRUE
           op == [batch[w].work[d] EXCEPT !.st = s]
           work == [batch[w].work EXCEPT ![d] = op]
           b == [batch[w] EXCEPT !.err = r, !.work = work]
<1>1. batch' = [batch EXCEPT ![w] = b]
  <2>1. CASE SetSt(w, d, s)
    <3>1. b = [batch[w] EXCEPT !.work = work]
      BY <2>1 DEF Batch
    <3> QED BY <2>1, <3>1 DEF SetSt
  <2>2. CASE ~SetSt(w, d, s)
    <3>1. b = [batch[w] EXCEPT !.err = TRUE, !.work = work] /\ FailSt(w, d, s)
      BY <2>2
    <3> HIDE DEF b, r
    <3> QED BY <3>1 DEF FailSt
  <2> QED BY <2>1, <2>2
<1>r. r \in BOOLEAN /\ (SetSt(w, d, s) => r = batch[w].err)
  BY DEF Batch
<1> HIDE DEF r
<1>2. batch[w] \in Batch /\ batch[w].work \in [Docs -> Op] /\ batch[w].work[d] \in Op
  BY DEF Batch
<1>3. op \in Op /\ op.id = batch[w].work[d].id /\ op.op = batch[w].work[d].op /\ op.st = s
  BY <1>2 DEF Op
<1> HIDE DEF op
<1>4. work \in [Docs -> Op] /\ \A e \in Docs : work[e] = IF e = d THEN op ELSE batch[w].work[e]
  BY <1>2, <1>3
<1> HIDE DEF work
<1>5. /\ b \in Batch /\ b.work = work /\ b.ids = batch[w].ids /\ b.pc = batch[w].pc
      /\ b.age = batch[w].age /\ b.slot = batch[w].slot /\ b.err = r
  BY <1>2, <1>4, <1>r DEF Batch
<1> HIDE DEF b
<1>6. batch' \in [Workers -> Batch] /\ batch'[w] = b /\ \A v \in Workers \ {w} : batch'[v] = batch[v]
  BY <1>1, <1>5
<1> QED BY <1>3, <1>4, <1>5, <1>6, <1>r

\* Setting the fields of a batch.
LEMMA SetFields ==
  ASSUME NEW b \in Batch
  PROVE  /\ \A p \in {"idle", "down", "claim", "work", "settle"} :
              [b EXCEPT !.pc = p] \in Batch
         /\ \A p \in {"idle", "down", "claim", "work", "settle"} : \A e \in BOOLEAN :
              [b EXCEPT !.pc = p, !.err = e] \in Batch
         /\ \A k \in TaskKinds : \A s \in BOOLEAN :
              /\ [b EXCEPT !.pc = "claim", !.kind = k, !.slot = s] \in Batch
              /\ [b EXCEPT !.pc = "claim", !.kind = k] \in Batch
         /\ \A n \in 0..MaxBatchAge : [b EXCEPT !.age = n] \in Batch
         /\ \A I \in SUBSET Nat : \A f \in [Docs -> Op] :
              [b EXCEPT !.pc = "work", !.ids = I, !.work = f] \in Batch
  BY DEF Batch

-----------------------------------------------------------------------------
(* Types. *)

\* The rows of the table are older than the next id.
QueueOK == IsTable(table) /\ nextId \in Nat /\ \A i \in DOMAIN table : i < nextId

WorkersOK == tasks \in TaskPool /\ batch \in [Workers -> Batch] /\ zombies \in Nat

DocsOK ==
    /\ kb \in KbStates /\ kn \in [Docs -> DocStates] /\ posting \subseteq Docs
    /\ refs \subseteq Docs /\ drained \in [Docs -> Nat] /\ closed \subseteq Docs
    /\ overtaken \subseteq Docs

Losses == {"trigger", "capped", "recheck"}

CountsOK == crashes \in Nat /\ faults \in Nat /\ lost \subseteq Losses

TypeInv == QueueOK /\ WorkersOK /\ DocsOK /\ CountsOK

LEMMA TypeInvImplies == TypeInv => TypeOK
  BY DEF TypeInv, QueueOK, WorkersOK, DocsOK, CountsOK, TypeOK, Losses

LEMMA InitTypeInv == Init => TypeInv
<1> SUFFICES ASSUME Init PROVE TypeInv
  OBVIOUS
<1>1. QueueOK
  BY NoRowsTable DEF Init, QueueOK
<1>2. WorkersOK
  BY IdleBatch, WaitRange DEF Init, WorkersOK, TaskPool, NoTasks, IdStatus
<1>3. DocsOK
  BY DEF Init, DocsOK, KbStates, DocStates
<1> QED BY <1>1, <1>2, <1>3 DEF Init, TypeInv, CountsOK, Losses

\* What the shared parts of the actions do.
LEMMA FaultType == ASSUME CountsOK, NEW k, Fault(k) PROVE faults' \in Nat
  BY DEF CountsOK, Fault

LEMMA PlainTriggerType ==
  ASSUME CountsOK, NEW t \in TaskPool, PlainTrigger(t)
  PROVE  tasks' \in TaskPool /\ faults' \in Nat /\ lost' \subseteq Losses
  BY TaskOps, FaultType DEF PlainTrigger, CountsOK, Losses

LEMMA DrainType ==
  ASSUME DocsOK, NEW d \in Docs, Drain(d)
  PROVE  drained' \in [Docs -> Nat]
  BY DEF DocsOK, Drain

LEMMA EnqueueType ==
  ASSUME TypeInv, NEW d \in Docs, NEW o \in OpKinds, Enqueue(d, o)
  PROVE  QueueOK' /\ tasks' \in TaskPool /\ faults' \in Nat /\ lost' \subseteq Losses
<1>1. CASE kb = "live"
  <2>1. tasks' \in TaskPool /\ faults' \in Nat /\ lost' \subseteq Losses
    BY <1>1, PlainTriggerType DEF Enqueue, TypeInv, WorkersOK
  <2>2. table' = AddRow(table, nextId, d, o) /\ nextId' = nextId + 1
    BY <1>1 DEF Enqueue
  <2>3. IsTable(table') /\ DOMAIN table' = DOMAIN table \cup {nextId}
    BY <2>2, AddRowTable DEF TypeInv, QueueOK
  <2>4. \A i \in DOMAIN table' : i < nextId'
    BY <2>2, <2>3 DEF TypeInv, QueueOK, IsTable
  <2> QED BY <2>1, <2>2, <2>3, <2>4 DEF TypeInv, QueueOK
<1>2. CASE kb # "live"
  BY <1>2 DEF Enqueue, TypeInv, QueueOK, WorkersOK, CountsOK
<1> QED BY <1>1, <1>2

LEMMA ScrubPendingType ==
  ASSUME TypeInv, NEW d, ScrubPending(d), nextId' = nextId
  PROVE  QueueOK' /\ faults' \in Nat
  BY ScrubTable, FaultType DEF ScrubPending, TypeInv, QueueOK, CountsOK

\* A table with no new ids keeps QueueOK.
LEMMA QueueStays ==
  ASSUME QueueOK, IsTable(table'), DOMAIN table' \subseteq DOMAIN table, nextId' = nextId
  PROVE  QueueOK'
  BY DEF QueueOK

LEMMA QueueShrinks ==
  ASSUME QueueOK, NEW I, table' \in {table, DeleteRows(table, I)}, nextId' = nextId
  PROVE  QueueOK'
<1>1. IsTable(DeleteRows(table, I)) /\ DOMAIN DeleteRows(table, I) = DOMAIN table \ I
  BY DeleteTable DEF QueueOK
<1>2. IsTable(table') /\ DOMAIN table' \subseteq DOMAIN table
  BY <1>1 DEF QueueOK
<1> QED BY <1>2, QueueStays

\* Every step keeps the types, one case per action.
LEMMA DocStepType ==
  ASSUME TypeInv, NEW d \in Docs, DocStep(d)
  PROVE  TypeInv'
<1> USE DEF docVars, knVars, queueVars
<1>1. CASE PostProcess(d)
  <2>1. DocsOK'
    BY <1>1 DEF PostProcess, TypeInv, DocsOK, DocStates
  <2> QED BY <1>1, <2>1 DEF PostProcess, TypeInv, QueueOK, WorkersOK, CountsOK
<1>7. CASE PostEnqueue(d)
  <2>1. QueueOK' /\ tasks' \in TaskPool /\ faults' \in Nat /\ lost' \subseteq Losses
    BY <1>7, EnqueueType DEF PostEnqueue, OpKinds
  <2>2. DocsOK'
    BY <1>7 DEF PostEnqueue, TypeInv, DocsOK
  <2> QED BY <1>7, <2>1, <2>2 DEF PostEnqueue, TypeInv, WorkersOK, CountsOK
<1>2. CASE Reparse(d)
  <2>1. QueueOK' /\ faults' \in Nat
    BY <1>2, ScrubPendingType DEF Reparse
  <2>2. DocsOK'
    BY <1>2 DEF Reparse, TypeInv, DocsOK, DocStates
  <2> QED BY <1>2, <2>1, <2>2 DEF Reparse, TypeInv, WorkersOK, CountsOK
<1>3. CASE CancelMark(d)
  <2>1. DocsOK'
    BY <1>3 DEF CancelMark, TypeInv, DocsOK, DocStates
  <2> QED BY <1>3, <2>1 DEF CancelMark, TypeInv, QueueOK, WorkersOK, CountsOK
<1>4. CASE DeleteMark(d)
  <2>1. DocsOK'
    BY <1>4 DEF DeleteMark, TypeInv, DocsOK, DocStates
  <2> QED BY <1>4, <2>1 DEF DeleteMark, TypeInv, QueueOK, WorkersOK, CountsOK
<1>5. CASE ScrubStep(d)
  <2>1. QueueOK' /\ faults' \in Nat
    BY <1>5, ScrubPendingType DEF ScrubStep
  <2>2. DocsOK'
    BY <1>5 DEF ScrubStep, TypeInv, DocsOK, DocStates
  <2> QED BY <1>5, <2>1, <2>2 DEF ScrubStep, TypeInv, WorkersOK, CountsOK
<1>6. CASE DeleteRetract(d)
  <2>1. QueueOK' /\ tasks' \in TaskPool /\ faults' \in Nat /\ lost' \subseteq Losses
    BY <1>6, EnqueueType DEF DeleteRetract, OpKinds
  <2>2. DocsOK'
    BY <1>6 DEF DeleteRetract, TypeInv, DocsOK, DocStates
  <2> QED BY <1>6, <2>1, <2>2 DEF DeleteRetract, TypeInv, WorkersOK, CountsOK
<1> QED BY <1>1, <1>2, <1>3, <1>4, <1>5, <1>6, <1>7 DEF DocStep

LEMMA StartStepType ==
  ASSUME TypeInv, NEW w \in Workers, NEW k \in TaskKinds, StartStep(w, k)
  PROVE  TypeInv'
<1> USE DEF docVars, knVars, queueVars
<1>1. Ready(tasks, k) /\ Take(tasks, k) \in TaskPool
  BY KindOps DEF StartStep, StartDeleted, Start, StartCapped, TypeInv, WorkersOK
<1>2. CASE StartDeleted(w, k)
  <2>1. QueueOK'
    BY <1>2, NoRowsTable, QueueStays DEF StartDeleted, TypeInv
  <2>2. WorkersOK'
    BY <1>2, <1>1, KindOps DEF StartDeleted, TypeInv, WorkersOK
  <2> QED BY <1>2, <2>1, <2>2 DEF StartDeleted, TypeInv, DocsOK, CountsOK
<1>3. CASE Start(w, k)
  <2>1. faults' \in Nat
    BY <1>3, FaultType DEF Start, TypeInv, CountsOK
  <2>2. batch' \in [Workers -> Batch]
    BY <1>3, IdleBatch, SetFields DEF Start, TypeInv, WorkersOK
  <2> QED BY <1>1, <1>3, <2>1, <2>2 DEF Start, TypeInv, QueueOK, WorkersOK, DocsOK, CountsOK
<1>4. CASE StartCapped(w, k)
  <2>1. faults' \in Nat /\ lost' \subseteq Losses
    BY <1>4, FaultType DEF StartCapped, TypeInv, CountsOK, Losses
  <2>2. tasks' \in TaskPool
    BY <1>1, <1>4, TaskOps, KindOps DEF StartCapped
  <2> QED BY <1>4, <2>1, <2>2 DEF StartCapped, TypeInv, QueueOK, WorkersOK, DocsOK, CountsOK
<1> QED BY <1>2, <1>3, <1>4 DEF StartStep

\* Rows of documents a batch claimed exist.
LEMMA ClaimLast ==
  ASSUME QueueOK, NEW I, I \subseteq DOMAIN table, NEW d, d \in {table[i].doc : i \in I}
  PROVE  LastOf(table, I, d) \in I /\ table[LastOf(table, I, d)].doc = d
  BY LastOfClaimed DEF QueueOK

LEMMA BatchStepType ==
  ASSUME TypeInv, NEW w \in Workers, BatchStep(w)
  PROVE  TypeInv'
<1> USE DEF docVars, knVars, queueVars
<1>k. batch[w] \in Batch /\ batch[w].kind \in TaskKinds
  BY DEF TypeInv, WorkersOK, Batch
<1>1. CASE Claim(w)
  <2> DEFINE I == ClaimIds(table, BatchDocs)
             last(d) == LastOf(table, I, d)
             f == [d \in Docs |->
                    IF d \in {table[i].doc : i \in I}
                    THEN [id |-> last(d), op |-> table[last(d)].op, st |-> "todo"]
                    ELSE NoOp]
  <2>1. table' = Stamp(table, I)
        /\ batch' = [batch EXCEPT ![w].pc = "work", ![w].ids = I, ![w].work = f]
    BY <1>1 DEF Claim
  <2>2. QueueOK'
    BY <1>1, <2>1, UpdateTable, QueueStays DEF Claim, TypeInv, QueueOK
  <2>3. I \subseteq DOMAIN table /\ I \in SUBSET Nat
    BY DEF ClaimIds, TypeInv, QueueOK, IsTable
  <2>4. f \in [Docs -> Op]
    <3>1. SUFFICES ASSUME NEW d \in Docs, d \in {table[i].doc : i \in I}
                   PROVE  [id |-> last(d), op |-> table[last(d)].op, st |-> "todo"] \in Op
      BY DEF NoOp, Op, OpKinds, OpStates
    <3>2. last(d) \in I
      BY <2>3, <3>1, ClaimLast DEF TypeInv
    <3>3. last(d) \in Nat /\ table[last(d)] \in Row
      BY <2>3, <3>2 DEF TypeInv, QueueOK, IsTable
    <3> QED BY <3>3 DEF Op, Row, OpStates
  <2> HIDE DEF I, f
  <2>5. batch' \in [Workers -> Batch]
    BY <1>k, <2>1, <2>3, <2>4, SetFields DEF TypeInv, WorkersOK
  <2> QED BY <1>1, <2>2, <2>5 DEF Claim, TypeInv, WorkersOK, DocsOK, CountsOK
<1>2. CASE ClaimNothing(w)
  <2>1. tasks' \in TaskPool /\ faults' \in Nat
    BY <1>2, <1>k, TaskOps, KindOps, FaultType DEF ClaimNothing, TypeInv, WorkersOK, CountsOK
  <2>3. lost' \subseteq Losses
    BY <1>2 DEF ClaimNothing, TypeInv, CountsOK, Losses
  <2>2. batch' \in [Workers -> Batch]
    BY <1>2, IdleBatch DEF ClaimNothing, TypeInv, WorkersOK
  <2> QED BY <1>2, <2>1, <2>2, <2>3 DEF ClaimNothing, TypeInv, QueueOK, WorkersOK, DocsOK, CountsOK
<1>3. CASE ClaimFails(w)
  <2>1. tasks' \in TaskPool /\ faults' \in Nat
    BY <1>3, <1>k, KindOps, FaultType DEF ClaimFails, TypeInv, WorkersOK, CountsOK
  <2>2. batch' \in [Workers -> Batch]
    BY <1>3, IdleBatch DEF ClaimFails, TypeInv, WorkersOK
  <2> QED BY <1>3, <2>1, <2>2 DEF ClaimFails, TypeInv, QueueOK, WorkersOK, DocsOK, CountsOK
<1>4. CASE Trim(w)
  <2>1. QueueOK'
    <3>1. table' \in {table, DeleteRows(table, TrimIds(w))}
      BY <1>4 DEF Trim
    <3> QED BY <1>4, <3>1, QueueShrinks DEF Trim, TypeInv
  <2>3. faults' \in Nat
    BY <1>4, FaultType DEF Trim, TypeInv, CountsOK
  <2>2. batch' \in [Workers -> Batch]
    BY <1>4, <1>k, SetFields DEF Trim, TypeInv, WorkersOK
  <2> QED BY <1>4, <2>1, <2>2, <2>3 DEF Trim, TypeInv, WorkersOK, DocsOK, CountsOK
<1>5. CASE Finish(w)
  <2>1. Ack(tasks, batch[w].kind) \in TaskPool
    BY <1>k, KindOps DEF TypeInv, WorkersOK
  <2>2. tasks' \in TaskPool /\ faults' \in Nat /\ lost' \subseteq Losses
    BY <1>5, <2>1, PlainTriggerType DEF Finish, TypeInv, CountsOK
  <2>3. batch' \in [Workers -> Batch]
    BY <1>5, IdleBatch DEF Finish, TypeInv, WorkersOK
  <2> QED BY <1>5, <2>2, <2>3 DEF Finish, TypeInv, QueueOK, WorkersOK, DocsOK, CountsOK
<1>6. CASE Abort(w)
  <2>1. QueueOK'
    BY <1>6, UpdateTable, QueueStays DEF Abort, TypeInv, QueueOK
  <2>2. tasks' \in TaskPool /\ batch' \in [Workers -> Batch]
    BY <1>6, <1>k, KindOps, IdleBatch DEF Abort, TypeInv, WorkersOK
  <2> QED BY <1>6, <2>1, <2>2 DEF Abort, TypeInv, WorkersOK, DocsOK, CountsOK
<1> QED BY <1>1, <1>2, <1>3, <1>4, <1>5, <1>6 DEF BatchStep

\* The steps on one document of a batch leave its other fields alone.
LEMMA OpStepBatch ==
  ASSUME TypeInv, NEW w \in Workers, NEW d \in Docs, OpStep(w, d)
  PROVE  batch' \in [Workers -> Batch]
<1>1. batch \in [Workers -> Batch]
  BY DEF TypeInv, WorkersOK
<1>2. PICK s \in OpStates : SetSt(w, d, s) \/ FailSt(w, d, s)
  BY DEF OpStep, MapSkip, MapIngest, MapRetract, ReduceRead, ReduceWrite, ReduceUnapplied,
     DrainDoc, Requeue, DeadLetter, DropDead, OpStates
<1> QED BY <1>1, <1>2, SetStFacts

LEMMA OpStepType ==
  ASSUME TypeInv, NEW w \in Workers, NEW d \in Docs, OpStep(w, d)
  PROVE  TypeInv'
<1> USE DEF docVars, knVars, queueVars
<1>b. batch' \in [Workers -> Batch]
  BY OpStepBatch
<1>1. CASE MapSkip(w, d)
  BY <1>b, <1>1, DrainType DEF MapSkip, TypeInv, QueueOK, WorkersOK, DocsOK, CountsOK
<1>2. CASE MapIngest(w, d)
  BY <1>b, <1>2 DEF MapIngest, TypeInv, QueueOK, WorkersOK, DocsOK, CountsOK
<1>3. CASE MapRetract(w, d)
  BY <1>b, <1>3 DEF MapRetract, TypeInv, QueueOK, WorkersOK, DocsOK, CountsOK
<1>4. CASE ReduceRead(w, d)
  BY <1>b, <1>4 DEF ReduceRead, TypeInv, QueueOK, WorkersOK, DocsOK, CountsOK
<1>5. CASE ReduceWrite(w, d)
  BY <1>b, <1>5 DEF ReduceWrite, TypeInv, QueueOK, WorkersOK, DocsOK, CountsOK
<1>6. CASE ReduceUnapplied(w, d)
  BY <1>b, <1>6 DEF ReduceUnapplied, TypeInv, QueueOK, WorkersOK, DocsOK, CountsOK
<1>7. CASE DrainDoc(w, d)
  BY <1>b, <1>7, DrainType DEF DrainDoc, TypeInv, QueueOK, WorkersOK, DocsOK, CountsOK
<1>8. CASE Requeue(w, d)
  <2> DEFINE id == batch[w].work[d].id
  <2>1. table' \in {table, IncrFail(table, id), ReleaseRows(IncrFail(table, id), {id})}
    BY <1>8 DEF Requeue
  <2>2. QueueOK'
    BY <1>8, <2>1, UpdateTable, QueueStays DEF Requeue, TypeInv, QueueOK
  <2>3. faults' \in Nat
    BY <1>8, FaultType DEF Requeue, TypeInv, CountsOK
  <2> QED BY <1>b, <1>8, <2>2, <2>3 DEF Requeue, TypeInv, WorkersOK, DocsOK, CountsOK
<1>9. CASE DeadLetter(w, d)
  <2>1. faults' \in Nat
    BY <1>9, FaultType DEF DeadLetter, TypeInv, CountsOK
  <2>2. DocsOK'
    BY <1>9, DrainType DEF DeadLetter, TypeInv, DocsOK
  <2> QED BY <1>b, <1>9, <2>1, <2>2 DEF DeadLetter, TypeInv, QueueOK, WorkersOK, CountsOK
<1>10. CASE DropDead(w, d)
  <2>1. QueueOK'
    <3>1. table' \in {table, DeleteRows(table, {batch[w].work[d].id})}
      BY <1>10 DEF DropDead
    <3> QED BY <1>10, <3>1, QueueShrinks DEF DropDead, TypeInv
  <2>2. faults' \in Nat
    BY <1>10, FaultType DEF DropDead, TypeInv, CountsOK
  <2> QED BY <1>b, <1>10, <2>1, <2>2 DEF DropDead, TypeInv, WorkersOK, DocsOK, CountsOK
<1> QED BY <1>1, <1>2, <1>3, <1>4, <1>5, <1>6, <1>7, <1>8, <1>9, <1>10 DEF OpStep

LEMMA OtherStepType ==
  ASSUME TypeInv,
         \/ DeleteKB \/ CleanKB \/ ExpireSlot \/ Tick
         \/ \E w \in Workers : Crash(w) \/ Restart(w)
  PROVE  TypeInv'
<1> USE DEF docVars, knVars, queueVars
<1>1. CASE DeleteKB
  BY <1>1 DEF DeleteKB, TypeInv, QueueOK, WorkersOK, DocsOK, CountsOK, KbStates
<1>2. CASE CleanKB
  <2>1. QueueOK'
    BY <1>2, NoRowsTable, QueueStays DEF CleanKB, TypeInv
  <2> QED BY <1>2, <2>1 DEF CleanKB, TypeInv, WorkersOK, DocsOK, CountsOK, KbStates
<1>3. CASE ExpireSlot
  BY <1>3 DEF ExpireSlot, TypeInv, QueueOK, WorkersOK, DocsOK, CountsOK
<1>4. CASE Tick
  <2>1. QueueOK'
    BY <1>4, AgeTable, QueueStays DEF Tick, TypeInv, QueueOK
  <2>2. ASSUME NEW w \in Workers PROVE batch'[w] \in Batch
    <3>1. CASE Running(w)
      <4>1. batch[w].age + 1 \in 0..MaxBatchAge
        BY <1>4, <3>1, WikiIngestAssumption DEF Tick, TypeInv, WorkersOK, Batch
      <4>2. batch'[w] = [batch[w] EXCEPT !.age = batch[w].age + 1]
        BY <1>4, <3>1 DEF Tick
      <4>3. batch[w] \in Batch
        BY DEF TypeInv, WorkersOK
      <4> QED BY <4>1, <4>2, <4>3, SetFields
    <3>2. CASE ~Running(w)
      BY <1>4, <3>2 DEF Tick, TypeInv, WorkersOK
    <3> QED BY <3>1, <3>2
  <2>3. batch' \in [Workers -> Batch]
    BY <1>4, <2>2 DEF Tick
  <2> QED BY <1>4, <2>1, <2>3, TaskOps DEF Tick, TypeInv, WorkersOK, DocsOK, CountsOK
<1>5. ASSUME NEW w \in Workers, Crash(w) PROVE TypeInv'
  <2>1. batch[w].kind \in TaskKinds
    BY DEF TypeInv, WorkersOK, Batch
  <2>2. batch' \in [Workers -> Batch] /\ tasks' \in TaskPool
    BY <1>5, <2>1, KindOps, IdleBatch, SetFields DEF Crash, TypeInv, WorkersOK
  <2> QED BY <1>5, <2>2 DEF Crash, TypeInv, QueueOK, WorkersOK, DocsOK, CountsOK
<1>6. ASSUME NEW w \in Workers, Restart(w) PROVE TypeInv'
  <2>1. QueueOK'
    BY <1>6, NoRowsTable, QueueStays DEF Restart, TypeInv, QueueOK
  <2>2. batch' \in [Workers -> Batch]
    BY <1>6, IdleBatch DEF Restart, TypeInv, WorkersOK
  <2>3. tasks' \in TaskPool /\ faults' \in Nat /\ lost' \subseteq Losses
    BY <1>6, PlainTriggerType DEF Restart, TypeInv, WorkersOK, CountsOK
  <2> QED BY <1>6, <2>1, <2>2, <2>3 DEF Restart, TypeInv, WorkersOK, DocsOK, CountsOK
<1> QED BY <1>1, <1>2, <1>3, <1>4, <1>5, <1>6

LEMMA NextTypeInv == TypeInv /\ [Next]_vars => TypeInv'
<1>1. ASSUME TypeInv, Next PROVE TypeInv'
  BY <1>1, DocStepType, StartStepType, BatchStepType, OpStepType, OtherStepType DEF Next
<1>2. ASSUME TypeInv, UNCHANGED vars PROVE TypeInv'
  BY <1>2 DEF vars, TypeInv, QueueOK, WorkersOK, DocsOK, CountsOK
<1> QED BY <1>1, <1>2

LEMMA AlwaysTypeInv == Spec => []TypeInv
  BY InitTypeInv, NextTypeInv, PTL DEF Spec

\* The state keeps its shape: tasks, slots, claims and batches stay within
\* the ranges the code gives them, in particular no slot is freed twice.
THEOREM TypeCorrect == Spec => []TypeOK
  BY AlwaysTypeInv, TypeInvImplies, PTL

-----------------------------------------------------------------------------
(* Deleted knowledge bases. *)

\* Outside a live knowledge base no step adds a row.
LEMMA NoGrowth ==
  ASSUME TypeInv, Next, kb # "live"
  PROVE  DOMAIN table' \subseteq DOMAIN table
<1> USE DEF docVars, knVars, queueVars
<1>q. IsTable(table)
  BY DEF TypeInv, QueueOK
<1>1. ASSUME NEW d \in Docs, DocStep(d) PROVE DOMAIN table' \subseteq DOMAIN table
  <2>1. CASE PostEnqueue(d) \/ DeleteRetract(d)
    BY <2>1 DEF PostEnqueue, DeleteRetract, Enqueue
  <2>2. CASE Reparse(d) \/ ScrubStep(d)
    BY <2>2, <1>q, ScrubTable DEF Reparse, ScrubStep, ScrubPending
  <2>3. CASE PostProcess(d) \/ CancelMark(d) \/ DeleteMark(d)
    BY <2>3 DEF PostProcess, CancelMark, DeleteMark
  <2> QED BY <1>1, <2>1, <2>2, <2>3 DEF DocStep
<1>2. CASE DeleteKB \/ CleanKB
  BY <1>2, NoRowsTable DEF DeleteKB, CleanKB
<1>3. ASSUME NEW w \in Workers, NEW k \in TaskKinds, StartStep(w, k)
      PROVE  DOMAIN table' \subseteq DOMAIN table
  BY <1>3, NoRowsTable DEF StartStep, StartDeleted, Start, StartCapped
<1>4. ASSUME NEW w \in Workers, BatchStep(w) PROVE DOMAIN table' \subseteq DOMAIN table
  <2>1. CASE Claim(w)
    BY <2>1, <1>q, UpdateTable DEF Claim
  <2>2. CASE Trim(w)
    <3>1. DOMAIN DeleteRows(table, TrimIds(w)) = DOMAIN table \ TrimIds(w)
      BY <1>q, DeleteTable
    <3> QED BY <2>2, <3>1 DEF Trim
  <2>3. CASE Abort(w)
    BY <2>3, <1>q, UpdateTable DEF Abort
  <2>4. CASE ClaimNothing(w) \/ ClaimFails(w) \/ Finish(w)
    BY <2>4 DEF ClaimNothing, ClaimFails, Finish
  <2> QED BY <1>4, <2>1, <2>2, <2>3, <2>4 DEF BatchStep
<1>5. ASSUME NEW w \in Workers, Crash(w) \/ Restart(w) PROVE DOMAIN table' \subseteq DOMAIN table
  BY <1>5, NoRowsTable DEF Crash, Restart
<1>6. ASSUME NEW w \in Workers, NEW d \in Docs, OpStep(w, d)
      PROVE  DOMAIN table' \subseteq DOMAIN table
  <2> DEFINE id == batch[w].work[d].id
  <2>1. CASE Requeue(w, d)
    <3>1. table' \in {table, IncrFail(table, id), ReleaseRows(IncrFail(table, id), {id})}
      BY <2>1 DEF Requeue
    <3> QED BY <3>1, <1>q, UpdateTable
  <2>2. CASE DropDead(w, d)
    <3>1. table' \in {table, DeleteRows(table, {id})}
      BY <2>2 DEF DropDead
    <3>2. DOMAIN DeleteRows(table, {id}) = DOMAIN table \ {id}
      BY <1>q, DeleteTable
    <3> QED BY <3>1, <3>2
  <2>3. CASE UNCHANGED table
    BY <2>3
  <2> QED BY <1>6, <2>1, <2>2, <2>3
        DEF OpStep, MapSkip, MapIngest, MapRetract, ReduceRead, ReduceWrite, ReduceUnapplied,
            DrainDoc, DeadLetter
<1>7. CASE ExpireSlot \/ Tick
  BY <1>7, <1>q, AgeTable DEF ExpireSlot, Tick
<1> QED BY <1>1, <1>2, <1>3, <1>4, <1>5, <1>6, <1>7 DEF Next

\* Only the cleanup makes a knowledge base cleaned.
LEMMA CleanedBy ==
  ASSUME Next, kb' = "cleaned"
  PROVE  kb = "cleaned" \/ CleanKB
<1> USE DEF docVars, knVars, queueVars
<1> SUFFICES ASSUME ~CleanKB PROVE kb' = kb \/ kb' = "deleted"
  OBVIOUS
<1>1. ASSUME NEW d \in Docs, DocStep(d) PROVE kb' = kb
  BY <1>1 DEF DocStep, PostProcess, PostEnqueue, Reparse, CancelMark, DeleteMark, ScrubStep, DeleteRetract
<1>2. ASSUME NEW w \in Workers, NEW k \in TaskKinds, StartStep(w, k) PROVE kb' = kb
  BY <1>2 DEF StartStep, StartDeleted, Start, StartCapped
<1>3. ASSUME NEW w \in Workers, BatchStep(w) \/ Crash(w) \/ Restart(w) PROVE kb' = kb
  BY <1>3 DEF BatchStep, Claim, ClaimNothing, ClaimFails, Trim, Finish, Abort, Crash, Restart
<1>4. ASSUME NEW w \in Workers, NEW d \in Docs, OpStep(w, d) PROVE kb' = kb
  BY <1>4 DEF OpStep, MapSkip, MapIngest, MapRetract, ReduceRead, ReduceWrite, ReduceUnapplied,
     DrainDoc, Requeue, DeadLetter, DropDead
<1>5. CASE DeleteKB \/ ExpireSlot \/ Tick
  BY <1>5 DEF DeleteKB, ExpireSlot, Tick
<1> QED BY <1>1, <1>2, <1>3, <1>4, <1>5 DEF Next

CleanedEmpty == kb = "cleaned" => table = NoRows

\* With an empty table and no live knowledge base the table stays empty.
LEMMA EmptyStays ==
  ASSUME TypeInv, [Next]_vars, kb = "cleaned", table = NoRows
  PROVE  table' = NoRows
<1>1. IsTable(table')
  BY NextTypeInv DEF TypeInv, QueueOK
<1>2. CASE Next
  <2>1. DOMAIN table' = {}
    BY <1>2, NoGrowth, NoRowsTable
  <2> QED BY <1>1, <2>1 DEF IsTable, NoRows
<1>3. CASE UNCHANGED vars
  BY <1>3 DEF vars
<1> QED BY <1>2, <1>3

LEMMA NextCleanedEmpty == TypeInv /\ CleanedEmpty /\ [Next]_vars => CleanedEmpty'
<1> SUFFICES ASSUME TypeInv, CleanedEmpty, [Next]_vars, kb' = "cleaned" PROVE table' = NoRows
  BY DEF CleanedEmpty
<1>1. CASE kb = "cleaned"
  BY <1>1, EmptyStays DEF CleanedEmpty
<1>2. CASE kb # "cleaned"
  BY <1>2, CleanedBy DEF CleanKB, vars
<1> QED BY <1>1, <1>2

\* Once the rows of a deleted knowledge base were cleaned, nothing puts a row
\* back: not a document that is still being processed, not a batch under way.
THEOREM DeletedEmpty == Spec => DeletedStaysEmpty
<1>1. Init => CleanedEmpty
  BY DEF Init, CleanedEmpty
<1>2. Spec => []CleanedEmpty
  BY <1>1, NextCleanedEmpty, AlwaysTypeInv, PTL DEF Spec
<1>3. TypeInv /\ CleanedEmpty /\ [Next]_vars => [kb = "cleaned" => table' = NoRows]_vars
  BY EmptyStays DEF CleanedEmpty
<1> QED BY <1>2, <1>3, AlwaysTypeInv, PTL DEF Spec, DeletedStaysEmpty

-----------------------------------------------------------------------------
(* The rows a batch works on: true whatever fails.                         *)

Live(w, d) == St(w, d) \notin {"absent", "settled"}

\* Ids of claimed rows were handed out before.
OldIdsOf(w) == \A i \in batch[w].ids : i < nextId

OldIds == \A w \in Workers : OldIdsOf(w)

\* An operation of a batch is on a row the batch claimed, of its document.
OwnRowOf(w) ==
    \A d \in Docs :
        St(w, d) # "absent" =>
            /\ batch[w].work[d].id \in batch[w].ids
            /\ batch[w].work[d].id \in DOMAIN table => table[batch[w].work[d].id].doc = d

OwnRow == \A w \in Workers : OwnRowOf(w)

\* A batch that has not claimed yet holds nothing.
NothingYet ==
    \A w \in Workers :
        batch[w].pc \in {"idle", "down", "claim"} => batch[w].ids = {} /\ AllIn(w, {})

BaseInv == TypeInv /\ OldIds /\ OwnRow /\ NothingYet

LEMMA InitBaseInv == Init => BaseInv
<1> SUFFICES ASSUME Init PROVE BaseInv
  OBVIOUS
<1>1. \A w \in Workers : batch[w] = Idle
  BY DEF Init
<1>2. \A w \in Workers : batch[w].ids = {} /\ \A d \in Docs : St(w, d) = "absent"
  BY <1>1 DEF Idle, NoOp, St
<1> QED BY <1>2, InitTypeInv DEF BaseInv, OldIds, OldIdsOf, OwnRow, OwnRowOf, NothingYet, AllIn

-----------------------------------------------------------------------------
(* What a step does to the table: rows keep their operations and only one   *)
(* new id appears, the next one.                                           *)

RowsKeep ==
    /\ DOMAIN table' \subseteq DOMAIN table \cup {nextId}
    /\ \A i \in DOMAIN table \cap DOMAIN table' : SameOp(table'[i], table[i])
    /\ nextId \notin DOMAIN table' \/ nextId' = nextId + 1
    /\ nextId' \in {nextId, nextId + 1}

\* Claims do not change either.
ClaimsKeep == \A i \in DOMAIN table \cap DOMAIN table' : table'[i].claim = table[i].claim

\* What a step does to a batch, unless it claims: it ends the batch, or it
\* carries on with some of the operations.
Quiet(v) ==
    \/ batch'[v].ids = {} /\ \A d \in Docs : St(v, d)' = "absent"
    \/ /\ batch'[v].ids = batch[v].ids
       /\ \A d \in Docs :
            /\ St(v, d)' # "absent" => St(v, d) # "absent" /\ batch'[v].work[d].id = batch[v].work[d].id
            /\ Live(v, d)' => Live(v, d)
            /\ d \in Working(v)' => d \in Working(v)

\* Then the batch holds and owns nothing new.
LEMMA QuietShrinks ==
  ASSUME TypeInv, OldIds, OwnRow, NEW v \in Workers, RowsKeep, Quiet(v)
  PROVE  Held(v)' \subseteq Held(v) /\ Owned(v)' \subseteq Owned(v)
<1>0. nextId \notin batch[v].ids
  BY DEF OldIds, OldIdsOf, TypeInv, QueueOK
<1>1. CASE batch'[v].ids = {} /\ \A d \in Docs : St(v, d)' = "absent"
  BY <1>1 DEF Held, Owned, Working
<1>2. CASE /\ batch'[v].ids = batch[v].ids
           /\ \A d \in Docs :
                /\ St(v, d)' # "absent" => St(v, d) # "absent" /\ batch'[v].work[d].id = batch[v].work[d].id
                /\ Live(v, d)' => Live(v, d)
                /\ d \in Working(v)' => d \in Working(v)
  <2>1. ASSUME NEW i \in Held(v)' PROVE i \in Held(v)
    <3>1. i \in batch[v].ids /\ i \in DOMAIN table' /\ St(v, table[i].doc)' \notin {"absent", "settled"}
      BY <1>2, <2>1 DEF Held
    <3>2. i \in DOMAIN table /\ table'[i].doc = table[i].doc
      BY <3>1, <1>0 DEF RowsKeep, SameOp
    <3>3. table[i].doc \in Docs
      BY <3>2 DEF TypeInv, QueueOK, IsTable, Row
    <3> QED BY <1>2, <3>1, <3>2, <3>3 DEF Held, Live
  <2>2. ASSUME NEW d \in Owned(v)' PROVE d \in Owned(v)
    <3>1. d \in Docs /\ d \in Working(v)' /\ St(v, d)' # "absent"
          /\ batch'[v].work[d].id \in DOMAIN table'
      BY <2>2 DEF Owned, Working
    <3>2. d \in Working(v) /\ batch'[v].work[d].id = batch[v].work[d].id /\ St(v, d) # "absent"
      BY <1>2, <3>1
    <3>3. batch[v].work[d].id \in DOMAIN table
      BY <1>0, <3>1, <3>2 DEF RowsKeep, OwnRow, OwnRowOf
    <3> QED BY <3>2, <3>3 DEF Owned
  <2> QED BY <2>1, <2>2
<1> QED BY <1>1, <1>2 DEF Quiet

LEMMA EnqueueKeeps ==
  ASSUME TypeInv, NEW d \in Docs, NEW o \in OpKinds, Enqueue(d, o)
  PROVE  RowsKeep /\ ClaimsKeep
<1>q. IsTable(table) /\ nextId \in Nat /\ nextId \notin DOMAIN table
  BY DEF TypeInv, QueueOK
<1>1. CASE kb = "live"
  <2>1. table' = AddRow(table, nextId, d, o) /\ nextId' = nextId + 1
    BY <1>1 DEF Enqueue
  <2>2. DOMAIN table' = DOMAIN table \cup {nextId}
    BY <2>1, <1>q, AddRowTable
  <2>3. \A i \in DOMAIN table : table'[i] = table[i]
    BY <2>1, <1>q, RowsAfter
  <2> QED BY <2>1, <2>2, <2>3 DEF RowsKeep, ClaimsKeep, SameOp
<1>2. CASE kb # "live"
  BY <1>2, <1>q DEF Enqueue, RowsKeep, ClaimsKeep, SameOp
<1> QED BY <1>1, <1>2

LEMMA ScrubKeeps ==
  ASSUME TypeInv, NEW d, ScrubPending(d), nextId' = nextId
  PROVE  RowsKeep /\ ClaimsKeep
<1>q. IsTable(table) /\ nextId \notin DOMAIN table
  BY DEF TypeInv, QueueOK
<1> QED BY <1>q, ScrubTable, ScrubbedRow DEF ScrubPending, RowsKeep, ClaimsKeep, SameOp

\* Deleting rows, or all of them.
LEMMA DeleteKeeps ==
  ASSUME TypeInv, NEW I, table' \in {table, DeleteRows(table, I), NoRows}, nextId' = nextId
  PROVE  RowsKeep /\ ClaimsKeep
<1>q. IsTable(table) /\ nextId \notin DOMAIN table
  BY DEF TypeInv, QueueOK
<1>1. CASE table' = DeleteRows(table, I)
  <2>1. DOMAIN table' = DOMAIN table \ I
    BY <1>1, <1>q, DeleteTable
  <2>2. \A i \in DOMAIN table' : table'[i] = table[i]
    BY <1>1, <2>1, <1>q, RowsAfter
  <2> QED BY <2>1, <2>2, <1>q DEF RowsKeep, ClaimsKeep, SameOp
<1>2. CASE table' \in {table, NoRows}
  BY <1>2, <1>q, NoRowsTable DEF RowsKeep, ClaimsKeep, SameOp
<1> QED BY <1>1, <1>2

LEMMA RequeueRows ==
  ASSUME TypeInv, NEW w \in Workers, NEW d \in Docs, Requeue(w, d)
  PROVE  /\ DOMAIN table' = DOMAIN table
         /\ \A i \in DOMAIN table :
              /\ SameOp(table'[i], table[i])
              /\ i # batch[w].work[d].id => table'[i].claim = table[i].claim
<1> DEFINE id == batch[w].work[d].id
           t == IncrFail(table, id)
<1>q. IsTable(table)
  BY DEF TypeInv, QueueOK
<1>1. table' \in {table, t, ReleaseRows(t, {id})}
  BY DEF Requeue
<1>2. IsTable(t) /\ DOMAIN t = DOMAIN table
  BY <1>q, UpdateTable
<1>3. DOMAIN ReleaseRows(t, {id}) = DOMAIN t
  BY <1>2, UpdateTable
<1>4. \A i \in DOMAIN table : SameOp(t[i], table[i]) /\ t[i].claim = table[i].claim
  BY <1>q, RowsAfter
<1>5. \A i \in DOMAIN t : /\ SameOp(ReleaseRows(t, {id})[i], t[i])
                          /\ i # id => ReleaseRows(t, {id})[i] = t[i]
  BY <1>2, RowsAfter
<1> HIDE DEF t, id
<1>6. /\ DOMAIN table' = DOMAIN table
      /\ \A i \in DOMAIN table : /\ SameOp(table'[i], table[i])
                                 /\ i # id => table'[i].claim = table[i].claim
  BY <1>1, <1>2, <1>3, <1>4, <1>5 DEF SameOp
<1> QED BY <1>6 DEF id

\* Every step keeps the operations of the rows, and all steps but four kinds
\* keep the claims.
LEMMA StepKeepsRows ==
  ASSUME TypeInv, Next
  PROVE  /\ RowsKeep
         /\ \/ ClaimsKeep \/ Tick
            \/ \E w \in Workers : Claim(w) \/ Abort(w)
            \/ \E w \in Workers, d \in Docs : Requeue(w, d)
<1> DEFINE Goal == /\ RowsKeep
                   /\ \/ ClaimsKeep \/ Tick
                      \/ \E w \in Workers : Claim(w) \/ Abort(w)
                      \/ \E w \in Workers, d \in Docs : Requeue(w, d)
<1> USE DEF docVars, knVars, queueVars
<1>q. IsTable(table) /\ nextId \notin DOMAIN table
  BY DEF TypeInv, QueueOK
<1>0. ASSUME UNCHANGED <<table, nextId>> PROVE Goal
  BY <1>0, <1>q DEF RowsKeep, ClaimsKeep, SameOp
<1>1. ASSUME NEW d \in Docs, DocStep(d) PROVE Goal
  <2>1. CASE PostEnqueue(d) \/ DeleteRetract(d)
    BY <2>1, EnqueueKeeps DEF PostEnqueue, DeleteRetract, OpKinds
  <2>2. CASE Reparse(d) \/ ScrubStep(d)
    BY <2>2, ScrubKeeps DEF Reparse, ScrubStep
  <2>3. CASE PostProcess(d) \/ CancelMark(d) \/ DeleteMark(d)
    BY <2>3, <1>0 DEF PostProcess, CancelMark, DeleteMark
  <2> QED BY <1>1, <2>1, <2>2, <2>3 DEF DocStep
<1>2. CASE DeleteKB \/ CleanKB
  BY <1>2, DeleteKeeps DEF DeleteKB, CleanKB
<1>3. ASSUME NEW w \in Workers, NEW k \in TaskKinds, StartStep(w, k) PROVE Goal
  BY <1>3, DeleteKeeps DEF StartStep, StartDeleted, Start, StartCapped
<1>4. ASSUME NEW w \in Workers, BatchStep(w) PROVE Goal
  <2>1. CASE Claim(w)
    <3>1. RowsKeep
      BY <2>1, <1>q, UpdateTable, RowsAfter DEF Claim, RowsKeep
    <3> QED BY <2>1, <3>1
  <2>2. CASE Trim(w)
    <3>1. table' \in {table, DeleteRows(table, TrimIds(w)), NoRows} /\ nextId' = nextId
      BY <2>2 DEF Trim
    <3> QED BY <3>1, DeleteKeeps
  <2>3. CASE Abort(w)
    <3>1. RowsKeep
      BY <2>3, <1>q, UpdateTable, RowsAfter DEF Abort, RowsKeep
    <3> QED BY <2>3, <3>1
  <2>4. CASE ClaimNothing(w) \/ ClaimFails(w) \/ Finish(w)
    BY <2>4, <1>0 DEF ClaimNothing, ClaimFails, Finish
  <2> QED BY <1>4, <2>1, <2>2, <2>3, <2>4 DEF BatchStep
<1>5. ASSUME NEW w \in Workers, Crash(w) \/ Restart(w) PROVE Goal
  BY <1>5, DeleteKeeps DEF Crash, Restart
<1>6. ASSUME NEW w \in Workers, NEW d \in Docs, OpStep(w, d) PROVE Goal
  <2>1. CASE Requeue(w, d)
    <3>1. RowsKeep
      BY <2>1, <1>q, RequeueRows DEF RowsKeep, Requeue
    <3> QED BY <2>1, <3>1
  <2>2. CASE DropDead(w, d)
    <3>1. table' \in {table, DeleteRows(table, {batch[w].work[d].id}), NoRows} /\ nextId' = nextId
      BY <2>2 DEF DropDead
    <3> QED BY <3>1, DeleteKeeps
  <2>3. CASE UNCHANGED <<table, nextId>>
    BY <2>3, <1>0
  <2> QED BY <1>6, <2>1, <2>2, <2>3
        DEF OpStep, MapSkip, MapIngest, MapRetract, ReduceRead, ReduceWrite, ReduceUnapplied,
            DrainDoc, DeadLetter
<1>7. CASE ExpireSlot
  BY <1>7, <1>0 DEF ExpireSlot
<1>8. CASE Tick
  <2>1. RowsKeep
    BY <1>8, <1>q, AgeTable, AgedRow DEF Tick, RowsKeep
  <2> QED BY <1>8, <2>1
<1> QED BY <1>1, <1>2, <1>3, <1>4, <1>5, <1>6, <1>7, <1>8 DEF Next

-----------------------------------------------------------------------------
(* What a step does to a batch. *)

\* Quiet(v), and nothing held before the claim.
BatchAfter(v) ==
    /\ Quiet(v)
    /\ batch'[v].pc \in {"idle", "down", "claim"} =>
          batch'[v].ids = {} /\ \A d \in Docs : St(v, d)' = "absent"

LEMMA SameBatch ==
  ASSUME BaseInv, NEW v \in Workers, batch'[v] = batch[v]
  PROVE  BatchAfter(v)
  BY DEF BaseInv, BatchAfter, Quiet, Live, Working, St, NothingYet, AllIn

LEMMA EmptyBatch ==
  ASSUME NEW v \in Workers, batch'[v].ids = {}, batch'[v].work = [d \in Docs |-> NoOp]
  PROVE  BatchAfter(v)
  BY DEF BatchAfter, Quiet, St, NoOp

\* A batch that goes on without a change of its operations.
LEMMA OnlyAge ==
  ASSUME BaseInv, NEW v \in Workers, NEW n, batch'[v] = [batch[v] EXCEPT !.age = n]
  PROVE  BatchAfter(v)
<1>1. batch[v] \in Batch
  BY DEF BaseInv, TypeInv, WorkersOK
<1>2. /\ batch'[v].ids = batch[v].ids /\ batch'[v].work = batch[v].work
      /\ batch'[v].pc = batch[v].pc
  BY <1>1 DEF Batch
<1> QED BY <1>2 DEF BaseInv, BatchAfter, Quiet, Live, Working, St, NothingYet, AllIn

LEMMA ToSettle ==
  ASSUME BaseInv, NEW v \in Workers, batch[v].pc = "work",
         \/ batch'[v] = [batch[v] EXCEPT !.pc = "settle"]
         \/ batch'[v] = [batch[v] EXCEPT !.pc = "settle", !.err = TRUE]
  PROVE  BatchAfter(v)
<1>1. batch[v] \in Batch
  BY DEF BaseInv, TypeInv, WorkersOK
<1>2. /\ batch'[v].ids = batch[v].ids /\ batch'[v].work = batch[v].work
      /\ batch'[v].pc = "settle"
  BY <1>1 DEF Batch
<1> QED BY <1>2 DEF BatchAfter, Quiet, Live, Working, St

\* A step on one document of a batch: the operation was live and stays an
\* operation.
LEMMA OpStepAfter ==
  ASSUME BaseInv, NEW w \in Workers, NEW d \in Docs, OpStep(w, d)
  PROVE  /\ BatchAfter(w) /\ batch'[w].age = batch[w].age
         /\ \A v \in Workers \ {w} : batch'[v] = batch[v]
<1>1. PICK s \in OpStates \ {"absent"} : SetSt(w, d, s) \/ FailSt(w, d, s)
  BY DEF OpStep, MapSkip, MapIngest, MapRetract, ReduceRead, ReduceWrite, ReduceUnapplied,
     DrainDoc, Requeue, DeadLetter, DropDead, OpStates
<1>2. d \in Working(w) /\ Live(w, d) /\ batch[w].pc \in {"work", "settle"}
  BY DEF OpStep, MapSkip, MapIngest, MapRetract, ReduceRead, ReduceWrite, ReduceUnapplied,
     DrainDoc, Requeue, DeadLetter, DropDead, Working, Live
<1>3. /\ \A v \in Workers \ {w} : batch'[v] = batch[v]
      /\ \A e \in Docs : /\ batch'[w].work[e].id = batch[w].work[e].id
                         /\ batch'[w].work[e].st = IF e = d THEN s ELSE batch[w].work[e].st
      /\ batch'[w].ids = batch[w].ids /\ batch'[w].pc = batch[w].pc
      /\ batch'[w].age = batch[w].age
  BY <1>1, SetStFacts DEF BaseInv, TypeInv, WorkersOK
<1>4. batch'[w].pc \notin {"idle", "down", "claim"}
  BY <1>2, <1>3
<1>5. ASSUME NEW e \in Docs
      PROVE  /\ St(w, e)' # "absent" => St(w, e) # "absent" /\ batch'[w].work[e].id = batch[w].work[e].id
             /\ Live(w, e)' => Live(w, e)
             /\ e \in Working(w)' => e \in Working(w)
  <2>1. CASE e = d
    BY <1>2, <1>3, <2>1 DEF St, Live
  <2>2. CASE e # d
    BY <1>3, <2>2 DEF St, Live, Working
  <2> QED BY <2>1, <2>2
<1> QED BY <1>3, <1>4, <1>5 DEF BatchAfter, Quiet

\* No step but Claim(v) gives the batch of v anything new to hold.
LEMMA StepBatchAfter ==
  ASSUME BaseInv, Next, NEW v \in Workers, ~Claim(v)
  PROVE  BatchAfter(v)
<1> USE DEF docVars, knVars, queueVars
<1>b. batch \in [Workers -> Batch]
  BY DEF BaseInv, TypeInv, WorkersOK
<1>i. ASSUME NEW w \in Workers, batch' = [batch EXCEPT ![w] = Idle] PROVE BatchAfter(v)
  BY <1>b, <1>i, SameBatch, EmptyBatch DEF Idle
<1>0. CASE batch' = batch
  BY <1>0, SameBatch
<1>1. ASSUME NEW d \in Docs, DocStep(d) PROVE BatchAfter(v)
  BY <1>0, <1>1
     DEF DocStep, PostProcess, PostEnqueue, Reparse, CancelMark, DeleteMark, ScrubStep, DeleteRetract
<1>2. CASE DeleteKB \/ CleanKB \/ ExpireSlot
  BY <1>0, <1>2 DEF DeleteKB, CleanKB, ExpireSlot
<1>3. ASSUME NEW w \in Workers, NEW k \in TaskKinds, StartStep(w, k) PROVE BatchAfter(v)
  <2>1. CASE batch' = batch
    BY <2>1, <1>0
  <2>2. CASE Start(w, k)
    <3>1. \/ batch' = [batch EXCEPT ![w] = [Idle EXCEPT !.pc = "claim", !.kind = k, !.slot = TRUE]]
          \/ batch' = [batch EXCEPT ![w] = [Idle EXCEPT !.pc = "claim", !.kind = k]]
      BY <2>2 DEF Start
    <3>2. CASE v = w
      <4>1. batch'[v].ids = {} /\ batch'[v].work = [d \in Docs |-> NoOp]
        BY <1>b, <3>1, <3>2 DEF Idle
      <4> QED BY <4>1, EmptyBatch
    <3>3. CASE v # w
      BY <1>b, <3>1, <3>3, SameBatch
    <3> QED BY <3>2, <3>3
  <2> QED BY <1>3, <2>1, <2>2 DEF StartStep, StartDeleted, StartCapped
<1>4. ASSUME NEW w \in Workers, BatchStep(w) PROVE BatchAfter(v)
  <2>1. CASE Claim(w)
    <3>1. v # w
      BY <2>1
    <3> QED BY <1>b, <2>1, <3>1, SameBatch DEF Claim
  <2>2. CASE Trim(w)
    <3>1. /\ \/ batch' = [batch EXCEPT ![w].pc = "settle"]
             \/ batch' = [batch EXCEPT ![w].pc = "settle", ![w].err = TRUE]
          /\ batch[w].pc = "work"
      BY <2>2 DEF Trim
    <3> QED BY <1>b, <3>1, ToSettle, SameBatch
  <2>3. CASE ClaimNothing(w) \/ ClaimFails(w) \/ Finish(w) \/ Abort(w)
    BY <2>3, <1>i DEF ClaimNothing, ClaimFails, Finish, Abort
  <2> QED BY <1>4, <2>1, <2>2, <2>3 DEF BatchStep
<1>5. ASSUME NEW w \in Workers, Crash(w) \/ Restart(w) PROVE BatchAfter(v)
  <2>1. CASE Crash(w)
    <3>1. batch' = [batch EXCEPT ![w] = [Idle EXCEPT !.pc = "down"]]
      BY <2>1 DEF Crash
    <3> QED BY <1>b, <3>1, SameBatch, EmptyBatch DEF Idle
  <2>2. CASE Restart(w)
    BY <2>2, <1>i DEF Restart
  <2> QED BY <1>5, <2>1, <2>2
<1>6. ASSUME NEW w \in Workers, NEW d \in Docs, OpStep(w, d) PROVE BatchAfter(v)
  BY <1>6, OpStepAfter, SameBatch
<1>7. CASE Tick
  <2>1. CASE Running(v)
    <3>1. batch'[v] = [batch[v] EXCEPT !.age = batch[v].age + 1]
      BY <1>7, <2>1 DEF Tick
    <3> QED BY <3>1, OnlyAge
  <2>2. CASE ~Running(v)
    BY <1>7, <2>2, SameBatch DEF Tick
  <2> QED BY <2>1, <2>2
<1> QED BY <1>1, <1>2, <1>3, <1>4, <1>5, <1>6, <1>7 DEF Next

-----------------------------------------------------------------------------
(* The invariant is inductive. *)

LEMMA QuietKeeps ==
  ASSUME BaseInv, RowsKeep, NEW v \in Workers, BatchAfter(v)
  PROVE  OldIdsOf(v)' /\ OwnRowOf(v)' /\ Held(v)' \subseteq Held(v) /\ Owned(v)' \subseteq Owned(v)
<1>0. /\ TypeInv /\ OldIds /\ OwnRow
      /\ \A i \in batch[v].ids : i < nextId
      /\ nextId \in Nat /\ nextId \notin batch[v].ids /\ batch[v].ids \subseteq Nat
  BY DEF BaseInv, OldIds, OldIdsOf, TypeInv, QueueOK, WorkersOK, Batch
<1>1. OldIdsOf(v)'
  <2>1. batch'[v].ids \subseteq batch[v].ids /\ nextId' \in {nextId, nextId + 1}
    BY DEF BatchAfter, Quiet, RowsKeep
  <2> QED BY <1>0, <2>1 DEF OldIdsOf
<1>2. OwnRowOf(v)'
  <2> SUFFICES ASSUME NEW d \in Docs, St(v, d)' # "absent"
               PROVE  /\ batch'[v].work[d].id \in batch'[v].ids
                      /\ batch'[v].work[d].id \in DOMAIN table' => table'[batch'[v].work[d].id].doc = d
    BY DEF OwnRowOf
  <2>1. /\ batch'[v].ids = batch[v].ids
        /\ St(v, d) # "absent" /\ batch'[v].work[d].id = batch[v].work[d].id
    BY DEF BatchAfter, Quiet
  <2>2. /\ batch[v].work[d].id \in batch[v].ids
        /\ batch[v].work[d].id \in DOMAIN table => table[batch[v].work[d].id].doc = d
    BY <1>0, <2>1 DEF OwnRow, OwnRowOf
  <2> QED BY <1>0, <2>1, <2>2 DEF RowsKeep, SameOp
<1>3. Held(v)' \subseteq Held(v) /\ Owned(v)' \subseteq Owned(v)
  BY <1>0, QuietShrinks DEF BatchAfter
<1> QED BY <1>1, <1>2, <1>3

\* ClaimBatch only returns rows of documents without a fresh claim.
LEMMA ClaimedAreStale ==
  ASSUME NEW t, NEW n, NEW i \in ClaimIds(t, n)
  PROVE  i \in DOMAIN t /\ \A j \in DOMAIN t : t[j].doc = t[i].doc => ~Fresh(t[j])
  BY DEF ClaimIds, Chosen, Claimable, RowsOf

\* What a claim does: the batch has the operation of the last claimed row of
\* each document, the other batches go on as before.
ClaimedIds == ClaimIds(table, BatchDocs)

ClaimedDocs == {table[i].doc : i \in ClaimedIds}

ClaimedRow(d) == LastOf(table, ClaimedIds, d)

LEMMA ClaimEffect ==
  ASSUME TypeInv, NEW w \in Workers, Claim(w)
  PROVE  /\ ClaimedIds \subseteq DOMAIN table
         /\ table' = Stamp(table, ClaimedIds) /\ DOMAIN table' = DOMAIN table /\ nextId' = nextId
         /\ batch'[w].pc = "work" /\ batch'[w].ids = ClaimedIds /\ batch'[w].err = batch[w].err
         /\ batch'[w].age = batch[w].age /\ batch'[w].slot = batch[w].slot
         /\ \A d \in Docs :
              /\ d \in ClaimedDocs => /\ St(w, d)' = "todo"
                                      /\ batch'[w].work[d].id = ClaimedRow(d)
                                      /\ batch'[w].work[d].op = table[ClaimedRow(d)].op
              /\ d \notin ClaimedDocs => St(w, d)' = "absent"
         /\ \A d \in ClaimedDocs : ClaimedRow(d) \in ClaimedIds /\ table[ClaimedRow(d)].doc = d
         /\ \A v \in Workers \ {w} : batch'[v] = batch[v]
<1> DEFINE f == [d \in Docs |-> IF d \in ClaimedDocs
                                THEN [id |-> ClaimedRow(d), op |-> table[ClaimedRow(d)].op, st |-> "todo"]
                                ELSE NoOp]
<1>0. /\ QueueOK /\ IsTable(table) /\ batch \in [Workers -> Batch] /\ batch[w] \in Batch
  BY DEF TypeInv, QueueOK, WorkersOK
<1>1. ClaimedIds \subseteq DOMAIN table
  BY ClaimedAreStale DEF ClaimedIds
<1>2. table' = Stamp(table, ClaimedIds) /\ DOMAIN table' = DOMAIN table /\ nextId' = nextId
  BY <1>0, UpdateTable DEF Claim, ClaimedIds, queueVars
<1>3. \A d \in ClaimedDocs : ClaimedRow(d) \in ClaimedIds /\ table[ClaimedRow(d)].doc = d
  BY <1>0, <1>1, ClaimLast DEF ClaimedRow, ClaimedDocs
<1>4. batch' = [batch EXCEPT ![w].pc = "work", ![w].ids = ClaimedIds, ![w].work = f]
  BY DEF Claim, ClaimedIds, ClaimedDocs, ClaimedRow
<1>5. \A d \in Docs :
        /\ d \in ClaimedDocs => /\ f[d].st = "todo" /\ f[d].id = ClaimedRow(d)
                                /\ f[d].op = table[ClaimedRow(d)].op
        /\ d \notin ClaimedDocs => f[d].st = "absent"
  BY DEF NoOp
<1> HIDE DEF f
<1>6. batch' = [batch EXCEPT ![w] = [batch[w] EXCEPT !.pc = "work", !.ids = ClaimedIds, !.work = f]]
  BY <1>4, <1>0
<1>7. /\ batch'[w].pc = "work" /\ batch'[w].ids = ClaimedIds /\ batch'[w].err = batch[w].err
      /\ batch'[w].age = batch[w].age /\ batch'[w].slot = batch[w].slot /\ batch'[w].work = f
      /\ \A v \in Workers \ {w} : batch'[v] = batch[v]
  BY <1>0, <1>6 DEF Batch
<1> QED BY <1>1, <1>2, <1>3, <1>5, <1>7 DEF St

LEMMA ClaimKeepsBase ==
  ASSUME BaseInv, NEW w \in Workers, Claim(w)
  PROVE  OldIdsOf(w)' /\ OwnRowOf(w)' /\ (batch'[w].pc \notin {"idle", "down", "claim"})
<1>0. TypeInv /\ IsTable(table) /\ nextId \in Nat /\ \A i \in DOMAIN table : i < nextId
  BY DEF BaseInv, TypeInv, QueueOK
<1>1. OldIdsOf(w)'
  BY <1>0, ClaimEffect DEF OldIdsOf
<1>2. ASSUME NEW d \in Docs, St(w, d)' # "absent"
      PROVE  /\ batch'[w].work[d].id \in batch'[w].ids
             /\ batch'[w].work[d].id \in DOMAIN table' => table'[batch'[w].work[d].id].doc = d
  <2>1. d \in ClaimedDocs
    BY <1>0, <1>2, ClaimEffect
  <2>2. batch'[w].work[d].id = ClaimedRow(d) /\ ClaimedRow(d) \in ClaimedIds
        /\ table[ClaimedRow(d)].doc = d /\ batch'[w].ids = ClaimedIds
    BY <1>0, <2>1, ClaimEffect
  <2>3. table' = Stamp(table, ClaimedIds) /\ ClaimedIds \subseteq DOMAIN table
    BY <1>0, ClaimEffect
  <2> QED BY <1>0, <2>2, <2>3, RowsAfter DEF SameOp
<1> QED BY <1>0, <1>1, <1>2, ClaimEffect DEF OwnRowOf

LEMMA NextBaseInv == BaseInv /\ [Next]_vars => BaseInv'
<1>1. ASSUME BaseInv, Next PROVE BaseInv'
  <2>1. TypeInv' /\ RowsKeep
    BY <1>1, NextTypeInv, StepKeepsRows DEF BaseInv
  <2>2. ASSUME NEW v \in Workers
        PROVE  /\ OldIdsOf(v)' /\ OwnRowOf(v)'
               /\ batch'[v].pc \in {"idle", "down", "claim"} =>
                     batch'[v].ids = {} /\ \A d \in Docs : St(v, d)' = "absent"
    <3>1. CASE Claim(v)
      BY <1>1, <3>1, ClaimKeepsBase
    <3>2. CASE ~Claim(v)
      <4>1. BatchAfter(v)
        BY <1>1, <3>2, StepBatchAfter
      <4> QED BY <1>1, <2>1, <4>1, QuietKeeps DEF BatchAfter
    <3> QED BY <3>1, <3>2
  <2>3. OldIds' /\ OwnRow' /\ NothingYet'
    BY <2>2 DEF OldIds, OwnRow, NothingYet, AllIn
  <2> QED BY <2>1, <2>3 DEF BaseInv
<1>2. ASSUME BaseInv, UNCHANGED vars PROVE BaseInv'
  <2>1. TypeInv'
    BY <1>2, NextTypeInv DEF BaseInv
  <2> QED BY <1>2, <2>1 DEF vars, BaseInv, OldIds, OldIdsOf, OwnRow, OwnRowOf, NothingYet, St, AllIn
<1> QED BY <1>1, <1>2

LEMMA AlwaysBaseInv == Spec => []BaseInv
  BY InitBaseInv, NextBaseInv, PTL DEF Spec

-----------------------------------------------------------------------------
(* What a step means to one document: the steps of the document itself,    *)
(* those of batches on it, claims and trims; all others leave it, its rows *)
(* and the operations on it as they are, but for batches that end and the  *)
(* rows of a knowledge base that is deleted.                               *)

DocKept(d) ==
    /\ kn'[d] = kn[d] /\ drained'[d] = drained[d]
    /\ d \in posting' <=> d \in posting
    /\ d \in refs' <=> d \in refs
    /\ d \in closed' <=> d \in closed
    /\ d \in overtaken' <=> d \in overtaken

RowsFewer(d) ==
    /\ RowsOf(table', d) \subseteq RowsOf(table, d)
    /\ \A i \in RowsOf(table', d) : table'[i].op = table[i].op

RowsSame(d) == RowsFewer(d) /\ RowsOf(table', d) = RowsOf(table, d)

OpKept(v, d) ==
    batch'[v].ids = batch[v].ids /\ batch'[v].pc = batch[v].pc /\ batch'[v].work[d] = batch[v].work[d]

Ended(v, d) ==
    /\ batch'[v].ids = {} /\ St(v, d)' = "absent"
    /\ St(v, d) # "absent" => Finish(v) \/ Abort(v) \/ Crash(v)

Elsewhere(d) ==
    /\ DocKept(d) /\ RowsFewer(d) /\ (kb' = "live" => RowsSame(d))
    /\ \A v \in Workers : OpKept(v, d) \/ Ended(v, d)

\* The rows of a document after a step that inserts none for it.
LEMMA RowsStay ==
  ASSUME TypeInv, RowsKeep, NEW d, nextId' = nextId \/ table'[nextId].doc # d
  PROVE  /\ RowsFewer(d)
         /\ (\A i \in RowsOf(table, d) : i \in DOMAIN table') => RowsSame(d)
<1>0. nextId \in Nat /\ nextId \notin DOMAIN table
  BY DEF TypeInv, QueueOK
<1>1. ASSUME NEW i \in RowsOf(table', d)
      PROVE  i \in RowsOf(table, d) /\ table'[i].op = table[i].op
  <2>1. i \in DOMAIN table' /\ table'[i].doc = d
    BY DEF RowsOf
  <2>2. i \in DOMAIN table
    BY <1>0, <2>1 DEF RowsKeep
  <2> QED BY <2>1, <2>2 DEF RowsKeep, SameOp, RowsOf
<1>2. RowsFewer(d)
  BY <1>1 DEF RowsFewer
<1>3. ASSUME \A i \in RowsOf(table, d) : i \in DOMAIN table' PROVE RowsSame(d)
  <2>1. \A i \in RowsOf(table, d) : i \in RowsOf(table', d)
    BY <1>3 DEF RowsOf, RowsKeep, SameOp
  <2> QED BY <1>2, <2>1 DEF RowsSame, RowsFewer
<1> QED BY <1>2, <1>3

\* A step of another document.
LEMMA OtherDocStep ==
  ASSUME BaseInv, Next, NEW d \in Docs, NEW e \in Docs, e # d, DocStep(e)
  PROVE  Elsewhere(d) /\ kb' = kb
<1> USE DEF docVars, knVars, queueVars
<1>0. TypeInv /\ RowsKeep /\ IsTable(table) /\ nextId \in Nat /\ nextId \notin DOMAIN table
  BY StepKeepsRows DEF BaseInv, TypeInv, QueueOK
<1>1. \A v \in Workers : OpKept(v, d)
  BY DEF OpKept, DocStep, PostProcess, PostEnqueue, Reparse, CancelMark, DeleteMark, ScrubStep, DeleteRetract
<1>2. DocKept(d) /\ kb' = kb
  <2>1. kn \in [Docs -> DocStates] /\ drained \in [Docs -> Nat]
    BY <1>0 DEF TypeInv, DocsOK
  <2> QED BY <2>1 DEF DocKept, DocStep, PostProcess, PostEnqueue, Reparse, CancelMark, DeleteMark, ScrubStep,
                      DeleteRetract
<1>3. RowsSame(d)
  <2>1. ASSUME table' = table, nextId' = nextId PROVE RowsSame(d)
    BY <1>0, <2>1, RowsStay DEF RowsOf
  <2>2. CASE PostEnqueue(e) \/ DeleteRetract(e)
    <3>1. PICK o \in OpKinds : Enqueue(e, o)
      BY <2>2 DEF PostEnqueue, DeleteRetract, OpKinds
    <3>2. CASE table' = AddRow(table, nextId, e, o)
      <4>1. DOMAIN table' = DOMAIN table \cup {nextId} /\ table'[nextId].doc = e
        BY <1>0, <3>2, AddRowTable DEF AddRow
      <4> QED BY <1>0, <4>1, RowsStay DEF RowsOf
    <3> QED BY <2>1, <3>1, <3>2 DEF Enqueue
  <2>3. CASE Reparse(e) \/ ScrubStep(e)
    <3>1. ScrubPending(e) /\ nextId' = nextId
      BY <2>3 DEF Reparse, ScrubStep
    <3>2. CASE table' = Scrub(table, e)
      <4>1. \A i \in RowsOf(table, d) : i \in DOMAIN table'
        BY <3>2 DEF Scrub, DeleteRows, RowsOf
      <4> QED BY <1>0, <3>1, <4>1, RowsStay
    <3> QED BY <2>1, <3>1, <3>2 DEF ScrubPending
  <2>4. CASE PostProcess(e) \/ CancelMark(e) \/ DeleteMark(e)
    BY <2>1, <2>4 DEF PostProcess, CancelMark, DeleteMark
  <2> QED BY <2>2, <2>3, <2>4 DEF DocStep
<1> QED BY <1>1, <1>2, <1>3 DEF Elsewhere, RowsSame

\* A step of a batch on one document: what it does to the operation, and to
\* the rows.
LEMMA OpFrame ==
  ASSUME BaseInv, Next, NEW w \in Workers, NEW d \in Docs, OpStep(w, d)
  PROVE  /\ kb' = kb /\ kn' = kn /\ posting' = posting
         /\ \A v \in Workers \ {w} : batch'[v] = batch[v]
         /\ batch'[w].ids = batch[w].ids /\ batch'[w].pc = batch[w].pc /\ batch'[w].slot = batch[w].slot
         /\ batch'[w].work[d].id = batch[w].work[d].id /\ batch'[w].work[d].op = batch[w].work[d].op
         /\ \A e \in Docs \ {d} : batch'[w].work[e] = batch[w].work[e]
         /\ RowsFewer(d) /\ (DropDead(w, d) \/ RowsSame(d))
         /\ \A e \in Docs \ {d} : RowsSame(e)
<1> USE DEF docVars, knVars, queueVars
<1>0. TypeInv /\ RowsKeep /\ IsTable(table) /\ nextId \in Nat /\ nextId \notin DOMAIN table
  BY StepKeepsRows DEF BaseInv, TypeInv, QueueOK
<1>1. kb' = kb /\ kn' = kn /\ posting' = posting /\ nextId' = nextId
  BY DEF OpStep, MapSkip, MapIngest, MapRetract, ReduceRead, ReduceWrite, ReduceUnapplied,
     DrainDoc, Requeue, DeadLetter, DropDead
<1>2. PICK s \in OpStates : SetSt(w, d, s) \/ FailSt(w, d, s)
  BY DEF OpStep, MapSkip, MapIngest, MapRetract, ReduceRead, ReduceWrite, ReduceUnapplied,
     DrainDoc, Requeue, DeadLetter, DropDead, OpStates
<1>3. /\ \A v \in Workers \ {w} : batch'[v] = batch[v]
      /\ batch'[w].ids = batch[w].ids /\ batch'[w].pc = batch[w].pc /\ batch'[w].slot = batch[w].slot
      /\ batch'[w].work[d].id = batch[w].work[d].id /\ batch'[w].work[d].op = batch[w].work[d].op
      /\ \A e \in Docs \ {d} : batch'[w].work[e] = batch[w].work[e]
  BY <1>0, <1>2, SetStFacts DEF TypeInv, WorkersOK
<1>4. \A e : RowsFewer(e) /\ ((\A i \in RowsOf(table, e) : i \in DOMAIN table') => RowsSame(e))
  BY <1>0, <1>1, RowsStay
<1>5. CASE DropDead(w, d)
  <2> DEFINE id == batch[w].work[d].id
  <2>1. table' \in {table, DeleteRows(table, {id})}
    BY <1>5 DEF DropDead
  <2>2. id \in DOMAIN table => table[id].doc = d
    BY <1>5 DEF DropDead, BaseInv, OwnRow, OwnRowOf
  <2>3. \A e \in Docs \ {d} : \A i \in RowsOf(table, e) : i \in DOMAIN table'
    BY <2>1, <2>2 DEF DeleteRows, RowsOf
  <2> QED BY <1>1, <1>3, <1>4, <1>5, <2>3
<1>6. CASE Requeue(w, d)
  <2>1. DOMAIN table' = DOMAIN table
    BY <1>0, <1>6, RequeueRows
  <2> QED BY <1>1, <1>3, <1>4, <2>1 DEF RowsOf
<1>7. CASE table' = table
  BY <1>1, <1>3, <1>4, <1>7 DEF RowsOf
<1> QED BY <1>5, <1>6, <1>7
        DEF OpStep, MapSkip, MapIngest, MapRetract, ReduceRead, ReduceWrite, ReduceUnapplied,
            DrainDoc, DeadLetter

\* A step of a batch on another document.
LEMMA OtherOpStep ==
  ASSUME BaseInv, Next, NEW d \in Docs, NEW w \in Workers, NEW e \in Docs, e # d, OpStep(w, e)
  PROVE  Elsewhere(d) /\ kb' = kb
<1>0. drained \in [Docs -> Nat]
  BY DEF BaseInv, TypeInv, DocsOK
<1>1. DocKept(d)
  BY <1>0 DEF DocKept, docVars, knVars, Drain, OpStep, MapSkip, MapIngest, MapRetract, ReduceRead, ReduceWrite,
              ReduceUnapplied, DrainDoc, Requeue, DeadLetter, DropDead
<1>2. RowsSame(d) /\ kb' = kb
  BY OpFrame
<1>3. \A v \in Workers : OpKept(v, d)
  BY OpFrame DEF OpKept
<1> QED BY <1>1, <1>2, <1>3 DEF Elsewhere, RowsSame

\* A batch that starts, ends or grows older.
LEMMA OtherBatchStep ==
  ASSUME BaseInv, Next, NEW d \in Docs,
         \/ DeleteKB \/ CleanKB \/ ExpireSlot \/ Tick
         \/ \E w \in Workers, k \in TaskKinds : StartStep(w, k)
         \/ \E w \in Workers : \/ ClaimNothing(w) \/ ClaimFails(w) \/ Finish(w) \/ Abort(w)
                               \/ Crash(w) \/ Restart(w)
  PROVE  Elsewhere(d) /\ (kb' = "live" => kb = "live")
<1> USE DEF docVars, knVars, queueVars
<1>0. TypeInv /\ RowsKeep /\ IsTable(table) /\ batch \in [Workers -> Batch]
  BY StepKeepsRows DEF BaseInv, TypeInv, QueueOK, WorkersOK
<1>n. nextId' = nextId /\ (kb' = "live" => kb = "live") /\ UNCHANGED docVars
  BY DEF DeleteKB, CleanKB, ExpireSlot, Tick, StartStep, StartDeleted, Start, StartCapped,
         ClaimNothing, ClaimFails, Finish, Abort, Crash, Restart
<1>1. DocKept(d)
  BY <1>n DEF DocKept
<1>2. RowsFewer(d) /\ ((\A i \in RowsOf(table, d) : i \in DOMAIN table') => RowsSame(d))
  BY <1>0, <1>n, RowsStay
<1>3. kb' = "live" => DOMAIN table' = DOMAIN table
  BY <1>0, UpdateTable, AgeTable
     DEF DeleteKB, CleanKB, ExpireSlot, Tick, StartStep, StartDeleted, Start, StartCapped,
         ClaimNothing, ClaimFails, Finish, Abort, Crash, Restart
<1>4. ASSUME NEW v \in Workers PROVE OpKept(v, d) \/ Ended(v, d)
  <2>1. CASE batch'[v] = batch[v]
    BY <2>1 DEF OpKept
  <2>2. CASE Tick
    <3>1. batch'[v] = [batch[v] EXCEPT !.age = batch[v].age + 1] \/ batch'[v] = batch[v]
      BY <2>2 DEF Tick
    <3> QED BY <1>0, <2>1, <3>1 DEF OpKept, Batch
  <2>3. CASE DeleteKB \/ CleanKB \/ ExpireSlot
    BY <2>1, <2>3 DEF DeleteKB, CleanKB, ExpireSlot
  <2>4. ASSUME NEW w \in Workers, NEW b, b.ids = {}, b.work = [e \in Docs |-> NoOp],
               batch' = [batch EXCEPT ![w] = b],
               w = v => St(v, d) = "absent" \/ Finish(v) \/ Abort(v) \/ Crash(v)
        PROVE  OpKept(v, d) \/ Ended(v, d)
    <3>1. CASE v = w
      BY <1>0, <2>4, <3>1 DEF Ended, St, NoOp
    <3> QED BY <1>0, <2>1, <2>4, <3>1
  <2>i. Idle.ids = {} /\ Idle.work = [e \in Docs |-> NoOp]
    BY DEF Idle
  <2>5. ASSUME NEW w \in Workers, NEW k \in TaskKinds, StartStep(w, k)
        PROVE  OpKept(v, d) \/ Ended(v, d)
    <3>1. CASE Start(w, k)
      <4>1. St(w, d) = "absent"
        BY <3>1 DEF Start, BaseInv, NothingYet, AllIn
      <4>2. \/ batch' = [batch EXCEPT ![w] = [Idle EXCEPT !.pc = "claim", !.kind = k, !.slot = TRUE]]
            \/ batch' = [batch EXCEPT ![w] = [Idle EXCEPT !.pc = "claim", !.kind = k]]
        BY <3>1 DEF Start
      <4> QED BY <2>4, <4>1, <4>2 DEF Idle
    <3> QED BY <2>1, <2>5, <3>1 DEF StartStep, StartDeleted, StartCapped
  <2>6. ASSUME NEW w \in Workers, ClaimNothing(w) \/ ClaimFails(w) \/ Restart(w)
        PROVE  OpKept(v, d) \/ Ended(v, d)
    <3>1. St(w, d) = "absent"
      BY <2>6 DEF ClaimNothing, ClaimFails, Restart, BaseInv, NothingYet, AllIn
    <3> QED BY <2>i, <2>4, <2>6, <3>1 DEF ClaimNothing, ClaimFails, Restart
  <2>7. ASSUME NEW w \in Workers, Finish(w) \/ Abort(w)
        PROVE  OpKept(v, d) \/ Ended(v, d)
    BY <2>i, <2>4, <2>7 DEF Finish, Abort
  <2>8. ASSUME NEW w \in Workers, Crash(w) PROVE OpKept(v, d) \/ Ended(v, d)
    <3>1. batch' = [batch EXCEPT ![w] = [Idle EXCEPT !.pc = "down"]]
      BY <2>8 DEF Crash
    <3> QED BY <2>4, <2>8, <3>1 DEF Idle
  <2> QED BY <2>2, <2>3, <2>5, <2>6, <2>7, <2>8
<1> QED BY <1>n, <1>1, <1>2, <1>3, <1>4 DEF Elsewhere, RowsOf

\* A trim deletes rows and changes nothing else for a document.
LEMMA TrimFrame ==
  ASSUME BaseInv, Next, NEW w \in Workers, Trim(w), NEW d \in Docs
  PROVE  /\ kb' = kb /\ DocKept(d) /\ RowsFewer(d)
         /\ \A i \in RowsOf(table, d) : i \in TrimIds(w) \/ i \in RowsOf(table', d)
         /\ Fault("settle") \/ \A i \in RowsOf(table', d) : i \notin TrimIds(w)
         /\ \A v \in Workers : batch'[v].ids = batch[v].ids /\ batch'[v].work = batch[v].work
         /\ \A v \in Workers \ {w} : batch'[v].pc = batch[v].pc
<1> USE DEF docVars, knVars, queueVars
<1>0. TypeInv /\ RowsKeep /\ IsTable(table) /\ batch \in [Workers -> Batch]
  BY StepKeepsRows DEF BaseInv, TypeInv, QueueOK, WorkersOK
<1>1. kb' = kb /\ DocKept(d) /\ nextId' = nextId
  BY DEF Trim, DocKept
<1>2. RowsFewer(d)
  BY <1>0, <1>1, RowsStay
<1>3. /\ \A i \in RowsOf(table, d) : i \in TrimIds(w) \/ i \in RowsOf(table', d)
      /\ Fault("settle") \/ \A i \in RowsOf(table', d) : i \notin TrimIds(w)
  <2>1. table' = DeleteRows(table, TrimIds(w)) \/ (table' = table /\ Fault("settle"))
    BY DEF Trim
  <2>2. \A i \in DOMAIN table \ TrimIds(w) : DeleteRows(table, TrimIds(w))[i] = table[i]
    BY <1>0, RowsAfter
  <2>3. DOMAIN DeleteRows(table, TrimIds(w)) = DOMAIN table \ TrimIds(w)
    BY <1>0, DeleteTable
  <2> QED BY <2>1, <2>2, <2>3 DEF RowsOf
<1>4. ASSUME NEW b, batch' = [batch EXCEPT ![w] = b], b.ids = batch[w].ids, b.work = batch[w].work
      PROVE  /\ \A v \in Workers : batch'[v].ids = batch[v].ids /\ batch'[v].work = batch[v].work
             /\ \A v \in Workers \ {w} : batch'[v].pc = batch[v].pc
  <2>1. batch'[w] = b /\ \A v \in Workers \ {w} : batch'[v] = batch[v]
    BY <1>0, <1>4
  <2> QED BY <1>4, <2>1
<1>5. \/ batch' = [batch EXCEPT ![w] = [batch[w] EXCEPT !.pc = "settle"]]
      \/ batch' = [batch EXCEPT ![w] = [batch[w] EXCEPT !.pc = "settle", !.err = TRUE]]
  BY <1>0 DEF Trim
<1>6. batch[w] \in Batch
  BY <1>0
<1>7. /\ [batch[w] EXCEPT !.pc = "settle"].ids = batch[w].ids
      /\ [batch[w] EXCEPT !.pc = "settle"].work = batch[w].work
      /\ [batch[w] EXCEPT !.pc = "settle", !.err = TRUE].ids = batch[w].ids
      /\ [batch[w] EXCEPT !.pc = "settle", !.err = TRUE].work = batch[w].work
  BY <1>6 DEF Batch
<1>8. /\ \A v \in Workers : batch'[v].ids = batch[v].ids /\ batch'[v].work = batch[v].work
      /\ \A v \in Workers \ {w} : batch'[v].pc = batch[v].pc
  BY <1>4, <1>5, <1>7
<1> QED BY <1>1, <1>2, <1>3, <1>8

\* A claim stamps rows and changes nothing else for a document.
LEMMA ClaimFrame ==
  ASSUME BaseInv, Next, NEW w \in Workers, Claim(w), NEW d \in Docs
  PROVE  kb' = kb /\ DocKept(d) /\ RowsSame(d)
<1>0. TypeInv /\ RowsKeep
  BY StepKeepsRows DEF BaseInv
<1>1. DOMAIN table' = DOMAIN table /\ nextId' = nextId
  BY <1>0, ClaimEffect
<1>2. kb' = kb /\ DocKept(d)
  BY DEF Claim, DocKept, docVars, knVars
<1> QED BY <1>0, <1>1, <1>2, RowsStay DEF RowsOf

\* All steps, as one document sees them.
LEMMA StepCases ==
  ASSUME BaseInv, Next, NEW d \in Docs
  PROVE  \/ Elsewhere(d) /\ (kb' = "live" => kb = "live")
         \/ DocStep(d)
         \/ \E w \in Workers : OpStep(w, d) \/ Claim(w) \/ Trim(w)
<1>1. ASSUME NEW e \in Docs, DocStep(e), e # d
      PROVE  Elsewhere(d) /\ (kb' = "live" => kb = "live")
  BY <1>1, OtherDocStep
<1>2. ASSUME NEW w \in Workers, NEW e \in Docs, OpStep(w, e), e # d
      PROVE  Elsewhere(d) /\ (kb' = "live" => kb = "live")
  BY <1>2, OtherOpStep
<1> QED BY <1>1, <1>2, OtherBatchStep DEF Next, BatchStep

-----------------------------------------------------------------------------
(* Rows that are queued have a task, a batch or a worker that will restart *)
(* to see to them.                                                         *)

LEMMA EmptyTable ==
  ASSUME NEW t, IsTable(t)
  PROVE  t = NoRows <=> DOMAIN t = {}
  BY NoRowsTable DEF IsTable, NoRows

\* What the enqueuing functions and asynq leave in the queues.
LEMMA TasksAfter ==
  ASSUME NEW t \in TaskPool, NEW k \in TaskKinds
  PROVE  /\ SomeTask(AddPlain(t)) /\ SomeTask(Retry(t, k))
         /\ SomeTask(Wait(t)) <=> SomeTask(t)
         /\ k # "recheck" => SomeTask(Ack(ArmRecheck(t), k))
         /\ k # "capped" /\ Ready(t, k) => SomeTask(Ack(ArmCapped(Take(t, k)), k))
<1>1. SomeTask(AddPlain(t)) /\ (SomeTask(Wait(t)) <=> SomeTask(t))
  BY DEF TaskPool, SomeTask, AddPlain, Wait
<1>2. CASE k = "plain"
  BY <1>1, <1>2 DEF TaskPool, IdStatus, SomeTask, Retry, Ack, Take, ArmRecheck, ArmCapped, Ready
<1>3. CASE k = "capped"
  BY <1>1, <1>3 DEF TaskPool, IdStatus, SomeTask, Retry, Ack, Take, ArmRecheck, ArmCapped, Ready
<1>4. CASE k = "recheck"
  BY <1>1, <1>4 DEF TaskPool, IdStatus, SomeTask, Retry, Ack, Take, ArmRecheck, ArmCapped, Ready
<1> QED BY <1>2, <1>3, <1>4 DEF TaskKinds

\* A batch that holds a slot is running: the slot of a worker that died is
\* counted by zombies.
SlotsRun == \A w \in Workers : batch[w].slot => Running(w)

LEMMA NextSlotsRun ==
  ASSUME BaseInv, SlotsRun, Next
  PROVE  SlotsRun'
<1> USE DEF docVars, knVars, queueVars
<1>0. TypeInv /\ batch \in [Workers -> Batch]
  BY DEF BaseInv, TypeInv, WorkersOK
<1> SUFFICES ASSUME NEW v \in Workers, batch'[v].slot PROVE batch'[v].pc \notin {"idle", "down"}
  BY DEF SlotsRun, Running
<1>v. batch[v] \in Batch /\ (batch[v].slot => batch[v].pc \notin {"idle", "down"})
  BY <1>0 DEF SlotsRun, Running
<1>1. CASE batch'[v] = batch[v]
  BY <1>1, <1>v
<1>2. ASSUME NEW w \in Workers, NEW b, batch' = [batch EXCEPT ![w] = b],
             b.slot => b.pc \notin {"idle", "down"}
      PROVE  batch'[v].pc \notin {"idle", "down"}
  BY <1>0, <1>v, <1>2
<1>3. ASSUME NEW d \in Docs, DocStep(d) PROVE batch' = batch
  BY <1>3
     DEF DocStep, PostProcess, PostEnqueue, Reparse, CancelMark, DeleteMark, ScrubStep, DeleteRetract
<1>4. CASE DeleteKB \/ CleanKB \/ ExpireSlot
  BY <1>1, <1>4 DEF DeleteKB, CleanKB, ExpireSlot
<1>5. ASSUME NEW w \in Workers, NEW k \in TaskKinds, StartStep(w, k)
      PROVE  batch'[v].pc \notin {"idle", "down"}
  <2>1. CASE Start(w, k)
    <3>1. \/ batch' = [batch EXCEPT ![w] = [Idle EXCEPT !.pc = "claim", !.kind = k, !.slot = TRUE]]
          \/ batch' = [batch EXCEPT ![w] = [Idle EXCEPT !.pc = "claim", !.kind = k]]
      BY <2>1 DEF Start
    <3> QED BY <1>2, <3>1 DEF Idle
  <2> QED BY <1>1, <1>5, <2>1 DEF StartStep, StartDeleted, StartCapped
<1>6. ASSUME NEW w \in Workers, BatchStep(w) \/ Crash(w) \/ Restart(w)
      PROVE  batch'[v].pc \notin {"idle", "down"}
  <2>1. CASE Claim(w)
    BY <1>0, <1>1, <2>1, ClaimEffect
  <2>2. CASE Trim(w)
    <3>1. \/ batch' = [batch EXCEPT ![w] = [batch[w] EXCEPT !.pc = "settle"]]
          \/ batch' = [batch EXCEPT ![w] = [batch[w] EXCEPT !.pc = "settle", !.err = TRUE]]
      BY <1>0, <2>2 DEF Trim
    <3>2. batch[w] \in Batch
      BY <1>0
    <3> QED BY <1>2, <3>1, <3>2 DEF Batch
  <2>3. CASE Crash(w)
    <3>1. batch' = [batch EXCEPT ![w] = [Idle EXCEPT !.pc = "down"]]
      BY <2>3 DEF Crash
    <3> QED BY <1>2, <3>1 DEF Idle
  <2>4. CASE batch' = [batch EXCEPT ![w] = Idle]
    BY <1>2, <2>4 DEF Idle
  <2> QED BY <1>6, <2>1, <2>2, <2>3, <2>4 DEF BatchStep, ClaimNothing, ClaimFails, Finish, Abort, Restart
<1>7. ASSUME NEW w \in Workers, NEW d \in Docs, OpStep(w, d)
      PROVE  batch'[v].pc \notin {"idle", "down"}
  BY <1>1, <1>7, <1>v, OpFrame
<1>8. CASE Tick
  <2>1. batch'[v] = [batch[v] EXCEPT !.age = batch[v].age + 1] \/ batch'[v] = batch[v]
    BY <1>8 DEF Tick
  <2> QED BY <1>v, <2>1 DEF Batch
<1> QED BY <1>1, <1>3, <1>4, <1>5, <1>6, <1>7, <1>8 DEF Next

LEMMA NextSomeoneComes ==
  ASSUME BaseInv, SlotsRun, SomeoneComes, Next
  PROVE  SomeoneComes'
<1> USE DEF docVars, knVars, queueVars
<1>0. /\ TypeInv /\ IsTable(table) /\ IsTable(table') /\ tasks \in TaskPool
      /\ batch \in [Workers -> Batch] /\ \A w \in Workers : batch[w].kind \in TaskKinds
  BY NextTypeInv DEF BaseInv, TypeInv, QueueOK, WorkersOK, Batch
<1> SUFFICES ASSUME table' # NoRows, kb' = "live", lost' = {} PROVE Attended'
  BY DEF SomeoneComes
<1>p. ASSUME NEW t \in TaskPool, PlainTrigger(t) PROVE Attended'
  BY <1>p, TasksAfter DEF PlainTrigger, Attended, TaskKinds
<1>w. ASSUME NEW w \in Workers, batch'[w].pc # "idle" PROVE Attended'
  BY <1>w DEF Attended
<1>s. ASSUME DOMAIN table' \subseteq DOMAIN table, kb = "live", lost = {},
             SomeTask(tasks) => SomeTask(tasks'),
             \A w \in Workers : batch[w].pc # "idle" => batch'[w].pc # "idle"
      PROVE  Attended'
  <2>1. DOMAIN table' # {}
    BY <1>0, EmptyTable
  <2>2. table # NoRows
    BY <1>s, <2>1, NoRowsTable
  <2>3. Attended
    BY <1>s, <2>2 DEF SomeoneComes
  <2> QED BY <1>s, <2>3 DEF Attended
<1>1. ASSUME NEW d \in Docs, DocStep(d) PROVE Attended'
  <2>1. CASE PostEnqueue(d) \/ DeleteRetract(d)
    <3>1. PICK o \in OpKinds : Enqueue(d, o) /\ kb = "live"
      BY <2>1 DEF PostEnqueue, DeleteRetract, OpKinds
    <3> QED BY <1>0, <1>p, <3>1 DEF Enqueue
  <2>2. CASE Reparse(d) \/ ScrubStep(d)
    <3>1. ScrubPending(d) /\ UNCHANGED <<kb, lost, tasks, batch>>
      BY <2>2 DEF Reparse, ScrubStep
    <3>2. DOMAIN table' \subseteq DOMAIN table
      BY <1>0, <3>1, ScrubTable DEF ScrubPending
    <3> QED BY <1>s, <3>1, <3>2
  <2>3. CASE PostProcess(d) \/ CancelMark(d) \/ DeleteMark(d)
    BY <1>s, <2>3 DEF PostProcess, CancelMark, DeleteMark
  <2> QED BY <1>1, <2>1, <2>2, <2>3 DEF DocStep
<1>2. ASSUME DeleteKB \/ CleanKB \/ ExpireSlot PROVE Attended'
  BY <1>2, <1>s DEF DeleteKB, CleanKB, ExpireSlot
<1>3. ASSUME NEW w \in Workers, NEW k \in TaskKinds, StartStep(w, k) PROVE Attended'
  <2>1. CASE Start(w, k)
    <3>1. \/ batch' = [batch EXCEPT ![w] = [Idle EXCEPT !.pc = "claim", !.kind = k, !.slot = TRUE]]
          \/ batch' = [batch EXCEPT ![w] = [Idle EXCEPT !.pc = "claim", !.kind = k]]
      BY <2>1 DEF Start
    <3>2. batch'[w].pc = "claim"
      BY <1>0, <3>1 DEF Idle
    <3> QED BY <1>w, <3>2
  <2>2. CASE StartCapped(w, k)
    <3>1. tasks' = Ack(ArmCapped(Take(tasks, k)), k) /\ Ready(tasks, k) /\ UNCHANGED batch
      BY <2>2 DEF StartCapped
    <3>2. CASE k # "capped"
      BY <1>0, <3>1, <3>2, TasksAfter DEF Attended
    <3>3. CASE k = "capped"
      <4>1. PICK v \in Workers : batch[v].slot
        BY <2>2, <3>3 DEF StartCapped
      <4> QED BY <1>w, <3>1, <4>1 DEF SlotsRun, Running
    <3> QED BY <3>2, <3>3
  <2>3. CASE StartDeleted(w, k)
    BY <2>3 DEF StartDeleted
  <2> QED BY <1>3, <2>1, <2>2, <2>3 DEF StartStep
<1>4. ASSUME NEW w \in Workers, BatchStep(w) PROVE Attended'
  <2>1. CASE Claim(w)
    BY <1>0, <1>w, <2>1, ClaimEffect
  <2>2. CASE Trim(w)
    <3>1. batch'[w].pc = "settle"
      <4>1. \/ batch' = [batch EXCEPT ![w] = [batch[w] EXCEPT !.pc = "settle"]]
            \/ batch' = [batch EXCEPT ![w] = [batch[w] EXCEPT !.pc = "settle", !.err = TRUE]]
        BY <1>0, <2>2 DEF Trim
      <4>2. \/ batch'[w] = [batch[w] EXCEPT !.pc = "settle"]
            \/ batch'[w] = [batch[w] EXCEPT !.pc = "settle", !.err = TRUE]
        BY <1>0, <4>1
      <4>3. batch[w] \in Batch
        BY <1>0
      <4> QED BY <4>2, <4>3 DEF Batch
    <3> QED BY <1>w, <3>1
  <2>3. CASE ClaimNothing(w)
    <3>1. /\ tasks' = Ack(ArmRecheck(tasks), batch[w].kind)
          /\ batch[w].kind = "recheck" => \E v \in Workers \ {w} : Running(v)
          /\ batch' = [batch EXCEPT ![w] = Idle]
      BY <2>3 DEF ClaimNothing
    <3>2. CASE batch[w].kind # "recheck"
      BY <1>0, <3>1, <3>2, TasksAfter DEF Attended
    <3>3. CASE batch[w].kind = "recheck"
      <4>1. PICK v \in Workers \ {w} : Running(v)
        BY <3>1, <3>3
      <4>2. batch'[v].pc # "idle"
        BY <1>0, <3>1, <4>1 DEF Running
      <4> QED BY <1>w, <4>2
    <3> QED BY <3>2, <3>3
  <2>4. CASE ClaimFails(w) \/ Abort(w)
    <3>1. tasks' = Retry(tasks, batch[w].kind)
      BY <2>4 DEF ClaimFails, Abort
    <3> QED BY <1>0, <3>1, TasksAfter DEF Attended
  <2>5. CASE Finish(w)
    <3>1. PlainTrigger(Ack(tasks, batch[w].kind))
      BY <2>5 DEF Finish
    <3> QED BY <1>0, <1>p, <3>1, KindOps
  <2> QED BY <1>4, <2>1, <2>2, <2>3, <2>4, <2>5 DEF BatchStep
<1>5. ASSUME NEW w \in Workers, Crash(w) \/ Restart(w) PROVE Attended'
  <2>1. CASE Crash(w)
    <3>1. tasks' = Retry(tasks, batch[w].kind)
      BY <2>1 DEF Crash
    <3> QED BY <1>0, <3>1, TasksAfter DEF Attended
  <2>2. CASE Restart(w)
    BY <1>0, <1>p, <2>2 DEF Restart
  <2> QED BY <1>5, <2>1, <2>2
<1>6. ASSUME NEW w \in Workers, NEW d \in Docs, OpStep(w, d) PROVE Attended'
  <2>1. batch[w].pc \in {"work", "settle"}
    BY <1>6 DEF OpStep, MapSkip, MapIngest, MapRetract, ReduceRead, ReduceWrite, ReduceUnapplied,
       DrainDoc, Requeue, DeadLetter, DropDead
  <2> QED BY <1>6, <1>w, <2>1, OpFrame
<1>7. ASSUME Tick PROVE Attended'
  <2>1. tasks' = Wait(tasks) /\ UNCHANGED <<kb, lost>> /\ DOMAIN table' = DOMAIN table
    BY <1>0, <1>7, AgeTable DEF Tick
  <2>2. SomeTask(Wait(tasks)) <=> SomeTask(tasks)
    BY <1>0, TasksAfter DEF TaskKinds
  <2>3. ASSUME NEW w \in Workers PROVE batch'[w].pc = batch[w].pc
    <3>1. batch'[w] = [batch[w] EXCEPT !.age = batch[w].age + 1] \/ batch'[w] = batch[w]
      BY <1>7 DEF Tick
    <3>2. batch[w] \in Batch
      BY <1>0
    <3> QED BY <3>1, <3>2 DEF Batch
  <2> QED BY <1>s, <2>1, <2>2, <2>3
<1> QED BY <1>1, <1>2, <1>3, <1>4, <1>5, <1>6, <1>7 DEF Next

\* While rows of a live knowledge base are queued, a task, a running batch or
\* a worker that restarts will look at them: no batch ends without leaving a
\* task behind, unless the queue could not be reached, or the capped retry or
\* the recheck found the slots or claims of dead workers.
THEOREM RowsAreAttended == Spec => []SomeoneComes
<1> DEFINE Inv == SlotsRun /\ SomeoneComes
<1>1. Init => Inv
  BY DEF Init, SlotsRun, SomeoneComes, Idle
<1>2. BaseInv /\ Inv /\ [Next]_vars => Inv'
  <2>1. BaseInv /\ Inv /\ Next => Inv'
    BY NextSlotsRun, NextSomeoneComes
  <2>2. Inv /\ UNCHANGED vars => Inv'
    BY DEF vars, SlotsRun, Running, SomeoneComes, Attended
  <2> QED BY <2>1, <2>2
<1> HIDE DEF Inv
<1>3. Spec => []Inv
  BY <1>1, <1>2, AlwaysBaseInv, PTL DEF Spec
<1>4. Inv => SomeoneComes
  BY DEF Inv
<1> QED BY <1>3, <1>4, PTL

-----------------------------------------------------------------------------
(* What becomes of one operation and of the newest row of a document.      *)

\* Where a step of a batch takes the operation it carries out.
LEMMA OpMoves ==
  ASSUME BaseInv, NEW w \in Workers, NEW d \in Docs
  PROVE  /\ MapSkip(w, d) => St(w, d)' = "skipped"
         /\ MapIngest(w, d) => St(w, d)' \in {"failed", "mapped"}
         /\ MapRetract(w, d) => St(w, d)' = "mapped" \/ (St(w, d)' = "done" /\ d \notin refs)
         /\ ReduceRead(w, d) =>
              St(w, d)' = IF batch[w].work[d].op = "ingest" /\ Gone(d) THEN "dropped" ELSE "reducing"
         /\ ReduceWrite(w, d) => St(w, d)' = IF batch[w].work[d].op = "ingest" THEN "ok" ELSE "done"
         /\ ReduceUnapplied(w, d) => St(w, d)' = "unapplied"
         /\ DrainDoc(w, d) => St(w, d)' = "done"
         /\ Requeue(w, d) => St(w, d)' \in {"settled", "exhausted"}
         /\ DeadLetter(w, d) => St(w, d)' = "archived"
         /\ DropDead(w, d) => St(w, d)' = "settled"
<1>1. ASSUME NEW s \in OpStates, SetSt(w, d, s) \/ FailSt(w, d, s) PROVE St(w, d)' = s
  BY <1>1, SetStFacts DEF BaseInv, TypeInv, WorkersOK, St
<1> QED BY <1>1 DEF MapSkip, MapIngest, MapRetract, ReduceRead, ReduceWrite, ReduceUnapplied,
                    DrainDoc, Requeue, DeadLetter, DropDead, OpStates

Newest(i, d) == i \in RowsOf(table, d) /\ \A j \in RowsOf(table, d) : j <= i

\* A row that stays remains the newest, until one is inserted.
LEMMA NewestStays ==
  ASSUME NEW d, NEW i, Newest(i, d), RowsFewer(d), i \in RowsOf(table', d)
  PROVE  Newest(i, d)' /\ table'[i].op = table[i].op
  BY DEF Newest, RowsFewer

\* A row that is inserted is the newest, and in the hands of no batch.
LEMMA NewRow ==
  ASSUME BaseInv, NEW n, n = nextId, NEW d \in Docs, NEW o \in OpKinds, Enqueue(d, o), kb = "live", batch' = batch
  PROVE  /\ Newest(n, d)' /\ table'[n].op = o
         /\ \A w \in Workers : n \notin batch'[w].ids
         /\ \A e \in Docs : RowsOf(table', e) = RowsOf(table, e) \cup (IF e = d THEN {n} ELSE {})
         /\ n \notin DOMAIN table /\ \A i \in DOMAIN table : table'[i] = table[i]
<1>0. IsTable(table) /\ n \in Nat /\ n \notin DOMAIN table /\ \A i \in DOMAIN table : i < n
  BY DEF BaseInv, TypeInv, QueueOK
<1>1. table' = AddRow(table, n, d, o)
  BY DEF Enqueue
<1>2. DOMAIN table' = DOMAIN table \cup {n} /\ table'[n].doc = d /\ table'[n].op = o
  BY <1>0, <1>1, AddRowTable DEF AddRow
<1>3. \A i \in DOMAIN table : table'[i] = table[i]
  BY <1>0, <1>1, RowsAfter
<1>4. \A w \in Workers : n \notin batch'[w].ids
  BY <1>0 DEF BaseInv, OldIds, OldIdsOf
<1>5. \A i \in DOMAIN table' : i <= n
  BY <1>0, <1>2 DEF IsTable
<1>6. \A e \in Docs : RowsOf(table', e) = RowsOf(table, e) \cup (IF e = d THEN {n} ELSE {})
  BY <1>0, <1>2, <1>3 DEF RowsOf
<1>7. Newest(n, d)'
  BY <1>2, <1>5 DEF Newest, RowsOf
<1> QED BY <1>0, <1>2, <1>3, <1>4, <1>6, <1>7

\* A claim of the newest row is a claim to carry out its operation.
LEMMA ClaimNewest ==
  ASSUME BaseInv, NEW w \in Workers, Claim(w), NEW d \in Docs, NEW i, Newest(i, d), i \in batch'[w].ids
  PROVE  batch'[w].work[d].id = i /\ batch'[w].work[d].op = table[i].op /\ St(w, d)' = "todo"
<1>0. /\ TypeInv /\ IsTable(table) /\ nextId \in Nat /\ \A k \in DOMAIN table : k < nextId
      /\ DOMAIN table \subseteq Nat
  BY DEF BaseInv, TypeInv, QueueOK, IsTable
<1>1. i \in ClaimedIds /\ table[i].doc = d /\ ClaimedIds \subseteq DOMAIN table
  BY <1>0, ClaimEffect DEF Newest, RowsOf
<1>2. d \in ClaimedDocs
  BY <1>1 DEF ClaimedDocs
<1>3. /\ ClaimedRow(d) \in ClaimedIds /\ table[ClaimedRow(d)].doc = d
      /\ \A j \in ClaimedIds : table[j].doc = d => j <= ClaimedRow(d)
  BY <1>0, <1>1, LastOfClaimed DEF ClaimedRow
<1>4. ClaimedRow(d) = i
  <2>1. ClaimedRow(d) <= i /\ i <= ClaimedRow(d)
    BY <1>1, <1>3 DEF Newest, RowsOf
  <2>2. ClaimedRow(d) \in Nat /\ i \in Nat
    BY <1>0, <1>1, <1>3
  <2> QED BY <2>1, <2>2
<1> QED BY <1>0, <1>2, <1>4, ClaimEffect

-----------------------------------------------------------------------------
(* A document that waits for its wiki slot to be drained has a row.        *)

\* The states of an ingest operation whose drain is still to come.
Pending == {"todo", "failed", "mapped", "reducing", "ok", "dropped", "unapplied", "exhausted"}

\* Row i will drain d: it is the newest, so whichever batch claims it carries
\* it out, and no batch is past its drain.
WillDrain(i, d) ==
    /\ Newest(i, d) /\ table[i].op = "ingest"
    /\ \A w \in Workers :
         i \in batch[w].ids => /\ batch[w].work[d].id = i /\ batch[w].work[d].op = "ingest"
                               /\ St(w, d) \in Pending \cup {"settled"}

DueDrain(d) == d \notin posting /\ kn[d] = "finalizing" /\ drained[d] = 0

DurableOf(d) == kb = "live" /\ DueDrain(d) => \E i \in RowsOf(table, d) : WillDrain(i, d)

LEMMA OpKeepsDurable ==
  ASSUME BaseInv, Next, NEW w \in Workers, NEW d \in Docs, OpStep(w, d), DurableOf(d)
  PROVE  DurableOf(d)'
<1> SUFFICES ASSUME kb' = "live", DueDrain(d)' PROVE \E i \in RowsOf(table', d) : WillDrain(i, d)'
  BY DEF DurableOf
<1>0. drained \in [Docs -> Nat]
  BY DEF BaseInv, TypeInv, DocsOK
<1>f. /\ kb' = kb /\ kn' = kn /\ posting' = posting
      /\ \A v \in Workers \ {w} : batch'[v] = batch[v]
      /\ batch'[w].ids = batch[w].ids
      /\ batch'[w].work[d].id = batch[w].work[d].id /\ batch'[w].work[d].op = batch[w].work[d].op
      /\ RowsFewer(d) /\ (DropDead(w, d) \/ RowsSame(d))
  BY OpFrame
<1>d. ~Drain(d)
  BY <1>0, <1>f DEF DueDrain, Drain
<1>1. drained[d] = 0
  BY <1>0, <1>d, <1>f
     DEF DueDrain, docVars, OpStep, MapSkip, MapIngest, MapRetract, ReduceRead, ReduceWrite, ReduceUnapplied,
         DrainDoc, Requeue, DeadLetter, DropDead
<1>2. PICK i \in RowsOf(table, d) : WillDrain(i, d)
  BY <1>1, <1>f DEF DurableOf, DueDrain
<1>3. CASE i \in batch[w].ids
  <2>1. batch[w].work[d].id = i /\ batch[w].work[d].op = "ingest" /\ St(w, d) \in Pending \cup {"settled"}
    BY <1>2, <1>3 DEF WillDrain
  <2>2. ~MapSkip(w, d) /\ ~DrainDoc(w, d) /\ ~DeadLetter(w, d)
    BY <1>d, <2>1 DEF MapSkip, DrainDoc, DeadLetter
  <2>3. ~MapRetract(w, d) /\ ~DropDead(w, d)
    BY <2>1 DEF MapRetract, DropDead, Pending
  <2>4. St(w, d)' \in Pending \cup {"settled"}
    BY <2>1, <2>2, <2>3, OpMoves DEF OpStep, Pending
  <2>5. i \in RowsOf(table', d)
    BY <1>f, <2>3 DEF RowsSame
  <2>6. Newest(i, d)' /\ table'[i].op = "ingest"
    BY <1>2, <1>f, <2>5, NewestStays DEF WillDrain
  <2> QED BY <1>2, <1>f, <2>1, <2>4, <2>5, <2>6 DEF WillDrain, St
<1>4. CASE i \notin batch[w].ids
  <2>1. i \in RowsOf(table', d)
    <3>1. CASE DropDead(w, d)
      <4>1. batch[w].work[d].id \in batch[w].ids
        BY <3>1 DEF DropDead, BaseInv, OwnRow, OwnRowOf
      <4>2. table' \in {table, DeleteRows(table, {batch[w].work[d].id})}
        BY <3>1 DEF DropDead
      <4> QED BY <1>4, <4>1, <4>2 DEF RowsOf, DeleteRows
    <3> QED BY <1>f, <3>1 DEF RowsSame
  <2>2. Newest(i, d)' /\ table'[i].op = "ingest"
    BY <1>2, <1>f, <2>1, NewestStays DEF WillDrain
  <2> QED BY <1>2, <1>4, <1>f, <2>1, <2>2 DEF WillDrain, St
<1> QED BY <1>3, <1>4

LEMMA NextDurable ==
  ASSUME BaseInv, Next, NEW d \in Docs, DurableOf(d)
  PROVE  DurableOf(d)'
<1>1. CASE Elsewhere(d) /\ (kb' = "live" => kb = "live")
  <2> SUFFICES ASSUME kb' = "live", DueDrain(d)' PROVE \E i \in RowsOf(table', d) : WillDrain(i, d)'
    BY DEF DurableOf
  <2>1. RowsSame(d) /\ kb = "live" /\ DueDrain(d)
    BY <1>1 DEF Elsewhere, DocKept, DueDrain
  <2>2. PICK i \in RowsOf(table, d) : WillDrain(i, d)
    BY <2>1 DEF DurableOf
  <2>3. \A v \in Workers : OpKept(v, d) \/ Ended(v, d)
    BY <1>1 DEF Elsewhere
  <2>4. i \in RowsOf(table', d) /\ Newest(i, d)' /\ table'[i].op = "ingest"
    BY <2>1, <2>2, NewestStays DEF RowsSame, WillDrain
  <2> QED BY <2>2, <2>3, <2>4 DEF WillDrain, OpKept, Ended, St
<1>2. CASE DocStep(d)
  <2> USE DEF docVars, knVars, queueVars
  <2>0. kn \in [Docs -> DocStates]
    BY DEF BaseInv, TypeInv, DocsOK
  <2>1. CASE PostEnqueue(d)
    <3> SUFFICES ASSUME kb = "live" PROVE \E i \in RowsOf(table', d) : WillDrain(i, d)'
      BY <2>1 DEF DurableOf, PostEnqueue
    <3>0. PICK n : n = nextId
      OBVIOUS
    <3>1. /\ Newest(n, d)' /\ table'[n].op = "ingest"
          /\ \A w \in Workers : n \notin batch'[w].ids
      BY <2>1, <3>0, NewRow DEF PostEnqueue, OpKinds
    <3> QED BY <3>1 DEF WillDrain, Newest
  <2>2. CASE ~PostEnqueue(d)
    <3>1. ~DueDrain(d)'
      BY <1>2, <2>0, <2>2
         DEF DueDrain, DocStep, PostProcess, Reparse, CancelMark, DeleteMark, ScrubStep, DeleteRetract
    <3> QED BY <3>1 DEF DurableOf
  <2> QED BY <2>1, <2>2
<1>3. ASSUME NEW w \in Workers, Claim(w) PROVE DurableOf(d)'
  <2> SUFFICES ASSUME kb' = "live", DueDrain(d)' PROVE \E i \in RowsOf(table', d) : WillDrain(i, d)'
    BY DEF DurableOf
  <2>1. kb' = kb /\ DocKept(d) /\ RowsSame(d)
    BY <1>3, ClaimFrame
  <2>2. PICK i \in RowsOf(table, d) : WillDrain(i, d)
    BY <2>1 DEF DurableOf, DocKept, DueDrain
  <2>3. i \in RowsOf(table', d) /\ Newest(i, d)' /\ table'[i].op = "ingest"
    BY <2>1, <2>2, NewestStays DEF RowsSame, WillDrain
  <2>4. ASSUME NEW v \in Workers, i \in batch'[v].ids
        PROVE  /\ batch'[v].work[d].id = i /\ batch'[v].work[d].op = "ingest"
               /\ St(v, d)' \in Pending \cup {"settled"}
    <3>1. CASE v = w
      BY <1>3, <2>2, <2>4, <3>1, ClaimNewest DEF WillDrain, Pending
    <3>2. CASE v # w
      <4>1. batch'[v] = batch[v]
        BY <1>3, <3>2, ClaimEffect DEF BaseInv
      <4> QED BY <2>2, <2>4, <4>1 DEF WillDrain, St
    <3> QED BY <3>1, <3>2
  <2> QED BY <2>3, <2>4 DEF WillDrain
<1>4. ASSUME NEW w \in Workers, Trim(w) PROVE DurableOf(d)'
  <2> SUFFICES ASSUME kb' = "live", DueDrain(d)' PROVE \E i \in RowsOf(table', d) : WillDrain(i, d)'
    BY DEF DurableOf
  <2>1. /\ kb' = kb /\ DocKept(d) /\ RowsFewer(d)
        /\ \A i \in RowsOf(table, d) : i \in TrimIds(w) \/ i \in RowsOf(table', d)
        /\ \A v \in Workers : batch'[v].ids = batch[v].ids /\ batch'[v].work = batch[v].work
    BY <1>4, TrimFrame
  <2>2. PICK i \in RowsOf(table, d) : WillDrain(i, d)
    BY <2>1 DEF DurableOf, DocKept, DueDrain
  <2>3. i \notin TrimIds(w)
    <3>1. CASE i \in batch[w].ids
      <4>1. batch[w].work[d].id = i /\ St(w, d) \in Pending \cup {"settled"}
        BY <2>2, <3>1 DEF WillDrain
      <4>2. St(w, d) \in {"failed", "unapplied"}
        BY <1>4, <4>1 DEF Trim, AllIn, Pending
      <4> QED BY <4>1, <4>2 DEF TrimIds, FailedIds
    <3> QED BY <3>1 DEF TrimIds
  <2>4. i \in RowsOf(table', d) /\ Newest(i, d)' /\ table'[i].op = "ingest"
    BY <2>1, <2>2, <2>3, NewestStays DEF WillDrain
  <2> QED BY <2>1, <2>2, <2>4 DEF WillDrain, St
<1> QED BY <1>1, <1>2, <1>3, <1>4, OpKeepsDurable, StepCases

\* The row that is to drain a document is not lost by retries, trims, dead
\* letters, crashes or failing calls: as the newest row of its document it is
\* carried out by every batch that claims it, and deleted after the drain.
THEOREM RowsAreDurable == Spec => []DurableUntilDrained
<1> DEFINE Inv == \A d \in Docs : DurableOf(d)
<1>1. Init => Inv
  BY DEF Init, DurableOf, DueDrain
<1>2. BaseInv /\ Inv /\ [Next]_vars => Inv'
  <2>1. BaseInv /\ Inv /\ Next => Inv'
    BY NextDurable
  <2>2. Inv /\ UNCHANGED vars => Inv'
    BY DEF vars, DurableOf, DueDrain, WillDrain, Newest, St
  <2> QED BY <2>1, <2>2
<1>3. Inv => DurableUntilDrained
  BY DEF DurableUntilDrained, DurableOf, DueDrain, WillDrain
<1> HIDE DEF Inv
<1>4. Spec => []Inv
  BY <1>1, <1>2, AlwaysBaseInv, PTL DEF Spec
<1> QED BY <1>3, <1>4, PTL

-----------------------------------------------------------------------------
(* A document whose wiki slot was drained has its pages.                   *)

\* From here on the document is never finalizing again.
Doomed(d) == kn[d] \in {"deleting", "scrubbed", "deleted"}

\* Only a document that is being deleted is retracted, so nothing but the
\* delete takes the pages of a document away; what a batch is about to drain
\* as written is written.
RetractDoomed(d) ==
    /\ \A i \in RowsOf(table, d) : table[i].op = "retract" => Doomed(d)
    /\ \A w \in Workers : St(w, d) # "absent" /\ batch[w].work[d].op = "retract" => Doomed(d)

OkWritten(d) ==
    \A w \in Workers : St(w, d) = "ok" => batch[w].work[d].op = "ingest" /\ (d \in refs \/ Doomed(d))

DrainedWritten(d) ==
    kb = "live" /\ kn[d] = "finalizing" /\ drained[d] > 0 => d \in refs \cup closed

WrittenOf(d) == RetractDoomed(d) /\ OkWritten(d) /\ DrainedWritten(d)

LEMMA DocKeepsWritten ==
  ASSUME BaseInv, Next, NEW d \in Docs, DocStep(d), WrittenOf(d)
  PROVE  WrittenOf(d)'
<1> USE DEF docVars, knVars, queueVars
<1>0. kn \in [Docs -> DocStates] /\ drained \in [Docs -> Nat] /\ TypeInv /\ RowsKeep
  BY StepKeepsRows DEF BaseInv, TypeInv, DocsOK
<1>1. batch' = batch /\ kb' = kb
  BY DEF DocStep, PostProcess, PostEnqueue, Reparse, CancelMark, DeleteMark, ScrubStep, DeleteRetract
<1>2. Doomed(d) => Doomed(d)'
  BY <1>0 DEF Doomed, DocStep, PostProcess, PostEnqueue, Reparse, CancelMark, DeleteMark, ScrubStep, DeleteRetract
<1>3. d \in refs => d \in refs' \/ Doomed(d)'
  BY <1>0 DEF Doomed, DocStep, PostProcess, PostEnqueue, Reparse, CancelMark, DeleteMark, ScrubStep, DeleteRetract
<1>4. ASSUME NEW i \in RowsOf(table', d), table'[i].op = "retract" PROVE Doomed(d)'
  <2>1. CASE RowsFewer(d)
    BY <1>2, <1>4, <2>1 DEF RowsFewer, WrittenOf, RetractDoomed
  <2>2. CASE PostEnqueue(d) \/ DeleteRetract(d)
    <3>1. CASE DeleteRetract(d)
      BY <1>0, <3>1 DEF DeleteRetract, Doomed
    <3>2. CASE PostEnqueue(d)
      <4>1. CASE kb = "live"
        <5>1. PICK n : n = nextId
          OBVIOUS
        <5>2. /\ table'[n].op = "ingest" /\ \A j \in DOMAIN table : table'[j] = table[j]
              /\ RowsOf(table', d) = RowsOf(table, d) \cup {n}
          BY <1>1, <3>2, <4>1, <5>1, NewRow DEF PostEnqueue, OpKinds
        <5> QED BY <1>2, <1>4, <5>2 DEF WrittenOf, RetractDoomed, RowsOf
      <4>2. CASE kb # "live"
        BY <1>2, <1>4, <3>2, <4>2 DEF PostEnqueue, Enqueue, WrittenOf, RetractDoomed
      <4> QED BY <4>1, <4>2
    <3> QED BY <2>2, <3>1, <3>2
  <2>3. CASE ~(PostEnqueue(d) \/ DeleteRetract(d))
    <3>1. nextId' = nextId
      BY <2>3 DEF DocStep, PostProcess, Reparse, CancelMark, DeleteMark, ScrubStep
    <3> QED BY <1>0, <2>1, <3>1, RowsStay
  <2> QED BY <2>2, <2>3
<1>5. DrainedWritten(d)'
  BY <1>0, <1>1 DEF WrittenOf, DrainedWritten, DocStep, PostProcess, PostEnqueue, Reparse, CancelMark, DeleteMark,
                    ScrubStep, DeleteRetract
<1> QED BY <1>1, <1>2, <1>3, <1>4, <1>5 DEF WrittenOf, RetractDoomed, OkWritten, St

LEMMA OpKeepsWritten ==
  ASSUME BaseInv, Next, NEW w \in Workers, NEW d \in Docs, OpStep(w, d), WrittenOf(d)
  PROVE  WrittenOf(d)'
<1> USE DEF docVars, knVars, queueVars
<1>0. kn \in [Docs -> DocStates] /\ drained \in [Docs -> Nat]
  BY DEF BaseInv, TypeInv, DocsOK
<1>f. /\ kb' = kb /\ kn' = kn
      /\ \A v \in Workers \ {w} : batch'[v] = batch[v]
      /\ batch'[w].work[d].op = batch[w].work[d].op /\ RowsFewer(d)
  BY OpFrame
<1>a. St(w, d) # "absent"
  BY DEF OpStep, MapSkip, MapIngest, MapRetract, ReduceRead, ReduceWrite, ReduceUnapplied,
         DrainDoc, Requeue, DeadLetter, DropDead
<1>o. batch[w].work[d].op \in {"ingest", "retract"}
  BY DEF BaseInv, TypeInv, WorkersOK, Batch, Op, OpKinds
<1>1. d \in refs => d \in refs' \/ Doomed(d)
  <2>1. CASE ReduceWrite(w, d)
    <3>1. batch[w].work[d].op # "ingest" => Doomed(d)
      BY <1>a, <1>o DEF WrittenOf, RetractDoomed
    <3> QED BY <2>1, <3>1 DEF ReduceWrite
  <2>2. CASE ReduceUnapplied(w, d)
    BY <2>2 DEF ReduceUnapplied
  <2> QED BY <2>1, <2>2
        DEF OpStep, MapSkip, MapIngest, MapRetract, ReduceRead, DrainDoc, Requeue, DeadLetter, DropDead
<1>2. RetractDoomed(d)'
  BY <1>f, <1>a DEF WrittenOf, RetractDoomed, RowsFewer, St, Doomed
<1>3. St(w, d)' = "ok" => batch[w].work[d].op = "ingest" /\ d \in refs'
  BY OpMoves DEF OpStep, ReduceWrite
<1>4. OkWritten(d)'
  BY <1>f, <1>1, <1>3 DEF WrittenOf, OkWritten, St, Doomed
<1>5. d \in closed => d \in closed'
  BY DEF OpStep, MapSkip, MapIngest, MapRetract, ReduceRead, ReduceWrite, ReduceUnapplied,
         DrainDoc, Requeue, DeadLetter, DropDead
<1>6. DrainedWritten(d)'
  <2> SUFFICES ASSUME kb = "live", kn[d] = "finalizing", drained'[d] > 0 PROVE d \in refs' \cup closed'
    BY <1>f DEF DrainedWritten
  <2>1. CASE drained[d] > 0
    BY <1>1, <1>5, <2>1 DEF WrittenOf, DrainedWritten, Doomed
  <2>2. CASE MapSkip(w, d)
    BY <2>2 DEF MapSkip, Gone
  <2>3. CASE DrainDoc(w, d)
    <3>1. St(w, d) = "ok" => d \in refs
      BY DEF WrittenOf, OkWritten, Doomed
    <3> QED BY <2>3, <3>1 DEF DrainDoc, Gone
  <2>4. CASE DeadLetter(w, d)
    BY <2>4 DEF DeadLetter
  <2>5. CASE drained' = drained
    BY <2>1, <2>5
  <2> QED BY <2>2, <2>3, <2>4, <2>5
        DEF OpStep, MapIngest, MapRetract, ReduceRead, ReduceWrite, ReduceUnapplied, Requeue, DropDead
<1> QED BY <1>2, <1>4, <1>6 DEF WrittenOf

LEMMA NextWritten ==
  ASSUME BaseInv, Next, NEW d \in Docs, WrittenOf(d)
  PROVE  WrittenOf(d)'
<1>1. CASE Elsewhere(d) /\ (kb' = "live" => kb = "live")
  <2>1. RowsFewer(d) /\ DocKept(d) /\ \A v \in Workers : OpKept(v, d) \/ Ended(v, d)
    BY <1>1 DEF Elsewhere
  <2>2. RetractDoomed(d)'
    BY <2>1 DEF WrittenOf, RetractDoomed, RowsFewer, DocKept, OpKept, Ended, St, Doomed
  <2>3. OkWritten(d)'
    BY <2>1 DEF WrittenOf, OkWritten, DocKept, OpKept, Ended, St, Doomed
  <2> QED BY <1>1, <2>1, <2>2, <2>3 DEF WrittenOf, DrainedWritten, DocKept
<1>3. ASSUME NEW w \in Workers, Claim(w) PROVE WrittenOf(d)'
  <2>1. kb' = kb /\ DocKept(d) /\ RowsSame(d)
    BY <1>3, ClaimFrame
  <2>2. /\ St(w, d)' # "absent" => /\ St(w, d)' = "todo" /\ ClaimedRow(d) \in RowsOf(table, d)
                                   /\ batch'[w].work[d].op = table[ClaimedRow(d)].op
        /\ \A v \in Workers \ {w} : batch'[v] = batch[v]
    BY <1>3, ClaimEffect DEF BaseInv, RowsOf
  <2>3. RetractDoomed(d)'
    BY <2>1, <2>2 DEF WrittenOf, RetractDoomed, RowsSame, RowsFewer, DocKept, St, Doomed
  <2>4. OkWritten(d)'
    BY <2>1, <2>2 DEF WrittenOf, OkWritten, DocKept, St, Doomed
  <2> QED BY <2>1, <2>3, <2>4 DEF WrittenOf, DrainedWritten, DocKept
<1>4. ASSUME NEW w \in Workers, Trim(w) PROVE WrittenOf(d)'
  <2>1. /\ kb' = kb /\ DocKept(d) /\ RowsFewer(d) /\ \A v \in Workers : batch'[v].work = batch[v].work
    BY <1>4, TrimFrame
  <2>2. RetractDoomed(d)' /\ OkWritten(d)'
    BY <2>1 DEF WrittenOf, RetractDoomed, OkWritten, RowsFewer, DocKept, St, Doomed
  <2> QED BY <2>1, <2>2 DEF WrittenOf, DrainedWritten, DocKept
<1> QED BY <1>1, <1>3, <1>4, DocKeepsWritten, OpKeepsWritten, StepCases

\* No drain without the pages: a document with its slot drained is named by
\* some page, unless its operation was skipped, given up or dropped, whatever
\* requeues, reparses, crashes and failing calls come between.
THEOREM DrainsAreWritten == Spec => []DrainedMeansWritten
<1> DEFINE Inv == \A d \in Docs : WrittenOf(d)
<1>1. Init => Inv
  BY DEF Init, WrittenOf, RetractDoomed, OkWritten, DrainedWritten, RowsOf, NoRows, St, Idle, NoOp
<1>2. BaseInv /\ Inv /\ [Next]_vars => Inv'
  <2>1. BaseInv /\ Inv /\ Next => Inv'
    BY NextWritten
  <2>2. Inv /\ UNCHANGED vars => Inv'
    BY DEF vars, WrittenOf, RetractDoomed, OkWritten, DrainedWritten, Doomed, St
  <2> QED BY <2>1, <2>2
<1>3. Inv => DrainedMeansWritten
  BY DEF DrainedMeansWritten, WrittenOf, DrainedWritten
<1> HIDE DEF Inv
<1>4. Spec => []Inv
  BY <1>1, <1>2, AlwaysBaseInv, PTL DEF Spec
<1> QED BY <1>3, <1>4, PTL

-----------------------------------------------------------------------------
(* A deleted document is forgotten.                                        *)

NoWriter(d) == \A v \in Workers : ~Writing(v, d)

\* Row r will take d off the pages: it is the newest, so whichever batch
\* claims it carries it out, and once a batch has looked for the pages that
\* name d, no other batch is about to write one.
WillRetract(r, d) ==
    /\ Newest(r, d) /\ table[r].op = "retract"
    /\ \A w \in Workers :
         r \in batch[w].ids =>
            /\ batch[w].work[d].id = r /\ batch[w].work[d].op = "retract"
            /\ \/ St(w, d) = "todo"
               \/ St(w, d) \in {"mapped", "reducing", "unapplied", "exhausted", "settled"} /\ NoWriter(d)

DueRetract(d) == kn[d] = "deleted" /\ d \notin closed \cup overtaken

Forgotten(d) == d \notin refs /\ NoWriter(d)

GhostlessOf(d) ==
    kb = "live" /\ DueRetract(d) => Forgotten(d) \/ \E r \in RowsOf(table, d) : WillRetract(r, d)

\* A row of WillRetract, after a step that keeps it and lets no batch begin to
\* write.
LEMMA RetractStays ==
  ASSUME NEW d \in Docs, NEW r, WillRetract(r, d), RowsFewer(d), r \in RowsOf(table', d),
         NoWriter(d) => NoWriter(d)',
         \A v \in Workers : \/ r \notin batch'[v].ids
                            \/ batch'[v].ids = batch[v].ids /\ batch'[v].work[d] = batch[v].work[d]
                            \/ /\ batch'[v].work[d].id = r /\ batch'[v].work[d].op = "retract"
                               /\ \/ St(v, d)' = "todo"
                                  \/ /\ St(v, d)' \in {"mapped", "reducing", "unapplied", "exhausted", "settled"}
                                     /\ NoWriter(d)'
  PROVE  WillRetract(r, d)'
<1>1. Newest(r, d)' /\ table'[r].op = "retract"
  BY NewestStays DEF WillRetract
<1> QED BY <1>1 DEF WillRetract, St

LEMMA OpKeepsGhostless ==
  ASSUME BaseInv, Next, NEW w \in Workers, NEW d \in Docs, OpStep(w, d), GhostlessOf(d)
  PROVE  GhostlessOf(d)'
<1> USE DEF docVars, knVars, queueVars
<1> SUFFICES ASSUME kb' = "live", DueRetract(d)'
             PROVE  Forgotten(d)' \/ \E r \in RowsOf(table', d) : WillRetract(r, d)'
  BY DEF GhostlessOf
<1>f. /\ kb' = kb /\ kn' = kn /\ posting' = posting
      /\ \A v \in Workers \ {w} : batch'[v] = batch[v]
      /\ batch'[w].ids = batch[w].ids
      /\ batch'[w].work[d].id = batch[w].work[d].id /\ batch'[w].work[d].op = batch[w].work[d].op
      /\ RowsFewer(d) /\ (DropDead(w, d) \/ RowsSame(d))
  BY OpFrame
<1>1. DueRetract(d) /\ Gone(d)
  BY <1>f DEF DueRetract, Gone, OpStep, MapSkip, MapIngest, MapRetract, ReduceRead, ReduceWrite, ReduceUnapplied,
              DrainDoc, Requeue, DeadLetter, DropDead
<1>o. batch[w].work[d].op \in {"ingest", "retract"}
  BY DEF BaseInv, TypeInv, WorkersOK, Batch, Op, OpKinds
<1>2. ~Writing(w, d)'
  BY <1>f, <1>1, OpMoves DEF OpStep, Writing, MapSkip, MapIngest, MapRetract
<1>3. NoWriter(d) => NoWriter(d)'
  BY <1>f, <1>2 DEF NoWriter, Writing, St
<1>4. CASE Forgotten(d)
  <2>1. ~Writing(w, d)
    BY <1>4 DEF Forgotten, NoWriter
  <2>2. d \notin refs'
    BY <1>4, <2>1
       DEF Forgotten, Writing, OpStep, MapSkip, MapIngest, MapRetract, ReduceRead, ReduceWrite, ReduceUnapplied,
           DrainDoc, Requeue, DeadLetter, DropDead
  <2> QED BY <1>3, <1>4, <2>2 DEF Forgotten
<1>5. ASSUME NEW r \in RowsOf(table, d), WillRetract(r, d)
      PROVE  Forgotten(d)' \/ \E i \in RowsOf(table', d) : WillRetract(i, d)'
  <2>1. CASE r \notin batch[w].ids
    <3>1. r \in RowsOf(table', d)
      <4>1. CASE DropDead(w, d)
        <5>1. batch[w].work[d].id \in batch[w].ids
          BY <4>1 DEF DropDead, BaseInv, OwnRow, OwnRowOf
        <5>2. table' \in {table, DeleteRows(table, {batch[w].work[d].id})}
          BY <4>1 DEF DropDead
        <5> QED BY <2>1, <5>1, <5>2 DEF RowsOf, DeleteRows
      <4> QED BY <1>f, <4>1 DEF RowsSame
    <3>2. \A v \in Workers : \/ r \notin batch'[v].ids
                             \/ batch'[v].ids = batch[v].ids /\ batch'[v].work[d] = batch[v].work[d]
      BY <1>f, <2>1
    <3>3. WillRetract(r, d)'
      BY <1>3, <1>5, <1>f, <3>1, <3>2, RetractStays
    <3> QED BY <3>1, <3>3
  <2>2. CASE r \in batch[w].ids
    <3>1. /\ batch[w].work[d].id = r /\ batch[w].work[d].op = "retract"
          /\ \/ St(w, d) = "todo"
             \/ St(w, d) \in {"mapped", "reducing", "unapplied", "exhausted", "settled"} /\ NoWriter(d)
      BY <1>5, <2>2 DEF WillRetract
    <3>2. ~DropDead(w, d) /\ ~MapSkip(w, d) /\ ~MapIngest(w, d) /\ ~DrainDoc(w, d) /\ ~DeadLetter(w, d)
      BY <3>1 DEF DropDead, MapSkip, MapIngest, DrainDoc, DeadLetter, DueRetract
    <3>3. NoWriter(d)
      <4>1. CASE MapRetract(w, d)
        BY <4>1 DEF MapRetract, DueRetract, NoWriter
      <4>2. CASE ReduceRead(w, d) \/ ReduceWrite(w, d) \/ ReduceUnapplied(w, d) \/ Requeue(w, d)
        BY <3>1, <4>2 DEF ReduceRead, ReduceWrite, ReduceUnapplied, Requeue
      <4> QED BY <3>2, <4>1, <4>2 DEF OpStep
    <3>4. CASE \/ MapRetract(w, d) /\ St(w, d)' = "mapped"
               \/ ReduceRead(w, d) \/ ReduceUnapplied(w, d) \/ Requeue(w, d)
      <4>1. St(w, d)' \in {"mapped", "reducing", "unapplied", "exhausted", "settled"}
        BY <3>1, <3>4, OpMoves
      <4>2. r \in RowsOf(table', d)
        BY <1>f, <3>2 DEF RowsSame
      <4>3. \A v \in Workers \ {w} : batch'[v].ids = batch[v].ids /\ batch'[v].work[d] = batch[v].work[d]
        BY <1>f
      <4>4. WillRetract(r, d)'
        BY <1>3, <1>5, <1>f, <3>1, <3>3, <4>1, <4>2, <4>3, RetractStays
      <4> QED BY <4>2, <4>4
    <3>5. CASE MapRetract(w, d) /\ St(w, d)' # "mapped"
      BY <1>3, <3>3, <3>5, OpMoves DEF Forgotten, MapRetract
    <3>6. CASE ReduceWrite(w, d)
      BY <1>3, <3>1, <3>3, <3>6 DEF Forgotten, ReduceWrite, DueRetract
    <3> QED BY <3>2, <3>4, <3>5, <3>6 DEF OpStep
  <2> QED BY <2>1, <2>2
<1> QED BY <1>1, <1>4, <1>5, <1>f DEF GhostlessOf

LEMMA NextGhostless ==
  ASSUME BaseInv, Next, NEW d \in Docs, GhostlessOf(d)
  PROVE  GhostlessOf(d)'
<1>0. ASSUME kb' = "live" => kb = "live", DocKept(d), RowsFewer(d), NoWriter(d) => NoWriter(d)',
             ASSUME NEW r \in RowsOf(table, d), WillRetract(r, d), kb' = "live"
             PROVE  r \in RowsOf(table', d) /\ WillRetract(r, d)'
      PROVE  GhostlessOf(d)'
  BY <1>0 DEF GhostlessOf, DueRetract, Forgotten, DocKept
<1>1. CASE Elsewhere(d) /\ (kb' = "live" => kb = "live")
  <2>1. /\ RowsFewer(d) /\ DocKept(d) /\ (kb' = "live" => RowsSame(d))
        /\ \A v \in Workers : OpKept(v, d) \/ Ended(v, d)
    BY <1>1 DEF Elsewhere
  <2>2. NoWriter(d) => NoWriter(d)'
    BY <2>1 DEF NoWriter, Writing, OpKept, Ended, St
  <2>3. ASSUME NEW r \in RowsOf(table, d), WillRetract(r, d), kb' = "live"
        PROVE  r \in RowsOf(table', d) /\ WillRetract(r, d)'
    <3>1. r \in RowsOf(table', d)
      BY <2>1, <2>3 DEF RowsSame
    <3>2. \A v \in Workers : \/ r \notin batch'[v].ids
                             \/ batch'[v].ids = batch[v].ids /\ batch'[v].work[d] = batch[v].work[d]
      BY <2>1 DEF OpKept, Ended
    <3> QED BY <2>1, <2>2, <2>3, <3>1, <3>2, RetractStays
  <2> QED BY <1>0, <1>1, <2>1, <2>2, <2>3
<1>2. CASE DocStep(d)
  <2> USE DEF docVars, knVars, queueVars
  <2>0. kn \in [Docs -> DocStates]
    BY DEF BaseInv, TypeInv, DocsOK
  <2>1. CASE DeleteRetract(d)
    <3> SUFFICES ASSUME kb = "live" PROVE \E r \in RowsOf(table', d) : WillRetract(r, d)'
      BY <2>1 DEF GhostlessOf, DeleteRetract
    <3>0. PICK n : n = nextId
      OBVIOUS
    <3>1. /\ Newest(n, d)' /\ table'[n].op = "retract"
          /\ \A w \in Workers : n \notin batch'[w].ids
      BY <2>1, <3>0, NewRow DEF DeleteRetract, OpKinds
    <3> QED BY <3>1 DEF WillRetract, Newest
  <2>2. CASE ~DeleteRetract(d)
    <3>1. ~DueRetract(d)'
      BY <1>2, <2>0, <2>2
         DEF DueRetract, DocStep, PostProcess, PostEnqueue, Reparse, CancelMark, DeleteMark, ScrubStep
    <3> QED BY <3>1 DEF GhostlessOf
  <2> QED BY <2>1, <2>2
<1>3. ASSUME NEW w \in Workers, Claim(w) PROVE GhostlessOf(d)'
  <2>1. kb' = kb /\ DocKept(d) /\ RowsFewer(d) /\ RowsOf(table', d) = RowsOf(table, d)
    BY <1>3, ClaimFrame DEF RowsSame
  <2>2. /\ \A v \in Workers \ {w} : batch'[v] = batch[v]
        /\ St(w, d)' \in {"absent", "todo"}
    BY <1>3, ClaimEffect DEF BaseInv
  <2>3. NoWriter(d) => NoWriter(d)'
    BY <2>2 DEF NoWriter, Writing, St
  <2>4. ASSUME NEW r \in RowsOf(table, d), WillRetract(r, d) PROVE WillRetract(r, d)'
    <3>1. r \in batch'[w].ids =>
            batch'[w].work[d].id = r /\ batch'[w].work[d].op = "retract" /\ St(w, d)' = "todo"
      BY <1>3, <2>4, ClaimNewest DEF WillRetract
    <3> QED BY <2>1, <2>2, <2>3, <2>4, <3>1, RetractStays
  <2> QED BY <1>0, <2>1, <2>3, <2>4
<1>4. ASSUME NEW w \in Workers, Trim(w) PROVE GhostlessOf(d)'
  <2>1. /\ kb' = kb /\ DocKept(d) /\ RowsFewer(d)
        /\ \A i \in RowsOf(table, d) : i \in TrimIds(w) \/ i \in RowsOf(table', d)
        /\ \A v \in Workers : batch'[v].ids = batch[v].ids /\ batch'[v].work = batch[v].work
    BY <1>4, TrimFrame
  <2>2. NoWriter(d) => NoWriter(d)'
    BY <2>1 DEF NoWriter, Writing, St
  <2>3. ASSUME NEW r \in RowsOf(table, d), WillRetract(r, d)
        PROVE  r \in RowsOf(table', d) /\ WillRetract(r, d)'
    <3>1. r \notin TrimIds(w)
      <4>1. CASE r \in batch[w].ids
        <5>1. /\ batch[w].work[d].id = r
              /\ St(w, d) \in {"todo", "mapped", "reducing", "unapplied", "exhausted", "settled"}
          BY <2>3, <4>1 DEF WillRetract
        <5>2. St(w, d) = "unapplied"
          BY <1>4, <5>1 DEF Trim, AllIn
        <5> QED BY <5>1, <5>2 DEF TrimIds, FailedIds
      <4> QED BY <4>1 DEF TrimIds
    <3>2. r \in RowsOf(table', d)
      BY <2>1, <2>3, <3>1
    <3> QED BY <2>1, <2>2, <2>3, <3>2, RetractStays
  <2> QED BY <1>0, <2>1, <2>2, <2>3
<1> QED BY <1>1, <1>2, <1>3, <1>4, OpKeepsGhostless, StepCases

\* Once the retract of a deleted document is through, no page names it: the
\* retract stays the newest operation of the document until a batch carries
\* it out, and nobody writes behind it, unless it was given up, lost to a
\* later ingest, or carried out while an ingest was about to write.
THEOREM RetractsAreFinal == Spec => []NoGhost
<1> DEFINE Inv == \A d \in Docs : GhostlessOf(d)
<1>1. Init => Inv
  BY DEF Init, GhostlessOf, DueRetract
<1>2. BaseInv /\ Inv /\ [Next]_vars => Inv'
  <2>1. BaseInv /\ Inv /\ Next => Inv'
    BY NextGhostless
  <2>2. Inv /\ UNCHANGED vars => Inv'
    BY DEF vars, GhostlessOf, DueRetract, Forgotten, WillRetract, NoWriter, Writing, Newest, St
  <2> QED BY <2>1, <2>2
<1>3. Inv => NoGhost
  BY DEF NoGhost, GhostlessOf, DueRetract, Forgotten
<1> HIDE DEF Inv
<1>4. Spec => []Inv
  BY <1>1, <1>2, AlwaysBaseInv, PTL DEF Spec
<1> QED BY <1>3, <1>4, PTL

-----------------------------------------------------------------------------
(* Concurrent batches work on disjoint rows and disjoint documents, for    *)
(* any number of workers, documents, crashes and restarts, as long as no   *)
(* statement that settles claimed rows fails: the deferred release of a    *)
(* batch whose settling failed clears claims of other batches.             *)
(*                                                                         *)
(* The invariant: what a batch holds carries a claim that is at most as    *)
(* old as the batch, hence fresh, hence invisible to ClaimBatch.           *)

NoError == \A w \in Workers : ~batch[w].err

\* The claims of a batch are as fresh as the batch.
HeldFreshOf(w) == \A i \in Held(w) : table[i].claim <= batch[w].age

HeldFresh == \A w \in Workers : HeldFreshOf(w)

ExclusionInv ==
    BaseInv /\ NoError /\ HeldFresh /\ RowExclusive /\ DocExclusive

LEMMA InitExclusionInv == Init => ExclusionInv
<1> SUFFICES ASSUME Init PROVE ExclusionInv
  OBVIOUS
<1>1. \A w \in Workers : batch[w] = Idle
  BY DEF Init
<1>2. \A w \in Workers : batch[w].ids = {} /\ ~batch[w].err /\ \A d \in Docs : St(w, d) = "absent"
  BY <1>1 DEF Idle, NoOp, St
<1>3. \A w \in Workers : Held(w) = {} /\ Owned(w) = {}
  BY <1>1, <1>2 DEF Held, Owned, Working, Idle
<1> QED BY <1>2, <1>3, InitBaseInv
        DEF ExclusionInv, NoError, HeldFresh, HeldFreshOf, RowExclusive, DocExclusive

\* A document that a batch owns has a row that the batch holds.
LEMMA OwnedHeld ==
  ASSUME OwnRow, NEW w \in Workers, NEW d \in Owned(w)
  PROVE  batch[w].work[d].id \in Held(w) /\ table[batch[w].work[d].id].doc = d
<1>1. d \in Docs /\ Live(w, d) /\ batch[w].work[d].id \in DOMAIN table
  BY DEF Owned, Working, Live
<1> QED BY <1>1 DEF OwnRow, OwnRowOf, Held, Live

\* A row that a batch holds has a fresh claim.
LEMMA HeldIsFresh ==
  ASSUME TypeInv, HeldFresh, NEW w \in Workers, NEW i \in Held(w)
  PROVE  Fresh(table[i])
<1>1. table[i] \in Row /\ batch[w] \in Batch
  BY DEF Held, TypeInv, QueueOK, WorkersOK, IsTable
<1> QED BY <1>1, WikiIngestAssumption, StaleAgeAssumption DEF HeldFresh, HeldFreshOf, Fresh, Row, Batch

\* Without a failing settling statement no batch ends in an error.
LEMMA StepNoError ==
  ASSUME BaseInv, NoError, ~Fault("settle"), Next, NEW v \in Workers
  PROVE  ~batch'[v].err
<1> USE DEF docVars, knVars, queueVars
<1>b. batch \in [Workers -> Batch] /\ batch[v] \in Batch /\ ~batch[v].err
  BY DEF BaseInv, TypeInv, WorkersOK, NoError
<1>0. CASE batch'[v] = batch[v]
  BY <1>0, <1>b
<1>e. ASSUME NEW w \in Workers, NEW b, ~b.err, batch' = [batch EXCEPT ![w] = b]
      PROVE  ~batch'[v].err
  BY <1>b, <1>e
<1>i. ~Idle.err /\ \A k \in TaskKinds : /\ ~[Idle EXCEPT !.pc = "claim", !.kind = k, !.slot = TRUE].err
                                        /\ ~[Idle EXCEPT !.pc = "claim", !.kind = k].err
  BY DEF Idle
<1>d. ~[Idle EXCEPT !.pc = "down"].err
  BY DEF Idle
<1>1. ASSUME NEW d \in Docs, DocStep(d) PROVE ~batch'[v].err
  BY <1>0, <1>1
     DEF DocStep, PostProcess, PostEnqueue, Reparse, CancelMark, DeleteMark, ScrubStep, DeleteRetract
<1>2. CASE DeleteKB \/ CleanKB \/ ExpireSlot
  BY <1>0, <1>2 DEF DeleteKB, CleanKB, ExpireSlot
<1>3. ASSUME NEW w \in Workers, NEW k \in TaskKinds, StartStep(w, k) PROVE ~batch'[v].err
  <2>1. CASE Start(w, k)
    <3>1. \/ batch' = [batch EXCEPT ![w] = [Idle EXCEPT !.pc = "claim", !.kind = k, !.slot = TRUE]]
          \/ batch' = [batch EXCEPT ![w] = [Idle EXCEPT !.pc = "claim", !.kind = k]]
      BY <2>1 DEF Start
    <3> QED BY <3>1, <1>e, <1>i
  <2> QED BY <1>0, <1>3, <2>1 DEF StartStep, StartDeleted, StartCapped
<1>4. ASSUME NEW w \in Workers, BatchStep(w) PROVE ~batch'[v].err
  <2>1. CASE Claim(w)
    BY <1>b, <2>1, ClaimEffect DEF BaseInv
  <2>2. CASE Trim(w)
    <3>1. batch' = [batch EXCEPT ![w] = [batch[w] EXCEPT !.pc = "settle"]]
      BY <2>2 DEF Trim
    <3>2. ~[batch[w] EXCEPT !.pc = "settle"].err
      BY DEF BaseInv, TypeInv, WorkersOK, Batch, NoError
    <3> QED BY <3>1, <3>2, <1>e
  <2>3. CASE ClaimNothing(w) \/ ClaimFails(w) \/ Finish(w) \/ Abort(w)
    BY <2>3, <1>e, <1>i DEF ClaimNothing, ClaimFails, Finish, Abort
  <2> QED BY <1>4, <2>1, <2>2, <2>3 DEF BatchStep
<1>5. ASSUME NEW w \in Workers, Crash(w) \/ Restart(w) PROVE ~batch'[v].err
  BY <1>5, <1>e, <1>i, <1>d DEF Crash, Restart
<1>6. ASSUME NEW w \in Workers, NEW d \in Docs, OpStep(w, d) PROVE ~batch'[v].err
  <2>1. PICK s \in OpStates : SetSt(w, d, s)
    BY <1>6 DEF OpStep, MapSkip, MapIngest, MapRetract, ReduceRead, ReduceWrite, ReduceUnapplied,
       DrainDoc, Requeue, DeadLetter, DropDead, OpStates
  <2> QED BY <1>b, <2>1, SetStFacts DEF NoError
<1>7. CASE Tick
  <2>1. batch'[v] = [batch[v] EXCEPT !.age = batch[v].age + 1] \/ batch'[v] = batch[v]
    BY <1>7 DEF Tick
  <2> QED BY <1>b, <2>1 DEF Batch
<1> QED BY <1>1, <1>2, <1>3, <1>4, <1>5, <1>6, <1>7 DEF Next

\* The claims of a batch that does not claim: they keep their age, or the
\* batch grows older with them, or they are no longer held.
LEMMA QuietFresh ==
  ASSUME ExclusionInv, ~Fault("settle"), Next, NEW v \in Workers,
         \A w \in Workers : ~Claim(w)
  PROVE  HeldFreshOf(v)'
<1> USE DEF docVars, knVars, queueVars
<1>0. /\ BaseInv /\ TypeInv /\ RowsKeep /\ BatchAfter(v) /\ Held(v)' \subseteq Held(v)
      /\ \A i \in Held(v) : i \in DOMAIN table /\ table[i].claim <= batch[v].age
  BY StepKeepsRows, StepBatchAfter, QuietKeeps DEF ExclusionInv, BaseInv, HeldFresh, HeldFreshOf, Held
<1> SUFFICES ASSUME NEW i \in Held(v)' PROVE table'[i].claim <= batch'[v].age
  BY DEF HeldFreshOf
<1>1. i \in Held(v) /\ i \in DOMAIN table /\ i \in DOMAIN table' /\ table[i].claim <= batch[v].age
  BY <1>0 DEF Held
<1>2. batch'[v].ids # {}
  BY DEF Held
<1>b. batch \in [Workers -> Batch] /\ batch[v] \in Batch
  BY <1>0 DEF TypeInv, WorkersOK
<1>3. CASE Tick
  <2>1. Running(v)
    BY <1>1 DEF Held, ExclusionInv, BaseInv, NothingYet, Running
  <2>2. batch'[v].age = batch[v].age + 1
    BY <1>3, <1>b, <2>1 DEF Tick, Batch
  <2>3. table'[i].claim <= table[i].claim + 1
    BY <1>0, <1>1, <1>3, AgedRow DEF Tick, TypeInv, QueueOK
  <2>4. table[i] \in Row /\ table'[i] \in Row
    BY <1>0, <1>1, NextTypeInv DEF TypeInv, QueueOK, IsTable
  <2> QED BY <1>1, <1>b, <2>2, <2>3, <2>4, StaleAgeAssumption, WikiIngestAssumption DEF Row, Batch
<1>4. CASE ~Tick
  <2>1. batch'[v].age = batch[v].age
    <3>1. CASE \E w \in Workers, d \in Docs : OpStep(w, d)
      BY <1>0, <3>1, OpStepAfter
    <3>2. CASE batch'[v] = batch[v]
      BY <3>2
    <3>3. CASE batch'[v] = [batch[v] EXCEPT !.pc = "settle"]
      BY <1>b, <3>3 DEF Batch
    <3>4. CASE batch'[v].ids = {}
      BY <1>2, <3>4
    <3>5. ASSUME NEW w \in Workers, NEW b, batch' = [batch EXCEPT ![w] = b],
                 b.ids = {} \/ b = [batch[w] EXCEPT !.pc = "settle"]
          PROVE  batch'[v].age = batch[v].age
      BY <1>b, <3>2, <3>3, <3>4, <3>5
    <3>6. ASSUME NEW w \in Workers, BatchStep(w) \/ Crash(w) \/ Restart(w)
          PROVE  batch'[v].age = batch[v].age
      <4>1. \/ batch' = [batch EXCEPT ![w] = Idle]
            \/ batch' = [batch EXCEPT ![w] = [Idle EXCEPT !.pc = "down"]]
            \/ batch' = [batch EXCEPT ![w].pc = "settle"]
        BY <3>6 DEF BatchStep, ClaimNothing, ClaimFails, Trim, Finish, Abort, Crash, Restart
      <4> QED BY <3>5, <4>1 DEF Idle
    <3>7. ASSUME NEW w \in Workers, NEW k \in TaskKinds, StartStep(w, k)
          PROVE  batch'[v].age = batch[v].age
      <4>1. \/ batch' = batch
            \/ batch' = [batch EXCEPT ![w] = [Idle EXCEPT !.pc = "claim", !.kind = k, !.slot = TRUE]]
            \/ batch' = [batch EXCEPT ![w] = [Idle EXCEPT !.pc = "claim", !.kind = k]]
        BY <3>7 DEF StartStep, StartDeleted, Start, StartCapped
      <4> QED BY <3>5, <4>1 DEF Idle
    <3>8. CASE batch' = batch
      BY <3>8
    <3>9. ASSUME NEW d \in Docs, DocStep(d) PROVE batch' = batch
      BY <3>9
         DEF DocStep, PostProcess, PostEnqueue, Reparse, CancelMark, DeleteMark, ScrubStep, DeleteRetract
    <3>10. CASE DeleteKB \/ CleanKB \/ ExpireSlot
      BY <3>8, <3>10 DEF DeleteKB, CleanKB, ExpireSlot
    <3> QED BY <1>4, <3>1, <3>6, <3>7, <3>8, <3>9, <3>10 DEF Next
  <2>2. table'[i].claim = table[i].claim
    <3>1. CASE ClaimsKeep
      BY <1>1, <3>1 DEF ClaimsKeep
    <3>2. ASSUME NEW w \in Workers, Abort(w) PROVE FALSE
      BY <3>2 DEF Abort, ExclusionInv, NoError
    <3>3. ASSUME NEW w \in Workers, NEW d \in Docs, Requeue(w, d)
          PROVE  table'[i].claim = table[i].claim
      <4> DEFINE id == batch[w].work[d].id
      <4>1. CASE i # id
        BY <1>0, <1>1, <3>3, <4>1, RequeueRows
      <4>2. CASE table' = IncrFail(table, id)
        BY <1>0, <1>1, <4>2, RowsAfter DEF TypeInv, QueueOK
      <4>3. CASE i = id /\ SetSt(w, d, "settled")
        <5>1. St(w, d) \in {"failed", "unapplied"}
          BY <3>3 DEF Requeue
        <5>2. i \in Held(w) /\ table[i].doc = d
          BY <1>1, <4>3, <5>1 DEF ExclusionInv, BaseInv, OwnRow, OwnRowOf, Held
        <5>3. v = w
          BY <1>1, <5>2 DEF ExclusionInv, RowExclusive
        <5>4. table'[i].doc = d
          BY <1>0, <1>1, <5>2, <3>3, RequeueRows DEF SameOp
        <5>5. batch'[w].work[d].st = "settled"
          BY <1>b, <4>3, SetStFacts DEF OpStates
        <5> QED BY <5>3, <5>4, <5>5 DEF Held, St
      <4>4. table' = IncrFail(table, id) \/ SetSt(w, d, "settled")
        BY <3>3 DEF Requeue
      <4> QED BY <4>1, <4>2, <4>3, <4>4
    <3> QED BY <1>0, <1>4, <3>1, <3>2, <3>3, StepKeepsRows
  <2> QED BY <1>1, <2>1, <2>2
<1> QED BY <1>3, <1>4

LEMMA ClaimKeepsInv ==
  ASSUME ExclusionInv, ~Fault("settle"), NEW w \in Workers, Claim(w)
  PROVE  ExclusionInv'
<1>0. /\ BaseInv /\ TypeInv /\ IsTable(table) /\ batch[w] \in Batch
      /\ nextId \in Nat /\ OwnRow /\ HeldFresh
  BY DEF ExclusionInv, BaseInv, TypeInv, QueueOK, WorkersOK
<1>n. Next
  BY DEF Next, BatchStep
<1>1. BaseInv' /\ RowsKeep
  BY <1>0, <1>n, NextBaseInv, StepKeepsRows
<1>2. ClaimedIds \subseteq DOMAIN table /\ table' = Stamp(table, ClaimedIds) /\ DOMAIN table' = DOMAIN table
  BY <1>0, ClaimEffect
<1>4. /\ batch'[w].ids = ClaimedIds /\ batch'[w].age = batch[w].age
      /\ \A d \in Docs : St(w, d)' # "absent" => d \in ClaimedDocs
      /\ \A v \in Workers \ {w} : batch'[v] = batch[v]
  BY <1>0, ClaimEffect
<1>s. \A i \in ClaimedIds : i \in DOMAIN table /\ \A j \in DOMAIN table : table[j].doc = table[i].doc => ~Fresh(table[j])
  BY ClaimedAreStale DEF ClaimedIds
<1>7. ASSUME NEW v \in Workers, v # w
      PROVE  /\ Held(v)' \subseteq Held(v) /\ Owned(v)' \subseteq Owned(v)
             /\ \A i \in Held(v) : i \notin ClaimedIds
  <2>1. \A i \in Held(v) : i \in DOMAIN table /\ Fresh(table[i])
    BY <1>0, HeldIsFresh DEF Held
  <2>2. BatchAfter(v)
    BY <1>0, <1>4, <1>7, SameBatch
  <2> QED BY <1>0, <1>1, <1>s, <2>1, <2>2, QuietKeeps
<1>8. Held(w)' \subseteq ClaimedIds
  BY <1>4 DEF Held
<1>9. \A d \in Owned(w)' : d \in ClaimedDocs
  BY <1>4 DEF Owned, Working
<1>13. NoError'
  BY <1>0, <1>n, StepNoError DEF ExclusionInv, NoError
<1>14. HeldFresh'
  <2>1. HeldFreshOf(w)'
    <3>1. ASSUME NEW i \in ClaimedIds PROVE table'[i].claim = 0
      BY <1>0, <1>2 DEF Stamp, IsTable, Row
    <3> QED BY <1>0, <1>4, <1>8, <3>1 DEF HeldFreshOf, Batch
  <2>2. ASSUME NEW v \in Workers, v # w PROVE HeldFreshOf(v)'
    <3>1. \A i \in Held(v) : i \in DOMAIN table /\ table[i].claim <= batch[v].age
      BY <1>0 DEF Held, HeldFresh, HeldFreshOf
    <3>2. \A i \in Held(v) : table'[i] = table[i]
      BY <1>0, <1>2, <1>7, <2>2, <3>1, RowsAfter
    <3> QED BY <1>4, <1>7, <2>2, <3>1, <3>2 DEF HeldFreshOf
  <2> QED BY <2>1, <2>2 DEF HeldFresh
<1>15. RowExclusive'
  <2>1. ASSUME NEW v \in Workers, NEW u \in Workers, v # u PROVE Held(v)' \cap Held(u)' = {}
    BY <1>7, <1>8, <2>1 DEF ExclusionInv, RowExclusive
  <2> QED BY <2>1 DEF RowExclusive
<1>16. DocExclusive'
  <2>1. ASSUME NEW v \in Workers, v # w PROVE Owned(v)' \cap Owned(w)' = {}
    <3>1. ASSUME NEW d \in Owned(v)', d \in Owned(w)' PROVE FALSE
      <4>1. d \in Owned(v)
        BY <1>7, <2>1, <3>1
      <4>2. batch[v].work[d].id \in Held(v) /\ table[batch[v].work[d].id].doc = d
        BY <1>0, <4>1, OwnedHeld
      <4>3. Fresh(table[batch[v].work[d].id]) /\ batch[v].work[d].id \in DOMAIN table
        BY <1>0, <4>2, HeldIsFresh DEF Held
      <4> QED BY <1>9, <1>s, <3>1, <4>2, <4>3 DEF ClaimedDocs
    <3> QED BY <3>1
  <2>2. ASSUME NEW v \in Workers, NEW u \in Workers, v # u PROVE Owned(v)' \cap Owned(u)' = {}
    BY <1>7, <2>1, <2>2 DEF ExclusionInv, DocExclusive
  <2> QED BY <2>2 DEF DocExclusive
<1> QED BY <1>1, <1>13, <1>14, <1>15, <1>16 DEF ExclusionInv

LEMMA NextExclusionInv ==
  ASSUME ~Fault("settle"), ExclusionInv, [Next]_vars
  PROVE  ExclusionInv'
<1>b. BaseInv /\ BaseInv'
  BY NextBaseInv DEF ExclusionInv
<1>1. CASE \E w \in Workers : Claim(w)
  BY <1>1, ClaimKeepsInv
<1>2. CASE Next /\ \A w \in Workers : ~Claim(w)
  <2>1. RowsKeep
    BY <1>b, <1>2, StepKeepsRows DEF BaseInv
  <2>2. ASSUME NEW v \in Workers
        PROVE  /\ HeldFreshOf(v)' /\ ~batch'[v].err
               /\ Held(v)' \subseteq Held(v) /\ Owned(v)' \subseteq Owned(v)
    <3>1. BatchAfter(v)
      BY <1>b, <1>2, StepBatchAfter
    <3> QED BY <1>b, <1>2, <2>1, <3>1, QuietFresh, QuietKeeps, StepNoError DEF ExclusionInv
  <2>5. HeldFresh' /\ NoError' /\ RowExclusive' /\ DocExclusive'
    BY <2>2 DEF ExclusionInv, HeldFresh, NoError, RowExclusive, DocExclusive
  <2> QED BY <1>b, <2>5 DEF ExclusionInv
<1>3. CASE UNCHANGED vars
  BY <1>b, <1>3 DEF vars, ExclusionInv, NoError, HeldFresh, HeldFreshOf, RowExclusive, DocExclusive,
                    Held, Owned, Working, St
<1> QED BY <1>1, <1>2, <1>3

\* No settling statement has failed so far.
SettlingWorks == "settle" \notin FaultKinds \/ faults = 0

\* Faults are only counted up.
LEMMA FaultsGrow ==
  ASSUME TypeInv, [Next]_vars
  PROVE  /\ faults' \in {faults, faults + 1}
         /\ SettlingWorks' => SettlingWorks /\ ~Fault("settle")
<1> USE DEF docVars, knVars, queueVars
<1>f. faults \in Nat
  BY DEF TypeInv, CountsOK
<1>1. ASSUME NEW d \in Docs, DocStep(d) PROVE faults' \in {faults, faults + 1}
  BY <1>1 DEF DocStep, PostProcess, PostEnqueue, Reparse, CancelMark, DeleteMark, ScrubStep,
              DeleteRetract, Enqueue, ScrubPending, PlainTrigger, Fault
<1>2. ASSUME DeleteKB \/ CleanKB \/ ExpireSlot \/ Tick PROVE faults' \in {faults, faults + 1}
  BY <1>2 DEF DeleteKB, CleanKB, ExpireSlot, Tick
<1>3. ASSUME NEW w \in Workers, NEW k \in TaskKinds, StartStep(w, k) PROVE faults' \in {faults, faults + 1}
  BY <1>3 DEF StartStep, StartDeleted, Start, StartCapped, Fault
<1>4. ASSUME NEW w \in Workers, BatchStep(w) \/ Crash(w) \/ Restart(w)
      PROVE  faults' \in {faults, faults + 1}
  BY <1>4 DEF BatchStep, Claim, ClaimNothing, ClaimFails, Trim, Finish, Abort, Crash, Restart,
              PlainTrigger, Fault
<1>5. ASSUME NEW w \in Workers, NEW d \in Docs, OpStep(w, d) PROVE faults' \in {faults, faults + 1}
  BY <1>5 DEF OpStep, MapSkip, MapIngest, MapRetract, ReduceRead, ReduceWrite, ReduceUnapplied,
              DrainDoc, Requeue, DeadLetter, DropDead, Fault
<1>6. faults' \in {faults, faults + 1}
  BY <1>1, <1>2, <1>3, <1>4, <1>5 DEF Next, vars
<1> QED BY <1>f, <1>6 DEF SettlingWorks, Fault

LEMMA AlwaysExclusion == Spec => [](SettlingWorks => ExclusionInv)
<1>1. TypeInv /\ (SettlingWorks => ExclusionInv) /\ [Next]_vars => (SettlingWorks => ExclusionInv)'
  BY FaultsGrow, NextExclusionInv
<1> QED BY InitExclusionInv, <1>1, AlwaysTypeInv, PTL DEF Spec

\* Concurrent batches hold disjoint rows: the claims of ClaimBatch and the
\* timeout of a batch keep them apart, through requeues, dead letters,
\* scrubs, deletes, crashes and recovered tasks.
THEOREM RowsExclusive ==
  ASSUME "settle" \notin FaultKinds
  PROVE  Spec => []RowExclusive
<1>1. SettlingWorks /\ (SettlingWorks => ExclusionInv) => RowExclusive
  BY DEF ExclusionInv
<1>2. SettlingWorks
  BY DEF SettlingWorks
<1> QED BY <1>1, <1>2, AlwaysExclusion, PTL

\* No document is split across two batches: a row of a document that some
\* batch is working on hides the later rows of the document from ClaimBatch.
THEOREM DocsExclusive ==
  ASSUME "settle" \notin FaultKinds
  PROVE  Spec => []DocExclusive
<1>1. SettlingWorks /\ (SettlingWorks => ExclusionInv) => DocExclusive
  BY DEF ExclusionInv
<1>2. SettlingWorks
  BY DEF SettlingWorks
<1> QED BY <1>1, <1>2, AlwaysExclusion, PTL

-----------------------------------------------------------------------------
(* A document that is not parsed again is drained once, and once more for  *)
(* each crash at most, as long as no settling statement fails.             *)

Calm == "reparse" \notin UserOps /\ SettlingWorks

Ingesting(w, d) == St(w, d) # "absent" /\ batch[w].work[d].op = "ingest"

Draining(w, d) == Ingesting(w, d) /\ St(w, d) \in Pending

\* The drain is behind the batch, and the delete of the row before it.
Through(w, d) ==
    /\ Ingesting(w, d)
    /\ (St(w, d) \in {"skipped", "done"} /\ batch[w].pc = "work") \/ St(w, d) = "archived"

\* A document has nothing to do with ingests before one is queued ...
Unqueued(d) ==
    kn[d] = "parsing" \/ d \in posting =>
        /\ drained[d] = 0
        /\ \A i \in RowsOf(table, d) : table[i].op # "ingest"
        /\ \A w \in Workers : ~Ingesting(w, d)

Posted(d) == d \in posting => kn[d] # "parsing"

\* ... then one row, which every batch that has an ingest of it is about ...
OneIngest(d) ==
    \A i \in RowsOf(table, d) : table[i].op = "ingest" =>
        /\ \A j \in RowsOf(table, d) : table[j].op = "ingest" => i = j
        /\ \A w \in Workers : Ingesting(w, d) => batch[w].work[d].id = i

\* ... which is about to drain it in one batch at a time ...
OneDrain(d) ==
    \A v, w \in Workers : Draining(v, d) /\ Draining(w, d) => v = w

\* ... and, once drained, leaves the queue in the hands of that batch.
Leaving(d) ==
    /\ \A w \in Workers : ~Draining(w, d)
    /\ \A i \in RowsOf(table, d) : table[i].op = "ingest" => \E w \in Workers : Through(w, d)

\* Every drain but the first is that of a crash, and so is the next one.
DrainsCounted(d) == drained[d] <= 1 + crashes /\ (drained[d] <= crashes \/ Leaving(d))

\* A batch drains ingests only.
DrainsIngests(d) == \A w \in Workers : St(w, d) \in {"ok", "dropped"} => Ingesting(w, d)

OnceOf(d) ==
    Unqueued(d) /\ Posted(d) /\ OneIngest(d) /\ OneDrain(d) /\ DrainsCounted(d) /\ DrainsIngests(d)

LEMMA CalmBefore ==
  ASSUME TypeInv, Next, Calm'
  PROVE  Calm /\ SettlingWorks /\ ~Fault("settle")
  BY FaultsGrow DEF Calm

\* Crashes are counted.
LEMMA CrashesGrow ==
  ASSUME Next
  PROVE  crashes' = crashes \/ \E w \in Workers : Crash(w) /\ crashes' = crashes + 1
<1> USE DEF docVars, knVars, queueVars
<1>1. ASSUME NEW d \in Docs, DocStep(d) PROVE crashes' = crashes
  BY <1>1 DEF DocStep, PostProcess, PostEnqueue, Reparse, CancelMark, DeleteMark, ScrubStep, DeleteRetract
<1>2. ASSUME NEW w \in Workers, NEW k \in TaskKinds, StartStep(w, k) PROVE crashes' = crashes
  BY <1>2 DEF StartStep, StartDeleted, Start, StartCapped
<1>3. ASSUME NEW w \in Workers, BatchStep(w) \/ Restart(w) PROVE crashes' = crashes
  BY <1>3 DEF BatchStep, Claim, ClaimNothing, ClaimFails, Trim, Finish, Abort, Restart
<1>4. ASSUME NEW w \in Workers, NEW d \in Docs, OpStep(w, d) PROVE crashes' = crashes
  BY <1>4 DEF OpStep, MapSkip, MapIngest, MapRetract, ReduceRead, ReduceWrite, ReduceUnapplied,
              DrainDoc, Requeue, DeadLetter, DropDead
<1>5. CASE DeleteKB \/ CleanKB \/ ExpireSlot \/ Tick
  BY <1>5 DEF DeleteKB, CleanKB, ExpireSlot, Tick
<1>6. ASSUME NEW w \in Workers, Crash(w) PROVE crashes' = crashes + 1
  BY <1>6 DEF Crash
<1> QED BY <1>1, <1>2, <1>3, <1>4, <1>5, <1>6 DEF Next

LEMMA DocKeepsOnce ==
  ASSUME BaseInv, Next, Calm', NEW d \in Docs, DocStep(d), OnceOf(d)
  PROVE  OnceOf(d)'
<1> USE DEF docVars, knVars, queueVars
<1>0. kn \in [Docs -> DocStates] /\ drained \in [Docs -> Nat] /\ TypeInv /\ RowsKeep
  BY StepKeepsRows DEF BaseInv, TypeInv, DocsOK
<1>1. batch' = batch /\ kb' = kb /\ crashes' = crashes /\ crashes \in Nat
  BY <1>0 DEF DocStep, PostProcess, PostEnqueue, Reparse, CancelMark, DeleteMark, ScrubStep, DeleteRetract,
              TypeInv, CountsOK
<1>r. ~Reparse(d)
  BY DEF Reparse, Calm
<1>w. \A w \in Workers : /\ St(w, d)' = St(w, d) /\ (Ingesting(w, d)' <=> Ingesting(w, d))
                         /\ (Draining(w, d)' <=> Draining(w, d)) /\ (Through(w, d)' <=> Through(w, d))
  BY <1>1 DEF St, Ingesting, Draining, Through
<1>2. \/ drained'[d] = drained[d] \/ drained'[d] = 0
  BY <1>0, <1>r DEF DocStep, PostProcess, PostEnqueue, CancelMark, DeleteMark, ScrubStep, DeleteRetract
<1>3. /\ Posted(d)'
      /\ (kn'[d] = "parsing" \/ d \in posting') => (kn[d] = "parsing" \/ d \in posting)
  BY <1>0, <1>r DEF OnceOf, Posted, DocStep, PostProcess, PostEnqueue, CancelMark, DeleteMark, ScrubStep, DeleteRetract
<1>4. ASSUME RowsFewer(d) PROVE OnceOf(d)'
  <2>1. Unqueued(d)'
    BY <1>2, <1>3, <1>4, <1>w DEF OnceOf, Unqueued, RowsFewer
  <2>2. OneIngest(d)'
    BY <1>1, <1>4, <1>w DEF OnceOf, OneIngest, RowsFewer
  <2>3. OneDrain(d)' /\ DrainsIngests(d)'
    BY <1>2, <1>w DEF OnceOf, OneDrain, DrainsIngests
  <2>4. DrainsCounted(d)'
    <3>1. Leaving(d) => Leaving(d)'
      BY <1>4, <1>w DEF Leaving, RowsFewer
    <3> QED BY <1>1, <1>2, <3>1 DEF OnceOf, DrainsCounted
  <2> QED BY <1>3, <2>1, <2>2, <2>3, <2>4 DEF OnceOf
<1>5. ASSUME NEW o \in OpKinds, Enqueue(d, o), o = "ingest" => PostEnqueue(d) PROVE OnceOf(d)'
  <2>1. CASE kb # "live"
    BY <1>4, <1>5, <2>1 DEF Enqueue, RowsFewer
  <2>2. CASE kb = "live"
    <3>0. PICK n : n = nextId
      OBVIOUS
    <3>1. /\ table'[n].op = o /\ n \notin DOMAIN table /\ \A j \in DOMAIN table : table'[j] = table[j]
          /\ RowsOf(table', d) = RowsOf(table, d) \cup {n}
      BY <1>1, <1>5, <2>2, <3>0, NewRow
    <3>2. \A j \in RowsOf(table, d) : table'[j] = table[j]
      BY <3>1 DEF RowsOf
    <3>3. CASE o # "ingest"
      <4>1. \A i \in RowsOf(table', d) : table'[i].op = "ingest" => i \in RowsOf(table, d) /\ table[i].op = "ingest"
        BY <3>1, <3>2, <3>3
      <4>2. Unqueued(d)'
        BY <1>2, <1>3, <4>1, <1>w DEF OnceOf, Unqueued
      <4>3. OneIngest(d)'
        BY <1>1, <4>1, <1>w DEF OnceOf, OneIngest
      <4>4. OneDrain(d)' /\ DrainsIngests(d)'
        BY <1>2, <1>w DEF OnceOf, OneDrain, DrainsIngests
      <4>5. Leaving(d) => Leaving(d)'
        BY <3>2, <4>1, <1>w DEF Leaving
      <4>6. DrainsCounted(d)'
        BY <1>1, <1>2, <4>5 DEF OnceOf, DrainsCounted
      <4> QED BY <1>3, <4>2, <4>3, <4>4, <4>6 DEF OnceOf
    <3>4. CASE o = "ingest"
      <4>1. /\ drained[d] = 0 /\ \A i \in RowsOf(table, d) : table[i].op # "ingest"
            /\ \A w \in Workers : ~Ingesting(w, d)
        BY <1>5, <3>4 DEF PostEnqueue, OnceOf, Unqueued
      <4>2. drained'[d] = 0 /\ d \notin posting' /\ kn'[d] # "parsing"
        BY <1>5, <3>4, <4>1 DEF PostEnqueue, OnceOf, Posted
      <4>3. \A i \in RowsOf(table', d) : table'[i].op = "ingest" => i = n
        BY <3>1, <3>2, <4>1
      <4>4. OneIngest(d)'
        BY <4>1, <4>3, <1>w DEF OneIngest
      <4>5. OneDrain(d)' /\ DrainsIngests(d)'
        BY <4>1, <1>w DEF OnceOf, OneDrain, Draining, DrainsIngests
      <4>6. DrainsCounted(d)'
        BY <1>1, <4>2 DEF DrainsCounted
      <4> QED BY <1>3, <4>2, <4>4, <4>5, <4>6 DEF OnceOf, Unqueued
    <3> QED BY <3>3, <3>4
  <2> QED BY <2>1, <2>2
<1>6. CASE PostEnqueue(d) \/ DeleteRetract(d)
  <2>1. (Enqueue(d, "ingest") /\ PostEnqueue(d)) \/ Enqueue(d, "retract")
    BY <1>6 DEF PostEnqueue, DeleteRetract
  <2> QED BY <1>5, <2>1 DEF OpKinds
<1>7. CASE PostProcess(d) \/ CancelMark(d) \/ DeleteMark(d) \/ ScrubStep(d)
  <2>1. nextId' = nextId
    BY <1>7 DEF PostProcess, CancelMark, DeleteMark, ScrubStep
  <2> QED BY <1>0, <1>4, <2>1, RowsStay
<1> QED BY <1>6, <1>7, <1>r DEF DocStep

LEMMA OpKeepsOnce ==
  ASSUME BaseInv, Next, Calm', NEW w \in Workers, NEW d \in Docs, OpStep(w, d), OnceOf(d)
  PROVE  OnceOf(d)'
<1> USE DEF docVars, knVars, queueVars
<1>0. /\ kn \in [Docs -> DocStates] /\ drained \in [Docs -> Nat] /\ TypeInv
      /\ drained[d] \in Nat /\ crashes \in Nat /\ crashes' = crashes
  BY DEF BaseInv, TypeInv, DocsOK, CountsOK, OpStep, MapSkip, MapIngest, MapRetract, ReduceRead, ReduceWrite,
         ReduceUnapplied, DrainDoc, Requeue, DeadLetter, DropDead
<1>c. ~Fault("settle")
  BY <1>0, CalmBefore
<1>f. /\ kn' = kn /\ posting' = posting
      /\ \A v \in Workers \ {w} : batch'[v] = batch[v]
      /\ batch'[w].pc = batch[w].pc
      /\ batch'[w].work[d].id = batch[w].work[d].id /\ batch'[w].work[d].op = batch[w].work[d].op
      /\ RowsFewer(d)
  BY OpFrame
<1>a. St(w, d) # "absent" /\ St(w, d)' # "absent"
  <2>1. St(w, d) # "absent"
    BY DEF OpStep, MapSkip, MapIngest, MapRetract, ReduceRead, ReduceWrite, ReduceUnapplied,
           DrainDoc, Requeue, DeadLetter, DropDead
  <2> QED BY <2>1, OpMoves DEF OpStep
<1>1. \A v \in Workers : Ingesting(v, d)' <=> Ingesting(v, d)
  BY <1>f, <1>a DEF Ingesting, St
<1>2. /\ St(w, d)' \in Pending => St(w, d) \in Pending
      /\ St(w, d) \in {"skipped", "done"} => FALSE
  BY OpMoves DEF OpStep, Pending, MapSkip, MapIngest, MapRetract, ReduceRead, ReduceWrite, ReduceUnapplied,
                 DrainDoc, Requeue, DeadLetter, DropDead
<1>3. \A v \in Workers : Draining(v, d)' => Draining(v, d)
  BY <1>f, <1>1, <1>2 DEF Draining, St
\* The step drains, as an ingest of the one batch that was about to.
<1>4. \/ drained'[d] = drained[d]
      \/ /\ Draining(w, d) /\ Through(w, d)' /\ ~Draining(w, d)'
         /\ drained'[d] \in {drained[d], drained[d] + 1}
  <2>d. Drain(d) => drained'[d] \in {drained[d], drained[d] + 1}
    BY <1>0 DEF Drain
  <2>1. CASE MapSkip(w, d)
    <3>1. Draining(w, d)
      BY <2>1 DEF MapSkip, Draining, Ingesting, Pending
    <3>2. St(w, d)' = "skipped" /\ batch[w].pc = "work" /\ Drain(d)
      BY <2>1, OpMoves DEF MapSkip
    <3> QED BY <1>1, <1>f, <2>d, <3>1, <3>2 DEF Through, Draining, Pending
  <2>2. CASE DrainDoc(w, d)
    <3>1. Draining(w, d)
      BY <2>2 DEF DrainDoc, Draining, Pending, OnceOf, DrainsIngests
    <3>2. St(w, d)' = "done" /\ batch[w].pc = "work" /\ Drain(d)
      BY <2>2, OpMoves DEF DrainDoc
    <3> QED BY <1>1, <1>f, <2>d, <3>1, <3>2 DEF Through, Draining, Pending
  <2>3. CASE DeadLetter(w, d)
    <3>1. CASE batch[w].work[d].op = "ingest"
      <4>1. Draining(w, d)
        BY <2>3, <3>1 DEF DeadLetter, Draining, Ingesting, Pending
      <4>2. St(w, d)' = "archived" /\ Drain(d)
        BY <2>3, <3>1, OpMoves DEF DeadLetter
      <4> QED BY <1>1, <2>d, <4>1, <4>2 DEF Through, Draining, Pending
    <3>2. CASE batch[w].work[d].op # "ingest"
      BY <2>3, <3>2 DEF DeadLetter
    <3> QED BY <3>1, <3>2
  <2>4. CASE drained' = drained
    BY <2>4
  <2> QED BY <2>1, <2>2, <2>3, <2>4
        DEF OpStep, MapIngest, MapRetract, ReduceRead, ReduceWrite, ReduceUnapplied, Requeue, DropDead
<1>5. Unqueued(d)' /\ Posted(d)'
  BY <1>f, <1>1, <1>4 DEF OnceOf, Unqueued, Posted, Draining, RowsFewer
<1>6. OneIngest(d)'
  BY <1>f, <1>1 DEF OnceOf, OneIngest, RowsFewer
<1>7. OneDrain(d)'
  BY <1>3 DEF OnceOf, OneDrain
\* What had left the queue in the hands of a batch still does.
<1>8. ASSUME Leaving(d) PROVE Leaving(d)'
  <2> SUFFICES ASSUME NEW i \in RowsOf(table', d), table'[i].op = "ingest" PROVE \E v \in Workers : Through(v, d)'
    BY <1>3, <1>8 DEF Leaving
  <2>1. i \in RowsOf(table, d) /\ table[i].op = "ingest"
    BY <1>f DEF RowsFewer
  <2>2. PICK v \in Workers : Through(v, d)
    BY <1>8, <2>1 DEF Leaving
  <2>3. CASE v # w
    BY <1>f, <2>2, <2>3 DEF Through, Ingesting, St
  <2>4. CASE v = w
    <3>1. DropDead(w, d)
      BY <1>2, <2>2, <2>4
         DEF Through, OpStep, MapSkip, MapIngest, MapRetract, ReduceRead, ReduceWrite,
             ReduceUnapplied, DrainDoc, Requeue, DeadLetter
    <3>2. table' = DeleteRows(table, {batch[w].work[d].id})
      BY <1>c, <3>1 DEF DropDead
    <3>3. batch[w].work[d].id = i
      BY <2>1, <2>2, <2>4 DEF Through, OnceOf, OneIngest
    <3> QED BY <3>2, <3>3 DEF RowsOf, DeleteRows
  <2> QED BY <2>3, <2>4
<1>10. DrainsCounted(d)'
  <2>1. CASE drained'[d] = drained[d]
    BY <1>0, <1>8, <2>1 DEF OnceOf, DrainsCounted
  <2>2. CASE /\ Draining(w, d) /\ Through(w, d)' /\ ~Draining(w, d)'
             /\ drained'[d] \in {drained[d], drained[d] + 1}
    <3>1. drained[d] <= crashes
      BY <2>2 DEF OnceOf, DrainsCounted, Leaving
    <3>2. \A v \in Workers : ~Draining(v, d)'
      BY <1>3, <2>2 DEF OnceOf, OneDrain
    <3>3. Leaving(d)'
      BY <2>2, <3>2 DEF Leaving
    <3> QED BY <1>0, <2>2, <3>1, <3>3 DEF DrainsCounted
  <2> QED BY <1>4, <2>1, <2>2
<1>9. DrainsIngests(d)'
  <2>1. St(w, d)' \in {"ok", "dropped"} => Ingesting(w, d)
    BY <1>a, OpMoves DEF OpStep, Ingesting, ReduceRead
  <2> QED BY <1>f, <1>1, <2>1 DEF OnceOf, DrainsIngests, St
<1> QED BY <1>5, <1>6, <1>7, <1>9, <1>10 DEF OnceOf

\* A batch that claims the ingest of a document is the only one to drain it:
\* one that is about to, or has, would hold the row, whose claim would be fresh.
LEMMA ClaimKeepsOnce ==
  ASSUME ExclusionInv, Next, NEW w \in Workers, Claim(w), NEW d \in Docs, OnceOf(d)
  PROVE  OnceOf(d)'
<1>0. /\ BaseInv /\ TypeInv /\ HeldFresh /\ OwnRow
      /\ drained[d] \in Nat /\ crashes \in Nat /\ crashes' = crashes
  BY DEF ExclusionInv, BaseInv, TypeInv, DocsOK, CountsOK, Claim
<1>1. DocKept(d) /\ RowsFewer(d) /\ RowsOf(table', d) = RowsOf(table, d)
  BY <1>0, ClaimFrame DEF RowsSame
<1>2. /\ \A v \in Workers \ {w} : batch'[v] = batch[v]
      /\ St(w, d)' \in {"absent", "todo"}
      /\ St(w, d)' = "todo" =>
            /\ ClaimedRow(d) \in ClaimedIds /\ ClaimedRow(d) \in RowsOf(table, d)
            /\ batch'[w].work[d].id = ClaimedRow(d) /\ batch'[w].work[d].op = table[ClaimedRow(d)].op
  BY <1>0, ClaimEffect DEF RowsOf
<1>3. \A v \in Workers \ {w} :
        /\ St(v, d)' = St(v, d) /\ (Ingesting(v, d)' <=> Ingesting(v, d))
        /\ (Draining(v, d)' <=> Draining(v, d)) /\ (Through(v, d)' <=> Through(v, d))
  BY <1>2 DEF St, Ingesting, Draining, Through
<1>4. ~Ingesting(w, d) /\ ~Draining(w, d) /\ ~Through(w, d)
  BY <1>0 DEF Claim, BaseInv, NothingYet, AllIn, Ingesting, Draining, Through
<1>5. CASE ~Ingesting(w, d)'
  <2>1. \A v \in Workers : /\ (Ingesting(v, d)' <=> Ingesting(v, d)) /\ (Draining(v, d)' <=> Draining(v, d))
                           /\ Through(v, d) => Through(v, d)'
    BY <1>3, <1>4, <1>5 DEF Draining
  <2>2. Unqueued(d)' /\ Posted(d)'
    BY <1>1, <2>1 DEF OnceOf, Unqueued, Posted, DocKept, RowsFewer
  <2>3. OneIngest(d)'
    BY <1>1, <1>2, <1>5, <2>1 DEF OnceOf, OneIngest, RowsFewer
  <2>4. OneDrain(d)'
    BY <2>1 DEF OnceOf, OneDrain
  <2>6. Leaving(d) => Leaving(d)'
    BY <1>1, <2>1 DEF Leaving, RowsFewer
  <2>7. DrainsCounted(d)'
    BY <1>0, <1>1, <2>6 DEF OnceOf, DrainsCounted, DocKept
  <2>5. DrainsIngests(d)'
    BY <1>2, <1>3 DEF OnceOf, DrainsIngests
  <2> QED BY <2>2, <2>3, <2>4, <2>5, <2>7 DEF OnceOf
<1>6. CASE Ingesting(w, d)'
  <2> DEFINE i == ClaimedRow(d)
  <2>1. /\ St(w, d)' = "todo" /\ i \in ClaimedIds /\ i \in RowsOf(table, d) /\ table[i].op = "ingest"
        /\ batch'[w].work[d].id = i
    BY <1>2, <1>6 DEF Ingesting
  <2>2. i \in DOMAIN table /\ table[i].doc = d /\ ~Fresh(table[i])
    BY <2>1, ClaimedAreStale DEF RowsOf, ClaimedIds
  <2> HIDE DEF i
  <2>3. ASSUME NEW v \in Workers, Ingesting(v, d), St(v, d) # "settled" PROVE FALSE
    <3>1. batch[v].work[d].id = i
      BY <2>1, <2>3 DEF OnceOf, OneIngest
    <3>2. i \in batch[v].ids
      BY <1>0, <2>3, <3>1 DEF Ingesting, OwnRow, OwnRowOf
    <3>3. i \in Held(v)
      BY <2>2, <2>3, <3>2 DEF Held, Ingesting
    <3> QED BY <1>0, <2>2, <3>3, HeldIsFresh
  <2>4. drained[d] <= crashes
    <3>1. \A v \in Workers : ~Through(v, d)
      BY <2>3 DEF Through
    <3> QED BY <2>1, <3>1 DEF OnceOf, DrainsCounted, Leaving
  <2>5. \A v \in Workers : ~Draining(v, d)
    BY <2>3 DEF Draining, Pending
  <2>6. kn[d] # "parsing" /\ d \notin posting
    BY <2>1 DEF OnceOf, Unqueued
  <2>7. Unqueued(d)' /\ Posted(d)' /\ DrainsCounted(d)'
    BY <1>0, <1>1, <2>4, <2>6 DEF Unqueued, Posted, DrainsCounted, DocKept
  <2>8. OneIngest(d)'
    <3>1. \A j \in RowsOf(table', d) : table'[j].op = "ingest" => j = i
      BY <1>1, <2>1 DEF OnceOf, OneIngest, RowsFewer
    <3>2. ASSUME NEW v \in Workers, Ingesting(v, d)' PROVE batch'[v].work[d].id = i
      <4>1. CASE v = w
        BY <2>1, <4>1
      <4>2. CASE v # w
        BY <1>2, <1>3, <2>1, <3>2, <4>2 DEF OnceOf, OneIngest
      <4> QED BY <4>1, <4>2
    <3> QED BY <3>1, <3>2 DEF OneIngest
  <2>9. OneDrain(d)'
    BY <1>3, <2>5 DEF OneDrain
  <2>10. DrainsIngests(d)'
    BY <1>2, <1>3 DEF OnceOf, DrainsIngests
  <2> QED BY <2>7, <2>8, <2>9, <2>10 DEF OnceOf
<1> QED BY <1>5, <1>6

\* What a batch drained is deleted by its trim.
LEMMA TrimKeepsOnce ==
  ASSUME BaseInv, Next, Calm', NEW w \in Workers, Trim(w), NEW d \in Docs, OnceOf(d)
  PROVE  OnceOf(d)'
<1>c. /\ ~Fault("settle") /\ OwnRow
      /\ drained[d] \in Nat /\ crashes \in Nat /\ crashes' = crashes
  BY CalmBefore DEF BaseInv, TypeInv, DocsOK, CountsOK, Trim
<1>1. /\ DocKept(d) /\ RowsFewer(d) /\ \A i \in RowsOf(table', d) : i \notin TrimIds(w)
      /\ \A v \in Workers : batch'[v].ids = batch[v].ids /\ batch'[v].work = batch[v].work
      /\ \A v \in Workers \ {w} : batch'[v].pc = batch[v].pc
  BY <1>c, TrimFrame
<1>2. \A v \in Workers : /\ St(v, d)' = St(v, d) /\ (Ingesting(v, d)' <=> Ingesting(v, d))
                         /\ (Draining(v, d)' <=> Draining(v, d))
  BY <1>1 DEF St, Ingesting, Draining
<1>3. Unqueued(d)' /\ Posted(d)'
  BY <1>1, <1>2 DEF OnceOf, Unqueued, Posted, DocKept, RowsFewer
<1>4. OneIngest(d)'
  BY <1>1, <1>2 DEF OnceOf, OneIngest, RowsFewer
<1>5. OneDrain(d)' /\ DrainsIngests(d)'
  BY <1>2 DEF OnceOf, OneDrain, DrainsIngests
<1>6. ASSUME Leaving(d) PROVE Leaving(d)'
  <2> SUFFICES ASSUME NEW i \in RowsOf(table', d), table'[i].op = "ingest"
               PROVE  \E v \in Workers : Through(v, d)'
    BY <1>2, <1>6 DEF Leaving
  <2>1. i \in RowsOf(table, d) /\ table[i].op = "ingest"
    BY <1>1 DEF RowsFewer
  <2>2. PICK v \in Workers : Through(v, d)
    BY <1>6, <2>1 DEF Leaving
  <2>3. CASE v # w
    BY <1>1, <1>2, <2>2, <2>3 DEF Through
  <2>4. CASE v = w
    <3>1. St(w, d) \in {"skipped", "done"} /\ Ingesting(w, d)
      BY <2>2, <2>4 DEF Through, Trim, AllIn
    <3>2. batch[w].work[d].id = i /\ i \in batch[w].ids
      BY <1>c, <2>1, <3>1 DEF OnceOf, OneIngest, Ingesting, OwnRow, OwnRowOf
    <3>3. ASSUME NEW e \in Docs, St(w, e) \in {"failed", "unapplied"}, batch[w].work[e].id = i PROVE FALSE
      <4>1. table[i].doc = e
        BY <1>c, <2>1, <3>3 DEF OwnRow, OwnRowOf, RowsOf
      <4> QED BY <2>1, <3>1, <3>3, <4>1 DEF RowsOf
    <3>4. i \in TrimIds(w)
      BY <3>2, <3>3 DEF TrimIds, FailedIds
    <3> QED BY <1>1, <3>4
  <2> QED BY <2>3, <2>4
<1>7. DrainsCounted(d)'
  BY <1>c, <1>1, <1>6 DEF OnceOf, DrainsCounted, DocKept
<1> QED BY <1>3, <1>4, <1>5, <1>7 DEF OnceOf

LEMMA NextOnce ==
  ASSUME ExclusionInv, Next, Calm', NEW d \in Docs, OnceOf(d)
  PROVE  OnceOf(d)'
<1>0. BaseInv /\ drained[d] \in Nat /\ crashes \in Nat
  BY DEF ExclusionInv, BaseInv, TypeInv, DocsOK, CountsOK
<1>1. CASE Elsewhere(d)
  <2>1. /\ RowsFewer(d) /\ DocKept(d) /\ \A v \in Workers : OpKept(v, d) \/ Ended(v, d)
    BY <1>1 DEF Elsewhere
  <2>2. \A v \in Workers : /\ Ingesting(v, d)' => Ingesting(v, d) /\ batch'[v].work[d].id = batch[v].work[d].id
                           /\ Draining(v, d)' => Draining(v, d)
                           /\ St(v, d)' \in {St(v, d), "absent"}
    BY <2>1 DEF OpKept, Ended, Ingesting, Draining, St
  \* Only a crash ends a batch between a drain and the delete of the row.
  <2>3. ASSUME NEW v \in Workers, Through(v, d), ~Crash(v) PROVE Through(v, d)'
    <3>1. ~Ended(v, d)
      BY <2>3 DEF Ended, Through, Ingesting, Finish, Abort, Settled, AllIn
    <3> QED BY <2>1, <2>3, <3>1 DEF OpKept, Through, Ingesting, St
  <2>4. Unqueued(d)' /\ Posted(d)'
    BY <2>1, <2>2 DEF OnceOf, Unqueued, Posted, DocKept, RowsFewer
  <2>5. OneIngest(d)'
    BY <2>1, <2>2 DEF OnceOf, OneIngest, RowsFewer
  <2>6. OneDrain(d)'
    BY <2>2 DEF OnceOf, OneDrain
  <2>7. DrainsCounted(d)'
    <3>1. CASE \E w \in Workers : Crash(w)
      <4>1. crashes' = crashes + 1
        BY <3>1 DEF Crash
      <4> QED BY <1>0, <2>1, <4>1 DEF OnceOf, DrainsCounted, DocKept
    <3>2. CASE \A w \in Workers : ~Crash(w)
      <4>1. crashes' = crashes
        BY <3>2, CrashesGrow
      <4>2. Leaving(d) => Leaving(d)'
        BY <2>1, <2>2, <2>3, <3>2 DEF Leaving, RowsFewer
      <4> QED BY <2>1, <4>1, <4>2 DEF OnceOf, DrainsCounted, DocKept
    <3> QED BY <3>1, <3>2
  <2>8. DrainsIngests(d)'
    BY <2>1 DEF OnceOf, DrainsIngests, OpKept, Ended, Ingesting, St
  <2> QED BY <2>4, <2>5, <2>6, <2>7, <2>8 DEF OnceOf
<1> QED BY <1>0, <1>1, DocKeepsOnce, OpKeepsOnce, ClaimKeepsOnce, TrimKeepsOnce, StepCases

\* The wiki slot of a document that is not parsed again is drained at most
\* once and once more for each crash, through cancels, deletes, retries and
\* failing calls that settle nothing: its one ingest row is drained by the
\* batch whose claim keeps all others off it, and deleted by that batch unless
\* it crashes before it gets there.
THEOREM DrainsAreSingle == Spec => []DrainedOnce
<1> DEFINE Inv == Calm => \A d \in Docs : OnceOf(d)
<1>1. Init => Inv
  <2> SUFFICES ASSUME Init, NEW d \in Docs PROVE OnceOf(d)
    OBVIOUS
  <2>1. RowsOf(table, d) = {} /\ \A w \in Workers : St(w, d) = "absent"
    BY DEF Init, RowsOf, NoRows, St, Idle, NoOp
  <2>2. posting = {} /\ drained[d] = 0 /\ crashes = 0
    BY DEF Init
  <2> QED BY <2>1, <2>2 DEF OnceOf, Unqueued, Posted, OneIngest, OneDrain, DrainsCounted, DrainsIngests,
                            Draining, Ingesting
<1>2. TypeInv /\ (SettlingWorks => ExclusionInv) /\ Inv /\ [Next]_vars => Inv'
  <2>1. ASSUME TypeInv, SettlingWorks => ExclusionInv, Inv, Next, Calm', NEW d \in Docs PROVE OnceOf(d)'
    <3>1. ExclusionInv /\ OnceOf(d)
      BY <2>1, CalmBefore
    <3> QED BY <2>1, <3>1, NextOnce
  <2>2. ASSUME Inv, UNCHANGED vars PROVE Inv'
    BY <2>2 DEF vars, Calm, SettlingWorks, OnceOf, Unqueued, Posted, OneIngest, OneDrain, DrainsCounted,
                Leaving, DrainsIngests, Draining, Through, Ingesting, St
  <2> QED BY <2>1, <2>2
<1>3. Inv => DrainedOnce
  BY DEF DrainedOnce, Calm, SettlingWorks, OnceOf, DrainsCounted
<1> HIDE DEF Inv
<1>4. Spec => []Inv
  BY <1>1, <1>2, AlwaysTypeInv, AlwaysExclusion, PTL DEF Spec
<1> QED BY <1>3, <1>4, PTL

-----------------------------------------------------------------------------
(* The queue implements DocumentQueue.  Beyond exclusion, the proof needs  *)
(* that a batch has claimed the older rows of a document with each row,    *)
(* that the operation it carries out is the newest of them, and that it    *)
(* has trimmed all others before it settles that one.                      *)

Positive == nextId > 0 /\ \A i \in DOMAIN table : i > 0

OwnOpOf(w) ==
    \A d \in Docs :
        St(w, d) # "absent" /\ batch[w].work[d].id \in DOMAIN table
            => table[batch[w].work[d].id].op = batch[w].work[d].op

WholeOf(w) ==
    \A i \in batch[w].ids \cap DOMAIN table : \A j \in DOMAIN table :
        table[j].doc = table[i].doc /\ j < i => j \in batch[w].ids

LatestOf(w) ==
    \A i \in batch[w].ids \cap DOMAIN table :
        /\ St(w, table[i].doc) # "absent" /\ i <= batch[w].work[table[i].doc].id
        /\ batch[w].pc = "settle" => i = batch[w].work[table[i].doc].id

ClaimsInOrder == \A w \in Workers : OwnOpOf(w) /\ WholeOf(w) /\ LatestOf(w)

OrderInv == ExclusionInv /\ Positive /\ ClaimsInOrder

LEMMA InitOrderInv == Init => OrderInv
<1> SUFFICES ASSUME Init PROVE OrderInv
  OBVIOUS
<1>1. \A w \in Workers : batch[w] = Idle
  BY DEF Init
<1>2. \A w \in Workers : batch[w].ids = {} /\ \A d \in Docs : St(w, d) = "absent"
  BY <1>1 DEF Idle, NoOp, St
<1>3. Positive
  BY NoRowsTable DEF Init, Positive
<1> QED BY <1>2, <1>3, InitExclusionInv DEF OrderInv, ClaimsInOrder, OwnOpOf, WholeOf, LatestOf

\* A batch goes on with the rows and the operations it has.
GoesOn(v) ==
    /\ batch'[v].ids = batch[v].ids
    /\ \A d \in Docs :
         /\ batch'[v].work[d].id = batch[v].work[d].id /\ batch'[v].work[d].op = batch[v].work[d].op
         /\ St(v, d)' = "absent" <=> St(v, d) = "absent"

Stops(v) == batch'[v].ids = {} /\ \A d \in Docs : St(v, d)' = "absent"

LEMMA OpGoesOn ==
  ASSUME BaseInv, NEW w \in Workers, NEW d \in Docs, OpStep(w, d)
  PROVE  /\ GoesOn(w) /\ batch'[w].pc = batch[w].pc
         /\ \A e \in Docs \ {d} : St(w, e)' = St(w, e)
         /\ \A v \in Workers \ {w} : batch'[v] = batch[v]
<1>1. PICK s \in OpStates \ {"absent"} : SetSt(w, d, s) \/ FailSt(w, d, s)
  BY DEF OpStep, MapSkip, MapIngest, MapRetract, ReduceRead, ReduceWrite, ReduceUnapplied,
     DrainDoc, Requeue, DeadLetter, DropDead, OpStates
<1>2. St(w, d) # "absent"
  BY DEF OpStep, MapSkip, MapIngest, MapRetract, ReduceRead, ReduceWrite, ReduceUnapplied,
     DrainDoc, Requeue, DeadLetter, DropDead
<1>3. /\ \A v \in Workers \ {w} : batch'[v] = batch[v]
      /\ \A e \in Docs : /\ batch'[w].work[e].id = batch[w].work[e].id
                         /\ batch'[w].work[e].op = batch[w].work[e].op
                         /\ batch'[w].work[e].st = IF e = d THEN s ELSE batch[w].work[e].st
      /\ batch'[w].ids = batch[w].ids /\ batch'[w].pc = batch[w].pc
  BY <1>1, SetStFacts DEF BaseInv, TypeInv, WorkersOK
<1> QED BY <1>2, <1>3 DEF GoesOn, St

LEMMA StepGoesOn ==
  ASSUME BaseInv, Next, NEW v \in Workers, ~Claim(v)
  PROVE  Stops(v) \/ (GoesOn(v) /\ (batch'[v].pc = batch[v].pc \/ Trim(v)))
<1> DEFINE Goal == Stops(v) \/ (GoesOn(v) /\ (batch'[v].pc = batch[v].pc \/ Trim(v)))
<1> USE DEF docVars, knVars, queueVars
<1>b. batch \in [Workers -> Batch] /\ batch[v] \in Batch
  BY DEF BaseInv, TypeInv, WorkersOK
<1>0. ASSUME batch'[v] = batch[v] PROVE Goal
  BY <1>0 DEF GoesOn, St
<1>e. ASSUME batch'[v].ids = {}, batch'[v].work = [d \in Docs |-> NoOp] PROVE Goal
  BY <1>e DEF Stops, St, NoOp
<1>i. ASSUME NEW w \in Workers, batch' = [batch EXCEPT ![w] = Idle] PROVE Goal
  BY <1>b, <1>i, <1>0, <1>e DEF Idle
<1>1. ASSUME NEW d \in Docs, DocStep(d) PROVE Goal
  BY <1>0, <1>1
     DEF DocStep, PostProcess, PostEnqueue, Reparse, CancelMark, DeleteMark, ScrubStep, DeleteRetract
<1>2. CASE DeleteKB \/ CleanKB \/ ExpireSlot
  BY <1>0, <1>2 DEF DeleteKB, CleanKB, ExpireSlot
<1>3. ASSUME NEW w \in Workers, NEW k \in TaskKinds, StartStep(w, k) PROVE Goal
  <2>1. CASE batch' = batch
    BY <2>1, <1>0
  <2>2. CASE Start(w, k)
    <3>1. \/ batch' = [batch EXCEPT ![w] = [Idle EXCEPT !.pc = "claim", !.kind = k, !.slot = TRUE]]
          \/ batch' = [batch EXCEPT ![w] = [Idle EXCEPT !.pc = "claim", !.kind = k]]
      BY <2>2 DEF Start
    <3>2. CASE v = w
      <4>1. batch'[v].ids = {} /\ batch'[v].work = [d \in Docs |-> NoOp]
        BY <1>b, <3>1, <3>2 DEF Idle
      <4> QED BY <4>1, <1>e
    <3>3. CASE v # w
      BY <1>b, <3>1, <3>3, <1>0
    <3> QED BY <3>2, <3>3
  <2> QED BY <1>3, <2>1, <2>2 DEF StartStep, StartDeleted, StartCapped
<1>4. ASSUME NEW w \in Workers, BatchStep(w) PROVE Goal
  <2>1. CASE Claim(w)
    <3>1. v # w
      BY <2>1
    <3> QED BY <1>b, <2>1, <3>1, <1>0 DEF Claim
  <2>2. CASE Trim(w)
    <3>1. \/ batch' = [batch EXCEPT ![w].pc = "settle"]
          \/ batch' = [batch EXCEPT ![w].pc = "settle", ![w].err = TRUE]
      BY <2>2 DEF Trim
    <3>2. CASE v = w
      <4>1. batch'[v].ids = batch[v].ids /\ batch'[v].work = batch[v].work
        BY <1>b, <3>1, <3>2 DEF Batch
      <4> QED BY <2>2, <3>2, <4>1 DEF GoesOn, St
    <3>3. CASE v # w
      BY <1>b, <3>1, <3>3, <1>0
    <3> QED BY <3>2, <3>3
  <2>3. CASE ClaimNothing(w) \/ ClaimFails(w) \/ Finish(w) \/ Abort(w)
    BY <2>3, <1>i DEF ClaimNothing, ClaimFails, Finish, Abort
  <2> QED BY <1>4, <2>1, <2>2, <2>3 DEF BatchStep
<1>5. ASSUME NEW w \in Workers, Crash(w) \/ Restart(w) PROVE Goal
  <2>1. CASE Crash(w)
    <3>1. batch' = [batch EXCEPT ![w] = [Idle EXCEPT !.pc = "down"]]
      BY <2>1 DEF Crash
    <3> QED BY <1>b, <3>1, <1>0, <1>e DEF Idle
  <2>2. CASE Restart(w)
    BY <2>2, <1>i DEF Restart
  <2> QED BY <1>5, <2>1, <2>2
<1>6. ASSUME NEW w \in Workers, NEW d \in Docs, OpStep(w, d) PROVE Goal
  BY <1>6, OpGoesOn, <1>0
<1>7. CASE Tick
  <2>1. CASE Running(v)
    <3>1. batch'[v] = [batch[v] EXCEPT !.age = batch[v].age + 1]
      BY <1>7, <2>1 DEF Tick
    <3>2. batch'[v].ids = batch[v].ids /\ batch'[v].work = batch[v].work /\ batch'[v].pc = batch[v].pc
      BY <1>b, <3>1 DEF Batch
    <3> QED BY <3>2 DEF GoesOn, St
  <2>2. CASE ~Running(v)
    BY <1>7, <2>2, <1>0 DEF Tick
  <2> QED BY <2>1, <2>2
<1> QED BY <1>1, <1>2, <1>3, <1>4, <1>5, <1>6, <1>7 DEF Next
LEMMA TrimEffect ==
  ASSUME TypeInv, NEW w \in Workers, Trim(w), ~Fault("settle")
  PROVE  /\ table' = DeleteRows(table, TrimIds(w)) /\ DOMAIN table' = DOMAIN table \ TrimIds(w)
         /\ nextId' = nextId /\ batch[w].pc = "work"
         /\ batch'[w].pc = "settle" /\ batch'[w].work = batch[w].work
         /\ batch'[w].ids = batch[w].ids
         /\ \A v \in Workers \ {w} : batch'[v] = batch[v]
<1>1. IsTable(table) /\ batch \in [Workers -> Batch] /\ batch[w] \in Batch
  BY DEF TypeInv, QueueOK, WorkersOK
<1>2. /\ table' = DeleteRows(table, TrimIds(w)) /\ batch' = [batch EXCEPT ![w].pc = "settle"]
      /\ nextId' = nextId /\ batch[w].pc = "work"
  BY DEF Trim
<1>3. DOMAIN table' = DOMAIN table \ TrimIds(w)
  BY <1>1, <1>2, DeleteTable
<1> QED BY <1>1, <1>2, <1>3 DEF Batch

LEMMA ClaimKeepsOrder ==
  ASSUME OrderInv, NEW w \in Workers, Claim(w)
  PROVE  OwnOpOf(w)' /\ WholeOf(w)' /\ LatestOf(w)'
<1>0. /\ BaseInv /\ TypeInv /\ IsTable(table) /\ nextId \in Nat /\ DOMAIN table \subseteq Nat
      /\ \A i \in DOMAIN table : i < nextId /\ table[i].doc \in Docs
  BY DEF OrderInv, ExclusionInv, BaseInv, TypeInv, QueueOK, IsTable, Row
<1>1. /\ ClaimedIds \subseteq DOMAIN table
      /\ table' = Stamp(table, ClaimedIds) /\ DOMAIN table' = DOMAIN table
      /\ batch'[w].pc = "work" /\ batch'[w].ids = ClaimedIds
      /\ \A d \in Docs : /\ d \in ClaimedDocs => /\ St(w, d)' = "todo"
                                                 /\ batch'[w].work[d].id = ClaimedRow(d)
                                                 /\ batch'[w].work[d].op = table[ClaimedRow(d)].op
                         /\ d \notin ClaimedDocs => St(w, d)' = "absent"
      /\ \A d \in ClaimedDocs : ClaimedRow(d) \in ClaimedIds /\ table[ClaimedRow(d)].doc = d
  BY <1>0, ClaimEffect
<1>2. \A i \in DOMAIN table : table'[i].doc = table[i].doc /\ table'[i].op = table[i].op
  BY <1>0, <1>1, RowsAfter DEF SameOp
<1>3. OwnOpOf(w)'
  BY <1>1, <1>2 DEF OwnOpOf
<1>4. WholeOf(w)'
  <2>1. ASSUME NEW i \in ClaimedIds, NEW j \in DOMAIN table, table[j].doc = table[i].doc
        PROVE  j \in ClaimedIds
    <3>1. table[i].doc \in Chosen(table, BatchDocs) /\ ~Fresh(table[j])
      BY <2>1, ClaimedAreStale DEF ClaimedIds, ClaimIds
    <3> QED BY <2>1, <3>1 DEF ClaimedIds, ClaimIds
  <2> QED BY <1>1, <1>2, <2>1 DEF WholeOf
<1>5. LatestOf(w)'
  <2>1. ASSUME NEW i \in ClaimedIds
        PROVE  table[i].doc \in ClaimedDocs /\ i <= ClaimedRow(table[i].doc)
    <3>1. table[i].doc \in ClaimedDocs
      BY DEF ClaimedDocs
    <3>2. \A j \in ClaimedIds : table[j].doc = table[i].doc => j <= LastOf(table, ClaimedIds, table[i].doc)
      BY <1>0, <1>1, LastOfClaimed
    <3> QED BY <3>1, <3>2 DEF ClaimedRow
  <2> QED BY <1>0, <1>1, <1>2, <2>1 DEF LatestOf
<1> QED BY <1>3, <1>4, <1>5

LEMMA NextOrderInv ==
  ASSUME ~Fault("settle"), OrderInv, [Next]_vars
  PROVE  OrderInv'
<1>0. /\ ExclusionInv' /\ BaseInv /\ TypeInv /\ IsTable(table) /\ nextId \in Nat
      /\ DOMAIN table \subseteq Nat /\ OldIds /\ OwnRow /\ Positive
      /\ \A i \in DOMAIN table : i < nextId /\ table[i].doc \in Docs
  BY NextExclusionInv DEF OrderInv, ExclusionInv, BaseInv, TypeInv, QueueOK, IsTable, Row
<1>1. ASSUME Next PROVE Positive' /\ ClaimsInOrder'
  <2>1. RowsKeep
    BY <1>0, <1>1, StepKeepsRows
  <2>2. Positive'
    BY <1>0, <2>1 DEF RowsKeep, Positive
  <2>3. ASSUME NEW v \in Workers PROVE OwnOpOf(v)' /\ WholeOf(v)' /\ LatestOf(v)'
    <3>1. CASE Claim(v)
      BY <3>1, ClaimKeepsOrder
    <3>2. CASE Stops(v)
      BY <3>2 DEF Stops, OwnOpOf, WholeOf, LatestOf
    <3>3. CASE GoesOn(v) /\ (batch'[v].pc = batch[v].pc \/ Trim(v))
      <4>1. OwnOpOf(v) /\ WholeOf(v) /\ LatestOf(v) /\ OwnRowOf(v) /\ \A i \in batch[v].ids : i < nextId
        BY <1>0 DEF OrderInv, ClaimsInOrder, OldIds, OldIdsOf, OwnRow
      <4>2. batch'[v].ids = batch[v].ids /\ nextId \notin batch[v].ids
        BY <1>0, <3>3, <4>1 DEF GoesOn
      <4>3. \A i \in DOMAIN table' : i = nextId \/ (i \in DOMAIN table /\ table'[i].doc = table[i].doc
                                                 /\ table'[i].op = table[i].op)
        BY <2>1 DEF RowsKeep, SameOp
      <4>4. OwnOpOf(v)'
        <5> SUFFICES ASSUME NEW d \in Docs, St(v, d)' # "absent", batch'[v].work[d].id \in DOMAIN table'
                     PROVE  table'[batch'[v].work[d].id].op = batch'[v].work[d].op
          BY DEF OwnOpOf
        <5>1. /\ batch'[v].work[d].id = batch[v].work[d].id /\ batch'[v].work[d].op = batch[v].work[d].op
              /\ St(v, d) # "absent"
          BY <3>3 DEF GoesOn
        <5>2. batch[v].work[d].id \in batch[v].ids
          BY <4>1, <5>1 DEF OwnRowOf
        <5> QED BY <4>1, <4>2, <4>3, <5>1, <5>2 DEF OwnOpOf
      <4>5. WholeOf(v)'
        <5> SUFFICES ASSUME NEW i \in batch'[v].ids \cap DOMAIN table', NEW j \in DOMAIN table',
                            table'[j].doc = table'[i].doc, j < i
                     PROVE  j \in batch'[v].ids
          BY DEF WholeOf
        <5>1. i \in DOMAIN table /\ i \in batch[v].ids /\ j # nextId
          BY <1>0, <4>1, <4>2, <4>3
        <5>2. j \in DOMAIN table /\ table[j].doc = table[i].doc
          BY <4>2, <4>3, <5>1
        <5> QED BY <4>1, <4>2, <5>1, <5>2 DEF WholeOf
      <4>6. LatestOf(v)'
        <5> SUFFICES ASSUME NEW i \in batch'[v].ids \cap DOMAIN table'
                     PROVE  /\ St(v, table[i].doc)' # "absent" /\ i <= batch'[v].work[table'[i].doc].id
                            /\ batch'[v].pc = "settle" => i = batch'[v].work[table'[i].doc].id
          BY DEF LatestOf
        <5> DEFINE d == table[i].doc
        <5>1. i \in DOMAIN table /\ i \in batch[v].ids /\ table'[i].doc = d /\ d \in Docs
          BY <1>0, <4>2, <4>3
        <5>2. St(v, d) # "absent" /\ i <= batch[v].work[d].id
              /\ (batch[v].pc = "settle" => i = batch[v].work[d].id)
          BY <4>1, <5>1 DEF LatestOf
        <5>3. batch'[v].work[d].id = batch[v].work[d].id /\ batch'[v].work[d].st # "absent"
          BY <3>3, <5>1, <5>2 DEF GoesOn, St
        <5>4. ASSUME Trim(v) PROVE i = batch[v].work[d].id
          <6>1. DOMAIN table' = DOMAIN table \ TrimIds(v)
            BY <1>0, <5>4, TrimEffect
          <6>2. i \in FailedIds(v)
            BY <5>1, <6>1 DEF TrimIds
          <6>3. PICK e \in Docs : i = batch[v].work[e].id /\ St(v, e) \in {"failed", "unapplied"}
            BY <6>2 DEF FailedIds
          <6>4. e = d
            BY <4>1, <5>1, <6>3 DEF OwnRowOf
          <6> QED BY <6>3, <6>4
        <5> QED BY <3>3, <5>1, <5>2, <5>3, <5>4 DEF St
      <4> QED BY <4>4, <4>5, <4>6
    <3> QED BY <1>0, <1>1, <3>1, <3>2, <3>3, StepGoesOn
  <2> QED BY <2>2, <2>3 DEF ClaimsInOrder
<1>2. ASSUME UNCHANGED vars PROVE Positive' /\ ClaimsInOrder'
  BY <1>2 DEF vars, OrderInv, Positive, ClaimsInOrder, OwnOpOf, WholeOf, LatestOf, St
<1> QED BY <1>0, <1>1, <1>2 DEF OrderInv

-----------------------------------------------------------------------------
(* What a step means to the abstract queue. *)

LEMMA DoingIs ==
  ASSUME DocExclusive
  PROVE  /\ DOMAIN Doing = Docs
         /\ \A w \in Workers : \A d \in Owned(w) : Doing[d] = batch[w].work[d].id
         /\ \A d \in Docs : (\A w \in Workers : d \notin Owned(w)) => Doing[d] = 0
<1>1. ASSUME NEW w \in Workers, NEW d \in Owned(w) PROVE Doing[d] = batch[w].work[d].id
  <2>1. d \in Docs
    BY DEF Owned, Working
  <2>2. \A v \in Workers : d \in Owned(v) => v = w
    BY DEF DocExclusive
  <2> QED BY <2>1, <2>2 DEF Doing
<1> QED BY <1>1 DEF Doing

LEMMA DoingIsAfter ==
  ASSUME DocExclusive'
  PROVE  /\ DOMAIN Doing' = Docs
         /\ \A w \in Workers : \A d \in Owned(w)' : Doing'[d] = batch'[w].work[d].id
         /\ \A d \in Docs : (\A w \in Workers : d \notin Owned(w)') => Doing'[d] = 0
<1>1. ASSUME NEW w \in Workers, NEW d \in Owned(w)' PROVE Doing'[d] = batch'[w].work[d].id
  <2>1. d \in Docs
    BY DEF Owned, Working
  <2>2. \A v \in Workers : d \in Owned(v)' => v = w
    BY DEF DocExclusive
  <2> QED BY <2>1, <2>2 DEF Doing
<1> QED BY <1>1 DEF Doing

\* A function on documents that agrees with Doing'.
LEMMA DoingAfter ==
  ASSUME DocExclusive', NEW f, f = [d \in Docs |-> f[d]],
         \A w \in Workers : \A d \in Owned(w)' : f[d] = batch'[w].work[d].id,
         \A d \in Docs : (\A w \in Workers : d \notin Owned(w)') => f[d] = 0
  PROVE  Doing' = f
<1>1. ASSUME NEW d \in Docs PROVE Doing'[d] = f[d]
  BY DoingIsAfter
<1>2. Doing' = [d \in Docs |-> Doing'[d]]
  BY DEF Doing
<1> QED BY <1>1, <1>2

SameJob(v, d) ==
    batch'[v].work[d].id = batch[v].work[d].id /\ batch'[v].work[d].op = batch[v].work[d].op

\* The batch works on the same operations, which are as far as they were.
SameJobs(v) ==
    /\ Working(v)' = Working(v)
    /\ \A d \in Working(v) : SameJob(v, d) /\ (St(v, d)' \in OverStates <=> St(v, d) \in OverStates)

LEMMA SameBatchJobs == ASSUME NEW v, batch'[v] = batch[v] PROVE SameJobs(v)
  BY DEF SameJobs, SameJob, Working, St

LEMMA NoJobs == ASSUME NothingYet, NEW v \in Workers, batch[v].pc \in {"idle", "down", "claim"} PROVE Working(v) = {}
  BY DEF NothingYet, AllIn, Working

\* Rows come and go.
GoneRows == DOMAIN table \ DOMAIN table'

LEMMA QueueAfter ==
  ASSUME TypeInv, RowsKeep, DOMAIN table' \subseteq DOMAIN table
  PROVE  Queue' = [i \in DOMAIN Queue \ GoneRows |-> Queue[i]] /\ DOMAIN Queue = DOMAIN table
<1>1. \A i \in DOMAIN table' : i \in DOMAIN table /\ table'[i].doc = table[i].doc /\ table'[i].op = table[i].op
  BY DEF RowsKeep, SameOp
<1>2. DOMAIN table' = DOMAIN Queue \ GoneRows /\ DOMAIN Queue = DOMAIN table
  BY DEF Queue, GoneRows
<1> QED BY <1>1, <1>2 DEF Queue

\* When rows leave the queue and batches go on, what is done about the rows goes astray.
LEMMA RowsLeave ==
  ASSUME OrderInv, DocExclusive', RowsKeep, DOMAIN table' \subseteq DOMAIN table,
         \A v \in Workers : SameJobs(v)
  PROVE  /\ Queue' = [i \in DOMAIN Queue \ GoneRows |-> Queue[i]]
         /\ Doing' = [d \in Docs |-> IF Doing[d] \in GoneRows THEN 0 ELSE Doing[d]]
         /\ Over' = {d \in Over : Doing[d] \notin GoneRows}
         /\ Strays' = Strays \cup {[id |-> Doing[d], doc |-> d, op |-> Queue[Doing[d]].op] :
                                     d \in {d \in Docs : Doing[d] \in GoneRows}}
<1> DEFINE f == [d \in Docs |-> IF Doing[d] \in GoneRows THEN 0 ELSE Doing[d]]
<1>0. /\ TypeInv /\ DocExclusive /\ Positive /\ BaseInv
      /\ \A i \in GoneRows : i \in DOMAIN table /\ i # 0
      /\ DOMAIN table' = DOMAIN table \ GoneRows
  BY DEF OrderInv, ExclusionInv, BaseInv, Positive, GoneRows, TypeInv, QueueOK, IsTable
<1>1. \A w \in Workers : \A d \in Owned(w) : d \in Docs /\ Doing[d] = batch[w].work[d].id
  BY <1>0, DoingIs DEF Owned, Working
<1>2. \A d \in Docs : (\A w \in Workers : d \notin Owned(w)) => Doing[d] = 0
  BY <1>0, DoingIs
<1>3. \A w \in Workers : /\ Working(w)' = Working(w)
                         /\ \A d \in Working(w) : /\ batch'[w].work[d].id = batch[w].work[d].id
                                                  /\ batch'[w].work[d].op = batch[w].work[d].op
                                                  /\ St(w, d)' \in OverStates <=> St(w, d) \in OverStates
  BY DEF SameJobs, SameJob
<1>4. \A w \in Workers : \A d : d \in Owned(w)' <=> d \in Owned(w) /\ Doing[d] \notin GoneRows
  BY <1>0, <1>1, <1>3 DEF Owned
<1>5. Queue' = [i \in DOMAIN Queue \ GoneRows |-> Queue[i]]
  BY <1>0, QueueAfter
<1>6. Doing' = f
  <2>1. f = [d \in Docs |-> f[d]]
    OBVIOUS
  <2>2. \A w \in Workers : \A d \in Owned(w)' : f[d] = batch'[w].work[d].id
    BY <1>1, <1>3, <1>4 DEF Owned
  <2>3. ASSUME NEW d \in Docs, \A w \in Workers : d \notin Owned(w)' PROVE f[d] = 0
    BY <1>2, <1>4, <2>3
  <2> HIDE DEF f
  <2> QED BY <2>1, <2>2, <2>3, DoingAfter
<1>7. Over' = {d \in Over : Doing[d] \notin GoneRows}
  <2>1. \A w \in Workers : \A d \in Owned(w) : St(w, d)' \in OverStates <=> St(w, d) \in OverStates
    BY <1>3 DEF Owned
  <2>2. \A d : d \in Over' <=> d \in Over /\ Doing[d] \notin GoneRows
    BY <1>4, <2>1 DEF Over
  <2> QED BY <2>2
<1>8. Strays' = Strays \cup {[id |-> Doing[d], doc |-> d, op |-> Queue[Doing[d]].op] :
                               d \in {d \in Docs : Doing[d] \in GoneRows}}
  <2> DEFINE N == {[id |-> Doing[d], doc |-> d, op |-> Queue[Doing[d]].op] :
                     d \in {d \in Docs : Doing[d] \in GoneRows}}
  <2>1. \A w \in Workers : \A d \in Working(w) : Stray(w, d)' = Stray(w, d) /\ d \in Docs
    BY <1>3 DEF Stray, Working
  <2>2. ASSUME NEW w \in Workers, NEW d \in Owned(w)
        PROVE  Stray(w, d) = [id |-> Doing[d], doc |-> d, op |-> Queue[Doing[d]].op]
    <3>1. d \in Docs /\ St(w, d) # "absent" /\ batch[w].work[d].id \in DOMAIN table
      BY DEF Owned, Working
    <3>2. table[batch[w].work[d].id].op = batch[w].work[d].op
      BY <3>1 DEF OrderInv, ClaimsInOrder, OwnOpOf
    <3> QED BY <1>1, <3>1, <3>2 DEF Stray, Queue
  <2>3. ASSUME NEW x \in Strays' PROVE x \in Strays \cup N
    <3>1. PICK w \in Workers, d \in Docs : d \in Working(w)' \ Owned(w)' /\ x = Stray(w, d)'
      BY <2>3 DEF Strays, Working
    <3>2. d \in Working(w) /\ x = Stray(w, d) /\ d \in Docs
      BY <1>3, <2>1, <3>1
    <3>3. CASE d \notin Owned(w)
      BY <3>2, <3>3 DEF Strays
    <3>4. CASE d \in Owned(w)
      BY <1>4, <2>2, <3>1, <3>2, <3>4
    <3> QED BY <3>3, <3>4
  <2>4. ASSUME NEW x \in Strays PROVE x \in Strays'
    <3>1. PICK w \in Workers, d \in Docs : d \in Working(w) \ Owned(w) /\ x = Stray(w, d)
      BY <2>4 DEF Strays, Working
    <3>2. d \in Working(w)' \ Owned(w)' /\ x = Stray(w, d)'
      BY <1>3, <1>4, <2>1, <3>1
    <3> QED BY <3>2 DEF Strays
  <2>5. ASSUME NEW x \in N PROVE x \in Strays'
    <3>1. PICK d \in Docs : Doing[d] \in GoneRows
                            /\ x = [id |-> Doing[d], doc |-> d, op |-> Queue[Doing[d]].op]
      BY <2>5
    <3>2. PICK w \in Workers : d \in Owned(w)
      BY <1>0, <1>2, <3>1
    <3>3. d \in Working(w)' \ Owned(w)' /\ x = Stray(w, d)'
      BY <1>3, <1>4, <2>1, <2>2, <3>1, <3>2 DEF Owned
    <3> QED BY <3>3 DEF Strays
  <2> QED BY <2>3, <2>4, <2>5
<1> QED BY <1>5, <1>6, <1>7, <1>8

\* Rows and batches go on.
LEMMA AllStay ==
  ASSUME OrderInv, DocExclusive', RowsKeep, DOMAIN table' = DOMAIN table,
         \A v \in Workers : SameJobs(v)
  PROVE  UNCHANGED <<Queue, Doing, Over, Strays>>
<1>1. GoneRows = {} /\ DOMAIN Queue = DOMAIN table
  BY DEF GoneRows, Queue
<1>2. /\ Queue' = [i \in DOMAIN Queue |-> Queue[i]]
      /\ Doing' = [d \in Docs |-> Doing[d]]
      /\ Over' = Over /\ Strays' = Strays
  BY <1>1, RowsLeave
<1>3. Queue = [i \in DOMAIN Queue |-> Queue[i]] /\ Doing = [d \in Docs |-> Doing[d]]
  BY DEF Queue, Doing
<1> QED BY <1>2, <1>3

LEMMA RowArrives ==
  ASSUME OrderInv, DocExclusive', NEW d \in Docs, NEW o \in OpKinds, Enqueue(d, o), kb = "live",
         batch' = batch
  PROVE  /\ nextId \in 1..MaxRows /\ \A j \in DOMAIN Queue : j < nextId
         /\ Queue' = [j \in DOMAIN Queue \cup {nextId} |->
                        IF j = nextId THEN [doc |-> d, op |-> o] ELSE Queue[j]]
         /\ Doing' = Doing /\ Over' = Over /\ Strays' = Strays
<1>0. /\ BaseInv /\ TypeInv /\ IsTable(table) /\ nextId \in Nat /\ nextId > 0 /\ DocExclusive
      /\ \A i \in DOMAIN table : i < nextId
      /\ DOMAIN Queue = DOMAIN table
  BY DEF OrderInv, ExclusionInv, BaseInv, TypeInv, QueueOK, Positive, Queue
<1>1. nextId <= MaxRows /\ table' = AddRow(table, nextId, d, o)
  BY DEF Enqueue
<1>2. DOMAIN table' = DOMAIN table \cup {nextId} /\ table'[nextId].doc = d /\ table'[nextId].op = o
  BY <1>0, <1>1, AddRowTable DEF AddRow
<1>3. \A i \in DOMAIN table : table'[i] = table[i]
  BY <1>0, <1>1, RowsAfter
<1>4. Queue' = [j \in DOMAIN Queue \cup {nextId} |->
                  IF j = nextId THEN [doc |-> d, op |-> o] ELSE Queue[j]]
  BY <1>0, <1>2, <1>3 DEF Queue
<1>5. ASSUME NEW w \in Workers PROVE Working(w)' = Working(w) /\ Owned(w)' = Owned(w)
  <2>1. Working(w)' = Working(w)
    BY DEF Working, St
  <2>2. \A e \in Working(w) : batch[w].work[e].id # nextId
    BY <1>0 DEF Working, BaseInv, OwnRow, OwnRowOf, OldIds, OldIdsOf
  <2> QED BY <1>2, <2>1, <2>2 DEF Owned
<1>6. Doing' = Doing
  <2>1. Doing = [e \in Docs |-> Doing[e]]
    BY DEF Doing
  <2> QED BY <1>0, <1>5, <2>1, DoingIs, DoingAfter
<1>7. Over' = Over
  BY <1>5 DEF Over, St
<1>8. Strays' = Strays
  BY <1>5 DEF Strays, Stray
<1> QED BY <1>0, <1>1, <1>4, <1>6, <1>7, <1>8, WikiIngestAssumption

\* A batch lets go of documents L, or of its row for them; the others go on.
LEMMA LetsGo ==
  ASSUME OrderInv, DocExclusive', RowsKeep, DOMAIN table' \subseteq DOMAIN table,
         NEW w \in Workers, NEW L,
         \A v \in Workers \ {w} : batch'[v] = batch[v] /\ Held(v) \cap GoneRows = {},
         Working(w)' = Working(w) \ L,
         \A d \in Working(w)' : /\ SameJob(w, d) /\ batch[w].work[d].id \notin GoneRows
                                /\ St(w, d)' \in OverStates <=> St(w, d) \in OverStates
  PROVE  /\ Queue' = [i \in DOMAIN Queue \ GoneRows |-> Queue[i]]
         /\ Doing' = [d \in Docs |-> IF d \in Owned(w) \cap L THEN 0 ELSE Doing[d]]
         /\ Over' = Over \ (Owned(w) \cap L)
         /\ Strays' \subseteq Strays
         /\ \A d \in Docs : Doing[d] \in GoneRows => d \in Owned(w) \cap L
<1> DEFINE f == [d \in Docs |-> IF d \in Owned(w) \cap L THEN 0 ELSE Doing[d]]
<1>i. TypeInv /\ DocExclusive /\ Positive /\ BaseInv /\ OwnRow
  BY DEF OrderInv, ExclusionInv, BaseInv
<1>r. /\ \A i \in GoneRows : i \in DOMAIN table /\ i # 0
      /\ DOMAIN table' = DOMAIN table \ GoneRows
  BY <1>i DEF Positive, GoneRows, TypeInv, QueueOK, IsTable
<1>0. /\ TypeInv /\ DocExclusive /\ Positive /\ BaseInv /\ OwnRow
      /\ \A i \in GoneRows : i \in DOMAIN table /\ i # 0
      /\ DOMAIN table' = DOMAIN table \ GoneRows
  BY <1>i, <1>r
<1>1. \A v \in Workers : \A d \in Owned(v) : d \in Docs /\ Doing[d] = batch[v].work[d].id
  BY <1>0, DoingIs DEF Owned, Working
<1>2. \A d \in Docs : (\A v \in Workers : d \notin Owned(v)) => Doing[d] = 0
  BY <1>0, DoingIs
<1>3. ASSUME NEW v \in Workers, v # w
      PROVE  /\ Working(v)' = Working(v) /\ Owned(v)' = Owned(v)
             /\ \A d \in Owned(v) : Doing[d] \notin GoneRows
  <2>1. Working(v)' = Working(v)
    BY <1>3 DEF Working, St
  <2>2. \A d \in Owned(v) : Doing[d] \notin GoneRows
    BY <1>0, <1>1, <1>3, OwnedHeld
  <2> QED BY <1>0, <1>1, <1>3, <2>1, <2>2 DEF Owned
<1>4. Owned(w)' = Owned(w) \ L /\ Owned(w)' \subseteq Working(w)'
  BY <1>0 DEF Owned, SameJob
<1>5. \A d \in Docs : Doing[d] \in GoneRows => d \in Owned(w) \cap L
  BY <1>0, <1>1, <1>2, <1>3, <1>4 DEF Owned
<1>6. Queue' = [i \in DOMAIN Queue \ GoneRows |-> Queue[i]]
  BY <1>0, QueueAfter
<1>7. Doing' = f
  <2>1. f = [d \in Docs |-> f[d]]
    OBVIOUS
  <2>2. ASSUME NEW v \in Workers, NEW d \in Owned(v)' PROVE f[d] = batch'[v].work[d].id
    <3>1. CASE v = w
      BY <1>1, <1>4, <3>1 DEF SameJob
    <3>2. CASE v # w
      BY <1>0, <1>1, <1>3, <3>2 DEF DocExclusive
    <3> QED BY <3>1, <3>2
  <2>3. ASSUME NEW d \in Docs, \A v \in Workers : d \notin Owned(v)' PROVE f[d] = 0
    BY <1>2, <1>3, <1>4, <2>3
  <2> HIDE DEF f
  <2> QED BY <2>1, <2>2, <2>3, DoingAfter
<1>8. Over' = Over \ (Owned(w) \cap L)
  <2>1. \A d \in Owned(w)' : St(w, d)' \in OverStates <=> St(w, d) \in OverStates
    BY <1>4
  <2>2. \A v \in Workers \ {w} : \A d : St(v, d)' = St(v, d)
    BY DEF St
  <2>3. ASSUME NEW d \in Over' PROVE d \in Over \ (Owned(w) \cap L)
    <3>1. PICK v \in Workers : d \in Owned(v)' /\ St(v, d)' \in OverStates
      BY <2>3 DEF Over
    <3>2. d \in Docs /\ d \in Owned(v) /\ St(v, d) \in OverStates
      BY <1>3, <1>4, <2>1, <2>2, <2>3, <3>1 DEF Over
    <3>3. d \notin Owned(w) \cap L
      BY <1>0, <1>4, <3>1, <3>2 DEF DocExclusive
    <3> QED BY <3>2, <3>3 DEF Over
  <2>4. ASSUME NEW d \in Over, d \notin Owned(w) \cap L PROVE d \in Over'
    <3>1. PICK v \in Workers : d \in Owned(v) /\ St(v, d) \in OverStates
      BY <2>4 DEF Over
    <3>2. d \in Docs /\ d \in Owned(v)' /\ St(v, d)' \in OverStates
      BY <1>3, <1>4, <2>1, <2>2, <2>4, <3>1 DEF Over
    <3> QED BY <3>2 DEF Over
  <2> QED BY <2>3, <2>4
<1>9. Strays' \subseteq Strays
  <2> SUFFICES ASSUME NEW x \in Strays' PROVE x \in Strays
    OBVIOUS
  <2>1. PICK v \in Workers, d \in Docs : d \in Working(v)' \ Owned(v)' /\ x = Stray(v, d)'
    BY DEF Strays, Working
  <2>2. d \in Working(v) \ Owned(v)
    BY <1>3, <1>4, <2>1
  <2>3. x = Stray(v, d)
    BY <2>1, <2>2 DEF Stray, SameJob
  <2> QED BY <2>2, <2>3 DEF Strays
<1> QED BY <1>5, <1>6, <1>7, <1>8, <1>9

\* ... without a row: nobody works on the documents any longer.
LEMMA Drops ==
  ASSUME OrderInv, DocExclusive', RowsKeep, DOMAIN table' = DOMAIN table, refs' = refs,
         NEW w \in Workers, NEW L,
         \A v \in Workers \ {w} : batch'[v] = batch[v],
         Working(w)' = Working(w) \ L,
         \A d \in Working(w)' : SameJob(w, d) /\ (St(w, d)' \in OverStates <=> St(w, d) \in OverStates)
  PROVE  Q!QueueNext
<1>1. GoneRows = {} /\ Owned(w) \cap L \in SUBSET Docs
  BY DEF GoneRows, Owned, Working
<1>2. /\ Queue' = [i \in DOMAIN Queue \ GoneRows |-> Queue[i]]
      /\ Doing' = [d \in Docs |-> IF d \in Owned(w) \cap L THEN 0 ELSE Doing[d]]
      /\ Over' = Over \ (Owned(w) \cap L) /\ Strays' \subseteq Strays
  BY <1>1, LetsGo
<1>3. Queue' = Queue
  BY <1>1, <1>2 DEF Queue
<1>4. Q!Drop(Owned(w) \cap L)
  BY <1>2, <1>3 DEF Q!Drop
<1> QED BY <1>1, <1>4 DEF Q!QueueNext

LEMMA Withdraws ==
  ASSUME OrderInv, DocExclusive', RowsKeep, DOMAIN table' \subseteq DOMAIN table, refs' = refs,
         \A v \in Workers : SameJobs(v),
         \/ GoneRows = DOMAIN table
         \/ \E d \in Docs : GoneRows = {i \in RowsOf(table, d) : table[i].op = "ingest"}
  PROVE  Q!QueueNext
<1>1. GoneRows \in SUBSET DOMAIN Queue /\ DOMAIN Queue = DOMAIN table
  BY DEF GoneRows, Queue
<1>2. GoneRows = DOMAIN Queue \/ \E d \in Docs : GoneRows = {i \in Q!Of(d) : Queue[i].op = "ingest"}
  <2>1. ASSUME NEW d \in Docs
        PROVE  {i \in RowsOf(table, d) : table[i].op = "ingest"} = {i \in Q!Of(d) : Queue[i].op = "ingest"}
    BY DEF RowsOf, Q!Of, Queue
  <2> QED BY <1>1, <2>1
<1>3. Q!Withdraw(GoneRows)
  BY <1>2, RowsLeave DEF Q!Withdraw, Q!Remove
<1> QED BY <1>1, <1>3 DEF Q!QueueNext

LEMMA DocStepQueue ==
  ASSUME OrderInv, DocExclusive', NEW d \in Docs, DocStep(d)
  PROVE  Q!QueueNext \/ UNCHANGED Q!queueVars
<1> USE DEF docVars, knVars, queueVars
<1>0. /\ BaseInv /\ TypeInv /\ RowsKeep /\ IsTable(table) /\ batch' = batch
      /\ \A v \in Workers : SameJobs(v)
  <2>1. BaseInv /\ TypeInv /\ IsTable(table)
    BY DEF OrderInv, ExclusionInv, BaseInv, TypeInv, QueueOK
  <2>2. RowsKeep
    BY <2>1, StepKeepsRows DEF Next
  <2>3. batch' = batch
    BY DEF DocStep, PostProcess, PostEnqueue, Reparse, CancelMark, DeleteMark, ScrubStep, DeleteRetract
  <2> QED BY <2>1, <2>2, <2>3, SameBatchJobs
<1>n. ASSUME table' = table, refs' = refs PROVE UNCHANGED Q!queueVars
  BY <1>0, <1>n, AllStay DEF Q!queueVars
<1>1. CASE PostProcess(d) \/ CancelMark(d) \/ DeleteMark(d)
  BY <1>1, <1>n DEF PostProcess, CancelMark, DeleteMark
<1>2. CASE ScrubPending(d) /\ refs' = refs
  <2>1. CASE table' = Scrub(table, d)
    <3> DEFINE I == {i \in RowsOf(table, d) : table[i].op = "ingest"}
    <3>1. table' = DeleteRows(table, I) /\ I \subseteq DOMAIN table
      BY <2>1 DEF Scrub, RowsOf
    <3>2. DOMAIN table' = DOMAIN table \ I
      <4> HIDE DEF I
      <4> QED BY <1>0, <3>1, DeleteTable
    <3>3. GoneRows = I
      BY <3>1, <3>2 DEF GoneRows
    <3>4. Q!QueueNext
      BY <1>0, <1>2, <3>2, <3>3, Withdraws
    <3> QED BY <3>4
  <2>2. CASE table' = table
    BY <1>2, <2>2, <1>n
  <2> QED BY <1>2, <2>1, <2>2 DEF ScrubPending
<1>3. ASSUME NEW o \in OpKinds, Enqueue(d, o), refs' = IF o = "retract" THEN refs \ {d} ELSE refs
      PROVE  Q!QueueNext \/ UNCHANGED Q!queueVars
  <2>1. CASE kb = "live"
    <3>1. Q!Put(nextId, d, o) /\ nextId \in 1..MaxRows
      BY <1>0, <1>3, <2>1, RowArrives DEF Q!Put
    <3> QED BY <3>1 DEF Q!QueueNext, Q!Ops, OpKinds
  <2>2. CASE kb # "live"
    <3>1. table' = table
      BY <1>3, <2>2 DEF Enqueue
    <3>2. CASE o = "retract"
      <4>1. Q!TakeOff(d)
        BY <1>0, <1>3, <3>1, <3>2, AllStay DEF Q!TakeOff
      <4> QED BY <4>1 DEF Q!QueueNext
    <3>3. CASE o # "retract"
      BY <1>3, <3>1, <3>3, <1>n
    <3> QED BY <3>2, <3>3
  <2> QED BY <2>1, <2>2
<1>4. CASE PostEnqueue(d)
  BY <1>4, <1>3 DEF PostEnqueue, OpKinds
<1>5. CASE DeleteRetract(d)
  BY <1>5, <1>3 DEF DeleteRetract, OpKinds
<1>6. CASE Reparse(d) \/ ScrubStep(d)
  BY <1>2, <1>6 DEF Reparse, ScrubStep
<1> QED BY <1>1, <1>4, <1>5, <1>6 DEF DocStep

LEMMA StraysStay ==
  ASSUME \A v \in Workers : Working(v)' \ Owned(v)' = Working(v) \ Owned(v),
         \A v \in Workers : \A d \in Working(v) \ Owned(v) : Stray(v, d)' = Stray(v, d)
  PROVE  Strays' = Strays
<1>1. ASSUME NEW x \in Strays' PROVE x \in Strays
  <2>1. PICK v \in Workers, d \in Docs : d \in Working(v)' \ Owned(v)' /\ x = Stray(v, d)'
    BY <1>1 DEF Strays, Working
  <2> QED BY <2>1 DEF Strays
<1>2. ASSUME NEW x \in Strays PROVE x \in Strays'
  <2>1. PICK v \in Workers, d \in Docs : d \in Working(v) \ Owned(v) /\ x = Stray(v, d)
    BY <1>2 DEF Strays, Working
  <2> QED BY <2>1 DEF Strays
<1> QED BY <1>1, <1>2

\* A batch goes on with its operations, one of which may get on.
LEMMA JobsStay ==
  ASSUME OrderInv, DocExclusive', RowsKeep, DOMAIN table' = DOMAIN table,
         \A v \in Workers : Working(v)' = Working(v) /\ \A d \in Working(v) : SameJob(v, d)
  PROVE  UNCHANGED <<Queue, Doing, Strays>> /\ \A v \in Workers : Owned(v)' = Owned(v)
<1>0. TypeInv /\ DocExclusive
  BY DEF OrderInv, ExclusionInv, BaseInv
<1>1. \A v \in Workers : Owned(v)' = Owned(v)
  BY DEF Owned, SameJob
<1>2. \A i \in DOMAIN table : table'[i].doc = table[i].doc /\ table'[i].op = table[i].op
  BY DEF RowsKeep, SameOp
<1>3. Queue' = Queue
  BY <1>2 DEF Queue
<1>4. Doing' = Doing
  <2>1. Doing = [d \in Docs |-> Doing[d]]
    BY DEF Doing
  <2>2. \A w \in Workers : \A d \in Owned(w)' : Doing[d] = batch'[w].work[d].id
    BY <1>0, <1>1, DoingIs DEF Owned, SameJob
  <2> QED BY <1>0, <1>1, <2>1, <2>2, DoingIs, DoingAfter
<1>5. \A v \in Workers : \A d \in Working(v) : Stray(v, d)' = Stray(v, d)
  BY DEF Stray, SameJob
<1>6. Strays' = Strays
  BY <1>1, <1>5, StraysStay
<1> QED BY <1>1, <1>3, <1>4, <1>6

\* An operation that is not over yet gets on.
LEMMA Carries ==
  ASSUME OrderInv, DocExclusive', RowsKeep, DOMAIN table' = DOMAIN table,
         NEW w \in Workers, NEW d \in Working(w), St(w, d) \notin OverStates,
         \A v \in Workers \ {w} : batch'[v] = batch[v],
         Working(w)' = Working(w), \A e \in Working(w) : SameJob(w, e),
         \A e \in Docs \ {d} : St(w, e)' = St(w, e),
         refs' \in {refs, Q!Effect(d, batch[w].work[d].op)}
  PROVE  Q!QueueNext \/ UNCHANGED Q!queueVars
<1>0. TypeInv /\ DocExclusive /\ Positive /\ BaseInv /\ d \in Docs
  BY DEF OrderInv, ExclusionInv, BaseInv, Working
<1>1. \A v \in Workers : SameJobs(v) \/ v = w
  BY SameBatchJobs
<1>2. UNCHANGED <<Queue, Doing, Strays>> /\ \A v \in Workers : Owned(v)' = Owned(v)
  BY <1>1, JobsStay DEF SameJobs
<1>3. \A v \in Workers, e \in Docs : v # w \/ e # d => St(v, e)' = St(v, e)
  BY DEF St
<1>4. CASE d \in Owned(w)
  <2>1. /\ batch[w].work[d].id \in DOMAIN table /\ table[batch[w].work[d].id].op = batch[w].work[d].op
        /\ batch[w].work[d].id > 0 /\ Doing[d] = batch[w].work[d].id
    <3>1. St(w, d) # "absent" /\ batch[w].work[d].id \in DOMAIN table
      BY <1>4 DEF Owned, Working
    <3>2. table[batch[w].work[d].id].op = batch[w].work[d].op
      BY <1>0, <3>1 DEF OrderInv, ClaimsInOrder, OwnOpOf
    <3>3. Doing[d] = batch[w].work[d].id
      BY <1>0, <1>4, DoingIs
    <3> QED BY <1>0, <3>1, <3>2, <3>3 DEF Positive
  <2>2. Doing[d] # 0 /\ Queue[Doing[d]].op = batch[w].work[d].op
    BY <1>0, <2>1 DEF Queue, TypeInv, QueueOK, IsTable
  <2>3. d \notin Over
    BY <1>4 DEF OrderInv, ExclusionInv, DocExclusive, Over
  <2>4. Over' \in {Over, Over \cup {d}}
    <3>1. \A e \in Docs \ {d} : e \in Over' <=> e \in Over
      BY <1>2, <1>3 DEF Over
    <3>2. Over' \subseteq Docs /\ Over \subseteq Docs
      BY DEF Over
    <3>3. CASE d \in Over'
      BY <3>1, <3>2, <3>3, <1>0
    <3>4. CASE d \notin Over'
      BY <2>3, <3>1, <3>2, <3>4
    <3> QED BY <3>3, <3>4
  <2>5. Q!Carry(d)
    BY <1>2, <2>2, <2>3, <2>4 DEF Q!Carry
  <2> QED BY <1>0, <2>5 DEF Q!QueueNext
<1>5. CASE d \notin Owned(w)
  <2>1. Over' = Over
    <3>1. \A v \in Workers : \A e \in Owned(v) : e \in Docs /\ St(v, e)' = St(v, e)
      BY <1>3, <1>5 DEF Owned, Working
    <3> QED BY <1>2, <3>1 DEF Over
  <2>2. Stray(w, d) \in Strays /\ Stray(w, d).doc = d /\ Stray(w, d).op = batch[w].work[d].op
    BY <1>5 DEF Strays, Stray
  <2>3. CASE refs' = refs
    BY <1>2, <2>1, <2>3 DEF Q!queueVars
  <2>4. CASE refs' = Q!Effect(d, batch[w].work[d].op)
    <3>1. Q!StrayEffect(Stray(w, d))
      BY <1>2, <2>1, <2>2, <2>4 DEF Q!StrayEffect
    <3> QED BY <2>2, <3>1 DEF Q!QueueNext
  <2> QED BY <2>3, <2>4
<1> QED BY <1>4, <1>5

\* A dead letter's row is the last that its batch still has for the document.
LEMMA DropsLast ==
  ASSUME OrderInv, OrderInv', ~Fault("settle"), NEW w \in Workers, NEW d \in Docs, DropDead(w, d)
  PROVE  Q!QueueNext
<1> DEFINE id == batch[w].work[d].id
<1>0. /\ BaseInv /\ TypeInv /\ IsTable(table) /\ OwnRow /\ DocExclusive /\ DocExclusive' /\ RowExclusive
      /\ RowsKeep /\ OpStep(w, d)
  <2>1. /\ BaseInv /\ TypeInv /\ IsTable(table) /\ OwnRow /\ DocExclusive /\ DocExclusive'
        /\ RowExclusive
    BY DEF OrderInv, ExclusionInv, BaseInv, TypeInv, QueueOK
  <2>2. OpStep(w, d) /\ Next
    BY DEF OpStep, Next
  <2> QED BY <2>1, <2>2, StepKeepsRows
<1>1. /\ GoesOn(w) /\ batch'[w].pc = batch[w].pc /\ \A e \in Docs \ {d} : St(w, e)' = St(w, e)
      /\ \A v \in Workers \ {w} : batch'[v] = batch[v]
  BY <1>0, OpGoesOn
<1>2. /\ batch[w].pc = "settle" /\ St(w, d) = "archived" /\ St(w, d)' = "settled"
      /\ table' = DeleteRows(table, {id}) /\ refs' = refs
  BY <1>0, OpMoves DEF DropDead, docVars
<1>3. DOMAIN table' = DOMAIN table \ {id}
  BY <1>0, <1>2, DeleteTable
<1>4. Working(w)' = Working(w) \ {d} /\ d \in Working(w)
  BY <1>1, <1>2 DEF Working
<1>5. \A e \in Working(w)' : /\ SameJob(w, e) /\ e # d /\ e \in Docs
                             /\ St(w, e)' \in OverStates <=> St(w, e) \in OverStates
  BY <1>1, <1>4 DEF GoesOn, SameJob, Working
<1>6. CASE id \notin DOMAIN table
  <2>1. DOMAIN table' = DOMAIN table
    BY <1>3, <1>6
  <2> QED BY <1>0, <1>1, <1>2, <1>4, <1>5, <2>1, Drops
<1>7. CASE id \in DOMAIN table
  <2>1. GoneRows = {id} /\ d \in Owned(w) /\ Doing[d] = id
    BY <1>0, <1>3, <1>4, <1>7, DoingIs DEF GoneRows, Owned
  <2>2. id \in Held(w) /\ table[id].doc = d
    BY <1>0, <2>1, OwnedHeld
  <2>3. \A v \in Workers \ {w} : Held(v) \cap GoneRows = {}
    BY <1>0, <2>1, <2>2 DEF RowExclusive
  <2>4. \A e \in Working(w)' : batch[w].work[e].id \notin GoneRows
    <3>1. \A e \in Working(w) : St(w, e) # "absent"
      BY DEF Working
    <3> QED BY <1>0, <1>4, <1>5, <1>7, <2>1, <2>2, <3>1 DEF OwnRow, OwnRowOf
  <2>5. /\ Queue' = [i \in DOMAIN Queue \ GoneRows |-> Queue[i]]
        /\ Doing' = [e \in Docs |-> IF e \in Owned(w) \cap {d} THEN 0 ELSE Doing[e]]
        /\ Over' = Over \ (Owned(w) \cap {d})
        /\ Strays' \subseteq Strays
        /\ \A e \in Docs : Doing[e] \in GoneRows => e \in Owned(w) \cap {d}
    <3> HIDE DEF id
    <3>1. DOMAIN table' \subseteq DOMAIN table
      BY <1>3
    <3> QED BY <1>0, <1>1, <1>4, <1>5, <2>3, <2>4, <3>1, LetsGo
  <2>6. \A e \in Docs : e \in Owned(w) \cap {d} <=> Doing[e] \in {id}
    BY <2>1, <2>5
  <2>7. \A j \in Q!Of(d) : j < id => j \in {id}
    <3> SUFFICES ASSUME NEW j \in Q!Of(d), j < id PROVE j = id
      OBVIOUS
    <3>1. j \in DOMAIN table /\ table[j].doc = d
      BY DEF Q!Of, Queue
    <3>2. j \in batch[w].ids
      BY <1>7, <2>2, <3>1 DEF OrderInv, ClaimsInOrder, WholeOf, Held
    <3> QED BY <1>2, <3>1, <3>2 DEF OrderInv, ClaimsInOrder, LatestOf
  <2>8. d \in Over /\ Over \subseteq Docs
    BY <1>2, <2>1 DEF Over, OverStates
  <2>9. Queue[id].doc = d /\ {id} \in SUBSET DOMAIN Queue
    BY <1>7, <2>2 DEF Queue
  <2>10. Q!Remove({id})
    <3>1. Doing' = [e \in Docs |-> IF Doing[e] \in {id} THEN 0 ELSE Doing[e]]
      BY <2>5, <2>6
    <3>2. Over' = {e \in Over : Doing[e] \notin {id}}
      BY <2>5, <2>6, <2>8
    <3> QED BY <1>2, <2>1, <2>5, <3>1, <3>2 DEF Q!Remove
  <2>11. Q!Leave({id})
    BY <2>1, <2>5, <2>7, <2>8, <2>9, <2>10 DEF Q!Leave
  <2> QED BY <2>9, <2>11 DEF Q!QueueNext
<1> QED BY <1>6, <1>7

LEMMA OpStepQueue ==
  ASSUME OrderInv, OrderInv', ~Fault("settle"), NEW w \in Workers, NEW d \in Docs, OpStep(w, d)
  PROVE  Q!QueueNext \/ UNCHANGED Q!queueVars
<1> USE DEF docVars, knVars, queueVars
<1>0. BaseInv /\ TypeInv /\ DocExclusive' /\ RowsKeep
  <2>1. BaseInv /\ TypeInv /\ DocExclusive'
    BY DEF OrderInv, ExclusionInv, BaseInv
  <2> QED BY <2>1, StepKeepsRows DEF Next
<1>1. /\ GoesOn(w) /\ batch'[w].pc = batch[w].pc /\ \A e \in Docs \ {d} : St(w, e)' = St(w, e)
      /\ \A v \in Workers \ {w} : batch'[v] = batch[v]
  BY <1>0, OpGoesOn
<1>2. \A e \in Docs : SameJob(w, e)
  BY <1>1 DEF GoesOn, SameJob
<1>c. ASSUME Working(w)' = Working(w), d \in Working(w), St(w, d) \notin OverStates, DOMAIN table' = DOMAIN table,
             refs' \in {refs, Q!Effect(d, batch[w].work[d].op)}
      PROVE  Q!QueueNext \/ UNCHANGED Q!queueVars
  <2>1. \A e \in Working(w) : SameJob(w, e)
    BY <1>2 DEF Working
  <2> QED BY <1>0, <1>1, <1>c, <2>1, Carries
<1>w. ASSUME batch[w].pc = "work", St(w, d) \notin {"absent", "settled"}, St(w, d)' \notin {"absent", "settled"}
      PROVE  Working(w)' = Working(w) /\ d \in Working(w)
  BY <1>1, <1>w DEF Working
<1>s. ASSUME batch[w].pc = "settle", St(w, d) \in {"failed", "unapplied", "exhausted"},
             St(w, d)' \in {"exhausted", "archived"}
      PROVE  Working(w)' = Working(w) /\ d \in Working(w)
  BY <1>1, <1>s DEF Working
<1>3. CASE MapSkip(w, d) \/ MapIngest(w, d) \/ MapRetract(w, d) \/ ReduceRead(w, d)
  <2>1. /\ batch[w].pc = "work" /\ St(w, d) \in {"todo", "mapped"} /\ table' = table /\ refs' = refs
    BY <1>3 DEF MapSkip, MapIngest, MapRetract, ReduceRead
  <2>2. St(w, d)' \in {"skipped", "failed", "mapped", "done", "dropped", "reducing"}
    BY <1>0, <1>3, OpMoves
  <2> QED BY <2>1, <2>2, <1>c, <1>w DEF OverStates
<1>4. CASE ReduceWrite(w, d) \/ ReduceUnapplied(w, d)
  <2>1. /\ batch[w].pc = "work" /\ St(w, d) = "reducing" /\ table' = table
        /\ refs' \in {refs, Q!Effect(d, batch[w].work[d].op)}
    BY <1>4 DEF ReduceWrite, ReduceUnapplied, Q!Effect
  <2>2. St(w, d)' \in {"ok", "done", "unapplied"}
    BY <1>0, <1>4, OpMoves
  <2> QED BY <2>1, <2>2, <1>c, <1>w DEF OverStates
<1>5. CASE DrainDoc(w, d)
  <2>1. /\ batch[w].pc = "work" /\ St(w, d) \in {"ok", "dropped"} /\ table' = table /\ refs' = refs
        /\ St(w, d)' = "done"
    BY <1>0, <1>5, OpMoves DEF DrainDoc
  <2>2. SameJobs(w)
    BY <1>1, <1>2, <1>w, <2>1 DEF SameJobs, Working, OverStates
  <2>3. \A v \in Workers : SameJobs(v)
    BY <1>1, <2>2, SameBatchJobs
  <2> QED BY <1>0, <2>1, <2>3, AllStay DEF Q!queueVars
<1>6. CASE Requeue(w, d)
  <2>1. /\ batch[w].pc = "settle" /\ St(w, d) \in {"failed", "unapplied"} /\ refs' = refs
        /\ DOMAIN table' = DOMAIN table
    BY <1>0, <1>6, RequeueRows DEF Requeue
  <2>2. CASE St(w, d)' = "exhausted"
    BY <2>1, <2>2, <1>c, <1>s DEF OverStates
  <2>3. CASE St(w, d)' = "settled"
    <3>1. Working(w)' = Working(w) \ {d}
      BY <1>1, <2>1, <2>3 DEF Working
    <3>2. \A e \in Working(w)' : SameJob(w, e) /\ (St(w, e)' \in OverStates <=> St(w, e) \in OverStates)
      BY <1>1, <1>2, <3>1 DEF Working
    <3> QED BY <1>0, <1>1, <2>1, <3>1, <3>2, Drops
  <2> QED BY <1>0, <1>6, <2>2, <2>3, OpMoves
<1>7. CASE DeadLetter(w, d)
  <2>1. /\ batch[w].pc = "settle" /\ St(w, d) = "exhausted" /\ refs' = refs /\ table' = table
        /\ St(w, d)' = "archived"
    BY <1>0, <1>7, OpMoves DEF DeadLetter
  <2> QED BY <2>1, <1>c, <1>s DEF OverStates
<1>8. CASE DropDead(w, d)
  BY <1>8, DropsLast
<1> QED BY <1>3, <1>4, <1>5, <1>6, <1>7, <1>8 DEF OpStep

\* A trim deletes the rows of the operations that are over, and the rows that the
\* operation of their document has superseded.
LEMMA TrimQueue ==
  ASSUME OrderInv, OrderInv', ~Fault("settle"), NEW w \in Workers, Trim(w)
  PROVE  Q!QueueNext
<1> DEFINE L == {d \in Docs : St(w, d) \notin {"failed", "unapplied"}}
<1>0. /\ BaseInv /\ TypeInv /\ OwnRow /\ DocExclusive /\ DocExclusive' /\ RowExclusive /\ RowsKeep
      /\ \A i \in DOMAIN table : i \in Nat /\ table[i].doc \in Docs
  <2>1. BaseInv /\ TypeInv /\ OwnRow /\ DocExclusive /\ DocExclusive' /\ RowExclusive
    BY DEF OrderInv, ExclusionInv, BaseInv
  <2>2. Next
    BY DEF Next, BatchStep
  <2> QED BY <2>1, <2>2, StepKeepsRows DEF TypeInv, QueueOK, IsTable, Row
<1>1. /\ DOMAIN table' = DOMAIN table \ TrimIds(w)
      /\ batch[w].pc = "work" /\ batch'[w].pc = "settle" /\ batch'[w].work = batch[w].work
      /\ \A v \in Workers \ {w} : batch'[v] = batch[v]
  BY <1>0, TrimEffect
<1>2. refs' = refs /\ \A d \in Docs : St(w, d) \in {"skipped", "done", "failed", "unapplied", "absent"}
  BY DEF Trim, AllIn, docVars
<1>3. GoneRows = TrimIds(w) \cap DOMAIN table /\ GoneRows \subseteq batch[w].ids
  BY <1>1 DEF GoneRows, TrimIds
<1>4. Working(w)' = Working(w) \ L
  BY <1>1, <1>2 DEF Working, St
<1>5. ASSUME NEW i \in batch[w].ids \cap DOMAIN table
      PROVE  LET d == table[i].doc IN
             /\ d \in Working(w) /\ i <= batch[w].work[d].id
             /\ i \in GoneRows <=> St(w, d) \notin {"failed", "unapplied"} \/ i # batch[w].work[d].id
  <2> DEFINE d == table[i].doc
  <2>1. d \in Docs /\ St(w, d) # "absent" /\ i <= batch[w].work[d].id
    BY <1>0, <1>5 DEF OrderInv, ClaimsInOrder, LatestOf
  <2>2. d \in Working(w)
    BY <1>1, <1>2, <2>1 DEF Working
  <2>3. i \in FailedIds(w) <=> St(w, d) \in {"failed", "unapplied"} /\ i = batch[w].work[d].id
    <3>1. ASSUME NEW e \in Docs, St(w, e) \in {"failed", "unapplied"}, i = batch[w].work[e].id PROVE e = d
      BY <1>0, <1>5, <3>1 DEF OwnRow, OwnRowOf
    <3> QED BY <2>1, <3>1 DEF FailedIds
  <2> QED BY <1>3, <1>5, <2>1, <2>2, <2>3 DEF TrimIds
<1>6. \A v \in Workers \ {w} : Held(v) \cap GoneRows = {}
  <2>1. ASSUME NEW i \in GoneRows PROVE i \in Held(w)
    BY <1>1, <1>3, <1>5, <2>1 DEF Held, Working
  <2> QED BY <1>0, <2>1 DEF RowExclusive
<1>7. ASSUME NEW d \in Owned(w)
      PROVE  /\ d \in Docs /\ Doing[d] = batch[w].work[d].id
             /\ Doing[d] \in batch[w].ids \cap DOMAIN table /\ table[Doing[d]].doc = d
             /\ d \in L <=> Doing[d] \in GoneRows
  <2>1. d \in Docs /\ Doing[d] = batch[w].work[d].id
    BY <1>0, DoingIs DEF Owned, Working
  <2>2. Doing[d] \in batch[w].ids \cap DOMAIN table /\ table[Doing[d]].doc = d
    BY <1>0, <2>1, OwnedHeld DEF Held
  <2> QED BY <1>5, <2>1, <2>2
<1>8. \A d \in Working(w)' : /\ SameJob(w, d) /\ batch[w].work[d].id \notin GoneRows
                             /\ St(w, d)' \in OverStates <=> St(w, d) \in OverStates
  <2> SUFFICES ASSUME NEW d \in Working(w)' PROVE batch[w].work[d].id \notin GoneRows
    BY <1>1 DEF SameJob, St
  <2>1. d \in Working(w) /\ d \notin L
    BY <1>4
  <2>2. CASE batch[w].work[d].id \in DOMAIN table
    BY <1>7, <2>1, <2>2 DEF Owned
  <2>3. CASE batch[w].work[d].id \notin DOMAIN table
    BY <1>3, <2>3
  <2> QED BY <2>2, <2>3
<1> HIDE DEF L
<1>9. /\ Queue' = [i \in DOMAIN Queue \ GoneRows |-> Queue[i]]
      /\ Doing' = [d \in Docs |-> IF d \in Owned(w) \cap L THEN 0 ELSE Doing[d]]
      /\ Over' = Over \ (Owned(w) \cap L)
      /\ Strays' \subseteq Strays
      /\ \A d \in Docs : Doing[d] \in GoneRows => d \in Owned(w) \cap L
  <2>1. DOMAIN table' \subseteq DOMAIN table
    BY <1>1
  <2> QED BY <1>0, <1>1, <1>4, <1>6, <1>8, <2>1, LetsGo
<1>10. \A d \in Docs : d \in Owned(w) \cap L <=> Doing[d] \in GoneRows
  BY <1>7, <1>9
<1>11. Q!Remove(GoneRows)
  <2>1. Doing' = [d \in Docs |-> IF Doing[d] \in GoneRows THEN 0 ELSE Doing[d]]
    BY <1>9, <1>10
  <2>2. Over' = {d \in Over : Doing[d] \notin GoneRows}
    BY <1>9, <1>10 DEF Over
  <2> QED BY <1>2, <1>9, <2>1, <2>2 DEF Q!Remove
<1>12. ASSUME NEW i \in GoneRows
       PROVE  LET d == Queue[i].doc IN
              /\ \A j \in Q!Of(d) : j < i => j \in GoneRows
              /\ \/ i = Doing[d] /\ d \in Over
                 \/ i < Doing[d]
                 \/ \E x \in Strays : x.doc = d /\ i < x.id
  <2> DEFINE d == table[i].doc
  <2>1. i \in batch[w].ids \cap DOMAIN table /\ Queue[i].doc = d
    BY <1>3, <1>12 DEF Queue
  <2>2. /\ d \in Working(w) /\ d \in Docs /\ i <= batch[w].work[d].id
        /\ St(w, d) \notin {"failed", "unapplied"} \/ i # batch[w].work[d].id
    BY <1>0, <1>5, <1>12, <2>1
  <2>3. ASSUME NEW j \in Q!Of(d), j < i PROVE j \in GoneRows
    <3>1. j \in DOMAIN table /\ table[j].doc = d
      BY DEF Q!Of, Queue
    <3>2. j \in batch[w].ids
      BY <2>1, <2>3, <3>1 DEF OrderInv, ClaimsInOrder, WholeOf
    <3>3. j # batch[w].work[d].id
      <4>1. i \in Nat /\ j \in Nat /\ batch[w].work[d].id \in Nat
        BY <1>0, <2>1, <2>2, <3>1 DEF TypeInv, WorkersOK, Batch, Op
      <4> QED BY <2>2, <2>3, <4>1
    <3> QED BY <1>5, <3>1, <3>2, <3>3
  <2>4. i = batch[w].work[d].id \/ i < batch[w].work[d].id
    <3>1. i \in Nat /\ batch[w].work[d].id \in Nat
      BY <1>0, <2>1, <2>2 DEF TypeInv, WorkersOK, Batch, Op
    <3> QED BY <2>2, <3>1
  <2>5. \/ i = Doing[d] /\ d \in Over
        \/ i < Doing[d]
        \/ \E x \in Strays : x.doc = d /\ i < x.id
    <3>1. CASE d \in Owned(w)
      <4>1. Doing[d] = batch[w].work[d].id
        BY <1>7, <3>1
      <4>2. ASSUME St(w, d) \notin {"failed", "unapplied"} PROVE d \in Over
        <5>1. St(w, d) # "absent"
          BY <2>2 DEF Working
        <5> QED BY <1>2, <2>2, <3>1, <4>2, <5>1 DEF Over, OverStates
      <4> QED BY <2>2, <2>4, <4>1, <4>2
    <3>2. CASE d \notin Owned(w)
      <4>1. Stray(w, d) \in Strays /\ Stray(w, d).doc = d /\ Stray(w, d).id = batch[w].work[d].id
        BY <2>2, <3>2 DEF Strays, Stray
      <4>2. i # batch[w].work[d].id
        BY <2>1, <2>2, <3>2 DEF Owned
      <4> QED BY <2>4, <4>1, <4>2
    <3> QED BY <3>1, <3>2
  <2> QED BY <2>1, <2>3, <2>5
<1>13. Q!Leave(GoneRows)
  BY <1>9, <1>11, <1>12 DEF Q!Leave
<1>14. GoneRows \in SUBSET DOMAIN Queue
  BY <1>3 DEF Queue
<1> QED BY <1>13, <1>14 DEF Q!QueueNext

\* A claim takes up the newest operation of documents that nobody works on.
LEMMA ClaimQueue ==
  ASSUME OrderInv, OrderInv', NEW w \in Workers, Claim(w)
  PROVE  Q!QueueNext
<1>0. /\ BaseInv /\ TypeInv /\ OwnRow /\ DocExclusive /\ DocExclusive' /\ HeldFresh /\ NothingYet
      /\ \A i \in DOMAIN table : table[i].doc \in Docs
  BY DEF OrderInv, ExclusionInv, BaseInv, TypeInv, QueueOK, IsTable, Row
<1>r. RowsKeep
  BY <1>0, StepKeepsRows DEF Next, BatchStep
<1>1. /\ ClaimedIds \subseteq DOMAIN table /\ DOMAIN table' = DOMAIN table
      /\ batch'[w].pc = "work"
      /\ \A d \in Docs : /\ d \in ClaimedDocs => /\ St(w, d)' = "todo"
                                                 /\ batch'[w].work[d].id = ClaimedRow(d)
                         /\ d \notin ClaimedDocs => St(w, d)' = "absent"
      /\ \A d \in ClaimedDocs : ClaimedRow(d) \in ClaimedIds /\ table[ClaimedRow(d)].doc = d
      /\ \A v \in Workers \ {w} : batch'[v] = batch[v]
  BY <1>0, ClaimEffect
<1>2. refs' = refs /\ Working(w) = {} /\ ClaimedDocs \subseteq Docs
  <2>1. batch[w].pc = "claim" /\ refs' = refs
    BY DEF Claim, docVars
  <2> QED BY <1>0, <1>1, <2>1, NoJobs DEF ClaimedDocs
<1>3. Queue' = Queue
  BY <1>1, <1>r DEF Queue, RowsKeep, SameOp
<1>4. Working(w)' = ClaimedDocs /\ Owned(w)' = ClaimedDocs
  <2>1. Working(w)' = ClaimedDocs
    BY <1>1, <1>2 DEF Working
  <2> QED BY <1>1, <1>2, <2>1 DEF Owned
<1>5. ASSUME NEW v \in Workers, v # w PROVE Working(v)' = Working(v) /\ Owned(v)' = Owned(v)
  BY <1>1, <1>5 DEF Working, Owned, St
<1>6. ASSUME NEW d \in ClaimedDocs
      PROVE  /\ \A v \in Workers : d \notin Owned(v)
             /\ Q!Of(d) = {k \in ClaimedIds : table[k].doc = d} /\ Q!Of(d) # {}
  <2>1. PICK i \in ClaimedIds : table[i].doc = d
    BY DEF ClaimedDocs
  <2>2. /\ i \in DOMAIN table /\ table[i].doc \in Chosen(table, BatchDocs)
        /\ \A j \in DOMAIN table : table[j].doc = d => ~Fresh(table[j])
    BY <2>1, ClaimedAreStale DEF ClaimedIds, ClaimIds
  <2>3. ASSUME NEW v \in Workers, d \in Owned(v) PROVE FALSE
    BY <1>0, <2>2, <2>3, OwnedHeld, HeldIsFresh DEF Held
  <2>4. \A j \in DOMAIN table : table[j].doc = d => j \in ClaimedIds
    BY <2>1, <2>2 DEF ClaimedIds, ClaimIds
  <2> QED BY <1>1, <2>1, <2>3, <2>4 DEF Q!Of, Queue
<1>7. \A d \in ClaimedDocs : Doing[d] = 0 /\ Q!Of(d) # {} /\ Q!Newest(d) = ClaimedRow(d)
  <2>1. \A d \in ClaimedDocs : Doing[d] = 0
    BY <1>0, <1>2, <1>6, DoingIs
  <2>2. ASSUME NEW d \in ClaimedDocs PROVE Q!Newest(d) = ClaimedRow(d)
    BY <1>6 DEF Q!Newest, ClaimedRow, LastOf
  <2> QED BY <1>6, <2>1, <2>2
<1>8. Doing' = [d \in Docs |-> IF d \in ClaimedDocs THEN Q!Newest(d) ELSE Doing[d]]
  <2> DEFINE f == [d \in Docs |-> IF d \in ClaimedDocs THEN Q!Newest(d) ELSE Doing[d]]
  <2>1. f = [d \in Docs |-> f[d]]
    OBVIOUS
  <2>2. ASSUME NEW v \in Workers, NEW d \in Owned(v)' PROVE f[d] = batch'[v].work[d].id
    <3>1. CASE v = w
      BY <1>1, <1>2, <1>4, <1>7, <3>1
    <3>2. CASE v # w
      <4>1. d \in Owned(v) /\ d \in Docs /\ batch'[v].work[d].id = batch[v].work[d].id
        BY <1>1, <1>5, <3>2 DEF Owned, Working
      <4>2. d \notin ClaimedDocs
        BY <1>6, <4>1
      <4> QED BY <1>0, <4>1, <4>2, DoingIs
    <3> QED BY <3>1, <3>2
  <2>3. ASSUME NEW d \in Docs, \A v \in Workers : d \notin Owned(v)' PROVE f[d] = 0
    <3>1. d \notin ClaimedDocs /\ d \notin Owned(w)
      BY <1>2, <1>4, <2>3 DEF Owned
    <3>2. \A v \in Workers : d \notin Owned(v)
      BY <1>5, <2>3, <3>1
    <3> QED BY <1>0, <3>1, <3>2, DoingIs
  <2> HIDE DEF f
  <2>4. Doing' = f
    BY <1>0, <2>1, <2>2, <2>3, DoingAfter
  <2> QED BY <2>4 DEF f
<1>9. Over' = Over
  <2>1. \A d \in Owned(w)' : St(w, d)' \notin OverStates
    BY <1>1, <1>2, <1>4 DEF OverStates
  <2>2. Owned(w) = {}
    BY <1>2 DEF Owned
  <2>3. \A v \in Workers \ {w} : \A d : St(v, d)' = St(v, d)
    BY <1>1 DEF St
  <2> QED BY <1>5, <2>1, <2>2, <2>3 DEF Over
<1>10. Strays' = Strays
  <2>1. \A v \in Workers : Working(v)' \ Owned(v)' = Working(v) \ Owned(v)
    BY <1>2, <1>4, <1>5
  <2>2. \A v \in Workers : \A d \in Working(v) \ Owned(v) : Stray(v, d)' = Stray(v, d)
    BY <1>1, <1>2 DEF Stray
  <2> QED BY <2>1, <2>2, StraysStay
<1>11. Q!Take(ClaimedDocs)
  BY <1>2, <1>3, <1>7, <1>8, <1>9, <1>10 DEF Q!Take
<1> QED BY <1>2, <1>11 DEF Q!QueueNext

\* The steps of a batch that has nothing to work on, of a new batch, and of time.
LEMMA IdleQueue ==
  ASSUME OrderInv, DocExclusive', RowsKeep, refs' = refs, NEW w \in Workers,
         table' = table \/ table' = NoRows \/ DOMAIN table' = DOMAIN table,
         \A v \in Workers \ {w} : batch'[v] = batch[v],
         batch'[w] = batch[w] \/ (Working(w) = {} /\ Working(w)' = {})
  PROVE  Q!QueueNext \/ UNCHANGED Q!queueVars
<1>1. SameJobs(w)
  BY SameBatchJobs DEF SameJobs
<1>2. \A v \in Workers : SameJobs(v)
  BY <1>1, SameBatchJobs
<1>3. CASE DOMAIN table' = DOMAIN table
  BY <1>2, <1>3, AllStay DEF Q!queueVars
<1>4. CASE table' = NoRows
  <2>1. DOMAIN table' \subseteq DOMAIN table /\ GoneRows = DOMAIN table
    BY <1>4, NoRowsTable DEF GoneRows
  <2> QED BY <1>2, <2>1, Withdraws
<1> QED BY <1>3, <1>4

LEMMA OtherStepQueue ==
  ASSUME OrderInv, OrderInv', Next, NEW w \in Workers,
         \/ \E k \in TaskKinds : StartStep(w, k)
         \/ ClaimNothing(w) \/ ClaimFails(w) \/ Finish(w) \/ Abort(w) \/ Crash(w) \/ Restart(w)
  PROVE  Q!QueueNext \/ UNCHANGED Q!queueVars
<1> USE DEF docVars, knVars, queueVars
<1>0. /\ BaseInv /\ BaseInv' /\ TypeInv /\ DocExclusive' /\ NothingYet /\ NothingYet' /\ NoError
      /\ batch \in [Workers -> Batch]
  BY DEF OrderInv, ExclusionInv, BaseInv, TypeInv, WorkersOK
<1>r. RowsKeep
  BY <1>0, StepKeepsRows
<1>n. ASSUME batch'[w].pc \in {"idle", "down", "claim"} PROVE Working(w)' = {}
  BY <1>0, <1>n DEF NothingYet, AllIn, Working
<1>1. ASSUME NEW k \in TaskKinds, StartStep(w, k) PROVE Q!QueueNext \/ UNCHANGED Q!queueVars
  <2>1. /\ refs' = refs /\ (table' = table \/ table' = NoRows) /\ batch[w].pc = "idle"
        /\ \A v \in Workers \ {w} : batch'[v] = batch[v]
        /\ batch'[w] = batch[w] \/ batch'[w].pc = "claim"
    <3>1. CASE Start(w, k)
      BY <1>0, <3>1 DEF Start, Idle
    <3>2. CASE StartDeleted(w, k) \/ StartCapped(w, k)
      BY <3>2 DEF StartDeleted, StartCapped
    <3> QED BY <1>1, <3>1, <3>2 DEF StartStep
  <2>2. Working(w) = {}
    BY <1>0, <2>1, NoJobs
  <2> QED BY <1>0, <1>r, <1>n, <2>1, <2>2, IdleQueue
<1>2. CASE ClaimNothing(w) \/ ClaimFails(w) \/ Finish(w) \/ Restart(w)
  <2>1. /\ refs' = refs /\ (table' = table \/ table' = NoRows)
        /\ batch' = [batch EXCEPT ![w] = Idle]
    BY <1>2 DEF ClaimNothing, ClaimFails, Finish, Restart
  <2>2. Working(w) = {}
    <3>1. CASE Finish(w)
      BY <3>1 DEF Finish, Settled, AllIn, Working
    <3>2. CASE batch[w].pc \in {"claim", "down"}
      BY <1>0, <3>2, NoJobs
    <3> QED BY <1>2, <3>1, <3>2 DEF ClaimNothing, ClaimFails, Restart
  <2>3. batch'[w].pc = "idle" /\ \A v \in Workers \ {w} : batch'[v] = batch[v]
    BY <1>0, <2>1 DEF Idle
  <2> QED BY <1>0, <1>r, <1>n, <2>1, <2>2, <2>3, IdleQueue
<1>3. CASE Abort(w)
  BY <1>0, <1>3 DEF Abort, NoError
<1>4. CASE Crash(w)
  <2>1. /\ refs' = refs /\ table' = table /\ batch' = [batch EXCEPT ![w] = [Idle EXCEPT !.pc = "down"]]
    BY <1>4 DEF Crash
  <2>2. batch'[w].pc = "down" /\ \A v \in Workers \ {w} : batch'[v] = batch[v]
    BY <1>0, <2>1 DEF Idle
  <2>3. Working(w)' = {} /\ Working(w) \subseteq Docs
    BY <1>n, <2>2 DEF Working
  <2>4. Working(w)' = Working(w) \ Docs
    BY <2>3
  <2> QED BY <1>0, <1>r, <2>1, <2>2, <2>3, <2>4, Drops
<1> QED BY <1>1, <1>2, <1>3, <1>4

LEMMA NextQueue ==
  ASSUME OrderInv, OrderInv', ~Fault("settle"), [Next]_vars
  PROVE  Q!QueueNext \/ UNCHANGED Q!queueVars
<1> DEFINE Goal == Q!QueueNext \/ UNCHANGED Q!queueVars
<1> USE DEF docVars, knVars, queueVars
<1>0. /\ BaseInv /\ TypeInv /\ IsTable(table) /\ DocExclusive' /\ batch \in [Workers -> Batch]
  BY DEF OrderInv, ExclusionInv, BaseInv, TypeInv, QueueOK, WorkersOK
<1>r. Next => RowsKeep
  BY <1>0, StepKeepsRows
<1>s. ASSUME RowsKeep, DOMAIN table' = DOMAIN table, refs' = refs, \A v \in Workers : SameJobs(v) PROVE Goal
  BY <1>0, <1>s, AllStay DEF Q!queueVars
<1>1. ASSUME NEW d \in Docs, DocStep(d) PROVE Goal
  BY <1>0, <1>1, DocStepQueue
<1>2. CASE DeleteKB \/ ExpireSlot
  <2>1. table' = table /\ refs' = refs /\ batch' = batch /\ RowsKeep
    BY <1>r, <1>2 DEF DeleteKB, ExpireSlot, Next
  <2> QED BY <1>s, <2>1, SameBatchJobs
<1>3. CASE CleanKB
  <2>1. table' = NoRows /\ refs' = refs /\ batch' = batch /\ RowsKeep
    BY <1>r, <1>3 DEF CleanKB, Next
  <2>2. DOMAIN table' \subseteq DOMAIN table /\ GoneRows = DOMAIN table
    BY <2>1, NoRowsTable DEF GoneRows
  <2> QED BY <1>0, <2>1, <2>2, SameBatchJobs, Withdraws
<1>4. ASSUME NEW w \in Workers, \/ \E k \in TaskKinds : StartStep(w, k)
                                \/ BatchStep(w) \/ Crash(w) \/ Restart(w)
      PROVE  Goal
  <2>1. Next
    BY <1>4 DEF Next
  <2> QED BY <1>4, <2>1, ClaimQueue, TrimQueue, OtherStepQueue DEF BatchStep
<1>5. ASSUME NEW w \in Workers, NEW d \in Docs, OpStep(w, d) PROVE Goal
  BY <1>5, OpStepQueue
<1>6. CASE Tick
  <2>1. table' = AgeClaims(table) /\ refs' = refs /\ RowsKeep
    BY <1>r, <1>6 DEF Tick, Next
  <2>2. DOMAIN table' = DOMAIN table
    BY <1>0, <2>1, AgeTable
  <2>3. ASSUME NEW v \in Workers PROVE SameJobs(v)
    <3>1. CASE batch'[v] = batch[v]
      BY <3>1, SameBatchJobs
    <3>2. CASE batch'[v] = [batch[v] EXCEPT !.age = @ + 1]
      <4>1. batch[v] \in Batch
        BY <1>0
      <4>2. batch'[v].work = batch[v].work /\ batch'[v].pc = batch[v].pc
        BY <3>2, <4>1 DEF Batch
      <4> QED BY <4>2 DEF SameJobs, SameJob, Working, St
    <3> QED BY <1>6, <3>1, <3>2 DEF Tick
  <2> QED BY <1>s, <2>1, <2>2, <2>3
<1>7. CASE UNCHANGED vars
  <2>1. UNCHANGED <<table, batch, refs>>
    BY <1>7 DEF vars
  <2>2. UNCHANGED <<Queue, Doing, Over, Strays>>
    BY <2>1 DEF Queue, Doing, Over, Strays, Stray, Owned, Working, St
  <2> QED BY <2>1, <2>2 DEF Q!queueVars
<1> QED BY <1>1, <1>2, <1>3, <1>4, <1>5, <1>6, <1>7 DEF Next

LEMMA InitQueue == Init => Q!QueueInit
<1> SUFFICES ASSUME Init PROVE Q!QueueInit
  OBVIOUS
<1>1. table = NoRows /\ refs = {} /\ \A w \in Workers : batch[w] = Idle
  BY DEF Init
<1>2. \A w \in Workers : Working(w) = {} /\ Owned(w) = {}
  BY <1>1 DEF Idle, NoOp, St, Working, Owned
<1>3. Queue = [i \in {} |-> 0]
  BY <1>1, NoRowsTable DEF Queue
<1>4. Doing = [d \in Docs |-> 0] /\ Over = {} /\ Strays = {}
  BY <1>2 DEF Doing, Over, Strays
<1> QED BY <1>1, <1>3, <1>4 DEF Q!QueueInit

\* The wiki queue implements DocumentQueue, for any workers, documents, rows, crashes and
\* failing calls but those of the settling statements: the operations on a document are
\* carried out one at a time and in order, and none leaves the queue undone.
THEOREM ImplementsQueue ==
  ASSUME "settle" \notin FaultKinds
  PROVE  Spec => KeepsOrder
<1>1. ~Fault("settle")
  BY DEF Fault
<1>2. OrderInv /\ [Next]_vars => OrderInv'
  BY <1>1, NextOrderInv
<1>3. Spec => []OrderInv
  BY <1>2, InitOrderInv, PTL DEF Spec
<1>4. OrderInv /\ OrderInv' /\ [Next]_vars => [Q!QueueNext]_Q!queueVars
  BY <1>1, NextQueue
<1>5. Init /\ []OrderInv /\ [][Next]_vars => Q!QueueSpec
  BY InitQueue, <1>4, PTL DEF Q!QueueSpec
<1> QED BY <1>3, <1>5, PTL DEF Spec, KeepsOrder
=============================================================================
