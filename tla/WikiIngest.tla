----------------------------- MODULE WikiIngest -----------------------------
(***************************************************************************)
(* The wiki ingest queue of one knowledge base: the documents that are     *)
(* parsed, reparsed, cancelled and deleted put ingest and retract          *)
(* operations into task_pending_ops, and the workers of the wiki pool      *)
(* claim them in batches, write the wiki pages and settle the rows         *)
(* (internal/application/service/wiki_ingest.go, wiki_ingest_batch.go).    *)
(*                                                                         *)
(* A worker runs one batch at a time; the batch is split into steps where  *)
(* the handler calls the database, so the steps of different workers and   *)
(* of the document operations interleave.  A worker may crash at any step  *)
(* and start again.                                                        *)
(***************************************************************************)
EXTENDS PendingOps, WikiTriggers

CONSTANTS
    Workers,      \* processes that run ProcessWikiIngest
    BatchDocs,    \* documents per batch (IngestBatchSize)
    MaxInflight,  \* batches at a time (IngestMaxInflight)
    MaxFail,      \* failures before the dead letter (wikiMaxFailRetries)
    MaxBatchAge,  \* units of time a batch may take (the task's timeout)
    FaultKinds,   \* calls that may fail: see Fault
    \* Bounds of the model:
    UserOps,      \* operations users carry out, besides uploads
    MaxRows,      \* rows ever inserted
    MaxCrashes,   \* crashes of workers
    MaxFaults     \* failing calls

\* A batch times out (60m) before its claims are stale (90m), and the
\* recheck runs after they are (90m5s).
ASSUME WikiIngestAssumption ==
    /\ BatchDocs \in Nat \ {0} /\ MaxInflight \in Nat /\ MaxFail \in Nat
    /\ MaxBatchAge \in Nat /\ MaxBatchAge < StaleAge /\ RecheckDelay >= StaleAge
    /\ UserOps \subseteq {"reparse", "cancel", "delete", "deleteKB"}
    /\ FaultKinds \subseteq {"trigger", "load", "scrub", "settle", "redis"}
    /\ MaxRows \in Nat /\ MaxCrashes \in Nat /\ MaxFaults \in Nat

VARIABLES
    table,    \* task_pending_ops
    nextId,   \* the id of the next row
    tasks,    \* the asynq tasks
    batch,    \* what each worker is doing
    zombies,  \* slots of the in-flight cap held by workers that died
    kb,       \* the knowledge base
    kn,       \* the state of each document
    posting,  \* documents whose post-processing has yet to queue the ingest
    refs,     \* documents that some wiki page names in its source_refs
    drained,  \* finalizeWikiSubtask calls counted in the current attempt
    closed,   \* documents skipped, dropped, given up or (a retract) lost, see
              \* below, since PostProcess or delete
    overtaken,\* documents whose retract went past an ingest that was about to
              \* write, since delete
    lost,     \* how the task that was to come for the rows got lost
    crashes, faults

queueVars == <<table, nextId>>
knVars    == <<kn, posting>>
docVars   == <<knVars, refs, drained, closed, overtaken>>
vars == <<table, nextId, tasks, batch, zombies, kb, kn, posting, refs, drained, closed,
          overtaken, lost, crashes, faults>>

-----------------------------------------------------------------------------
(* Documents. *)

KbStates == {"live", "deleted", "cleaned"}

\* "parsing": no wiki operation yet; "finalizing": the wiki slot of
\* pending_subtasks_count is seeded (once every slot is drained the document
\* is completed).  Cancel and delete take several steps.
DocStates == {"parsing", "finalizing", "cancelling", "cancelled", "deleting", "scrubbed", "deleted"}

\* isKnowledgeGone: a tombstone, no row, or status deleting or cancelled.
Gone(d) == kb # "live" \/ kn[d] \notin {"parsing", "finalizing"}

\* finalizeWikiSubtask: the decrement only counts while the document is
\* finalizing.
Drain(d) == drained' = [drained EXCEPT ![d] = IF kn[d] = "finalizing" THEN @ + 1 ELSE @]

-----------------------------------------------------------------------------
(* Batches. *)

(***************************************************************************)
(* A batch carries the ids of all rows it loaded (peekedIDs) and, for each *)
(* document, the row and kind of the operation to carry out and how far it *)
(* is:                                                                     *)
(*   todo      claimed, MAP not done        skipped   MAP: nothing to do   *)
(*   failed    MAP failed                   mapped    MAP gave updates     *)
(*   reducing  the page is being rewritten  ok        its pages are written*)
(*   dropped   its document was gone        unapplied some page was not    *)
(*   done      subtask drained                        written              *)
(*   exhausted too many failures            archived  in the dead letters  *)
(*   settled   its row is released or deleted                              *)
(* A document the batch did not claim is absent.                           *)
(***************************************************************************)
OpStates == {"absent", "todo", "skipped", "failed", "mapped", "reducing", "ok", "dropped", "unapplied",
             "done", "exhausted", "archived", "settled"}

Op == [id : Nat, op : OpKinds, st : OpStates]

NoOp == [id |-> 0, op |-> "ingest", st |-> "absent"]

Idle == [pc |-> "idle", kind |-> "plain", slot |-> FALSE, age |-> 0, err |-> FALSE,
         ids |-> {}, work |-> [d \in Docs |-> NoOp]]

Batch == [pc : {"idle", "down", "claim", "work", "settle"}, kind : TaskKinds, slot : BOOLEAN,
          age : 0..MaxBatchAge, err : BOOLEAN, ids : SUBSET Nat,
          work : [Docs -> Op]]

Running(w) == batch[w].pc \notin {"idle", "down"}

St(w, d) == batch[w].work[d].st

AllIn(w, S) == \A d \in Docs : St(w, d) \in S \cup {"absent"}

SetSt(w, d, s) == batch' = [batch EXCEPT ![w].work[d].st = s]

\* ... and the batch will return an error.
FailSt(w, d, s) == batch' = [batch EXCEPT ![w].err = TRUE, ![w].work[d].st = s]

\* The rows a batch is still responsible for: those it claimed, that were
\* not deleted, and that it has not released for a retry.
Held(w) ==
    {i \in batch[w].ids \cap DOMAIN table :
        St(w, table[i].doc) \notin {"absent", "settled"}}

\* Documents a batch is working on.
Working(w) ==
    {d \in Docs :
        IF batch[w].pc = "work" THEN St(w, d) \notin {"absent", "settled"}
        ELSE St(w, d) \in {"failed", "unapplied", "exhausted", "archived"}}

\* ... and whose row was not scrubbed under it.
Owned(w) == {d \in Working(w) : batch[w].work[d].id \in DOMAIN table}

\* A batch is past its last look whether the document is gone.
Writing(w, d) == St(w, d) = "reducing" /\ batch[w].work[d].op = "ingest"

-----------------------------------------------------------------------------
(* A call fails: kind "trigger" is asynq's Enqueue, "load" ClaimBatch,     *)
(* "scrub" DeleteByDedupKey, "settle" a statement that settles claimed     *)
(* rows, "redis" the slot script.                                          *)

Fault(kind) == kind \in FaultKinds /\ faults < MaxFaults /\ faults' = faults + 1

\* Enqueue a plain trigger, which may fail: every caller only logs it.
PlainTrigger(t) ==
    \/ tasks' = AddPlain(t) /\ UNCHANGED <<faults, lost>>
    \/ Fault("trigger") /\ tasks' = t /\ lost' = lost \cup {"trigger"}

-----------------------------------------------------------------------------
Init ==
    /\ table = NoRows
    /\ nextId = 1
    /\ tasks = NoTasks
    /\ batch = [w \in Workers |-> Idle]
    /\ zombies = 0
    /\ kb = "live"
    /\ kn = [d \in Docs |-> "parsing"]
    /\ posting = {}
    /\ refs = {}
    /\ drained = [d \in Docs |-> 0]
    /\ closed = {}
    /\ overtaken = {}
    /\ lost = {}
    /\ crashes = 0
    /\ faults = 0

-----------------------------------------------------------------------------
(* Document operations. *)

\* Mutant: the row is inserted whether or not the knowledge base exists.
EnqueueUnguarded(d, o) ==
    /\ nextId <= MaxRows
    /\ table' = AddRow(table, nextId, d, o)
    /\ nextId' = nextId + 1
    /\ PlainTrigger(tasks)

\* enqueueWikiPendingOp: the row is only inserted while the knowledge base
\* exists.  Without it no trigger is enqueued.
Enqueue(d, o) ==
    /\ nextId <= MaxRows
    /\ IF kb = "live"
       THEN /\ table' = AddRow(table, nextId, d, o)
            /\ nextId' = nextId + 1
            /\ PlainTrigger(tasks)
       ELSE UNCHANGED <<table, nextId, tasks, lost, faults>>

\* KnowledgePostProcess: SetFinalizing seeds the wiki slot ...
\* Bound of the model: one post-processing of a document at a time.
PostProcess(d) ==
    /\ kn[d] = "parsing" /\ d \notin posting
    /\ nextId <= MaxRows
    /\ kn' = [kn EXCEPT ![d] = "finalizing"]
    /\ posting' = posting \cup {d}
    /\ drained' = [drained EXCEPT ![d] = 0]
    /\ closed' = closed \ {d}
    /\ UNCHANGED <<queueVars, tasks, batch, zombies, kb, refs, overtaken, lost, crashes, faults>>

\* ... and, after the other subtasks, EnqueueWikiIngest, whatever became of
\* the document meanwhile.  Behind the retract of a deleted document the
\* ingest is the operation that decodePendingRows keeps: the retract is lost.
PostEnqueue(d) ==
    /\ d \in posting
    /\ posting' = posting \ {d}
    /\ Enqueue(d, "ingest")
    /\ closed' = IF kn[d] = "deleted" THEN closed \cup {d} ELSE closed
    /\ UNCHANGED <<batch, zombies, kb, kn, refs, drained, overtaken, crashes>>

\* scrubWikiPendingIngest only logs a failing delete.
ScrubPending(d) ==
    \/ table' = Scrub(table, d) /\ UNCHANGED faults
    \/ Fault("scrub") /\ UNCHANGED table

\* ReparseKnowledge: prepareWikiForReparse scrubs the queued ingest rows,
\* then the status and the counter are reset.
Reparse(d) ==
    /\ "reparse" \in UserOps /\ kb = "live"
    /\ kn[d] \in {"finalizing", "cancelled"}
    /\ nextId <= MaxRows
    /\ ScrubPending(d)
    /\ kn' = [kn EXCEPT ![d] = "parsing"]
    /\ drained' = [drained EXCEPT ![d] = 0]
    /\ UNCHANGED <<nextId, tasks, batch, zombies, kb, posting, refs, closed, overtaken, lost, crashes>>

\* CancelKnowledgeParse: the status first, then the scrub.
CancelMark(d) ==
    /\ "cancel" \in UserOps /\ kb = "live"
    /\ kn[d] \in {"parsing", "finalizing"}
    /\ kn' = [kn EXCEPT ![d] = "cancelling"]
    /\ drained' = [drained EXCEPT ![d] = 0]
    /\ UNCHANGED <<queueVars, tasks, batch, zombies, kb, posting, refs, closed, overtaken, lost, crashes, faults>>

\* DeleteKnowledge: the status and the tombstone first, then the scrub ...
\* A delete that failed after the wiki cleanup is repeated.
DeleteMark(d) ==
    /\ "delete" \in UserOps /\ kb = "live"
    /\ kn[d] \in {"parsing", "finalizing", "cancelled", "deleted"}
    /\ nextId <= MaxRows
    /\ kn' = [kn EXCEPT ![d] = "deleting"]
    /\ UNCHANGED <<queueVars, tasks, batch, zombies, kb, posting, refs, drained, closed, overtaken, lost, crashes, faults>>

ScrubStep(d) ==
    /\ kn[d] \in {"cancelling", "deleting"}
    /\ ScrubPending(d)
    /\ kn' = [kn EXCEPT ![d] = IF @ = "deleting" THEN "scrubbed" ELSE "cancelled"]
    /\ UNCHANGED <<nextId, tasks, batch, zombies, kb, posting, refs, drained, closed, overtaken, lost, crashes>>

\* ... then the pages that exist are reconciled and the retract enqueued.
DeleteRetract(d) ==
    /\ kn[d] = "scrubbed"
    /\ kn' = [kn EXCEPT ![d] = "deleted"]
    /\ refs' = refs \ {d}
    /\ closed' = closed \ {d}
    /\ overtaken' = overtaken \ {d}
    /\ Enqueue(d, "retract")
    /\ UNCHANGED <<batch, zombies, kb, posting, drained, crashes>>

\* DeleteKnowledgeBase soft-deletes the row; cleanupTasksForKnowledgeBase
\* then deletes every pending row of its scope.
DeleteKB ==
    /\ "deleteKB" \in UserOps /\ kb = "live"
    /\ kb' = "deleted"
    /\ UNCHANGED <<queueVars, tasks, batch, zombies, docVars, lost, crashes, faults>>

CleanKB ==
    /\ kb = "deleted"
    /\ kb' = "cleaned"
    /\ table' = NoRows
    /\ UNCHANGED <<nextId, tasks, batch, zombies, docVars, lost, crashes, faults>>

-----------------------------------------------------------------------------
(* ProcessWikiIngest: from the task to the claim. *)

SlotsTaken == Cardinality({w \in Workers : batch[w].slot}) + zombies

\* The knowledge base is gone: its rows are deleted and the task is done.
StartDeleted(w, k) ==
    /\ batch[w].pc = "idle" /\ Ready(tasks, k)
    /\ kb # "live"
    /\ table' = NoRows
    /\ tasks' = Ack(Take(tasks, k), k)
    /\ UNCHANGED <<nextId, batch, zombies, kb, docVars, lost, crashes, faults>>

\* reserveInflightSlot: a free slot is taken; without Redis the batch runs
\* without one.
Start(w, k) ==
    /\ batch[w].pc = "idle" /\ Ready(tasks, k)
    /\ kb = "live"
    /\ tasks' = Take(tasks, k)
    /\ \/ /\ SlotsTaken < MaxInflight
          /\ batch' = [batch EXCEPT ![w] = [Idle EXCEPT !.pc = "claim", !.kind = k, !.slot = TRUE]]
          /\ UNCHANGED faults
       \/ /\ Fault("redis")
          /\ batch' = [batch EXCEPT ![w] = [Idle EXCEPT !.pc = "claim", !.kind = k]]
    /\ UNCHANGED <<queueVars, zombies, kb, docVars, lost, crashes>>

\* No slot: scheduleCappedRetry, while the task is still running, and done.
\* The retry itself cannot schedule another, which matters when all slots are
\* those of dead workers.
StartCapped(w, k) ==
    /\ batch[w].pc = "idle" /\ Ready(tasks, k)
    /\ kb = "live"
    /\ SlotsTaken >= MaxInflight
    /\ \/ /\ tasks' = Ack(ArmCapped(Take(tasks, k)), k)
          /\ lost' = IF k = "capped" /\ \A v \in Workers : ~batch[v].slot
                     THEN lost \cup {"capped"} ELSE lost
          /\ UNCHANGED faults
       \/ /\ Fault("trigger")
          /\ tasks' = Ack(Take(tasks, k), k) /\ lost' = lost \cup {"trigger"}
    /\ UNCHANGED <<queueVars, batch, zombies, kb, docVars, crashes>>

\* claimPendingList returned rows: ClaimBatch stamped them and
\* decodePendingRows kept the last operation of each document.
Claim(w) ==
    LET I == ClaimIds(table, BatchDocs)
        last(d) == LastOf(table, I, d) IN
    /\ batch[w].pc = "claim"
    /\ I # {}
    /\ table' = Stamp(table, I)
    /\ batch' = [batch EXCEPT ![w].pc = "work", ![w].ids = I,
                   ![w].work = [d \in Docs |->
                       IF d \in {table[i].doc : i \in I}
                       THEN [id |-> last(d), op |-> table[last(d)].op, st |-> "todo"]
                       ELSE NoOp]]
    /\ UNCHANGED <<nextId, tasks, zombies, kb, docVars, lost, crashes, faults>>

\* Nothing to claim: scheduleStaleClaimRecheck when rows exist, while the
\* task is still running, and done.  The recheck itself cannot schedule
\* another, which matters when the fresh claims are those of dead workers.
ClaimNothing(w) ==
    /\ batch[w].pc = "claim"
    /\ ClaimIds(table, BatchDocs) = {}
    /\ LET k == batch[w].kind IN
       \/ /\ tasks' = Ack(IF table # NoRows THEN ArmRecheck(tasks) ELSE tasks, k)
          /\ lost' = IF k = "recheck" /\ table # NoRows /\ \A v \in Workers \ {w} : ~Running(v)
                     THEN lost \cup {"recheck"} ELSE lost
          /\ UNCHANGED faults
       \/ /\ table # NoRows /\ Fault("trigger")
          /\ tasks' = Ack(tasks, k) /\ lost' = lost \cup {"trigger"}
    /\ batch' = [batch EXCEPT ![w] = Idle]
    /\ UNCHANGED <<queueVars, zombies, kb, docVars, crashes>>

\* ClaimBatch fails: the handler returns the error.
ClaimFails(w) ==
    /\ batch[w].pc = "claim"
    /\ Fault("load")
    /\ tasks' = Retry(tasks, batch[w].kind)
    /\ batch' = [batch EXCEPT ![w] = Idle]
    /\ UNCHANGED <<queueVars, zombies, kb, docVars, lost, crashes>>

-----------------------------------------------------------------------------
(* MAP, in parallel for the documents of the batch. *)

\* mapOneDocument returned nil, nil: the document is gone, or has no chunks
\* or no text.  The subtask is drained at once.
MapSkip(w, d) ==
    /\ batch[w].pc = "work"
    /\ St(w, d) = "todo" /\ batch[w].work[d].op = "ingest"
    /\ SetSt(w, d, "skipped")
    /\ Drain(d)
    /\ closed' = closed \cup (IF Gone(d) THEN {} ELSE {d})
    /\ UNCHANGED <<queueVars, tasks, zombies, kb, knVars, refs, overtaken, lost, crashes, faults>>

\* mapOneDocument failed, or returned the updates of its pages.
MapIngest(w, d) ==
    /\ batch[w].pc = "work"
    /\ St(w, d) = "todo" /\ batch[w].work[d].op = "ingest"
    /\ ~Gone(d)
    /\ \E s \in {"failed", "mapped"} : SetSt(w, d, s)
    /\ UNCHANGED <<queueVars, tasks, zombies, kb, docVars, lost, crashes, faults>>

\* A retract has updates for the pages that name the document now, and for
\* the slugs the delete found; with neither there is nothing to reduce.  It
\* does not see the pages that another batch is about to write: the scrub has
\* deleted the claim that would have made the retract wait for that batch.
MapRetract(w, d) ==
    /\ batch[w].pc = "work"
    /\ St(w, d) = "todo" /\ batch[w].work[d].op = "retract"
    /\ \/ SetSt(w, d, "mapped")
       \/ d \notin refs /\ SetSt(w, d, "done")
    /\ overtaken' = IF \E v \in Workers : Writing(v, d) THEN overtaken \cup {d} ELSE overtaken
    /\ UNCHANGED <<queueVars, tasks, zombies, kb, knVars, refs, drained, closed, lost, crashes, faults>>

-----------------------------------------------------------------------------
(* REDUCE, in parallel for the pages of the batch, once MAP is over. *)

\* Mutant: the updates of a document that is gone are not dropped.
ReduceReadAnyway(w, d) ==
    /\ batch[w].pc = "work"
    /\ AllIn(w, OpStates \ {"todo"})
    /\ St(w, d) = "mapped"
    /\ SetSt(w, d, "reducing")
    /\ UNCHANGED <<queueVars, tasks, zombies, kb, docVars, lost, crashes, faults>>

\* reduceSlugUpdates reads: filterLiveUpdates drops the updates of a
\* document that is gone, never those of a retract.
ReduceRead(w, d) ==
    /\ batch[w].pc = "work"
    /\ AllIn(w, OpStates \ {"todo"})
    /\ St(w, d) = "mapped"
    /\ SetSt(w, d, IF batch[w].work[d].op = "ingest" /\ Gone(d) THEN "dropped" ELSE "reducing")
    /\ UNCHANGED <<queueVars, tasks, zombies, kb, docVars, lost, crashes, faults>>

\* ... and, after the LLM call, writes the pages.  The summary page of an
\* ingest is written as MAP made it; an entity or concept page whose rewrite
\* fails is only left out.  A retract whose rewrite fails leaves the page as
\* it is, and counts as done.
ReduceWrite(w, d) ==
    /\ batch[w].pc = "work"
    /\ St(w, d) = "reducing"
    /\ IF batch[w].work[d].op = "ingest"
       THEN refs' = refs \cup {d} /\ SetSt(w, d, "ok") /\ UNCHANGED closed
       ELSE /\ \/ refs' = refs \ {d} /\ UNCHANGED closed
               \/ UNCHANGED refs /\ closed' = closed \cup {d}
            /\ SetSt(w, d, "done")
    /\ UNCHANGED <<queueVars, tasks, zombies, kb, knVars, drained, overtaken, lost, crashes, faults>>

\* Some page was not written: its lock was contended, or the write failed.
\* Other pages of the document may have been.
ReduceUnapplied(w, d) ==
    /\ batch[w].pc = "work"
    /\ St(w, d) = "reducing"
    /\ refs' \in IF batch[w].work[d].op = "ingest" THEN {refs, refs \cup {d}} ELSE {refs}
    /\ SetSt(w, d, "unapplied")
    /\ UNCHANGED <<queueVars, tasks, zombies, kb, knVars, drained, closed, overtaken, lost, crashes, faults>>

-----------------------------------------------------------------------------
(* The tail: drain, trim, requeue, settle. *)

ReduceOver(w) == AllIn(w, OpStates \ {"todo", "mapped", "reducing"})

\* Mutant: a document is drained although some page was not written.
DrainUnapplied(w, d) ==
    /\ batch[w].pc = "work"
    /\ ReduceOver(w)
    /\ St(w, d) \in {"ok", "dropped", "unapplied"}
    /\ SetSt(w, d, "done")
    /\ Drain(d)
    /\ closed' = closed \cup (IF St(w, d) = "dropped" /\ ~Gone(d) THEN {d} ELSE {})
    /\ UNCHANGED <<queueVars, tasks, zombies, kb, knVars, refs, overtaken, lost, crashes, faults>>

\* finalizeWikiSubtask for a document whose pages are all written, or were
\* dropped: cancelled then, it may be parsed again by now.
DrainDoc(w, d) ==
    /\ batch[w].pc = "work"
    /\ ReduceOver(w)
    /\ St(w, d) \in {"ok", "dropped"}
    /\ SetSt(w, d, "done")
    /\ Drain(d)
    /\ closed' = closed \cup (IF St(w, d) = "dropped" /\ ~Gone(d) THEN {d} ELSE {})
    /\ UNCHANGED <<queueVars, tasks, zombies, kb, knVars, refs, overtaken, lost, crashes, faults>>

FailedIds(w) ==
    {batch[w].work[d].id : d \in {e \in Docs : St(w, e) \in {"failed", "unapplied"}}}

\* Mutant: the rows of failed operations are deleted as well.
TrimAll(w) == batch[w].ids

\* Mutant: the rows of a batch stay in the queue.
TrimNothing(w) == {}

TrimIds(w) == batch[w].ids \ FailedIds(w)

\* trimPendingList: delete every row of the batch but the failed ones.
Trim(w) ==
    /\ batch[w].pc = "work"
    /\ AllIn(w, {"skipped", "done", "failed", "unapplied"})
    /\ \/ /\ table' = DeleteRows(table, TrimIds(w))
          /\ batch' = [batch EXCEPT ![w].pc = "settle"]
          /\ UNCHANGED faults
       \/ /\ TrimIds(w) # {} /\ Fault("settle")
          /\ batch' = [batch EXCEPT ![w].pc = "settle", ![w].err = TRUE]
          /\ UNCHANGED table
    /\ UNCHANGED <<nextId, tasks, zombies, kb, docVars, lost, crashes>>

\* requeueFailedOps, for one failed operation: IncrFailCount and, while
\* retries are left, ReleaseByIDs.  Either may fail.
Requeue(w, d) ==
    /\ batch[w].pc = "settle"
    /\ St(w, d) \in {"failed", "unapplied"}
    /\ LET id == batch[w].work[d].id IN
       \/ /\ FailCount(table, id) <= MaxFail
          /\ table' = ReleaseRows(IncrFail(table, id), {id})
          /\ SetSt(w, d, "settled")
          /\ UNCHANGED faults
       \/ /\ FailCount(table, id) > MaxFail
          /\ table' = IncrFail(table, id)
          /\ SetSt(w, d, "exhausted")
          /\ UNCHANGED faults
       \/ /\ Fault("settle")
          /\ \/ table' = table
             \/ FailCount(table, id) <= MaxFail /\ table' = IncrFail(table, id)
          /\ FailSt(w, d, "settled")
    /\ UNCHANGED <<nextId, tasks, zombies, kb, docVars, lost, crashes>>

\* ... without retries left: drain, insert the dead letter, which may fail ...
DeadLetter(w, d) ==
    /\ batch[w].pc = "settle"
    /\ St(w, d) = "exhausted"
    /\ IF batch[w].work[d].op = "ingest" THEN Drain(d) ELSE UNCHANGED drained
    /\ closed' = closed \cup {d}
    /\ \/ SetSt(w, d, "archived") /\ UNCHANGED faults
       \/ /\ Fault("settle")
          /\ FailSt(w, d, "archived")
    /\ UNCHANGED <<queueVars, tasks, zombies, kb, knVars, refs, overtaken, lost, crashes>>

\* ... and delete the row, which may fail.
DropDead(w, d) ==
    /\ batch[w].pc = "settle"
    /\ St(w, d) = "archived"
    /\ \/ /\ table' = DeleteRows(table, {batch[w].work[d].id})
          /\ SetSt(w, d, "settled")
          /\ UNCHANGED faults
       \/ /\ Fault("settle")
          /\ FailSt(w, d, "settled")
          /\ UNCHANGED table
    /\ UNCHANGED <<nextId, tasks, zombies, kb, docVars, lost, crashes>>

Settled(w) == batch[w].pc = "settle" /\ AllIn(w, {"skipped", "done", "settled"})

\* Mutant: no follow-up.
FinishSilently(w) ==
    /\ Settled(w) /\ ~batch[w].err
    /\ batch' = [batch EXCEPT ![w] = Idle]
    /\ tasks' = Ack(tasks, batch[w].kind)
    /\ UNCHANGED <<queueVars, zombies, kb, docVars, lost, crashes, faults>>

\* scheduleFollowUp when rows remain; the slot is released on return, well
\* before the follow-up's delay is over.
Finish(w) ==
    /\ Settled(w) /\ ~batch[w].err
    /\ batch' = [batch EXCEPT ![w] = Idle]
    /\ LET t == Ack(tasks, batch[w].kind) IN
       IF table # NoRows THEN PlainTrigger(t) ELSE tasks' = t /\ UNCHANGED <<lost, faults>>
    /\ UNCHANGED <<queueVars, zombies, kb, docVars, crashes>>

\* A settling call failed: the deferred release clears the claims of every
\* row the batch had loaded, and the handler returns the error.
Abort(w) ==
    /\ Settled(w) /\ batch[w].err
    /\ table' = ReleaseRows(table, batch[w].ids)
    /\ tasks' = Retry(tasks, batch[w].kind)
    /\ batch' = [batch EXCEPT ![w] = Idle]
    /\ UNCHANGED <<nextId, zombies, kb, docVars, lost, crashes, faults>>

-----------------------------------------------------------------------------
(* Crashes and time. *)

\* The process dies: nothing deferred runs, its slot stays taken until its
\* lease ends, its claims stay, and asynq recovers the task.
Crash(w) ==
    /\ Running(w) /\ crashes < MaxCrashes
    /\ crashes' = crashes + 1
    /\ batch' = [batch EXCEPT ![w] = [Idle EXCEPT !.pc = "down"]]
    /\ zombies' = IF batch[w].slot THEN zombies + 1 ELSE zombies
    /\ tasks' = Retry(tasks, batch[w].kind)
    /\ UNCHANGED <<queueVars, kb, docVars, lost, faults>>

\* recoverPendingWikiTasks at the next start: drop the rows of a deleted
\* knowledge base, otherwise enqueue a trigger when rows exist.
Restart(w) ==
    /\ batch[w].pc = "down"
    /\ batch' = [batch EXCEPT ![w] = Idle]
    /\ table' = IF kb = "live" THEN table ELSE NoRows
    /\ IF table' # NoRows THEN PlainTrigger(tasks) ELSE UNCHANGED <<tasks, lost, faults>>
    /\ UNCHANGED <<nextId, zombies, kb, docVars, crashes>>

\* The lease of a dead worker's slot ends (wikiInflightTTL).
ExpireSlot ==
    /\ zombies > 0
    /\ zombies' = zombies - 1
    /\ UNCHANGED <<queueVars, tasks, batch, kb, docVars, lost, crashes, faults>>

\* A long unit of time passes: no batch outlives its timeout, and every
\* lease of a dead worker ends.
Tick ==
    /\ \A w \in Workers : Running(w) => batch[w].age < MaxBatchAge
    /\ table' = AgeClaims(table)
    /\ tasks' = Wait(tasks)
    /\ batch' = [w \in Workers |-> IF Running(w) THEN [batch[w] EXCEPT !.age = @ + 1] ELSE batch[w]]
    /\ zombies' = 0
    /\ UNCHANGED <<nextId, kb, docVars, lost, crashes, faults>>

-----------------------------------------------------------------------------
DocStep(d) ==
    \/ PostProcess(d) \/ PostEnqueue(d) \/ Reparse(d) \/ CancelMark(d)
    \/ DeleteMark(d) \/ ScrubStep(d) \/ DeleteRetract(d)

OpStep(w, d) ==
    \/ MapSkip(w, d) \/ MapIngest(w, d) \/ MapRetract(w, d)
    \/ ReduceRead(w, d) \/ ReduceWrite(w, d) \/ ReduceUnapplied(w, d)
    \/ DrainDoc(w, d) \/ Requeue(w, d) \/ DeadLetter(w, d) \/ DropDead(w, d)

StartStep(w, k) == StartDeleted(w, k) \/ Start(w, k) \/ StartCapped(w, k)

BatchStep(w) ==
    \/ Claim(w) \/ ClaimNothing(w) \/ ClaimFails(w)
    \/ Trim(w) \/ Finish(w) \/ Abort(w)

Next ==
    \/ \E d \in Docs : DocStep(d)
    \/ DeleteKB \/ CleanKB
    \/ \E w \in Workers, k \in TaskKinds : StartStep(w, k)
    \/ \E w \in Workers : BatchStep(w) \/ Crash(w) \/ Restart(w)
    \/ \E w \in Workers, d \in Docs : OpStep(w, d)
    \/ ExpireSlot \/ Tick

Spec == Init /\ [][Next]_vars

(***************************************************************************)
(* Fairness: a worker that runs goes on, asynq hands out the tasks that    *)
(* are due, a dead worker is restarted, leases end and time passes.  What  *)
(* users do, crashes and failing calls are never forced.                   *)
(***************************************************************************)
Fairness ==
    /\ \A w \in Workers :
        /\ WF_vars(\E k \in TaskKinds : StartStep(w, k))
        /\ WF_vars(Claim(w) \/ ClaimNothing(w) \/ Trim(w) \/ Finish(w) \/ Abort(w))
        /\ \A d \in Docs : WF_vars(OpStep(w, d))
        /\ WF_vars(Restart(w))
    /\ WF_vars(ExpireSlot) /\ WF_vars(Tick)

FairSpec == Spec /\ Fairness

-----------------------------------------------------------------------------
(* Properties. *)

\* The state has the shape described above.
TypeOK ==
    /\ IsTable(table) /\ nextId \in Nat
    /\ tasks \in TaskPool
    /\ batch \in [Workers -> Batch]
    /\ zombies \in Nat /\ kb \in KbStates
    /\ kn \in [Docs -> DocStates] /\ posting \subseteq Docs /\ refs \subseteq Docs
    /\ drained \in [Docs -> Nat] /\ closed \subseteq Docs /\ overtaken \subseteq Docs
    /\ lost \subseteq {"trigger", "capped", "recheck"}
    /\ crashes \in Nat /\ faults \in Nat

\* No row is in the hands of two batches: concurrent batches claim disjoint
\* rows (claimPendingList), whatever is scrubbed, retried, dead-lettered or
\* left behind by a crash meanwhile.
RowExclusive == \A v, w \in Workers : v # w => Held(v) \cap Held(w) = {}

\* No document is worked on by two batches whose rows for it are both in the
\* queue: a later operation on a document waits for the batch that has an
\* earlier one (ClaimBatch).
DocExclusive == \A v, w \in Workers : v # w => Owned(v) \cap Owned(w) = {}

\* A document whose wiki slot is seeded but not drained has a row in the
\* queue, once post-processing has queued it, through retries, crashes and
\* failing calls: otherwise nothing would ever drain the slot and the
\* document would stay in finalizing.
DurableUntilDrained ==
    kb = "live" =>
        \A d \in Docs \ posting : kn[d] = "finalizing" /\ drained[d] = 0
            => \E i \in RowsOf(table, d) : table[i].op = "ingest"

\* A document whose wiki slot was drained has its pages written, unless it
\* was skipped, given up, or dropped by a batch that found it cancelled and
\* drained it when it was being parsed again: a page whose lock was contended,
\* or whose write failed, holds the slot back (the docResults loop of
\* ProcessWikiIngest).
DrainedMeansWritten ==
    kb = "live" => \A d \in Docs : kn[d] = "finalizing" /\ drained[d] > 0 => d \in refs \cup closed

\* Unless it is parsed again, or a settling statement fails, the wiki slot of a
\* document is drained once, by whichever of the skip, success and dead-letter
\* paths ends its operation, and once more for each crash at most, which may
\* come between the drain and the delete of the row (repository/knowledge.go,
\* FinalizeSubtask: a second drain would take the slot of another subtask).
DrainedOnce ==
    "reparse" \notin UserOps /\ ("settle" \notin FaultKinds \/ faults = 0)
        => \A d \in Docs : drained[d] <= 1 + crashes

\* While rows are queued, some task will wake a worker for them, or a worker
\* that died will when it starts again, unless no task could be enqueued, or
\* the capped retry, or the recheck, found dead workers in its way, and could
\* not enqueue itself.
Attended == SomeTask(tasks) \/ \E w \in Workers : batch[w].pc # "idle"

SomeoneComes == table # NoRows /\ kb = "live" => Attended \/ lost # {}

\* Every queued row leaves the queue: it is carried out, given up or scrubbed.
EveryRowLeaves ==
    \A i \in 1..MaxRows : i \in DOMAIN table ~> i \notin DOMAIN table \/ lost # {}

\* What scheduleCappedRetry says of the batches it turns away: "the turned-away
\* rows are guaranteed to drain once a slot frees" (wiki_ingest.go:932-933).
TurnedAwayDrain ==
    table # NoRows /\ kb = "live" /\ SlotsTaken < MaxInflight /\ lost \subseteq {"capped"} => Attended

\* Once a document is deleted and its retract is through, no page names it any
\* more, unless the retract was given up (after too many failures, or because
\* the LLM did not rewrite a page), lost to an ingest that post-processing
\* queued behind it, or carried out while an ingest was about to write.
NoGhost ==
    \A d \in Docs :
        kn[d] = "deleted" /\ kb = "live" /\ d \notin closed \cup overtaken /\ RowsOf(table, d) = {}
            => d \notin refs

\* What cleanupWikiOnKnowledgeDelete says of its tombstone and scrub: "new pages
\* cannot be born with a stale source_ref" (knowledge_delete.go:214-216), also
\* by "ingest tasks mid-LLM call", at least not to stay.
NoStaleRef ==
    \A d \in Docs :
        /\ kn[d] = "deleted" /\ kb = "live" /\ d \notin closed /\ RowsOf(table, d) = {}
        /\ \A w \in Workers : d \notin Working(w)
        => d \notin refs

\* After the scope of a deleted knowledge base was cleaned, no step puts a
\* row back: neither a late enqueue nor a batch that was under way.
DeletedStaysEmpty == [][kb = "cleaned" => table' = NoRows]_vars

(***************************************************************************)
(* DocumentQueue, as a knowledge base keeps it: the table without its      *)
(* claims, and for each document the operation that the batch which works  *)
(* on it carries out, while the row of the operation is in the table.      *)
(***************************************************************************)
Queue == [i \in DOMAIN table |-> [doc |-> table[i].doc, op |-> table[i].op]]

Doing ==
    [d \in Docs |-> IF \E w \in Workers : d \in Owned(w)
                    THEN batch[CHOOSE w \in Workers : d \in Owned(w)].work[d].id ELSE 0]

OverStates == {"skipped", "ok", "dropped", "done", "archived"}

Over == {d \in Docs : \E w \in Workers : d \in Owned(w) /\ St(w, d) \in OverStates}

\* Operations of batches whose row was scrubbed, or deleted with the knowledge base.
Stray(w, d) == [id |-> batch[w].work[d].id, doc |-> d, op |-> batch[w].work[d].op]

Strays == UNION {{Stray(w, d) : d \in Working(w) \ Owned(w)} : w \in Workers}

Q == INSTANCE DocumentQueue
     WITH Ids <- 1..MaxRows, queue <- Queue, doing <- Doing, over <- Over, strays <- Strays,
          pages <- refs

\* The operations on a document are carried out one at a time and in order ("this
\* serializes same-document ops across concurrent batches", ClaimBatch), and a row
\* leaves the queue only after its operation was carried out or given up, or a newer one
\* of the document was taken up, whatever workers, crashes, requeues and rechecks do.
\* Not so when a settling statement fails.
KeepsOrder == Q!QueueSpec
=============================================================================
