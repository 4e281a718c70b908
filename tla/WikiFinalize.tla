---------------------------- MODULE WikiFinalize ----------------------------
(***************************************************************************)
(* The finalize lane of one knowledge base: what the batches of the wiki   *)
(* leave to a later pass over the whole wiki, its rows, the tasks that     *)
(* come for them, the lock of a pass, and the folders it prunes.           *)
(*                                                                         *)
(* A batch is seen from here only: it files the page of a document in a    *)
(* folder, or takes it out, then queues rows and schedules a pass, and     *)
(* settles its own row last (WikiIngest has the rest of it).  A deletion   *)
(* or a reparse takes that row away while the batch works, and the next    *)
(* operation on the document may overtake it.  One task has a fixed        *)
(* TaskID, which collapses what is scheduled while it waits; those that    *)
(* retry a deferred prune have none.                                       *)
(***************************************************************************)
EXTENDS Integers, FiniteSets

CONSTANTS
    Docs,
    Filed,          \* the documents that have a page at first
    Jobs, Of,       \* operations on the documents, each of one document
    Retries,        \* as many tasks without a TaskID may exist at once
    Peeked,         \* rows that PeekBatch returns at most
    MaxRetry, MaxFail,
    \* Bounds of the model:
    MaxOps,         \* documents that are added or deleted
    MaxTroubles     \* failed calls, deaths of workers, lapsed locks, changes of the
                    \* knowledge base

ASSUME WikiFinalizeAssumption ==
    /\ IsFiniteSet(Docs) /\ IsFiniteSet(Retries) /\ "stable" \notin Retries
    /\ Filed \subseteq Docs /\ IsFiniteSet(Jobs) /\ Of \in [Jobs -> Docs]
    /\ Peeked \in Nat \ {0} /\ MaxRetry \in Nat /\ MaxFail \in Nat
    /\ MaxOps \in Nat /\ MaxTroubles \in Nat

VARIABLES
    kb,         \* the knowledge base: a wiki, no longer a wiki, or deleted
    folders,    \* ids of the folders that exist
    created,    \* how many folders were created
    page,       \* the folder of the page of each document; 0 is no page
    op,         \* the operations: the row in the ingest lane, if it is still there, and
                \* the batch that carries it out
    lane,       \* rows of the finalize lane, with the folders one of them is to prune
    rows,       \* how many rows were queued
    task,       \* the tasks of type wiki:finalize, and the passes they make
    lock,       \* wiki:finalize:active
    booting,    \* whether an instance comes up again
    ops, troubles,
    \* History:
    retracted,  \* folders that a deletion has taken a page out of, whose retract was queued
    raced,      \* a document was queued between the look at the ingest lane and the prune
    scrubbed,   \* documents whose row was deleted under their batch
    lapsed,     \* the lock expired under a pass
    blame       \* why rows may be left without a task

wiki == <<folders, created, page, retracted>>
queue == <<lane, rows>>
tasks == <<task, lock>>
history == <<raced, scrubbed, lapsed, blame>>
vars == <<kb, wiki, op, queue, tasks, booting, ops, troubles, history>>

-----------------------------------------------------------------------------

Tasks == {"stable"} \cup Retries

Passing == {"peek", "discard", "work", "prune", "trim", "more"}

NoTask == [pc |-> "none", tries |-> 0, rows |-> {}, deferred |-> FALSE]

Waiting == [NoTask EXCEPT !.pc = "waiting"]

NoOp == [kind |-> "none", pc |-> "idle", row |-> FALSE, folders |-> {}, owes |-> FALSE,
         failed |-> FALSE, fails |-> 0]

TypeOK ==
    /\ kb \in {"wiki", "plain", "deleted"}
    /\ folders \subseteq 1..created /\ created \in Nat
    /\ page \in [Docs -> 0..created]
    /\ op \in [Jobs -> [kind : {"none", "ingest", "retract"},
                        pc : {"idle", "queued", "planned", "create", "rows", "schedule", "settle"},
                        row : BOOLEAN, folders : SUBSET (1..created), owes : BOOLEAN,
                        failed : BOOLEAN, fails : 0..MaxFail]]
    /\ rows \in Nat
    /\ lane \subseteq [id : 1..rows, folders : SUBSET (1..created)]
    /\ task \in [Tasks -> [pc : {"none", "waiting", "archived"} \cup Passing,
                           tries : 0..MaxRetry, rows : SUBSET (1..rows), deferred : BOOLEAN]]
    /\ lock \in BOOLEAN /\ booting \in BOOLEAN
    /\ ops \in 0..MaxOps /\ troubles \in 0..MaxTroubles
    /\ retracted \subseteq 1..created /\ scrubbed \subseteq Docs
    /\ raced \in BOOLEAN /\ lapsed \in BOOLEAN
    /\ blame \in {"nothing", "conflict", "archived", "swallowed", "lost", "abandoned"}

\* A wiki with one folder, that holds the pages of some documents.
Init ==
    /\ kb = "wiki" /\ folders = {1} /\ created = 1
    /\ page = [d \in Docs |-> IF d \in Filed THEN 1 ELSE 0]
    /\ op = [j \in Jobs |-> NoOp]
    /\ lane = {} /\ rows = 0
    /\ task = [t \in Tasks |-> NoTask] /\ lock = FALSE /\ booting = FALSE
    /\ ops = 0 /\ troubles = 0
    /\ retracted = {} /\ scrubbed = {} /\ raced = FALSE /\ lapsed = FALSE
    /\ blame = "nothing"

Trouble == troubles < MaxTroubles /\ troubles' = troubles + 1

Fine == UNCHANGED troubles

Active(t) == task[t].pc \in Passing

TaskGoes(t, pc) == task' = [task EXCEPT ![t].pc = pc]

Ended(t) == [task EXCEPT ![t] = NoTask]

-----------------------------------------------------------------------------
(* scheduleFinalize: a TaskID that is taken swallows the task.             *)

Schedule ==
    LET pc == task["stable"].pc IN
    /\ task' = IF pc = "none" THEN [task EXCEPT !["stable"] = Waiting] ELSE task
    /\ blame' = CASE pc \in {"none", "waiting"} -> "nothing"
                  [] pc = "peek" -> blame
                  [] pc = "archived" -> "archived"
                  [] OTHER -> "conflict"

-----------------------------------------------------------------------------
(* The ingest lane and its batches, one for each operation.                *)

OpGoes(j, pc) == op' = [op EXCEPT ![j].pc = pc]

\* The operation is over; rows it has queued are nobody's when it has not scheduled.
Gone(j) ==
    /\ op' = [op EXCEPT ![j] = NoOp]
    /\ blame' = IF op[j].owes THEN "abandoned" ELSE blame

\* The deletion or the reparse of a document has scrubbed its ingest first.
Arrives(j) ==
    /\ kb = "wiki" /\ op[j].pc = "idle" /\ ops < MaxOps /\ ops' = ops + 1
    /\ \A i \in Jobs : Of[i] = Of[j] => ~op[i].row

\* A document is added, or parsed again.
Ingest(j) ==
    /\ Arrives(j)
    /\ op' = [op EXCEPT ![j] = [NoOp EXCEPT !.kind = "ingest", !.pc = "queued", !.row = TRUE]]
    /\ raced' = (raced \/ \E t \in Tasks : task[t].pc = "prune")
    /\ UNCHANGED <<kb, wiki, queue, tasks, booting, troubles, scrubbed, lapsed, blame>>

\* A document is deleted: its page goes, or stays when other documents have a part in it,
\* and its folder is noted in the row of the retract.  When the insert of the row fails or
\* the server dies before it, nobody remembers the folder.
Delete(j) ==
    LET d == Of[j]
        left == {page[d]} \ {0}
    IN
    /\ Arrives(j)
    /\ page' \in {page, [page EXCEPT ![d] = 0]}
    /\ \/ /\ op' = [op EXCEPT ![j] = [NoOp EXCEPT !.kind = "retract", !.pc = "queued",
                                                  !.row = TRUE, !.folders = left]]
          /\ retracted' = retracted \cup left /\ Fine
       \/ retracted' = retracted \ left /\ UNCHANGED op /\ Trouble
    /\ UNCHANGED <<kb, folders, created, queue, tasks, booting, history>>

\* DeleteByDedupKey: the ingest row of a document goes, also while a batch works on it.
Scrub(j) ==
    /\ op[j].kind = "ingest" /\ op[j].row
    /\ \/ op[j].pc = "queued" /\ Gone(j) /\ UNCHANGED scrubbed
       \/ /\ op' = [op EXCEPT ![j].row = FALSE] /\ scrubbed' = scrubbed \cup {Of[j]}
          /\ UNCHANGED blame
    /\ UNCHANGED <<kb, wiki, queue, tasks, booting, ops, troubles, raced, lapsed>>

\* A batch finds the knowledge base gone.  The rows of one that is no longer a wiki stay,
\* and its batches fail.
Drop(j) ==
    /\ kb = "deleted" /\ op[j].pc = "queued" /\ op' = [op EXCEPT ![j] = NoOp]
    /\ UNCHANGED <<kb, wiki, queue, tasks, booting, ops, troubles, history>>

BatchFrame == UNCHANGED <<kb, lock, booting, ops, raced, scrubbed, lapsed>>

\* mapOneDocument finds the document deleted, or without text.
Skip(j) ==
    /\ kb = "wiki" /\ op[j].kind = "ingest" /\ op[j].pc = "queued" /\ OpGoes(j, "settle")
    /\ BatchFrame /\ UNCHANGED <<wiki, queue, task, troubles, blame>>

\* resolvePlannedFolders: the folder of that name, or a new one.
Plan(j) ==
    LET d == Of[j]
        found == IF page[d] # 0 THEN {page[d]} ELSE folders
        Planned(f) == [op EXCEPT ![j].pc = "planned", ![j].folders = {f}]
    IN
    /\ kb = "wiki" /\ op[j].kind = "ingest" /\ op[j].pc = "queued"
    /\ \/ (\E f \in found : op' = Planned(f)) /\ UNCHANGED <<created, folders>>
       \/ /\ found = {}
          /\ created' = created + 1 /\ folders' = {created + 1} /\ op' = Planned(created + 1)
    /\ BatchFrame /\ UNCHANGED <<page, retracted, queue, task, troubles, blame>>

\* The slug lock of a page.
Unlocked(j) == \A i \in Jobs : Of[i] = Of[j] => op[i].pc # "create"

\* reduceSlugUpdates: nothing is written when the document is found deleted, or the model
\* fails.  A page keeps its folder.  applyFolderToPage: a folder that is gone is an error,
\* and the document is done again.
ApplyFolder(j) ==
    LET d == Of[j]
        its == IF page[d] # 0 THEN {page[d]} ELSE op[j].folders
    IN
    /\ op[j].pc = "planned" /\ Unlocked(j)
    /\ \/ OpGoes(j, "rows")
       \/ /\ its \subseteq folders
          /\ op' = [op EXCEPT ![j].pc = "create", ![j].folders = its]
       \/ ~(its \subseteq folders) /\ op' = [op EXCEPT ![j].pc = "rows", ![j].failed = TRUE]
    /\ BatchFrame /\ UNCHANGED <<wiki, queue, task, troubles, blame>>

\* CreatePage, UpdatePage.
Create(j) ==
    /\ op[j].pc = "create"
    /\ \/ /\ OpGoes(j, "rows") /\ Fine
          /\ \E f \in op[j].folders : page' = [page EXCEPT ![Of[j]] = f]
       \/ op' = [op EXCEPT ![j].pc = "rows", ![j].failed = TRUE] /\ Trouble /\ UNCHANGED page
    /\ BatchFrame /\ UNCHANGED <<folders, created, retracted, queue, task, blame>>

\* What the deletion has left, or an ingest has written since, is taken out.
Retract(j) ==
    LET d == Of[j]
        left == op[j].folders \cup ({page[d]} \ {0})
    IN
    /\ kb = "wiki" /\ op[j].kind = "retract" /\ op[j].pc = "queued" /\ Unlocked(j)
    /\ op' = [op EXCEPT ![j].pc = "rows", ![j].folders = left]
    /\ page' = [page EXCEPT ![d] = 0] /\ retracted' = retracted \cup left
    /\ BatchFrame /\ UNCHANGED <<folders, created, queue, task, troubles, blame>>

\* enqueueFinalize: a row for the page and its change, and one for the folders.
AddRows(j) ==
    LET named == IF op[j].kind = "retract" THEN op[j].folders ELSE {}
        new == {[id |-> rows + 1, folders |-> {}]}
                 \cup {[id |-> rows + 2, folders |-> F] : F \in {named} \ {{}}}
    IN
    /\ op[j].pc = "rows"
    /\ IF kb = "deleted"
       THEN OpGoes(j, "settle") /\ UNCHANGED queue
       ELSE /\ op' = [op EXCEPT ![j].pc = "schedule", ![j].owes = TRUE]
            /\ lane' = lane \cup new /\ rows' = rows + Cardinality(new)
    /\ BatchFrame /\ UNCHANGED <<wiki, task, troubles, blame>>

\* The end of enqueueFinalize.
ScheduleRows(j) ==
    /\ op[j].pc = "schedule" /\ op' = [op EXCEPT ![j].pc = "settle", ![j].owes = FALSE]
    /\ \/ Fine /\ Schedule
       \/ Trouble /\ blame' = "lost" /\ UNCHANGED task
    /\ BatchFrame /\ UNCHANGED <<wiki, queue>>

\* The row of the operation is deleted, or requeued until its budget is spent.
Settle(j) ==
    /\ op[j].pc = "settle"
    /\ IF op[j].failed /\ op[j].row /\ op[j].fails < MaxFail
       THEN /\ op' = [op EXCEPT ![j].pc = "queued", ![j].failed = FALSE, ![j].fails = @ + 1]
            /\ UNCHANGED blame
       ELSE Gone(j)
    /\ BatchFrame /\ UNCHANGED <<wiki, queue, task, troubles>>

\* A batch dies; another takes its row, if it is still there.
BatchDies(j) ==
    /\ op[j].pc # "idle" /\ (op[j].pc # "queued" \/ ~op[j].row) /\ Trouble
    /\ IF op[j].row
       THEN op' = [op EXCEPT ![j].pc = "queued", ![j].failed = FALSE] /\ UNCHANGED blame
       ELSE Gone(j)
    /\ BatchFrame /\ UNCHANGED <<wiki, queue, task>>

Batch(j) ==
    Drop(j) \/ Skip(j) \/ Plan(j) \/ ApplyFolder(j) \/ Create(j) \/ Retract(j) \/ AddRows(j)
      \/ ScheduleRows(j) \/ Settle(j)

-----------------------------------------------------------------------------
(* ProcessWikiFinalize.                                                    *)

\* Mutant: a task that finds the lock taken deletes it as well.
StartReleasing(t) ==
    /\ task[t].pc = "waiting"
    /\ IF lock THEN task' = [task EXCEPT ![t] = NoTask] ELSE TaskGoes(t, "peek")
    /\ lock' = ~lock
    /\ UNCHANGED <<kb, wiki, op, queue, booting, ops, troubles, history>>

PassFrame == UNCHANGED <<kb, op, rows, booting, ops, retracted, raced, scrubbed, lapsed>>

\* SETNX of the lock.  A task that finds it taken is acknowledged: whoever holds it
\* drains the lane, if he lives.
Start(t) ==
    /\ task[t].pc = "waiting" /\ Fine
    /\ IF lock
       THEN /\ task' = [task EXCEPT ![t] = NoTask] /\ UNCHANGED lock
            /\ blame' = IF \E p \in Tasks : Active(p) THEN blame ELSE "swallowed"
       ELSE TaskGoes(t, "peek") /\ lock' = TRUE /\ UNCHANGED blame
    /\ PassFrame /\ UNCHANGED <<folders, created, page, lane>>

\* The rows are peeked, and the knowledge base is looked at.
Peek(t) ==
    /\ task[t].pc = "peek" /\ Fine
    /\ LET first == {r \in lane : Cardinality({q \in lane : q.id < r.id}) < Peeked} IN
       IF lane = {} \/ kb = "deleted"
       THEN lane' = {} /\ task' = Ended(t) /\ lock' = FALSE
       ELSE /\ UNCHANGED lock
            /\ task' = [task EXCEPT ![t].pc = IF kb = "plain" THEN "discard" ELSE "work",
                                    ![t].rows = {r.id : r \in first}]
            /\ UNCHANGED lane
    /\ PassFrame /\ UNCHANGED <<folders, created, page, blame>>

Mine(t) == {r \in lane : r.id \in task[t].rows}

Prunes(t) == {r \in Mine(t) : r.folders # {}}

\* The rows of what is no longer a wiki are deleted, and the handler returns.
Discard(t) ==
    /\ task[t].pc = "discard" /\ Fine
    /\ lane' = lane \ Mine(t) /\ task' = Ended(t) /\ lock' = FALSE
    /\ PassFrame /\ UNCHANGED <<folders, created, page, blame>>

\* Mutant: only the ingest rows that no batch has taken are looked at.
WorkPeeking(t) ==
    /\ task[t].pc = "work"
    /\ IF \E j \in Jobs : op[j].row /\ op[j].pc = "queued"
       THEN task' = [task EXCEPT ![t].pc = "trim", ![t].deferred = TRUE]
       ELSE TaskGoes(t, IF Prunes(t) = {} THEN "trim" ELSE "prune")
    /\ PassFrame /\ UNCHANGED <<folders, created, page, lane, lock, blame, troubles>>

\* PendingCount.
IngestPending == \E j \in Jobs : op[j].row

\* The index, dead links and cross links are done, well or badly; folders are pruned only
\* while the ingest lane has no rows, which is not while no batch works.
Work(t) ==
    /\ task[t].pc = "work"
    /\ IF Prunes(t) = {}
       THEN TaskGoes(t, "trim") /\ Fine
       ELSE \/ /\ IF IngestPending THEN Fine ELSE Trouble
               /\ task' = [task EXCEPT ![t].pc = "trim", ![t].deferred = TRUE]
            \/ ~IngestPending /\ TaskGoes(t, "prune") /\ Fine
    /\ PassFrame /\ UNCHANGED <<folders, created, page, lane, lock, blame>>

\* PruneEmptyFolderChains: each folder is looked at again as it is deleted.
Prune(t) ==
    LET named == UNION {r.folders : r \in Prunes(t)} IN
    /\ task[t].pc = "prune"
    /\ \/ /\ Fine /\ TaskGoes(t, "trim")
          /\ folders' = folders \ {f \in named : \A d \in Docs : page[d] # f}
       \/ /\ Trouble /\ task' = [task EXCEPT ![t].pc = "trim", ![t].deferred = TRUE]
          /\ UNCHANGED folders
    /\ PassFrame /\ UNCHANGED <<created, page, lane, lock, blame>>

\* Mutant: every row that was peeked goes, also when the prune was deferred.
TrimAll(t) ==
    /\ task[t].pc = "trim" /\ TaskGoes(t, "more")
    /\ lane' = lane \ Mine(t)
    /\ PassFrame /\ UNCHANGED <<folders, created, page, lock, blame, troubles>>

\* trimPendingList, but for the rows of a deferred prune.
Trim(t) ==
    /\ task[t].pc = "trim" /\ Fine /\ TaskGoes(t, "more")
    /\ lane' = lane \ (Mine(t) \ IF task[t].deferred THEN Prunes(t) ELSE {})
    /\ PassFrame /\ UNCHANGED <<folders, created, page, lock, blame>>

\* Mutant: the retry takes the TaskID, which the pass itself may hold.
RetryUnderId(t) ==
    task' = [Ended(t) EXCEPT !["stable"] =
                IF t # "stable" /\ @.pc = "none" THEN Waiting ELSE Ended(t)["stable"]]

\* scheduleFinalizeRetry: a task without a TaskID.  When the model has no more of them,
\* one that waits already stands for both.
ScheduleRetry(t) ==
    LET free == {r \in Retries : r = t \/ task[r].pc = "none"} IN
    \/ \E r \in free : task' = [Ended(t) EXCEPT ![r] = Waiting]
    \/ free = {} /\ task' = Ended(t) /\ \E r \in Retries : task[r].pc = "waiting"

\* A deferred prune is retried; for rows that came meanwhile a task is scheduled, under
\* the TaskID that this task itself may hold.  Then the handler returns and deletes the
\* lock, whoever holds it by now.
More(t) ==
    /\ task[t].pc = "more" /\ lock' = FALSE
    /\ \/ task[t].deferred /\ Fine /\ ScheduleRetry(t) /\ UNCHANGED blame
       \/ ~task[t].deferred /\ lane = {} /\ Fine /\ task' = Ended(t) /\ UNCHANGED blame
       \/ /\ ~task[t].deferred /\ lane # {} /\ Fine
          /\ IF t # "stable" /\ task["stable"].pc = "none"
             THEN task' = [Ended(t) EXCEPT !["stable"] = Waiting] /\ blame' = "nothing"
             ELSE /\ task' = Ended(t)
                  /\ blame' = IF task["stable"].pc \in {"waiting", "peek"} THEN blame ELSE "conflict"
       \/ (task[t].deferred \/ lane # {}) /\ Trouble /\ task' = Ended(t) /\ blame' = "lost"
    /\ PassFrame /\ UNCHANGED <<folders, created, page, lane>>

\* A failed task is retried; when its retries are spent it is archived, and keeps its
\* TaskID.
Again(t) ==
    /\ task' = [task EXCEPT ![t] =
                   IF @.tries < MaxRetry THEN [Waiting EXCEPT !.tries = task[t].tries + 1]
                   ELSE IF t = "stable" THEN [NoTask EXCEPT !.pc = "archived"] ELSE NoTask]
    /\ blame' = IF task[t].tries < MaxRetry THEN blame ELSE "archived"

\* Redis fails, or the database when rows are read or trimmed.
Fail(t) ==
    /\ task[t].pc \in {"waiting", "peek", "discard", "trim"} /\ Trouble /\ Again(t)
    /\ lock' = (lock /\ task[t].pc = "waiting")
    /\ PassFrame /\ UNCHANGED <<folders, created, page, lane>>

Pass(t) ==
    Start(t) \/ Peek(t) \/ Discard(t) \/ Work(t) \/ Prune(t) \/ Trim(t) \/ More(t)

-----------------------------------------------------------------------------
(* Deaths, time, and the knowledge base.                                   *)

\* A worker dies, or stops before its pass ends: the task is queued again, the lock stays,
\* and the instance comes up again.
PassDies(t) ==
    /\ Active(t) /\ Trouble /\ Again(t) /\ booting' = TRUE
    /\ UNCHANGED <<kb, wiki, op, queue, lock, ops, raced, scrubbed, lapsed>>

\* recoverPendingWikiTasks for this lane.
Recover ==
    /\ booting /\ booting' = FALSE
    /\ IF kb = "deleted"
       THEN lane' = {} /\ UNCHANGED <<task, blame>>
       ELSE /\ IF lane = {} THEN UNCHANGED <<task, blame>> ELSE Schedule
            /\ UNCHANGED lane
    /\ UNCHANGED <<kb, wiki, op, rows, lock, ops, troubles, raced, scrubbed, lapsed>>

\* The lock expires when nobody renews it, or when the renewals of a pass fail.
Expire ==
    /\ lock /\ lock' = FALSE
    /\ IF \E t \in Tasks : Active(t) THEN Trouble /\ lapsed' = TRUE ELSE Fine /\ UNCHANGED lapsed
    /\ UNCHANGED <<kb, wiki, op, queue, task, booting, ops, raced, scrubbed, blame>>

\* The wiki of the knowledge base is switched off, or it is deleted and the rows of both
\* lanes with it.
ChangeKB ==
    /\ kb = "wiki" /\ Trouble
    /\ \/ kb' = "plain" /\ UNCHANGED <<lane, op>>
       \/ /\ kb' = "deleted" /\ lane' = {}
          /\ op' = [j \in Jobs |-> [op[j] EXCEPT !.row = FALSE]]
    /\ UNCHANGED <<wiki, rows, tasks, booting, ops, history>>

Environment ==
    \/ \E j \in Jobs : Ingest(j) \/ Delete(j) \/ Scrub(j) \/ BatchDies(j)
    \/ \E t \in Tasks : Fail(t) \/ PassDies(t)
    \/ ChangeKB

Next ==
    \/ \E j \in Jobs : Batch(j)
    \/ \E t \in Tasks : Pass(t)
    \/ Recover \/ Expire \/ Environment

Spec == Init /\ [][Next]_vars

(***************************************************************************)
(* Workers work, an instance comes up, a lock that nobody renews expires.  *)
(***************************************************************************)
Fairness ==
    /\ \A j \in Jobs : WF_vars(Batch(j))
    /\ \A t \in Tasks : WF_vars(Pass(t))
    /\ WF_vars(Recover) /\ WF_vars(Expire /\ Fine)

FairSpec == Spec /\ Fairness

-----------------------------------------------------------------------------
(***************************************************************************)
(* Properties.                                                             *)
(***************************************************************************)

(***************************************************************************)
(* Queued rows have a task that will look at them, or a batch that will    *)
(* still schedule one, unless it was lost in one of five ways: the TaskID  *)
(* was held by a pass that had peeked already (conflict), or by an         *)
(* archived task; a dead worker's lock turned the task away (swallowed);   *)
(* the task could not be enqueued (lost); the batch ended before it        *)
(* scheduled, and its row was scrubbed or skipped (abandoned)              *)
(* (scheduleFinalizeRetry: "reusing it here would coalesce the only retry  *)
(* away"; ProcessWikiFinalize: "If more finalize rows landed while we were *)
(* working, reschedule").                                                  *)
(***************************************************************************)
SomeoneFinalizes ==
    lane # {} /\ kb = "wiki" =>
       \/ \E t \in Tasks : task[t].pc \in {"waiting", "peek", "work", "prune", "trim", "more"}
       \/ \E j \in Jobs : op[j].owes
       \/ blame # "nothing"

(***************************************************************************)
(* Two passes over a wiki never overlap unless the lock has lapsed: they   *)
(* would rebuild the same index from the same rows (ProcessWikiFinalize:   *)
(* "GetPage, modify, UpdatePage lost update").                             *)
(***************************************************************************)
OnePass == lapsed \/ \A s, t \in Tasks : Active(s) /\ Active(t) => s = t

(***************************************************************************)
(* No folder is pruned under a page, or under a batch that has planned a   *)
(* page there (wikiFinalizeOpFolderPrune: "pruning any earlier can         *)
(* invalidate in-flight folder assignments"), but in two ways: a document  *)
(* was queued between the look at the ingest lane and the prune; or the    *)
(* row of the document was deleted under its batch, for PendingCount       *)
(* counts rows, not batches (ProcessWikiFinalize takes a folder without    *)
(* rows for one that no batch owns).  A deleted knowledge base keeps none. *)
(***************************************************************************)
FoldersKept ==
    \/ raced \/ kb = "deleted"
    \/ /\ \A d \in Docs \ scrubbed : page[d] # 0 => page[d] \in folders
       /\ \A j \in Jobs :
             Of[j] \notin scrubbed /\ op[j].kind = "ingest" /\ op[j].pc \in {"planned", "create"}
                => op[j].folders \subseteq folders

(***************************************************************************)
(* An empty folder that a deletion has left behind is not forgotten once   *)
(* the retract is queued: the retract or a row names it until it is        *)
(* pruned, through deferrals, failures and crashes.                        *)
(***************************************************************************)
FoldersRemembered ==
    kb = "wiki" =>
       \A f \in folders \cap retracted :
          \/ \E d \in Docs : page[d] = f
          \/ \E j \in Jobs : op[j].kind = "retract" /\ f \in op[j].folders
          \/ \E r \in lane : f \in r.folders

(***************************************************************************)
(* The lane is emptied in the end, deferred prunes included, unless its    *)
(* rows were left without a task.                                          *)
(***************************************************************************)
RowsLeave == lane # {} ~> lane = {} \/ blame # "nothing" \/ kb # "wiki"

=============================================================================
