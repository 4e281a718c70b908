------------------------- MODULE WikiFinalizeProofs -------------------------
(***************************************************************************)
(* For any number of documents, tasks, rows and faults: the passes of the  *)
(* finalize lane do not overlap, no folder is pruned under a page or       *)
(* forgotten, and rows that wait have a task, but for the named ways.      *)
(***************************************************************************)
EXTENDS WikiFinalize, FiniteSetTheorems, TLAPS

USE WikiFinalizeAssumption

-----------------------------------------------------------------------------
(* Types of the pieces.                                                    *)

Pcs == {"idle", "queued", "planned", "create", "rows", "schedule", "settle"}

OpOf(c) == [kind : {"none", "ingest", "retract"}, pc : Pcs, row : BOOLEAN,
            folders : SUBSET (1..c), owes : BOOLEAN, failed : BOOLEAN, fails : 0..MaxFail]

TaskPcs == {"none", "waiting", "archived"} \cup Passing

TaskOf(n) == [pc : TaskPcs, tries : 0..MaxRetry, rows : SUBSET (1..n), deferred : BOOLEAN]

LEMMA OpGrows ==
    ASSUME NEW c \in Nat, NEW e \in Nat, c <= e
    PROVE  OpOf(c) \subseteq OpOf(e)
  BY DEF OpOf

LEMMA TaskGrows ==
    ASSUME NEW m \in Nat, NEW n \in Nat, m <= n
    PROVE  TaskOf(m) \subseteq TaskOf(n)
  BY DEF TaskOf

LEMMA NoOpType ==
    ASSUME NEW c \in Nat
    PROVE  /\ NoOp \in OpOf(c) /\ NoOp.kind = "none" /\ NoOp.pc = "idle"
           /\ ~NoOp.row /\ ~NoOp.owes /\ NoOp.folders = {}
  BY DEF OpOf, NoOp, Pcs

LEMMA NoTaskType ==
    ASSUME NEW n \in Nat
    PROVE  /\ NoTask \in TaskOf(n) /\ Waiting \in TaskOf(n)
           /\ NoTask.pc = "none" /\ Waiting.pc = "waiting"
           /\ NoTask.rows = {} /\ Waiting.rows = {}
           /\ ~NoTask.deferred /\ ~Waiting.deferred
  <1>1. NoTask \in TaskOf(n)
    BY DEF TaskOf, NoTask, TaskPcs
  <1>2. NoTask.pc = "none" /\ NoTask.rows = {} /\ ~NoTask.deferred
    BY DEF NoTask
  <1>3. Waiting \in TaskOf(n) /\ Waiting.pc = "waiting"
    BY <1>1 DEF Waiting, TaskOf, TaskPcs
  <1>4. Waiting.rows = {} /\ ~Waiting.deferred
    BY <1>1, <1>2 DEF Waiting, TaskOf, TaskPcs
  <1> QED  BY <1>2, <1>3, <1>4, <1>1

\* The batches, the tasks and the rest of the state are typed apart.
OpsOK == created \in Nat /\ op \in [Jobs -> OpOf(created)]

TasksOK == rows \in Nat /\ task \in [Tasks -> TaskOf(rows)]

WikiOK ==
    /\ kb \in {"wiki", "plain", "deleted"}
    /\ folders \subseteq 1..created
    /\ page \in [Docs -> 0..created]
    /\ lane \subseteq [id : 1..rows, folders : SUBSET (1..created)]
    /\ retracted \subseteq 1..created

RestOK ==
    /\ lock \in BOOLEAN /\ booting \in BOOLEAN
    /\ ops \in 0..MaxOps /\ troubles \in 0..MaxTroubles
    /\ raced \in BOOLEAN /\ lapsed \in BOOLEAN /\ scrubbed \subseteq Docs
    /\ blame \in {"nothing", "conflict", "archived", "swallowed", "lost", "abandoned"}

LEMMA TypeParts == TypeOK <=> OpsOK /\ TasksOK /\ WikiOK /\ RestOK
  BY DEF TypeOK, OpsOK, TasksOK, WikiOK, RestOK, OpOf, TaskOf, Pcs, TaskPcs

LEMMA TypePartsNext == TypeOK' <=> OpsOK' /\ TasksOK' /\ WikiOK' /\ RestOK'
  BY DEF TypeOK, OpsOK, TasksOK, WikiOK, RestOK, OpOf, TaskOf, Pcs, TaskPcs

-----------------------------------------------------------------------------
(* What a step does to the operations.                                     *)

LEMMA OpType ==
    ASSUME TypeOK, NEW j \in Jobs
    PROVE  /\ op \in [Jobs -> OpOf(created)] /\ op[j] \in OpOf(created)
           /\ op[j].pc \in Pcs /\ op[j].folders \subseteq 1..created
           /\ op[j].row \in BOOLEAN /\ op[j].owes \in BOOLEAN
           /\ Of[j] \in Docs /\ created \in Nat
  <1>1. op \in [Jobs -> OpOf(created)] /\ created \in Nat
    BY TypeParts DEF OpsOK
  <1> QED  BY <1>1 DEF OpOf

\* What an operation keeps as it goes on.
Like(q, r) == q.kind = r.kind /\ q.row = r.row /\ q.owes = r.owes

Others(j) == \A i \in Jobs \ {j} : op'[i] = op[i]

LEMMA OpSet ==
    ASSUME TypeOK, NEW j \in Jobs, NEW r \in OpOf(created), op' = [op EXCEPT ![j] = r]
    PROVE  op' \in [Jobs -> OpOf(created)] /\ op'[j] = r /\ Others(j)
  BY OpType DEF Others

LEMMA GoesOf ==
    ASSUME TypeOK, NEW j \in Jobs, NEW pc \in Pcs, OpGoes(j, pc)
    PROVE  /\ op' \in [Jobs -> OpOf(created)] /\ Others(j)
           /\ op'[j].pc = pc /\ op'[j].folders = op[j].folders /\ Like(op'[j], op[j])
  <1> DEFINE r == [op[j] EXCEPT !.pc = pc]
  <1>1. /\ r \in OpOf(created) /\ r.pc = pc /\ r.folders = op[j].folders /\ Like(r, op[j])
    BY OpType DEF OpOf, Like
  <1>2. op' = [op EXCEPT ![j] = r]
    BY DEF OpGoes
  <1> HIDE DEF r
  <1> QED  BY <1>1, <1>2, OpSet

LEMMA GoneOf ==
    ASSUME TypeOK, NEW j \in Jobs, Gone(j)
    PROVE  /\ op' \in [Jobs -> OpOf(created)] /\ Others(j) /\ op'[j] = NoOp
           /\ op[j].owes => blame' = "abandoned"
           /\ ~op[j].owes => blame' = blame
  <1>1. op' = [op EXCEPT ![j] = NoOp] /\ created \in Nat
    BY OpType DEF Gone
  <1> QED  BY <1>1, NoOpType, OpSet DEF Gone

LEMMA IngestOf ==
    ASSUME TypeOK, NEW j \in Jobs, Ingest(j)
    PROVE  /\ op' \in [Jobs -> OpOf(created)] /\ Others(j)
           /\ op[j].pc = "idle" /\ op'[j].kind = "ingest" /\ op'[j].pc = "queued" /\ op'[j].row
           /\ UNCHANGED <<kb, folders, created, page, retracted, lane, rows, task>>
  <1> DEFINE r == [NoOp EXCEPT !.kind = "ingest", !.pc = "queued", !.row = TRUE]
  <1>1. r \in OpOf(created) /\ r.kind = "ingest" /\ r.pc = "queued" /\ r.row
    BY OpType, NoOpType DEF OpOf, Pcs
  <1>2. op' = [op EXCEPT ![j] = r]
    BY DEF Ingest
  <1> HIDE DEF r
  <1> QED  BY <1>1, <1>2, OpSet DEF Ingest, Arrives, wiki, queue, tasks

\* The folder that the deletion of a document leaves.
Left(d) == {page[d]} \ {0}

LEMMA LeftType ==
    ASSUME TypeOK, NEW d \in Docs
    PROVE  page[d] \in 0..created /\ Left(d) \subseteq 1..created
  BY TypeParts DEF WikiOK, OpsOK, Left

LEMMA DeleteOf ==
    ASSUME TypeOK, NEW j \in Jobs, Delete(j)
    PROVE  /\ op' \in [Jobs -> OpOf(created)] /\ Others(j) /\ op[j].pc = "idle"
           /\ page' \in [Docs -> 0..created]
           /\ \A d \in Docs : page'[d] = page[d] \/ (d = Of[j] /\ page'[d] = 0)
           /\ \/ /\ op'[j].kind = "retract" /\ op'[j].pc = "queued" /\ op'[j].row
                 /\ op'[j].folders = Left(Of[j]) /\ retracted' = retracted \cup Left(Of[j])
              \/ op'[j] = op[j] /\ retracted' = retracted \ Left(Of[j])
           /\ UNCHANGED <<kb, folders, created, lane, rows, task>>
  <1> DEFINE r == [NoOp EXCEPT !.kind = "retract", !.pc = "queued", !.row = TRUE,
                               !.folders = Left(Of[j])]
  <1>1. /\ r \in OpOf(created) /\ r.kind = "retract" /\ r.pc = "queued" /\ r.row
        /\ r.folders = Left(Of[j])
    BY OpType, NoOpType, LeftType DEF OpOf, Pcs
  <1>2. \/ op' = [op EXCEPT ![j] = r] /\ retracted' = retracted \cup Left(Of[j])
        \/ op' = op /\ retracted' = retracted \ Left(Of[j])
    BY DEF Delete, Left
  <1>3. page \in [Docs -> 0..created] /\ page' \in {page, [page EXCEPT ![Of[j]] = 0]}
    BY TypeParts DEF WikiOK, Delete
  <1>4. /\ page' \in [Docs -> 0..created]
        /\ \A d \in Docs : page'[d] = page[d] \/ (d = Of[j] /\ page'[d] = 0)
    BY <1>3, OpType
  <1> HIDE DEF r
  <1>5. CASE op' = op /\ retracted' = retracted \ Left(Of[j])
    BY <1>4, <1>5, OpType DEF Delete, Arrives, Others, queue, tasks
  <1>6. CASE op' = [op EXCEPT ![j] = r] /\ retracted' = retracted \cup Left(Of[j])
    BY <1>1, <1>4, <1>6, OpSet DEF Delete, Arrives, queue, tasks
  <1> QED  BY <1>2, <1>5, <1>6

LEMMA ScrubOf ==
    ASSUME TypeOK, NEW j \in Jobs, Scrub(j)
    PROVE  /\ op' \in [Jobs -> OpOf(created)] /\ Others(j)
           /\ op[j].kind = "ingest" /\ op[j].row /\ scrubbed \subseteq scrubbed'
           /\ scrubbed' \subseteq Docs
           /\ \/ /\ op'[j] = NoOp /\ op[j].pc = "queued"
                 /\ (op[j].owes => blame' = "abandoned") /\ (~op[j].owes => blame' = blame)
              \/ /\ op'[j].kind = "ingest" /\ op'[j].pc = op[j].pc /\ ~op'[j].row
                 /\ op'[j].folders = op[j].folders /\ op'[j].owes = op[j].owes
                 /\ Of[j] \in scrubbed' /\ blame' = blame
           /\ UNCHANGED <<kb, folders, created, page, retracted, lane, rows, task>>
  <1>1. /\ op[j].kind = "ingest" /\ op[j].row
        /\ UNCHANGED <<kb, folders, created, page, retracted, lane, rows, task>>
    BY DEF Scrub, wiki, queue, tasks
  <1>2. scrubbed \subseteq Docs
    BY DEF TypeOK
  <1>3. CASE Gone(j) /\ scrubbed' = scrubbed /\ op[j].pc = "queued"
    BY <1>1, <1>2, <1>3, GoneOf
  <1>4. CASE op' = [op EXCEPT ![j].row = FALSE] /\ scrubbed' = scrubbed \cup {Of[j]} /\ blame' = blame
    <2> DEFINE r == [op[j] EXCEPT !.row = FALSE]
    <2>1. /\ r \in OpOf(created) /\ r.kind = op[j].kind /\ r.pc = op[j].pc /\ ~r.row
          /\ r.folders = op[j].folders /\ r.owes = op[j].owes
      BY OpType DEF OpOf
    <2>2. op' = [op EXCEPT ![j] = r]
      BY <1>4
    <2> HIDE DEF r
    <2> QED  BY <1>1, <1>2, <1>4, <2>1, <2>2, OpType, OpSet
  <1> QED  BY <1>3, <1>4 DEF Scrub

LEMMA DropOf ==
    ASSUME TypeOK, NEW j \in Jobs, Drop(j)
    PROVE  /\ op' \in [Jobs -> OpOf(created)] /\ Others(j)
           /\ op'[j] = NoOp /\ kb = "deleted" /\ UNCHANGED <<kb, scrubbed, raced>>
  <1>1. op' = [op EXCEPT ![j] = NoOp] /\ created \in Nat
    BY OpType DEF Drop
  <1> QED  BY <1>1, NoOpType, OpSet DEF Drop, history

LEMMA SkipOf ==
    ASSUME TypeOK, NEW j \in Jobs, Skip(j)
    PROVE  /\ op' \in [Jobs -> OpOf(created)] /\ Others(j)
           /\ op[j].kind = "ingest" /\ op'[j].pc = "settle" /\ Like(op'[j], op[j])
           /\ UNCHANGED <<kb, folders, created, page, retracted, lane, rows, task, blame>>
  BY GoesOf DEF Skip, BatchFrame, wiki, queue, Pcs

LEMMA PlanOf ==
    ASSUME TypeOK, NEW j \in Jobs, Plan(j)
    PROVE  /\ created' \in Nat /\ created <= created'
           /\ op' \in [Jobs -> OpOf(created')] /\ Others(j)
           /\ op[j].kind = "ingest" /\ op[j].pc = "queued"
           /\ op'[j].pc = "planned" /\ Like(op'[j], op[j])
           /\ \E f : op'[j].folders = {f} /\ f \in folders' \cup Left(Of[j])
           /\ \/ folders' = folders
              \/ folders = {} /\ folders' = {created + 1} /\ created' = created + 1
           /\ UNCHANGED <<kb, page, retracted, lane, rows, task, blame>>
  <1>1. /\ op \in [Jobs -> OpOf(created)] /\ op[j] \in OpOf(created) /\ created \in Nat
        /\ page[Of[j]] \in 0..created /\ folders \subseteq 1..created
    BY OpType, LeftType, TypeParts DEF WikiOK
  <1>2. /\ op[j].kind = "ingest" /\ op[j].pc = "queued"
        /\ UNCHANGED <<kb, page, retracted, lane, rows, task, blame>>
    BY DEF Plan, BatchFrame, queue
  <1>3. \/ /\ UNCHANGED <<created, folders>>
           /\ \E f \in folders \cup Left(Of[j]) :
                 op' = [op EXCEPT ![j].pc = "planned", ![j].folders = {f}]
        \/ /\ folders = {} /\ created' = created + 1 /\ folders' = {created + 1}
           /\ op' = [op EXCEPT ![j].pc = "planned", ![j].folders = {created + 1}]
    BY DEF Plan, Left
  <1>4. created' \in Nat /\ created <= created'
    BY <1>1, <1>3
  <1>5. PICK f : /\ f \in folders' \cup Left(Of[j]) /\ f \in 1..created'
                 /\ op' = [op EXCEPT ![j].pc = "planned", ![j].folders = {f}]
    BY <1>1, <1>3 DEF Left
  <1>6. op \in [Jobs -> OpOf(created')] /\ op[j] \in OpOf(created')
    BY <1>1, <1>4, OpGrows
  <1> DEFINE r == [op[j] EXCEPT !.pc = "planned", !.folders = {f}]
  <1>7. r \in OpOf(created') /\ r.pc = "planned" /\ r.folders = {f} /\ Like(r, op[j])
    BY <1>5, <1>6 DEF OpOf, Pcs, Like
  <1>8. op' = [op EXCEPT ![j] = r]
    BY <1>5
  <1> HIDE DEF r
  <1>9. op' \in [Jobs -> OpOf(created')] /\ op'[j] = r /\ Others(j)
    BY <1>6, <1>7, <1>8 DEF Others
  <1> QED  BY <1>2, <1>3, <1>4, <1>5, <1>7, <1>9

\* The folder that the page of an operation is filed in.
Its(j) == IF page[Of[j]] # 0 THEN {page[Of[j]]} ELSE op[j].folders

LEMMA FolderOf ==
    ASSUME TypeOK, NEW j \in Jobs, ApplyFolder(j)
    PROVE  /\ op' \in [Jobs -> OpOf(created)] /\ Others(j)
           /\ op[j].pc = "planned" /\ Like(op'[j], op[j])
           /\ \/ op'[j].pc = "rows" /\ op'[j].folders = op[j].folders
              \/ /\ op'[j].pc = "create" /\ op'[j].folders = Its(j) /\ Its(j) \subseteq folders
                 /\ Unlocked(j)
           /\ UNCHANGED <<kb, folders, created, page, retracted, lane, rows, task, blame>>
  <1>1. /\ op[j].pc = "planned" /\ Unlocked(j)
        /\ UNCHANGED <<kb, folders, created, page, retracted, lane, rows, task, blame>>
    BY DEF ApplyFolder, BatchFrame, wiki, queue
  <1>2. Its(j) \subseteq 1..created
    BY OpType, LeftType DEF Its
  <1>3. CASE OpGoes(j, "rows")
    BY <1>1, <1>3, GoesOf DEF Pcs
  <1>4. CASE /\ Its(j) \subseteq folders
             /\ op' = [op EXCEPT ![j].pc = "create", ![j].folders = Its(j)]
    <2> DEFINE r == [op[j] EXCEPT !.pc = "create", !.folders = Its(j)]
    <2>1. r \in OpOf(created) /\ r.pc = "create" /\ r.folders = Its(j) /\ Like(r, op[j])
      BY <1>2, OpType DEF OpOf, Pcs, Like
    <2>2. op' = [op EXCEPT ![j] = r]
      BY <1>4
    <2> HIDE DEF r
    <2> QED  BY <1>1, <1>4, <2>1, <2>2, OpSet
  <1>5. CASE op' = [op EXCEPT ![j].pc = "rows", ![j].failed = TRUE]
    <2> DEFINE r == [op[j] EXCEPT !.pc = "rows", !.failed = TRUE]
    <2>1. r \in OpOf(created) /\ r.pc = "rows" /\ r.folders = op[j].folders /\ Like(r, op[j])
      BY OpType DEF OpOf, Pcs, Like
    <2>2. op' = [op EXCEPT ![j] = r]
      BY <1>5
    <2> HIDE DEF r
    <2> QED  BY <1>1, <2>1, <2>2, OpSet
  <1> QED  BY <1>3, <1>4, <1>5 DEF ApplyFolder, Its

LEMMA CreateOf ==
    ASSUME TypeOK, NEW j \in Jobs, Create(j)
    PROVE  /\ op' \in [Jobs -> OpOf(created)] /\ Others(j)
           /\ op[j].pc = "create" /\ op'[j].pc = "rows" /\ Like(op'[j], op[j])
           /\ op'[j].folders = op[j].folders
           /\ page' \in [Docs -> 0..created] /\ \A d \in Docs \ {Of[j]} : page'[d] = page[d]
           /\ page'[Of[j]] \in {page[Of[j]]} \cup op[j].folders
           /\ UNCHANGED <<kb, folders, created, retracted, lane, rows, task, blame>>
  <1>1. /\ op[j].pc = "create"
        /\ UNCHANGED <<kb, folders, created, retracted, lane, rows, task, blame>>
    BY DEF Create, BatchFrame, queue
  <1>2. page \in [Docs -> 0..created] /\ op[j].folders \subseteq 1..created /\ Of[j] \in Docs
    BY OpType, TypeParts DEF WikiOK
  <1>3. CASE OpGoes(j, "rows") /\ \E f \in op[j].folders : page' = [page EXCEPT ![Of[j]] = f]
    BY <1>1, <1>2, <1>3, GoesOf, OpType DEF Pcs
  <1>4. CASE op' = [op EXCEPT ![j].pc = "rows", ![j].failed = TRUE] /\ page' = page
    <2> DEFINE r == [op[j] EXCEPT !.pc = "rows", !.failed = TRUE]
    <2>1. r \in OpOf(created) /\ r.pc = "rows" /\ r.folders = op[j].folders /\ Like(r, op[j])
      BY OpType DEF OpOf, Pcs, Like
    <2>2. op' = [op EXCEPT ![j] = r]
      BY <1>4
    <2> HIDE DEF r
    <2> QED  BY <1>1, <1>2, <1>4, <2>1, <2>2, OpSet
  <1> QED  BY <1>3, <1>4 DEF Create

LEMMA RetractOf ==
    ASSUME TypeOK, NEW j \in Jobs, Retract(j)
    PROVE  /\ op' \in [Jobs -> OpOf(created)] /\ Others(j)
           /\ op[j].kind = "retract" /\ op'[j].pc = "rows" /\ Like(op'[j], op[j])
           /\ op'[j].folders = op[j].folders \cup Left(Of[j])
           /\ page' \in [Docs -> 0..created] /\ page'[Of[j]] = 0
           /\ \A d \in Docs \ {Of[j]} : page'[d] = page[d]
           /\ retracted' = retracted \cup op'[j].folders
           /\ UNCHANGED <<kb, folders, created, lane, rows, task, blame>>
  <1> DEFINE left == op[j].folders \cup Left(Of[j])
             r == [op[j] EXCEPT !.pc = "rows", !.folders = left]
  <1>1. left \subseteq 1..created /\ Of[j] \in Docs /\ page \in [Docs -> 0..created]
    BY OpType, LeftType, TypeParts DEF WikiOK
  <1>2. /\ op[j].kind = "retract" /\ op' = [op EXCEPT ![j] = r]
        /\ page' = [page EXCEPT ![Of[j]] = 0] /\ retracted' = retracted \cup left
        /\ UNCHANGED <<kb, folders, created, lane, rows, task, blame>>
    BY DEF Retract, BatchFrame, queue, Left
  <1> HIDE DEF left
  <1>3. r \in OpOf(created) /\ r.pc = "rows" /\ r.folders = left /\ Like(r, op[j])
    BY <1>1, OpType DEF OpOf, Pcs, Like
  <1> HIDE DEF r
  <1>4. page' \in [Docs -> 0..created] /\ page'[Of[j]] = 0
        /\ \A d \in Docs \ {Of[j]} : page'[d] = page[d]
    BY <1>1, <1>2, OpType
  <1> QED  BY <1>2, <1>3, <1>4, OpSet DEF left

LEMMA RowsOf ==
    ASSUME TypeOK, NEW j \in Jobs, AddRows(j)
    PROVE  /\ op' \in [Jobs -> OpOf(created)] /\ Others(j)
           /\ op[j].pc = "rows" /\ op'[j].folders = op[j].folders
           /\ op'[j].kind = op[j].kind /\ op'[j].row = op[j].row
           /\ \/ kb = "deleted" /\ op'[j].pc = "settle"
              \/ kb # "deleted" /\ op'[j].pc = "schedule" /\ op'[j].owes
           /\ UNCHANGED <<kb, folders, created, page, retracted, task, blame>>
  <1>1. /\ op[j].pc = "rows"
        /\ UNCHANGED <<kb, folders, created, page, retracted, task, blame>>
    BY DEF AddRows, BatchFrame, wiki
  <1>2. CASE kb = "deleted"
    BY <1>1, <1>2, GoesOf DEF AddRows, Like, Pcs
  <1>3. CASE kb # "deleted"
    <2> DEFINE r == [op[j] EXCEPT !.pc = "schedule", !.owes = TRUE]
    <2>1. /\ r \in OpOf(created) /\ r.pc = "schedule" /\ r.folders = op[j].folders /\ r.owes
          /\ r.kind = op[j].kind /\ r.row = op[j].row
      BY OpType DEF OpOf, Pcs
    <2>2. op' = [op EXCEPT ![j] = r]
      BY <1>3 DEF AddRows
    <2> HIDE DEF r
    <2> QED  BY <1>1, <1>3, <2>1, <2>2, OpSet
  <1> QED  BY <1>2, <1>3

LEMMA ScheduleOf ==
    ASSUME TypeOK, NEW j \in Jobs, ScheduleRows(j)
    PROVE  /\ op' \in [Jobs -> OpOf(created)] /\ Others(j)
           /\ op[j].pc = "schedule" /\ op'[j].pc = "settle" /\ op'[j].folders = op[j].folders
           /\ op'[j].kind = op[j].kind /\ op'[j].row = op[j].row
           /\ Schedule \/ (blame' = "lost" /\ task' = task)
           /\ UNCHANGED <<kb, folders, created, page, retracted, lane, rows>>
  <1> DEFINE r == [op[j] EXCEPT !.pc = "settle", !.owes = FALSE]
  <1>1. /\ r \in OpOf(created) /\ r.pc = "settle" /\ r.folders = op[j].folders
        /\ r.kind = op[j].kind /\ r.row = op[j].row
    BY OpType DEF OpOf, Pcs
  <1>2. op' = [op EXCEPT ![j] = r]
    BY DEF ScheduleRows
  <1> HIDE DEF r
  <1> QED  BY <1>1, <1>2, OpSet DEF ScheduleRows, BatchFrame, wiki, queue

\* A batch ends, or leaves its row to another.
LEMMA EndOf ==
    ASSUME TypeOK, NEW j \in Jobs, Settle(j) \/ BatchDies(j)
    PROVE  /\ op' \in [Jobs -> OpOf(created)] /\ Others(j)
           /\ \/ /\ op'[j] = NoOp /\ (op[j].pc = "settle" \/ (op[j].pc # "idle" /\ ~op[j].row))
                 /\ (op[j].owes => blame' = "abandoned") /\ (~op[j].owes => blame' = blame)
              \/ /\ op'[j].pc = "queued" /\ op'[j].folders = op[j].folders
                 /\ Like(op'[j], op[j]) /\ op[j].row /\ op[j].pc # "idle" /\ blame' = blame
           /\ UNCHANGED <<kb, folders, created, page, retracted, lane, rows, task>>
  <1>1. UNCHANGED <<kb, folders, created, page, retracted, lane, rows, task>>
    BY DEF Settle, BatchDies, BatchFrame, wiki, queue
  <1>2. CASE Gone(j) /\ (op[j].pc = "settle" \/ (op[j].pc # "idle" /\ ~op[j].row))
    BY <1>1, <1>2, GoneOf
  <1>3. ASSUME NEW n \in 0..MaxFail, op[j].row, blame' = blame, op[j].pc # "idle",
               op' = [op EXCEPT ![j] = [op[j] EXCEPT !.pc = "queued", !.failed = FALSE,
                                                     !.fails = n]]
        PROVE  /\ op' \in [Jobs -> OpOf(created)] /\ Others(j)
               /\ op'[j].pc = "queued" /\ op'[j].folders = op[j].folders /\ Like(op'[j], op[j])
    <2> DEFINE r == [op[j] EXCEPT !.pc = "queued", !.failed = FALSE, !.fails = n]
    <2>1. r \in OpOf(created) /\ r.pc = "queued" /\ r.folders = op[j].folders /\ Like(r, op[j])
      BY <1>3, OpType DEF OpOf, Pcs, Like
    <2>2. op' = [op EXCEPT ![j] = r]
      BY <1>3
    <2> HIDE DEF r
    <2> QED  BY <2>1, <2>2, OpSet
  <1>4. op[j].fails \in 0..MaxFail
    BY OpType DEF OpOf
  <1>5. CASE Settle(j) /\ op[j].failed /\ op[j].row /\ op[j].fails < MaxFail
    <2>1. op[j].fails + 1 \in 0..MaxFail
      BY <1>4, <1>5
    <2>2. /\ op' = [op EXCEPT ![j] = [op[j] EXCEPT !.pc = "queued", !.failed = FALSE,
                                                   !.fails = op[j].fails + 1]]
          /\ blame' = blame /\ op[j].pc = "settle"
      BY <1>5 DEF Settle
    <2> QED  BY <1>1, <1>3, <1>5, <2>1, <2>2
  <1>6. CASE BatchDies(j) /\ op[j].row
    <2>1. op' = [op EXCEPT ![j].pc = "queued", ![j].failed = FALSE] /\ blame' = blame
      BY <1>6 DEF BatchDies
    <2> DEFINE r == [op[j] EXCEPT !.pc = "queued", !.failed = FALSE]
    <2>2. r \in OpOf(created) /\ r.pc = "queued" /\ r.folders = op[j].folders /\ Like(r, op[j])
      BY OpType DEF OpOf, Pcs, Like
    <2>3. op' = [op EXCEPT ![j] = r] /\ op[j].pc # "idle"
      BY <1>6, <2>1 DEF BatchDies
    <2> HIDE DEF r
    <2> QED  BY <1>1, <1>6, <2>1, <2>2, <2>3, OpSet
  <1> QED  BY <1>2, <1>5, <1>6 DEF Settle, BatchDies

LEMMA PassOf ==
    ASSUME (\E t \in Tasks : Pass(t) \/ Fail(t) \/ PassDies(t)) \/ Recover \/ Expire
    PROVE  UNCHANGED <<kb, op, page, created, retracted, scrubbed, raced, rows>>
  BY DEF Pass, Start, Peek, Discard, Work, Prune, Trim, More, Fail, PassDies, PassFrame,
         Recover, Expire, wiki, queue

LEMMA ChangeOf ==
    ASSUME TypeOK, ChangeKB
    PROVE  /\ op' \in [Jobs -> OpOf(created)] /\ kb' \in {"plain", "deleted"}
           /\ op' = op \/ kb' = "deleted"
           /\ \A j \in Jobs :
                 /\ op'[j].kind = op[j].kind /\ op'[j].pc = op[j].pc
                 /\ op'[j].folders = op[j].folders /\ (op'[j].row => op[j].row)
                 /\ op[j] = NoOp => op'[j] = NoOp
           /\ UNCHANGED <<folders, created, page, retracted, scrubbed, raced, rows, task>>
  <1>1. /\ op' = op \/ (op' = [j \in Jobs |-> [op[j] EXCEPT !.row = FALSE]] /\ kb' = "deleted")
        /\ kb' \in {"plain", "deleted"}
        /\ UNCHANGED <<folders, created, page, retracted, scrubbed, raced, rows, task>>
    BY DEF ChangeKB, wiki, tasks, history
  <1>2. op \in [Jobs -> OpOf(created)]
    BY TypeParts DEF OpsOK
  <1>3. CASE op' = op
    BY <1>1, <1>2, <1>3
  <1>4. CASE op' = [j \in Jobs |-> [op[j] EXCEPT !.row = FALSE]] /\ kb' = "deleted"
    <2>1. ASSUME NEW j \in Jobs
          PROVE  /\ op'[j] \in OpOf(created)
                 /\ op'[j].kind = op[j].kind /\ op'[j].pc = op[j].pc
                 /\ op'[j].folders = op[j].folders /\ ~op'[j].row
                 /\ op[j] = NoOp => op'[j] = NoOp
      <3>1. op[j] \in OpOf(created) /\ op'[j] = [op[j] EXCEPT !.row = FALSE]
        BY <1>2, <1>4
      <3>2. /\ op'[j] \in OpOf(created)
            /\ op'[j].kind = op[j].kind /\ op'[j].pc = op[j].pc
            /\ op'[j].folders = op[j].folders /\ ~op'[j].row
        BY <3>1 DEF OpOf
      <3>3. [NoOp EXCEPT !.row = FALSE] = NoOp
        <4>1. NoOp = [x \in DOMAIN NoOp |-> NoOp[x]] /\ NoOp["row"] = FALSE
          BY DEF NoOp
        <4> QED  BY <4>1
      <3>4. op[j] = NoOp => op'[j] = NoOp
        BY <3>1, <3>3
      <3> QED  BY <3>2, <3>4
    <2> QED  BY <1>1, <1>4, <2>1
  <1> QED  BY <1>1, <1>3, <1>4

\* The steps of the ingest lane.
LaneStep(j) == Ingest(j) \/ Delete(j) \/ Scrub(j) \/ BatchDies(j) \/ Batch(j)

LEMMA OpsStep ==
    ASSUME TypeOK, Next
    PROVE  OpsOK'
  <1>1. created \in Nat /\ op \in [Jobs -> OpOf(created)]
    BY TypeParts DEF OpsOK
  <1>2. ASSUME NEW j \in Jobs, LaneStep(j)
        PROVE  OpsOK'
    <2>1. CASE Plan(j)
      BY <2>1, PlanOf DEF OpsOK
    <2>2. CASE ~Plan(j)
      <3>1. created' = created
        BY <1>2, <2>2 DEF LaneStep, Ingest, Delete, Scrub, BatchDies, Batch, Drop, Skip, ApplyFolder,
                          Create, Retract, AddRows, ScheduleRows, Settle, BatchFrame, wiki
      <3>2. op' \in [Jobs -> OpOf(created)]
        BY <1>2, <2>2, IngestOf, DeleteOf, ScrubOf, DropOf, SkipOf, FolderOf, CreateOf, RetractOf,
           RowsOf, ScheduleOf, EndOf DEF LaneStep, Batch
      <3> QED  BY <1>1, <3>1, <3>2 DEF OpsOK
    <2> QED  BY <2>1, <2>2
  <1>3. CASE (\E t \in Tasks : Pass(t) \/ Fail(t) \/ PassDies(t)) \/ Recover \/ Expire
    BY <1>1, <1>3, PassOf DEF OpsOK
  <1>4. CASE ChangeKB
    BY <1>1, <1>4, ChangeOf DEF OpsOK
  <1> QED  BY <1>2, <1>3, <1>4 DEF Next, Environment, LaneStep

-----------------------------------------------------------------------------
(* What a step does to the tasks.                                          *)

LEMMA TaskType ==
    ASSUME TasksOK, NEW t \in Tasks
    PROVE  /\ task[t] \in TaskOf(rows) /\ task[t].pc \in TaskPcs
           /\ task[t].rows \subseteq 1..rows
           /\ task[t].tries \in 0..MaxRetry /\ task[t].deferred \in BOOLEAN
  <1>1. task[t] \in TaskOf(rows)
    BY DEF TasksOK
  <1> QED  BY <1>1 DEF TaskOf

LEMMA TaskSet ==
    ASSUME TasksOK, NEW t \in Tasks, NEW r \in TaskOf(rows)
    PROVE  /\ [task EXCEPT ![t] = r] \in [Tasks -> TaskOf(rows)]
           /\ [task EXCEPT ![t] = r][t] = r
           /\ \A s \in Tasks \ {t} : [task EXCEPT ![t] = r][s] = task[s]
  BY DEF TasksOK

LEMMA TaskGoesType ==
    ASSUME TasksOK, NEW t \in Tasks, NEW pc \in TaskPcs, TaskGoes(t, pc)
    PROVE  /\ task' \in [Tasks -> TaskOf(rows)]
           /\ task'[t].pc = pc /\ task'[t].rows = task[t].rows
           /\ task'[t].deferred = task[t].deferred
           /\ \A s \in Tasks \ {t} : task'[s] = task[s]
  <1>1. [task[t] EXCEPT !.pc = pc] \in TaskOf(rows)
    BY TaskType DEF TaskOf
  <1>2. task' = [task EXCEPT ![t] = [task[t] EXCEPT !.pc = pc]]
    BY DEF TaskGoes
  <1>3. /\ [task[t] EXCEPT !.pc = pc].pc = pc
        /\ [task[t] EXCEPT !.pc = pc].rows = task[t].rows
        /\ [task[t] EXCEPT !.pc = pc].deferred = task[t].deferred
    BY TaskType DEF TaskOf
  <1> QED  BY <1>1, <1>2, <1>3, TaskSet

LEMMA DefersType ==
    ASSUME TasksOK, NEW t \in Tasks,
           task' = [task EXCEPT ![t].pc = "trim", ![t].deferred = TRUE]
    PROVE  /\ task' \in [Tasks -> TaskOf(rows)]
           /\ task'[t].pc = "trim" /\ task'[t].rows = task[t].rows /\ task'[t].deferred
           /\ \A s \in Tasks \ {t} : task'[s] = task[s]
  <1> DEFINE r == [task[t] EXCEPT !.pc = "trim", !.deferred = TRUE]
  <1>1. r \in TaskOf(rows) /\ r.pc = "trim" /\ r.rows = task[t].rows /\ r.deferred
    BY TaskType DEF TaskOf, TaskPcs, Passing
  <1>2. task' = [task EXCEPT ![t] = r]
    OBVIOUS
  <1>3. /\ [task EXCEPT ![t] = r] \in [Tasks -> TaskOf(rows)] /\ [task EXCEPT ![t] = r][t] = r
        /\ \A s \in Tasks \ {t} : [task EXCEPT ![t] = r][s] = task[s]
    BY <1>1, TaskSet, Zenon
  <1> HIDE DEF r
  <1> QED  BY <1>1, <1>2, <1>3, Zenon

LEMMA EndedType ==
    ASSUME TasksOK, NEW t \in Tasks
    PROVE  /\ Ended(t) \in [Tasks -> TaskOf(rows)] /\ Ended(t)[t] = NoTask
           /\ \A s \in Tasks \ {t} : Ended(t)[s] = task[s]
  BY NoTaskType, TaskSet DEF Ended, TasksOK

\* A task that waits takes the place of one that is not there.
LEMMA ScheduleType ==
    ASSUME TasksOK, Schedule
    PROVE  /\ task' \in [Tasks -> TaskOf(rows)]
           /\ task'["stable"] \in {task["stable"], Waiting}
           /\ task'["stable"] = Waiting \/ UNCHANGED task
           /\ task'["stable"] # task["stable"] => task["stable"].pc = "none"
           /\ \A s \in Tasks \ {"stable"} : task'[s] = task[s]
  <1>1. "stable" \in Tasks /\ Waiting \in TaskOf(rows)
    BY NoTaskType DEF Tasks, TasksOK
  <1>2. CASE task["stable"].pc = "none"
    <2>1. task' = [task EXCEPT !["stable"] = Waiting]
      BY <1>2 DEF Schedule
    <2> QED  BY <1>1, <1>2, <2>1, TaskSet
  <1>3. CASE task["stable"].pc # "none"
    <2>1. task' = task
      BY <1>3 DEF Schedule
    <2> QED  BY <1>1, <1>3, <2>1 DEF TasksOK
  <1> QED  BY <1>2, <1>3

LEMMA AgainType ==
    ASSUME TasksOK, NEW t \in Tasks, Again(t)
    PROVE  /\ task' \in [Tasks -> TaskOf(rows)]
           /\ task'[t].pc \in {"waiting", "archived", "none"} /\ task'[t].rows = {}
           /\ \A s \in Tasks \ {t} : task'[s] = task[s]
  <1> DEFINE r == IF task[t].tries < MaxRetry THEN [Waiting EXCEPT !.tries = task[t].tries + 1]
                  ELSE IF t = "stable" THEN [NoTask EXCEPT !.pc = "archived"] ELSE NoTask
  <1>1. Waiting \in TaskOf(rows) /\ NoTask \in TaskOf(rows)
    BY NoTaskType DEF TasksOK
  <1>2. task[t].tries < MaxRetry => task[t].tries + 1 \in 0..MaxRetry
    BY TaskType
  <1>3. r \in TaskOf(rows) /\ r.pc \in {"waiting", "archived", "none"} /\ r.rows = {}
    <2>1. CASE task[t].tries < MaxRetry
      BY <1>1, <1>2, <2>1, NoTaskType DEF TaskOf, TasksOK
    <2>2. CASE ~(task[t].tries < MaxRetry) /\ t = "stable"
      <3>1. r = [NoTask EXCEPT !.pc = "archived"]
        BY <2>2
      <3> QED  BY <1>1, <3>1, NoTaskType DEF TaskOf, TaskPcs, TasksOK
    <2>3. CASE ~(task[t].tries < MaxRetry) /\ t # "stable"
      BY <1>1, <2>3, NoTaskType DEF TasksOK
    <2> QED  BY <2>1, <2>2, <2>3
  <1>4. task' = [task EXCEPT ![t] = r]
    BY DEF Again
  <1> HIDE DEF r
  <1> QED  BY <1>3, <1>4, TaskSet

\* The end of a pass: its task is gone, or waits again; others stay, or come to wait.
EndsOf(t) ==
    /\ task' \in [Tasks -> TaskOf(rows)]
    /\ task'[t] \in {NoTask, Waiting}
    /\ \A s \in Tasks \ {t} : task'[s] \in {task[s], Waiting}

LEMMA MoreType ==
    ASSUME TasksOK, NEW t \in Tasks, More(t)
    PROVE  EndsOf(t)
  <1>1. Waiting \in TaskOf(rows) /\ "stable" \in Tasks
    BY NoTaskType DEF TasksOK, Tasks
  <1>2. task' = Ended(t) \/ \E r \in Tasks : task' = [Ended(t) EXCEPT ![r] = Waiting]
    BY <1>1 DEF More, ScheduleRetry, Tasks
  <1> QED  BY <1>1, <1>2, EndedType DEF EndsOf

-----------------------------------------------------------------------------
(* The rows that a batch adds have ids that no task has seen.              *)

LEMMA OneOrTwo ==
    ASSUME NEW a, NEW b, a # b
    PROVE  Cardinality({a}) = 1 /\ Cardinality({a, b}) = 2
  <1>1. IsFiniteSet({a}) /\ Cardinality({a}) = 1
    BY FS_Singleton
  <1>2. {a, b} = {a} \cup {b} /\ b \notin {a}
    OBVIOUS
  <1>3. Cardinality({a} \cup {b}) = Cardinality({a}) + 1
    BY <1>1, <1>2, FS_AddElement
  <1> QED  BY <1>1, <1>2, <1>3

LEMMA Added ==
    ASSUME TypeOK, NEW j \in Jobs, AddRows(j), kb # "deleted"
    PROVE  /\ rows' \in Nat /\ rows < rows' /\ lane \subseteq lane'
           /\ \A r \in lane' \ lane : r.id \in (rows + 1)..rows'
                                     /\ r \in [id : 1..rows', folders : SUBSET (1..created)]
           /\ op[j].kind = "retract" /\ op[j].folders # {} =>
                 \E r \in lane' : r.id \in (rows + 1)..rows' /\ r.folders = op[j].folders
  <1> DEFINE named == IF op[j].kind = "retract" THEN op[j].folders ELSE {}
             plain == [id |-> rows + 1, folders |-> {}]
             prune == [id |-> rows + 2, folders |-> named]
             new == {plain} \cup {[id |-> rows + 2, folders |-> F] : F \in {named} \ {{}}}
  <1>1. rows \in Nat /\ created \in Nat /\ named \subseteq 1..created
    BY TypeParts, OpType DEF TasksOK
  <1>2. lane' = lane \cup new /\ rows' = rows + Cardinality(new)
    BY DEF AddRows
  <1>3. new = IF named = {} THEN {plain} ELSE {plain, prune}
    OBVIOUS
  <1>4. plain.id = rows + 1 /\ prune.id = rows + 2 /\ plain # prune /\ prune.folders = named
    BY <1>1
  <1>5. plain \in [id : 1..rows + 1, folders : SUBSET (1..created)]
        /\ prune \in [id : 1..rows + 2, folders : SUBSET (1..created)]
    BY <1>1
  <1> HIDE DEF plain, prune, new
  <1>6. Cardinality({plain}) = 1 /\ Cardinality({plain, prune}) = 2
    BY <1>4, OneOrTwo
  <1>7. lane \subseteq lane' /\ \A r \in lane' \ lane : r \in new
    BY <1>2
  <1>8. CASE named = {}
    <2>1. new = {plain} /\ rows' = rows + 1
      BY <1>2, <1>3, <1>6, <1>8
    <2>2. op[j].kind = "retract" => op[j].folders = {}
      BY <1>8
    <2> HIDE DEF named
    <2>3. plain.id \in (rows + 1)..rows' /\ plain \in [id : 1..rows', folders : SUBSET (1..created)]
      BY <1>1, <1>4, <1>5, <2>1
    <2> QED  BY <1>1, <1>7, <2>1, <2>2, <2>3
  <1>9. CASE named # {}
    <2>1. new = {plain, prune} /\ rows' = rows + 2
      BY <1>2, <1>3, <1>6, <1>9
    <2>2. op[j].kind = "retract" => prune.folders = op[j].folders
      BY <1>4
    <2> HIDE DEF named
    <2>3. 1..rows + 1 \subseteq 1..rows + 2
      BY <1>1
    <2>4. /\ plain.id \in (rows + 1)..rows' /\ prune.id \in (rows + 1)..rows'
          /\ plain \in [id : 1..rows', folders : SUBSET (1..created)]
          /\ prune \in [id : 1..rows', folders : SUBSET (1..created)]
      BY <1>1, <1>4, <1>5, <2>1, <2>3
    <2>5. prune \in lane'
      BY <1>2, <2>1
    <2> QED  BY <1>1, <1>7, <2>1, <2>2, <2>4, <2>5
  <1> QED  BY <1>8, <1>9

LEMMA LaneFrame ==
    ASSUME TypeOK, NEW j \in Jobs, LaneStep(j)
    PROVE  /\ UNCHANGED <<kb, lock, booting, lapsed>>
           /\ task' = task \/ (Schedule /\ ScheduleRows(j))
           /\ scrubbed \subseteq scrubbed' /\ scrubbed' \subseteq Docs
           /\ raced \in BOOLEAN /\ raced' \in BOOLEAN
           /\ raced' = raced \/ Ingest(j)
           /\ AddRows(j) \/ UNCHANGED <<lane, rows>>
  <1>1. scrubbed \subseteq Docs /\ raced \in BOOLEAN
    BY DEF TypeOK
  <1>2. CASE Ingest(j)
    BY <1>1, <1>2 DEF Ingest, Arrives, wiki, queue, tasks
  <1>3. CASE Delete(j)
    BY <1>1, <1>3 DEF Delete, Arrives, queue, tasks, history
  <1>4. CASE Scrub(j)
    BY <1>1, <1>4, ScrubOf DEF Scrub, wiki, queue, tasks
  <1>5. CASE BatchDies(j) \/ Batch(j)
    BY <1>1, <1>5 DEF BatchDies, Batch, Drop, Skip, Plan, ApplyFolder, Create, Retract, AddRows,
                      ScheduleRows, Settle, BatchFrame, queue, tasks, history
  <1> QED  BY <1>2, <1>3, <1>4, <1>5 DEF LaneStep

LEMMA TasksStep ==
    ASSUME TypeOK, Next
    PROVE  TasksOK'
  <1> USE TypeParts
  <1>1. ASSUME rows' = rows, task' \in [Tasks -> TaskOf(rows)]
        PROVE  TasksOK'
    BY <1>1 DEF TasksOK
  <1>2. CASE UNCHANGED <<rows, task>>
    BY <1>1, <1>2 DEF TasksOK
  <1>3. ASSUME NEW j \in Jobs, LaneStep(j), ~AddRows(j)
        PROVE  TasksOK'
    BY <1>1, <1>2, <1>3, LaneFrame, ScheduleType
  <1>4. ASSUME NEW j \in Jobs, AddRows(j)
        PROVE  TasksOK'
    <2>1. CASE kb = "deleted"
      BY <1>2, <1>4, <2>1 DEF AddRows, queue
    <2>2. CASE kb # "deleted"
      <3>1. rows \in Nat /\ rows' \in Nat /\ rows < rows'
        BY <1>4, <2>2, Added DEF TasksOK
      <3>4. task' = task /\ rows <= rows'
        BY <1>4, <3>1 DEF AddRows
      <3>2. TaskOf(rows) \subseteq TaskOf(rows')
        BY <3>1, <3>4, TaskGrows
      <3> QED  BY <3>1, <3>2, <3>4 DEF TasksOK
    <2> QED  BY <2>1, <2>2
  <1>6. ASSUME NEW t \in Tasks, Start(t) \/ Discard(t) \/ More(t) \/ Fail(t) \/ PassDies(t)
        PROVE  TasksOK'
    <2>1. rows' = rows
      BY <1>6 DEF Start, Discard, More, Fail, PassDies, PassFrame, queue
    <2>2. task' \in [Tasks -> TaskOf(rows)]
      <3>1. "peek" \in TaskPcs
        BY DEF TaskPcs, Passing
      <3>2. CASE Start(t)
        BY <3>1, <3>2, TaskGoesType, EndedType DEF Start, Ended
      <3>3. CASE Discard(t)
        BY <3>3, EndedType DEF Discard
      <3>4. CASE More(t)
        BY <3>4, MoreType DEF EndsOf
      <3>5. CASE Fail(t) \/ PassDies(t)
        BY <3>5, AgainType DEF Fail, PassDies
      <3> QED  BY <1>6, <3>2, <3>3, <3>4, <3>5
    <2> QED  BY <1>1, <2>1, <2>2
  <1>7. ASSUME NEW t \in Tasks, Work(t) \/ Prune(t) \/ Trim(t)
        PROVE  TasksOK'
    <2>1. rows' = rows
      BY <1>7 DEF Work, Prune, Trim, PassFrame
    <2>2. \/ \E pc \in TaskPcs : TaskGoes(t, pc)
          \/ task' = [task EXCEPT ![t].pc = "trim", ![t].deferred = TRUE]
      BY <1>7 DEF Work, Prune, Trim, TaskPcs, Passing
    <2> QED  BY <1>1, <2>1, <2>2, TaskGoesType, DefersType
  <1>8. ASSUME NEW t \in Tasks, Peek(t)
        PROVE  TasksOK'
    <2>1. rows' = rows
      BY <1>8 DEF Peek, PassFrame
    <2>2. CASE task' = Ended(t)
      BY <1>1, <2>1, <2>2, EndedType
    <2>3. CASE task' # Ended(t)
      <3> DEFINE first == {r \in lane : Cardinality({q \in lane : q.id < r.id}) < Peeked}
      <3>1. PICK pc \in {"discard", "work"} :
               task' = [task EXCEPT ![t].pc = pc, ![t].rows = {r.id : r \in first}]
        BY <1>8, <2>3 DEF Peek
      <3>2. {r.id : r \in first} \subseteq 1..rows
        BY DEF WikiOK
      <3> HIDE DEF first
      <3>3. [task[t] EXCEPT !.pc = pc, !.rows = {r.id : r \in first}] \in TaskOf(rows)
        BY <3>2, TaskType DEF TaskOf, TaskPcs, Passing
      <3>4. [task EXCEPT ![t] = [task[t] EXCEPT !.pc = pc, !.rows = {r.id : r \in first}]]
               \in [Tasks -> TaskOf(rows)]
        BY <3>3, TaskSet
      <3> QED  BY <1>1, <2>1, <3>1, <3>4
    <2> QED  BY <2>2, <2>3
  <1>9. CASE Recover \/ Expire \/ ChangeKB
    <2>1. rows' = rows /\ (task' = task \/ Schedule)
      BY <1>9 DEF Recover, Expire, ChangeKB, queue, tasks
    <2> QED  BY <1>1, <1>2, <2>1, ScheduleType
  <1> QED
    BY <1>3, <1>4, <1>6, <1>7, <1>8, <1>9 DEF Next, Pass, Environment, LaneStep

-----------------------------------------------------------------------------
(* The folders, the pages and the rows.                                    *)

Cuts(t) == Peek(t) \/ Discard(t) \/ Trim(t)

LEMMA OnlyLeaves ==
    ASSUME NEW t \in Tasks, Cuts(t)
    PROVE  /\ UNCHANGED <<kb, folders, created, page, retracted, op, rows>>
           /\ lane' \subseteq lane
  BY DEF Cuts, Peek, Discard, Trim, PassFrame

LEMMA WikiStep ==
    ASSUME TypeOK, Next
    PROVE  WikiOK'
  <1> USE TypeParts DEF OpsOK, TasksOK, WikiOK
  <1>1. CASE UNCHANGED <<kb, folders, created, page, retracted, lane, rows>>
    BY <1>1
  <1>2. ASSUME NEW j \in Jobs,
               Ingest(j) \/ Scrub(j) \/ Skip(j) \/ Drop(j) \/ ApplyFolder(j) \/ Settle(j)
                 \/ BatchDies(j) \/ ScheduleRows(j)
        PROVE  WikiOK'
    BY <1>1, <1>2 DEF Ingest, Arrives, Scrub, Skip, Drop, ApplyFolder, Settle, BatchDies,
                      ScheduleRows, BatchFrame, queue, wiki
  <1>3. ASSUME NEW j \in Jobs, Plan(j)
        PROVE  WikiOK'
    <2>1. UNCHANGED <<kb, page, retracted, lane, rows>>
      BY <1>3 DEF Plan, BatchFrame, queue
    <2>2. CASE created' = created /\ folders' = folders
      BY <1>1, <2>1, <2>2
    <2>3. CASE created' = created + 1 /\ folders' = {created + 1}
      <3>1. 0..created \subseteq 0..created' /\ 1..created \subseteq 1..created'
        BY <2>3
      <3>2. folders' \subseteq 1..created'
        BY <2>3
      <3>3. lane' \subseteq [id : 1..rows', folders : SUBSET (1..created')]
        BY <2>1, <3>1
      <3>4. page' \in [Docs -> 0..created'] /\ retracted' \subseteq 1..created'
        BY <2>1, <3>1
      <3> QED  BY <2>1, <3>2, <3>3, <3>4
    <2> QED  BY <1>3, <2>2, <2>3 DEF Plan
  <1>4. ASSUME NEW j \in Jobs, Create(j)
        PROVE  WikiOK'
    BY <1>4, CreateOf
  <1>5. ASSUME NEW j \in Jobs, Retract(j)
        PROVE  WikiOK'
    <2>1. op'[j].folders \subseteq 1..created
      BY <1>5, RetractOf, OpType, LeftType
    <2> QED  BY <1>5, <2>1, RetractOf
  <1>6. ASSUME NEW j \in Jobs, AddRows(j)
        PROVE  WikiOK'
    <2>1. UNCHANGED <<kb, folders, created, page, retracted>>
      BY <1>6, RowsOf
    <2>2. CASE kb = "deleted"
      BY <1>1, <1>6, <2>1, <2>2 DEF AddRows, queue
    <2>3. CASE kb # "deleted"
      <3>1. 1..rows \subseteq 1..rows'
        BY <1>6, <2>3, Added
      <3>2. lane' \subseteq [id : 1..rows', folders : SUBSET (1..created)]
        BY <1>6, <2>3, <3>1, Added
      <3> QED  BY <2>1, <3>2
    <2> QED  BY <2>2, <2>3
  <1>7. ASSUME NEW j \in Jobs, Delete(j)
        PROVE  WikiOK'
    BY <1>7, DeleteOf, LeftType, OpType
  <1>8. ASSUME NEW t \in Tasks, Start(t) \/ Work(t) \/ More(t) \/ Fail(t) \/ PassDies(t)
        PROVE  WikiOK'
    BY <1>1, <1>8 DEF Start, Work, More, Fail, PassDies, PassFrame, queue, wiki
  <1>9. ASSUME NEW t \in Tasks, Prune(t)
        PROVE  WikiOK'
    BY <1>9 DEF Prune, PassFrame
  <1>10. ASSUME NEW t \in Tasks, Peek(t) \/ Discard(t) \/ Trim(t)
         PROVE  WikiOK'
    BY <1>10, OnlyLeaves DEF Cuts
  <1>11. CASE Recover \/ Expire \/ ChangeKB
    BY <1>11 DEF Recover, Expire, ChangeKB, queue, wiki
  <1> QED
    BY <1>2, <1>3, <1>4, <1>5, <1>6, <1>7, <1>8, <1>9, <1>10, <1>11 DEF Next, Batch, Pass,
       Environment

Reasons == {"nothing", "conflict", "archived", "swallowed", "lost", "abandoned"}

LEMMA Blamed ==
    ASSUME blame \in Reasons, Next
    PROVE  blame' \in Reasons
  <1> USE DEF Reasons
  <1>1. ASSUME Schedule
        PROVE  blame' \in Reasons
    BY <1>1 DEF Schedule
  <1>2. ASSUME NEW j \in Jobs, LaneStep(j)
        PROVE  blame' \in Reasons
    BY <1>1, <1>2 DEF LaneStep, Ingest, Delete, Scrub, BatchDies, Batch, Drop, Skip, Plan,
                      ApplyFolder, Create, Retract, AddRows, ScheduleRows, Settle, Gone,
                      BatchFrame, history
  <1>3. ASSUME NEW t \in Tasks, Start(t) \/ Peek(t) \/ Discard(t) \/ Work(t) \/ Prune(t) \/ Trim(t)
        PROVE  blame' \in Reasons
    BY <1>3 DEF Start, Peek, Discard, Work, Prune, Trim, PassFrame
  <1>4. ASSUME NEW t \in Tasks, More(t)
        PROVE  blame' \in Reasons
    BY <1>4 DEF More
  <1>5. ASSUME NEW t \in Tasks, Fail(t) \/ PassDies(t)
        PROVE  blame' \in Reasons
    BY <1>5 DEF Fail, PassDies, Again
  <1>6. CASE Recover \/ Expire \/ ChangeKB
    BY <1>1, <1>6 DEF Recover, Expire, ChangeKB, history
  <1> QED
    BY <1>2, <1>3, <1>4, <1>5, <1>6 DEF Next, Pass, Environment, LaneStep

LEMMA Budget ==
    ASSUME TypeOK, Next
    PROVE  ops' \in 0..MaxOps /\ troubles' \in 0..MaxTroubles
  <1>1. ops \in 0..MaxOps /\ troubles \in 0..MaxTroubles
    BY DEF TypeOK
  <1>2. ops' = ops \/ (ops < MaxOps /\ ops' = ops + 1)
    BY DEF Next, Batch, Pass, Environment, Ingest, Delete, Scrub, Arrives, Drop, Skip, Plan,
           ApplyFolder, Create, Retract, AddRows, ScheduleRows, Settle, BatchDies, BatchFrame,
           Start, Peek, Discard, Work, Prune, Trim, More, Fail, PassDies, PassFrame, Recover,
           Expire, ChangeKB
  <1>3. Fine \/ Trouble
    BY DEF Next, Batch, Pass, Environment, Ingest, Delete, Scrub, Arrives, Drop, Skip, Plan,
           ApplyFolder, Create, Retract, AddRows, ScheduleRows, Settle, BatchDies, BatchFrame,
           Start, Peek, Discard, Work, Prune, Trim, More, Fail, PassDies, PassFrame, Recover,
           Expire, ChangeKB, Fine
  <1> QED  BY <1>1, <1>2, <1>3 DEF Fine, Trouble

LEMMA Flags ==
    ASSUME TypeOK, Next
    PROVE  /\ lock' \in BOOLEAN /\ booting' \in BOOLEAN
           /\ raced' \in BOOLEAN /\ lapsed' \in BOOLEAN /\ scrubbed' \subseteq Docs
  <1> USE DEF TypeOK
  <1>1. ASSUME NEW j \in Jobs, LaneStep(j)
        PROVE  /\ UNCHANGED <<lock, booting, lapsed>>
               /\ raced' \in BOOLEAN /\ scrubbed' \subseteq Docs
    BY <1>1, LaneFrame
  <1>2. ASSUME NEW t \in Tasks, Pass(t) \/ Fail(t) \/ PassDies(t)
        PROVE  /\ UNCHANGED <<raced, lapsed, scrubbed>> /\ booting' \in BOOLEAN
               /\ lock' = lock \/ lock' \in BOOLEAN
    BY <1>2 DEF Pass, Start, Peek, Discard, Work, Prune, Trim, More, Fail, PassDies, PassFrame
  <1>3. CASE Recover \/ Expire \/ ChangeKB
    BY <1>3 DEF Recover, Expire, ChangeKB, tasks, history
  <1> QED
    BY <1>1, <1>2, <1>3 DEF Next, Environment, LaneStep

LEMMA RestStep ==
    ASSUME TypeOK, Next
    PROVE  RestOK'
  BY TypeParts, Blamed, Budget, Flags DEF RestOK, Reasons

-----------------------------------------------------------------------------
(***************************************************************************)
(* The operations of a document: the slug lock admits one at a time to its *)
(* page, which stays in the folder that it has; and only a scrub takes the *)
(* row away from an operation that is not over.                            *)
(***************************************************************************)
Shape(j) ==
    /\ op[j].pc = "idle" => op[j] = NoOp
    /\ op[j].pc \in {"planned", "create"} => op[j].kind = "ingest"
    /\ op[j].pc = "create" /\ page[Of[j]] # 0 => op[j].folders = {page[Of[j]]}
    /\ op[j].pc # "idle" /\ ~op[j].row =>
          kb = "deleted" \/ (op[j].kind = "ingest" /\ Of[j] \in scrubbed)

OneWrites ==
    \A i, j \in Jobs :
       Of[i] = Of[j] /\ op[i].pc = "create" /\ op[j].pc = "create" => i = j

Shaped == OneWrites /\ \A j \in Jobs : Shape(j)

LEMMA ShapedStep ==
    ASSUME TypeOK, Shaped, Next
    PROVE  Shaped'
  <1>1. \A i \in Jobs : Of[i] \in Docs
    BY OpType
  <1>2. \A d \in Docs : page[d] \in 0..created
    BY LeftType
  <1> USE DEF Shaped, OneWrites, Shape
  <1>3. ASSUME NEW j \in Jobs, LaneStep(j)
        PROVE  Shaped'
    <2>1. kb' = kb /\ scrubbed \subseteq scrubbed'
      BY <1>3, LaneFrame
    <2>2. NoOp.pc = "idle"
      BY DEF NoOp
    <2>3. ASSUME page' = page, Others(j), Shape(j)', op'[j].pc # "create"
          PROVE  Shaped'
      BY <2>1, <2>3 DEF Others
    <2>4. CASE Ingest(j)
      BY <2>1, <2>3, <2>4, IngestOf
    <2>5. CASE Delete(j)
      <3>1. Shape(j)' /\ op'[j].pc # "create"
        BY <2>1, <2>5, DeleteOf
      <3>2. \A i \in Jobs : page'[Of[i]] # 0 => page'[Of[i]] = page[Of[i]]
        BY <1>1, <2>5, DeleteOf
      <3> QED  BY <2>1, <2>5, <3>1, <3>2, DeleteOf DEF Others
    <2>6. CASE Scrub(j)
      <3>1. page' = page /\ Others(j)
        BY <2>6, ScrubOf
      <3>2. CASE op'[j] = NoOp
        BY <2>1, <2>2, <2>3, <3>1, <3>2
      <3>3. CASE /\ op[j].kind = "ingest" /\ op'[j].kind = "ingest" /\ op'[j].pc = op[j].pc
                 /\ op'[j].folders = op[j].folders /\ op[j].row /\ Of[j] \in scrubbed'
        <4>1. op[j].pc # "idle"
          BY <3>3, NoOpType, OpType
        <4>2. Shape(j)'
          BY <3>1, <3>3, <4>1
        <4> QED  BY <2>1, <3>1, <3>3, <4>2 DEF Others
      <3> QED  BY <2>6, <3>2, <3>3, ScrubOf
    <2>7. CASE Drop(j)
      BY <2>1, <2>2, <2>3, <2>7, DropOf DEF Drop, wiki
    <2>8. CASE Skip(j) \/ Plan(j)
      <3>1. Like(op'[j], op[j]) /\ op[j].kind = "ingest" /\ op[j].pc # "idle"
            /\ op'[j].pc \in {"settle", "planned"} /\ page' = page /\ Others(j)
        BY <2>8, SkipOf, PlanOf DEF Skip
      <3> QED  BY <2>1, <2>3, <3>1 DEF Like
    <2>9. CASE ApplyFolder(j)
      <3>1. Like(op'[j], op[j]) /\ op[j].pc = "planned" /\ page' = page /\ Others(j)
        BY <2>9, FolderOf
      <3>2. CASE op'[j].pc = "rows"
        BY <2>1, <2>3, <3>1, <3>2 DEF Like
      <3>3. CASE op'[j].pc = "create" /\ op'[j].folders = Its(j) /\ Unlocked(j)
        <4>1. Shape(j)'
          BY <2>1, <3>1, <3>3 DEF Like, Its
        <4>2. OneWrites'
          BY <3>1, <3>3 DEF Unlocked, Others
        <4> QED  BY <2>1, <3>1, <4>1, <4>2 DEF Others
      <3> QED  BY <2>9, <3>2, <3>3, FolderOf
    <2>10. CASE Create(j)
      <3>1. Like(op'[j], op[j]) /\ op[j].pc = "create" /\ op'[j].pc = "rows" /\ Others(j)
        BY <2>10, CreateOf
      <3>2. \A i \in Jobs : op'[i].pc = "create" => page'[Of[i]] = page[Of[i]]
        <4>1. TAKE i \in Jobs
        <4>2. HAVE op'[i].pc = "create"
        <4>3. i # j /\ op[i].pc = "create"
          BY <3>1, <4>2 DEF Others
        <4>4. Of[i] # Of[j]
          BY <3>1, <4>3
        <4> QED  BY <1>1, <2>10, <4>4, CreateOf
      <3> QED  BY <2>1, <3>1, <3>2 DEF Others, Like
    <2>11. CASE Retract(j)
      <3>1. Like(op'[j], op[j]) /\ op[j].pc = "queued" /\ op'[j].pc = "rows" /\ Others(j)
        BY <2>11, RetractOf DEF Retract
      <3>2. \A i \in Jobs : page'[Of[i]] # 0 => page'[Of[i]] = page[Of[i]]
        BY <1>1, <2>11, RetractOf
      <3> QED  BY <2>1, <3>1, <3>2 DEF Others, Like
    <2>12. CASE AddRows(j)
      BY <2>1, <2>3, <2>12, RowsOf
    <2>13. CASE ScheduleRows(j)
      BY <2>1, <2>3, <2>13, ScheduleOf
    <2>14. CASE Settle(j) \/ BatchDies(j)
      BY <2>1, <2>2, <2>3, <2>14, EndOf DEF Like
    <2> QED
      BY <1>3, <2>4, <2>5, <2>6, <2>7, <2>8, <2>9, <2>10, <2>11, <2>12, <2>13, <2>14
      DEF LaneStep, Batch
  <1>4. CASE (\E t \in Tasks : Pass(t) \/ Fail(t) \/ PassDies(t)) \/ Recover \/ Expire
    BY <1>4, PassOf
  <1>5. CASE ChangeKB
    <2>1. kb' = "deleted" \/ (op' = op /\ kb # "deleted" /\ kb' # "deleted")
      BY <1>5, ChangeOf DEF ChangeKB
    <2> QED  BY <1>5, <2>1, ChangeOf
  <1> QED  BY <1>3, <1>4, <1>5 DEF Next, Environment, LaneStep

-----------------------------------------------------------------------------
(* What each step leaves of the tasks.                                     *)

\* The pass of t goes on to pc, with the same rows.
OnTo(t, pc) ==
    /\ task'[t].pc = pc /\ task'[t].rows = task[t].rows
    /\ \A s \in Tasks \ {t} : task'[s] = task[s]

LEMMA StartOf ==
    ASSUME TypeOK, NEW t \in Tasks, Start(t)
    PROVE  /\ task[t].pc = "waiting"
           /\ \/ lock /\ lock' = lock /\ task'[t] = NoTask
              \/ ~lock /\ lock' /\ task'[t].pc = "peek"
           /\ \A s \in Tasks \ {t} : task'[s] = task[s]
  <1>1. TasksOK /\ lock \in BOOLEAN /\ "peek" \in TaskPcs
    BY TypeParts DEF RestOK, TaskPcs, Passing
  <1> QED  BY <1>1, EndedType, TaskGoesType DEF Start, Ended

LEMMA PeekOf ==
    ASSUME TypeOK, NEW t \in Tasks, Peek(t)
    PROVE  /\ task[t].pc = "peek"
           /\ \/ task'[t] = NoTask /\ lock' = FALSE /\ lane' = {} /\ (lane = {} \/ kb = "deleted")
              \/ /\ task'[t].pc = IF kb = "plain" THEN "discard" ELSE "work"
                 /\ lock' = lock /\ lane' = lane
           /\ \A s \in Tasks \ {t} : task'[s] = task[s]
  <1>1. TasksOK /\ task \in [Tasks -> TaskOf(rows)]
    BY TypeParts DEF TasksOK
  <1>2. CASE lane = {} \/ kb = "deleted"
    BY <1>1, <1>2, EndedType DEF Peek
  <1>3. CASE ~(lane = {} \/ kb = "deleted")
    <2> DEFINE first == {r \in lane : Cardinality({q \in lane : q.id < r.id}) < Peeked}
               pc == IF kb = "plain" THEN "discard" ELSE "work"
               new == [task[t] EXCEPT !.pc = pc, !.rows = {r.id : r \in first}]
    <2>1. /\ task' = [task EXCEPT ![t].pc = pc, ![t].rows = {r.id : r \in first}]
          /\ lock' = lock /\ lane' = lane /\ task[t].pc = "peek"
      BY <1>3 DEF Peek
    <2> HIDE DEF first, pc
    <2>2. new.pc = pc
      BY <1>1 DEF TaskOf
    <2>3. task'[t] = new /\ \A s \in Tasks \ {t} : task'[s] = task[s]
      BY <1>1, <2>1
    <2> QED  BY <2>1, <2>2, <2>3 DEF pc
  <1> QED  BY <1>2, <1>3

LEMMA DiscardOf ==
    ASSUME TypeOK, NEW t \in Tasks, Discard(t)
    PROVE  /\ task[t].pc = "discard" /\ task'[t] = NoTask /\ lock' = FALSE
           /\ \A s \in Tasks \ {t} : task'[s] = task[s]
  BY TypeParts, EndedType DEF Discard

LEMMA WorkOf ==
    ASSUME TypeOK, NEW t \in Tasks, Work(t)
    PROVE  /\ task[t].pc = "work" /\ UNCHANGED <<lock, lane, folders>>
           /\ \/ OnTo(t, "trim") /\ (task'[t].deferred \/ Prunes(t) = {})
              \/ OnTo(t, "prune") /\ \A j \in Jobs : ~op[j].row
  <1>1. TasksOK /\ {"trim", "prune"} \subseteq TaskPcs
    BY TypeParts DEF TaskPcs, Passing
  <1>2. task[t].pc = "work" /\ UNCHANGED <<lock, lane, folders>>
    BY DEF Work
  <1>3. \/ TaskGoes(t, "trim") /\ Prunes(t) = {}
        \/ task' = [task EXCEPT ![t].pc = "trim", ![t].deferred = TRUE]
        \/ TaskGoes(t, "prune") /\ \A j \in Jobs : ~op[j].row
    BY DEF Work, IngestPending
  <1> QED  BY <1>1, <1>2, <1>3, TaskGoesType, DefersType DEF OnTo

LEMMA PruneOf ==
    ASSUME TypeOK, NEW t \in Tasks, Prune(t)
    PROVE  /\ task[t].pc = "prune" /\ OnTo(t, "trim") /\ UNCHANGED <<lock, lane>>
           /\ \/ folders' = folders \ {f \in UNION {r.folders : r \in Prunes(t)} : \A d \in Docs : page[d] # f}
              \/ folders' = folders /\ task'[t].deferred
  <1>1. TasksOK /\ "trim" \in TaskPcs
    BY TypeParts DEF TaskPcs, Passing
  <1>2. task[t].pc = "prune" /\ UNCHANGED <<lock, lane>>
    BY DEF Prune
  <1>3. \/ /\ TaskGoes(t, "trim")
           /\ folders' = folders \ {f \in UNION {r.folders : r \in Prunes(t)} : \A d \in Docs : page[d] # f}
        \/ /\ task' = [task EXCEPT ![t].pc = "trim", ![t].deferred = TRUE]
           /\ folders' = folders
    BY DEF Prune
  <1> QED  BY <1>1, <1>2, <1>3, TaskGoesType, DefersType DEF OnTo

LEMMA TrimOf ==
    ASSUME TypeOK, NEW t \in Tasks, Trim(t)
    PROVE  /\ task[t].pc = "trim" /\ OnTo(t, "more") /\ UNCHANGED <<lock, folders>>
           /\ lane' = lane \ (Mine(t) \ IF task[t].deferred THEN Prunes(t) ELSE {})
  <1>1. TasksOK /\ "more" \in TaskPcs
    BY TypeParts DEF TaskPcs, Passing
  <1> QED  BY <1>1, TaskGoesType DEF Trim, OnTo

LEMMA MoreOf ==
    ASSUME TypeOK, NEW t \in Tasks, More(t)
    PROVE  /\ task[t].pc = "more" /\ EndsOf(t) /\ lock' = FALSE /\ UNCHANGED <<lane, folders>>
  BY TypeParts, MoreType DEF More

LEMMA AgainOf ==
    ASSUME TypeOK, NEW t \in Tasks, Fail(t) \/ PassDies(t)
    PROVE  /\ task'[t].pc \in {"waiting", "archived", "none"} /\ task'[t].rows = {}
           /\ \A s \in Tasks \ {t} : task'[s] = task[s]
           /\ task[t].pc # "waiting" => Active(t)
           /\ lock' = lock \/ (Active(t) /\ Fail(t))
           /\ UNCHANGED <<lane, folders>>
  <1>1. Again(t)
    BY DEF Fail, PassDies
  <1>2. task[t].pc # "waiting" => Active(t)
    BY DEF Fail, PassDies, Active, Passing
  <1>3. lock' = lock \/ (Active(t) /\ Fail(t))
    BY <1>2, TypeParts DEF Fail, PassDies, RestOK
  <1> QED  BY <1>1, <1>2, <1>3, TypeParts, AgainType DEF Fail, PassDies, queue, wiki

-----------------------------------------------------------------------------
(***************************************************************************)
(* As long as the lock has not lapsed, the one pass that is under way      *)
(* holds it.                                                               *)
(***************************************************************************)
Locked ==
    \/ lapsed
    \/ /\ \A s, t \in Tasks : Active(s) /\ Active(t) => s = t
       /\ (\E t \in Tasks : Active(t)) => lock

LEMMA Inactive ==
    /\ "none" \notin Passing /\ "waiting" \notin Passing /\ "archived" \notin Passing
    /\ NoTask.pc = "none" /\ Waiting.pc = "waiting"
  BY NoTaskType DEF Passing

LEMMA LockedStep ==
    ASSUME TypeOK, Locked, Next
    PROVE  Locked'
  <1> USE Inactive DEF Locked, Active
  <1>1. ASSUME UNCHANGED <<lapsed, lock>>, \A s \in Tasks : Active(s)' => Active(s)
        PROVE  Locked'
    BY <1>1
  <1>2. ASSUME Schedule, UNCHANGED <<lapsed, lock>>
        PROVE  Locked'
    <2>1. "stable" \in Tasks
      BY DEF Tasks
    <2> QED  BY <1>1, <1>2, <2>1, TypeParts, ScheduleType
  <1>3. ASSUME NEW j \in Jobs, LaneStep(j)
        PROVE  Locked'
    BY <1>1, <1>2, <1>3, LaneFrame
  <1>4. ASSUME NEW t \in Tasks, Pass(t)
        PROVE  Locked'
    <2>1. lapsed' = lapsed
      BY <1>4 DEF Pass, Start, Peek, Discard, Work, Prune, Trim, More, PassFrame
    <2>2. CASE Start(t)
      <3>1. CASE lock
        <4>1. \A s \in Tasks : Active(s)' => Active(s)
          BY <2>2, <3>1, StartOf
        <4> QED  BY <1>1, <2>1, <2>2, <3>1, <4>1, StartOf
      <3>2. CASE ~lock
        <4>1. lapsed \/ \A s \in Tasks : Active(s)' => s = t
          BY <2>2, <3>2, StartOf
        <4> QED  BY <2>1, <2>2, <3>2, <4>1, StartOf
      <3> QED  BY <3>1, <3>2
    <2>3. CASE Peek(t)
      <3>1. Active(t)
        BY <2>3, PeekOf DEF Passing
      <3> QED  BY <2>1, <2>3, <3>1, PeekOf
    <2>4. CASE Discard(t)
      <3>1. Active(t)
        BY <2>4, DiscardOf DEF Passing
      <3>2. \A s \in Tasks : Active(s)' => Active(s) /\ s # t
        BY <2>4, DiscardOf
      <3> QED  BY <2>1, <3>1, <3>2
    <2>5. CASE Work(t) \/ Prune(t) \/ Trim(t)
      <3>1. Active(t) /\ lock' = lock /\ \A s \in Tasks \ {t} : task'[s] = task[s]
        BY <2>5, WorkOf, PruneOf, TrimOf DEF OnTo, Passing
      <3> QED  BY <1>1, <2>1, <3>1
    <2>6. CASE More(t)
      <3>1. Active(t)
        BY <2>6, MoreOf DEF Passing
      <3>2. \A s \in Tasks : Active(s)' => Active(s) /\ s # t
        BY <2>6, MoreOf DEF EndsOf
      <3> QED  BY <2>1, <3>1, <3>2
    <2> QED  BY <1>4, <2>2, <2>3, <2>4, <2>5, <2>6 DEF Pass
  <1>5. ASSUME NEW t \in Tasks, Fail(t) \/ PassDies(t)
        PROVE  Locked'
    <2>1. lapsed' = lapsed
      BY <1>5 DEF Fail, PassDies, PassFrame
    <2>2. \A s \in Tasks : Active(s)' => Active(s) /\ s # t
      BY <1>5, AgainOf
    <2>3. lock' = lock \/ Active(t)
      BY <1>5, AgainOf
    <2> QED  BY <2>1, <2>2, <2>3
  <1>6. CASE Recover
    BY <1>1, <1>2, <1>6 DEF Recover
  <1>7. CASE Expire
    BY <1>7 DEF Expire
  <1>8. CASE ChangeKB
    BY <1>1, <1>8 DEF ChangeKB, tasks, history
  <1> QED  BY <1>3, <1>4, <1>5, <1>6, <1>7, <1>8 DEF Next, Environment, LaneStep

-----------------------------------------------------------------------------
(***************************************************************************)
(* The folders of pages and plans exist, and whoever is about to prune has *)
(* seen no ingest row and no new one has come; so what a batch has planned *)
(* still is the plan of a batch whose row was scrubbed.                    *)
(***************************************************************************)
Stands(d) == d \notin scrubbed /\ page[d] # 0 => page[d] \in folders

Planned(j) ==
    Of[j] \notin scrubbed /\ op[j].kind = "ingest" /\ op[j].pc \in {"planned", "create"} =>
       op[j].folders \subseteq folders

Unseen(t, j) == task[t].pc = "prune" => ~op[j].row \/ op[j].kind = "retract"

Sheltered ==
    \/ raced \/ kb = "deleted"
    \/ /\ \A d \in Docs : Stands(d)
       /\ \A j \in Jobs : Planned(j)
       /\ \A t \in Tasks, j \in Jobs : Unseen(t, j)

LEMMA ShelteredLane ==
    ASSUME TypeOK, Shaped, Sheltered, NEW j \in Jobs, LaneStep(j)
    PROVE  Sheltered'
  <1> SUFFICES ASSUME ~raced', kb' # "deleted"
               PROVE  /\ \A d \in Docs : Stands(d)'
                      /\ \A i \in Jobs : Planned(i)'
                      /\ \A t \in Tasks, i \in Jobs : Unseen(t, i)'
    BY DEF Sheltered
  <1>1. /\ kb' = kb /\ kb # "deleted" /\ scrubbed \subseteq scrubbed' /\ ~raced
        /\ \A i \in Jobs : Of[i] \in Docs
    BY LaneFrame, OpType DEF Ingest
  <1>2. /\ \A d \in Docs : Stands(d)
        /\ \A i \in Jobs : Planned(i)
        /\ \A t \in Tasks, i \in Jobs : Unseen(t, i)
    BY <1>1 DEF Sheltered
  <1>3. \A t \in Tasks : task'[t].pc = "prune" => task[t].pc = "prune"
    <2>1. task' = task \/ Schedule
      BY LaneFrame
    <2>2. "stable" \in Tasks
      BY DEF Tasks
    <2> QED  BY <2>1, <2>2, TypeParts, ScheduleType, Inactive
  <1>4. ASSUME Others(j), folders \subseteq folders', \A d \in Docs : page'[d] \in {0, page[d]},
               Planned(j)', \A t \in Tasks : Unseen(t, j)'
        PROVE  /\ \A d \in Docs : Stands(d)'
               /\ \A i \in Jobs : Planned(i)'
               /\ \A t \in Tasks, i \in Jobs : Unseen(t, i)'
    BY <1>1, <1>2, <1>3, <1>4 DEF Stands, Planned, Unseen, Others
  <1>5. ASSUME op'[j].kind = op[j].kind, op'[j].row => op[j].row
        PROVE  \A t \in Tasks : Unseen(t, j)'
    BY <1>2, <1>3, <1>5 DEF Unseen
  <1>6. ASSUME op'[j].row => op'[j].kind = "retract"
        PROVE  \A t \in Tasks : Unseen(t, j)'
    BY <1>6 DEF Unseen
  <1>7. CASE Ingest(j)
    <2>1. \A t \in Tasks : task[t].pc # "prune"
      BY <1>7 DEF Ingest
    <2>2. \A t \in Tasks : Unseen(t, j)'
      BY <1>3, <2>1 DEF Unseen
    <2> QED  BY <1>4, <1>7, <2>2, IngestOf DEF Planned
  <1>8. CASE Delete(j)
    <2>1. Others(j) /\ folders' = folders /\ \A d \in Docs : page'[d] \in {0, page[d]}
      BY <1>8, DeleteOf
    <2>2. CASE op'[j].kind = "retract"
      BY <1>4, <1>6, <2>1, <2>2 DEF Planned
    <2>3. CASE op'[j] = op[j]
      <3>1. Planned(j)'
        BY <1>1, <1>2, <2>1, <2>3 DEF Planned
      <3> QED  BY <1>4, <1>5, <2>1, <2>3, <3>1
    <2> QED  BY <1>8, <2>2, <2>3, DeleteOf
  <1>9. CASE Scrub(j)
    <2>1. CASE op'[j] = NoOp
      BY <1>4, <1>6, <1>9, <2>1, ScrubOf DEF Planned, NoOp
    <2>2. CASE op'[j] # NoOp
      BY <1>4, <1>6, <1>9, <2>2, ScrubOf DEF Planned
    <2> QED  BY <2>1, <2>2
  <1>10. CASE Drop(j)
    BY <1>1, <1>10, DropOf
  <1>11. CASE Skip(j)
    BY <1>4, <1>5, <1>11, SkipOf DEF Planned, Like
  <1>12. CASE Plan(j)
    <2>1. PICK f : op'[j].folders = {f} /\ f \in folders' \cup Left(Of[j])
      BY <1>12, PlanOf
    <2>2. folders \subseteq folders'
      BY <1>12, PlanOf
    <2>3. Planned(j)'
      BY <1>1, <1>2, <2>1, <2>2 DEF Planned, Stands, Left
    <2> QED  BY <1>4, <1>5, <1>12, <2>2, <2>3, PlanOf DEF Like
  <1>13. CASE ApplyFolder(j)
    <2>1. Planned(j)'
      BY <1>13, FolderOf DEF Planned
    <2> QED  BY <1>4, <1>5, <1>13, <2>1, FolderOf DEF Like
  <1>14. CASE Create(j)
    <2>1. /\ op[j].pc = "create" /\ op'[j].pc = "rows" /\ Like(op'[j], op[j]) /\ Others(j)
          /\ folders' = folders /\ \A d \in Docs \ {Of[j]} : page'[d] = page[d]
          /\ page'[Of[j]] \in {page[Of[j]]} \cup op[j].folders
      BY <1>14, CreateOf
    <2>2. op[j].kind = "ingest"
      BY <2>1 DEF Shaped, Shape
    <2>3. \A d \in Docs : Stands(d)'
      BY <1>1, <1>2, <2>1, <2>2 DEF Stands, Planned
    <2>4. \A t \in Tasks : Unseen(t, j)'
      BY <1>5, <2>1 DEF Like
    <2> QED  BY <1>1, <1>2, <1>3, <2>1, <2>3, <2>4 DEF Planned, Unseen, Others
  <1>15. CASE Retract(j)
    <2>1. Planned(j)' /\ \A d \in Docs : page'[d] \in {0, page[d]}
      BY <1>15, RetractOf DEF Planned
    <2> QED  BY <1>4, <1>5, <1>15, <2>1, RetractOf DEF Like
  <1>16. CASE AddRows(j) \/ ScheduleRows(j)
    <2>1. Planned(j)' /\ op'[j].kind = op[j].kind /\ op'[j].row = op[j].row /\ Others(j)
          /\ UNCHANGED <<folders, page>>
      BY <1>16, RowsOf, ScheduleOf DEF Planned
    <2> QED  BY <1>4, <1>5, <2>1
  <1>17. CASE Settle(j) \/ BatchDies(j)
    <2>1. Others(j) /\ UNCHANGED <<folders, page>>
      BY <1>17, EndOf
    <2>2. CASE op'[j] = NoOp
      BY <1>4, <1>6, <2>1, <2>2 DEF Planned, NoOp
    <2>3. CASE op'[j].pc = "queued" /\ Like(op'[j], op[j])
      BY <1>4, <1>5, <2>1, <2>3 DEF Planned, Like
    <2> QED  BY <1>17, <2>2, <2>3, EndOf
  <1> QED
    BY <1>7, <1>8, <1>9, <1>10, <1>11, <1>12, <1>13, <1>14, <1>15, <1>16, <1>17
    DEF LaneStep, Batch

LEMMA ShelteredStep ==
    ASSUME TypeOK, Shaped, Sheltered, Next
    PROVE  Sheltered'
  <1> USE DEF Sheltered, Stands, Planned, Unseen
  <1>1. ASSUME NEW j \in Jobs, LaneStep(j)
        PROVE  Sheltered'
    BY <1>1, ShelteredLane
  <1>2. ASSUME NEW t \in Tasks, Pass(t)
        PROVE  Sheltered'
    <2>1. UNCHANGED <<raced, scrubbed, kb, op, page>>
      BY <1>2, PassOf
    <2>2. CASE Work(t)
      BY <2>1, <2>2, WorkOf DEF OnTo
    <2>3. CASE Prune(t)
      <3>1. \A s \in Tasks : task'[s].pc = "prune" => task[s].pc = "prune"
        BY <2>3, PruneOf DEF OnTo
      <3>2. /\ \A f \in folders \ folders' : \A d \in Docs : page[d] # f
            /\ folders' \subseteq folders
        BY <2>3, PruneOf
      <3>3. task[t].pc = "prune"
        BY <2>3, PruneOf
      <3>4. raced \/ kb = "deleted" \/
            \A j \in Jobs : Of[j] \notin scrubbed /\ op[j].kind = "ingest" =>
                               op[j].pc \notin {"planned", "create"}
        BY <3>3, OpType DEF Shaped, Shape
      <3> QED  BY <2>1, <3>1, <3>2, <3>4
    <2>4. CASE ~Work(t) /\ ~Prune(t)
      <3>1. folders' = folders
        BY <1>2, <2>4 DEF Pass, Start, Peek, Discard, Trim, More
      <3>2. \A s \in Tasks : task'[s].pc = "prune" => task[s].pc = "prune"
        <4>1. CASE Start(t) \/ Discard(t) \/ Trim(t)
          BY <4>1, StartOf, DiscardOf, TrimOf, Inactive DEF OnTo
        <4>2. CASE Peek(t)
          BY <4>2, PeekOf, Inactive
        <4>3. CASE More(t)
          BY <4>3, MoreOf, Inactive DEF EndsOf
        <4> QED  BY <1>2, <2>4, <4>1, <4>2, <4>3 DEF Pass
      <3> QED  BY <2>1, <3>1, <3>2
    <2> QED  BY <2>2, <2>3, <2>4
  <1>3. ASSUME NEW t \in Tasks, Fail(t) \/ PassDies(t)
        PROVE  Sheltered'
    <2>1. UNCHANGED <<raced, scrubbed, kb, op, page>>
      BY <1>3, PassOf
    <2> QED  BY <1>3, <2>1, AgainOf
  <1>4. CASE Recover \/ Expire
    <2>1. UNCHANGED <<raced, scrubbed, kb, op, page>>
      BY <1>4, PassOf
    <2>2. UNCHANGED folders /\ (task' = task \/ Schedule)
      BY <1>4 DEF Recover, Expire, wiki
    <2>3. "stable" \in Tasks
      BY DEF Tasks
    <2>4. \A t \in Tasks : task'[t].pc = "prune" => task[t].pc = "prune"
      BY <2>2, <2>3, TypeParts, ScheduleType, Inactive
    <2> QED  BY <2>1, <2>2, <2>4
  <1>5. CASE ChangeKB
    BY <1>5, ChangeOf DEF ChangeKB
  <1> QED  BY <1>1, <1>2, <1>3, <1>4, <1>5 DEF Next, Environment, LaneStep

-----------------------------------------------------------------------------
(***************************************************************************)
(* Rows that wait are attended: only what is no longer a wiki is           *)
(* discarded, and whoever leaves rows behind has scheduled a task, or      *)
(* failed to in one of the ways that are told apart.                       *)
(***************************************************************************)
Plain == \A t \in Tasks : task[t].pc = "discard" => kb # "wiki"

Looks(t) == task[t].pc \in {"waiting", "peek", "work", "prune", "trim", "more"}

LEMMA Scheduled ==
    ASSUME TypeOK, Schedule
    PROVE  (\E t \in Tasks : Looks(t)') \/ blame' # "nothing"
  <1>1. "stable" \in Tasks /\ task \in [Tasks -> TaskOf(rows)]
    BY TypeParts DEF Tasks, TasksOK
  <1>2. CASE task["stable"].pc \in {"none", "waiting", "peek"}
    <2>1. task'["stable"].pc \in {"waiting", "peek"}
      BY <1>1, <1>2, Inactive DEF Schedule
    <2> QED  BY <1>1, <2>1 DEF Looks
  <1>3. CASE task["stable"].pc \notin {"none", "waiting", "peek"}
    <2>1. blame' \in {"archived", "conflict"}
      BY <1>3 DEF Schedule
    <2> QED  BY <2>1
  <1> QED  BY <1>2, <1>3

LEMMA LeftBehind ==
    ASSUME TypeOK, NEW t \in Tasks, More(t)
    PROVE  (\E s \in Tasks : Looks(s)') \/ blame' # "nothing" \/ lane' = {}
  <1>1. /\ TasksOK /\ "stable" \in Tasks /\ Retries \subseteq Tasks
        /\ Ended(t) \in [Tasks -> TaskOf(rows)] /\ Ended(t)[t].pc = "none"
        /\ \A s \in Tasks \ {t} : Ended(t)[s] = task[s]
    BY TypeParts, EndedType, Inactive DEF Tasks
  <1>2. task[t].pc = "more" /\ lane' = lane
    BY DEF More
  <1>3. CASE task' = Ended(t) /\ \E s \in Tasks : task[s].pc \in {"waiting", "peek"}
    BY <1>1, <1>2, <1>3 DEF Looks
  <1>4. CASE \E s \in Tasks : task' = [Ended(t) EXCEPT ![s] = Waiting]
    BY <1>1, <1>4, Inactive DEF Looks
  <1>5. CASE task[t].deferred /\ ScheduleRetry(t)
    BY <1>1, <1>3, <1>4, <1>5 DEF ScheduleRetry
  <1>6. CASE lane = {}
    BY <1>2, <1>6
  <1>7. CASE lane # {} /\ task["stable"].pc \in {"waiting", "peek"} /\ task' = Ended(t)
    BY <1>1, <1>3, <1>7
  <1>8. CASE blame' \in {"conflict", "lost"}
    BY <1>8
  <1> QED  BY <1>1, <1>4, <1>5, <1>6, <1>7, <1>8 DEF More

LEMMA AttendedStep ==
    ASSUME TypeOK, Shaped, Plain, SomeoneFinalizes, Next
    PROVE  Plain' /\ SomeoneFinalizes'
  <1>1. kb' = "wiki" => kb = "wiki"
    BY LaneFrame, PassOf, ChangeOf DEF Next, Environment, LaneStep
  <1> USE DEF SomeoneFinalizes
  <1>2. ASSUME NEW j \in Jobs, LaneStep(j)
        PROVE  Plain' /\ SomeoneFinalizes'
    <2>1. Plain'
      <3>1. task' = task \/ Schedule
        BY <1>2, LaneFrame
      <3>2. "stable" \in Tasks
        BY DEF Tasks
      <3> QED  BY <1>1, <3>1, <3>2, TypeParts, ScheduleType, Inactive DEF Plain
    <2>2. CASE ScheduleRows(j)
      BY <2>1, <2>2, ScheduleOf, Scheduled DEF Looks
    <2>3. CASE AddRows(j)
      BY <1>1, <2>1, <2>3, RowsOf
    <2>4. CASE Drop(j)
      BY <1>1, <2>1, <2>4, DropOf
    <2>5. ASSUME ~AddRows(j), ~ScheduleRows(j),
                 \/ blame' = "abandoned"
                 \/ blame' = blame /\ \A i \in Jobs : op[i].owes => op'[i].owes
          PROVE  SomeoneFinalizes'
      <3>1. lane' = lane /\ task' = task
        BY <1>2, <2>5, LaneFrame
      <3> QED  BY <1>1, <2>5, <3>1
    <2>6. CASE Ingest(j) \/ Delete(j)
      <3>1. op[j].pc = "idle" /\ Others(j) /\ blame' = blame
        BY <2>6, IngestOf, DeleteOf DEF Ingest, Delete, history
      <3>2. ~op[j].owes
        BY <3>1, NoOpType, OpType DEF Shaped, Shape
      <3>3. \A i \in Jobs : op[i].owes => op'[i].owes
        BY <3>1, <3>2 DEF Others
      <3>4. ~AddRows(j) /\ ~ScheduleRows(j)
        BY <3>1 DEF AddRows, ScheduleRows
      <3> QED  BY <2>1, <2>5, <3>1, <3>3, <3>4
    <2>7. CASE Scrub(j) \/ Settle(j) \/ BatchDies(j)
      <3>1. \/ blame' = "abandoned"
            \/ blame' = blame /\ \A i \in Jobs : op[i].owes => op'[i].owes
        BY <2>7, ScrubOf, EndOf DEF Like, Others
      <3> QED  BY <2>1, <2>2, <2>3, <2>5, <3>1
    <2>8. CASE Skip(j) \/ Plan(j) \/ ApplyFolder(j) \/ Create(j) \/ Retract(j)
      <3>1. blame' = blame /\ \A i \in Jobs : op[i].owes => op'[i].owes
        BY <2>8, SkipOf, PlanOf, FolderOf, CreateOf, RetractOf DEF Like, Others
      <3> QED  BY <2>1, <2>2, <2>3, <2>5, <3>1
    <2> QED  BY <1>2, <2>2, <2>3, <2>4, <2>6, <2>7, <2>8 DEF LaneStep, Batch
  <1>3. ASSUME NEW t \in Tasks, Start(t)
        PROVE  Plain' /\ SomeoneFinalizes'
    <2>1. Plain'
      BY <1>1, <1>3, StartOf, Inactive DEF Plain
    <2>2. CASE ~lock
      BY <1>3, <2>1, <2>2, StartOf
    <2>3. CASE lock /\ \E p \in Tasks : Active(p)
      <3>1. PICK p \in Tasks : Active(p)
        BY <2>3
      <3>2. p # t /\ task'[p] = task[p]
        BY <1>3, <3>1, StartOf DEF Active, Passing
      <3> QED  BY <1>1, <2>1, <3>1, <3>2 DEF Active, Passing, Plain
    <2>4. CASE lock /\ ~\E p \in Tasks : Active(p)
      BY <1>3, <2>1, <2>4 DEF Start
    <2> QED  BY <2>2, <2>3, <2>4, TypeParts DEF RestOK
  <1>4. ASSUME NEW t \in Tasks, Peek(t)
        PROVE  Plain' /\ SomeoneFinalizes'
    <2>1. CASE task'[t] = NoTask
      BY <1>1, <1>4, <2>1, PeekOf, Inactive DEF Plain
    <2>2. CASE task'[t].pc = "discard" /\ kb = "plain"
      BY <1>1, <1>4, <2>2, PeekOf DEF Plain
    <2>3. CASE task'[t].pc = "work"
      BY <1>1, <1>4, <2>3, PeekOf DEF Plain
    <2> QED  BY <1>4, <2>1, <2>2, <2>3, PeekOf
  <1>5. ASSUME NEW t \in Tasks, Discard(t)
        PROVE  Plain' /\ SomeoneFinalizes'
    BY <1>1, <1>5, DiscardOf, Inactive DEF Plain
  <1>6. ASSUME NEW t \in Tasks, Work(t) \/ Prune(t) \/ Trim(t)
        PROVE  Plain' /\ SomeoneFinalizes'
    <2>1. task'[t].pc \in {"prune", "trim", "more"} /\ \A s \in Tasks \ {t} : task'[s] = task[s]
      BY <1>6, WorkOf, PruneOf, TrimOf DEF OnTo
    <2> QED  BY <1>1, <2>1 DEF Plain
  <1>7. ASSUME NEW t \in Tasks, More(t)
        PROVE  Plain' /\ SomeoneFinalizes'
    <2>1. Plain'
      BY <1>1, <1>7, MoreOf, Inactive DEF Plain, EndsOf
    <2> QED  BY <1>7, <2>1, LeftBehind DEF Looks
  <1>8. ASSUME NEW t \in Tasks, Fail(t) \/ PassDies(t)
        PROVE  Plain' /\ SomeoneFinalizes'
    <2>1. Plain'
      BY <1>1, <1>8, AgainOf DEF Plain
    <2>2. task'[t].pc = "waiting" \/ blame' = "archived"
      <3>1. Again(t) /\ task \in [Tasks -> TaskOf(rows)]
        BY <1>8, TypeParts DEF Fail, PassDies, TasksOK
      <3>2. CASE task[t].tries < MaxRetry
        <4>1. task' = [task EXCEPT ![t] = [Waiting EXCEPT !.tries = task[t].tries + 1]]
          BY <3>1, <3>2 DEF Again
        <4>2. Waiting \in TaskOf(rows)
          BY TypeParts, NoTaskType DEF TasksOK
        <4> QED  BY <3>1, <4>1, <4>2, Inactive DEF TaskOf
      <3>3. CASE ~(task[t].tries < MaxRetry)
        BY <3>1, <3>3 DEF Again
      <3> QED  BY <3>2, <3>3
    <2> QED  BY <2>1, <2>2
  <1>9. CASE Recover \/ Expire \/ ChangeKB
    <2>1. task' = task \/ Schedule
      BY <1>9 DEF Recover, Expire, ChangeKB, tasks
    <2>2. "stable" \in Tasks
      BY DEF Tasks
    <2>3. Plain'
      BY <1>1, <2>1, <2>2, TypeParts, ScheduleType, Inactive DEF Plain
    <2>4. CASE Schedule
      BY <2>3, <2>4, Scheduled DEF Looks
    <2>5. CASE ~Schedule /\ kb' = "wiki"
      <3>1. UNCHANGED <<kb, lane, op, task, blame>>
        BY <1>1, <1>9, <2>5 DEF Recover, Expire, ChangeKB, wiki, queue
      <3> QED  BY <2>3, <3>1
    <2> QED  BY <2>3, <2>4, <2>5
  <1> QED
    BY <1>2, <1>3, <1>4, <1>5, <1>6, <1>7, <1>8, <1>9 DEF Next, Pass, Environment,
       LaneStep

-----------------------------------------------------------------------------
(***************************************************************************)
(* An empty folder that was left behind is named by a row that no pass     *)
(* will trim before it has pruned the folder, or by a retract that will    *)
(* queue one.  The row that a retract has queued is out of the reach of    *)
(* every prune until the retract has ended: no prune begins before, for    *)
(* nobody scrubs the row of a retract.                                     *)
(***************************************************************************)
Spares(t, r) == task[t].pc = "trim" /\ r.id \in task[t].rows => task[t].deferred

Saved(f) == \E r \in lane : f \in r.folders /\ \A t \in Tasks : Spares(t, r)

Safe(f) ==
    \E r \in lane :
       /\ f \in r.folders
       /\ \A t \in Tasks : Spares(t, r) /\ (task[t].pc = "prune" => r.id \notin task[t].rows)

Retracts(j, f) == op[j].kind = "retract" /\ f \in op[j].folders

Knows(f) == (\E d \in Docs : page[d] = f) \/ (\E j \in Jobs : Retracts(j, f)) \/ Saved(f)

Queued ==
    \A j \in Jobs : op[j].kind = "retract" /\ op[j].pc \in {"schedule", "settle"} =>
       \A f \in op[j].folders : Safe(f)

Known == \A f \in folders \cap retracted : Knows(f)

Remembered == kb = "wiki" => Queued /\ Known

\* Most steps take no row away, and bring no pass to its prune or its trim.
Calm ==
    /\ lane \subseteq lane'
    /\ \A t \in Tasks : task'[t].pc \in {"prune", "trim"} => task'[t] = task[t]

LEMMA CalmKeeps ==
    ASSUME Calm, NEW f
    PROVE  /\ Saved(f) => Saved(f)'
           /\ Safe(f) => Safe(f)'
           /\ Safe(f) => Saved(f)
  <1>1. \A t \in Tasks, r \in lane :
           /\ Spares(t, r) => Spares(t, r)'
           /\ (task[t].pc = "prune" => r.id \notin task[t].rows) =>
                 (task'[t].pc = "prune" => r.id \notin task'[t].rows)
    BY DEF Calm, Spares
  <1>2. lane \subseteq lane'
    BY DEF Calm
  <1> QED  BY <1>1, <1>2 DEF Saved, Safe

LEMMA LaneCalm ==
    ASSUME TypeOK, NEW j \in Jobs, LaneStep(j), kb' = "wiki"
    PROVE  Calm /\ kb = "wiki"
  <1>1. kb = "wiki" /\ (task' = task \/ Schedule)
    BY LaneFrame
  <1>2. lane \subseteq lane'
    BY <1>1, LaneFrame, Added
  <1>3. "stable" \in Tasks
    BY DEF Tasks
  <1> QED  BY <1>1, <1>2, <1>3, TypeParts, ScheduleType, Inactive DEF Calm

LEMMA OtherCalm ==
    ASSUME TypeOK, Plain, kb' = "wiki",
           \/ Recover \/ Expire
           \/ \E t \in Tasks : \/ Start(t) \/ Peek(t) \/ Discard(t) \/ More(t) \/ Fail(t)
                               \/ PassDies(t)
    PROVE  Calm /\ kb = "wiki" /\ folders' = folders
  <1>1. kb = "wiki" /\ folders' = folders
    BY DEF Recover, Expire, Start, Peek, Discard, More, Fail, PassDies, PassFrame, wiki
  <1>2. ASSUME NEW t \in Tasks, Start(t) \/ Fail(t) \/ PassDies(t) \/ More(t)
        PROVE  Calm
    <2>1. lane' = lane
      BY <1>2 DEF Start, Fail, PassDies, More, queue
    <2>2. CASE Start(t)
      BY <2>1, <2>2, StartOf, Inactive DEF Calm
    <2>3. CASE Fail(t) \/ PassDies(t)
      BY <2>1, <2>3, AgainOf DEF Calm
    <2>4. CASE More(t)
      BY <2>1, <2>4, MoreOf, Inactive DEF Calm, EndsOf
    <2> QED  BY <1>2, <2>2, <2>3, <2>4
  <1>3. ASSUME NEW t \in Tasks, Peek(t)
        PROVE  Calm
    <2>1. lane \subseteq lane'
      BY <1>1, <1>3, PeekOf
    <2>2. task'[t].pc \in {"none", "discard", "work"}
      BY <1>3, PeekOf, Inactive
    <2> QED  BY <1>3, <2>1, <2>2, PeekOf DEF Calm
  <1>4. ASSUME NEW t \in Tasks, Discard(t)
        PROVE  FALSE
    BY <1>1, <1>4, DiscardOf DEF Plain
  <1>5. ASSUME Recover \/ Expire
        PROVE  Calm
    <2>1. lane' = lane /\ (task' = task \/ Schedule)
      BY <1>1, <1>5 DEF Recover, Expire, queue, tasks
    <2>2. "stable" \in Tasks
      BY DEF Tasks
    <2> QED  BY <2>1, <2>2, TypeParts, ScheduleType, Inactive DEF Calm
  <1>6. Calm
    BY <1>2, <1>3, <1>4, <1>5
  <1> QED  BY <1>1, <1>6

LEMMA RememberedLane ==
    ASSUME TypeOK, Shaped, Remembered, NEW j \in Jobs, LaneStep(j)
    PROVE  Remembered'
  <1> SUFFICES ASSUME kb' = "wiki"
               PROVE  Queued' /\ Known'
    BY DEF Remembered
  <1>1. kb = "wiki" /\ Queued /\ Known
    BY LaneCalm DEF Remembered
  <1>2. \A f : (Saved(f) => Saved(f)') /\ (Safe(f) => Safe(f)') /\ (Safe(f) => Saved(f))
    BY LaneCalm, CalmKeeps
  <1>3. \A d \in Docs : Left(d) = {page[d]} \ {0}
    BY DEF Left
  <1>4. \A i \in Jobs : Of[i] \in Docs
    BY OpType
  <1>5. \A f \in folders : f # 0
    BY TypeParts DEF WikiOK, OpsOK
  <1> USE DEF Queued, Known, Knows, Retracts
  \* The operation goes on, and still knows what it knew.
  <1>6. ASSUME Others(j), folders' \cap retracted' \subseteq folders \cap retracted,
               \A d \in Docs : page'[d] = page[d],
               \A f : Retracts(j, f) => Retracts(j, f)' \/ Safe(f),
               op'[j].kind = "retract" /\ op'[j].pc \in {"schedule", "settle"} =>
                  \A f \in op'[j].folders : Safe(f)'
        PROVE  Queued' /\ Known'
    <2>1. Queued'
      BY <1>1, <1>2, <1>6 DEF Others
    <2>2. ASSUME NEW f \in folders' \cap retracted'
          PROVE  Knows(f)'
      <3>1. Knows(f)
        BY <1>1, <1>6, <2>2
      <3> QED  BY <1>2, <1>6, <3>1 DEF Others
    <2> QED  BY <2>1, <2>2
  <1>7. CASE Ingest(j)
    <2>1. op[j].kind = "none"
      BY <1>7, IngestOf, NoOpType, OpType DEF Shaped, Shape
    <2> QED  BY <1>6, <1>7, <2>1, IngestOf
  <1>8. CASE Delete(j)
    <2>1. /\ op[j].kind = "none" /\ Others(j) /\ folders' = folders
          /\ \A d \in Docs : page'[d] = page[d] \/ (d = Of[j] /\ page'[d] = 0)
      BY <1>8, DeleteOf, NoOpType, OpType DEF Shaped, Shape
    <2>2. Queued'
      BY <1>1, <1>2, <1>8, <2>1, DeleteOf DEF Others
    <2>3. ASSUME NEW f \in folders' \cap retracted'
          PROVE  Knows(f)'
      <3>1. CASE f \in Left(Of[j])
        BY <1>8, <2>1, <2>3, <3>1, DeleteOf
      <3>2. CASE f \notin Left(Of[j])
        <4>1. Knows(f)
          BY <1>1, <1>8, <2>1, <2>3, <3>2, DeleteOf
        <4>2. CASE \E d \in Docs : page[d] = f
          BY <1>3, <1>4, <1>5, <2>1, <2>3, <3>2, <4>2
        <4>3. CASE \E i \in Jobs : Retracts(i, f)
          BY <2>1, <4>3 DEF Others
        <4> QED  BY <1>2, <4>1, <4>2, <4>3
      <3> QED  BY <3>1, <3>2
    <2> QED  BY <2>2, <2>3
  <1>9. CASE Scrub(j)
    <2>1. op[j].kind = "ingest" /\ op'[j].kind # "retract"
      BY <1>9, ScrubOf, NoOpType, OpType
    <2> QED  BY <1>6, <1>9, <2>1, ScrubOf
  <1>10. CASE Drop(j)
    BY <1>1, <1>10, DropOf
  <1>11. CASE Skip(j)
    BY <1>6, <1>11, SkipOf DEF Like
  <1>12. CASE Plan(j)
    <2>1. retracted' = retracted /\ retracted \subseteq 1..created /\ created \in Nat
      BY <1>12, PlanOf, TypeParts DEF WikiOK, OpsOK
    <2>2. folders' \cap retracted' \subseteq folders \cap retracted
      BY <1>12, <2>1, PlanOf
    <2> QED  BY <1>6, <1>12, <2>2, PlanOf DEF Like
  <1>13. CASE ApplyFolder(j)
    <2>1. op[j].kind = "ingest"
      BY <1>13, FolderOf DEF Shaped, Shape
    <2> QED  BY <1>6, <1>13, <2>1, FolderOf DEF Like
  <1>14. CASE Create(j)
    <2>1. op[j].kind = "ingest" /\ op[j].pc = "create" /\ Like(op'[j], op[j]) /\ Others(j)
          /\ UNCHANGED <<folders, retracted>>
      BY <1>14, CreateOf DEF Shaped, Shape
    <2>2. page[Of[j]] # 0 => page'[Of[j]] = page[Of[j]]
      BY <1>14, <2>1, CreateOf DEF Shaped, Shape
    <2>3. \A f \in folders, d \in Docs : page[d] = f => page'[d] = f
      BY <1>5, <1>14, <2>2, CreateOf
    <2>4. Queued'
      BY <1>1, <1>2, <2>1 DEF Others, Like
    <2>5. ASSUME NEW f \in folders' \cap retracted'
          PROVE  Knows(f)'
      <3>1. Knows(f) /\ f \in folders
        BY <1>1, <2>1, <2>5
      <3> QED  BY <1>2, <2>1, <2>3, <3>1 DEF Others, Like
    <2> QED  BY <2>4, <2>5
  <1>15. CASE Retract(j)
    <2>1. /\ op[j].kind = "retract" /\ op'[j].kind = "retract" /\ op'[j].pc = "rows"
          /\ op'[j].folders = op[j].folders \cup Left(Of[j]) /\ Others(j)
          /\ folders' = folders /\ retracted' = retracted \cup op'[j].folders
          /\ \A d \in Docs \ {Of[j]} : page'[d] = page[d]
      BY <1>15, RetractOf DEF Like
    <2>2. Queued'
      BY <1>1, <1>2, <2>1 DEF Others
    <2>3. ASSUME NEW f \in folders' \cap retracted'
          PROVE  Knows(f)'
      <3>1. CASE f \in op'[j].folders
        BY <2>1, <3>1
      <3>2. CASE f \notin op'[j].folders
        <4>1. Knows(f) /\ f # 0
          BY <1>1, <1>5, <2>1, <2>3, <3>2
        <4>2. CASE \E d \in Docs : page[d] = f
          BY <1>3, <1>4, <2>1, <3>2, <4>1, <4>2
        <4>3. CASE \E i \in Jobs : Retracts(i, f)
          BY <2>1, <3>2, <4>3 DEF Others
        <4> QED  BY <1>2, <4>1, <4>2, <4>3
      <3> QED  BY <3>1, <3>2
    <2> QED  BY <2>2, <2>3
  <1>16. CASE AddRows(j)
    <2>1. ASSUME op'[j].kind = "retract", NEW f \in op'[j].folders
          PROVE  Safe(f)'
      <3>1. op[j].kind = "retract" /\ f \in op[j].folders /\ task' = task
        BY <1>16, <2>1, RowsOf
      <3>2. PICK r \in lane' : r.id \in (rows + 1)..rows' /\ f \in r.folders
        BY <1>1, <1>16, <3>1, Added
      <3>3. \A t \in Tasks : r.id \notin task[t].rows
        BY <3>2, TypeParts, TaskType DEF TasksOK
      <3> QED  BY <3>1, <3>2, <3>3 DEF Safe, Spares
    <2> QED  BY <1>6, <1>16, <2>1, RowsOf
  <1>17. CASE ScheduleRows(j)
    <2>1. /\ op[j].pc = "schedule" /\ op'[j].folders = op[j].folders
          /\ op'[j].kind = op[j].kind
      BY <1>17, ScheduleOf
    <2> QED  BY <1>1, <1>2, <1>6, <1>17, <2>1, ScheduleOf
  <1>18. CASE Settle(j) \/ BatchDies(j)
    <2>1. CASE op'[j].pc = "queued" /\ op'[j].folders = op[j].folders /\ Like(op'[j], op[j])
      BY <1>6, <1>18, <2>1, EndOf DEF Like
    <2>2. CASE op'[j] = NoOp /\ (op[j].pc = "settle" \/ (op[j].pc # "idle" /\ ~op[j].row))
      <3>1. op[j].kind = "retract" => op[j].pc = "settle"
        BY <1>1, <2>2 DEF Shaped, Shape
      <3>2. op'[j].kind = "none"
        BY <2>2, NoOpType, OpType
      <3>3. \A f : Retracts(j, f) => Safe(f)
        BY <1>1, <3>1
      <3> QED  BY <1>6, <1>18, <3>2, <3>3, EndOf
    <2> QED  BY <1>18, <2>1, <2>2, EndOf
  <1> QED
    BY <1>7, <1>8, <1>9, <1>10, <1>11, <1>12, <1>13, <1>14, <1>15, <1>16, <1>17, <1>18
    DEF LaneStep, Batch

LEMMA RememberedPass ==
    ASSUME TypeOK, Shaped, Remembered, NEW t \in Tasks, Work(t) \/ Prune(t) \/ Trim(t)
    PROVE  Remembered'
  <1> SUFFICES ASSUME kb' = "wiki"
               PROVE  Queued' /\ Known'
    BY DEF Remembered
  <1>1. UNCHANGED <<op, page, retracted>> /\ kb = "wiki" /\ Queued /\ Known
    BY DEF Remembered, Work, Prune, Trim, PassFrame
  <1>2. /\ OnTo(t, "trim") \/ OnTo(t, "prune") \/ OnTo(t, "more")
        /\ \A s \in Tasks \ {t} : task'[s] = task[s]
    BY WorkOf, PruneOf, TrimOf DEF OnTo
  <1> USE DEF Queued, Known, Knows, Retracts
  <1>3. CASE Work(t)
    <2>1. lane' = lane /\ folders' = folders /\ task[t].pc = "work"
      BY <1>3, WorkOf
    <2>2. \A r \in lane : r.folders # {} /\ (\A s \in Tasks : Spares(s, r)) =>
             \A s \in Tasks : Spares(s, r)'
      <3>1. \A r \in lane : r.folders # {} => Spares(t, r)'
        BY <1>3, WorkOf DEF Spares, OnTo, Prunes, Mine
      <3> QED  BY <1>2, <3>1 DEF Spares
    <2>3. \A f : Saved(f) => Saved(f)'
      <3>1. ASSUME NEW f, NEW r \in lane, f \in r.folders, \A s \in Tasks : Spares(s, r)
            PROVE  Saved(f)'
        BY <2>1, <2>2, <3>1 DEF Saved
      <3> QED  BY <3>1 DEF Saved
    <2>4. Queued'
      <3>1. CASE OnTo(t, "prune")
        <4>1. \A j \in Jobs : ~op[j].row
          BY <1>3, <3>1, WorkOf DEF OnTo
        <4>2. \A j \in Jobs : op[j].kind = "retract" => op[j].pc = "idle"
          BY <1>1, <4>1 DEF Shaped, Shape
        <4> QED  BY <1>1, <4>2
      <3>2. CASE OnTo(t, "trim")
        <4>1. ASSUME NEW f, Safe(f)
              PROVE  Safe(f)'
          <5>1. PICK r \in lane :
                   /\ f \in r.folders
                   /\ \A s \in Tasks : /\ Spares(s, r)
                                       /\ task[s].pc = "prune" => r.id \notin task[s].rows
            BY <4>1 DEF Safe
          <5>2. \A s \in Tasks : Spares(s, r)'
            BY <2>2, <5>1
          <5>3. \A s \in Tasks : task'[s].pc = "prune" => r.id \notin task'[s].rows
            BY <1>2, <3>2, <5>1 DEF OnTo
          <5> QED  BY <2>1, <5>1, <5>2, <5>3 DEF Safe
        <4> QED  BY <1>1, <4>1
      <3> QED  BY <1>3, <3>1, <3>2, WorkOf
    <2> QED  BY <1>1, <2>1, <2>3, <2>4
  <1>4. CASE Prune(t)
    <2>1. lane' = lane /\ OnTo(t, "trim") /\ task[t].pc = "prune" /\ folders' \subseteq folders
      BY <1>4, PruneOf
    <2>2. \A f : Safe(f) => Safe(f)'
      BY <1>2, <2>1 DEF Safe, Spares, OnTo
    <2>3. ASSUME NEW f \in folders', f \in retracted, Saved(f)
          PROVE  Knows(f)'
      <3>1. PICK r \in lane : f \in r.folders /\ \A s \in Tasks : Spares(s, r)
        BY <2>3 DEF Saved
      <3>2. CASE r.id \notin task[t].rows \/ task'[t].deferred
        <4>1. \A s \in Tasks : Spares(s, r)'
          BY <1>2, <2>1, <3>1, <3>2 DEF Spares, OnTo
        <4> QED  BY <2>1, <3>1, <4>1 DEF Saved
      <3>3. CASE r.id \in task[t].rows /\ ~task'[t].deferred
        <4>1. f \in UNION {q.folders : q \in Prunes(t)}
          BY <3>1, <3>3 DEF Prunes, Mine
        <4>2. \E d \in Docs : page[d] = f
          BY <1>4, <2>3, <3>3, <4>1, PruneOf
        <4> QED  BY <1>1, <4>2
      <3> QED  BY <3>2, <3>3
    <2> QED  BY <1>1, <2>1, <2>2, <2>3
  <1>5. CASE Trim(t)
    <2>1. folders' = folders /\ OnTo(t, "more") /\ task[t].pc = "trim"
      BY <1>5, TrimOf
    <2>2. \A r \in lane : r.folders # {} /\ Spares(t, r) => r \in lane'
      BY <1>5, <2>1, TrimOf DEF Spares, Mine, Prunes
    <2>3. \A s \in Tasks, r \in lane : Spares(s, r) => Spares(s, r)'
      BY <1>2, <2>1 DEF Spares, OnTo
    <2>4. \A f : Saved(f) => Saved(f)'
      BY <2>2, <2>3 DEF Saved
    <2>5. \A f : Safe(f) => Safe(f)'
      BY <1>2, <2>1, <2>2, <2>3 DEF Safe, OnTo
    <2> QED  BY <1>1, <2>1, <2>4, <2>5
  <1> QED  BY <1>3, <1>4, <1>5

LEMMA RememberedStep ==
    ASSUME TypeOK, Shaped, Plain, Remembered, Next
    PROVE  Remembered'
  <1>1. CASE \/ Recover \/ Expire
             \/ \E t \in Tasks : \/ Start(t) \/ Peek(t) \/ Discard(t) \/ More(t) \/ Fail(t)
                                 \/ PassDies(t)
    <2> SUFFICES ASSUME kb' = "wiki"
                 PROVE  Queued' /\ Known'
      BY DEF Remembered
    <2>1. Calm /\ kb = "wiki" /\ folders' = folders
      BY <1>1, OtherCalm
    <2>2. UNCHANGED <<op, page, retracted>>
      BY <1>1, PassOf DEF Pass
    <2>3. \A f : (Saved(f) => Saved(f)') /\ (Safe(f) => Safe(f)')
      BY <2>1, CalmKeeps
    <2> QED  BY <2>1, <2>2, <2>3 DEF Remembered, Queued, Known, Knows, Retracts
  <1>2. CASE ChangeKB
    BY <1>2 DEF ChangeKB, Remembered
  <1> QED
    BY <1>1, <1>2, RememberedLane, RememberedPass DEF Next, Pass, Environment, LaneStep

-----------------------------------------------------------------------------
(* The invariants together.                                                *)

IInv ==
    /\ TypeOK /\ Shaped
    /\ Locked /\ Sheltered
    /\ Plain /\ SomeoneFinalizes
    /\ Remembered

LEMMA InvariantStarts == Init => IInv
  <1> SUFFICES ASSUME Init
               PROVE  IInv
    OBVIOUS
  <1>1. TypeOK
    <2>1. OpsOK /\ TasksOK
      BY NoOpType, NoTaskType DEF Init, OpsOK, TasksOK
    <2>2. WikiOK
      BY DEF Init, WikiOK
    <2>3. RestOK
      <3>1. ops \in 0..MaxOps /\ troubles \in 0..MaxTroubles
        BY DEF Init
      <3>2. /\ lock \in BOOLEAN /\ booting \in BOOLEAN
            /\ raced \in BOOLEAN /\ lapsed \in BOOLEAN
        BY DEF Init
      <3> QED  BY <3>1, <3>2 DEF Init, RestOK
    <2> QED  BY <2>1, <2>2, <2>3, TypeParts
  <1>2. \A j \in Jobs : op[j] = NoOp
    BY DEF Init
  <1>3. \A t \in Tasks : task[t].pc = "none"
    BY Inactive DEF Init
  <1>4. Shaped
    BY <1>2, NoOpType, TypeParts, <1>1 DEF Shaped, OneWrites, Shape, OpsOK
  <1>5. Sheltered
    BY <1>2, <1>3, NoOpType, TypeParts, <1>1
    DEF Init, Sheltered, Stands, Planned, Unseen, OpsOK
  <1>6. Locked /\ Plain
    BY <1>3, Inactive DEF Locked, Plain, Active
  <1>7. SomeoneFinalizes /\ Remembered
    BY <1>2, NoOpType, TypeParts, <1>1
    DEF Init, SomeoneFinalizes, Remembered, Queued, Known, OpsOK
  <1> QED  BY <1>1, <1>4, <1>5, <1>6, <1>7 DEF IInv

LEMMA InvariantStays == IInv /\ [Next]_vars => IInv'
  <1> SUFFICES ASSUME IInv, [Next]_vars
               PROVE  IInv'
    OBVIOUS
  <1>1. CASE Next
    <2>1. TypeOK'
      BY <1>1, OpsStep, TasksStep, WikiStep, RestStep, TypePartsNext DEF IInv
    <2>2. Shaped' /\ Locked' /\ Sheltered'
      BY <1>1, ShapedStep, LockedStep, ShelteredStep DEF IInv
    <2>3. Plain' /\ SomeoneFinalizes' /\ Remembered'
      BY <1>1, AttendedStep, RememberedStep DEF IInv
    <2> QED  BY <2>1, <2>2, <2>3 DEF IInv
  <1>2. CASE UNCHANGED vars
    <2>1. TypeOK' /\ Shaped'
      BY <1>2 DEF IInv, TypeOK, Shaped, OneWrites, Shape, vars, wiki, queue, tasks, history
    <2>2. Locked' /\ Sheltered' /\ Plain'
      BY <1>2 DEF IInv, Locked, Sheltered, Stands, Planned, Unseen, Plain, Active, vars, wiki,
                  queue, tasks, history
    <2>3. SomeoneFinalizes'
      BY <1>2 DEF IInv, SomeoneFinalizes, vars, wiki, queue, tasks, history
    <2>4. Remembered'
      BY <1>2 DEF IInv, Remembered, Queued, Known, Knows, Retracts, Saved, Safe, Spares, vars,
                  wiki, queue, tasks, history
    <2> QED  BY <2>1, <2>2, <2>3, <2>4 DEF IInv
  <1> QED  BY <1>1, <1>2

LEMMA InvariantKept == Spec => []IInv
  BY InvariantStarts, InvariantStays, PTL DEF Spec

-----------------------------------------------------------------------------
(***************************************************************************)
(* Every reachable state has the shape of the type invariant: the rows of  *)
(* the lane, the tasks, the pages and their folders.                       *)
(***************************************************************************)
THEOREM TypeCorrect == Spec => []TypeOK
  <1>1. IInv => TypeOK
    BY DEF IInv
  <1> QED  BY <1>1, InvariantKept, PTL

(***************************************************************************)
(* The passes over a wiki exclude each other until the lock lapses under   *)
(* one of them, for any number of tasks and whatever dies.                 *)
(***************************************************************************)
THEOREM PassesExclusive == Spec => []OnePass
  <1>1. IInv => OnePass
    BY DEF IInv, Locked, OnePass
  <1> QED  BY <1>1, InvariantKept, PTL

(***************************************************************************)
(* No folder is pruned under a page or a planned page, for any number of   *)
(* documents, operations and passes, but in the two ways the property      *)
(* names: a document is queued between the look at the ingest lane and the *)
(* prune, or its row is deleted under its batch.                           *)
(***************************************************************************)
THEOREM PrunesSafe == Spec => []FoldersKept
  <1>1. IInv => FoldersKept
    BY OpType DEF IInv, Sheltered, Stands, Planned, FoldersKept
  <1> QED  BY <1>1, InvariantKept, PTL

(***************************************************************************)
(* Rows that wait have a task, a pass or a batch that sees to them, unless *)
(* scheduling failed in one of the five named ways.                        *)
(***************************************************************************)
THEOREM RowsAttended == Spec => []SomeoneFinalizes
  <1>1. IInv => SomeoneFinalizes
    BY DEF IInv
  <1> QED  BY <1>1, InvariantKept, PTL

(***************************************************************************)
(* An empty folder whose retract was queued is not forgotten before it is  *)
(* pruned: the retract or a row of the lane names it.                      *)
(***************************************************************************)
THEOREM PrunesRemembered == Spec => []FoldersRemembered
  <1>1. ASSUME IInv
        PROVE  FoldersRemembered
    <2>1. kb = "wiki" => \A f \in folders \cap retracted : Knows(f)
      BY <1>1 DEF IInv, Remembered, Known
    <2>2. \A f : Knows(f) =>
             \/ \E d \in Docs : page[d] = f
             \/ \E j \in Jobs : op[j].kind = "retract" /\ f \in op[j].folders
             \/ \E r \in lane : f \in r.folders
      BY DEF Knows, Retracts, Saved
    <2> QED  BY <2>1, <2>2 DEF FoldersRemembered
  <1> QED  BY <1>1, InvariantKept, PTL

=============================================================================
