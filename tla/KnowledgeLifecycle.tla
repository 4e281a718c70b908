------------------------ MODULE KnowledgeLifecycle ------------------------
(***************************************************************************)
(* The life of one document from its upload to the end of its enrichment:  *)
(* the row of the knowledges table (parse_status and                       *)
(* pending_subtasks_count), the tasks that move it - document:process,     *)
(* knowledge:post_process and one subtask per sort of enrichment -, the    *)
(* user who cancels, deletes and reparses, and the sweep of the            *)
(* housekeeping cron.                                                      *)
(*                                                                         *)
(* Every read and every write of the row is a step of its own.  A write    *)
(* through UpdateKnowledge saves the whole row as the writer read it       *)
(* earlier, parse_status included; only the counter is left out of it.     *)
(*                                                                         *)
(* Time is not counted: outside the requests of the user, which are short,  *)
(* the row and its spans may at any moment have been untouched for longer  *)
(* than the threshold of the sweep.                                        *)
(***************************************************************************)
EXTENDS Integers, FiniteSets

CONSTANTS
    Kinds,       \* sorts of enrichment subtasks
    Summary,     \* the one that saves the whole row
    Wiki,        \* the one that is a row of task_pending_ops, not a task
    Plans,       \* the sets of subtasks a document may need
    MaxRetry,    \* asynq.MaxRetry of every task
    \* Bounds of the model:
    MaxAttempts, \* parse attempts of the document
    MaxTroubles  \* how often something happens that is not plain progress: a request to
                 \* reparse, cancel or delete that has an effect, an error that is retried,
                 \* a crash, a lost acknowledgement, a statement or an enqueue of a worker
                 \* that fails

ASSUME KnowledgeLifecycleAssumption ==
    /\ IsFiniteSet(Kinds) /\ Summary \in Kinds /\ Plans \subseteq SUBSET Kinds
    /\ Kinds \cap {"doc", "post"} = {}
    /\ MaxRetry \in Nat /\ MaxAttempts \in Nat \ {0} /\ MaxTroubles \in Nat

VARIABLES
    row,      \* status and count: parse_status and pending_subtasks_count
    latest,   \* LatestAttempt of the span tracker
    doc,      \* the document:process task of each attempt
    post,     \* the post-process task of each attempt
    sub,      \* the subtasks of each attempt
    user,     \* the request being handled
    sweep,    \* the housekeeping sweep
    troubles,
    \* History:
    seeded,   \* the attempt that seeded the counter last
    blame     \* what has gone wrong with the counter since

taskVars == <<doc, post, sub>>
history == <<seeded, blame>>
vars == <<row, latest, taskVars, user, sweep, troubles, history>>

Attempts == 1..MaxAttempts
NoAttempt == 0

InPipeline == {"pending", "processing", "finalizing"}
Aborted == {"cancelled", "deleting", "deleted"}
Statuses == InPipeline \cup Aborted \cup {"completed", "failed"}

(***************************************************************************)
(* A task that does not exist (none) or waits (queued) is not being worked *)
(* on.  A document task reads the row, marks it, parses, saves and         *)
(* enqueues post-processing.  Post-processing seeds the counter, fans out  *)
(* and releases the slots it could not fan out.  A subtask starts, reads   *)
(* the row, works - the summary saves the row before and after - and       *)
(* drains its slot in two statements.                                      *)
(***************************************************************************)
Idle == {"none", "queued"}
DocPcs == Idle \cup {"mark", "parse", "save", "enqueue", "deadletter"}
PostPcs == Idle \cup {"fast", "seed", "fanout", "promote", "deadletter"}
SubPcs == Idle \cup {"started", "save", "work", "drain", "promote"}

NoDoc == [pc |-> "none", tries |-> 0]
NoPost == [pc |-> "none", tries |-> 0, todo |-> {}, shortfall |-> 0]
NoSub == [pc |-> "none", tries |-> 0, copy |-> "none", drained |-> FALSE]
QueuedPost(n) == [pc |-> "queued", tries |-> n, todo |-> {}, shortfall |-> 0]
QueuedSub(n, gone) == [pc |-> "queued", tries |-> n, copy |-> "none", drained |-> gone]
NoSweep == [pc |-> "idle", seen |-> NoAttempt]

Rows == [status : Statuses, count : Nat]
DocTasks == [pc : DocPcs, tries : 0..MaxRetry]
PostTasks == [pc : PostPcs, tries : 0..MaxRetry, todo : SUBSET Kinds, shortfall : Nat]
SubTasks == [pc : SubPcs, tries : 0..MaxRetry, copy : Statuses \cup {"none"}, drained : BOOLEAN]

TypeOK ==
    /\ row \in Rows
    /\ latest \in Attempts
    /\ doc \in [Attempts -> DocTasks]
    /\ post \in [Attempts -> PostTasks]
    /\ sub \in [Attempts -> [Kinds -> SubTasks]]
    /\ user \in {"idle", "cancel", "dequeue", "again", "clear", "purge",
                "pending", "reset", "submit"}
    /\ sweep \in [pc : {"idle", "fail"}, seen : Attempts \cup {NoAttempt}]
    /\ troubles \in 0..MaxTroubles
    /\ seeded \in Attempts \cup {NoAttempt}
    /\ blame \subseteq {"taken", "lost"}

Init ==
    /\ row = [status |-> "pending", count |-> 0]
    /\ latest = 1
    /\ doc = [a \in Attempts |-> IF a = 1 THEN [NoDoc EXCEPT !.pc = "queued"] ELSE NoDoc]
    /\ post = [a \in Attempts |-> NoPost]
    /\ sub = [a \in Attempts |-> [k \in Kinds |-> NoSub]]
    /\ user = "idle" /\ sweep = NoSweep
    /\ troubles = 0
    /\ seeded = NoAttempt /\ blame = {}

-----------------------------------------------------------------------------
(* Statements about the row.  A deleted row is seen by none of them.       *)

\* UPDATE ... SET parse_status, without a condition on it.
SetStatus(r, s) == IF r.status = "deleted" THEN r ELSE [r EXCEPT !.status = s]

ResetCount(r) == IF r.status = "deleted" THEN r ELSE [r EXCEPT !.count = 0]

\* Mutant: the guard of the promotion by FinalizeSubtask is missing.
PromotedAnyway(r) == IF r.status = "finalizing" THEN [r EXCEPT !.status = "completed"] ELSE r

\* FinalizeSubtask, its two statements.
Decremented(r) ==
    IF r.status # "deleted" /\ r.count > 0 THEN [r EXCEPT !.count = @ - 1] ELSE r

Promoted(r) ==
    IF r.status = "finalizing" /\ r.count = 0 THEN [r EXCEPT !.status = "completed"] ELSE r

Write(r) == row' = r

Trouble == troubles < MaxTroubles /\ troubles' = troubles + 1

\* Requeued by asynq, the number of retries permitting.
Again(s) == s.tries < MaxRetry

(***************************************************************************)
(* What the counter cannot recover from.  lost: a slot whose owner ends    *)
(* without giving it back.  taken: a slot given back by somebody who has   *)
(* none, or the status overwritten with one that was read earlier; a task  *)
(* of a crashed post-process that seeds again is one, too.                 *)
(***************************************************************************)
Blame(guilty, b) ==
    /\ blame' = IF guilty /\ seeded # NoAttempt THEN blame \cup {b} ELSE blame
    /\ UNCHANGED seeded

-----------------------------------------------------------------------------
(* ProcessDocument of attempt a.                                           *)

DocGoes(a, pc) == doc' = [doc EXCEPT ![a].pc = pc]

DocEnds(a) == doc' = [doc EXCEPT ![a] = NoDoc]

\* The rest of the world during a step of a document task.
DocFrame == UNCHANGED <<latest, post, sub, user, sweep, history>>

\* The row is read twice before it is marked, the second time for an abort
\* only; nothing happens in between that the model would show.
DocStart(a) ==
    /\ doc[a].pc = "queued"
    /\ IF row.status \in Aborted \cup {"completed"} THEN DocEnds(a) ELSE DocGoes(a, "mark")
    /\ DocFrame /\ UNCHANGED <<row, troubles>>

DocMark(a) ==
    /\ doc[a].pc = "mark"
    /\ Write(SetStatus(row, "processing")) /\ DocGoes(a, "parse")
    /\ DocFrame /\ UNCHANGED troubles

\* What no retry would mend: a missing knowledge base, an unsupported file, a
\* quota, a failing index.
DocFail(a) ==
    /\ doc[a].pc \in {"mark", "parse"}
    /\ Write(SetStatus(row, "failed")) /\ DocEnds(a)
    /\ DocFrame /\ UNCHANGED troubles

\* A failure that is retried; the last one is written to the row, and the
\* dead-letter callback comes after it.
DocError(a) ==
    /\ doc[a].pc = "parse" /\ Trouble
    /\ IF Again(doc[a])
       THEN /\ doc' = [doc EXCEPT ![a] = [pc |-> "queued", tries |-> @.tries + 1]]
            /\ UNCHANGED row
       ELSE DocGoes(a, "deadletter") /\ Write(SetStatus(row, "failed"))
    /\ DocFrame

\* The embedding model cannot be had: the handler returns without a word.
DocGiveUp(a) ==
    /\ doc[a].pc = "parse" /\ Trouble
    /\ DocEnds(a)
    /\ DocFrame /\ UNCHANGED row

\* The checks of processChunks; the last of them is right before the save.
DocCheck(a) ==
    /\ doc[a].pc = "parse"
    /\ IF row.status \in Aborted THEN DocEnds(a) ELSE DocGoes(a, "save")
    /\ DocFrame /\ UNCHANGED <<row, troubles>>

\* finalizeIndexedKnowledgeState: without chunks the document is complete.
DocSave(a) ==
    /\ doc[a].pc = "save"
    /\ \E s \in {"processing", "completed"} : Write(SetStatus(row, s))
    /\ Blame(row.status = "finalizing", "taken")
    /\ DocGoes(a, "enqueue")
    /\ UNCHANGED <<latest, post, sub, user, sweep, troubles>>

DocEnqueue(a) ==
    /\ doc[a].pc = "enqueue"
    /\ \/ post' = [post EXCEPT ![a].pc = "queued"] /\ UNCHANGED troubles
       \/ Trouble /\ UNCHANGED post
    /\ DocEnds(a)
    /\ UNCHANGED <<row, latest, sub, user, sweep, history>>

\* newDeadLetterKnowledgeFailer, for both sorts of task.
DeadLetter(a) ==
    /\ \/ doc[a].pc = "deadletter" /\ DocEnds(a) /\ UNCHANGED post
       \/ post[a].pc = "deadletter" /\ post' = [post EXCEPT ![a] = NoPost] /\ UNCHANGED doc
    /\ Write(SetStatus(row, "failed"))
    /\ UNCHANGED <<latest, sub, user, sweep, troubles, history>>

-----------------------------------------------------------------------------
(* KnowledgePostProcess.Handle of attempt a.                               *)

PostGoes(a, pc) == post' = [post EXCEPT ![a].pc = pc]

PostEnds(a) == post' = [post EXCEPT ![a] = NoPost]

PostFrame == UNCHANGED <<latest, doc, user, sweep>>

\* Whoever is cancelled, deleted or past processing has nothing to do.
PostStart(a) ==
    /\ post[a].pc = "queued" /\ row.status # "deleted"
    /\ IF row.status = "processing"
       THEN \E plan \in Plans :
              post' = [post EXCEPT ![a].pc = IF plan = {} THEN "fast" ELSE "seed",
                                   ![a].todo = plan]
       ELSE PostEnds(a)
    /\ PostFrame /\ UNCHANGED <<row, sub, troubles, history>>

\* A document or a knowledge base that cannot be read is an error.
PostError(a) ==
    /\ post[a].pc = "queued"
    /\ IF row.status = "deleted" THEN UNCHANGED troubles ELSE Trouble
    /\ IF Again(post[a])
       THEN post' = [post EXCEPT ![a].tries = @ + 1]
       ELSE PostGoes(a, "deadletter")
    /\ PostFrame /\ UNCHANGED <<row, sub, history>>

\* Nothing to enrich: completed, whatever the status is by now.
PostFast(a) ==
    /\ post[a].pc = "fast"
    /\ Write(SetStatus(row, "completed")) /\ PostEnds(a)
    /\ Blame(row.status = "finalizing", "taken")
    /\ PostFrame /\ UNCHANGED <<sub, troubles>>

\* SetFinalizing.  One subtask of a sort per attempt is all the model holds.
PostSeed(a) ==
    /\ post[a].pc = "seed"
    /\ \A k \in post[a].todo : sub[a][k].pc = "none"
    /\ \/ /\ row.status = "processing"
          /\ Write([status |-> "finalizing", count |-> Cardinality(post[a].todo)])
          /\ PostGoes(a, "fanout")
          /\ seeded' = a
          /\ blame' = IF \A k \in Kinds : sub[a][k].pc = "none" THEN {} ELSE {"taken"}
          /\ UNCHANGED troubles
       \/ /\ IF row.status = "processing" THEN Trouble ELSE UNCHANGED troubles
          /\ PostEnds(a)
          /\ UNCHANGED <<row, history>>
    /\ PostFrame /\ UNCHANGED sub

\* The subtasks are enqueued, the wiki last; what cannot be enqueued is a
\* slot to release, unless it is the wiki's.
PostFanOut(a, k) ==
    /\ post[a].pc = "fanout" /\ k \in post[a].todo
    /\ k = Wiki => post[a].todo = {Wiki}
    /\ \/ /\ sub' = [sub EXCEPT ![a][k] = QueuedSub(0, FALSE)]
          /\ post' = [post EXCEPT ![a].todo = @ \ {k}]
          /\ UNCHANGED <<troubles, history>>
       \/ /\ k # Wiki
          /\ post' = [post EXCEPT ![a].todo = @ \ {k}, ![a].shortfall = @ + 1]
          /\ UNCHANGED <<sub, troubles, history>>
       \/ /\ k = Wiki /\ Trouble
          /\ post' = [post EXCEPT ![a].todo = @ \ {k}]
          /\ Blame(a = seeded, "lost") /\ UNCHANGED sub
    /\ PostFrame /\ UNCHANGED row

\* FinalizeSubtask for a slot without a task, its first statement.
PostRelease(a) ==
    /\ post[a].pc = "fanout" /\ post[a].todo = {} /\ post[a].shortfall > 0
    /\ \/ /\ Write(Decremented(row))
          /\ post' = [post EXCEPT ![a].pc = "promote", ![a].shortfall = @ - 1]
          /\ Blame(a # seeded /\ row.count > 0, "taken") /\ UNCHANGED troubles
       \/ /\ Trouble /\ PostEnds(a)
          /\ Blame(a = seeded, "lost") /\ UNCHANGED row
    /\ PostFrame /\ UNCHANGED sub

\* Its second statement.
PostPromote(a) ==
    /\ post[a].pc = "promote"
    /\ \/ /\ Write(Promoted(row)) /\ PostGoes(a, "fanout")
          /\ UNCHANGED <<troubles, history>>
       \/ /\ Trouble /\ PostEnds(a)
          /\ Blame(a = seeded /\ post[a].shortfall > 0, "lost") /\ UNCHANGED row
    /\ PostFrame /\ UNCHANGED sub

PostEnd(a) ==
    /\ post[a].pc = "fanout" /\ post[a].todo = {} /\ post[a].shortfall = 0
    /\ PostEnds(a)
    /\ PostFrame /\ UNCHANGED <<row, sub, troubles, history>>

-----------------------------------------------------------------------------
(* The subtask of sort k of attempt a.                                     *)

SubIs(a, k, s) == sub' = [sub EXCEPT ![a][k] = s]

SubGoes(a, k, pc) == sub' = [sub EXCEPT ![a][k].pc = pc]

\* The subtask is one of those the counter was seeded for, and has not drained.
Owes(a, k) ==
    /\ a = seeded
    /\ sub[a][k].pc \in {"queued", "started", "save", "work", "drain"}
    /\ ~sub[a][k].drained

SubFrame == UNCHANGED <<latest, doc, post, user, sweep>>

\* attemptSuperseded ends a subtask before it has registered its drain; the
\* batch that takes a wiki row asks only whether the document is alive.
SubStart(a, k) ==
    /\ sub[a][k].pc = "queued"
    /\ IF k # Wiki /\ latest > a
       THEN SubIs(a, k, NoSub) /\ Blame(Owes(a, k), "lost")
       ELSE SubGoes(a, k, "started") /\ UNCHANGED history
    /\ SubFrame /\ UNCHANGED <<row, troubles>>

\* Mutant: a return before the work is done does not drain.
SubReadReturns(a, k) ==
    /\ sub[a][k].pc = "started"
    /\ \/ SubIs(a, k, NoSub)
       \/ /\ row.status \notin Aborted
          /\ SubIs(a, k, [sub[a][k] EXCEPT !.pc = IF k = Summary THEN "save" ELSE "work",
                                           !.copy = IF k = Summary THEN row.status ELSE @])
    /\ SubFrame /\ UNCHANGED <<row, troubles, history>>

\* An aborted document needs no work, nor does a missing model; the summary
\* keeps the row it has read.
SubRead(a, k) ==
    /\ sub[a][k].pc = "started"
    /\ \/ SubGoes(a, k, "drain")
       \/ /\ row.status \notin Aborted
          /\ SubIs(a, k, [sub[a][k] EXCEPT !.pc = IF k = Summary THEN "save" ELSE "work",
                                           !.copy = IF k = Summary THEN row.status ELSE @])
    /\ SubFrame /\ UNCHANGED <<row, troubles, history>>

\* UpdateKnowledge: every column but the counter, as it was read.
SaveCopy(a, k) ==
    /\ Write(SetStatus(row, sub[a][k].copy))
    /\ Blame(row.status \notin {"deleted", sub[a][k].copy}, "taken")

\* The summary is marked as being generated.
SubSave(a, k) ==
    /\ sub[a][k].pc = "save"
    /\ SaveCopy(a, k) /\ SubGoes(a, k, "work")
    /\ SubFrame /\ UNCHANGED troubles

\* The handler ends: a result is terminal, and so is the last error; an error
\* that will be retried does not drain.
SubEnds(a, k) ==
    \/ SubGoes(a, k, "drain") /\ UNCHANGED troubles
    \/ /\ Again(sub[a][k]) /\ Trouble
       /\ SubIs(a, k, QueuedSub(sub[a][k].tries + 1, sub[a][k].drained))

SubWork(a, k) ==
    /\ sub[a][k].pc = "work" /\ SubEnds(a, k)
    /\ IF k = Summary THEN SaveCopy(a, k) ELSE UNCHANGED <<row, history>>
    /\ SubFrame

\* finalizeSubtaskDetached, its two statements; a failure of the first is logged.
SubDrain(a, k) ==
    /\ sub[a][k].pc = "drain"
    /\ \/ /\ Write(Decremented(row)) /\ SubGoes(a, k, "promote")
          /\ Blame(~Owes(a, k) /\ row.count > 0, "taken") /\ UNCHANGED troubles
       \/ /\ Trouble /\ SubIs(a, k, NoSub)
          /\ Blame(Owes(a, k), "lost") /\ UNCHANGED row
    /\ SubFrame

SubPromote(a, k) ==
    /\ sub[a][k].pc = "promote"
    /\ \/ Write(Promoted(row)) /\ SubIs(a, k, NoSub) /\ UNCHANGED troubles
       \/ Trouble /\ SubIs(a, k, NoSub) /\ UNCHANGED row
       \/ \* The acknowledgement is lost.
          /\ Trouble /\ Again(sub[a][k]) /\ Write(Promoted(row))
          /\ SubIs(a, k, QueuedSub(sub[a][k].tries + 1, TRUE))
    /\ SubFrame /\ UNCHANGED history

-----------------------------------------------------------------------------
(* A worker dies: asynq finds the lease of the task expired and queues it  *)
(* again, or archives it, without the dead-letter callback, when its       *)
(* retries are used up.  A wiki row is claimed again when its claim is     *)
(* stale.                                                                  *)

DocCrash(a) ==
    /\ doc[a].pc \notin Idle /\ Trouble
    /\ doc' = [doc EXCEPT ![a] = IF Again(@) THEN [pc |-> "queued", tries |-> @.tries + 1]
                                             ELSE NoDoc]
    /\ UNCHANGED <<row, latest, post, sub, user, sweep, history>>

PostCrash(a) ==
    /\ post[a].pc \notin Idle /\ Trouble
    /\ post' = [post EXCEPT ![a] = IF Again(@) THEN QueuedPost(@.tries + 1) ELSE NoPost]
    /\ Blame(a = seeded /\ (post[a].todo # {} \/ post[a].shortfall > 0), "lost")
    /\ UNCHANGED <<row, latest, doc, sub, user, sweep>>

SubCrash(a, k) ==
    LET s == sub[a][k] IN
    /\ s.pc \notin Idle /\ Trouble
    /\ IF k = Wiki \/ Again(s)
       THEN /\ SubIs(a, k, QueuedSub(IF Again(s) THEN s.tries + 1 ELSE s.tries,
                                     s.drained \/ s.pc = "promote"))
            /\ UNCHANGED history
       ELSE SubIs(a, k, NoSub) /\ Blame(Owes(a, k), "lost")
    /\ UNCHANGED <<row, latest, doc, post, user, sweep>>

-----------------------------------------------------------------------------
(* The user.  One request at a time.                                       *)

UserFrame == UNCHANGED <<doc, post, sweep>>

\* Without the row of the wiki that is still queued.
WithoutWiki(subs) ==
    [a \in Attempts |-> [k \in Kinds |->
        IF k = Wiki /\ subs[a][k].pc = "queued" THEN NoSub ELSE subs[a][k]]]

WikiOwes == \E a \in Attempts : Wiki \in Kinds /\ Owes(a, Wiki) /\ sub[a][Wiki].pc = "queued"

ScrubWiki ==
    /\ sub' = WithoutWiki(sub)
    /\ Blame(WikiOwes, "lost")

\* A statement fails: the request ends there with an error.
Fails == user' = "idle" /\ UNCHANGED <<row, troubles>>

\* CancelKnowledgeParse reads the row; what has ended cannot be cancelled.
CancelRead ==
    /\ user = "idle"
    /\ \/ row.status \in InPipeline /\ user' = "cancel" /\ Trouble
       \/ row.status = "cancelled" /\ user' = "again" /\ UNCHANGED troubles
    /\ UserFrame /\ UNCHANGED <<row, latest, sub, history>>

CancelWrite ==
    /\ user = "cancel"
    /\ \/ /\ Write(ResetCount(SetStatus(row, "cancelled"))) /\ user' = "dequeue"
          /\ UNCHANGED troubles
       \/ Fails
    /\ UserFrame /\ UNCHANGED <<latest, sub, history>>

\* DeleteKnowledge marks the row; only what was being parsed is dequeued.
DeleteMark ==
    /\ user = "idle" /\ row.status # "deleted" /\ Trouble
    /\ user' = IF row.status \in {"pending", "processing"} THEN "clear" ELSE "purge"
    /\ Write(SetStatus(row, "deleting"))
    /\ UserFrame /\ UNCHANGED <<latest, sub, history>>

\* What is left undone when a store cannot be cleaned is the row.
DeletePurge ==
    /\ user = "purge"
    /\ \/ /\ Write([row EXCEPT !.status = "deleted"]) /\ user' = "idle"
          /\ UNCHANGED troubles
       \/ Fails
    /\ ScrubWiki
    /\ UserFrame /\ UNCHANGED latest

\* What ends when its context is cancelled, instead of going on regardless.
Stoppable ==
    {<<"doc", a>> : a \in {b \in Attempts : doc[b].pc \in {"mark", "parse", "save"}}}
      \cup {<<"post", a>> : a \in {b \in Attempts : post[b].pc \in {"fast", "seed"}}}
      \cup {ak \in (Kinds \ {Wiki}) \X Attempts :
               sub[ak[2]][ak[1]].pc \in {"started", "save", "work"}}

(***************************************************************************)
(* CancelTasksForKnowledge: the tasks of all attempts that are queued are  *)
(* removed, those that run are signalled, and removed when they end with   *)
(* the error of their context.  A wiki row is not a task; only a cancel    *)
(* scrubs it.                                                              *)
(***************************************************************************)
Dequeue ==
    /\ user \in {"dequeue", "again", "clear"}
    /\ user' = IF user = "clear" THEN "purge" ELSE "idle"
    /\ \E stopped \in SUBSET Stoppable :
         LET removed(task, a, name) == task.pc = "queued" \/ <<name, a>> \in stopped
             subs == [a \in Attempts |-> [k \in Kinds |->
                        IF k # Wiki /\ removed(sub[a][k], a, k) THEN NoSub ELSE sub[a][k]]]
         IN /\ doc' = [a \in Attempts |-> IF removed(doc[a], a, "doc") THEN NoDoc ELSE doc[a]]
            /\ post' = [a \in Attempts |-> IF removed(post[a], a, "post") THEN NoPost ELSE post[a]]
            /\ sub' = IF user = "dequeue" THEN WithoutWiki(subs) ELSE subs
            /\ Blame(\E a \in Attempts, k \in Kinds : Owes(a, k) /\ sub'[a][k] = NoSub, "lost")
    /\ UNCHANGED <<row, latest, sweep, troubles>>

(***************************************************************************)
(* ReparseKnowledge, whatever the status: a new attempt is opened and the  *)
(* wiki row removed, the old chunks are cleaned up and the row becomes     *)
(* pending, the counter is reset by a statement of its own, and the        *)
(* document is submitted again.                                            *)
(***************************************************************************)
ReparseOpen ==
    /\ user = "idle" /\ row.status # "deleted" /\ latest < MaxAttempts /\ Trouble
    /\ user' = "pending" /\ latest' = latest + 1
    /\ ScrubWiki
    /\ UserFrame /\ UNCHANGED row

ReparsePending ==
    /\ user = "pending"
    /\ \/ Write(SetStatus(row, "pending")) /\ user' = "reset" /\ UNCHANGED troubles
       \/ Fails
    /\ UserFrame /\ UNCHANGED <<latest, sub, history>>

ReparseReset ==
    /\ user = "reset"
    /\ \/ /\ Write(ResetCount(row)) /\ user' = "submit"
          /\ Blame(row.status = "finalizing", "taken") /\ UNCHANGED troubles
       \/ Fails /\ UNCHANGED history
    /\ UserFrame /\ UNCHANGED <<latest, sub>>

ReparseSubmit ==
    /\ user = "submit" /\ user' = "idle"
    /\ \/ doc' = [doc EXCEPT ![latest].pc = "queued"]
       \/ UNCHANGED doc
    /\ UNCHANGED <<row, latest, post, sub, sweep, troubles, history>>

-----------------------------------------------------------------------------
(* The housekeeping cron.                                                  *)

SweepFrame == UNCHANGED <<latest, taskVars, user, troubles, history>>

\* Mutant: the tasks that a worker has taken are overlooked.
HasPendingTasks ==
    \E a \in Attempts :
       \/ doc[a].pc = "queued"
       \/ post[a].pc = "queued"
       \/ \E k \in Kinds \ {Wiki} : sub[a][k].pc = "queued"

\* A task that asynq knows, of whichever attempt: queued or active.
HasQueuedTasks ==
    \E a \in Attempts :
       \/ doc[a].pc # "none"
       \/ post[a].pc # "none"
       \/ \E k \in Kinds \ {Wiki} : sub[a][k].pc # "none"

\* Mutant: documents whose parse was never enqueued are not among the candidates.
SweepProbeStarted ==
    /\ sweep.pc = "idle" /\ user = "idle"
    /\ row.status \in InPipeline \ {"pending"} /\ ~HasQueuedTasks
    /\ sweep' = [pc |-> "fail", seen |-> latest]
    /\ SweepFrame /\ UNCHANGED row

\* The candidates and the probe of the queues: a request that begins between
\* the two might as well begin after them.
SweepProbe ==
    /\ sweep.pc = "idle" /\ user = "idle"
    /\ row.status \in InPipeline /\ ~HasQueuedTasks
    /\ sweep' = [pc |-> "fail", seen |-> latest]
    /\ SweepFrame /\ UNCHANGED row

SweepFail ==
    /\ sweep.pc = "fail" /\ sweep' = NoSweep
    /\ IF row.status \in InPipeline
       THEN Write([status |-> "failed", count |-> 0])
       ELSE UNCHANGED row
    /\ SweepFrame

-----------------------------------------------------------------------------
DocStep(a) ==
    \/ DocStart(a) \/ DocMark(a) \/ DocFail(a) \/ DocError(a)
    \/ DocGiveUp(a) \/ DocCheck(a) \/ DocSave(a) \/ DocEnqueue(a)

PostStep(a) ==
    \/ PostStart(a) \/ PostError(a) \/ PostFast(a) \/ PostSeed(a)
    \/ \E k \in Kinds : PostFanOut(a, k)
    \/ PostRelease(a) \/ PostPromote(a) \/ PostEnd(a)

SubStep(a, k) ==
    \/ SubStart(a, k) \/ SubRead(a, k) \/ SubSave(a, k) \/ SubWork(a, k)
    \/ SubDrain(a, k) \/ SubPromote(a, k)

\* A request that was begun is carried out; whether one is begun is the user's choice.
UserGoesOn ==
    \/ CancelWrite \/ Dequeue \/ DeletePurge
    \/ ReparsePending \/ ReparseReset \/ ReparseSubmit

UserBegins == CancelRead \/ DeleteMark \/ ReparseOpen

Crash ==
    \E a \in Attempts :
       DocCrash(a) \/ PostCrash(a) \/ \E k \in Kinds : SubCrash(a, k)

Sweep == SweepProbe \/ SweepFail

Next ==
    \/ \E a \in Attempts : DocStep(a) \/ PostStep(a) \/ DeadLetter(a)
    \/ \E a \in Attempts, k \in Kinds : SubStep(a, k)
    \/ Crash \/ UserBegins \/ UserGoesOn \/ Sweep

Spec == Init /\ [][Next]_vars

\* The workers of asynq, the handler of a request, and the cron.
Fairness ==
    /\ \A a \in Attempts :
          /\ WF_vars(DocStep(a)) /\ WF_vars(PostStep(a)) /\ WF_vars(DeadLetter(a))
          /\ \A k \in Kinds : WF_vars(SubStep(a, k))
    /\ WF_vars(UserGoesOn) /\ WF_vars(Sweep)

FairSpec == Spec /\ Fairness

-----------------------------------------------------------------------------
(* Properties.                                                             *)

\* The slots of attempt a that somebody will still give back.
Outstanding(a) ==
    Cardinality(post[a].todo) + post[a].shortfall
      + Cardinality({k \in Kinds : Owes(a, k)})

(***************************************************************************)
(* While a document is finalizing its counter is the number of subtasks of *)
(* the attempt that seeded it that have yet to drain, whichever of them    *)
(* failed, were retried, crashed, or could not be enqueued at all          *)
(* (finalizeSubtaskDetached: "a subtask drains exactly once"), as long as  *)
(* none of the events named at Blame has happened.                         *)
(***************************************************************************)
SlotsCounted ==
    row.status = "finalizing" /\ blame = {} => row.count = Outstanding(seeded)

(***************************************************************************)
(* A document leaves finalizing for completed only when nothing is         *)
(* outstanding; a slot that was lost delays this, it never advances it.    *)
(***************************************************************************)
PromotedWhenDone ==
    [][ /\ row.status = "finalizing" /\ row'.status = "completed"
        /\ "taken" \notin blame'
        => Outstanding(seeded) = 0 ]_vars

(***************************************************************************)
(* The sweep fails a document only when no task of any attempt is queued   *)
(* or active: between its probe and its update nothing starts, unless the  *)
(* user has opened another attempt meanwhile (HousekeepingService:         *)
(* filterOutQueued).                                                       *)
(***************************************************************************)
SweptIsOrphan ==
    [][ row.status \in InPipeline /\ row'.status = "failed" /\ sweep.pc # sweep'.pc
          => ~HasQueuedTasks \/ latest > sweep.seen ]_vars

(***************************************************************************)
(* No document stays in the pipeline for ever: whatever is lost - a task,  *)
(* a slot, a promotion -, the workers or the sweep bring it to an end.     *)
(***************************************************************************)
Settles == row.status \in InPipeline ~> row.status \notin InPipeline

-----------------------------------------------------------------------------
(* What the comments of the code promise beyond that, and does not hold.   *)

(***************************************************************************)
(* No subtask brings a cancelled document back to finalizing, where its    *)
(* drain, finding the counter at zero, would complete it                   *)
(* (CancelKnowledgeParse: status and counter are written at once "so a     *)
(* late subtask FinalizeSubtask call can't race-promote the row back to    *)
(* completed").                                                            *)
(***************************************************************************)
CancelledStays == [][ row.status = "cancelled" => row'.status # "finalizing" ]_vars

=============================================================================
