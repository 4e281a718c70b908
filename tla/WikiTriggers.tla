---------------------------- MODULE WikiTriggers ----------------------------
(***************************************************************************)
(* The asynq tasks that wake the wiki ingest worker of one knowledge base. *)
(* They carry no work themselves: the work is in task_pending_ops.         *)
(*                                                                         *)
(* Three sorts of task are enqueued: plain ones without a TaskID           *)
(* (EnqueueWikiIngest, EnqueueWikiRetract, scheduleFollowUp and the        *)
(* recovery at start-up), the capped retry with TaskID wiki-ingest-capped- *)
(* <kb> (scheduleCappedRetry) and the recheck with TaskID wiki-ingest-     *)
(* recheck-<kb> (scheduleStaleClaimRecheck).  asynq refuses to enqueue a   *)
(* TaskID that a task which is waiting, running or to be retried holds;    *)
(* the id is free again once the task has succeeded.  Delays other than    *)
(* the recheck's are left out: a task that is enqueued may run at any      *)
(* later time.                                                             *)
(***************************************************************************)
EXTENDS Naturals

CONSTANT RecheckDelay   \* units of time before a recheck runs

ASSUME RecheckDelayAssumption == RecheckDelay \in Nat

TaskKinds == {"plain", "capped", "recheck"}

IdStatus == {"free", "queued", "running"}

TaskPool == [plain : Nat, capped : IdStatus, recheck : IdStatus, wait : 0..RecheckDelay]

NoTasks == [plain |-> 0, capped |-> "free", recheck |-> "free", wait |-> 0]

-----------------------------------------------------------------------------
(* The enqueuing functions.  An id that is not free swallows the task. *)

AddPlain(t) == [t EXCEPT !.plain = @ + 1]

ArmCapped(t) == IF t.capped = "free" THEN [t EXCEPT !.capped = "queued"] ELSE t

\* Mutant: no safety net for the claims of a crashed batch.
ArmNothing(t) == t

ArmRecheck(t) ==
    IF t.recheck = "free" THEN [t EXCEPT !.recheck = "queued", !.wait = RecheckDelay] ELSE t

-----------------------------------------------------------------------------
(* What asynq does with a task: it hands it to a worker, forgets it when   *)
(* the handler returns nil, and queues it again when the handler returned  *)
(* an error or its worker died.                                            *)

Ready(t, k) ==
    CASE k = "plain"   -> t.plain > 0
      [] k = "capped"  -> t.capped = "queued"
      [] k = "recheck" -> t.recheck = "queued" /\ t.wait = 0

Take(t, k) ==
    CASE k = "plain"   -> [t EXCEPT !.plain = @ - 1]
      [] k = "capped"  -> [t EXCEPT !.capped = "running"]
      [] k = "recheck" -> [t EXCEPT !.recheck = "running"]

Ack(t, k) ==
    CASE k = "plain"   -> t
      [] k = "capped"  -> [t EXCEPT !.capped = "free"]
      [] k = "recheck" -> [t EXCEPT !.recheck = "free"]

Retry(t, k) ==
    CASE k = "plain"   -> [t EXCEPT !.plain = @ + 1]
      [] k = "capped"  -> [t EXCEPT !.capped = "queued"]
      [] k = "recheck" -> [t EXCEPT !.recheck = "queued", !.wait = 0]

\* One unit of time nearer to the recheck.
Wait(t) == [t EXCEPT !.wait = IF @ > 0 THEN @ - 1 ELSE 0]

\* Some task will still run, or is running.
SomeTask(t) == t.plain > 0 \/ t.capped # "free" \/ t.recheck # "free"
=============================================================================
