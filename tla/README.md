# A TLA+ verification of WeKnora

WeKnora (this repository, `github.com/Tencent/WeKnora`) is a knowledge-base server: documents are uploaded,
parsed, enriched by language models, turned into a wiki and searched by an agent. Most of its code moves data;
its difficulty is in a few concurrent protocols between database rows, asynq tasks, Redis keys and goroutines.
This directory models those protocols in TLA+, checks them with TLC and proves the main results with TLAPS.

Eight of them are modelled so far: the **wiki ingest queue**, its **finalize lane** and the **pages** it writes, the
**life cycle of a document**, the **tool approval gate**, the **limit on concurrent model calls**, and for the messenger
channels the **question queue** and the **leader** who keeps a channel's connection. The rest of the plan is in
[Plan](#plan).

Abbreviations for source files:

| short | file |
|-------|------|
| `TQ` | `src/internal/application/repository/task_queue.go` |
| `WI` | `src/internal/application/service/wiki_ingest.go` |
| `WB` | `src/internal/application/service/wiki_ingest_batch.go` |
| `KP` | `src/internal/application/service/knowledge_process.go` |
| `PP` | `src/internal/application/service/knowledge_post_process.go` |
| `KD` | `src/internal/application/service/knowledge_delete.go` |
| `KN` | `src/internal/application/service/knowledge.go` |
| `HK` | `src/internal/application/service/knowledge_housekeeping.go` |
| `TI` | `src/internal/router/task_inspector.go` |
| `WT`, `WP` | `wiki_ingest_taxonomy.go` and `wiki_page.go` of `src/internal/application/service` |
| `RP` | `src/internal/application/repository/wiki_page.go` |
| `LIM` | `src/internal/models/limiter/limiter.go` |
| `IM` | `src/internal/im/service.go` |
| `RK` | `src/internal/application/repository/knowledge.go` |
| `GATE` | `src/internal/agent/approval/gate.go` |
| `QA` | `src/internal/im/qaqueue.go` |

## Inventory

| component | state | operations | interacts through | what is hard | what makes it correct |
|---|---|---|---|---|---|
| Wiki ingest queue (`TQ`, `WI`, `WB`) | rows of `task_pending_ops` with claim time and fail count; asynq triggers; in-flight slots in Redis; wiki pages and their `source_refs` | enqueue, claim, map, reduce, drain, trim, requeue, dead-letter, follow-up, capped retry, recheck | rows shared by all workers; asynq; `FinalizeSubtask`; document deletes | several workers, timeouts, crashes, partial failure, operations queued behind each other | batches are disjoint; no row or subtask slot is lost; a deleted document leaves no page; every row leaves |
| Finalize lane (`WI` 612-754, `WB` 905-1148) | rows of `task_pending_ops` of another type; an asynq task with a fixed TaskID and retries without one; a lock in Redis | enqueue, schedule, a pass: index, links, pruning of folders, trim, reschedule | batches queue rows and create folders while a pass runs | a TaskID held by the pass itself, a lock nobody deletes, folders used between look and prune | rows get a pass; passes do not overlap; no folder is pruned under a page |
| Recovery at start-up | none | `recoverPendingWikiTasks` | rows, asynq | runs beside other instances' workers | rows without a task get one |
| Document operations | `knowledges.parse_status`, tombstones, `knowledge_bases` | post-process, reparse, cancel, delete, delete a knowledge base | the wiki queue, the subtask counter | each is several statements; all run beside the batches | see the wiki queue |
| Knowledge lifecycle (`KP`, `PP`, `RK`, `KN`, `HK`, `TI`, `extract.go`, `image_multimodal.go`) | `parse_status`, `pending_subtasks_count`, attempt spans | process, post-process, subtasks, `SetFinalizing`, `FinalizeSubtask`, `UpdateKnowledge(Columns)`, cancel, delete, reparse, the sweep | every enrichment subtask decrements the counter | asynq retries, superseded attempts, rows saved whole, a crash between two statements | promoted when every subtask of this attempt is over, and it always leaves the pipeline |
| Tool approval gate (`GATE`) | per instance: map of waiters, each with a channel and a `sync.Once`; Redis pub/sub | `RequestAndWait`, `RequestOAuthAndWait`, `Resolve`, `runSubscriber` | goroutines of the call, the timer, requests and the subscriber; messages between instances | four parties deliver at once; lost messages and acknowledgements; an instance dies | one decision per call, by somebody authorised, truthfully reported; calls end |
| Model concurrency limiter (`models/limiter`) | a Redis sorted set of leases; local semaphores | `Acquire`, heartbeat, release, `SetGlobalLimit` | all model calls of all instances | heartbeats late or after the release; Redis down | at most *limit* live calls while leases are renewed in time; slots come back |
| Request rate limiter (`ratelimit`) | a sorted set per key; local map of timestamps | `Allow`, cleanup | all HTTP handlers | same-millisecond hits; an entry removed while it is replaced | at most *max* hits per window |
| IM question queue (`QA`) | bounded queue, per-user counters, Redis counters | `Enqueue`, `Remove`, `dequeue`, gate | worker goroutines of all instances | a counter and a queue kept in step; failing Redis | counters equal what is queued and running |
| IM service, supervisor and adapters (`IM`) | per instance a map of running channels and of retries; a leader lock in Redis; the channel's row | start, stop, update, toggle, delete, renew, retry, reload, shutdown | requests, Redis pub/sub, goroutines of renewal and retry, messages | the map is changed by six kinds of goroutine, connections are made outside the mutex, polls end late, events are lost | one connection, none left behind; a disabled channel ends, an enabled one is served |
| Stream managers, event bus | events per message | append, read from an offset | agent, SSE handlers | reconnecting readers | no event lost or reordered |
| Task router, dead letters, inspector | asynq queues | enqueue, cancel, inspect | every component | scans race with state changes of tasks | cancelled work does not run |
| Data source synchronisation | schedules, sync logs | scheduled and manual syncs | knowledge lifecycle | overlapping syncs | one sync per source |
| FAQ import, clone and move | progress in Redis, rows | long jobs | knowledge lifecycle, wiki queue | retry after partial work | idempotent |
| Agent engine and tools, chat pipeline, retrieval | conversation | LLM loop, search | approval gate, streams | mostly data | – |
| Wiki pages, links, lint (`WP`, `RP`, `WB`, `KD`) | pages with revisions, slug locks in Redis | create, update, revert, decorate, delete, link, publish; the reduce of a batch; the reconciliation of a deleted document | batches, users and the agent write the same rows | read, long LLM call, write; a lock with a lease, released unchecked; three kinds of write of which one compares versions | no document is lost from a page or its sources, no text without a trace |
| MCP client and OAuth; tenants, sharing, users; vector stores, chunker | records, connections | CRUD, adapters | HTTP handlers | I/O | – |
| Document reader (Python), CLI, Go client, front end, desktop, MCP server, mini program, deployment | – | clients of the HTTP API, parsers | HTTP, gRPC | I/O | – |

`PROJECT.json` lists all components with their status, and under `hazards` every place found so far where an order of
steps, a failure or a boundary could go wrong, with the property that watches it.

### How the wiki queue works

A document that finished parsing is moved to `finalizing` with one counter slot per enrichment subtask
(`PP`, `SetFinalizing`). The wiki's subtask is a row `(knowledge base, document, ingest)` in `task_pending_ops`;
asynq tasks carry no work, they only wake a worker for a knowledge base. A worker reserves one of a few in-flight slots
in Redis, claims the oldest documents nobody else has a fresh claim on (`ClaimBatch`), keeps the last operation of
each, extracts (MAP), rewrites the affected pages (REDUCE), drains the document's slot (`finalizeWikiSubtask`),
deletes the rows that succeeded, and releases failed ones for a retry or moves them to the dead letters.
Deleting a document scrubs its queued ingests, edits the pages at once and queues a *retract* for what a batch in
flight might still write.

Who wakes a worker is itself a protocol: enqueuers add a trigger, a finished batch a follow-up, a batch turned away by
the cap a *capped retry* under a fixed TaskID, a batch that finds only claimed rows a *recheck* after the claims are
stale, also under a fixed TaskID, and a restarting process a recovery trigger.

### How a page is written

A reduce takes the lock of the page's slug in Redis (`withSlugLock`: `SETNX` with five minutes, a poll every 50 ms, given up
after a while; without an answer from Redis it goes on unlocked), reads the page, asks a model for the new text and calls
`UpdatePage` or `CreatePage`. `UpdatePage` reads the page again. If title, text or status change it stores a snapshot of
the version and the new one in a transaction that compares the version with that second read, and prunes old snapshots;
otherwise it writes the bookkeeping (`UpdateMeta`: sources, status, links), comparing nothing. Then the in-links of the
linked pages are maintained, each by a read and an `UpdateMeta`. Users edit, revert and delete through the same
functions without the lock; decorators of links write a text they made earlier over the current one; the deletion of a
document takes it out of the sources of its pages, or deletes those that had no other source when it listed them.

### How the approval gate works

A tool call registers a waiter in its instance's `pending` map, shows a prompt and selects on the waiter's
one-element channel, a timer and its context. `deliver` is a `sync.Once` around a non-blocking send; the timer's and
the cancellation's branches deliver too and then read whatever is in the channel. `Resolve` delivers locally or, when
the waiter lives elsewhere, publishes the request with a nonce, waits three seconds for an acknowledgement on a reply
channel named after the call, and otherwise answers *not found*.

### How the question queue works

Every instance has a bounded queue and a fixed pool of workers on a condition variable. Two kinds of counter in Redis are
shared by all instances: requests per user, counted before the queue's mutex is taken, and executing requests (the
*gate*), counted by a script that increments, renews the expiry and decrements again when there is no room. A worker without
a slot tries again every half second. Each way a request can end – rejected, stopped, cancelled, timed out, executed – has
to give back what was counted for it. Without Redis an instance counts its users' queued requests itself and there is no gate.

### How a document is processed

`document:process` marks the row `processing`, parses, saves and enqueues `knowledge:post_process`. That handler seeds the
counter and sets `finalizing` in one statement, enqueues one subtask per enrichment, and gives back the slots it could
not fan out. A subtask drains its slot when it is through – after success, or when its last retry failed – in two
statements: decrement, and promote to `completed` when the counter is zero. Some writers save the whole row they read
earlier, `parse_status` included (the counter is left out). The user cancels, deletes or reparses at any time; reparse opens
a new attempt, and work of an old one is skipped where the code asks `attemptSuperseded`. A cron fails what stays in
the pipeline for long and has no task in any queue.

### How model calls are limited

A call runs a script on a sorted set of leases: prune what has expired by the caller's clock, count, add. While it holds
its slot a goroutine refreshes the lease every third of its length; the release deletes the token. A refused call polls.
If Redis fails the call goes on without a slot.

### How a channel finds its leader

For websocket and long-poll channels an instance connects only after `SETNX` on the leader lock. It renews the lock
every five seconds and compares what it runs with the row on each renewal; an instance that lost the election retries
every ten. Requests change the row, restart or stop the channel where they are handled, and publish an event that makes
the others read the row. Stopping a websocket channel releases the lock; that of a long-poll channel is left to expire, so
that the poll can end first.

### How the finalize lane works

A batch leaves to a later pass what concerns the whole wiki: a row per page and per change, and one that names the
folders it has taken pages out of. A pass takes the lane's lock, peeks rows, rebuilds the index and links, prunes the
named folders if the ingest lane has no rows – otherwise the prune is *deferred* –, deletes the rows it has dealt with, and
schedules another pass for what is left: under the lane's TaskID, or without one after a deferred prune.

## Modules

| module | models | lines of it come from |
|---|---|---|
| `PendingOps` | the rows; each operator is one SQL statement or transaction | `TQ` |
| `WikiTriggers` | the asynq tasks of one knowledge base and what asynq does with a TaskID | `WI` 487-1000, asynq as the code uses it |
| `WikiIngest` | the composition: documents, workers and batches, crashes, time | `WI`, `WB`, `PP`, `knowledge_delete.go`, `knowledge_process.go`, `knowledgebase.go`, the recovery |
| `MCWikiIngest` | symmetry for TLC | – |
| `DocumentQueue` | abstract: what the wiki queue promises of the operations on a document | – |
| `OneDecision` | abstract: what the gate promises | – |
| `ApprovalGate` | the gate on several instances | `GATE` |
| `QAQueue` | the question queue on several instances, with the Redis counters | `QA` |
| `WikiFinalize` | the finalize lane, with what batches and deletions do to folders and rows | `WI`, `WB`, `WT`, `WP`, `KD`, `TQ`, the recovery |
| `MCWikiFinalize` | documents and the operations of each | – |
| `KnowledgeLifecycle` | one document: its row, the tasks of its attempts, the user, the sweep | `KP`, `PP`, `KD`, `KN`, `RK`, `HK`, `TI` |
| `Semaphore` | abstract: permits of a limit, which come back within a bound after the call has left | – |
| `ModelLimiter` | the leases of one model in Redis, with clocks and refreshes | `LIM` |
| `ChannelLeader` | one channel on several instances | `IM` |
| `WikiPages` | the pages of a wiki, their snapshots and locks, and everybody who writes them | `WP`, `RP`, `WI`, `WB`, `KD` |
| `MCWikiPages` | the links between two pages, symmetry | – |
| `WikiIngestProofs`, `WikiPagesProofs`, `WikiFinalizeProofs`, `ApprovalGateProofs`, `KnowledgeLifecycleProofs`, `ModelLimiterProofs`, `ChannelLeaderProofs`, `QAQueueProofs` | proofs about the module of that name | – |

The modules are composed where components share state that one of them cannot do without: `WikiIngest` is the product of rows,
triggers, batches and document operations. `KnowledgeLifecycle` takes the wiki's subtask from outside as one that is started,
retried and drained like any other, and `WikiIngest` the rest of the life cycle as the two statuses it reacts to;
`WikiFinalize` sees of a batch what it does to folders, pages and rows, and `WikiPages` the reduces, one per page and document, which
it lets come in any order and number: that two batches never reduce one document at a time is what `WikiIngest` shows.

### WikiIngest: state and actions

| variable | stands for |
|---|---|
| `table`, `nextId` | `task_pending_ops` of one knowledge base, task type `wiki:ingest`; ids from the sequence. `claim` is the *age* of `claimed_at`, saturating at `StaleAge`; an unclaimed row and a stale claim are the same to every statement |
| `tasks` | plain triggers (counted), the two tasks with a TaskID (free, queued, running), the time until the recheck |
| `batch` | per worker: step, trigger it runs for, slot, age, whether a settling call failed, ids of loaded rows (`peekedIDs`), and per document the operation and how far it is |
| `zombies` | in-flight slots of dead workers, until their lease ends |
| `kb`, `kn`, `posting` | the knowledge base (live, soft-deleted, cleaned); each document's status, with the half-done states of cancel and delete; documents between `SetFinalizing` and `EnqueueWikiIngest` |
| `refs` | documents that some page names in `source_refs` |
| `drained`, `closed` | history: how often the wiki slot of the current attempt was drained; documents that were skipped, given up, or dropped by a batch that found them cancelled, and those whose retract was superseded or did not rewrite its page |
| `overtaken` | history: documents whose retract was carried out while an ingest of theirs was about to write |
| `lost` | history: how the task that was to come for the rows got lost – `trigger`: asynq refused one, `capped` or `recheck`: one with a TaskID found itself to be the duplicate, with nobody but dead workers in its way |
| `crashes`, `faults` | bounds |

Each action is one stretch of the code between two accesses to shared state: `PostProcess`/`PostEnqueue` (the handler
of `PP`), `Reparse`, `CancelMark`/`ScrubStep`, `DeleteMark`/`ScrubStep`/`DeleteRetract`, `DeleteKB`/`CleanKB`; for a
worker `StartDeleted`, `Start`, `StartCapped`, `Claim`, `ClaimNothing`, `ClaimFails`, then per document `MapSkip`,
`MapIngest`, `MapRetract`, `ReduceRead`, `ReduceWrite`, `ReduceUnapplied`, `DrainDoc`, then `Trim`, per document
`Requeue`, `DeadLetter`, `DropDead`, and at the end `Finish` or `Abort`. `Crash`, `Restart`, `ExpireSlot` and `Tick` are
the environment. Each fallible call has a branch guarded by `Fault(kind)`.

Abstractions worth knowing:

* Page contents are reduced to "some page names the document". LLM results are nondeterministic choices: MAP succeeds,
  skips or fails; a page rewrite succeeds, is swallowed (a retract then counts as done with the page unchanged), or its
  lock or write fails, which holds the document's slot back.
* `finalizing` stands for finalizing and completed: the guard `pending_subtasks_count > 0` of the decrement is
  represented by it, because cancel and reparse reset the counter and only post-processing seeds it.
* A claim is one step. `ClaimBatch` is one transaction of four statements that locks the oldest row of each document; its last
  one (`TQ` 231-237) checks again that each row has no fresh claim, but not that the document has none (`TQ` 190-194). At READ
  COMMITTED a row that arrives between the statements of two claims may so be claimed apart from its siblings, which
  threatens `DocExclusive`, not `RowExclusive`. The hazard is listed; neither the runs nor the proofs cover it.
* A failing `GetPageBySlug` is treated by the code as "no such page"; the choice between written and unapplied covers it.
* Inserting a row (`EnqueueWikiIngest`) does not fail. The source documents that case as a known gap (`PP` 344-355).

### WikiPages: state and actions

| variable | stands for |
|---|---|
| `row` | the row of `wiki_pages` of each slug: id, version, text, `source_refs`, draft or published, in-links, who saved it last |
| `revs`, `born` | the snapshots in `wiki_page_revisions`; how many pages were created, which gives a page its id |
| `lock` | `wiki:slug:<kb>:<slug>`, with the writer that set it |
| `job` | what each goroutine or request is doing: the page as it read it first (`copy`) and last (`cur`), the text it will write, the links it has still to maintain |
| `gone` | documents that were deleted |
| `saved`, `glossed` | history: the texts that versioned writes stored; versions whose text a decorator replaced by that of another |
| `merged` | history: documents that a reduce has written into a page and nobody has taken out knowingly: a user who deletes the page means all of it, the deletion of documents only those |
| `lapses`, `blame` | history: how often a lock expired under its holder or was not taken; what has overwritten a page it had read earlier, or erased one for what its sources were (`erase`) |
| `jobs`, `troubles` | bounds |

Who comes is `Reduce` (an addition, or the retract of a deleted document), `Request` (edit, revert, decorate, delete) or `Clean`
(the deletion of a document looks at a page). `Enter`, `EnterUnlocked`, `GiveUp`, `Unlock` and `Expire` are `withSlugLock`; `Read`,
`GenerationFails` and `Update`, `NotFound` or `Create` lead to the write; `SaveVersion` and `Prune`, `SaveMeta`, `SaveGloss` are
`UpdateWithRevision`, `UpdateMeta` and `UpdateAutoLinkedContent`; `LinkRead`, `LinkWrite`, `Linked` maintain in-links; `TakeOut`,
`Drop`, `Erase`, `Publish`, `Flip` are the rest of `DeletePage`, of a document's deletion and of `publishDraftPages`; `Crash` ends any of
them.

* A text is the set of documents in it and the job that wrote the words, so two texts of one content differ. What a model
  writes contains the documents it was given; a user may keep or drop them.
* A page links to the same pages whatever its text (`Links`).
* A reduce carries one document to one page. The deletion of a document reconciles one page per job; that it visits every page that
  names the document is part of `WikiIngest`.
* The row and the snapshots of a deleted page go in one step. A prune that fails is left out: the next one catches up.
* Failing database calls, changes of status by hand and archived pages are left out; a revert restores the status of the
  snapshot.

### ApprovalGate: state and actions

| variable | stands for |
|---|---|
| `call` | the goroutine of each `RequestAndWait` (new, prompt being emitted, in `select`, blocked on `<-w.ch`, about to return, ...), its instance, tenant and user |
| `pending` | the `pending` maps of all instances |
| `sealed`, `ch`, `got` | `waiter.once`, `waiter.ch`, the decision received |
| `req`, `told` | each call of `Resolve`: its step, what it asks, its answer |
| `inbox`, `sub`, `acks` | messages not yet read by an instance, what its subscriber is about to deliver, acknowledgements in each reply subscription |

`Resolve` (lookup under the mutex) and `ResolveDeliver` (after it is unlocked) are separate steps, as are `SubLookup` and
`SubDeliver`; between them the call may end. `Fire` joins the timer's `case` with the `deliver` in it: the channel may
already hold a decision, as when Go's `select` picks among ready cases. `waiter.resolved` is redundant with the
`sync.Once` and left out. `RequestOAuthAndWait` takes the same steps as `RequestAndWait`. Handlers of the prompt
are assumed to return.

### QAQueue: state and actions

| variable | stands for |
|---|---|
| `redis` | whether a Redis client is configured, chosen in `Init` |
| `req` | where each request is: about to be uncounted, about to take the mutex, queued, in the hands of a worker (and at which call), over, or lost with its instance |
| `queue`, `perUser`, `state` | `qaQueue.queue`, `perUser`, `closed` of each instance; `Stop` closes and broadcasts in two steps |
| `asleep`, `exited` | how many workers are in `cond.Wait`, and have returned; the others are awake or have a request |
| `users`, `gate` | the Redis counters with the time left before they expire; 0 for a key without an expiry |
| `lapsed` | history: a counter expired while something was counted in it |
| `crashes`, `strays`, `faults` | bounds |

`Admit` is `redisCheckAndIncrUser`; `RejectOver`, `Reject`, `Enqueue` its outcomes under the mutex; `StopUser` is `Remove`;
`Dequeue`, `Sleep`, `Exit` are `dequeue`; then `Look` (cancelled or timed out, or on to the gate), `Acquire`, `Poll`,
`GiveUp`, `Stray`, `Finish`, `Release`, `Leave` are the calls of `runWorker` in their order. A crash empties an instance and starts it
again; Redis keeps its counts. Whether a request was cancelled or waited too long is a nondeterministic choice. Metrics are
left out. Requests, instances and users are numbered in the order of their first use, which loses nothing since they are
interchangeable.

### KnowledgeLifecycle: state and actions

| variable | stands for |
|---|---|
| `row` | `parse_status` and `pending_subtasks_count` of the document |
| `latest` | the latest attempt known to the span tracker |
| `doc`, `post`, `sub` | per attempt the `document:process` task, the post-process task and the subtasks: where the handler is, how often asynq retried it, what it has still to fan out or give back, the status the summary has copied |
| `user` | the request being handled: cancel, delete or reparse, between two of its statements |
| `sweep` | the housekeeping cron, between its look at the queues and its update |
| `seeded`, `blame` | history: the attempt that seeded the counter last; whether a slot was lost since (a crash, a failed statement) or taken by work of another attempt or a second delivery |
| `troubles` | bound on everything that is not plain progress |

Every read and write of the row is an action of its own: `DocStart`, `DocMark`, `DocCheck`, `DocSave`, `DocEnqueue`,
`DocFail`, `DocError`, `DocGiveUp`, `DeadLetter`; `PostStart`, `PostFast`, `PostSeed`, `PostFanOut`, `PostRelease`,
`PostPromote`, `PostEnd`, `PostError`; `SubStart`, `SubRead`, `SubSave`, `SubWork`, `SubDrain`, `SubPromote`; `CancelRead`,
`CancelWrite`, `Dequeue`, `DeleteMark`, `DeletePurge`, `ReparseOpen`, `ReparsePending`, `ReparseReset`, `ReparseSubmit`;
`SweepProbe`, `SweepFail`; and a crash of each task. `SaveCopy` is `UpdateKnowledge`: the status as it was read is
written back, the counter is not.

* Time is not counted: outside the (short) requests of the user the row may at any moment be older than the threshold of
  the sweep.
* `SweepProbe` is one look at all queues of a Redis that answers. The code reads the lists one after another.
* Images are part of the parse; one subtask of a sort per attempt; the wiki's row is a subtask whose trigger names only
  the knowledge base, so that the probe does not see it.
* A row that was deleted softly is the status `deleted`, which no statement changes.

### ModelLimiter: state and actions

| variable | stands for |
|---|---|
| `call` | where each call is: asking, polling, granted, holding, gone on without a slot, over |
| `lease`, `expiry` | what is left of each token's lease and of the key |
| `skew`, `sent`, `stamp` | how far the clock of a process is ahead, and the readings that a script or a refresh carries |
| `beat`, `due`, `failed` | the refresh goroutine, when its ticker fires, whether its last try failed |

`Ask`, `Admit`, `Refuse`, `FailOpen`, `Hold`, `Release` are `Acquire` and what it returns; `Tick`, `Refresh`,
`RefreshFails` the goroutine; `Crash` leaves the token. A refresh that was under way may write after the release.
`Clock` advances time, and all times are relative to now, so the state space is finite without a bound on time. The
assumption `2 * Beat + 2 * Lag + Skew < Ttl` says that a lease outlasts one refresh that fails and one that is late; two failed
refreshes in a row are not considered (they take a call its slot, as the code says). What a call that is not in a slot still
occupies is `Owed`, the longest that anybody's clock may let its token live, with a refresh under way; it is the `owed` of `Semaphore`.

### ChannelLeader: state and actions

| variable | stands for |
|---|---|
| `db` | the row: on, off or gone, and the version of its configuration |
| `lock` | the owner of `RedisKeyLeader` |
| `up` | each instance: up, stopping (`stopped` is set), stopped, down |
| `runtime`, `retrying` | its maps `s.channels` (version, renewal) and `s.leaderRetries` |
| `go` | its goroutines – handler of a request, a start at boot or for a message, subscriber, renewals, retries –: step, version read, cancelled or not |
| `open`, `draining` | its connections, and the polls that were told to stop and are not over |
| `inbox`, `late` | events not yet read; a message that has not yet looked for its channel |
| `dropped` | history: an enabled channel was stopped by one who does not start it again, or a connection was refused |

What the code does under `s.mu` is one action: `StopStep` (`StopChannel`), `StartStep` and `Elect` (`StartChannel`),
`Standby` (`scheduleWSLeaderRetry`), `Connect` and `Register` (`startChannelInternal`, with the factory outside the mutex);
`Renew`, `Check`, `Retry`, `Verify` are the two loops; `Update`, `Toggle`, `Delete`, `Publish`, `Reload`, `Receive`, `Handle`,
`Boot`, `Shutdown`, `StopAll`, `Die`, `Drained`, `Expire` the rest. A cancelled loop may take one more tick, as `select` may
when both cases are ready: the retry then tries once more, and the renewal, whose script has a cancelled context, fails and stops the
channel.

* A request reads and saves the row in one step. At most `MaxBusy` goroutines of an instance are at work; two renewals
  and two retries may exist at once.
* The lock expires only when nobody on the instance keeps it: renewals (5 s), a start and the end of a poll are
  shorter than its 15 s. A release that fails is left out: the lock then expires.
* The branch of `startChannelInternal` for a channel that is in the map already (`IM` 1140) is in `Register`; that it is never
  taken is part of the invariant (`Alone`).
* A connection that breaks by itself is the adapter's business and the supervisor's.

### WikiFinalize: state and actions

| variable | stands for |
|---|---|
| `kb` | a wiki, no longer a wiki, or deleted |
| `folders`, `created`, `page` | the folders that exist, how many were created, the folder of each document's page |
| `op` | the operations, several per document (`Jobs`, `Of`): the row in the ingest lane if it is still there, where the batch is, the folders it plans or has noted, whether it owes a task for rows it queued |
| `lane`, `rows` | rows of the finalize lane, with the folders they ask to prune; how many were queued |
| `task`, `lock` | the task with the TaskID and those without, with the passes they make; `wiki:finalize:active` |
| `booting` | an instance comes up again and will recover |
| `ops`, `troubles` | bounds |
| `retracted`, `raced`, `scrubbed`, `lapsed`, `blame` | history: folders a page was taken out of by a deletion that queued its retract; a document was queued between look and prune; documents whose row was deleted under their batch; the lock expired under a pass; why rows may be without a task |

A document is added or parsed again by `Ingest`, deleted by `Delete`; either comes only when no row of the document is left, for
`Scrub` (`DeleteByDedupKey`, called by cancel, delete and reparse) has deleted it, also from under a batch that goes on working
without it. So two operations on one document overlap after a scrub. A batch is `Skip`, `Plan`, `ApplyFolder`, `Create`, or `Retract`,
then `AddRows`, `ScheduleRows`, `Settle`, and `Drop` when the knowledge base is gone; a pass is `Start`, `Peek`, `Discard` or
`Work`, `Prune`, `Trim`, `More`; `Fail`, `PassDies`, `BatchDies`, `Expire`, `Recover`, `ChangeKB` are the rest. `Work` defers a
prune as the code does, for rows of the ingest lane (`IngestPending`), not for batches.

* `Delete` edits the page and queues the retract in one step, or fails in between (its second branch: `KD` 289-320 deletes the pages
  first). The folder is then nobody's, and `FoldersRemembered` makes no promise on it.
* The taxonomy has one folder path; the page of a document keeps its folder; users do not move pages.
* The end of a handler is joined with its last step. Every row is inserted; the code logs and loses one that is not.
* As many tasks without a TaskID as `Retries` exist at once; one that waits stands for another that would wait with it.

## Runs

| run | question | bounds | distinct states |
|---|---|---|---|
| `wiki_exclusion` | cancels, repeated deletes, the end of the knowledge base, an ingest arriving late, against two workers of which one crashes: `RowExclusive`, `DocExclusive`, `DrainedOnce`, `NoGhost`, `DeletedStaysEmpty`, refinement of `DocumentQueue` | 1 document, 2 rows, 2 workers, 1 crash | 0.80 M |
| `wiki_liveness` | any call fails once, a crash, reparses and deletes: `DurableUntilDrained`, `DrainedMeansWritten`, `SomeoneComes`, and `EveryRowLeaves` under `FairSpec` | 1 document, 2 rows, 1 worker, 1 crash, 1 fault of five kinds, 1 retry | 0.60 M |
| `wiki_turned_away`, `wiki_stale_ref` | *violated*: see below | | |
| `wiki_pages` | reduces, edits, reverts, decorators and deletions on linked pages: `SectionBound`, `HistoryExact`, `TextKept`, `RefsKept` | 2 pages, 2 documents, 2 writers, 3 jobs, 2 troubles, 0 and 1 snapshots kept | 1.96 M |
| `wiki_finalize` | batches and passes that come, fail, die and overlap, documents added, deleted and scrubbed under their batch: `SomeoneFinalizes`, `OnePass`, `FoldersKept`, `FoldersRemembered`, and `RowsLeave` under `FairSpec` | 2 documents of which one has a page, 3 operations at once and 2 arrivals, 2 rows a peek, 1 task without a TaskID, 1 asynq retry, 1 trouble | 0.58 M |
| `lifecycle` | `SlotsCounted`, `PromotedWhenDone`, `SweptIsOrphan`, and `Settles` under `FairSpec` | 1 document, 2 attempts, summary and wiki, 1 asynq retry, 1 trouble | 0.13 M |
| `lifecycle_uncancelled` | *violated*: see below | as `lifecycle` | |
| `gate_decisions` | `Authorized`, `NeverStuck`, refinement of `OneDecision`, `CallsEnd` under `FairSpec` | 1 call, 2 requests, 2 instances, 2 tenants, a user or none, 1 fault or crash | 1.2 M |
| `qa_queue` | `GateLimit`, `UserLimit`, `CountsExact`, `NoLostWakeup`, and `EveryRequestEnds` under `FairSpec` | 2 instances, 2 users, 2 requests, 1 worker each, all limits 1, 1 crash, fault or stray | 0.14 M |
| `model_limiter` | `AtMostLimit`, refinement of `Semaphore`, `Served` under `FairSpec` | 3 calls, limit 1, lease 8, refresh every 2, delay and skew 1 | 0.31 M |
| `channel_leader` | `OneConnection`, `NoLeak`, and `StepsDown`, `CatchesUp`, `Served` under `FairSpec` | 2 instances, long-poll, 2 goroutines at work on each, 1 change, 1 trouble | 0.14 M |

What the properties say:

* `RowExclusive`, `DocExclusive`: no row, and no document whose row is still queued, is in the hands of two batches –
  through timeouts, retries, dead letters, scrubs and crashes.
* `DurableUntilDrained`: a seeded, undrained wiki slot always has its row; otherwise the document stays in `finalizing`.
* `DrainedMeansWritten`: a slot is drained when the pages are written, or the document was skipped, given up or dropped (`closed`).
* `DrainedOnce`: without a reparse and a failing settling statement a slot is drained once, and once more for each crash at most: a
  crash between the drain and the trim drains again.
* `NoGhost`: when a delete is through and its retract carried out, no page names the document, unless it is in `closed` or was
  `overtaken`.
* `DeletedStaysEmpty`: a cleaned knowledge base gets no row back.
* `KeepsOrder`: the wiki queue refines `DocumentQueue`, which has neither workers nor claims, batches or time: one operation on a document
  is taken up at a time, the newest; it and those it supersedes leave in order, after it was carried out, skipped or given up; the rest
  are withdrawn by a scrub or with the knowledge base. `doing` is the operation of the batch that owns the document, `over` that it
  is through, `strays` the operations of batches whose row was scrubbed under them, which may still touch the pages at any time.
* `SomeoneComes`, `EveryRowLeaves`: a queued row always has a task (or worker) that will look at it, and eventually leaves, but for
  the three ways in which the task gets `lost`.
* `SectionBound`: no more than one reduce per page is between the lock and its release, and one more for each lapse: although the
  release deletes whoever's lock it finds, a lapse never makes two.
* `HistoryExact`: every text that a versioned write stored is the page's or in its history until it is due to be pruned, under
  the version it was stored as, unless a decorator wrote over it.
* `TextKept`, `RefsKept`: what a reduce wrote into a page stays in its text, and among its sources, until it is retracted
  or edited away by somebody who saw it, or a user deletes the page – but for the ways in which a stale write overwrites it or the
  deletion of a document erases the page for sources it had earlier, each recorded in `blame`.
* `KeepsOneDecision`: the gate refines `OneDecision` with `decision` = what is in the channel or was taken from it and
  `outcome` = what the call returned. `Authorized`: whoever decides was of the waiter's tenant and user, on
  whichever instance. `NeverStuck`: the unguarded `d = <-w.ch` always finds a decision. `CallsEnd`: a waiting call returns
  or dies with its instance and leaves nothing in `pending`.

* `GateLimit`, `UserLimit`: across instances no more requests execute, or are queued for one user, than allowed – while Redis
  answers, no counter expired under a request and no request strayed past the gate (`Healthy`).
* `CountsExact`: without crashes each counter equals at every step what is counted in it.
* `NoLostWakeup`: a queued request has a worker that is not asleep and has not returned, also while `Stop` runs.
* `EveryRequestEnds`: a queued request ends, or leaked slots fill the gate.

* `SlotsCounted`: while a document is finalizing its counter is exactly what its subtasks have still to drain, unless a slot was
  lost or taken. `PromotedWhenDone`: it is not completed before that; a lost slot delays it.
* `SweptIsOrphan`: between the sweep's look at the queues and its update no task of the document starts.
* `Settles`: whatever is lost, a document leaves the pipeline – by its tasks, or by the sweep.
* `AtMostLimit`: no more live calls in a slot than the limit, although each is pruned by the clock of another.
  `ImplementsSemaphore`: a call is turned away only while live calls, and what those that left may still occupy, are as many as the
  limit; the latter is gone within `Ttl + Skew + Lag`, runs out as time passes, and no refresh, prune or expiry of the key
  extends it. `Served` (limiter): nobody polls for ever behind tokens of the dead.
* `OneConnection`: one connection over all instances, counting the polls that have not ended on instances that are up.
  `NoLeak`: a connection belongs to the map or to a start that will enter it, and nothing is entered after `Stop`.
* `StepsDown`: a disabled or deleted channel is disconnected in the end on every instance, although its event was lost or
  a late message started it again. `CatchesUp`: what runs is brought up to the row. `Served` (channel): an enabled
  channel is connected in the end, unless it was `dropped`.
* `SomeoneFinalizes`, `RowsLeave`: rows of the finalize lane have a task, a pass or a batch that will look at them, and leave,
  unless the task was lost in one of the five ways `blame` names (the TaskID is held by a pass that has peeked, or by an archived
  task; a dead worker's lock swallows the task; it cannot be enqueued; the batch is abandoned before it schedules).
* `OnePass`: passes overlap only after the lock has lapsed. `FoldersKept`: no folder is pruned under a page or a planned one,
  but in two ways: a document was queued between look and prune (`raced`), or its row was deleted under its batch (`scrubbed`), for
  `PendingCount` counts rows. `FoldersRemembered`: once the retract is queued, an empty folder left by a deletion is named by
  it or by a row until it is pruned.

Every property of a passing run has a mutant in `PROJECT.json`: a plausible bug in one of the mapped definitions
(a claim that is not stamped, a trim that takes failed rows along, a follow-up that is forgotten, an acknowledgement taken
without looking at its nonce) under which TLC finds the property violated.

### Bounds

Claims are stale after two units of time, batches live for one and the recheck comes after two: the relations the code's
constants have (60 min task timeout < 90 min staleness < 90 min 5 s recheck), stated in `WikiIngestAssumption`.
Exclusion needs two workers and, for one document, an operation in flight with another queued behind it: two rows are an
ingest and the retract, or the retract and a late ingest; a second document would only wait beside it. Without the refinement the run
was also checked with three rows (5.2 M), and the refinement with reparses and a retry (13 thousand). The liveness run has one worker, because
failing settling statements and two workers break exclusion (a foreign release, see below); one fault of any of the five
kinds with a crash covers a failing settle, trigger, claim, scrub or slot and a recovery; two rows are an ingest, and its retry
behind a reparse's or a retract; its unit of time is the shortest that `WikiIngestAssumption` allows. `MaxRows` bounds the
sequence of ids; every guard that tests it is an operation that inserts a row, or one that leads to it. `DrainedOnce` and its
inductive invariant were also checked with two crashes and a failing trigger, claim, scrub or slot (11.7 M). The theorems cover any number.
For the pages two writers suffice for every overwriting, since each is a read by one between a read and a write of the other; the
third job is the reduce whose work is lost or the edit that has seen it, two troubles are a lapse and a crash. Keeping no snapshot of the
pipeline and one of anybody makes the first prune bite.
In the gate one call suffices for `OneDecision`, whose promises are per call; two requests compete for it, with one fault
anywhere; the second call only matters for the reply channel, and the proof covers any number.
For the question queue two users on two instances compete for one slot, and one user with itself for one place;
one worker and one place make every limit bite. A counter lives for one unit of time: any handler may outlive it.

For the life cycle two attempts let work of the old one meet the new one, two sorts of subtasks are the one that saves
the whole row and the one the sweep does not see. The run has one trouble (a reparse, a crash, a lost
acknowledgement, a cancel), for the sake of liveness; its safety was also checked with two (2.67 M), and `Settles` with three sorts of subtasks of one attempt and two troubles (0.15 M). The limiter
has one call more than fit behind the one that is pruned, and the smallest times that satisfy its assumption with a skew and a
delay. `channel_leader` needs two instances to hand over between; one change and one trouble combine a disable or an update
with a crash, a lost event, a late message or a refused connection. The same module was checked in websocket mode
(87 thousand states), and for safety with two changes (1.04 M) and with two troubles (0.63 M); the proofs cover any
number. In `wiki_finalize` one document has two operations, the second overlapping the
first after a scrub, and the other document one; two rows a peek leave rows behind. An inductive invariant and its consequences were
also checked with two tasks without a TaskID and two troubles (12 M).

Deadlock is checked for `model_limiter`, where time always goes on. Elsewhere the system may stop: the queue may be empty with
nothing to do, and every call or request may have ended.

### Fairness

`WikiIngest!Fairness`: weak fairness of a worker's own steps (goroutines run), of starting a ready task (asynq hands out due
tasks), of `Restart` (the process is supervised), of `ExpireSlot` and `Tick` (time passes). Users, crashes and failing
calls are never forced, and no MAP or REDUCE is assumed to succeed: a document that always fails reaches the dead letter.
`ApprovalGate!Fairness`: goroutines of calls, requests and subscribers run, the timer fires. Nobody is obliged to decide.
`QAQueue!Fairness`: goroutines run, the handler returns (`executeQARequest` "must not block indefinitely", service.go 1843),
time passes, and a worker that finds room at the gate again and again gets in (strong fairness of `Acquire`: it tries every
half second, but another may take the slot in between). Nobody has to make, stop or cancel a request.
`KnowledgeLifecycle!Fairness`: asynq's workers run handlers and the dead-letter callback, a handler of a request goes on,
the cron runs. `ModelLimiter!Fairness`: a waiting call polls, a holder returns, refreshes end, time passes.
`ChannelLeader!Fairness`: goroutines run and tickers tick, an instance that went down is started again (it is supervised), a
poll ends, the lock of nobody expires. `WikiFinalize!Fairness`: batches and due tasks go on, an instance comes up again, a
lock that nobody renews expires. Changes, deaths and failures are never forced.

## What is proved

For all documents, workers, rows, crashes and faults, for all pages and writers, and for all calls, requests, instances, tenants
and users. Every safety property that a run checks is the statement of a theorem:

| theorem | module | statement |
|---|---|---|
| `TypeCorrect` | `WikiIngestProofs` | `Spec => []TypeOK` |
| `DeletedEmpty` | `WikiIngestProofs` | `Spec => DeletedStaysEmpty` |
| `RowsExclusive`, `DocsExclusive` | `WikiIngestProofs` | `"settle" \notin FaultKinds => (Spec => []RowExclusive)`, and `DocExclusive` |
| `ImplementsQueue` | `WikiIngestProofs` | `"settle" \notin FaultKinds => (Spec => KeepsOrder)` |
| `RowsAreAttended`, `RowsAreDurable` | `WikiIngestProofs` | `Spec => []SomeoneComes`, `[]DurableUntilDrained` |
| `DrainsAreWritten`, `DrainsAreSingle`, `RetractsAreFinal` | `WikiIngestProofs` | `Spec => []DrainedMeansWritten`, `[]DrainedOnce`, `[]NoGhost` |
| `TypeCorrect`, `SectionBounded`, `HistoryKept`, `TextIsKept`, `RefsAreKept` | `WikiPagesProofs` | `Spec => []TypeOK`, `[]SectionBound`, `[]HistoryExact`, `[]TextKept`, `[]RefsKept` |
| `TypeCorrect`, `AlwaysAuthorized`, `NeverBlocked` | `ApprovalGateProofs` | `Spec => []TypeOK`, `[]Authorized`, `[]NeverStuck` |
| `ImplementsOneDecision` | `ApprovalGateProofs` | `Spec => KeepsOneDecision` |
| `TypeCorrect`, `SlotsAreCounted`, `PromotedRight`, `SweptOrphan` | `KnowledgeLifecycleProofs` | `Spec => []TypeOK`, `[]SlotsCounted`, `PromotedWhenDone`, `SweptIsOrphan` |
| `TypeCorrect`, `LimitKept`, `IsSemaphore` | `ModelLimiterProofs` | `Spec => []TypeOK`, `[]AtMostLimit`, `ImplementsSemaphore` |
| `TypeCorrect`, `ServedOnce`, `NothingLeaks` | `ChannelLeaderProofs` | `Spec => []TypeOK`, `[]OneConnection`, `[]NoLeak` |
| `TypeCorrect`, `PassesExclusive`, `PrunesSafe`, `RowsAttended`, `PrunesRemembered` | `WikiFinalizeProofs` | `Spec => []TypeOK`, `[]OnePass`, `[]FoldersKept`, `[]SomeoneFinalizes`, `[]FoldersRemembered` |
| `TypeCorrect`, `GateKept`, `UserKept`, `CountersExact`, `WakesUp` | `QAQueueProofs` | `Spec => []TypeOK`, `[]GateLimit`, `[]UserLimit`, `[]CountsExact`, `[]NoLostWakeup` |

**Exclusion.** `RowExclusive` is not inductive: a claim must be known to be invisible to other claims as long as its batch
runs. `ExclusionInv` adds `HeldFresh`, *the claim on a row a batch holds is at most as old as the batch* – with
`MaxBatchAge < StaleAge` it is fresh, so the whole document is hidden from `ClaimBatch` – and what ties a batch to its rows:
operations are on rows the batch loaded (`OwnRow`), ids are never reused (`OldIds`), and a batch that has not
claimed holds nothing (`NothingYet`). The only action that adds to what a batch holds is `Claim`; every other one keeps
or shrinks it (`StepBatchAfter`), so the proof is `Claim` plus one general case. The assumption that settling
statements do not fail is needed: the deferred release of a failed batch clears claims of others, which
is described below.

**The queue.** That the wiki queue implements `DocumentQueue` needs `OrderInv`: exclusion, and `ClaimsInOrder`: a batch that carries out an
operation has loaded the older rows of its document with it (`WholeOf`) and will trim them, and those it loaded besides are older
(`LatestOf`). With that a document's own step is a `Put`, a `TakeOff` or a
`Withdraw` (`DocStepQueue`), a `Claim` a `Take`, a batch's step on a document a `Carry`, or a `Drop` when it requeues
(`OpStepQueue`), a trim and the end of a dead letter a `Leave`, a crash a `Drop`, the cleaning of the knowledge base a
`Withdraw`, what a batch does about a scrubbed row a `StrayEffect` or nothing, and every other step a stutter. The same
assumption is needed: after a foreign release two batches may carry out one row.

**What becomes of a row.** The other theorems on the wiki queue look at one document at a time. `BaseInv` (types, ids not reused,
operations on rows their batch loaded) holds without any assumption, and `StepCases` sorts the steps by what they are to that
document: a step of its own (`DocStep`), a batch's step on it (`OpStep`), a `Claim`, a `Trim`, or something elsewhere that leaves the
document, its rows and operations as they are, except that a batch may end.

* `DurableUntilDrained`: an undrained slot has a row that `WillDrain`: it is the newest of its document, an ingest, and
  every batch that loaded it carries it out and is not past its drain. Being the newest is what makes `decodePendingRows` keep it,
  and a batch deletes it only after the drain; exclusion is not needed.
* `DrainedMeansWritten`: `WrittenOf` adds that only a document being deleted has retracts (so nobody else takes its pages away)
  and that what a batch is about to drain as written is written.
* `NoGhost`: either nobody names the document or is about to (`Forgotten`), or some newest row `WillRetract`, and once a batch has
  looked for its pages no other is about to write one – or it is `overtaken`.
* `DrainedOnce`: `OnceOf` says that the ingest of a document that is not parsed again is queued once and that each batch that has an
  ingest of it is about that row; that one batch at a time is to drain it, by exclusion; and `DrainsCounted`: there were at most as
  many drains as crashes, or one more and the row is `Leaving`, in the hands of a batch that deletes it unless it crashes.
* `SomeoneComes` needs that a slot is held by a batch that runs (`SlotsRun`), for a batch turned away by the cap relies on one.

**The pages.** For `SectionBound` the invariant is `Room`: the reduces between lock and release, and one more unless the lock names one
of them, are at most `1 + lapses`. Whoever releases the lock of another makes room for one reduce and has left itself.
`HistoryInv` says besides that what a writer has read of a version that is still current is what that version says, unless it was
`glossed`, that versions only grow, and that no snapshot is there before its version is replaced; so the snapshot that goes with a
versioned write is taken, and right. For `TextKept` and `RefsKept`, `KeptInv` says that as long as nothing is blamed on a page what was merged is
in the page, in the copy of the one reduce that is at work on it and in what that is about to write (`Kept`, `Writing`), and that
nobody adds to what is merged but that reduce; the other writers keep it, take from it knowingly, or are blamed. A page that is
erased for its only source owes nothing as long as its sources are right; otherwise the erasing is blamed.

**The gate.** `GateInv` relates the channel, the `sync.Once` and the step of the call (`CallsOK`: the once has run exactly when a
decision is in the channel or was taken), says that a request not yet delivered or published has left no trace (`ReqsOK`), that
a subscriber only delivers requests that were checked on the call's own instance and cannot arrive again (`SubsOK`,
`DecidedOK`), and that every acknowledgement tells the truth and keeps telling it (`AcksOK`: decisions never change).
Given it, each step of the gate is a `Decide`, `Return` or `Tell` of `OneDecision`, or a stutter; `Crash` stutters.

**The counter.** `CounterInv` adds to the type what makes the sum in `SlotsCounted` move with the counter: each attempt is parsed
and then post-processed once, and not before it is opened (`Fresh`); post-processing owes only what its step allows (`Shape`); nobody
has copied `finalizing` before a counter was seeded (`Copied`); and the counter is at least the sum over post-processing and
subtasks of the attempt that seeded it unless a slot was taken, and equal to it while `blame` is empty (`Counted`: a lost slot makes
it larger). Each step changes one summand; the lemmas on cardinalities say by how much. `PromotedWhenDone` follows,
since a promotion happens at a counter of zero. For the sweep `SweepOK` and `Quiet` suffice: what it has seen idle stays idle,
because only a request of the user starts something for a document without tasks, and that opens an attempt.

**The limiter.** A call in a slot has a lease that is long enough until its next refresh (by cases on where the refresh is: waiting,
writing, failed once); pruning by any clock removes only what is not such a lease; so the members include `InSlot` and the
script's count bounds it. For the refinement, what the script counts is in a slot or owed (`lease` ends no earlier by the caller's
clock than `Owed` allows), so a call is refused only with `Out` full; a call that leaves owes at most a lease, a skew and a delay; and
each step is an `Enter`, `Deny`, `Retry`, `Exit`, a `Return` or a stutter.

**The leader.** `IInv` is the type, that versions are at least one (`Versioned`), and for every instance `Ok(i)`: at most one
goroutine is between the election and the map and none while a runtime is there (`Alone`); connections are counted by the map and those
goroutines (`Counted`); a poll drains only under the lock of its instance while that is up (`Draining`); after `Stop` the map is empty
(`Ended`). Whoever is in one of these situations owns the lock, so two instances never are. Every action keeps `Ok` of its instance and
leaves the others apart; both modes are covered.

**The finalize lane.** `IInv` says, besides the type, that a document's page keeps its folder, that one operation of a document at a
time is under the slug lock, and that only a scrub takes the row from an operation that is not over (`Shaped`); that the one
active pass holds the lock unless it lapsed (`Locked`); that folders of pages and plans exist, and whoever is about to prune has seen
an ingest lane that is still empty unless it was raced, so that whatever is planned then is of a scrubbed batch (`Sheltered`); that only what
is no longer a wiki is discarded (`Plain`); and `Remembered`: the row of a retract is not scrubbed, so no prune begins before it
ended; what it queued is out of reach of every prune and trim (`Safe`); and every empty folder of a retracted page has a page again, a
retract, or a row that no trim in progress holds.
Most steps are `Calm`, they take no row away and bring no pass to its prune or trim, and are settled by one lemma; the rest have one each.

**The question queue.** `CountsExact` alone is not inductive, for after a crash the counters in Redis are too high. `IInv` says that
while the state is `Healthy` a counter is *at least* what it counts, and equal to it without crashes, and bounds what is counted under
the limit itself (`UserCounted`, `GateCounted`): a request is admitted when the counter, hence what it counts, has room. For users that is not
all that is counted but the part not `over`, since a refused request is counted for a moment. Without Redis `LocalCounted` is
unconditional. Each step moves one request, so the size of every set changes by that one (`CountsMove`); that a dequeued request is queued,
on that instance and once, is `Held`. `NoLostWakeup` needs only that no worker returns from an open queue (`StaysOpen`).

**Only model-checked**: liveness (`EveryRowLeaves`, `CallsEnd`, `EveryRequestEnds`, `Settles`, `Served`, `StepsDown`, `CatchesUp`,
`RowsLeave`) and everything that needs `ENABLED`.
Out of the prover's reach: liveness under fairness and `ENABLED`; induction over data (what a recursive
definition computes for every input); RECURSIVE operators, which these modules do not use.

## Where code and comments disagree

Three disagreements are kept as runs:

* **A cancel can be undone** (`lifecycle_uncancelled`, `KP` 997). The summary reads the row, marks itself in it and saves it
  whole; a cancel in between is overwritten, and its drain, finding the counter at zero, completes the document. The comment at
  `KP` 2321-2323 says status and counter are written at once so that this cannot happen.
* **A capped retry cannot re-arm itself** (`wiki_turned_away`, `WI` 942). It is enqueued under the TaskID of the retry that is
  just running and is refused as a duplicate. When the slots belong to live batches their follow-ups make up for it; when
  they belong to dead workers nobody is left. The comment at `WI` 930-933 promises that turned-away rows are
  guaranteed to drain. The recheck of stale claims has the same flaw.
* **A scrub frees a document that is being worked on** (`wiki_stale_ref`, `TQ` 345, `KD` 215). Delete removes the claimed ingest row, the
  retract is claimed by another batch at once, and the ingest being reduced may write last: the page names a deleted document,
  although `KD` 214-216 says that new pages cannot be born with a stale reference, and `TQ` 128-131 that exactly this must never
  happen.

The others were met while modelling. The models contain the behaviour; the properties exempt it by name.

Wiki queue and finalize lane:

* **A drain names the document, not the attempt** (`WB` 791). After cancel and reparse, the old attempt's
  batch drains the new attempt's slot; the comment at `WB` 545-547 says completed only arrives when the wiki is written.
  The other subtasks guard this with `attemptSuperseded`.
* **The deferred release ignores who holds a claim** (`WB` 398). A batch whose settling failed after it had
  requeued a row clears the claim of the batch that took that row; a third may then join it.
* **Rows of the finalize lane can be left without a task** (`WB` 1136-1139). Rows that came during a pass, or that it did not peek,
  are rescheduled under the TaskID the pass itself still holds, which is refused as a duplicate; the next batch or restart
  helps. `PeekBatch` returns at most 1000 rows (`TQ` 103-121) while `wikiFinalizeMaxRows` (`WI` 202-204: "reschedules
  itself for the remainder") is 5000. The same happens to rows behind an archived task, which keeps its TaskID, and to a task that a
  dead worker's lock turns away (`WB` 941: "it will drain the lane").
* **A folder can be pruned under a page** in spite of the look at the ingest lane, by a document that is queued and planned between
  `PendingCount` and the delete (`WB` 1088-1096; `raced`); the next `applyFolderToPage` reports an unknown folder.
* **The look at the ingest lane does not see a scrubbed batch** (`scrubbed`). Cancel, delete and reparse delete the claimed row of a
  batch that goes on (`KD` 377-413, `TQ` 338-352), so `PendingCount` is zero while the batch has a planned folder; `WB` 1080-1084
  defers the prune while any ingest row is queued or claimed, since an empty folder can still be owned by a batch in flight. It takes
  thirteen steps: an ingest is planned and scrubbed, the document is deleted and retracted, and the retract's pass prunes.
* **A deletion that fails half-way forgets the folders** of the pages it has deleted: the retract that names them is queued after
  (`KD` 289-320).

Wiki pages:

* **A lapse of the slug lock loses an update.** The lease of five minutes is not renewed and the release deletes whatever it finds;
  two reduces then read one page, and since `UpdatePage` compares the version with a second read, made after the LLM call, the later
  write undoes the earlier (`lock` in `blame`).
* **The version guard of an edit does not cover the write** (`edit`). `PUT` compares the version its user saw before it calls
  `UpdatePage`, which reads the page again: a reduce that comes between is overwritten.
* **Decorators write over newer versions** (`gloss`). A text with other links, made from an older read, replaces what the page says
  by then, without a new version and without a snapshot, though `WP` 174-176 says that the content of every past version is preserved.
* **Bookkeeping is written back as it was read** (`meta`). The maintenance of in-links, `publishDraftPages` and the deletion of a
  document hold no slug lock and write all of `source_refs` through `UpdateMeta`; a document that a reduce added in between disappears
  from the sources, and its deletion will not find the page. `WI` 58-61 and 813-817 say that the lock serializes these writes.

* **A deletion erases a page for what its sources were** (`erase`). `KD` 259 and 287-290 choose between taking a document out and
  deleting the page from rows listed before, and `DeletePage` (`WP` 398-410) deletes by slug without looking again; the text of a
  document that a reduce added in between is lost.

Life cycle:

* A save of the whole row, and the fast path of post-processing (`PP` 249), can overwrite a delete or cancel as well (`KP` 2786-2799).
* The sweep fails a document whose wiki row is merely waiting behind others: the wiki's triggers do not name it (`HK` 151-158).
* Post-processing of an old attempt is not checked for supersession and may seed the counter of a reparse; image tasks count down
  a counter that is keyed by document (`image_multimodal.go` 656-691).

Messenger channels:

* **The gate never heals while somebody waits** (`QA` 307). The script renews the expiry on refused tries too; after
  a crash the waiting workers keep the dead instance's slots alive. The comment at `QA` 26-28 says the counter heals itself.
  A request that waits there is out of reach of `/stop`: it is neither queued nor in the in-flight map.
* **A cancelled request passes the gate** (`QA` 331). A context cancelled as the script runs looks like a Redis
  error; the request is executed without a slot and then gives one back, and the gate admits one more from then on. The
  comment at `QA` 316 says false is returned. Stopping a channel cancels the contexts of its requests.
* **An enabled channel can end up on no instance** (`IM` 1248, 1376). A renewal that fails once stops the channel and schedules no
  retry; a standby whose connection is refused ends its retries. With one instance, or when all of them have been through this,
  nobody is left who tries, although `IM` 1063-1065 says that the others take over. `dropped` records both.
* **A long-poll start that meets `Stop` releases the lock at once** (`IM` 1134), while the poll it has just cancelled may be running,
  against the comment at `IM` 1181-1183. `OneConnection` counts draining polls only on instances that are up.
* `HandleMessage` starts a channel without looking at whether it is enabled (`IM` 1638-1643); the next renewal stops it.

Limits:

* The in-process limiter keeps the capacity it had at first use; `governor.go` 130-131 says that the limit never changes, but it is a
  setting. Hits of the rate limiter in one millisecond of one instance count once (`ratelimit/limiter.go` 83).

In two more situations the counters drift and nothing says they should not: a failing Redis call lets a request in uncounted
and uncounts it later, and a handler that outlives the key's five minutes decrements a key that is gone. `Healthy`
excludes them from the limits by name.

Two anomalies are kept in the model and exempted by name: an ingest that post-processing queues *behind* a delete's retract
supersedes the retract, which is then never carried out, and a retract whose page rewrite failed in the LLM counts as
done. Both put the document in `closed`, which `NoGhost` excludes, as it does the `overtaken` of `wiki_stale_ref`.

The proofs have also corrected the models: `NoGhost` and `SomeoneComes` had held only because the runs were too small for a delete to
overtake a reduce or a capped retry to meet dead workers, and a definition of `WikiPages` had cases that overlapped.

## Plan

Done: `PendingOps`, `WikiTriggers`, `DocumentQueue` and `WikiIngest`; `WikiFinalize`; `WikiPages`; `KnowledgeLifecycle`; `OneDecision` and
`ApprovalGate`; `Semaphore` and `ModelLimiter`; `ChannelLeader`; `QAQueue`; each with its proofs.

Next, in this order:

1. The messenger service beside its leader: deduplication of messages, stop markers, the in-flight map.
2. `RateLimiter`: a window kept in Redis beside local state, with Redis failing. The fan-in over image tasks of a document.
3. An abstract life cycle (a document is parsed, enriched and completed once per attempt) that `KnowledgeLifecycle` implements.

Later modules follow the layout of the present ones: parameters as CONSTANTS with named assumptions, one action per stretch
between accesses to shared state, no RECURSIVE operator, proofs in a module of their own.

## Not modelled, and why

* Moves of pages and folders by users; changes of a page's status by hand, archived pages, the index page.
* The second sweep of the housekeeping (`summary_status`), the in-process limiter and its governor, manual and FAQ documents.
* Webhook channels (no leader), the adapters' connections and the supervisor that recycles them.
* Lite mode (no Redis, no asynq: one process, one lock per knowledge base): it has none of the interleavings above.
* A batch that goes on after asynq's timeout has cancelled its context: the model's batches end within `MaxBatchAge`.
* Archived asynq tasks that keep their TaskID until they are deleted.
* `EnqueueWikiIngest` from moving documents between knowledge bases (`knowledge_clone_move.go`): the same call as in `PostEnqueue`.
* Errors before the claim (the knowledge base cannot be read, no chat model): the handler returns an error and changes nothing.
* Prompts, extraction, chunking, ranking, rendering: data without control.
* Components listed above as I/O or CRUD; `PROJECT.json` gives the reason for each.

## Running

    tlc -workers 2 -config WikiIngestExclusion.cfg MCWikiIngest
    tlc -workers 2 -config WikiPages.cfg MCWikiPages
    tlapm ApprovalGateProofs.tla

Every run finishes within five minutes; every proof obligation is discharged by Z3, Zenon or LS4.
