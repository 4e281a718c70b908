------------------------------ MODULE WikiPages ------------------------------
(***************************************************************************)
(* The pages of one wiki and everybody who writes them: the reduces of     *)
(* concurrent batches, one per page and guarded by a lock in Redis, the    *)
(* users and the agent who edit, revert and delete pages, the machine that *)
(* decorates their links, and the deletion of a document.                  *)
(*                                                                         *)
(* Every write but the last kind is made of what its writer read earlier:  *)
(* a versioned write compares the version it read a moment before, writes  *)
(* of bookkeeping and of links compare nothing.  After a page its in-links *)
(* are entered at the pages it links to, each a read and a write of that   *)
(* page's bookkeeping by somebody who holds no lock of it.                 *)
(*                                                                         *)
(* The text of a page is the documents that went into it and the job that  *)
(* wrote the words; a page links to the same pages whatever its text.      *)
(***************************************************************************)
EXTENDS Integers, FiniteSets

CONSTANTS
    Pages, Docs,
    Writers,      \* goroutines and requests at work at the same time
    Links,        \* the pages that each page links to
    Keep,         \* WikiMaxRevisionsPerPage: snapshots by the pipeline that are kept
    KeepHard,     \* WikiMaxRevisionsHardCap: snapshots by anybody
    NoOne, NoDoc,
    \* Bounds of the model:
    MaxJobs,      \* writers that come
    MaxTroubles   \* crashes, locks that expire under their holder, failing calls of SetNX

ASSUME WikiPagesAssumption ==
    /\ IsFiniteSet(Writers) /\ Links \in [Pages -> SUBSET Pages]
    /\ Keep \in Nat /\ KeepHard \in Nat
    /\ NoOne \notin Writers /\ NoDoc \notin Docs
    /\ MaxJobs \in Nat /\ MaxTroubles \in Nat

VARIABLES
    row,       \* the row of wiki_pages for each slug
    revs,      \* the snapshots of each page in wiki_page_revisions
    born,      \* how many pages were created
    lock,      \* wiki:slug:<kb>:<slug>, with the job that set it
    job,       \* what each writer is doing
    gone,      \* documents that were deleted
    jobs, troubles,
    \* History:
    saved,     \* the texts that versioned writes stored, for each page
    glossed,   \* versions whose text a decorator replaced by that of another version
    merged,    \* documents whose reduce has written them into a page
    lapses,    \* how often a reduce was let in beside another
    blame      \* what has overwritten a page it had read earlier

pages == <<row, revs, born>>
ghosts == <<saved, glossed, merged, lapses, blame>>
vars == <<pages, lock, job, gone, jobs, troubles, ghosts>>

-----------------------------------------------------------------------------

Reduces == {"add", "retract"}
Edits == {"edit", "revert"}

Texts == [docs : SUBSET Docs, by : 0..MaxJobs]
NoText == [docs |-> {}, by |-> 0]

Sources == {"pipeline", "user"}

Rows == [id : Nat, version : Nat, text : Texts, refs : SUBSET Docs, draft : BOOLEAN,
         inl : SUBSET Pages, src : Sources]

NoRow == [id |-> 0, version |-> 0, text |-> NoText, refs |-> {}, draft |-> FALSE,
          inl |-> {}, src |-> "pipeline"]

Revisions == [version : Nat, text : Texts, src : Sources, draft : BOOLEAN]

\* What a version is: who stored which text.
Versions == [version : Nat, text : Texts, src : Sources]

Version(r) == [version |-> r.version, text |-> r.text, src |-> r.src]

Exists(p) == row[p].id # 0

\* What a reduce does between SetNX and Del.
Section == {"read", "think", "save", "prune", "links", "link", "unlock"}

Pcs == Section \cup {"idle", "wait", "meta", "drop", "erase", "publish", "flip"}

Kinds == Reduces \cup Edits \cup {"gloss", "clean", "delete"}

\* The page as it was read first and last, the row of a linked page or of the page to
\* publish, and what UpdatePage is given.
Jobs == [pc : Pcs, kind : Kinds \cup {"none"}, page : Pages \cup {NoOne}, doc : Docs \cup {NoDoc},
         n : 0..MaxJobs, locked : BOOLEAN, wrote : BOOLEAN, copy : Rows, cur : Rows,
         text : Texts, del : SUBSET Pages, add : SUBSET Pages,
         target : Pages \cup {NoOne}, seen : Rows]

NoJob == [pc |-> "idle", kind |-> "none", page |-> NoOne, doc |-> NoDoc, n |-> 0, locked |-> FALSE,
          wrote |-> FALSE, copy |-> NoRow, cur |-> NoRow, text |-> NoText,
          del |-> {}, add |-> {}, target |-> NoOne, seen |-> NoRow]

Inside(p) == {w \in Writers : job[w].kind \in Reduces /\ job[w].page = p /\ job[w].pc \in Section}

TypeOK ==
    /\ row \in [Pages -> Rows] /\ revs \in [Pages -> SUBSET Revisions] /\ born \in Nat
    /\ lock \in [Pages -> Writers \cup {NoOne}]
    /\ job \in [Writers -> Jobs] /\ gone \subseteq Docs
    /\ jobs \in 0..MaxJobs /\ troubles \in 0..MaxTroubles
    /\ saved \in [Pages -> SUBSET Versions] /\ glossed \in [Pages -> SUBSET Nat]
    /\ merged \in [Pages -> SUBSET Docs] /\ lapses \in 0..troubles
    /\ blame \in [Pages -> SUBSET {"lock", "edit", "gloss", "meta", "erase"}]

Init ==
    /\ row = [p \in Pages |-> NoRow] /\ revs = [p \in Pages |-> {}] /\ born = 0
    /\ lock = [p \in Pages |-> NoOne] /\ job = [w \in Writers |-> NoJob] /\ gone = {}
    /\ jobs = 0 /\ troubles = 0
    /\ saved = [p \in Pages |-> {}] /\ glossed = [p \in Pages |-> {}]
    /\ merged = [p \in Pages |-> {}] /\ lapses = 0
    /\ blame = [p \in Pages |-> {}]

Trouble == troubles < MaxTroubles /\ troubles' = troubles + 1

At(w, pc) == job[w].pc = pc

Goes(w, pc) == job' = [job EXCEPT ![w].pc = pc]

\* The end of UpdatePage and its like, whatever came of it: a reduce gives the lock back.
Left(w) ==
    IF job[w].kind \in Reduces
    THEN [job[w] EXCEPT !.pc = "unlock", !.copy = NoRow, !.cur = NoRow, !.text = NoText]
    ELSE NoJob

Leaves(w) == job' = [job EXCEPT ![w] = Left(w)]

Blames(p, what, is) == blame' = IF is THEN [blame EXCEPT ![p] = @ \cup {what}] ELSE blame

Quiet == UNCHANGED <<lock, gone, jobs, troubles, lapses>>

Rests == UNCHANGED <<pages, saved, glossed, merged, blame>>

-----------------------------------------------------------------------------
(* Who comes.                                                              *)

Comes(w, k, p, d, pc) ==
    /\ At(w, "idle") /\ jobs < MaxJobs /\ jobs' = jobs + 1
    /\ job' = [job EXCEPT ![w] = [NoJob EXCEPT !.kind = k, !.page = p, !.doc = d, !.n = jobs + 1,
                                               !.pc = pc]]
    /\ UNCHANGED <<pages, lock, troubles, ghosts>>

\* A batch has updates for a page: of a live document, or the retract of a deleted one.
Reduce(w) ==
    /\ \E p \in Pages, d \in Docs : Comes(w, IF d \in gone THEN "retract" ELSE "add", p, d, "wait")
    /\ UNCHANGED gone

\* PUT and revert of a user, the tools of the agent, the decorators of links, DELETE.
Request(w) ==
    /\ \E p \in Pages :
          \/ \E k \in Edits \cup {"gloss"} : Comes(w, k, p, NoDoc, "read")
          \/ Comes(w, "delete", p, NoDoc, "drop")
    /\ UNCHANGED gone

\* The deletion of a document looks at a page.
Clean(w) ==
    \E p \in Pages : \E d \in row[p].refs :
        Comes(w, "clean", p, d, "read") /\ gone' = gone \cup {d}

-----------------------------------------------------------------------------
(* withSlugLock.                                                           *)

\* Mutant: the lock is not looked at.
EnterAnyway(w) ==
    LET p == job[w].page IN
    /\ At(w, "wait")
    /\ lock' = [lock EXCEPT ![p] = w]
    /\ job' = [job EXCEPT ![w].pc = "read", ![w].locked = TRUE]
    /\ Blames(p, "lock", Inside(p) # {})
    /\ UNCHANGED <<pages, gone, jobs, troubles, saved, glossed, merged, lapses>>

\* SetNX finds no lock.  Another reduce is still at work only if one was let in beside it.
Enter(w) ==
    LET p == job[w].page IN
    /\ At(w, "wait") /\ lock[p] = NoOne
    /\ lock' = [lock EXCEPT ![p] = w]
    /\ job' = [job EXCEPT ![w].pc = "read", ![w].locked = TRUE]
    /\ Blames(p, "lock", Inside(p) # {})
    /\ UNCHANGED <<pages, gone, jobs, troubles, saved, glossed, merged, lapses>>

\* SetNX fails: the reduce goes on without the lock.
EnterUnlocked(w) ==
    /\ At(w, "wait") /\ Trouble /\ lapses' = lapses + 1
    /\ Goes(w, "read")
    /\ Blames(job[w].page, "lock", Inside(job[w].page) # {})
    /\ UNCHANGED <<pages, lock, gone, jobs, saved, glossed, merged>>

\* Mutant: who has waited too long goes on.
GiveUpWaiting(w) ==
    /\ At(w, "wait") /\ lock[job[w].page] # NoOne
    /\ Goes(w, "read")
    /\ Rests /\ Quiet

\* The wait was too long: the document will be queued again.
GiveUp(w) ==
    /\ At(w, "wait") /\ lock[job[w].page] # NoOne
    /\ job' = [job EXCEPT ![w] = NoJob]
    /\ Rests /\ Quiet

\* Whoever holds the lock by now, it is deleted.  The pages of the batch are published next.
Unlock(w) ==
    /\ At(w, "unlock")
    /\ lock' = IF job[w].locked THEN [lock EXCEPT ![job[w].page] = NoOne] ELSE lock
    /\ job' = [job EXCEPT ![w] = IF job[w].wrote
                                 THEN [NoJob EXCEPT !.pc = "publish", !.kind = job[w].kind,
                                                    !.page = job[w].page]
                                 ELSE NoJob]
    /\ Rests /\ UNCHANGED <<gone, jobs, troubles, lapses>>

Holds(w, p) == lock[p] = w /\ w \in Inside(p) /\ job[w].locked

\* Five minutes are over: the holder is dead, or still at work.
Expire(p) ==
    /\ lock[p] # NoOne /\ lock' = [lock EXCEPT ![p] = NoOne]
    /\ IF Holds(lock[p], p) THEN Trouble /\ lapses' = lapses + 1 ELSE UNCHANGED <<troubles, lapses>>
    /\ Rests /\ UNCHANGED <<job, gone, jobs>>

-----------------------------------------------------------------------------
(* Statements on a page: none finds a row that was deleted.                *)

\* UpdateMeta: all bookkeeping, of a row that was read before.
MetaWrite(p, read, new) ==
    /\ row' = IF Exists(p) /\ row[p].id = new.id
              THEN [row EXCEPT ![p].refs = new.refs, ![p].draft = new.draft, ![p].inl = new.inl]
              ELSE row
    /\ Blames(p, "meta", row[p].id = read.id /\ row[p].refs # read.refs)

\* The snapshot of the version that is replaced, unless there is one.
Snapshot(p, r) ==
    IF \E v \in revs[p] : v.version = r.version THEN revs[p]
    ELSE revs[p] \cup {[version |-> r.version, text |-> r.text, src |-> r.src, draft |-> r.draft]}

Stored(p, r) == saved' = [saved EXCEPT ![p] = @ \cup {Version(r)}]

Source(w) == IF job[w].kind \in Reduces THEN "pipeline" ELSE "user"

\* Mutant: a document replaces the sources of the page.
RefsReplaced(w) ==
    CASE job[w].kind = "add" -> {job[w].doc}
      [] job[w].kind \in {"retract", "clean"} -> job[w].copy.refs \ {job[w].doc}
      [] OTHER -> job[w].copy.refs

\* The source_refs of the page as a writer leaves them.
Refs(w) ==
    CASE job[w].kind = "add" -> job[w].copy.refs \cup {job[w].doc}
      [] job[w].kind \in {"retract", "clean"} -> job[w].copy.refs \ {job[w].doc}
      [] OTHER -> job[w].copy.refs

\* Somebody else has written a version since the writer read the page first.
Stale(w) == job[w].copy.id # job[w].cur.id \/ job[w].copy.version # job[w].cur.version

\* What a page owes to the reduces: an edit may drop what it was shown.
Merged(w, text) ==
    CASE job[w].kind = "add" -> merged[job[w].page] \cup {job[w].doc}
      [] job[w].kind = "retract" -> merged[job[w].page] \ {job[w].doc}
      [] OTHER -> IF Stale(w) THEN merged[job[w].page] ELSE merged[job[w].page] \cap text.docs

-----------------------------------------------------------------------------
(* The handlers up to UpdatePage.                                          *)

\* A reduce drops the update of a document that is gone; without a page only an addition, or
\* whoever creates pages by hand, goes on.
Read(w) ==
    LET p == job[w].page
        k == job[w].kind
        d == job[w].doc
        r == row[p] IN
    /\ At(w, "read")
    /\ job' = [job EXCEPT ![w] =
                 IF \/ k = "add" /\ d \in gone
                    \/ ~Exists(p) /\ k \notin {"add", "edit"}
                    \/ k = "clean" /\ d \notin r.refs
                 THEN Left(w)
                 ELSE IF k = "clean" THEN [@ EXCEPT !.pc = IF r.refs = {d} THEN "drop" ELSE "meta",
                                                    !.copy = IF r.refs = {d} THEN NoRow ELSE r]
                 ELSE [@ EXCEPT !.pc = "think", !.copy = r, !.wrote = TRUE]]
    /\ Rests /\ Quiet

\* The deletion of a document takes it out of the source_refs.
TakeOut(w) ==
    LET r == job[w].copy IN
    /\ At(w, "meta") /\ MetaWrite(job[w].page, r, [r EXCEPT !.refs = Refs(w)])
    /\ Leaves(w)
    /\ UNCHANGED <<revs, born, saved, glossed, merged>> /\ Quiet

\* The LLM fails, and the reduce ends as if it had nothing to do.
GenerationFails(w) ==
    /\ At(w, "think") /\ job[w].kind \in Reduces
    /\ job' = [job EXCEPT ![w] = [Left(w) EXCEPT !.wrote = FALSE]]
    /\ Rests /\ Quiet

\* What is to be written: by the LLM, by a user who saw the page, from a snapshot - with the
\* status it had -, or the same text with other links.
Written(w) ==
    LET j == job[w]
        docs == CASE j.kind = "add" -> j.copy.text.docs \cup {j.doc}
                  [] j.kind = "retract" -> j.copy.text.docs \ {j.doc}
                  [] OTHER -> j.copy.text.docs
        texts == CASE j.kind = "gloss" -> {j.copy.text}
                   [] OTHER -> {[docs |-> docs, by |-> j.n]}
                               \cup {t \in {j.copy.text} : j.copy.id # 0 /\ t.docs = docs}
    IN  IF j.kind = "revert"
        THEN {[text |-> v.text, draft |-> v.draft] :
                v \in {v \in revs[j.page] : row[j.page].id = j.copy.id /\ v.version # j.copy.version}}
        ELSE {[text |-> t, draft |-> j.copy.draft] : t \in texts}

\* UpdatePage and UpdateAutoLinkedContent read the page again, or do not find it.
Update(w) ==
    LET p == job[w].page IN
    /\ At(w, "think") /\ job[w].copy.id # 0
    /\ IF Exists(p)
       THEN \E t \in Written(w) :
               job' = [job EXCEPT ![w].pc = "save", ![w].cur = row[p], ![w].text = t.text,
                                  ![w].copy.draft = t.draft]
       ELSE Leaves(w)
    /\ Rests /\ Quiet

\* No such snapshot, or it is the current version.
NotFound(w) ==
    /\ At(w, "think") /\ job[w].kind = "revert"
    /\ Leaves(w) /\ Rests /\ Quiet

\* CreatePage, refused when there is such a page by now; a reduce leaves a draft.
Create(w) ==
    LET p == job[w].page IN
    /\ At(w, "think") /\ job[w].copy.id = 0
    /\ IF Exists(p)
       THEN Leaves(w) /\ Rests
       ELSE /\ born' = born + 1
            /\ \E t \in Written(w) :
                  LET r == [NoRow EXCEPT !.id = born + 1, !.version = 1, !.text = t.text,
                                         !.refs = Refs(w), !.draft = job[w].kind = "add", !.src = Source(w)] IN
                  /\ row' = [row EXCEPT ![p] = r] /\ Stored(p, r)
                  /\ merged' = [merged EXCEPT ![p] = Merged(w, t.text)]
            /\ job' = [job EXCEPT ![w] = [@ EXCEPT !.pc = "links", !.add = Links[p], !.text = NoText]]
            /\ UNCHANGED <<revs, glossed, blame>>
    /\ Quiet

-----------------------------------------------------------------------------
(* The write of UpdatePage.                                                *)

Saves(w) == At(w, "save") /\ job[w].kind # "gloss"

\* The title, the text or the status changes.
Changed(w) == job[w].text # job[w].cur.text \/ job[w].copy.draft # job[w].cur.draft

\* Mutant: the version is not compared.
CurrentPage(w) == row[job[w].page].id = job[w].cur.id

Current(w) == row[job[w].page].id = job[w].cur.id /\ row[job[w].page].version = job[w].cur.version

\* An edit overwrites what it was not made of.
Outdated(w) == Stale(w) \/ job[w].copy.refs # row[job[w].page].refs

\* UpdateWithRevision: the snapshot and the page in one transaction, or a conflict.
SaveVersion(w) ==
    LET p == job[w].page
        j == job[w]
        r == [row[p] EXCEPT !.version = j.cur.version + 1, !.text = j.text, !.refs = Refs(w),
                            !.draft = j.copy.draft, !.src = Source(w)] IN
    /\ Saves(w) /\ Changed(w)
    /\ IF Current(w)
       THEN /\ row' = [row EXCEPT ![p] = r] /\ Stored(p, r)
            /\ revs' = [revs EXCEPT ![p] = Snapshot(p, j.cur)]
            /\ merged' = [merged EXCEPT ![p] = Merged(w, j.text)]
            /\ Blames(p, "edit", j.kind \in Edits /\ Outdated(w))
            /\ job' = [job EXCEPT ![w].pc = "prune", ![w].copy = NoRow, ![w].text = NoText]
            /\ UNCHANGED <<born, glossed>>
       ELSE Leaves(w) /\ Rests
    /\ Quiet

Linking(w) ==
    job' = [job EXCEPT ![w] = [@ EXCEPT !.pc = "links", !.del = Links[job[w].page],
                                        !.add = Links[job[w].page], !.copy = NoRow, !.cur = NoRow, !.text = NoText]]

\* UpdateMeta when nothing that a user sees has changed.
SaveMeta(w) ==
    LET p == job[w].page
        j == job[w] IN
    /\ Saves(w) /\ ~Changed(w)
    /\ IF Exists(p) /\ row[p].id = j.cur.id
       THEN /\ row' = [row EXCEPT ![p].refs = Refs(w), ![p].draft = j.copy.draft, ![p].inl = j.cur.inl]
            /\ merged' = [merged EXCEPT ![p] = IF j.kind = "retract" THEN @ \ {j.doc} ELSE @]
            /\ Blames(p, "edit", j.kind \in Edits /\ Outdated(w))
            /\ Linking(w)
            /\ UNCHANGED <<revs, born, saved, glossed>>
       ELSE Leaves(w) /\ Rests
    /\ Quiet

\* pruneRevisions: those of users are kept longer.
Prune(w) ==
    LET p == job[w].page
        v == job[w].cur.version + 1 IN
    /\ At(w, "prune")
    /\ revs' = IF row[p].id = job[w].cur.id
               THEN [revs EXCEPT ![p] = {r \in @ : /\ r.version < v - Keep => r.src = "user"
                                                   /\ ~(r.version < v - KeepHard)}]
               ELSE revs
    /\ Linking(w)
    /\ UNCHANGED <<row, born, saved, glossed, merged, blame>> /\ Quiet

\* The decorators write the text they made, over whatever the page says by then.
SaveGloss(w) ==
    LET p == job[w].page
        r == job[w].copy IN
    /\ At(w, "save") /\ job[w].kind = "gloss"
    /\ IF Exists(p) /\ row[p].id = job[w].cur.id
       THEN /\ row' = [row EXCEPT ![p].text = job[w].text]
            /\ LET late == r.id # row[p].id \/ r.version # row[p].version IN
               /\ glossed' = IF late THEN [glossed EXCEPT ![p] = @ \cup {row[p].version}] ELSE glossed
               /\ Blames(p, "gloss", late)
            /\ Linking(w)
            /\ UNCHANGED <<revs, born, saved, merged>>
       ELSE Leaves(w) /\ Rests
    /\ Quiet

-----------------------------------------------------------------------------
(* removeInLinks, then updateInLinks: a read and a write for each link.    *)

LinkRead(w) ==
    LET p == job[w].page
        del == job[w].del # {} IN
    /\ At(w, "links")
    /\ \E t \in IF del THEN job[w].del ELSE job[w].add :
          job' = IF Exists(t) /\ (p \in row[t].inl) = del
                 THEN [job EXCEPT ![w].pc = "link", ![w].target = t, ![w].seen = row[t]]
                 ELSE IF del THEN [job EXCEPT ![w].del = @ \ {t}] ELSE [job EXCEPT ![w].add = @ \ {t}]
    /\ Rests /\ Quiet

LinkWrite(w) ==
    LET p == job[w].page
        t == job[w].target
        r == job[w].seen
        del == t \in job[w].del IN
    /\ At(w, "link")
    /\ MetaWrite(t, r, [r EXCEPT !.inl = IF del THEN @ \ {p} ELSE @ \cup {p}])
    /\ job' = [job EXCEPT ![w].pc = "links", ![w].target = NoOne, ![w].seen = NoRow,
                          ![w].del = @ \ {t}, ![w].add = IF del THEN @ ELSE @ \ {t}]
    /\ UNCHANGED <<revs, born, saved, glossed, merged>> /\ Quiet

Linked(w) ==
    /\ At(w, "links") /\ job[w].del = {} /\ job[w].add = {}
    /\ IF job[w].kind \in {"clean", "delete"} THEN Goes(w, "erase") ELSE Leaves(w)
    /\ Rests /\ Quiet

-----------------------------------------------------------------------------
(* DeletePage and publishDraftPages.                                       *)

Drop(w) ==
    /\ At(w, "drop")
    /\ IF Exists(job[w].page)
       THEN job' = [job EXCEPT ![w].pc = "links", ![w].del = Links[job[w].page]]
       ELSE Leaves(w)
    /\ Rests /\ Quiet

\* The deletion of a document erases a page for its last source: the page has others by now,
\* or its list of sources had lost some before.
Hasty(w) ==
    LET p == job[w].page IN
    job[w].kind = "clean" /\ Exists(p) /\ (row[p].refs # {job[w].doc} \/ "meta" \in blame[p])

\* The page goes, whatever it says by now, and with it its snapshots; the next one has another
\* id.  A user's DELETE releases the page from what it owes, the deletion of a document from
\* what it owes to deleted ones.
Erase(w) ==
    LET p == job[w].page IN
    /\ At(w, "erase")
    /\ row' = [row EXCEPT ![p] = NoRow] /\ revs' = [revs EXCEPT ![p] = {}]
    /\ saved' = [saved EXCEPT ![p] = {}] /\ glossed' = [glossed EXCEPT ![p] = {}]
    /\ merged' = [merged EXCEPT ![p] = IF job[w].kind = "clean" THEN @ \ gone ELSE {}]
    /\ Leaves(w) /\ Blames(p, "erase", Hasty(w))
    /\ UNCHANGED born /\ Quiet

Publish(w) ==
    LET p == job[w].page IN
    /\ At(w, "publish")
    /\ job' = [job EXCEPT ![w] = IF Exists(p) /\ row[p].draft
                                 THEN [@ EXCEPT !.pc = "flip", !.seen = row[p]]
                                 ELSE NoJob]
    /\ Rests /\ Quiet

Flip(w) ==
    /\ At(w, "flip")
    /\ MetaWrite(job[w].page, job[w].seen, [job[w].seen EXCEPT !.draft = FALSE])
    /\ job' = [job EXCEPT ![w] = NoJob]
    /\ UNCHANGED <<revs, born, saved, glossed, merged>> /\ Quiet

\* The process of a writer dies; a lock stays behind.
Crash(w) ==
    /\ ~At(w, "idle") /\ Trouble
    /\ job' = [job EXCEPT ![w] = NoJob]
    /\ Rests /\ UNCHANGED <<lock, gone, jobs, lapses>>

Next ==
    \/ \E w \in Writers :
          \/ Reduce(w) \/ Request(w) \/ Clean(w)
          \/ Enter(w) \/ EnterUnlocked(w) \/ GiveUp(w) \/ Unlock(w)
          \/ Read(w) \/ TakeOut(w) \/ GenerationFails(w) \/ Update(w) \/ NotFound(w) \/ Create(w)
          \/ SaveVersion(w) \/ SaveMeta(w) \/ Prune(w) \/ SaveGloss(w)
          \/ LinkRead(w) \/ LinkWrite(w) \/ Linked(w)
          \/ Drop(w) \/ Erase(w) \/ Publish(w) \/ Flip(w) \/ Crash(w)
    \/ \E p \in Pages : Expire(p)

Spec == Init /\ [][Next]_vars

-----------------------------------------------------------------------------

\* As many reduces may be at work on a page as were let in beside another,
\* and one more: a lock that expired under its holder is deleted by it while
\* it is another's, which lets the next one in, but no expiry makes two.
SectionBound == \A p \in Pages : Cardinality(Inside(p)) <= 1 + lapses

\* Every text that a versioned write has stored is that of the page or in its
\* history, as the version it was stored as, until it is pruned - what a user
\* wrote later than the rest - or a decorator has written an older text over
\* it, which leaves no snapshot.
HistoryExact ==
    \A p \in Pages : \A s \in saved[p] :
        \/ s.version \in glossed[p]
        \/ s = Version(row[p])
        \/ \E v \in revs[p] : s = Version(v)
        \/ s.version < row[p].version - (IF s.src = "user" THEN KeepHard ELSE Keep)
        \/ s.version < row[p].version - KeepHard

\* A document that a reduce has written into a page stays in its text until
\* it is retracted, edited away by somebody who saw it, or deleted with the page
\* by a user or as its last document, unless two reduces were at work on the
\* page, an edit was made of an older version than it replaced, a decorator
\* wrote an older text over it, or the deletion of another document erased the
\* page: for a look at its sources that was out of date by then, or a list of
\* them that had been written back from an old read.
TextKept ==
    \A p \in Pages :
        blame[p] \cap {"lock", "edit", "gloss", "erase"} = {} => merged[p] \subseteq row[p].text.docs

\* And such a document, unless it is deleted itself, is among the sources of
\* the page, which lead its deletion to it: but for the same two reduces, the
\* same edit and the same erasure, and for bookkeeping that was read before and
\* written back.
RefsKept ==
    \A p \in Pages :
        blame[p] \cap {"lock", "edit", "meta", "erase"} = {} => merged[p] \ gone \subseteq row[p].refs
=============================================================================
