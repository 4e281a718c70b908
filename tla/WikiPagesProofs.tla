--------------------------- MODULE WikiPagesProofs ---------------------------
(***************************************************************************)
(* For any pages, links, documents, writers and faults: how many reduces   *)
(* the slug lock lets in at a time, and that the history of a page holds   *)
(* what was stored.                                                        *)
(***************************************************************************)
EXTENDS WikiPages, FiniteSetTheorems, TLAPS

USE WikiPagesAssumption

-----------------------------------------------------------------------------
(* What is known of a job wherever it has got to.                          *)

GoodJob(j, b) ==
    /\ j \in Jobs
    /\ j.pc # "idle" => j.page \in Pages
    /\ j.pc \in Section \cup {"wait", "meta", "drop"} /\ j.kind \in Reduces \cup {"clean"} => j.doc \in Docs
    /\ j.pc = "link" => j.target \in Pages
    /\ j.pc \in {"wait", "unlock"} => j.kind \in Reduces
    /\ j.pc \in {"meta", "drop", "erase"} => j.kind \notin Reduces
    /\ j.pc \in {"save", "prune"} => j.cur.id # 0
    /\ j.pc = "save" => j.copy.id # 0
    /\ j.pc = "save" /\ j.kind = "gloss" => j.text = j.copy.text
    /\ j.copy.id <= b /\ j.cur.id <= b

JobsOK == job \in [Writers -> Jobs] /\ \A w \in Writers : GoodJob(job[w], born)

PagesOK ==
    /\ row \in [Pages -> Rows] /\ revs \in [Pages -> SUBSET Revisions] /\ born \in Nat
    /\ saved \in [Pages -> SUBSET Versions] /\ glossed \in [Pages -> SUBSET Nat]
    /\ merged \in [Pages -> SUBSET Docs]
    /\ \A p \in Pages : row[p].id <= born

RestOK ==
    /\ lock \in [Pages -> Writers \cup {NoOne}] /\ gone \subseteq Docs
    /\ jobs \in 0..MaxJobs /\ troubles \in 0..MaxTroubles /\ lapses \in 0..troubles
    /\ blame \in [Pages -> SUBSET {"lock", "edit", "gloss", "meta", "erase"}]

TypeInv == JobsOK /\ PagesOK /\ RestOK

LEMMA TypeInvType == TypeInv => TypeOK
  BY DEF TypeInv, JobsOK, PagesOK, RestOK, TypeOK

LEMMA NoRowType == NoRow \in Rows /\ NoRow.id = 0 /\ NoText \in Texts
  BY DEF NoRow, Rows, NoText, Texts, Sources

LEMMA NoJobType ==
    /\ NoJob \in Jobs /\ NoJob.pc = "idle" /\ NoJob.kind = "none"
    /\ \A b \in Nat : GoodJob(NoJob, b)
  <1>1. NoJob \in Jobs
    BY NoRowType DEF NoJob, Jobs, Pcs, Kinds
  <1>2. NoJob.pc = "idle" /\ NoJob.kind = "none" /\ NoJob.copy = NoRow /\ NoJob.cur = NoRow
    BY DEF NoJob
  <1>3. ASSUME NEW b \in Nat PROVE GoodJob(NoJob, b)
    BY <1>1, <1>2, NoRowType DEF GoodJob, Section
  <1> QED  BY <1>1, <1>2, <1>3

\* The fields of a job.
LEMMA JobFields ==
    ASSUME NEW j \in Jobs
    PROVE  /\ j.pc \in Pcs /\ j.kind \in Kinds \cup {"none"} /\ j.page \in Pages \cup {NoOne}
           /\ j.doc \in Docs \cup {NoDoc} /\ j.n \in 0..MaxJobs
           /\ j.locked \in BOOLEAN /\ j.wrote \in BOOLEAN
           /\ j.copy \in Rows /\ j.cur \in Rows /\ j.text \in Texts
           /\ j.del \subseteq Pages /\ j.add \subseteq Pages
           /\ j.target \in Pages \cup {NoOne} /\ j.seen \in Rows
  BY DEF Jobs

LEMMA RowFields ==
    ASSUME NEW r \in Rows
    PROVE  /\ r.id \in Nat /\ r.version \in Nat /\ r.text \in Texts /\ r.refs \subseteq Docs
           /\ r.draft \in BOOLEAN /\ r.inl \subseteq Pages /\ r.src \in Sources
  BY DEF Rows

LEMMA JobOf ==
    ASSUME TypeInv, NEW w \in Writers
    PROVE  job[w] \in Jobs /\ GoodJob(job[w], born)
  BY DEF TypeInv, JobsOK

LEMMA RowOf ==
    ASSUME TypeInv, NEW p \in Pages
    PROVE  row[p] \in Rows /\ row[p].id <= born /\ row[p].id \in Nat
  <1>1. row[p] \in Rows /\ row[p].id <= born
    BY DEF TypeInv, PagesOK
  <1> QED  BY <1>1, RowFields

\* A job that ends: nothing is left of it but what a reduce has to give back.
LEMMA LeftGood ==
    ASSUME TypeInv, NEW w \in Writers, job[w].pc \in Section \cup {"meta", "drop", "erase"}
    PROVE  /\ GoodJob(Left(w), born)
           /\ Left(w).pc = (IF job[w].kind \in Reduces THEN "unlock" ELSE "idle")
           /\ job[w].kind \in Reduces => 
                 /\ job[w].pc \in Section
                 /\ Left(w).kind = job[w].kind /\ Left(w).page = job[w].page
                 /\ Left(w).doc = job[w].doc /\ Left(w).locked = job[w].locked
           /\ job[w].kind \notin Reduces => Left(w) = NoJob
  <1>1. job[w] \in Jobs /\ GoodJob(job[w], born) /\ born \in Nat
    BY JobOf DEF TypeInv, PagesOK
  <1>2. CASE job[w].kind \notin Reduces
    BY <1>1, <1>2, NoJobType DEF Left
  <1>3. CASE job[w].kind \in Reduces
    <2>1. Left(w) = [job[w] EXCEPT !.pc = "unlock", !.copy = NoRow, !.cur = NoRow, !.text = NoText]
      BY <1>3 DEF Left
    <2>2. /\ Left(w) \in Jobs /\ Left(w).pc = "unlock" /\ Left(w).copy = NoRow /\ Left(w).cur = NoRow
          /\ Left(w).kind = job[w].kind /\ Left(w).page = job[w].page
          /\ Left(w).doc = job[w].doc /\ Left(w).locked = job[w].locked
      BY <1>1, <2>1, NoRowType DEF Jobs, Pcs, Section
    <2>3. job[w].pc \in Section /\ job[w].page \in Pages /\ job[w].doc \in Docs
      BY <1>1, <1>3 DEF GoodJob, Section, Reduces
    <2> QED  BY <1>1, <1>3, <2>2, <2>3, NoRowType DEF GoodJob, Section
  <1> QED  BY <1>2, <1>3

-----------------------------------------------------------------------------
(* What the steps do to a job.                                             *)

\* A step that changes one job, into a good one.
JobStep(w) == \E j : GoodJob(j, born') /\ job' = [job EXCEPT ![w] = j]

LEMMA JobStepOK ==
    ASSUME TypeInv, NEW w \in Writers, JobStep(w), born' \in Nat, born <= born'
    PROVE  JobsOK'
  <1>1. PICK j : GoodJob(j, born') /\ job' = [job EXCEPT ![w] = j]
    BY DEF JobStep
  <1>2. job' \in [Writers -> Jobs]
    BY <1>1 DEF TypeInv, JobsOK, GoodJob
  <1>3. ASSUME NEW v \in Writers PROVE GoodJob(job'[v], born')
    <2>1. CASE v = w
      BY <1>1, <2>1 DEF TypeInv, JobsOK
    <2>2. CASE v # w
      <3>1. job'[v] = job[v] /\ GoodJob(job[v], born) /\ job[v] \in Jobs
        BY <1>1, <2>2 DEF TypeInv, JobsOK
      <3>2. job[v].copy.id \in Nat /\ job[v].cur.id \in Nat /\ born \in Nat
        BY <3>1, JobFields, RowFields DEF TypeInv, PagesOK
      <3> QED  BY <3>1, <3>2 DEF GoodJob
    <2> QED  BY <2>1, <2>2
  <1> QED  BY <1>2, <1>3 DEF JobsOK

LEMMA Coming ==
    ASSUME TypeInv, NEW w \in Writers, Reduce(w) \/ Request(w) \/ Clean(w)
    PROVE  JobStep(w)
  <1>1. PICK k \in Kinds, p \in Pages, d \in Docs \cup {NoDoc}, pc \in {"wait", "read", "drop"} :
           /\ Comes(w, k, p, d, pc)
           /\ k \in Reduces \cup {"clean"} => d \in Docs
           /\ pc = "drop" => k \notin Reduces
           /\ pc = "wait" => k \in Reduces
    <2>1. CASE Reduce(w)
      BY <2>1 DEF Reduce, Reduces, Kinds
    <2>2. CASE Request(w)
      BY <2>2 DEF Request, Reduces, Kinds, Edits
    <2>3. CASE Clean(w)
      <3>1. PICK p \in Pages : \E d \in row[p].refs : Comes(w, "clean", p, d, "read")
        BY <2>3 DEF Clean
      <3>2. row[p].refs \subseteq Docs
        BY RowOf, RowFields
      <3> QED  BY <3>1, <3>2 DEF Reduces, Kinds
    <2> QED  BY <2>1, <2>2, <2>3
  <1> DEFINE j == [NoJob EXCEPT !.kind = k, !.page = p, !.doc = d, !.n = jobs + 1, !.pc = pc]
  <1>2. jobs + 1 \in 0..MaxJobs /\ job' = [job EXCEPT ![w] = j] /\ born' = born /\ born \in Nat
    BY <1>1 DEF Comes, TypeInv, RestOK, PagesOK, pages
  <1>3. j \in Jobs /\ j.pc = pc /\ j.kind = k /\ j.page = p /\ j.doc = d
        /\ j.copy = NoRow /\ j.cur = NoRow
    <2>1. j \in Jobs
      BY <1>2, NoJobType DEF Jobs, Pcs, Section
    <2> QED  BY <2>1, NoJobType DEF Jobs, NoJob
  <1>4. GoodJob(j, born)
    BY <1>1, <1>2, <1>3, NoRowType DEF GoodJob, Section
  <1> QED  BY <1>2, <1>4 DEF JobStep

\* What a step needs of the place it starts at.
LEMMA Moves ==
    ASSUME TypeInv, NEW w \in Writers, NEW pc \in {"read", "erase"},
           Goes(w, pc), born' = born, job[w].pc # "idle",
           pc = "read" => job[w].pc = "wait",
           pc = "erase" => job[w].kind \notin Reduces
    PROVE  JobStep(w)
  <1> DEFINE j == [job[w] EXCEPT !.pc = pc]
  <1>1. job[w] \in Jobs /\ GoodJob(job[w], born)
    BY JobOf
  <1>2. j \in Jobs /\ j.pc = pc /\ j.kind = job[w].kind /\ j.page = job[w].page
        /\ j.doc = job[w].doc /\ j.copy = job[w].copy /\ j.cur = job[w].cur
    BY <1>1 DEF Jobs, Pcs, Section
  <1>3. GoodJob(j, born)
    BY <1>1, <1>2 DEF GoodJob, Section
  <1>4. job' = [job EXCEPT ![w] = j]
    BY DEF Goes
  <1> QED  BY <1>3, <1>4 DEF JobStep

LEMMA Stops ==
    ASSUME TypeInv, NEW w \in Writers, job' = [job EXCEPT ![w] = NoJob], born' = born
    PROVE  JobStep(w)
  BY NoJobType DEF JobStep, TypeInv, PagesOK

LEMMA LeavesStep ==
    ASSUME TypeInv, NEW w \in Writers, job[w].pc \in Section \cup {"meta", "drop", "erase"},
           Leaves(w), born' = born
    PROVE  JobStep(w)
  BY LeftGood DEF JobStep, Leaves

LEMMA Locking ==
    ASSUME TypeInv, NEW w \in Writers, Enter(w) \/ EnterUnlocked(w) \/ GiveUp(w) \/ Unlock(w) \/ Crash(w)
    PROVE  JobStep(w)
  <1>1. job[w] \in Jobs /\ GoodJob(job[w], born) /\ born \in Nat
    BY JobOf DEF TypeInv, PagesOK
  <1>2. CASE Enter(w)
    <2> DEFINE j == [job[w] EXCEPT !.pc = "read", !.locked = TRUE]
    <2>1. job' = [job EXCEPT ![w] = j] /\ born' = born /\ job[w].pc = "wait"
      BY <1>2, <1>1 DEF Enter, At, pages
    <2>2. j \in Jobs /\ j.pc = "read" /\ j.kind = job[w].kind /\ j.page = job[w].page
          /\ j.doc = job[w].doc /\ j.copy = job[w].copy /\ j.cur = job[w].cur
      BY <1>1 DEF Jobs, Pcs, Section
    <2>3. GoodJob(j, born)
      BY <1>1, <2>1, <2>2 DEF GoodJob, Section
    <2> QED  BY <2>1, <2>3 DEF JobStep
  <1>3. CASE EnterUnlocked(w)
    BY <1>3, Moves DEF EnterUnlocked, At, pages
  <1>4. CASE GiveUp(w) \/ Crash(w)
    BY <1>4, Stops DEF GiveUp, Crash, Rests, pages
  <1>5. CASE Unlock(w)
    <2> DEFINE j == [NoJob EXCEPT !.pc = "publish", !.kind = job[w].kind, !.page = job[w].page]
    <2>1. born' = born /\ job[w].page \in Pages
          /\ (job' = [job EXCEPT ![w] = j] \/ job' = [job EXCEPT ![w] = NoJob])
      BY <1>5, <1>1 DEF Unlock, At, Rests, pages, GoodJob
    <2>2. j \in Jobs /\ j.pc = "publish" /\ j.page = job[w].page /\ j.copy = NoRow /\ j.cur = NoRow
      <3>1. j \in Jobs
        BY <2>1, <1>1, NoJobType DEF Jobs, Pcs, Section
      <3> QED  BY <3>1, NoJobType DEF Jobs, NoJob
    <2>3. GoodJob(j, born)
      BY <1>1, <2>1, <2>2, NoRowType DEF GoodJob, Section
    <2> QED  BY <2>1, <2>3, Stops DEF JobStep
  <1> QED  BY <1>2, <1>3, <1>4, <1>5

LEMMA Reading ==
    ASSUME TypeInv, NEW w \in Writers, Read(w)
    PROVE  JobStep(w)
  <1> DEFINE p == job[w].page
             d == job[w].doc
             m == [job[w] EXCEPT !.pc = IF row[p].refs = {d} THEN "drop" ELSE "meta",
                                 !.copy = IF row[p].refs = {d} THEN NoRow ELSE row[p]]
             t == [job[w] EXCEPT !.pc = "think", !.copy = row[p], !.wrote = TRUE]
  <1>1. job[w] \in Jobs /\ GoodJob(job[w], born) /\ born \in Nat
        /\ job[w].pc = "read" /\ p \in Pages /\ born' = born
    BY JobOf DEF TypeInv, PagesOK, Read, At, GoodJob, Rests, pages
  <1>2. row[p] \in Rows /\ row[p].id <= born
    BY <1>1, RowOf
  <1>3. CASE job' = [job EXCEPT ![w] = Left(w)]
    BY <1>1, <1>3, LeftGood DEF JobStep, Section
  <1>4. CASE job[w].kind = "clean" /\ job' = [job EXCEPT ![w] = m]
    <2>1. m \in Jobs /\ m.pc \in {"drop", "meta"} /\ m.kind = "clean" /\ m.page = p /\ m.doc = d
          /\ m.copy \in {NoRow, row[p]} /\ m.cur = job[w].cur
      BY <1>1, <1>2, <1>4, NoRowType DEF Jobs, Pcs, Section
    <2>2. GoodJob(m, born)
      BY <1>1, <1>2, <1>4, <2>1, NoRowType DEF GoodJob, Section, Reduces
    <2> QED  BY <1>1, <1>4, <2>2 DEF JobStep
  <1>5. CASE job' = [job EXCEPT ![w] = t]
    <2>1. t \in Jobs /\ t.pc = "think" /\ t.kind = job[w].kind /\ t.page = p /\ t.doc = d
          /\ t.copy = row[p] /\ t.cur = job[w].cur
      BY <1>1, <1>2 DEF Jobs, Pcs, Section
    <2>2. GoodJob(t, born)
      BY <1>1, <1>2, <2>1 DEF GoodJob, Section
    <2> QED  BY <1>1, <1>5, <2>2 DEF JobStep
  <1> QED  BY <1>3, <1>4, <1>5 DEF Read

\* What is written is a text, and what a decorator writes is the text it read.
LEMMA WrittenType ==
    ASSUME TypeInv, NEW w \in Writers, job[w].pc = "think", NEW t \in Written(w)
    PROVE  t.text \in Texts /\ t.draft \in BOOLEAN
           /\ (job[w].kind = "gloss" => t.text = job[w].copy.text)
  <1> DEFINE j == job[w]
             docs == CASE j.kind = "add" -> j.copy.text.docs \cup {j.doc}
                       [] j.kind = "retract" -> j.copy.text.docs \ {j.doc}
                       [] OTHER -> j.copy.text.docs
  <1>1. j \in Jobs /\ GoodJob(j, born)
    BY JobOf
  <1>2. j.copy.text \in Texts /\ j.copy.draft \in BOOLEAN /\ j.n \in 0..MaxJobs /\ j.page \in Pages
    BY <1>1, JobFields, RowFields DEF GoodJob
  <1>3. j.kind = "add" => j.doc \in Docs
    BY <1>1 DEF GoodJob, Section, Reduces
  <1>4. docs \subseteq Docs
    BY <1>2, <1>3 DEF Texts
  <1>5. [docs |-> docs, by |-> j.n] \in Texts
    BY <1>2, <1>4 DEF Texts
  <1>6. CASE j.kind = "revert"
    <2>1. PICK v \in revs[j.page] : t = [text |-> v.text, draft |-> v.draft]
      BY <1>6 DEF Written
    <2>2. v \in Revisions
      BY <1>2, <2>1 DEF TypeInv, PagesOK
    <2> QED  BY <1>6, <2>1, <2>2 DEF Revisions
  <1>7. CASE j.kind # "revert"
    <2> HIDE DEF docs
    <2>1. PICK x \in (CASE j.kind = "gloss" -> {j.copy.text}
                      [] OTHER -> {[docs |-> docs, by |-> j.n]}
                               \cup {u \in {j.copy.text} : j.copy.id # 0 /\ u.docs = docs}) :
             t = [text |-> x, draft |-> j.copy.draft]
      BY <1>7 DEF Written, docs
    <2>2. x \in Texts /\ (j.kind = "gloss" => x = j.copy.text)
      BY <1>2, <1>5, <2>1
    <2> QED  BY <1>2, <2>1, <2>2
  <1> QED  BY <1>6, <1>7

LEMMA Updating ==
    ASSUME TypeInv, NEW w \in Writers, Update(w)
    PROVE  JobStep(w)
  <1> DEFINE p == job[w].page
  <1>1. job[w] \in Jobs /\ GoodJob(job[w], born) /\ born \in Nat
        /\ job[w].pc = "think" /\ p \in Pages /\ born' = born /\ job[w].copy.id # 0
    BY JobOf DEF TypeInv, PagesOK, Update, At, GoodJob, Rests, pages
  <1>2. row[p] \in Rows /\ row[p].id <= born
    BY <1>1, RowOf
  <1>3. CASE Exists(p)
    <2>1. PICK t \in Written(w) :
             job' = [job EXCEPT ![w].pc = "save", ![w].cur = row[p], ![w].text = t.text,
                                ![w].copy.draft = t.draft]
      BY <1>3 DEF Update
    <2>2. t.text \in Texts /\ t.draft \in BOOLEAN /\ (job[w].kind = "gloss" => t.text = job[w].copy.text)
      BY <1>1, WrittenType
    <2> DEFINE c == [job[w].copy EXCEPT !.draft = t.draft]
               j == [job[w] EXCEPT !.pc = "save", !.cur = row[p], !.text = t.text, !.copy = c]
    <2>3. c \in Rows /\ c.id = job[w].copy.id /\ c.text = job[w].copy.text
      <3>1. job[w].copy \in Rows
        BY <1>1, JobFields
      <3> QED  BY <2>2, <3>1 DEF Rows
    <2>4. j \in Jobs /\ j.pc = "save" /\ j.kind = job[w].kind /\ j.page = p /\ j.doc = job[w].doc
          /\ j.copy = c /\ j.cur = row[p] /\ j.text = t.text
      <3> HIDE DEF c
      <3> QED  BY <1>1, <1>2, <2>2, <2>3 DEF Jobs, Pcs, Section
    <2>5. GoodJob(j, born)
      <3> HIDE DEF c, j
      <3> QED  BY <1>1, <1>2, <1>3, <2>2, <2>3, <2>4 DEF GoodJob, Section, Exists
    <2>6. job' = [job EXCEPT ![w] = j]
      BY <1>1, <2>1
    <2> QED  BY <1>1, <2>5, <2>6 DEF JobStep
  <1>4. CASE ~Exists(p)
    BY <1>1, <1>4, LeavesStep DEF Update, Section
  <1> QED  BY <1>3, <1>4

LEMMA Deciding ==
    ASSUME TypeInv, NEW w \in Writers, GenerationFails(w) \/ NotFound(w)
    PROVE  JobStep(w)
  <1>1. job[w].pc = "think" /\ born' = born /\ born \in Nat
    BY DEF GenerationFails, NotFound, At, Rests, pages, TypeInv, PagesOK
  <1>2. CASE NotFound(w)
    BY <1>1, <1>2, LeavesStep DEF NotFound, Section
  <1>3. CASE GenerationFails(w)
    <2> DEFINE j == [Left(w) EXCEPT !.wrote = FALSE]
    <2>1. GoodJob(Left(w), born)
      BY <1>1, LeftGood DEF Section
    <2>2. Left(w) \in Jobs
      BY <2>1 DEF GoodJob
    <2>3. j \in Jobs /\ j.pc = Left(w).pc /\ j.kind = Left(w).kind /\ j.page = Left(w).page
          /\ j.doc = Left(w).doc /\ j.copy = Left(w).copy /\ j.cur = Left(w).cur
          /\ j.text = Left(w).text /\ j.target = Left(w).target
      BY <2>2 DEF Jobs
    <2>4. GoodJob(j, born)
      BY <2>1, <2>3 DEF GoodJob
    <2> QED  BY <1>1, <1>3, <2>4 DEF JobStep, GenerationFails
  <1> QED  BY <1>2, <1>3

\* A job that goes on to the links of its page.
LEMMA LinksGood ==
    ASSUME TypeInv, NEW w \in Writers, NEW j \in Jobs, NEW b \in Nat,
           job[w].pc \in Section \cup {"drop"}, j.pc = "links",
           j.kind = job[w].kind, j.page = job[w].page, j.doc = job[w].doc,
           j.copy.id <= b, j.cur.id <= b
    PROVE  GoodJob(j, b)
  <1>1. job[w] \in Jobs /\ GoodJob(job[w], born)
    BY JobOf
  <1> QED  BY <1>1 DEF GoodJob, Section, Reduces

LEMMA LinkingStep ==
    ASSUME TypeInv, NEW w \in Writers, job[w].pc \in Section, Linking(w), born' = born
    PROVE  JobStep(w)
  <1> DEFINE j == [job[w] EXCEPT !.pc = "links", !.del = Links[job[w].page],
                                 !.add = Links[job[w].page], !.copy = NoRow, !.cur = NoRow,
                                 !.text = NoText]
  <1>1. job[w] \in Jobs /\ GoodJob(job[w], born) /\ born \in Nat
    BY JobOf DEF TypeInv, PagesOK
  <1>2. job[w].page \in Pages /\ Links[job[w].page] \subseteq Pages
    BY <1>1 DEF GoodJob, Section, WikiPagesAssumption
  <1>3. j \in Jobs /\ j.pc = "links" /\ j.kind = job[w].kind /\ j.page = job[w].page
        /\ j.doc = job[w].doc /\ j.copy = NoRow /\ j.cur = NoRow
    BY <1>1, <1>2, NoRowType DEF Jobs, Pcs, Section
  <1>4. GoodJob(j, born)
    <2> HIDE DEF j
    <2>1. j.copy.id = 0 /\ j.cur.id = 0
      BY <1>3, NoRowType
    <2> QED  BY <1>1, <1>3, <2>1, LinksGood DEF Section
  <1>5. job' = [job EXCEPT ![w] = j]
    BY DEF Linking
  <1> QED  BY <1>4, <1>5 DEF JobStep

LEMMA Creating ==
    ASSUME TypeInv, NEW w \in Writers, Create(w)
    PROVE  JobStep(w) /\ born' \in Nat /\ born <= born'
  <1> DEFINE p == job[w].page
             j == [job[w] EXCEPT !.pc = "links", !.add = Links[p], !.text = NoText]
  <1>1. job[w] \in Jobs /\ GoodJob(job[w], born) /\ born \in Nat /\ job[w].pc = "think"
    BY JobOf DEF TypeInv, PagesOK, Create, At
  <1>2. CASE Exists(p)
    BY <1>1, <1>2, LeavesStep DEF Create, Section, Rests, pages
  <1>3. CASE ~Exists(p)
    <2>1. born' = born + 1 /\ job' = [job EXCEPT ![w] = j]
      BY <1>3 DEF Create
    <2>2. p \in Pages /\ Links[p] \subseteq Pages
      BY <1>1 DEF GoodJob, WikiPagesAssumption
    <2>3. j \in Jobs /\ j.pc = "links" /\ j.kind = job[w].kind /\ j.page = p
          /\ j.doc = job[w].doc /\ j.copy = job[w].copy /\ j.cur = job[w].cur
      BY <1>1, <2>2, NoRowType DEF Jobs, Pcs, Section
    <2>4. job[w].copy.id \in Nat /\ job[w].cur.id \in Nat
          /\ job[w].copy.id <= born /\ job[w].cur.id <= born
      BY <1>1, JobFields, RowFields DEF GoodJob
    <2>5. GoodJob(j, born + 1)
      <3> HIDE DEF j
      <3> QED  BY <1>1, <2>3, <2>4, LinksGood DEF Section
    <2>6. GoodJob(j, born')
      BY <2>1, <2>5
    <2>7. JobStep(w)
      <3> HIDE DEF j
      <3> QED  BY <2>1, <2>6 DEF JobStep
    <2> QED  BY <1>1, <2>1, <2>7
  <1> QED  BY <1>1, <1>2, <1>3 DEF Create, Rests, pages

LEMMA Saving ==
    ASSUME TypeInv, NEW w \in Writers, SaveVersion(w) \/ SaveMeta(w) \/ SaveGloss(w) \/ Prune(w)
    PROVE  JobStep(w) /\ born' = born
  <1>1. job[w] \in Jobs /\ GoodJob(job[w], born) /\ born \in Nat /\ born' = born
        /\ job[w].pc \in {"save", "prune"}
    BY JobOf DEF TypeInv, PagesOK, SaveVersion, SaveMeta, SaveGloss, Prune, Saves, At, Rests, pages
  <1>2. CASE Leaves(w)
    BY <1>1, <1>2, LeavesStep DEF Section
  <1>3. CASE Linking(w)
    BY <1>1, <1>3, LinkingStep DEF Section
  <1>4. CASE SaveVersion(w) /\ ~Leaves(w)
    <2> DEFINE j == [job[w] EXCEPT !.pc = "prune", !.copy = NoRow, !.text = NoText]
    <2>1. job' = [job EXCEPT ![w] = j] /\ job[w].pc = "save"
      BY <1>1, <1>4 DEF SaveVersion, Saves, At
    <2>2. j \in Jobs /\ j.pc = "prune" /\ j.kind = job[w].kind /\ j.page = job[w].page
          /\ j.doc = job[w].doc /\ j.copy = NoRow /\ j.cur = job[w].cur
      BY <1>1, NoRowType DEF Jobs, Pcs, Section
    <2>3. GoodJob(j, born)
      <3> HIDE DEF j
      <3> QED  BY <1>1, <2>1, <2>2, NoRowType DEF GoodJob, Section, Reduces
    <2> QED  BY <1>1, <2>1, <2>3 DEF JobStep
  <1> QED  BY <1>1, <1>2, <1>3, <1>4 DEF SaveVersion, SaveMeta, SaveGloss, Prune

LEMMA LinkReading ==
    ASSUME TypeInv, NEW w \in Writers, LinkRead(w)
    PROVE  JobStep(w)
  <1>1. job[w] \in Jobs /\ GoodJob(job[w], born) /\ born \in Nat /\ job[w].pc = "links"
        /\ born' = born
    BY JobOf DEF TypeInv, PagesOK, LinkRead, At, Rests, pages
  <1>2. job[w].del \subseteq Pages /\ job[w].add \subseteq Pages
    BY <1>1, JobFields
  <1>3. PICK t \in Pages :
          \/ job' = [job EXCEPT ![w].pc = "link", ![w].target = t, ![w].seen = row[t]]
          \/ job' = [job EXCEPT ![w].del = @ \ {t}]
          \/ job' = [job EXCEPT ![w].add = @ \ {t}]
    BY <1>2 DEF LinkRead
  <1>4. row[t] \in Rows
    BY RowOf
  <1> DEFINE a1 == [job[w] EXCEPT !.pc = "link", !.target = t, !.seen = row[t]]
             a2 == [job[w] EXCEPT !.del = @ \ {t}]
             a3 == [job[w] EXCEPT !.add = @ \ {t}]
  <1>5. CASE job' = [job EXCEPT ![w].pc = "link", ![w].target = t, ![w].seen = row[t]]
    <2>3. job' = [job EXCEPT ![w] = a1]
      BY <1>5
    <2>1. a1 \in Jobs /\ a1.pc = "link" /\ a1.kind = job[w].kind /\ a1.page = job[w].page
          /\ a1.doc = job[w].doc /\ a1.copy = job[w].copy /\ a1.cur = job[w].cur /\ a1.target = t
      BY <1>1, <1>4 DEF Jobs, Pcs, Section
    <2>2. GoodJob(a1, born)
      <3> HIDE DEF a1
      <3> QED  BY <1>1, <2>1 DEF GoodJob, Section, Reduces
    <2> HIDE DEF a1
    <2> QED  BY <1>1, <2>2, <2>3 DEF JobStep
  <1>6. CASE job' = [job EXCEPT ![w].del = @ \ {t}] \/ job' = [job EXCEPT ![w].add = @ \ {t}]
    <2>1. PICK a \in {a2, a3} : job' = [job EXCEPT ![w] = a]
      BY <1>6
    <2>2. a \in Jobs /\ a.pc = "links" /\ a.kind = job[w].kind /\ a.page = job[w].page
          /\ a.doc = job[w].doc /\ a.copy = job[w].copy /\ a.cur = job[w].cur
      BY <1>1, <1>2 DEF Jobs
    <2>3. GoodJob(a, born)
      <3> HIDE DEF a2, a3
      <3> QED  BY <1>1, <2>2 DEF GoodJob, Section, Reduces
    <2> QED  BY <1>1, <2>1, <2>3 DEF JobStep
  <1> QED  BY <1>3, <1>5, <1>6

LEMMA LinkWriting ==
    ASSUME TypeInv, NEW w \in Writers, LinkWrite(w)
    PROVE  JobStep(w)
  <1> DEFINE t == job[w].target
             del == t \in job[w].del
             j == [job[w] EXCEPT !.pc = "links", !.target = NoOne, !.seen = NoRow,
                                 !.del = @ \ {t}, !.add = IF del THEN @ ELSE @ \ {t}]
  <1>1. job[w] \in Jobs /\ GoodJob(job[w], born) /\ born \in Nat /\ job[w].pc = "link"
        /\ born' = born /\ job' = [job EXCEPT ![w] = j]
    BY JobOf DEF TypeInv, PagesOK, LinkWrite, At
  <1>2. j \in Jobs /\ j.pc = "links" /\ j.kind = job[w].kind /\ j.page = job[w].page
        /\ j.doc = job[w].doc /\ j.copy = job[w].copy /\ j.cur = job[w].cur
    BY <1>1, NoRowType DEF Jobs, Pcs, Section
  <1>3. GoodJob(j, born)
    <2> HIDE DEF j
    <2> QED  BY <1>1, <1>2 DEF GoodJob, Section, Reduces
  <1> QED  BY <1>1, <1>3 DEF JobStep

LEMMA Ending ==
    ASSUME TypeInv, NEW w \in Writers,
           Linked(w) \/ Drop(w) \/ Erase(w) \/ Publish(w) \/ Flip(w) \/ TakeOut(w)
    PROVE  JobStep(w) /\ born' = born
  <1>1. job[w] \in Jobs /\ GoodJob(job[w], born) /\ born \in Nat /\ born' = born
    BY JobOf DEF TypeInv, PagesOK, Linked, Drop, Erase, Publish, Flip, TakeOut, Rests, pages
  <1>2. CASE Linked(w)
    <2>1. CASE job[w].kind \in {"clean", "delete"}
      BY <1>1, <1>2, <2>1, Moves DEF Linked, At, Reduces
    <2>2. CASE Leaves(w)
      BY <1>1, <1>2, <2>2, LeavesStep DEF Linked, At, Section
    <2> QED  BY <1>1, <1>2, <2>1, <2>2 DEF Linked
  <1>3. CASE Drop(w)
    <2> DEFINE j == [job[w] EXCEPT !.pc = "links", !.del = Links[job[w].page]]
    <2>1. CASE Exists(job[w].page)
      <3>1. job' = [job EXCEPT ![w] = j] /\ job[w].pc = "drop"
        BY <1>3, <2>1 DEF Drop, At
      <3>2. Links[job[w].page] \subseteq Pages
        BY <1>1, <3>1 DEF GoodJob, WikiPagesAssumption
      <3>3. j \in Jobs /\ j.pc = "links" /\ j.kind = job[w].kind /\ j.page = job[w].page
            /\ j.doc = job[w].doc /\ j.copy = job[w].copy /\ j.cur = job[w].cur
        BY <1>1, <3>2 DEF Jobs, Pcs, Section
      <3>4. GoodJob(j, born)
        <4> HIDE DEF j
        <4> QED  BY <1>1, <3>1, <3>3, LinksGood DEF GoodJob
      <3> QED
        <4> HIDE DEF j
        <4> QED  BY <1>1, <3>1, <3>4 DEF JobStep
    <2>2. CASE ~Exists(job[w].page)
      BY <1>1, <1>3, <2>2, LeavesStep DEF Drop, At
    <2> QED  BY <2>1, <2>2
  <1>4. CASE Erase(w) \/ TakeOut(w)
    BY <1>1, <1>4, LeavesStep DEF Erase, TakeOut, At
  <1>5. CASE Publish(w)
    <2> DEFINE p == job[w].page
               j == [job[w] EXCEPT !.pc = "flip", !.seen = row[p]]
    <2>1. job[w].pc = "publish" /\ p \in Pages
      BY <1>1, <1>5 DEF Publish, At, GoodJob
    <2>2. row[p] \in Rows
      BY <2>1, RowOf
    <2>3. j \in Jobs /\ j.pc = "flip" /\ j.kind = job[w].kind /\ j.page = p
          /\ j.doc = job[w].doc /\ j.copy = job[w].copy /\ j.cur = job[w].cur
      BY <1>1, <2>2 DEF Jobs, Pcs
    <2>4. GoodJob(j, born)
      <3> HIDE DEF j
      <3> QED  BY <1>1, <2>1, <2>3 DEF GoodJob, Section
    <2>5. job' = [job EXCEPT ![w] = j] \/ job' = [job EXCEPT ![w] = NoJob]
      BY <1>5 DEF Publish
    <2> QED
      <3> HIDE DEF j
      <3> QED  BY <1>1, <2>4, <2>5, Stops DEF JobStep
  <1>6. CASE Flip(w)
    BY <1>1, <1>6, Stops DEF Flip
  <1> QED  BY <1>2, <1>3, <1>4, <1>5, <1>6

-----------------------------------------------------------------------------
(* What the steps do to the pages.                                         *)

\* The version of a page and its history are left alone.
SameVersion(p) ==
    /\ row'[p].id = row[p].id /\ row'[p].version = row[p].version
    /\ row'[p].text = row[p].text /\ row'[p].src = row[p].src

LEMMA MetaGood ==
    ASSUME TypeInv, NEW p \in Pages, NEW read \in Rows, NEW new \in Rows, MetaWrite(p, read, new)
    PROVE  row' \in [Pages -> Rows] /\ \A q \in Pages : SameVersion(q)
  <1>1. row \in [Pages -> Rows] /\ row[p] \in Rows
    BY DEF TypeInv, PagesOK
  <1> DEFINE r == [row[p] EXCEPT !.refs = new.refs, !.draft = new.draft, !.inl = new.inl]
  <1>2. r \in Rows /\ r.id = row[p].id /\ r.version = row[p].version /\ r.text = row[p].text
        /\ r.src = row[p].src
    BY <1>1 DEF Rows
  <1>3. row' = row \/ row' = [row EXCEPT ![p] = r]
    BY DEF MetaWrite
  <1> QED
    <2> HIDE DEF r
    <2> QED  BY <1>1, <1>2, <1>3 DEF SameVersion

LEMMA BlameGood ==
    ASSUME TypeInv, NEW p \in Pages, NEW what \in {"lock", "edit", "gloss", "meta", "erase"}, NEW is \in BOOLEAN,
           Blames(p, what, is)
    PROVE  blame' \in [Pages -> SUBSET {"lock", "edit", "gloss", "meta", "erase"}]
  BY DEF TypeInv, RestOK, Blames

\* The sources that a writer leaves.
LEMMA RefsType ==
    ASSUME TypeInv, NEW w \in Writers, job[w].pc \in {"think", "save", "meta"}
    PROVE  Refs(w) \subseteq Docs
  <1>1. job[w] \in Jobs /\ GoodJob(job[w], born)
    BY JobOf
  <1>2. job[w].copy.refs \subseteq Docs
    BY <1>1, JobFields, RowFields
  <1>3. job[w].kind = "add" => job[w].doc \in Docs
    BY <1>1 DEF GoodJob, Section, Reduces
  <1> QED  BY <1>2, <1>3 DEF Refs

LEMMA MergedType ==
    ASSUME TypeInv, NEW w \in Writers, job[w].pc \in {"think", "save"}, NEW text \in Texts
    PROVE  Merged(w, text) \subseteq Docs
  <1>1. job[w] \in Jobs /\ GoodJob(job[w], born)
    BY JobOf
  <1>2. job[w].page \in Pages /\ (job[w].kind = "add" => job[w].doc \in Docs)
    BY <1>1 DEF GoodJob, Section, Reduces
  <1>3. merged[job[w].page] \subseteq Docs
    BY <1>2 DEF TypeInv, PagesOK
  <1> QED  BY <1>2, <1>3 DEF Merged

LEMMA VersionType ==
    ASSUME NEW r \in Rows
    PROVE  Version(r) \in Versions
  BY DEF Rows, Version, Versions

\* A write of bookkeeping.
LEMMA MetaPages ==
    ASSUME TypeInv, NEW w \in Writers, TakeOut(w) \/ LinkWrite(w) \/ Flip(w)
    PROVE  /\ PagesOK' /\ blame' \in [Pages -> SUBSET {"lock", "edit", "gloss", "meta", "erase"}]
           /\ \A q \in Pages : SameVersion(q)
           /\ UNCHANGED <<revs, saved, glossed>>
  <1>1. job[w] \in Jobs /\ GoodJob(job[w], born)
    BY JobOf
  <1>2. PICK p \in Pages, read \in Rows, new \in Rows : MetaWrite(p, read, new)
    <2>1. CASE TakeOut(w)
      <3> DEFINE r == job[w].copy
                 n == [r EXCEPT !.refs = Refs(w)]
      <3>1. job[w].pc = "meta" /\ job[w].page \in Pages /\ r \in Rows
        BY <1>1, <2>1, JobFields DEF TakeOut, At, GoodJob
      <3>2. n \in Rows
        BY <3>1, RefsType DEF Rows
      <3> QED  BY <2>1, <3>1, <3>2 DEF TakeOut
    <2>2. CASE LinkWrite(w)
      <3> DEFINE t == job[w].target
                 r == job[w].seen
                 inl == IF t \in job[w].del THEN r.inl \ {job[w].page} ELSE r.inl \cup {job[w].page}
                 n == [r EXCEPT !.inl = inl]
      <3>1. job[w].pc = "link" /\ job[w].page \in Pages /\ r \in Rows /\ t \in Pages
        BY <1>1, <2>2, JobFields DEF LinkWrite, At, GoodJob
      <3>2. inl \subseteq Pages
        BY <3>1, RowFields
      <3>3. n \in Rows
        BY <3>1, <3>2 DEF Rows
      <3>4. MetaWrite(t, r, n)
        BY <2>2 DEF LinkWrite
      <3> QED
        <4> HIDE DEF n
        <4> QED  BY <3>1, <3>3, <3>4
    <2>3. CASE Flip(w)
      <3> DEFINE r == job[w].seen
                 n == [r EXCEPT !.draft = FALSE]
      <3>1. job[w].pc = "flip" /\ job[w].page \in Pages /\ r \in Rows
        BY <1>1, <2>3, JobFields DEF Flip, At, GoodJob
      <3>2. n \in Rows
        BY <3>1 DEF Rows
      <3> QED  BY <2>3, <3>1, <3>2 DEF Flip
    <2> QED  BY <2>1, <2>2, <2>3
  <1>3. row' \in [Pages -> Rows] /\ \A q \in Pages : SameVersion(q)
    BY <1>2, MetaGood
  <1>4. UNCHANGED <<revs, born, saved, glossed, merged>>
    BY DEF TakeOut, LinkWrite, Flip
  <1>5. blame' \in [Pages -> SUBSET {"lock", "edit", "gloss", "meta", "erase"}]
    BY <1>2 DEF MetaWrite, Blames, TypeInv, RestOK
  <1> QED  BY <1>3, <1>4, <1>5 DEF TypeInv, PagesOK, SameVersion

LEMMA CreatePages ==
    ASSUME TypeInv, NEW w \in Writers, Create(w)
    PROVE  PagesOK' /\ UNCHANGED blame
  <1> DEFINE p == job[w].page
  <1>1. job[w] \in Jobs /\ GoodJob(job[w], born) /\ job[w].pc = "think" /\ p \in Pages
    BY JobOf DEF Create, At, GoodJob
  <1>2. CASE Exists(p)
    BY <1>2 DEF Create, Rests, pages, TypeInv, PagesOK
  <1>3. CASE ~Exists(p)
    <2>1. PICK t \in Written(w) :
            LET r == [NoRow EXCEPT !.id = born + 1, !.version = 1, !.text = t.text,
                                   !.refs = Refs(w), !.draft = job[w].kind = "add", !.src = Source(w)] IN
            /\ row' = [row EXCEPT ![p] = r] /\ Stored(p, r)
            /\ merged' = [merged EXCEPT ![p] = Merged(w, t.text)]
      BY <1>3 DEF Create
    <2>2. t.text \in Texts
      BY <1>1, WrittenType
    <2> DEFINE r == [NoRow EXCEPT !.id = born + 1, !.version = 1, !.text = t.text,
                                  !.refs = Refs(w), !.draft = job[w].kind = "add", !.src = Source(w)]
    <2>3. r \in Rows /\ r.id = born + 1
      <3>1. NoRow \in Rows /\ born + 1 \in Nat /\ Refs(w) \subseteq Docs /\ Source(w) \in Sources
            /\ (job[w].kind = "add") \in BOOLEAN
        BY <1>1, NoRowType, RefsType DEF TypeInv, PagesOK, Source, Sources
      <3>2. r \in Rows
        BY <2>2, <3>1 DEF Rows
      <3> QED  BY <3>1, <3>2 DEF Rows
    <2>4. row' = [row EXCEPT ![p] = r] /\ saved' = [saved EXCEPT ![p] = @ \cup {Version(r)}]
          /\ merged' = [merged EXCEPT ![p] = Merged(w, t.text)]
          /\ born' = born + 1 /\ UNCHANGED <<revs, glossed, blame>>
      BY <1>3, <2>1 DEF Create, Stored
    <2>5. Version(r) \in Versions /\ Merged(w, t.text) \subseteq Docs
      <3> HIDE DEF r
      <3> QED  BY <1>1, <2>2, <2>3, VersionType, MergedType
    <2>6. \A q \in Pages : row'[q].id <= born'
      <3> HIDE DEF r
      <3>1. \A q \in Pages : row[q].id <= born /\ row[q].id \in Nat
        BY RowOf
      <3> QED  BY <1>1, <2>3, <2>4, <3>1 DEF TypeInv, PagesOK
    <2> QED
      <3> HIDE DEF r
      <3> QED  BY <1>1, <2>3, <2>4, <2>5, <2>6 DEF TypeInv, PagesOK
  <1> QED  BY <1>2, <1>3

\* The writes of UpdatePage and the decorators, one field at a time.
LEMMA SavePages ==
    ASSUME TypeInv, NEW w \in Writers, SaveVersion(w) \/ SaveMeta(w) \/ SaveGloss(w)
    PROVE  PagesOK' /\ blame' \in [Pages -> SUBSET {"lock", "edit", "gloss", "meta", "erase"}]
  <1> DEFINE p == job[w].page
             j == job[w]
  <1>1. j \in Jobs /\ GoodJob(j, born) /\ j.pc = "save" /\ p \in Pages
    BY JobOf DEF SaveVersion, SaveMeta, SaveGloss, Saves, At, GoodJob
  <1>2. row[p] \in Rows /\ Refs(w) \subseteq Docs /\ j.copy \in Rows /\ j.cur \in Rows
        /\ j.text \in Texts /\ Source(w) \in Sources
    BY <1>1, RowOf, RefsType, JobFields DEF Source, Sources
  <1>3. j.copy.draft \in BOOLEAN /\ j.cur.inl \subseteq Pages /\ j.cur.version \in Nat
        /\ row[p].version \in Nat
    BY <1>2, RowFields
  <1>4. CASE Rests
    BY <1>4 DEF Rests, pages, TypeInv, PagesOK, RestOK
  <1>5. CASE SaveVersion(w) /\ ~Rests
    <2> DEFINE r == [row[p] EXCEPT !.version = j.cur.version + 1, !.text = j.text, !.refs = Refs(w),
                                   !.draft = j.copy.draft, !.src = Source(w)]
    <2>1. row' = [row EXCEPT ![p] = r] /\ Stored(p, r)
          /\ revs' = [revs EXCEPT ![p] = Snapshot(p, j.cur)]
          /\ merged' = [merged EXCEPT ![p] = Merged(w, j.text)]
          /\ Blames(p, "edit", j.kind \in Edits /\ Outdated(w))
          /\ UNCHANGED <<born, glossed>>
      BY <1>5 DEF SaveVersion
    <2>2. r \in Rows /\ r.id = row[p].id
      <3> DEFINE v == j.cur.version + 1
                 f == Refs(w)
                 u == Source(w)
      <3>1. v \in Nat /\ f \subseteq Docs /\ u \in Sources
        BY <1>2, <1>3
      <3>2. r = [row[p] EXCEPT !.version = v, !.text = j.text, !.refs = f, !.draft = j.copy.draft, !.src = u]
        OBVIOUS
      <3> HIDE DEF v, f, u, r
      <3> QED  BY <1>2, <1>3, <3>1, <3>2 DEF Rows
    <2>3. Version(r) \in Versions /\ Merged(w, j.text) \subseteq Docs
      <3> HIDE DEF r
      <3> QED  BY <1>1, <1>2, <2>2, VersionType, MergedType
    <2>4. Snapshot(p, j.cur) \subseteq Revisions
      <3>1. [version |-> j.cur.version, text |-> j.cur.text, src |-> j.cur.src,
             draft |-> j.cur.draft] \in Revisions
        <4>1. j.cur.version \in Nat /\ j.cur.text \in Texts /\ j.cur.src \in Sources
              /\ j.cur.draft \in BOOLEAN
          BY <1>2, RowFields
        <4> QED  BY <4>1 DEF Revisions
      <3>2. revs[p] \subseteq Revisions
        BY <1>1 DEF TypeInv, PagesOK
      <3> QED  BY <3>1, <3>2 DEF Snapshot
    <2>5. blame' \in [Pages -> SUBSET {"lock", "edit", "gloss", "meta", "erase"}]
      BY <1>1, <2>1 DEF Blames, TypeInv, RestOK
    <2> QED
      <3> HIDE DEF r
      <3> QED  BY <1>1, <2>1, <2>2, <2>3, <2>4, <2>5 DEF TypeInv, PagesOK, Stored
  <1>6. CASE SaveMeta(w) /\ ~Rests
    <2> DEFINE r == [row[p] EXCEPT !.refs = Refs(w), !.draft = j.copy.draft, !.inl = j.cur.inl]
    <2>1. row' = [row EXCEPT ![p] = r]
          /\ merged' = [merged EXCEPT ![p] = IF j.kind = "retract" THEN @ \ {j.doc} ELSE @]
          /\ Blames(p, "edit", j.kind \in Edits /\ Outdated(w))
          /\ UNCHANGED <<revs, born, saved, glossed>>
      BY <1>6 DEF SaveMeta
    <2>2. r \in Rows /\ r.id = row[p].id
      BY <1>2, <1>3 DEF Rows
    <2>3. blame' \in [Pages -> SUBSET {"lock", "edit", "gloss", "meta", "erase"}]
      BY <1>1, <2>1 DEF Blames, TypeInv, RestOK
    <2> QED
      <3> HIDE DEF r
      <3> QED  BY <1>1, <2>1, <2>2, <2>3 DEF TypeInv, PagesOK
  <1>7. CASE SaveGloss(w) /\ ~Rests
    <2> DEFINE r == [row[p] EXCEPT !.text = j.text]
    <2>1. row' = [row EXCEPT ![p] = r] /\ UNCHANGED <<revs, born, saved, merged>>
          /\ glossed' \in {glossed, [glossed EXCEPT ![p] = @ \cup {row[p].version}]}
          /\ \E late \in BOOLEAN : Blames(p, "gloss", late)
      <3>1. Exists(p) /\ row[p].id = j.cur.id
        BY <1>7 DEF SaveGloss
      <3> QED  BY <1>7, <3>1 DEF SaveGloss
    <2>2. r \in Rows /\ r.id = row[p].id
      BY <1>2 DEF Rows
    <2>3. blame' \in [Pages -> SUBSET {"lock", "edit", "gloss", "meta", "erase"}]
      BY <1>1, <2>1 DEF Blames, TypeInv, RestOK
    <2> QED
      <3> HIDE DEF r
      <3>1. glossed' \in [Pages -> SUBSET Nat]
        BY <1>1, <1>3, <2>1 DEF TypeInv, PagesOK
      <3> QED  BY <1>1, <2>1, <2>2, <2>3, <3>1 DEF TypeInv, PagesOK
  <1> QED  BY <1>4, <1>5, <1>6, <1>7

LEMMA DropPages ==
    ASSUME TypeInv, NEW w \in Writers, Prune(w) \/ Erase(w)
    PROVE  PagesOK' /\ blame' \in [Pages -> SUBSET {"lock", "edit", "gloss", "meta", "erase"}]
  <1> DEFINE p == job[w].page
  <1>1. p \in Pages
    BY JobOf DEF Prune, Erase, At, GoodJob
  <1>2. CASE Prune(w)
    <2>1. \A q \in Pages : revs'[q] \subseteq revs[q]
      BY <1>1, <1>2 DEF Prune, TypeInv, PagesOK
    <2>2. DOMAIN revs' = Pages /\ revs' = [q \in DOMAIN revs' |-> revs'[q]]
      BY <1>1, <1>2 DEF Prune, TypeInv, PagesOK
    <2> QED  BY <1>2, <2>1, <2>2 DEF Prune, TypeInv, PagesOK, RestOK
  <1>3. CASE Erase(w)
    <2>1. PagesOK'
      BY <1>1, <1>3, NoRowType DEF Erase, TypeInv, PagesOK
    <2>2. Blames(p, "erase", Hasty(w)) /\ Hasty(w) \in BOOLEAN
      BY <1>3 DEF Erase, Hasty
    <2> QED  BY <1>1, <2>1, <2>2, BlameGood
  <1> QED  BY <1>2, <1>3

-----------------------------------------------------------------------------
(* Types.                                                                  *)

BlameSets == [Pages -> SUBSET {"lock", "edit", "gloss", "meta", "erase"}]

\* Steps that leave the locks and the counters alone.
LEMMA QuietRest ==
    ASSUME TypeInv, Quiet, blame' \in BlameSets
    PROVE  RestOK'
  BY DEF TypeInv, RestOK, Quiet, BlameSets

LEMMA RestsRest ==
    ASSUME TypeInv, Rests
    PROVE  PagesOK' /\ UNCHANGED blame /\ born' = born /\ blame' \in BlameSets
  BY DEF TypeInv, RestOK, PagesOK, Rests, pages, BlameSets

LEMMA LockRest ==
    ASSUME TypeInv, NEW w \in Writers,
           Enter(w) \/ EnterUnlocked(w) \/ GiveUp(w) \/ Unlock(w) \/ Crash(w)
    PROVE  PagesOK' /\ RestOK'
  <1>1. CASE Enter(w) \/ EnterUnlocked(w)
    <2>1. job[w].page \in Pages
      BY <1>1, JobOf DEF Enter, EnterUnlocked, At, GoodJob
    <2>2. blame' \in BlameSets
      BY <1>1, <2>1 DEF Enter, EnterUnlocked, Blames, TypeInv, RestOK, BlameSets
    <2>3. PagesOK'
      BY <1>1 DEF Enter, EnterUnlocked, TypeInv, PagesOK, pages
    <2> QED  BY <1>1, <2>1, <2>2, <2>3 DEF Enter, EnterUnlocked, Trouble, TypeInv, RestOK, BlameSets
  <1>2. CASE GiveUp(w)
    BY <1>2, QuietRest, RestsRest DEF GiveUp
  <1>3. CASE Unlock(w) \/ Crash(w)
    <2>1. PagesOK' /\ blame' \in BlameSets
      BY <1>3, RestsRest DEF Unlock, Crash
    <2>2. lock' \in [Pages -> Writers \cup {NoOne}]
      BY <1>3 DEF Unlock, Crash, TypeInv, RestOK
    <2> QED  BY <1>3, <2>1, <2>2 DEF Unlock, Crash, Trouble, TypeInv, RestOK, BlameSets
  <1> QED  BY <1>1, <1>2, <1>3

LEMMA ComingRest ==
    ASSUME TypeInv, NEW w \in Writers, Reduce(w) \/ Request(w) \/ Clean(w)
    PROVE  PagesOK' /\ RestOK' /\ born' = born
  <1>1. \E k, p, d, pc : Comes(w, k, p, d, pc)
    BY DEF Reduce, Request, Clean
  <1>2. /\ jobs' \in 0..MaxJobs /\ UNCHANGED <<row, revs, born, lock, troubles>>
        /\ UNCHANGED <<saved, glossed, merged, lapses, blame>>
    BY <1>1 DEF Comes, TypeInv, RestOK, pages, ghosts
  <1>3. gone' \subseteq Docs
    <2>1. CASE Clean(w)
      <3>1. PICK p \in Pages : \E d \in row[p].refs : gone' = gone \cup {d}
        BY <2>1 DEF Clean
      <3>2. row[p].refs \subseteq Docs
        BY RowOf, RowFields
      <3> QED  BY <3>1, <3>2 DEF TypeInv, RestOK
    <2>2. CASE Reduce(w) \/ Request(w)
      BY <2>2 DEF Reduce, Request, TypeInv, RestOK
    <2> QED  BY <2>1, <2>2
  <1> QED  BY <1>2, <1>3 DEF TypeInv, RestOK, PagesOK

LEMMA ExpireType ==
    ASSUME TypeInv, NEW p \in Pages, Expire(p)
    PROVE  TypeInv'
  <1>1. PagesOK' /\ blame' \in BlameSets /\ born' = born
    BY RestsRest DEF Expire
  <1>2. JobsOK'
    <2>1. job' = job /\ born' = born
      BY <1>1 DEF Expire
    <2> QED  BY <2>1 DEF TypeInv, JobsOK
  <1>3. RestOK'
    <2>1. /\ lock' = [lock EXCEPT ![p] = NoOne] /\ UNCHANGED <<gone, jobs>>
          /\ \/ troubles < MaxTroubles /\ troubles' = troubles + 1 /\ lapses' = lapses + 1
             \/ UNCHANGED <<troubles, lapses>>
      <3>1. CASE Holds(lock[p], p)
        BY <3>1 DEF Expire, Trouble
      <3>2. CASE ~Holds(lock[p], p)
        BY <3>2 DEF Expire
      <3> QED  BY <3>1, <3>2
    <2> QED  BY <1>1, <2>1 DEF TypeInv, RestOK, BlameSets
  <1> QED  BY <1>1, <1>2, <1>3 DEF TypeInv

LEMMA InitType == Init => TypeInv
  <1> SUFFICES ASSUME Init PROVE TypeInv
    OBVIOUS
  <1>1. JobsOK
    BY NoJobType DEF Init, JobsOK
  <1>2. PagesOK
    BY NoRowType DEF Init, PagesOK
  <1>3. RestOK
    BY DEF Init, RestOK, WikiPagesAssumption
  <1> QED  BY <1>1, <1>2, <1>3 DEF TypeInv

LEMMA TypeStep ==
    ASSUME TypeInv, [Next]_vars
    PROVE  TypeInv'
  <1>1. born \in Nat
    BY DEF TypeInv, PagesOK
  <1>2. ASSUME NEW w \in Writers, Reduce(w) \/ Request(w) \/ Clean(w) PROVE TypeInv'
    <2>1. JobStep(w) /\ PagesOK' /\ RestOK' /\ born' = born
      BY <1>2, Coming, ComingRest
    <2> QED  BY <1>1, <2>1, JobStepOK DEF TypeInv
  <1>3. ASSUME NEW w \in Writers,
               Enter(w) \/ EnterUnlocked(w) \/ GiveUp(w) \/ Unlock(w) \/ Crash(w) PROVE TypeInv'
    <2>1. JobStep(w) /\ PagesOK' /\ RestOK'
      BY <1>3, Locking, LockRest
    <2>2. born' = born
      BY <1>3 DEF Enter, EnterUnlocked, GiveUp, Unlock, Crash, Rests, pages
    <2> QED  BY <1>1, <2>1, <2>2, JobStepOK DEF TypeInv
  <1>4. ASSUME NEW w \in Writers,
               \/ Read(w) \/ GenerationFails(w) \/ Update(w) \/ NotFound(w)
               \/ LinkRead(w) \/ Linked(w) \/ Drop(w) \/ Publish(w)
        PROVE TypeInv'
    <2>1. JobStep(w)
      BY <1>4, Reading, Deciding, Updating, LinkReading, Ending
    <2>2. Quiet /\ Rests
      BY <1>4 DEF Read, GenerationFails, Update, NotFound, LinkRead, Linked, Drop, Publish
    <2>3. PagesOK' /\ RestOK' /\ born' = born
      BY <2>2, QuietRest, RestsRest
    <2> QED  BY <1>1, <2>1, <2>3, JobStepOK DEF TypeInv
  <1>5. ASSUME NEW w \in Writers, TakeOut(w) \/ LinkWrite(w) \/ Flip(w) PROVE TypeInv'
    <2>1. JobStep(w)
      BY <1>5, LinkWriting, Ending
    <2>2. PagesOK' /\ blame' \in BlameSets
      BY <1>5, MetaPages DEF BlameSets
    <2>3. RestOK' /\ born' = born
      BY <1>5, <2>2, QuietRest DEF TakeOut, LinkWrite, Flip
    <2> QED  BY <1>1, <2>1, <2>2, <2>3, JobStepOK DEF TypeInv
  <1>6. ASSUME NEW w \in Writers, Create(w) PROVE TypeInv'
    <2>1. JobStep(w) /\ born' \in Nat /\ born <= born' /\ PagesOK' /\ blame' = blame
      BY <1>6, Creating, CreatePages
    <2>2. RestOK'
      BY <1>6, <2>1, QuietRest DEF Create, TypeInv, RestOK, BlameSets
    <2> QED  BY <2>1, <2>2, JobStepOK DEF TypeInv
  <1>7. ASSUME NEW w \in Writers, SaveVersion(w) \/ SaveMeta(w) \/ SaveGloss(w) PROVE TypeInv'
    <2>1. JobStep(w) /\ born' = born /\ PagesOK' /\ blame' \in BlameSets
      BY <1>7, Saving, SavePages DEF BlameSets
    <2>2. RestOK'
      BY <1>7, <2>1, QuietRest DEF SaveVersion, SaveMeta, SaveGloss
    <2> QED  BY <1>1, <2>1, <2>2, JobStepOK DEF TypeInv
  <1>8. ASSUME NEW w \in Writers, Prune(w) \/ Erase(w) PROVE TypeInv'
    <2>1. JobStep(w) /\ born' = born /\ PagesOK' /\ blame' \in BlameSets
      BY <1>8, Saving, Ending, DropPages DEF BlameSets
    <2>2. RestOK'
      BY <1>8, <2>1, QuietRest DEF Prune, Erase
    <2> QED  BY <1>1, <2>1, <2>2, JobStepOK DEF TypeInv
  <1>9. CASE UNCHANGED vars
    BY <1>9 DEF vars, pages, ghosts, TypeInv, JobsOK, PagesOK, RestOK
  <1> QED  BY <1>2, <1>3, <1>4, <1>5, <1>6, <1>7, <1>8, <1>9, ExpireType DEF Next

\* The parts of the type invariant the other proofs use hold in every state.
THEOREM TypeAlways == Spec => []TypeInv
  <1>1. TypeInv /\ [Next]_vars => TypeInv'
    BY TypeStep
  <1> QED  BY <1>1, InitType, PTL DEF Spec

\* Every variable of the pages, the locks and the writers has its type.
THEOREM TypeCorrect == Spec => []TypeOK
  BY TypeAlways, TypeInvType, PTL

-----------------------------------------------------------------------------
(* How many reduces the slug lock lets in.                                 *)

(***************************************************************************)
(* While the lock of a page names a reduce that is at work on it, the      *)
(* others at work were let in by a lapse each; otherwise one more may come *)
(* in without a lapse.  A reduce that deletes the lock of another makes    *)
(* room for the next, but it leaves itself.                                *)
(***************************************************************************)
Room(p) == Cardinality(Inside(p)) + (IF Holds(lock[p], p) THEN 0 ELSE 1) <= 1 + lapses

LEMMA InsideFinite ==
    \A p \in Pages : IsFiniteSet(Inside(p)) /\ Cardinality(Inside(p)) \in Nat
                     /\ Inside(p) \subseteq Writers
  <1> SUFFICES ASSUME NEW p \in Pages
               PROVE  IsFiniteSet(Inside(p)) /\ Cardinality(Inside(p)) \in Nat
                      /\ Inside(p) \subseteq Writers
    OBVIOUS
  <1>1. Inside(p) \subseteq Writers
    BY DEF Inside
  <1>2. IsFiniteSet(Inside(p))
    BY <1>1, FS_Subset DEF WikiPagesAssumption
  <1> QED  BY <1>1, <1>2, FS_CardinalityType

\* Who is at work after a step of a single writer.
LEMMA InsideOf ==
    ASSUME TypeInv, NEW w \in Writers, NEW j, job' = [job EXCEPT ![w] = j], NEW p \in Pages
    PROVE  /\ Inside(p)' = (Inside(p) \ {w}) \cup
                 (IF j.kind \in Reduces /\ j.page = p /\ j.pc \in Section THEN {w} ELSE {})
           /\ \A v \in Writers \ {w} : job'[v] = job[v]
           /\ job'[w] = j
  BY DEF TypeInv, JobsOK, Inside

\* Nobody comes in, and whoever stays keeps what it knows of its lock.
LEMMA RoomKept ==
    ASSUME TypeInv, NEW p \in Pages, Room(p), lock'[p] = lock[p], lapses' = lapses, Inside(p)' \subseteq Inside(p),
           \/ Inside(p)' = Inside(p)
           \/ \E w \in Inside(p) : Inside(p)' = Inside(p) \ {w},
           \A v \in Inside(p)' : job'[v].locked = job[v].locked
    PROVE  Room(p)'
  <1> DEFINE n == Cardinality(Inside(p))
             m == Cardinality(Inside(p)')
  <1>1. IsFiniteSet(Inside(p)) /\ n \in Nat /\ lapses \in Nat
    BY InsideFinite DEF TypeInv, RestOK
  <1>2. CASE Inside(p)' = Inside(p)
    <2>1. Holds(lock[p], p) => Holds(lock[p], p)'
      BY <1>2 DEF Holds
    <2> QED  BY <1>1, <1>2, <2>1 DEF Room, Holds
  <1>3. CASE \E w \in Inside(p) : Inside(p)' = Inside(p) \ {w}
    <2>1. m = n - 1
      BY <1>1, <1>3, FS_RemoveElement
    <2> QED  BY <1>1, <2>1 DEF Room
  <1> QED  BY <1>2, <1>3

\* A step of a job that has no part in the lock.
LEMMA RoomOfJob ==
    ASSUME TypeInv, NEW w \in Writers, NEW j, job' = [job EXCEPT ![w] = j], UNCHANGED <<lock, lapses>>,
           \A p \in Pages : Room(p),
           j.kind \in Reduces /\ j.pc \in Section =>
              /\ job[w].kind = j.kind /\ job[w].page = j.page /\ job[w].pc \in Section
              /\ job[w].locked = j.locked
    PROVE  \A p \in Pages : Room(p)'
  <1> SUFFICES ASSUME NEW p \in Pages PROVE Room(p)'
    OBVIOUS
  <1>1. /\ Inside(p)' = (Inside(p) \ {w}) \cup
              (IF j.kind \in Reduces /\ j.page = p /\ j.pc \in Section THEN {w} ELSE {})
        /\ \A v \in Writers \ {w} : job'[v] = job[v]
        /\ job'[w] = j
    BY InsideOf
  <1>2. j.kind \in Reduces /\ j.page = p /\ j.pc \in Section => w \in Inside(p)
    BY DEF Inside
  <1>3. Inside(p)' \subseteq Inside(p)
        /\ (Inside(p)' = Inside(p) \/ \E v \in Inside(p) : Inside(p)' = Inside(p) \ {v})
    BY <1>1, <1>2
  <1>4. \A v \in Inside(p)' : job'[v].locked = job[v].locked
    <2> SUFFICES ASSUME NEW v \in Inside(p)' PROVE job'[v].locked = job[v].locked
      OBVIOUS
    <2>1. v \in Writers
      BY <1>1, InsideFinite
    <2>2. CASE v = w
      BY <1>1, <2>2
    <2>3. CASE v # w
      BY <1>1, <2>1, <2>3
    <2> QED  BY <2>2, <2>3
  <1>5. Room(p) /\ lock'[p] = lock[p] /\ lapses' = lapses
    OBVIOUS
  <1> QED  BY <1>3, <1>4, <1>5, RoomKept

\* A step after which a reduce is at work only if it was, on the same page.
Keeps(w) ==
    job'[w].kind \in Reduces /\ job'[w].pc \in Section =>
        /\ job[w].kind = job'[w].kind /\ job[w].page = job'[w].page /\ job[w].pc \in Section
        /\ job[w].locked = job'[w].locked

LEMMA LeavesKeeps ==
    ASSUME TypeInv, NEW w \in Writers, job[w].pc \in Section \cup {"meta", "drop", "erase"}, Leaves(w)
    PROVE  Keeps(w)
  <1>1. job'[w] = Left(w)
    BY DEF Leaves, TypeInv, JobsOK
  <1> QED  BY <1>1, LeftGood, NoJobType DEF Keeps, Reduces

LEMMA StopsKeeps ==
    ASSUME TypeInv, NEW w \in Writers, job' = [job EXCEPT ![w] = NoJob]
    PROVE  Keeps(w)
  BY NoJobType DEF Keeps, TypeInv, JobsOK, Reduces

\* A step that changes neither the page nor the kind of a job at work.
LEMMA SameKeeps ==
    ASSUME NEW w \in Writers,
           job'[w].kind = job[w].kind, job'[w].page = job[w].page, job'[w].locked = job[w].locked,
           job[w].pc \in Section \/ job[w].kind \notin Reduces
    PROVE  Keeps(w)
  BY DEF Keeps

LEMMA EveryKeeps ==
    ASSUME TypeInv, NEW w \in Writers,
           \/ Reduce(w) \/ Request(w) \/ Clean(w) \/ GiveUp(w) \/ Crash(w)
           \/ Read(w) \/ GenerationFails(w) \/ Update(w) \/ NotFound(w) \/ Create(w)
           \/ SaveVersion(w) \/ SaveMeta(w) \/ SaveGloss(w) \/ Prune(w)
           \/ LinkRead(w) \/ LinkWrite(w) \/ Linked(w)
           \/ Drop(w) \/ Erase(w) \/ Publish(w) \/ Flip(w) \/ TakeOut(w)
    PROVE  Keeps(w)
  <1>1. job[w] \in Jobs /\ GoodJob(job[w], born) /\ w \in DOMAIN job
    BY JobOf DEF TypeInv, JobsOK
  <1>2. CASE Reduce(w) \/ Request(w) \/ Clean(w)
    <2>1. PICK k, p, d, pc : Comes(w, k, p, d, pc) /\ pc \in {"wait", "read", "drop"}
                             /\ (k \in Reduces => pc = "wait")
      BY <1>2 DEF Reduce, Request, Clean, Reduces, Edits
    <2> DEFINE j == [NoJob EXCEPT !.kind = k, !.page = p, !.doc = d, !.n = jobs + 1, !.pc = pc]
    <2>2. job'[w] = j
      BY <1>1, <2>1 DEF Comes
    <2>3. j.kind = k /\ j.pc = pc
      BY DEF NoJob
    <2> QED  BY <2>1, <2>2, <2>3 DEF Keeps, Section
  <1>3. CASE GiveUp(w) \/ Crash(w) \/ Flip(w)
    BY <1>3, StopsKeeps DEF GiveUp, Crash, Flip
  <1>4. CASE Erase(w) \/ TakeOut(w) \/ NotFound(w)
    BY <1>4, LeavesKeeps DEF Erase, TakeOut, NotFound, At, Section
  <1>5. CASE Read(w)
    <2>1. job[w].pc = "read"
      BY <1>5 DEF Read, At
    <2>2. \/ job'[w] = Left(w)
          \/ /\ job'[w].kind = job[w].kind /\ job'[w].page = job[w].page
             /\ job'[w].locked = job[w].locked
      BY <1>1, <1>5 DEF Read, Jobs
    <2> QED  BY <2>1, <2>2, LeftGood, NoJobType, SameKeeps DEF Keeps, Section, Reduces
  <1>6. CASE GenerationFails(w)
    <2>1. job[w].pc = "think" /\ job'[w] = [Left(w) EXCEPT !.wrote = FALSE]
          /\ job[w].kind \in Reduces
      BY <1>1, <1>6 DEF GenerationFails, At
    <2>2. Left(w) = [job[w] EXCEPT !.pc = "unlock", !.copy = NoRow, !.cur = NoRow, !.text = NoText]
      BY <2>1 DEF Left
    <2>3. job'[w].kind = job[w].kind /\ job'[w].page = job[w].page
          /\ job'[w].locked = job[w].locked
      BY <1>1, <2>1, <2>2 DEF Jobs
    <2> QED  BY <2>1, <2>3, SameKeeps DEF Section
  <1>7. CASE Update(w) \/ Create(w)
    <2>1. job[w].pc = "think"
      BY <1>7 DEF Update, Create, At
    <2>2. \/ Leaves(w)
          \/ /\ job'[w].kind = job[w].kind /\ job'[w].page = job[w].page
             /\ job'[w].locked = job[w].locked
      <3>1. CASE Update(w)
        <4>1. CASE Exists(job[w].page)
          <5>1. PICK t \in Written(w) :
                   job' = [job EXCEPT ![w].pc = "save", ![w].cur = row[job[w].page], ![w].text = t.text,
                                      ![w].copy.draft = t.draft]
            BY <3>1, <4>1 DEF Update
          <5> QED  BY <1>1, <5>1 DEF Jobs
        <4>2. CASE ~Exists(job[w].page)
          BY <3>1, <4>2 DEF Update
        <4> QED  BY <4>1, <4>2
      <3>2. CASE Create(w)
        <4>1. CASE Exists(job[w].page)
          BY <3>2, <4>1 DEF Create
        <4>2. CASE ~Exists(job[w].page)
          <5>1. job'[w] = [job[w] EXCEPT !.pc = "links", !.add = Links[job[w].page], !.text = NoText]
            BY <1>1, <3>2, <4>2 DEF Create
          <5> QED  BY <1>1, <5>1 DEF Jobs
        <4> QED  BY <4>1, <4>2
      <3> QED  BY <1>7, <3>1, <3>2
    <2> QED  BY <2>1, <2>2, LeavesKeeps, SameKeeps DEF Section
  <1>8. CASE SaveVersion(w) \/ SaveMeta(w) \/ SaveGloss(w) \/ Prune(w)
    <2>1. job[w].pc \in {"save", "prune"}
      BY <1>8 DEF SaveVersion, SaveMeta, SaveGloss, Prune, Saves, At
    <2>2. \/ Leaves(w)
          \/ /\ job'[w].kind = job[w].kind /\ job'[w].page = job[w].page
             /\ job'[w].locked = job[w].locked
      <3>1. CASE Linking(w)
        BY <1>1, <3>1 DEF Linking, Jobs
      <3>2. CASE job' = [job EXCEPT ![w].pc = "prune", ![w].copy = NoRow, ![w].text = NoText]
        BY <1>1, <3>2 DEF Jobs
      <3> QED  BY <1>8, <3>1, <3>2 DEF SaveVersion, SaveMeta, SaveGloss, Prune
    <2> QED  BY <2>1, <2>2, LeavesKeeps, SameKeeps DEF Section
  <1>9. CASE LinkRead(w) \/ LinkWrite(w)
    <2>1. job[w].pc \in {"links", "link"}
      BY <1>9 DEF LinkRead, LinkWrite, At
    <2>2. /\ job'[w].kind = job[w].kind /\ job'[w].page = job[w].page
          /\ job'[w].locked = job[w].locked
      <3>1. CASE LinkRead(w)
        <4>1. \E t : \/ job' = [job EXCEPT ![w].pc = "link", ![w].target = t, ![w].seen = row[t]]
                     \/ job' = [job EXCEPT ![w].del = @ \ {t}]
                     \/ job' = [job EXCEPT ![w].add = @ \ {t}]
          BY <3>1 DEF LinkRead
        <4> QED  BY <1>1, <4>1 DEF Jobs
      <3>2. CASE LinkWrite(w)
        BY <1>1, <3>2 DEF LinkWrite, Jobs
      <3> QED  BY <1>9, <3>1, <3>2
    <2> QED  BY <2>1, <2>2, SameKeeps DEF Section
  <1>10. CASE Linked(w)
    <2>1. job[w].pc = "links"
      BY <1>10 DEF Linked, At
    <2>2. CASE Goes(w, "erase")
      BY <1>1, <2>1, <2>2, SameKeeps DEF Goes, Jobs, Section
    <2> QED  BY <1>10, <2>1, <2>2, LeavesKeeps DEF Linked, Section
  <1>11. CASE Drop(w)
    <2>1. job[w].pc = "drop" /\ job[w].kind \notin Reduces
      BY <1>1, <1>11 DEF Drop, At, GoodJob
    <2>2. CASE job' = [job EXCEPT ![w].pc = "links", ![w].del = Links[job[w].page]]
      BY <1>1, <2>1, <2>2, SameKeeps DEF Jobs
    <2> QED  BY <1>11, <2>1, <2>2, LeavesKeeps DEF Drop
  <1>12. CASE Publish(w)
    <2>1. job'[w] = NoJob \/ job'[w].pc = "flip"
      BY <1>1, <1>12 DEF Publish, Jobs
    <2> QED  BY <2>1, NoJobType DEF Keeps, Section
  <1> QED  BY <1>2, <1>3, <1>4, <1>5, <1>6, <1>7, <1>8, <1>9, <1>10, <1>11, <1>12

LEMMA RoomOfStep ==
    ASSUME TypeInv, NEW w \in Writers, JobStep(w), Keeps(w), UNCHANGED <<lock, lapses>>,
           \A p \in Pages : Room(p)
    PROVE  \A p \in Pages : Room(p)'
  <1>1. PICK j : job' = [job EXCEPT ![w] = j]
    BY DEF JobStep
  <1>2. job'[w] = j
    BY <1>1 DEF TypeInv, JobsOK
  <1> QED  BY <1>1, <1>2, RoomOfJob DEF Keeps

\* A reduce comes in: it finds no lock and sets its own, or goes on without
\* one, which is a lapse.
LEMMA RoomEnter ==
    ASSUME TypeInv, NEW w \in Writers, Enter(w) \/ EnterUnlocked(w), \A p \in Pages : Room(p)
    PROVE  \A p \in Pages : Room(p)'
  <1> SUFFICES ASSUME NEW p \in Pages PROVE Room(p)'
    OBVIOUS
  <1>1. job[w] \in Jobs /\ GoodJob(job[w], born) /\ w \in DOMAIN job /\ job[w].pc = "wait"
        /\ job[w].page \in Pages /\ job[w].kind \in Reduces /\ lapses \in Nat
    BY JobOf DEF Enter, EnterUnlocked, At, GoodJob, TypeInv, JobsOK, RestOK
  <1>2. /\ IsFiniteSet(Inside(p)) /\ Cardinality(Inside(p)) \in Nat /\ w \notin Inside(p)
        /\ Inside(p) \subseteq Writers
    BY <1>1, InsideFinite DEF Inside, Section
  <1>3. /\ job'[w].kind = job[w].kind /\ job'[w].page = job[w].page /\ job'[w].pc = "read"
        /\ \A v \in Writers \ {w} : job'[v] = job[v]
        /\ Enter(w) => job'[w].locked = TRUE
    <2>1. CASE Enter(w)
      <3>1. job' = [job EXCEPT ![w].pc = "read", ![w].locked = TRUE]
        BY <2>1 DEF Enter
      <3> QED  BY <1>1, <3>1 DEF Jobs, TypeInv, JobsOK
    <2>2. CASE EnterUnlocked(w) /\ ~Enter(w)
      <3>1. job' = [job EXCEPT ![w].pc = "read"]
        BY <2>2 DEF EnterUnlocked, Goes
      <3> QED  BY <1>1, <2>2, <3>1 DEF Jobs, TypeInv, JobsOK
    <2> QED  BY <2>1, <2>2
  <1>4. Inside(p)' = IF p = job[w].page THEN Inside(p) \cup {w} ELSE Inside(p)
    BY <1>1, <1>2, <1>3 DEF Inside, Section
  <1>5. \A v \in Inside(p) : job'[v] = job[v] /\ v # w
    BY <1>2, <1>3
  <1>6. CASE p # job[w].page
    <2>1. lock'[p] = lock[p] /\ Inside(p)' = Inside(p) /\ lapses' >= lapses /\ lapses' \in Nat
      <3>1. CASE Enter(w)
        BY <1>1, <1>4, <1>6, <3>1 DEF Enter, TypeInv, RestOK
      <3>2. CASE EnterUnlocked(w)
        BY <1>1, <1>4, <1>6, <3>2 DEF EnterUnlocked
      <3> QED  BY <3>1, <3>2
    <2>2. Holds(lock[p], p) => Holds(lock[p], p)'
      BY <1>5, <2>1 DEF Holds
    <2> QED  BY <1>1, <1>2, <2>1, <2>2 DEF Room
  <1>7. CASE p = job[w].page /\ Enter(w)
    <2>1. lock[p] = NoOne /\ lock'[p] = w /\ lapses' = lapses
      BY <1>1, <1>7 DEF Enter, TypeInv, RestOK
    <2>2. ~Holds(lock[p], p)
      BY <1>2, <2>1 DEF Holds, WikiPagesAssumption
    <2>3. Holds(lock[p], p)'
      BY <1>3, <1>4, <1>7, <2>1 DEF Holds
    <2>4. Cardinality(Inside(p)') = Cardinality(Inside(p)) + 1
      BY <1>2, <1>4, <1>7, FS_AddElement
    <2> QED  BY <1>1, <1>2, <2>1, <2>2, <2>3, <2>4 DEF Room
  <1>8. CASE p = job[w].page /\ EnterUnlocked(w)
    <2>1. lock' = lock /\ lapses' = lapses + 1
      BY <1>8 DEF EnterUnlocked
    <2>2. Holds(lock[p], p) => Holds(lock[p], p)'
      BY <1>4, <1>5, <2>1 DEF Holds
    <2>3. Cardinality(Inside(p)') = Cardinality(Inside(p)) + 1
      BY <1>2, <1>4, <1>8, FS_AddElement
    <2> QED  BY <1>1, <1>2, <2>1, <2>2, <2>3 DEF Room
  <1> QED  BY <1>6, <1>7, <1>8

\* A reduce leaves, and deletes the lock whoever set it.
LEMMA RoomUnlock ==
    ASSUME TypeInv, NEW w \in Writers, Unlock(w), \A p \in Pages : Room(p)
    PROVE  \A p \in Pages : Room(p)'
  <1> SUFFICES ASSUME NEW p \in Pages PROVE Room(p)'
    OBVIOUS
  <1>1. job[w] \in Jobs /\ GoodJob(job[w], born) /\ w \in DOMAIN job /\ job[w].pc = "unlock"
        /\ job[w].page \in Pages /\ job[w].kind \in Reduces /\ lapses \in Nat /\ lapses' = lapses
    BY JobOf DEF Unlock, At, GoodJob, TypeInv, JobsOK, RestOK, Section
  <1>2. IsFiniteSet(Inside(p)) /\ Cardinality(Inside(p)) \in Nat /\ Inside(p) \subseteq Writers
    BY InsideFinite
  <1>3. /\ job'[w].pc \notin Section
        /\ \A v \in Writers \ {w} : job'[v] = job[v]
    <2>1. job'[w] = NoJob \/ job'[w].pc = "publish"
      BY <1>1, NoJobType DEF Unlock, Jobs
    <2>2. \A v \in Writers \ {w} : job'[v] = job[v]
      BY <1>1 DEF Unlock, TypeInv, JobsOK
    <2> QED  BY <2>1, <2>2, NoJobType DEF Section
  <1>4. Inside(p)' = Inside(p) \ {w} /\ (w \in Inside(p) <=> p = job[w].page)
    BY <1>1, <1>3 DEF Inside, Section
  <1>5. CASE p # job[w].page \/ ~job[w].locked
    <2>1. lock'[p] = lock[p]
      BY <1>1, <1>5 DEF Unlock, TypeInv, RestOK
    <2>2. \A v \in Inside(p)' : job'[v].locked = job[v].locked
      BY <1>2, <1>3, <1>4
    <2>3. Inside(p)' \subseteq Inside(p)
          /\ (Inside(p)' = Inside(p) \/ \E v \in Inside(p) : Inside(p)' = Inside(p) \ {v})
      BY <1>4
    <2>4. Room(p)
      OBVIOUS
    <2> QED  BY <1>1, <2>1, <2>2, <2>3, <2>4, RoomKept
  <1>6. CASE p = job[w].page /\ job[w].locked
    <2>1. Cardinality(Inside(p)') = Cardinality(Inside(p)) - 1
      <3>1. w \in Inside(p) /\ Inside(p)' = Inside(p) \ {w}
        BY <1>4, <1>6
      <3>2. Cardinality(Inside(p) \ {w}) = Cardinality(Inside(p)) - 1
        BY <1>2, <3>1, FS_RemoveElement
      <3> QED  BY <3>1, <3>2
    <2> QED  BY <1>1, <1>2, <2>1 DEF Room
  <1> QED  BY <1>5, <1>6

\* A lock that expires under a reduce at work is a lapse.
LEMMA RoomExpire ==
    ASSUME TypeInv, NEW q \in Pages, Expire(q), \A p \in Pages : Room(p)
    PROVE  \A p \in Pages : Room(p)'
  <1> SUFFICES ASSUME NEW p \in Pages PROVE Room(p)'
    OBVIOUS
  <1>1. lapses \in Nat /\ Cardinality(Inside(p)) \in Nat /\ Inside(p)' = Inside(p) /\ job' = job
    <2>1. job' = job
      BY DEF Expire
    <2>2. Inside(p)' = Inside(p)
      BY <2>1 DEF Inside
    <2> QED  BY <2>1, <2>2, InsideFinite DEF TypeInv, RestOK
  <1>2. lapses' \in {lapses, lapses + 1} /\ (Holds(lock[q], q) => lapses' = lapses + 1)
    BY DEF Expire
  <1>3. CASE p # q
    <2>1. lock'[p] = lock[p]
      BY <1>3 DEF Expire, TypeInv, RestOK
    <2>2. Holds(lock[p], p) <=> Holds(lock[p], p)'
      BY <1>1, <2>1 DEF Holds
    <2> QED  BY <1>1, <1>2, <2>2 DEF Room
  <1>4. CASE p = q
    BY <1>1, <1>2, <1>4 DEF Room
  <1> QED  BY <1>3, <1>4

LEMMA RoomStep ==
    ASSUME TypeInv, \A p \in Pages : Room(p), [Next]_vars
    PROVE  \A p \in Pages : Room(p)'
  <1>1. ASSUME NEW w \in Writers, Reduce(w) \/ Request(w) \/ Clean(w) \/ GiveUp(w) \/ Crash(w)
        PROVE  \A p \in Pages : Room(p)'
    <2>1. JobStep(w) /\ Keeps(w)
      BY <1>1, Coming, Locking, EveryKeeps
    <2>2. UNCHANGED <<lock, lapses>>
      BY <1>1 DEF Reduce, Request, Clean, Comes, GiveUp, Crash, Quiet, ghosts
    <2> QED  BY <2>1, <2>2, RoomOfStep
  <1>2. ASSUME NEW w \in Writers,
               \/ Read(w) \/ GenerationFails(w) \/ Update(w) \/ NotFound(w) \/ Create(w)
               \/ SaveVersion(w) \/ SaveMeta(w) \/ SaveGloss(w) \/ Prune(w)
               \/ LinkRead(w) \/ LinkWrite(w) \/ Linked(w)
               \/ Drop(w) \/ Erase(w) \/ Publish(w) \/ Flip(w) \/ TakeOut(w)
        PROVE  \A p \in Pages : Room(p)'
    <2>1. JobStep(w)
      BY <1>2, Reading, Deciding, Updating, Creating, Saving, LinkReading, LinkWriting, Ending
    <2>2. Keeps(w)
      BY <1>2, EveryKeeps
    <2>3. UNCHANGED <<lock, lapses>>
      BY <1>2 DEF Read, GenerationFails, Update, NotFound, Create, SaveVersion, SaveMeta, SaveGloss,
                  Prune, LinkRead, LinkWrite, Linked, Drop, Erase, Publish, Flip, TakeOut, Quiet
    <2> QED  BY <2>1, <2>2, <2>3, RoomOfStep
  <1>3. CASE UNCHANGED vars
    BY <1>3 DEF vars, ghosts, Room, Holds, Inside
  <1> QED  BY <1>1, <1>2, <1>3, RoomEnter, RoomUnlock, RoomExpire DEF Next

LEMMA RoomInit == Init => \A p \in Pages : Room(p)
  <1> SUFFICES ASSUME Init, NEW p \in Pages PROVE Room(p)
    OBVIOUS
  <1>1. Inside(p) = {}
    BY NoJobType DEF Init, Inside, Section
  <1> QED  BY <1>1, FS_EmptySet DEF Init, Room

\* At most one reduce is at work on a page, and one more for every time a
\* lock expired under its holder or could not be set.
THEOREM SectionBounded == Spec => []SectionBound
  <1>1. TypeInv /\ (\A p \in Pages : Room(p)) /\ [Next]_vars => (\A p \in Pages : Room(p))'
    BY RoomStep
  <1>2. TypeInv /\ (\A p \in Pages : Room(p)) => SectionBound
    <2> SUFFICES ASSUME TypeInv, NEW p \in Pages, Room(p)
                 PROVE  Cardinality(Inside(p)) <= 1 + lapses
      BY DEF SectionBound
    <2>1. Cardinality(Inside(p)) \in Nat /\ lapses \in Nat
      BY InsideFinite DEF TypeInv, RestOK
    <2> QED  BY <2>1 DEF Room
  <1> QED  BY <1>1, <1>2, RoomInit, TypeAlways, PTL DEF Spec

-----------------------------------------------------------------------------
(* The history of a page.                                                  *)

\* A stored text is found where HistoryExact says.
Found(p, s) ==
    \/ s.version \in glossed[p]
    \/ s = Version(row[p])
    \/ \E v \in revs[p] : s = Version(v)
    \/ s.version < row[p].version - (IF s.src = "user" THEN KeepHard ELSE Keep)
    \/ s.version < row[p].version - KeepHard

\* Versions grow: what was stored as the current version is what the page says, and there is
\* no snapshot of it yet.
PageOf(p) ==
    /\ row[p].id = 0 => saved[p] = {} /\ revs[p] = {} /\ glossed[p] = {}
    /\ \A s \in saved[p] : s.version <= row[p].version /\ Found(p, s)
    /\ \A s \in saved[p] : s.version = row[p].version => s.version \in glossed[p] \/ s = Version(row[p])
    /\ \A v \in revs[p] : v.version < row[p].version

\* What a writer knows of a version that is still the current one is right, unless a
\* decorator has replaced the text.
ReadJob(j, R, G) ==
    /\ j.pc = "save" /\ j.cur.id = R[j.page].id =>
          /\ j.cur.version <= R[j.page].version
          /\ j.cur.version = R[j.page].version =>
                \/ j.cur.version \in G[j.page]
                \/ j.cur.text = R[j.page].text /\ j.cur.src = R[j.page].src
    /\ j.pc \in {"think", "save"} /\ j.copy.id # 0 /\ j.copy.id = R[j.page].id =>
          /\ j.copy.version <= R[j.page].version
          /\ j.copy.version = R[j.page].version =>
                \/ j.copy.version \in G[j.page]
                \/ j.copy.text = R[j.page].text
    /\ j.pc = "prune" /\ j.cur.id = R[j.page].id => j.cur.version < R[j.page].version

HistoryInv ==
    /\ \A p \in Pages : PageOf(p)
    /\ \A w \in Writers : ReadJob(job[w], row, glossed)

\* How a step may change a page that others have read.
Later(p) ==
    /\ row'[p].id # row[p].id => row'[p].id = 0 \/ row'[p].id > born
    /\ row'[p].id = row[p].id /\ row[p].id # 0 =>
          /\ glossed[p] \subseteq glossed'[p]
          /\ \/ row'[p].version > row[p].version
             \/ /\ row'[p].version = row[p].version
                /\ \/ row'[p].text = row[p].text /\ row'[p].src = row[p].src
                   \/ row[p].version \in glossed'[p]

LEMMA ReadLater ==
    ASSUME TypeInv, TypeInv', NEW j \in Jobs, GoodJob(j, born), ReadJob(j, row, glossed),
           \A p \in Pages : Later(p)
    PROVE  ReadJob(j, row', glossed')
  <1>1. CASE j.pc \notin {"think", "save", "prune"}
    BY <1>1 DEF ReadJob
  <1>2. CASE j.pc \in {"think", "save", "prune"}
    <2> DEFINE p == j.page
    <2>1. p \in Pages
      BY <1>2 DEF GoodJob
    <2>2. row[p].version \in Nat /\ row'[p].version \in Nat /\ row[p].id \in Nat /\ row'[p].id \in Nat
      <3>1. row[p] \in Rows /\ row'[p] \in Rows
        BY <2>1 DEF TypeInv, PagesOK
      <3> QED  BY <3>1, RowFields
    <2>3. /\ j.cur.version \in Nat /\ j.copy.version \in Nat /\ j.cur.id \in Nat /\ j.copy.id \in Nat
          /\ j.cur.id <= born /\ j.copy.id <= born /\ born \in Nat
          /\ j.pc \in {"save", "prune"} => j.cur.id # 0
      BY JobFields, RowFields DEF GoodJob, TypeInv, PagesOK
    <2>4. Later(p)
      BY <2>1
    <2>5. j.cur.id # 0 /\ j.cur.id = row'[p].id => row'[p].id = row[p].id
      BY <2>2, <2>3, <2>4 DEF Later
    <2>6. j.copy.id # 0 /\ j.copy.id = row'[p].id => row'[p].id = row[p].id
      BY <2>2, <2>3, <2>4 DEF Later
    <2>7. j.pc = "save" /\ j.cur.id = row'[p].id =>
             /\ j.cur.version <= row'[p].version
             /\ j.cur.version = row'[p].version =>
                   \/ j.cur.version \in glossed'[p]
                   \/ j.cur.text = row'[p].text /\ j.cur.src = row'[p].src
      BY <2>2, <2>3, <2>4, <2>5 DEF Later, ReadJob
    <2>8. j.pc \in {"think", "save"} /\ j.copy.id # 0 /\ j.copy.id = row'[p].id =>
             /\ j.copy.version <= row'[p].version
             /\ j.copy.version = row'[p].version =>
                   \/ j.copy.version \in glossed'[p]
                   \/ j.copy.text = row'[p].text
      BY <2>2, <2>3, <2>4, <2>6 DEF Later, ReadJob
    <2>9. j.pc = "prune" /\ j.cur.id = row'[p].id => j.cur.version < row'[p].version
      BY <2>2, <2>3, <2>4, <2>5 DEF Later, ReadJob
    <2> QED  BY <2>7, <2>8, <2>9 DEF ReadJob
  <1> QED  BY <1>1, <1>2

\* The others' reads survive a step of one writer.
LEMMA ReadsStep ==
    ASSUME TypeInv, TypeInv', HistoryInv, NEW w \in Writers, JobStep(w),
           \A p \in Pages : Later(p),
           ReadJob(job'[w], row', glossed')
    PROVE  \A v \in Writers : ReadJob(job'[v], row', glossed')
  <1> SUFFICES ASSUME NEW v \in Writers, v # w PROVE ReadJob(job'[v], row', glossed')
    OBVIOUS
  <1>1. job'[v] = job[v]
    BY DEF JobStep, TypeInv, JobsOK
  <1>2. job[v] \in Jobs /\ GoodJob(job[v], born) /\ ReadJob(job[v], row, glossed)
    BY JobOf DEF HistoryInv
  <1>3. ReadJob(job[v], row', glossed')
    BY <1>2, ReadLater
  <1> QED  BY <1>1, <1>3

\* A page whose version and history stay as they are.
LEMMA PageSame ==
    ASSUME NEW p \in Pages, PageOf(p), SameVersion(p),
           revs'[p] = revs[p], saved'[p] = saved[p], glossed'[p] = glossed[p]
    PROVE  PageOf(p)' /\ Later(p)
  BY DEF PageOf, Found, SameVersion, Later, Version

\* A job that has nothing left to write of what it read.
LEMMA ReadNone ==
    ASSUME NEW j, NEW R, NEW G, j.pc \notin {"think", "save", "prune"}
    PROVE  ReadJob(j, R, G)
  BY DEF ReadJob

LEMMA LeavesRead ==
    ASSUME TypeInv, NEW w \in Writers, job[w].pc \in Section \cup {"meta", "drop", "erase"}, Leaves(w),
           NEW R, NEW G
    PROVE  ReadJob(job'[w], R, G)
  <1>1. job'[w] = Left(w)
    BY DEF Leaves, TypeInv, JobsOK
  <1>2. Left(w).pc \notin {"think", "save", "prune"}
    BY LeftGood
  <1> QED  BY <1>1, <1>2, ReadNone

\* Where a writer is that has read nothing, or is done with it.
Done == Pcs \ {"read", "meta", "think", "save", "prune"}

LEMMA LeavesDone ==
    ASSUME TypeInv, NEW w \in Writers, job[w].pc \in Section \cup {"meta", "drop", "erase"}, Leaves(w)
    PROVE  job'[w].pc \in Done
  <1>1. job'[w] = Left(w)
    BY DEF Leaves, TypeInv, JobsOK
  <1> QED  BY <1>1, LeftGood DEF Done, Pcs, Section

LEMMA StopsDone ==
    ASSUME TypeInv, NEW w \in Writers, job' = [job EXCEPT ![w] = NoJob]
    PROVE  job'[w].pc \in Done
  BY NoJobType DEF TypeInv, JobsOK, Done, Pcs, Section

LEMMA DoneSteps ==
    ASSUME TypeInv, NEW w \in Writers,
           \/ GiveUp(w) \/ Crash(w) \/ Unlock(w) \/ GenerationFails(w) \/ NotFound(w)
           \/ Prune(w) \/ LinkRead(w) \/ LinkWrite(w) \/ Linked(w)
           \/ Drop(w) \/ Erase(w) \/ Publish(w) \/ Flip(w) \/ TakeOut(w)
    PROVE  job'[w].pc \in Done
  <1>1. job[w] \in Jobs /\ GoodJob(job[w], born) /\ w \in DOMAIN job
    BY JobOf DEF TypeInv, JobsOK
  <1>3. CASE GiveUp(w) \/ Crash(w) \/ Flip(w)
    BY <1>3, StopsDone DEF GiveUp, Crash, Flip
  <1>4. CASE Erase(w) \/ TakeOut(w) \/ NotFound(w)
    BY <1>4, LeavesDone DEF Erase, TakeOut, NotFound, At, Section
  <1>5. CASE GenerationFails(w)
    <2>1. job[w].pc = "think" /\ job'[w] = [Left(w) EXCEPT !.wrote = FALSE]
      BY <1>1, <1>5 DEF GenerationFails, At
    <2>2. Left(w) \in Jobs /\ Left(w).pc \in Done
      BY <2>1, LeftGood DEF Section, GoodJob, Done, Pcs
    <2>3. job'[w].pc = Left(w).pc
      BY <2>1, <2>2 DEF Jobs
    <2> QED  BY <2>2, <2>3
  <1>7. CASE Unlock(w) \/ Publish(w)
    <2>1. job'[w] = NoJob \/ job'[w].pc \in {"publish", "flip"}
      <3>1. CASE Unlock(w)
        BY <1>1, <3>1, NoJobType DEF Unlock, Jobs
      <3>2. CASE Publish(w)
        BY <1>1, <3>2 DEF Publish, Jobs
      <3> QED  BY <1>7, <3>1, <3>2
    <2> QED  BY <2>1, NoJobType DEF Done, Pcs
  <1>8. CASE Prune(w)
    <2>1. job'[w].pc = "links"
      BY <1>1, <1>8 DEF Prune, Linking, Jobs
    <2> QED  BY <2>1 DEF Done, Pcs, Section
  <1>9. CASE LinkRead(w) \/ LinkWrite(w)
    <2>1. job'[w].pc \in {"link", "links"}
      <3>1. CASE LinkRead(w)
        <4>1. job[w].pc = "links" /\
              \E t : \/ job' = [job EXCEPT ![w].pc = "link", ![w].target = t, ![w].seen = row[t]]
                     \/ job' = [job EXCEPT ![w].del = @ \ {t}]
                     \/ job' = [job EXCEPT ![w].add = @ \ {t}]
          BY <3>1 DEF LinkRead, At
        <4> QED  BY <1>1, <4>1 DEF Jobs
      <3>2. CASE LinkWrite(w)
        BY <1>1, <3>2 DEF LinkWrite, Jobs
      <3> QED  BY <1>9, <3>1, <3>2
    <2> QED  BY <2>1 DEF Done, Pcs, Section
  <1>10. CASE Linked(w)
    <2>1. CASE Leaves(w)
      BY <1>10, <2>1, LeavesDone DEF Linked, At, Section
    <2>2. CASE Goes(w, "erase")
      <3>1. job'[w].pc = "erase"
        BY <1>1, <2>2 DEF Goes, Jobs
      <3> QED  BY <3>1 DEF Done, Pcs
    <2> QED  BY <1>10, <2>1, <2>2 DEF Linked
  <1>11. CASE Drop(w)
    <2>1. CASE Leaves(w)
      BY <1>11, <2>1, LeavesDone DEF Drop, At
    <2>2. CASE job' = [job EXCEPT ![w].pc = "links", ![w].del = Links[job[w].page]]
      <3>1. job'[w].pc = "links"
        BY <1>1, <2>2 DEF Jobs
      <3> QED  BY <3>1 DEF Done, Pcs, Section
    <2> QED  BY <1>11, <2>1, <2>2 DEF Drop
  <1> QED  BY <1>3, <1>4, <1>5, <1>7, <1>8, <1>9, <1>10, <1>11

\* Who comes, and whoever is let in, reads next.
LEMMA FirstSteps ==
    ASSUME TypeInv, NEW w \in Writers
    PROVE  /\ Reduce(w) \/ Request(w) \/ Clean(w) =>
                /\ job'[w].pc \in {"wait", "read", "drop"}
                /\ job'[w].pc = "read" => job'[w].kind \in Edits \cup {"gloss", "clean"}
                /\ job'[w].kind = "clean" => job'[w].doc \in gone'
           /\ Enter(w) \/ EnterUnlocked(w) =>
                /\ job'[w].pc = "read" /\ job'[w].kind = job[w].kind /\ job'[w].page = job[w].page
                /\ \A v \in Writers \ {w} : job'[v] = job[v]
                /\ job[w].kind \in Reduces /\ job[w].page \in Pages /\ job[w].pc = "wait"
  <1>1. job[w] \in Jobs /\ GoodJob(job[w], born) /\ w \in DOMAIN job
    BY JobOf DEF TypeInv, JobsOK
  <1>2. ASSUME Reduce(w) \/ Request(w) \/ Clean(w)
        PROVE  /\ job'[w].pc \in {"wait", "read", "drop"}
               /\ job'[w].pc = "read" => job'[w].kind \in Edits \cup {"gloss", "clean"}
               /\ job'[w].kind = "clean" => job'[w].doc \in gone'
    <2>1. PICK k, p, d, pc :
             /\ Comes(w, k, p, d, pc) /\ pc \in {"wait", "read", "drop"}
             /\ pc = "read" => k \in Edits \cup {"gloss", "clean"}
             /\ k = "clean" => d \in gone'
      <3>1. CASE Reduce(w)
        BY <3>1 DEF Reduce
      <3>2. CASE Request(w)
        BY <3>2 DEF Request, Edits
      <3>3. CASE Clean(w)
        BY <3>3 DEF Clean
      <3> QED  BY <1>2, <3>1, <3>2, <3>3
    <2> DEFINE j == [NoJob EXCEPT !.kind = k, !.page = p, !.doc = d, !.n = jobs + 1, !.pc = pc]
    <2>2. job'[w] = j /\ j.pc = pc /\ j.kind = k /\ j.doc = d
      BY <1>1, <2>1 DEF Comes, NoJob
    <2> QED  BY <2>1, <2>2
  <1>3. ASSUME Enter(w) \/ EnterUnlocked(w)
        PROVE  /\ job'[w].pc = "read" /\ job'[w].kind = job[w].kind /\ job'[w].page = job[w].page
               /\ \A v \in Writers \ {w} : job'[v] = job[v]
               /\ job[w].kind \in Reduces /\ job[w].page \in Pages /\ job[w].pc = "wait"
    <2>1. \/ job' = [job EXCEPT ![w].pc = "read", ![w].locked = TRUE]
          \/ job' = [job EXCEPT ![w].pc = "read"]
      BY <1>3 DEF Enter, EnterUnlocked, Goes
    <2>2. job[w].pc = "wait"
      BY <1>3 DEF Enter, EnterUnlocked, At
    <2> QED  BY <1>1, <2>1, <2>2 DEF Jobs, GoodJob, TypeInv, JobsOK
  <1> QED  BY <1>2, <1>3

\* Steps after which a writer has read nothing, or is done with it.
LEMMA IdleReads ==
    ASSUME TypeInv, NEW w \in Writers, NEW R, NEW G,
           \/ Reduce(w) \/ Request(w) \/ Clean(w) \/ GiveUp(w) \/ Crash(w)
           \/ Enter(w) \/ EnterUnlocked(w) \/ Unlock(w)
           \/ GenerationFails(w) \/ NotFound(w)
           \/ Prune(w) \/ LinkRead(w) \/ LinkWrite(w) \/ Linked(w)
           \/ Drop(w) \/ Erase(w) \/ Publish(w) \/ Flip(w) \/ TakeOut(w)
    PROVE  ReadJob(job'[w], R, G)
  <1>1. job'[w].pc \in Done \cup {"wait", "read", "drop"}
    BY DoneSteps, FirstSteps
  <1> QED  BY <1>1, ReadNone DEF Done

\* A page that is read is read as it is.
LEMMA ReadReads ==
    ASSUME TypeInv, NEW w \in Writers, Read(w)
    PROVE  ReadJob(job'[w], row, glossed)
  <1> DEFINE p == job[w].page
             d == job[w].doc
             t == [job[w] EXCEPT !.pc = "think", !.copy = row[p], !.wrote = TRUE]
  <1>1. job[w] \in Jobs /\ GoodJob(job[w], born) /\ w \in DOMAIN job /\ job[w].pc = "read"
        /\ p \in Pages
    BY JobOf DEF Read, At, TypeInv, JobsOK, GoodJob
  <1>2. CASE Leaves(w)
    BY <1>1, <1>2, LeavesRead DEF Section
  <1>3. CASE job'[w] = t
    <2>1. t.pc = "think" /\ t.copy = row[p] /\ t.page = p
      BY <1>1 DEF Jobs
    <2>2. row[p].version \in Nat
      BY <1>1, RowOf, RowFields
    <2> QED
      <3> HIDE DEF t
      <3> QED  BY <1>3, <2>1, <2>2 DEF ReadJob
  <1>4. CASE job'[w].pc \in {"drop", "meta"}
    BY <1>4, ReadNone
  <1>5. Leaves(w) \/ job'[w] = t \/ job'[w].pc \in {"drop", "meta"}
    BY <1>1 DEF Read, Leaves, Jobs
  <1> QED  BY <1>2, <1>3, <1>4, <1>5

LEMMA UpdateReads ==
    ASSUME TypeInv, HistoryInv, NEW w \in Writers, Update(w)
    PROVE  ReadJob(job'[w], row, glossed)
  <1> DEFINE p == job[w].page
  <1>1. job[w] \in Jobs /\ GoodJob(job[w], born) /\ w \in DOMAIN job /\ job[w].pc = "think"
        /\ p \in Pages /\ ReadJob(job[w], row, glossed)
    BY JobOf DEF Update, At, TypeInv, JobsOK, GoodJob, HistoryInv
  <1>2. CASE Leaves(w)
    BY <1>1, <1>2, LeavesRead DEF Section
  <1>3. CASE ~Leaves(w)
    <2>1. PICK t \in Written(w) :
             job' = [job EXCEPT ![w].pc = "save", ![w].cur = row[p], ![w].text = t.text,
                                ![w].copy.draft = t.draft]
      BY <1>3 DEF Update
    <2>2. row[p] \in Rows /\ row[p].version \in Nat /\ job[w].copy \in Rows
      BY <1>1, RowOf, RowFields, JobFields
    <2>3. /\ job'[w].pc = "save" /\ job'[w].cur = row[p] /\ job'[w].page = p
          /\ job'[w].copy.id = job[w].copy.id /\ job'[w].copy.version = job[w].copy.version
          /\ job'[w].copy.text = job[w].copy.text
      BY <1>1, <2>1, <2>2 DEF Jobs, Rows
    <2> QED  BY <1>1, <2>2, <2>3 DEF ReadJob
  <1> QED  BY <1>2, <1>3

\* What a step owes to the history.
HistoryStep(w) ==
    /\ \A p \in Pages : PageOf(p)' /\ Later(p)
    /\ ReadJob(job'[w], row', glossed')

LEMMA QuietHistory ==
    ASSUME TypeInv, HistoryInv, NEW w \in Writers,
           \A p \in Pages : SameVersion(p), UNCHANGED <<revs, saved, glossed>>
    PROVE  \A p \in Pages : PageOf(p)' /\ Later(p)
  <1> SUFFICES ASSUME NEW p \in Pages PROVE PageOf(p)' /\ Later(p)
    OBVIOUS
  <1>1. PageOf(p) /\ SameVersion(p)
    BY DEF HistoryInv
  <1> QED  BY <1>1, PageSame

LEMMA RestsHistory ==
    ASSUME TypeInv, HistoryInv, NEW w \in Writers, Rests
    PROVE  \A p \in Pages : PageOf(p)' /\ Later(p)
  <1>1. \A p \in Pages : SameVersion(p)
    BY DEF Rests, pages, SameVersion
  <1>2. UNCHANGED <<revs, saved, glossed>>
    BY DEF Rests, pages
  <1> QED  BY <1>1, <1>2, QuietHistory

\* A new page has an id that nobody has read yet, and one version.
LEMMA CreateHistory ==
    ASSUME TypeInv, HistoryInv, NEW w \in Writers, Create(w)
    PROVE  HistoryStep(w)
  <1>0. job[w].page \in Pages
    BY JobOf DEF Create, At, GoodJob
  <1> SUFFICES ASSUME NEW p \in Pages, p = job[w].page PROVE HistoryStep(w)
    BY <1>0
  <1>1. job[w] \in Jobs /\ GoodJob(job[w], born) /\ w \in DOMAIN job /\ job[w].pc = "think"
        /\ p \in Pages /\ born \in Nat
    BY JobOf DEF Create, At, TypeInv, JobsOK, GoodJob, PagesOK
  <1>2. CASE Exists(p)
    <2>1. Leaves(w) /\ Rests
      BY <1>2 DEF Create
    <2> QED  BY <1>1, <2>1, RestsHistory, LeavesRead DEF HistoryStep, Section
  <1>3. CASE ~Exists(p)
    <2>1. PICK t \in Written(w) :
            LET r == [NoRow EXCEPT !.id = born + 1, !.version = 1, !.text = t.text,
                                   !.refs = Refs(w), !.draft = job[w].kind = "add", !.src = Source(w)] IN
            row' = [row EXCEPT ![p] = r] /\ Stored(p, r)
      BY <1>3 DEF Create
    <2> DEFINE r == [NoRow EXCEPT !.id = born + 1, !.version = 1, !.text = t.text,
                                  !.refs = Refs(w), !.draft = job[w].kind = "add", !.src = Source(w)]
    <2>2. r.id = born + 1 /\ r.version = 1
      BY DEF NoRow
    <2>3. row' = [row EXCEPT ![p] = r] /\ saved' = [saved EXCEPT ![p] = @ \cup {Version(r)}]
          /\ UNCHANGED <<revs, glossed>> /\ row[p].id = 0
      BY <1>3, <2>1 DEF Create, Stored, Exists
    <2>4. saved[p] = {} /\ revs[p] = {} /\ glossed[p] = {}
      BY <1>1, <2>3 DEF HistoryInv, PageOf
    <2> HIDE DEF r
    <2>5. row'[p] = r /\ saved'[p] = {Version(r)} /\ revs'[p] = {} /\ glossed'[p] = {}
      BY <1>1, <2>3, <2>4 DEF TypeInv, PagesOK
    <2>6. PageOf(p)'
      <3>1. Version(r).version = 1
        BY <2>2 DEF Version
      <3> QED  BY <1>1, <2>2, <2>5, <3>1 DEF PageOf, Found
    <2>7. Later(p)
      BY <1>1, <2>2, <2>3, <2>5 DEF Later
    <2>8. ASSUME NEW q \in Pages, q # p PROVE PageOf(q)' /\ Later(q)
      <3>1. SameVersion(q) /\ revs'[q] = revs[q] /\ saved'[q] = saved[q] /\ glossed'[q] = glossed[q]
        BY <2>3, <2>8 DEF SameVersion, TypeInv, PagesOK
      <3> QED  BY <3>1, PageSame DEF HistoryInv
    <2>9. ReadJob(job'[w], row', glossed')
      <3>1. job'[w] = [job[w] EXCEPT !.pc = "links", !.add = Links[p], !.text = NoText]
        BY <1>1, <1>3 DEF Create
      <3>2. job'[w].pc = "links"
        BY <1>1, <3>1 DEF Jobs
      <3> QED  BY <3>2, ReadNone
    <2> QED  BY <2>6, <2>7, <2>8, <2>9 DEF HistoryStep
  <1> QED  BY <1>2, <1>3

\* The snapshot of a version is what the page said, unless a decorator was there.
LEMMA SaveVersionHistory ==
    ASSUME TypeInv, HistoryInv, NEW w \in Writers, SaveVersion(w)
    PROVE  HistoryStep(w)
  <1>0. job[w].page \in Pages
    BY JobOf DEF SaveVersion, Saves, At, GoodJob
  <1> SUFFICES ASSUME NEW p \in Pages, p = job[w].page PROVE HistoryStep(w)
    BY <1>0
  <1> DEFINE j == job[w]
  <1>1. j \in Jobs /\ GoodJob(j, born) /\ w \in DOMAIN job /\ j.pc = "save"
        /\ p \in Pages /\ ReadJob(j, row, glossed) /\ PageOf(p)
    BY JobOf DEF SaveVersion, Saves, At, TypeInv, JobsOK, GoodJob, HistoryInv
  <1>2. CASE ~Current(w)
    <2>1. Leaves(w) /\ Rests
      BY <1>2 DEF SaveVersion
    <2> QED  BY <1>1, <2>1, RestsHistory, LeavesRead DEF HistoryStep, Section
  <1>3. CASE Current(w)
    <2> DEFINE r == [row[p] EXCEPT !.version = j.cur.version + 1, !.text = j.text, !.refs = Refs(w),
                                   !.draft = j.copy.draft, !.src = Source(w)]
    <2>1. /\ row' = [row EXCEPT ![p] = r] /\ saved' = [saved EXCEPT ![p] = @ \cup {Version(r)}]
          /\ revs' = [revs EXCEPT ![p] = Snapshot(p, j.cur)] /\ glossed' = glossed
          /\ job' = [job EXCEPT ![w].pc = "prune", ![w].copy = NoRow, ![w].text = NoText]
      BY <1>3 DEF SaveVersion, Stored
    <2>2. row[p] \in Rows /\ row[p].version \in Nat /\ row[p].id = j.cur.id /\ row[p].version = j.cur.version
          /\ j.cur.id # 0
      BY <1>1, <1>3, RowOf, RowFields DEF Current, GoodJob
    <2>3. r.id = row[p].id /\ r.version = row[p].version + 1
      BY <2>2 DEF Rows
    <2> DEFINE v == [version |-> j.cur.version, text |-> j.cur.text, src |-> j.cur.src,
                     draft |-> j.cur.draft]
    <2>4. Snapshot(p, j.cur) = revs[p] \cup {v}
      BY <1>1, <2>2, RowFields, JobFields DEF Snapshot, PageOf, TypeInv, PagesOK, Revisions
    <2>5. v.version = row[p].version /\ (Version(v) = Version(row[p]) \/ row[p].version \in glossed[p])
      BY <1>1, <2>2 DEF ReadJob, Version
    <2> HIDE DEF r, v
    <2>6. row'[p] = r /\ saved'[p] = saved[p] \cup {Version(r)} /\ revs'[p] = revs[p] \cup {v}
      BY <1>1, <2>1, <2>4 DEF TypeInv, PagesOK
    <2>7. PageOf(p)'
      <3>1. Version(r).version = row[p].version + 1
        BY <2>3 DEF Version
      <3>2. \A s \in saved[p] : s.version \in Nat
        BY <1>1 DEF TypeInv, PagesOK, Versions
      <3>3. ASSUME NEW s \in saved'[p]
            PROVE  /\ s.version <= row'[p].version /\ Found(p, s)'
                   /\ s.version = row'[p].version => s = Version(row'[p])
        <4>1. CASE s = Version(r)
          BY <2>2, <2>3, <2>6, <3>1, <4>1 DEF Found
        <4>2. CASE s \in saved[p]
          <5>1. s.version <= row[p].version /\ s.version \in Nat /\ Found(p, s)
                /\ (s.version = row[p].version => s.version \in glossed[p] \/ s = Version(row[p]))
            BY <1>1, <3>2, <4>2 DEF PageOf
          <5>2. s.version <= row'[p].version /\ s.version # row'[p].version
            BY <2>2, <2>3, <2>6, <5>1
          <5>3. s = Version(row[p]) => Found(p, s)'
            BY <2>1, <2>2, <2>5, <2>6, <5>1 DEF Found, Version
          <5>4. (\E u \in revs[p] : s = Version(u)) => Found(p, s)'
            BY <2>6 DEF Found, Version
          <5>5. /\ s.version < row[p].version - (IF s.src = "user" THEN KeepHard ELSE Keep) => Found(p, s)'
                /\ s.version < row[p].version - KeepHard => Found(p, s)'
            BY <2>2, <2>3, <2>6, <5>1, WikiPagesAssumption DEF Found
          <5> QED  BY <2>1, <5>1, <5>2, <5>3, <5>4, <5>5 DEF Found
        <4> QED  BY <2>6, <4>1, <4>2
      <3>4. row'[p].id # 0
        BY <2>2, <2>3, <2>6
      <3>5. \A u \in revs'[p] : u.version < row'[p].version
        <4>1. \A u \in revs[p] : u.version < row[p].version /\ u.version \in Nat
          BY <1>1 DEF PageOf, TypeInv, PagesOK, Revisions
        <4> QED  BY <2>2, <2>3, <2>5, <2>6, <4>1
      <3> QED  BY <3>3, <3>4, <3>5 DEF PageOf
    <2>8. Later(p)
      BY <2>1, <2>2, <2>3, <2>6 DEF Later
    <2>9. ASSUME NEW q \in Pages, q # p PROVE PageOf(q)' /\ Later(q)
      <3>1. SameVersion(q) /\ revs'[q] = revs[q] /\ saved'[q] = saved[q] /\ glossed'[q] = glossed[q]
        BY <2>1, <2>9 DEF SameVersion, TypeInv, PagesOK
      <3> QED  BY <3>1, PageSame DEF HistoryInv
    <2>10. ReadJob(job'[w], row', glossed')
      <3>1. job'[w].pc = "prune" /\ job'[w].page = p /\ job'[w].cur = j.cur
        BY <1>1, <2>1 DEF Jobs
      <3>2. j.cur.version < row'[p].version
        BY <2>2, <2>3, <2>6
      <3> QED  BY <3>1, <3>2 DEF ReadJob
    <2> QED  BY <2>7, <2>8, <2>9, <2>10 DEF HistoryStep
  <1> QED  BY <1>2, <1>3

LEMMA LinkingRead ==
    ASSUME TypeInv, NEW w \in Writers, Linking(w), NEW R, NEW G
    PROVE  ReadJob(job'[w], R, G)
  <1>1. job'[w].pc = "links"
    BY JobOf DEF Linking, TypeInv, JobsOK, Jobs
  <1> QED  BY <1>1, ReadNone

LEMMA SaveMetaHistory ==
    ASSUME TypeInv, HistoryInv, NEW w \in Writers, SaveMeta(w)
    PROVE  HistoryStep(w)
  <1>0. job[w].page \in Pages /\ job[w].pc = "save"
    BY JobOf DEF SaveMeta, Saves, At, GoodJob
  <1> SUFFICES ASSUME NEW p \in Pages, p = job[w].page PROVE HistoryStep(w)
    BY <1>0
  <1>1. CASE Leaves(w) /\ Rests
    BY <1>0, <1>1, RestsHistory, LeavesRead DEF HistoryStep, Section
  <1>2. CASE ~(Leaves(w) /\ Rests)
    <2> DEFINE f == Refs(w)
               d == job[w].copy.draft
               i == job[w].cur.inl
    <2>1. /\ row' = [row EXCEPT ![p].refs = f, ![p].draft = d, ![p].inl = i]
          /\ UNCHANGED <<revs, saved, glossed>> /\ Linking(w)
      BY <1>2 DEF SaveMeta
    <2> HIDE DEF f, d, i
    <2>2. \A q \in Pages : SameVersion(q)
      <3>1. row \in [Pages -> Rows]
        BY DEF TypeInv, PagesOK
      <3> QED  BY <2>1, <3>1 DEF SameVersion, Rows
    <2> QED  BY <2>1, <2>2, QuietHistory, LinkingRead DEF HistoryStep
  <1> QED  BY <1>1, <1>2

\* A decorator puts the text back that it read, or has replaced a version.
LEMMA SaveGlossHistory ==
    ASSUME TypeInv, HistoryInv, NEW w \in Writers, SaveGloss(w)
    PROVE  HistoryStep(w)
  <1>0. job[w].page \in Pages
    BY JobOf DEF SaveGloss, At, GoodJob
  <1> SUFFICES ASSUME NEW p \in Pages, p = job[w].page PROVE HistoryStep(w)
    BY <1>0
  <1> DEFINE j == job[w]
             late == j.copy.id # row[p].id \/ j.copy.version # row[p].version
  <1>1. j \in Jobs /\ GoodJob(j, born) /\ w \in DOMAIN job /\ j.pc = "save" /\ j.kind = "gloss"
        /\ ReadJob(j, row, glossed) /\ PageOf(p) /\ j.text = j.copy.text /\ j.copy.id # 0
    BY JobOf DEF SaveGloss, At, TypeInv, JobsOK, GoodJob, HistoryInv
  <1>2. CASE Leaves(w) /\ Rests
    BY <1>1, <1>2, RestsHistory, LeavesRead DEF HistoryStep, Section
  <1>3. CASE ~(Leaves(w) /\ Rests)
    <2>1. /\ row' = [row EXCEPT ![p].text = j.text]
          /\ glossed' = IF late THEN [glossed EXCEPT ![p] = @ \cup {row[p].version}] ELSE glossed
          /\ UNCHANGED <<revs, saved>> /\ Linking(w)
      BY <1>3 DEF SaveGloss
    <2>2. row[p] \in Rows /\ row[p].version \in Nat /\ row[p].id = j.cur.id /\ row[p].id # 0
      BY <1>1, <1>3, RowOf, RowFields DEF SaveGloss, GoodJob
    <2>3. /\ row'[p].id = row[p].id /\ row'[p].version = row[p].version /\ row'[p].src = row[p].src
          /\ row'[p].text = j.text /\ row' \in [Pages -> Rows]
      <3>1. row \in [Pages -> Rows] /\ j.text \in Texts
        BY <1>1, JobFields DEF TypeInv, PagesOK
      <3> QED  BY <2>1, <2>2, <3>1 DEF Rows
    <2>4. glossed[p] \subseteq glossed'[p] /\ (late => row[p].version \in glossed'[p])
      BY <2>1 DEF TypeInv, PagesOK
    <2>5. row[p].version \in glossed'[p] \/ row'[p].text = row[p].text
      <3>1. CASE late
        BY <2>4, <3>1
      <3>2. CASE ~late
        BY <1>1, <2>2, <2>3, <2>4, <3>2 DEF ReadJob
      <3> QED  BY <3>1, <3>2
    <2>6. Version(row[p]).version = row[p].version
      BY DEF Version
    <2>7. PageOf(p)'
      <3>1. \A s \in saved[p] : s.version = row[p].version => s.version \in glossed'[p] \/ s = Version(row'[p])
        BY <1>1, <2>3, <2>4, <2>5 DEF PageOf, Version
      <3>2. \A s \in saved[p] : Found(p, s)'
        <4> SUFFICES ASSUME NEW s \in saved[p] PROVE Found(p, s)'
          OBVIOUS
        <4>1. CASE s = Version(row[p])
          BY <2>6, <3>1, <4>1 DEF Found
        <4>2. CASE s # Version(row[p])
          BY <1>1, <2>1, <2>3, <2>4, <4>2 DEF PageOf, Found
        <4> QED  BY <4>1, <4>2
      <3> QED  BY <1>1, <2>1, <2>2, <2>3, <3>1, <3>2 DEF PageOf
    <2>8. Later(p)
      BY <2>3, <2>4, <2>5 DEF Later
    <2>9. ASSUME NEW q \in Pages, q # p PROVE PageOf(q)' /\ Later(q)
      <3>1. SameVersion(q) /\ revs'[q] = revs[q] /\ saved'[q] = saved[q] /\ glossed'[q] = glossed[q]
        BY <2>1, <2>9 DEF SameVersion, TypeInv, PagesOK
      <3> QED  BY <3>1, PageSame DEF HistoryInv
    <2> QED  BY <2>1, <2>7, <2>8, <2>9, LinkingRead DEF HistoryStep
  <1> QED  BY <1>2, <1>3

\* What is pruned is older than what has to be kept: no version is taken back.
LEMMA PruneHistory ==
    ASSUME TypeInv, HistoryInv, NEW w \in Writers, Prune(w)
    PROVE  HistoryStep(w)
  <1>0. job[w].page \in Pages
    BY JobOf DEF Prune, At, GoodJob
  <1> SUFFICES ASSUME NEW p \in Pages, p = job[w].page PROVE HistoryStep(w)
    BY <1>0
  <1> DEFINE j == job[w]
             v == j.cur.version + 1
  <1>1. j \in Jobs /\ GoodJob(j, born) /\ j.pc = "prune" /\ ReadJob(j, row, glossed) /\ PageOf(p)
    BY JobOf DEF Prune, At, HistoryInv
  <1>2. UNCHANGED <<row, saved, glossed>>
    BY DEF Prune
  <1>3. \A q \in Pages : Later(q)
    BY <1>2 DEF Later
  <1>4. ReadJob(job'[w], row', glossed')
    BY IdleReads
  <1>5. CASE row[p].id # j.cur.id
    <2>1. UNCHANGED revs
      BY <1>5 DEF Prune
    <2>2. \A q \in Pages : SameVersion(q)
      BY <1>2 DEF SameVersion
    <2> QED  BY <1>2, <1>4, <2>1, <2>2, QuietHistory DEF HistoryStep
  <1>6. CASE row[p].id = j.cur.id
    <2>1. revs' = [revs EXCEPT ![p] = {r \in @ : /\ r.version < v - Keep => r.src = "user"
                                                 /\ ~(r.version < v - KeepHard)}]
      BY <1>6 DEF Prune
    <2>2. j.cur.version \in Nat /\ row[p].version \in Nat /\ v <= row[p].version
      BY <1>1, <1>6, JobFields, RowFields, RowOf DEF ReadJob
    <2>3. revs'[p] = {r \in revs[p] : /\ r.version < v - Keep => r.src = "user"
                                      /\ ~(r.version < v - KeepHard)}
      BY <2>1 DEF TypeInv, PagesOK
    <2>4. PageOf(p)'
      <3>1. ASSUME NEW s \in saved[p], NEW r \in revs[p], s = Version(r) PROVE Found(p, s)'
        <4>1. s.version = r.version /\ s.src = r.src /\ s.version \in Nat
          BY <3>1 DEF Version, TypeInv, PagesOK, Versions
        <4>2. CASE r \in revs'[p]
          BY <3>1, <4>2 DEF Found
        <4>3. CASE r \notin revs'[p]
          <5>1. (r.version < v - Keep /\ r.src # "user") \/ r.version < v - KeepHard
            BY <2>3, <4>3
          <5> HIDE DEF v
          <5>2. v \in Int
            BY <2>2 DEF v
          <5> QED  BY <1>2, <2>2, <4>1, <5>1, <5>2, WikiPagesAssumption DEF Found
        <4> QED  BY <4>2, <4>3
      <3>2. \A s \in saved[p] : Found(p, s)'
        <4> SUFFICES ASSUME NEW s \in saved[p] PROVE Found(p, s)'
          OBVIOUS
        <4>1. Found(p, s)
          BY <1>1 DEF PageOf
        <4>2. CASE \E r \in revs[p] : s = Version(r)
          BY <3>1, <4>2
        <4>3. CASE ~\E r \in revs[p] : s = Version(r)
          BY <1>2, <4>1, <4>3 DEF Found
        <4> QED  BY <4>2, <4>3
      <3>3. revs'[p] \subseteq revs[p] /\ (revs[p] = {} => revs'[p] = {})
        BY <2>3
      <3> QED  BY <1>1, <1>2, <3>2, <3>3 DEF PageOf
    <2>5. ASSUME NEW q \in Pages, q # p PROVE PageOf(q)'
      <3>1. SameVersion(q) /\ revs'[q] = revs[q] /\ saved'[q] = saved[q] /\ glossed'[q] = glossed[q]
        BY <1>2, <2>1, <2>5 DEF SameVersion, TypeInv, PagesOK
      <3> QED  BY <3>1, PageSame DEF HistoryInv
    <2> QED  BY <1>3, <1>4, <2>4, <2>5 DEF HistoryStep
  <1> QED  BY <1>5, <1>6

LEMMA EraseHistory ==
    ASSUME TypeInv, HistoryInv, NEW w \in Writers, Erase(w)
    PROVE  HistoryStep(w)
  <1>0. job[w].page \in Pages
    BY JobOf DEF Erase, At, GoodJob
  <1> SUFFICES ASSUME NEW p \in Pages, p = job[w].page PROVE HistoryStep(w)
    BY <1>0
  <1>1. /\ row' = [row EXCEPT ![p] = NoRow] /\ revs' = [revs EXCEPT ![p] = {}]
        /\ saved' = [saved EXCEPT ![p] = {}] /\ glossed' = [glossed EXCEPT ![p] = {}]
    BY DEF Erase
  <1>2. row'[p] = NoRow /\ revs'[p] = {} /\ saved'[p] = {} /\ glossed'[p] = {}
    BY <1>1 DEF TypeInv, PagesOK
  <1>3. PageOf(p)'
    BY <1>2 DEF PageOf
  <1>4. Later(p)
    BY <1>2, NoRowType DEF Later
  <1>5. ASSUME NEW q \in Pages, q # p PROVE PageOf(q)' /\ Later(q)
    <2>1. SameVersion(q) /\ revs'[q] = revs[q] /\ saved'[q] = saved[q] /\ glossed'[q] = glossed[q]
      BY <1>1, <1>5 DEF SameVersion, TypeInv, PagesOK
    <2> QED  BY <2>1, PageSame DEF HistoryInv
  <1>6. ReadJob(job'[w], row', glossed')
    BY IdleReads
  <1> QED  BY <1>3, <1>4, <1>5, <1>6 DEF HistoryStep

LEMMA HistoryInit == Init => HistoryInv
  <1> SUFFICES ASSUME Init PROVE HistoryInv
    OBVIOUS
  <1>1. \A p \in Pages : PageOf(p)
    BY DEF Init, PageOf
  <1>2. \A w \in Writers : job[w] = NoJob
    BY DEF Init
  <1>3. \A w \in Writers : ReadJob(job[w], row, glossed)
    BY <1>2, NoJobType, ReadNone
  <1> QED  BY <1>1, <1>3 DEF HistoryInv

LEMMA HistoryNext ==
    ASSUME TypeInv, TypeInv', HistoryInv, [Next]_vars
    PROVE  HistoryInv'
  <1>1. ASSUME NEW w \in Writers, JobStep(w), HistoryStep(w) PROVE HistoryInv'
    <2>1. \A v \in Writers : ReadJob(job'[v], row', glossed')
      BY <1>1, ReadsStep DEF HistoryStep
    <2> QED  BY <1>1, <2>1 DEF HistoryInv, HistoryStep
  <1>2. ASSUME NEW w \in Writers,
               \/ Reduce(w) \/ Request(w) \/ Clean(w) \/ GiveUp(w) \/ Crash(w)
               \/ Enter(w) \/ EnterUnlocked(w) \/ Unlock(w)
               \/ GenerationFails(w) \/ NotFound(w) \/ LinkRead(w) \/ Linked(w) \/ Drop(w) \/ Publish(w)
        PROVE  HistoryInv'
    <2>1. JobStep(w) /\ ReadJob(job'[w], row', glossed')
      BY <1>2, Coming, Locking, Deciding, LinkReading, Ending, IdleReads
    <2>2. UNCHANGED <<row, revs, saved, glossed>>
      BY <1>2 DEF Reduce, Request, Clean, Comes, GiveUp, Crash, Enter, EnterUnlocked, Unlock, GenerationFails,
                  NotFound, LinkRead, Linked, Drop, Publish, Rests, pages, ghosts
    <2>3. \A p \in Pages : SameVersion(p)
      BY <2>2 DEF SameVersion
    <2> QED  BY <1>1, <2>1, <2>2, <2>3, QuietHistory DEF HistoryStep
  <1>3. ASSUME NEW w \in Writers, Read(w) \/ Update(w) PROVE HistoryInv'
    <2>1. JobStep(w) /\ ReadJob(job'[w], row, glossed) /\ Rests
      BY <1>3, Reading, Updating, ReadReads, UpdateReads DEF Read, Update
    <2>2. UNCHANGED <<row, glossed>>
      BY <2>1 DEF Rests, pages
    <2> QED  BY <1>1, <2>1, <2>2, RestsHistory DEF HistoryStep
  <1>4. ASSUME NEW w \in Writers, TakeOut(w) \/ LinkWrite(w) \/ Flip(w) PROVE HistoryInv'
    <2>1. JobStep(w) /\ ReadJob(job'[w], row', glossed')
      BY <1>4, LinkWriting, Ending, IdleReads
    <2>2. UNCHANGED <<revs, saved, glossed>> /\ \A p \in Pages : SameVersion(p)
      BY <1>4, MetaPages
    <2> QED  BY <1>1, <2>1, <2>2, QuietHistory DEF HistoryStep
  <1>5. ASSUME NEW w \in Writers,
               Create(w) \/ SaveVersion(w) \/ SaveMeta(w) \/ SaveGloss(w) \/ Prune(w) \/ Erase(w)
        PROVE  HistoryInv'
    <2>1. JobStep(w)
      BY <1>5, Creating, Saving, Ending
    <2>2. HistoryStep(w)
      BY <1>5, CreateHistory, SaveVersionHistory, SaveMetaHistory, SaveGlossHistory, PruneHistory,
         EraseHistory
    <2> QED  BY <1>1, <2>1, <2>2
  <1>6. CASE (\E p \in Pages : Expire(p)) \/ UNCHANGED vars
    <2>1. UNCHANGED <<row, revs, saved, glossed, job>>
      BY <1>6 DEF Expire, Rests, vars, pages, ghosts
    <2> QED  BY <2>1 DEF HistoryInv, PageOf, Found
  <1> QED  BY <1>2, <1>3, <1>4, <1>5, <1>6 DEF Next

\* Whatever a versioned write has stored is on the page or in its history, as
\* the version it was stored as, until it may be pruned or a decorator has
\* written over it: no interleaving of writers loses a version.
THEOREM HistoryKept == Spec => []HistoryExact
  <1>1. TypeInv /\ TypeInv' /\ HistoryInv /\ [Next]_vars => HistoryInv'
    BY HistoryNext
  <1>2. HistoryInv => HistoryExact
    BY DEF HistoryInv, PageOf, Found, HistoryExact
  <1> QED  BY <1>1, <1>2, HistoryInit, TypeAlways, PTL DEF Spec

-----------------------------------------------------------------------------
(* What the reduces have written stays.                                    *)

\* Nothing has happened to a page that may cost it a text, or a source.
TextCalm(p) == blame[p] \cap {"lock", "edit", "gloss", "erase"} = {}
RefsCalm(p) == blame[p] \cap {"lock", "edit", "meta", "erase"} = {}

Alone(p) == "lock" \notin blame[p] => \A u, v \in Inside(p) : u = v

(***************************************************************************)
(* A page has what its reduces have merged, and so has the copy that the   *)
(* one reduce at work has made and will write: nobody but itself adds to   *)
(* what is merged until it has written.                                    *)
(***************************************************************************)
Kept(p) ==
    /\ glossed[p] # {} => "gloss" \in blame[p]
    /\ Alone(p)
    /\ TextCalm(p) =>
          /\ merged[p] \subseteq row[p].text.docs
          /\ row[p].id = 0 => merged[p] = {}
          /\ \A w \in Inside(p) : job[w].pc \in {"think", "save"} => merged[p] \subseteq job[w].copy.text.docs
    /\ RefsCalm(p) =>
          /\ merged[p] \ gone \subseteq row[p].refs
          /\ row[p].id = 0 => merged[p] \ gone = {}
          /\ \A w \in Inside(p) : job[w].pc \in {"think", "save"} => merged[p] \ gone \subseteq job[w].copy.refs

\* Who writes, what a reduce will write, and for whom a page is cleaned.
Writing(j, g) ==
    /\ j.pc = "read" => j.kind \in Reduces \cup Edits \cup {"gloss", "clean"}
    /\ j.pc \in {"think", "save"} => j.kind \in Reduces \cup Edits \cup {"gloss"}
    /\ j.kind = "clean" => j.doc \in g
    /\ j.pc = "save" /\ j.kind = "add" => j.text.docs = j.copy.text.docs \cup {j.doc}
    /\ j.pc = "save" /\ j.kind = "retract" => j.text.docs = j.copy.text.docs \ {j.doc}

KeptInv == (\A p \in Pages : Kept(p)) /\ \A w \in Writers : Writing(job[w], gone)

LEMMA DoneWriting ==
    ASSUME NEW j, j.pc \in Done \cup {"prune"}, NEW g, j.kind = "clean" => j.doc \in g
    PROVE  Writing(j, g)
  BY DEF Writing, Done

\* Documents do not come back.
LEMMA GoneGrows ==
    ASSUME [Next]_vars
    PROVE  gone \subseteq gone'
  <1>1. ASSUME NEW w \in Writers,
               \/ Read(w) \/ TakeOut(w) \/ GenerationFails(w) \/ Update(w) \/ NotFound(w) \/ Create(w)
               \/ SaveVersion(w) \/ SaveMeta(w) \/ Prune(w) \/ SaveGloss(w) \/ LinkRead(w) \/ LinkWrite(w)
               \/ Linked(w) \/ Drop(w) \/ Erase(w) \/ Publish(w) \/ Flip(w) \/ GiveUp(w)
        PROVE  gone \subseteq gone'
    <2>1. Quiet
      BY <1>1 DEF Read, TakeOut, GenerationFails, Update, NotFound, Create, SaveVersion, SaveMeta, Prune,
                  SaveGloss, LinkRead, LinkWrite, Linked, Drop, Erase, Publish, Flip, GiveUp
    <2> QED  BY <2>1 DEF Quiet
  <1>2. ASSUME NEW w \in Writers,
               \/ Reduce(w) \/ Request(w) \/ Enter(w) \/ EnterUnlocked(w) \/ Unlock(w) \/ Crash(w)
        PROVE  gone \subseteq gone'
    BY <1>2 DEF Reduce, Request, Enter, EnterUnlocked, Unlock, Crash
  <1>3. ASSUME NEW w \in Writers, Clean(w) PROVE gone \subseteq gone'
    BY <1>3 DEF Clean
  <1>4. ASSUME NEW p \in Pages, Expire(p) PROVE gone \subseteq gone'
    BY <1>4 DEF Expire
  <1>5. CASE UNCHANGED vars
    BY <1>5 DEF vars
  <1> QED  BY <1>1, <1>2, <1>3, <1>4, <1>5 DEF Next

LEMMA BlameGrows ==
    ASSUME TypeInv, NEW p \in Pages, NEW q \in Pages, NEW what, NEW is, Blames(q, what, is)
    PROVE  blame[p] \subseteq blame'[p] /\ (p = q /\ is => what \in blame'[p])
  BY DEF Blames, TypeInv, RestOK

\* What the words of a reduce say.
LEMMA WrittenDocs ==
    ASSUME TypeInv, NEW w \in Writers, NEW t \in Written(w)
    PROVE  /\ job[w].kind = "add" => t.text.docs = job[w].copy.text.docs \cup {job[w].doc}
           /\ job[w].kind = "retract" => t.text.docs = job[w].copy.text.docs \ {job[w].doc}
  <1> DEFINE j == job[w]
  <1>1. CASE j.kind = "add"
    <2> DEFINE docs == j.copy.text.docs \cup {j.doc}
    <2>1. PICK u \in {[docs |-> docs, by |-> j.n]} \cup {u \in {j.copy.text} : j.copy.id # 0 /\ u.docs = docs} :
             t = [text |-> u, draft |-> j.copy.draft]
      BY <1>1 DEF Written
    <2> QED  BY <1>1, <2>1
  <1>2. CASE j.kind = "retract"
    <2> DEFINE docs == j.copy.text.docs \ {j.doc}
    <2>1. PICK u \in {[docs |-> docs, by |-> j.n]} \cup {u \in {j.copy.text} : j.copy.id # 0 /\ u.docs = docs} :
             t = [text |-> u, draft |-> j.copy.draft]
      BY <1>2 DEF Written
    <2> QED  BY <1>2, <2>1
  <1> QED  BY <1>1, <1>2

\* What a page owes after a write, and its sources, by who writes.
LEMMA MergedBy ==
    ASSUME NEW w \in Writers, NEW text
    PROVE  /\ job[w].kind = "add" => Merged(w, text) = merged[job[w].page] \cup {job[w].doc}
           /\ job[w].kind = "retract" => Merged(w, text) = merged[job[w].page] \ {job[w].doc}
           /\ job[w].kind \notin Reduces =>
                 /\ Merged(w, text) \subseteq merged[job[w].page]
                 /\ ~Stale(w) => Merged(w, text) \subseteq text.docs
  <1>1. CASE job[w].kind = "add"
    BY <1>1 DEF Merged, Reduces
  <1>2. CASE job[w].kind = "retract"
    BY <1>2 DEF Merged, Reduces
  <1>3. CASE job[w].kind \notin Reduces
    BY <1>3 DEF Merged, Reduces
  <1> QED  BY <1>1, <1>2, <1>3 DEF Reduces

LEMMA RefsBy ==
    ASSUME NEW w \in Writers
    PROVE  /\ job[w].kind = "add" => Refs(w) = job[w].copy.refs \cup {job[w].doc}
           /\ job[w].kind \in {"retract", "clean"} => Refs(w) = job[w].copy.refs \ {job[w].doc}
           /\ job[w].kind \in Edits => Refs(w) = job[w].copy.refs
  BY DEF Refs, Edits

\* What a writer of an existing page has copied: nothing new, or the page as it is.
Copies(w) ==
    job'[w].kind \in Reduces /\ job'[w].pc \in {"think", "save"} =>
        \/ /\ job[w].pc \in {"think", "save"}
           /\ job'[w].copy.text = job[w].copy.text /\ job'[w].copy.refs = job[w].copy.refs
        \/ job'[w].copy = row[job[w].page]

LEMMA EveryCopies ==
    ASSUME TypeInv, NEW w \in Writers,
           \/ Reduce(w) \/ Request(w) \/ Clean(w) \/ GiveUp(w) \/ Crash(w) \/ Unlock(w)
           \/ Read(w) \/ GenerationFails(w) \/ Update(w) \/ NotFound(w) \/ Create(w)
           \/ SaveVersion(w) \/ SaveMeta(w) \/ SaveGloss(w) \/ Prune(w)
           \/ LinkRead(w) \/ LinkWrite(w) \/ Linked(w)
           \/ Drop(w) \/ Erase(w) \/ Publish(w) \/ Flip(w) \/ TakeOut(w)
    PROVE  /\ Copies(w)
           /\ Create(w) \/ SaveVersion(w) \/ SaveMeta(w) \/ SaveGloss(w) => job'[w].pc \in Done \cup {"prune"}
  <1>1. job[w] \in Jobs /\ GoodJob(job[w], born) /\ w \in DOMAIN job
    BY JobOf DEF TypeInv, JobsOK
  <1>2. CASE Read(w)
    <2>1. \/ Leaves(w)
          \/ job'[w].pc \in {"drop", "meta"}
          \/ job'[w] = [job[w] EXCEPT !.pc = "think", !.copy = row[job[w].page], !.wrote = TRUE]
      BY <1>1, <1>2 DEF Read, Leaves, Jobs
    <2>2. Leaves(w) => job'[w].pc \in Done
      BY <1>2, LeavesDone DEF Read, At, Section
    <2>3. Copies(w)
      BY <1>1, <2>1, <2>2 DEF Copies, Jobs, Done
    <2> QED  BY <1>1, <1>2, <2>3 DEF Read, Create, SaveVersion, SaveMeta, SaveGloss, Saves, At
  <1>3. CASE Update(w)
    <2>1. job[w].pc = "think" /\ w \in Writers
      BY <1>3 DEF Update, At
    <2>2. CASE Leaves(w)
      BY <1>1, <1>3, <2>1, <2>2, LeavesDone DEF Copies, Done, Section, Create, SaveVersion, SaveMeta, SaveGloss,
         Saves, At
    <2>3. CASE ~Leaves(w)
      <3>1. PICK t \in Written(w) :
               job' = [job EXCEPT ![w].pc = "save", ![w].cur = row[job[w].page], ![w].text = t.text,
                                  ![w].copy.draft = t.draft]
        BY <1>3, <2>3 DEF Update
      <3>2. job[w].copy \in Rows
        BY <1>1, JobFields
      <3>3. job'[w].copy.text = job[w].copy.text /\ job'[w].copy.refs = job[w].copy.refs
        BY <1>1, <3>1, <3>2 DEF Jobs, Rows
      <3>4. ~Create(w)
        BY <1>3 DEF Create, Update
      <3> QED  BY <2>1, <3>3, <3>4 DEF Copies, SaveVersion, SaveMeta, SaveGloss, Saves, At
    <2> QED  BY <2>2, <2>3
  <1>4. CASE Create(w) \/ SaveVersion(w) \/ SaveMeta(w) \/ SaveGloss(w)
    <2>1. job[w].pc \in {"think", "save"}
      BY <1>4 DEF Create, SaveVersion, SaveMeta, SaveGloss, Saves, At
    <2>2. Leaves(w) => job'[w].pc \in Done
      BY <2>1, LeavesDone DEF Section
    <2>3. Linking(w) => job'[w].pc = "links"
      BY <1>1 DEF Linking, Jobs
    <2>4. job' = [job EXCEPT ![w] = [@ EXCEPT !.pc = "links", !.add = Links[job[w].page], !.text = NoText]]
             => job'[w].pc = "links"
      BY <1>1 DEF Jobs
    <2>5. job' = [job EXCEPT ![w].pc = "prune", ![w].copy = NoRow, ![w].text = NoText] => job'[w].pc = "prune"
      BY <1>1 DEF Jobs
    <2>6. job'[w].pc \in Done \cup {"prune"}
      <3>1. "links" \in Done
        BY DEF Done, Pcs, Section
      <3> QED  BY <1>4, <2>2, <2>3, <2>4, <2>5, <3>1 DEF Create, SaveVersion, SaveMeta, SaveGloss
    <2> QED  BY <2>6 DEF Copies, Done
  <1>5. CASE Reduce(w) \/ Request(w) \/ Clean(w)
    <2>1. job[w].pc = "idle" /\ job'[w].pc \notin {"think", "save"}
      BY <1>5, FirstSteps DEF Reduce, Request, Clean, Comes, At
    <2> QED  BY <2>1 DEF Copies, Create, SaveVersion, SaveMeta, SaveGloss, Saves, At
  <1>6. CASE \/ GiveUp(w) \/ Crash(w) \/ Unlock(w) \/ GenerationFails(w) \/ NotFound(w)
             \/ Prune(w) \/ LinkRead(w) \/ LinkWrite(w) \/ Linked(w)
             \/ Drop(w) \/ Erase(w) \/ Publish(w) \/ Flip(w) \/ TakeOut(w)
    BY <1>6, DoneSteps DEF Copies, Done
  <1> QED  BY <1>2, <1>3, <1>4, <1>5, <1>6

\* Nobody comes in: who is inside was, and what it has copied it had, or has just read.
LEMMA InsideStays ==
    ASSUME TypeInv, NEW w \in Writers, JobStep(w), Keeps(w), Copies(w), NEW p \in Pages
    PROVE  /\ Inside(p)' \subseteq Inside(p)
           /\ \A v \in Inside(p)' : job'[v].pc \in {"think", "save"} =>
                 \/ /\ job[v].pc \in {"think", "save"}
                    /\ job'[v].copy.text = job[v].copy.text /\ job'[v].copy.refs = job[v].copy.refs
                 \/ job'[v].copy = row[p]
  <1>1. PICK j : job' = [job EXCEPT ![w] = j]
    BY DEF JobStep
  <1>2. /\ Inside(p)' = (Inside(p) \ {w}) \cup
              (IF j.kind \in Reduces /\ j.page = p /\ j.pc \in Section THEN {w} ELSE {})
        /\ \A v \in Writers \ {w} : job'[v] = job[v]
        /\ job'[w] = j
    BY <1>1, InsideOf
  <1>3. w \in Inside(p)' => w \in Inside(p) /\ job[w].page = p /\ job'[w].kind \in Reduces
    BY <1>2 DEF Inside, Keeps
  <1>4. Inside(p)' \subseteq Inside(p) /\ Inside(p) \subseteq Writers
    BY <1>2, <1>3 DEF Inside
  <1> QED  BY <1>2, <1>3, <1>4 DEF Copies

\* What a step owes to a page.
Owed(p) ==
    /\ blame[p] \subseteq blame'[p]
    /\ glossed'[p] # {} => glossed[p] # {} \/ "gloss" \in blame'[p]
    /\ merged'[p] \subseteq merged[p] \/ \E w \in Inside(p)' : job'[w].pc \notin {"think", "save"}
    /\ TextCalm(p)' => /\ merged'[p] \subseteq row'[p].text.docs
                       /\ row'[p].id = 0 => merged'[p] = {}
    /\ RefsCalm(p)' => /\ merged'[p] \ gone' \subseteq row'[p].refs
                       /\ row'[p].id = 0 => merged'[p] \ gone' = {}

LEMMA KeptOf ==
    ASSUME TypeInv, NEW p \in Pages, Kept(p), Owed(p), gone \subseteq gone',
           NEW w \in Writers, JobStep(w), Keeps(w), Copies(w)
    PROVE  Kept(p)'
  <1>1. /\ Inside(p)' \subseteq Inside(p)
        /\ \A v \in Inside(p)' : job'[v].pc \in {"think", "save"} =>
              \/ /\ job[v].pc \in {"think", "save"}
                 /\ job'[v].copy.text = job[v].copy.text /\ job'[v].copy.refs = job[v].copy.refs
              \/ job'[v].copy = row[p]
    BY InsideStays
  <1>2. Alone(p)'
    BY <1>1 DEF Alone, Kept, Owed
  <1>3. ASSUME TextCalm(p)', NEW v \in Inside(p)', job'[v].pc \in {"think", "save"}
        PROVE  merged'[p] \subseteq job'[v].copy.text.docs
    <2>1. TextCalm(p) /\ "lock" \notin blame'[p]
      BY <1>3 DEF TextCalm, Owed
    <2>2. merged'[p] \subseteq merged[p]
      BY <1>2, <1>3, <2>1 DEF Alone, Owed
    <2> QED  BY <1>1, <1>3, <2>1, <2>2 DEF Kept
  <1>4. ASSUME RefsCalm(p)', NEW v \in Inside(p)', job'[v].pc \in {"think", "save"}
        PROVE  merged'[p] \ gone' \subseteq job'[v].copy.refs
    <2>1. RefsCalm(p) /\ "lock" \notin blame'[p]
      BY <1>4 DEF RefsCalm, Owed
    <2>2. merged'[p] \subseteq merged[p]
      BY <1>2, <1>4, <2>1 DEF Alone, Owed
    <2>3. merged[p] \ gone \subseteq job'[v].copy.refs
      BY <1>1, <1>4, <2>1 DEF Kept
    <2> QED  BY <2>2, <2>3
  <1> QED  BY <1>2, <1>3, <1>4 DEF Kept, Owed

\* A page that is as it was.
LEMMA OwedSame ==
    ASSUME TypeInv, NEW p \in Pages, Kept(p), gone \subseteq gone', blame[p] \subseteq blame'[p],
           glossed'[p] = glossed[p], merged'[p] = merged[p], row'[p].id = row[p].id,
           row'[p].text = row[p].text, RefsCalm(p)' => row'[p].refs = row[p].refs
    PROVE  Owed(p)
  <1>1. TextCalm(p)' => TextCalm(p)
    BY DEF TextCalm
  <1>2. RefsCalm(p)' => RefsCalm(p)
    BY DEF RefsCalm
  <1> QED  BY <1>1, <1>2 DEF Owed, Kept

LEMMA OwedRest ==
    ASSUME TypeInv, KeptInv, gone \subseteq gone', UNCHANGED <<row, glossed, merged, blame>>
    PROVE  \A p \in Pages : Owed(p)
  BY OwedSame DEF KeptInv

\* A write of bookkeeping leaves the sources that it has read, or is blamed; the deletion of
\* a document takes out that document.
LEMMA MetaOwed ==
    ASSUME TypeInv, KeptInv, NEW q \in Pages, NEW read \in Rows, NEW new \in Rows, MetaWrite(q, read, new),
           new.id = read.id, read.refs \ gone \subseteq new.refs,
           UNCHANGED <<revs, saved, glossed, merged, gone>>
    PROVE  \A p \in Pages : Owed(p)
  <1> SUFFICES ASSUME NEW p \in Pages PROVE Owed(p)
    OBVIOUS
  <1>1. blame[p] \subseteq blame'[p]
        /\ (p = q /\ row[p].id = read.id /\ row[p].refs # read.refs => "meta" \in blame'[p])
    <2>1. Blames(q, "meta", row[q].id = read.id /\ row[q].refs # read.refs)
      BY DEF MetaWrite
    <2> QED  BY <2>1, BlameGrows
  <1>2. SameVersion(p)
    BY MetaGood
  <1>3. row[p] \in Rows
    BY RowOf
  <1>4. RefsCalm(p)' => merged[p] \ gone \subseteq row'[p].refs
    <2> SUFFICES ASSUME RefsCalm(p)' PROVE merged[p] \ gone \subseteq row'[p].refs
      OBVIOUS
    <2>1. merged[p] \ gone \subseteq row[p].refs
      BY <1>1 DEF RefsCalm, KeptInv, Kept
    <2>2. CASE row'[p] = row[p]
      BY <2>1, <2>2
    <2>3. CASE row'[p] # row[p]
      <3>1. /\ p = q /\ row[p].id = new.id
            /\ row' = [row EXCEPT ![q].refs = new.refs, ![q].draft = new.draft, ![q].inl = new.inl]
        BY <2>3 DEF MetaWrite, TypeInv, PagesOK
      <3>2. row'[p].refs = new.refs
        BY <1>3, <3>1 DEF Rows, TypeInv, PagesOK
      <3>3. row[p].refs = read.refs
        BY <1>1, <3>1 DEF RefsCalm
      <3> QED  BY <2>1, <3>2, <3>3
    <2> QED  BY <2>2, <2>3
  <1>5. TextCalm(p)' => merged[p] \subseteq row'[p].text.docs
    BY <1>1, <1>2 DEF TextCalm, KeptInv, Kept, SameVersion
  <1>6. (TextCalm(p)' => TextCalm(p)) /\ (RefsCalm(p)' => RefsCalm(p))
    BY <1>1 DEF TextCalm, RefsCalm
  <1> QED  BY <1>1, <1>2, <1>4, <1>5, <1>6 DEF Owed, KeptInv, Kept, SameVersion

LEMMA BookkeepingOwed ==
    ASSUME TypeInv, KeptInv, NEW w \in Writers, TakeOut(w) \/ LinkWrite(w) \/ Flip(w)
    PROVE  \A p \in Pages : Owed(p)
  <1>1. job[w] \in Jobs /\ GoodJob(job[w], born) /\ Writing(job[w], gone)
    BY JobOf DEF KeptInv
  <1>2. UNCHANGED <<revs, saved, glossed, merged, gone>>
    BY DEF TakeOut, LinkWrite, Flip, Quiet
  <1>3. CASE TakeOut(w)
    <2> DEFINE r == job[w].copy
               n == [r EXCEPT !.refs = Refs(w)]
    <2>1. job[w].pc = "meta" /\ job[w].page \in Pages /\ r \in Rows /\ job[w].kind \notin Reduces
      BY <1>1, <1>3, JobFields DEF TakeOut, At, GoodJob
    <2>2. n \in Rows /\ n.id = r.id /\ n.refs = Refs(w)
      BY <2>1, RefsType DEF Rows
    <2>3. r.refs \ gone \subseteq Refs(w)
      BY <1>1, <2>1 DEF Refs, Writing, Reduces
    <2>4. MetaWrite(job[w].page, r, n)
      BY <1>3 DEF TakeOut
    <2> HIDE DEF n
    <2> QED  BY <1>2, <2>1, <2>2, <2>3, <2>4, MetaOwed
  <1>4. CASE LinkWrite(w)
    <2> DEFINE t == job[w].target
               r == job[w].seen
               inl == IF t \in job[w].del THEN r.inl \ {job[w].page} ELSE r.inl \cup {job[w].page}
               n == [r EXCEPT !.inl = inl]
    <2>1. job[w].pc = "link" /\ job[w].page \in Pages /\ r \in Rows /\ t \in Pages
      BY <1>1, <1>4, JobFields DEF LinkWrite, At, GoodJob
    <2>2. inl \subseteq Pages
      BY <2>1, RowFields
    <2>3. n \in Rows /\ n.id = r.id /\ n.refs = r.refs
      BY <2>1, <2>2 DEF Rows
    <2>4. MetaWrite(t, r, n)
      BY <1>4 DEF LinkWrite
    <2> HIDE DEF n
    <2> QED  BY <1>2, <2>1, <2>3, <2>4, MetaOwed
  <1>5. CASE Flip(w)
    <2> DEFINE r == job[w].seen
               n == [r EXCEPT !.draft = FALSE]
    <2>1. job[w].pc = "flip" /\ job[w].page \in Pages /\ r \in Rows
      BY <1>1, <1>5, JobFields DEF Flip, At, GoodJob
    <2>2. n \in Rows /\ n.id = r.id /\ n.refs = r.refs
      BY <2>1 DEF Rows
    <2>3. MetaWrite(job[w].page, r, n)
      BY <1>5 DEF Flip
    <2> HIDE DEF n
    <2> QED  BY <1>2, <2>1, <2>2, <2>3, MetaOwed
  <1> QED  BY <1>3, <1>4, <1>5

\* Who stays inside when it goes on.
LEMMA StaysInside ==
    ASSUME TypeInv, NEW w \in Writers, job[w].kind \in Reduces, job[w].page \in Pages,
           job'[w].kind = job[w].kind, job'[w].page = job[w].page, job'[w].pc \in Section \ {"think", "save"}
    PROVE  \E v \in Inside(job[w].page)' : job'[v].pc \notin {"think", "save"}
  <1>1. w \in Inside(job[w].page)'
    BY DEF Inside
  <1> QED  BY <1>1

LEMMA CreateOwed ==
    ASSUME TypeInv, KeptInv, NEW w \in Writers, Create(w)
    PROVE  \A p \in Pages : Owed(p)
  <1>0. job[w].page \in Pages
    BY JobOf DEF Create, At, GoodJob
  <1> SUFFICES ASSUME NEW q \in Pages, q = job[w].page PROVE \A p \in Pages : Owed(p)
    BY <1>0
  <1>1. job[w] \in Jobs /\ GoodJob(job[w], born) /\ w \in DOMAIN job /\ job[w].pc = "think"
        /\ q \in Pages /\ born \in Nat /\ UNCHANGED <<gone, glossed, blame>>
    BY JobOf DEF Create, At, TypeInv, JobsOK, GoodJob, PagesOK, Quiet, Rests
  <1>2. CASE Exists(q)
    BY <1>1, <1>2, OwedRest DEF Create, Rests, pages
  <1>3. CASE ~Exists(q)
    <2>1. PICK t \in Written(w) :
            LET r == [NoRow EXCEPT !.id = born + 1, !.version = 1, !.text = t.text,
                                   !.refs = Refs(w), !.draft = job[w].kind = "add", !.src = Source(w)] IN
            row' = [row EXCEPT ![q] = r] /\ merged' = [merged EXCEPT ![q] = Merged(w, t.text)]
      BY <1>3 DEF Create
    <2> DEFINE r == [NoRow EXCEPT !.id = born + 1, !.version = 1, !.text = t.text,
                                  !.refs = Refs(w), !.draft = job[w].kind = "add", !.src = Source(w)]
    <2>2. r.id = born + 1 /\ r.text = t.text /\ r.refs = Refs(w)
      BY DEF NoRow
    <2> HIDE DEF r
    <2>3. row' = [row EXCEPT ![q] = r] /\ merged' = [merged EXCEPT ![q] = Merged(w, t.text)]
      BY <2>1 DEF r
    <2>4. /\ row'[q] = r /\ merged'[q] = Merged(w, t.text)
          /\ TextCalm(q) => merged[q] = {}
          /\ RefsCalm(q) => merged[q] \ gone = {}
      BY <1>1, <1>3, <2>3 DEF TypeInv, PagesOK, KeptInv, Kept, Exists
    <2>5. Owed(q)
      <3>1. merged'[q] \subseteq merged[q] \cup (IF job[w].kind = "add" THEN {job[w].doc} ELSE {})
        BY <2>4, MergedBy DEF Reduces
      <3>2. job[w].kind = "add" => job[w].doc \in t.text.docs /\ job[w].doc \in Refs(w)
        BY WrittenDocs DEF Refs
      <3>3. job[w].kind = "add" => \E v \in Inside(q)' : job'[v].pc \notin {"think", "save"}
        <4>1. job'[w] = [job[w] EXCEPT !.pc = "links", !.add = Links[q], !.text = NoText]
          BY <1>1, <1>3 DEF Create
        <4>2. job'[w].kind = job[w].kind /\ job'[w].page = q /\ job'[w].pc = "links"
          BY <1>1, <4>1 DEF Jobs
        <4> QED  BY <1>1, <4>2, StaysInside DEF Section, Reduces
      <3>4. row'[q].id # 0
        BY <1>1, <2>2, <2>4
      <3>5. TextCalm(q)' = TextCalm(q) /\ RefsCalm(q)' = RefsCalm(q)
        BY <1>1 DEF TextCalm, RefsCalm
      <3> QED  BY <1>1, <2>2, <2>4, <3>1, <3>2, <3>3, <3>4, <3>5 DEF Owed
    <2>6. ASSUME NEW p \in Pages, p # q PROVE Owed(p)
      <3>1. row'[p] = row[p] /\ merged'[p] = merged[p]
        BY <2>3, <2>6 DEF TypeInv, PagesOK
      <3> QED  BY <1>1, <3>1, OwedSame DEF KeptInv
    <2> QED  BY <2>5, <2>6
  <1> QED  BY <1>2, <1>3

\* What the page and its sources are when a writer has written them.
LEMMA WriterKeeps ==
    ASSUME TypeInv, KeptInv, NEW w \in Writers, job[w].pc = "save", job[w].kind # "gloss",
           NEW p \in Pages, p = job[w].page,
           NEW M, \/ M = Merged(w, job[w].text)
                  \/ M = (IF job[w].kind = "retract" THEN merged[p] \ {job[w].doc} ELSE merged[p]),
           job[w].kind \in Edits /\ Outdated(w) => "edit" \in blame'[p],
           blame[p] \subseteq blame'[p]
    PROVE  /\ TextCalm(p)' /\ M = Merged(w, job[w].text) => M \subseteq job[w].text.docs
           /\ RefsCalm(p)' => M \ gone \subseteq Refs(w)
           /\ ~(M \subseteq merged[p]) => job[w].kind = "add"
  <1> DEFINE j == job[w]
  <1>1. j \in Jobs /\ Writing(j, gone) /\ j.kind \in Reduces \cup Edits
    BY JobOf DEF KeptInv, Writing
  <1>2. j.kind \in Reduces => w \in Inside(p)
    BY DEF Inside, Section
  <1>3. Kept(p)
    BY DEF KeptInv
  <1>4. ASSUME TextCalm(p)', M = Merged(w, j.text) PROVE M \subseteq j.text.docs
    <2>1. TextCalm(p) /\ ~(j.kind \in Edits /\ Outdated(w))
      BY <1>4 DEF TextCalm
    <2>2. CASE j.kind \in Reduces
      <3>1. merged[p] \subseteq j.copy.text.docs
        BY <1>2, <1>3, <2>1, <2>2 DEF Kept
      <3> QED  BY <1>1, <1>4, <2>2, <3>1, MergedBy DEF Writing, Reduces
    <2>3. CASE j.kind \in Edits
      BY <1>4, <2>1, <2>3, MergedBy DEF Outdated, Edits, Reduces
    <2> QED  BY <1>1, <2>2, <2>3
  <1>5. ASSUME RefsCalm(p)' PROVE M \ gone \subseteq Refs(w)
    <2>1. RefsCalm(p) /\ ~(j.kind \in Edits /\ Outdated(w))
      BY <1>5 DEF RefsCalm
    <2>2. CASE j.kind \in Reduces
      <3>1. merged[p] \ gone \subseteq j.copy.refs
        BY <1>2, <1>3, <2>1, <2>2 DEF Kept
      <3> QED  BY <2>2, <3>1, MergedBy, RefsBy DEF Reduces
    <2>3. CASE j.kind \in Edits
      <3>1. Refs(w) = row[p].refs
        BY <2>1, <2>3, RefsBy DEF Outdated
      <3>2. M \subseteq merged[p]
        BY <2>3, MergedBy DEF Edits, Reduces
      <3> QED  BY <1>3, <2>1, <3>1, <3>2 DEF Kept
    <2> QED  BY <1>1, <2>2, <2>3
  <1>6. ~(M \subseteq merged[p]) => j.kind = "add"
    BY <1>1, MergedBy DEF Edits, Reduces
  <1> QED  BY <1>4, <1>5, <1>6

LEMMA SaveVersionOwed ==
    ASSUME TypeInv, KeptInv, NEW w \in Writers, SaveVersion(w)
    PROVE  \A p \in Pages : Owed(p)
  <1>0. job[w].page \in Pages /\ UNCHANGED gone
    BY JobOf DEF SaveVersion, Saves, At, GoodJob, Quiet
  <1> SUFFICES ASSUME NEW q \in Pages, q = job[w].page PROVE \A p \in Pages : Owed(p)
    BY <1>0
  <1> DEFINE j == job[w]
  <1>1. j \in Jobs /\ GoodJob(j, born) /\ w \in DOMAIN job /\ j.pc = "save" /\ j.kind # "gloss"
    BY JobOf DEF SaveVersion, Saves, At, TypeInv, JobsOK
  <1>2. CASE ~Current(w)
    BY <1>0, <1>2, OwedRest DEF SaveVersion, Rests, pages
  <1>3. CASE Current(w)
    <2> DEFINE v == j.cur.version + 1
               f == Refs(w)
               u == Source(w)
    <2>1. /\ row' = [row EXCEPT ![q].version = v, ![q].text = j.text, ![q].refs = f,
                                ![q].draft = j.copy.draft, ![q].src = u]
          /\ merged' = [merged EXCEPT ![q] = Merged(w, j.text)] /\ glossed' = glossed
          /\ Blames(q, "edit", j.kind \in Edits /\ Outdated(w))
          /\ job' = [job EXCEPT ![w].pc = "prune", ![w].copy = NoRow, ![w].text = NoText]
      BY <1>3 DEF SaveVersion
    <2> HIDE DEF v, u
    <2>2. row[q] \in Rows /\ row[q].id = j.cur.id /\ j.cur.id # 0
      BY <1>1, <1>3, RowOf DEF Current, GoodJob
    <2>3. /\ row'[q].id = row[q].id /\ row'[q].text = j.text /\ row'[q].refs = Refs(w)
          /\ merged'[q] = Merged(w, j.text)
      BY <2>1, <2>2 DEF Rows, TypeInv, PagesOK
    <2> HIDE DEF f
    <2>4. \A p \in Pages : blame[p] \subseteq blame'[p]
      BY <2>1, BlameGrows
    <2>5. j.kind \in Edits /\ Outdated(w) => "edit" \in blame'[q]
      BY <2>1, BlameGrows
    <2>6. /\ TextCalm(q)' => merged'[q] \subseteq j.text.docs
          /\ RefsCalm(q)' => merged'[q] \ gone \subseteq Refs(w)
          /\ ~(merged'[q] \subseteq merged[q]) => j.kind = "add"
      BY <1>1, <2>3, <2>4, <2>5, WriterKeeps
    <2>7. j.kind = "add" => \E x \in Inside(q)' : job'[x].pc \notin {"think", "save"}
      <3>1. job'[w].kind = j.kind /\ job'[w].page = q /\ job'[w].pc = "prune"
        BY <1>1, <2>1 DEF Jobs
      <3> QED  BY <1>1, <3>1, StaysInside DEF Section, Reduces
    <2>8. Owed(q)
      BY <1>0, <2>1, <2>2, <2>3, <2>4, <2>6, <2>7 DEF Owed
    <2>9. ASSUME NEW p \in Pages, p # q PROVE Owed(p)
      <3>1. row'[p] = row[p] /\ merged'[p] = merged[p] /\ glossed'[p] = glossed[p]
        BY <2>1, <2>9 DEF TypeInv, PagesOK
      <3> QED  BY <1>0, <2>4, <3>1, OwedSame DEF KeptInv
    <2> QED  BY <2>8, <2>9
  <1> QED  BY <1>2, <1>3

LEMMA SaveMetaOwed ==
    ASSUME TypeInv, KeptInv, NEW w \in Writers, SaveMeta(w)
    PROVE  \A p \in Pages : Owed(p)
  <1>0. job[w].page \in Pages /\ UNCHANGED gone
    BY JobOf DEF SaveMeta, Saves, At, GoodJob, Quiet
  <1> SUFFICES ASSUME NEW q \in Pages, q = job[w].page PROVE \A p \in Pages : Owed(p)
    BY <1>0
  <1> DEFINE j == job[w]
             M == IF j.kind = "retract" THEN merged[q] \ {j.doc} ELSE merged[q]
  <1>1. j \in Jobs /\ w \in DOMAIN job /\ j.pc = "save" /\ j.kind # "gloss"
    BY JobOf DEF SaveMeta, Saves, At, TypeInv, JobsOK
  <1>2. CASE Rests
    BY <1>0, <1>2, OwedRest DEF Rests, pages
  <1>3. CASE ~Rests
    <2> DEFINE f == Refs(w)
               d == j.copy.draft
               i == j.cur.inl
    <2>1. /\ row' = [row EXCEPT ![q].refs = f, ![q].draft = d, ![q].inl = i]
          /\ merged' = [merged EXCEPT ![q] = M] /\ glossed' = glossed
          /\ Blames(q, "edit", j.kind \in Edits /\ Outdated(w)) /\ Exists(q)
      BY <1>3 DEF SaveMeta
    <2> HIDE DEF d, i, M
    <2>2. row[q] \in Rows /\ row[q].id # 0
      BY <2>1, RowOf DEF Exists
    <2>3. /\ row'[q].id = row[q].id /\ row'[q].text = row[q].text /\ row'[q].refs = Refs(w)
          /\ merged'[q] = M
      BY <2>1, <2>2 DEF Rows, TypeInv, PagesOK
    <2> HIDE DEF f
    <2>4. \A p \in Pages : blame[p] \subseteq blame'[p]
      BY <2>1, BlameGrows
    <2>5. j.kind \in Edits /\ Outdated(w) => "edit" \in blame'[q]
      BY <2>1, BlameGrows
    <2>6. RefsCalm(q)' => M \ gone \subseteq Refs(w)
      BY <1>1, <2>4, <2>5, WriterKeeps DEF M
    <2>7. M \subseteq merged[q]
      BY DEF M
    <2>8. TextCalm(q)' => merged[q] \subseteq row[q].text.docs
      BY <2>4 DEF TextCalm, KeptInv, Kept
    <2>9. Owed(q)
      BY <1>0, <2>1, <2>2, <2>3, <2>4, <2>6, <2>7, <2>8 DEF Owed
    <2>10. ASSUME NEW p \in Pages, p # q PROVE Owed(p)
      <3>1. row'[p] = row[p] /\ merged'[p] = merged[p] /\ glossed'[p] = glossed[p]
        BY <2>1, <2>10 DEF TypeInv, PagesOK
      <3> QED  BY <1>0, <2>4, <3>1, OwedSame DEF KeptInv
    <2> QED  BY <2>9, <2>10
  <1> QED  BY <1>2, <1>3

\* A decorator that is not late writes the text that is there.
LEMMA SaveGlossOwed ==
    ASSUME TypeInv, HistoryInv, KeptInv, NEW w \in Writers, SaveGloss(w)
    PROVE  \A p \in Pages : Owed(p)
  <1>0. job[w].page \in Pages /\ UNCHANGED gone
    BY JobOf DEF SaveGloss, At, GoodJob, Quiet
  <1> SUFFICES ASSUME NEW q \in Pages, q = job[w].page PROVE \A p \in Pages : Owed(p)
    BY <1>0
  <1> DEFINE j == job[w]
             late == j.copy.id # row[q].id \/ j.copy.version # row[q].version
  <1>1. j \in Jobs /\ GoodJob(j, born) /\ j.pc = "save" /\ j.kind = "gloss"
        /\ ReadJob(j, row, glossed) /\ j.text = j.copy.text /\ j.copy.id # 0
    BY JobOf DEF SaveGloss, At, GoodJob, HistoryInv
  <1>2. CASE Rests
    BY <1>0, <1>2, OwedRest DEF Rests, pages
  <1>3. CASE ~Rests
    <2>1. /\ row' = [row EXCEPT ![q].text = j.text] /\ merged' = merged
          /\ glossed' = IF late THEN [glossed EXCEPT ![q] = @ \cup {row[q].version}] ELSE glossed
          /\ Blames(q, "gloss", late)
      BY <1>3 DEF SaveGloss
    <2>2. row[q] \in Rows /\ row[q].version \in Nat /\ row[q].id # 0
      BY <1>3, RowOf, RowFields DEF SaveGloss, Exists
    <2>3. row'[q].id = row[q].id /\ row'[q].text = j.text /\ row'[q].refs = row[q].refs
      BY <2>1, <2>2 DEF Rows, TypeInv, PagesOK
    <2>4. \A p \in Pages : blame[p] \subseteq blame'[p]
      BY <2>1, BlameGrows
    <2>5. late => "gloss" \in blame'[q]
      BY <2>1, BlameGrows
    <2>6. ASSUME late PROVE Owed(q)
      <3>1. "gloss" \in blame'[q] /\ ~TextCalm(q)'
        BY <2>5, <2>6 DEF TextCalm
      <3>2. RefsCalm(q)' => merged[q] \ gone \subseteq row[q].refs
        BY <2>4 DEF RefsCalm, KeptInv, Kept
      <3> QED  BY <1>0, <2>1, <2>2, <2>3, <2>4, <3>1, <3>2 DEF Owed, KeptInv, Kept
    <2>7. ASSUME ~late PROVE Owed(q)
      <3>1. TextCalm(q)' => glossed[q] = {} /\ TextCalm(q)
        BY <2>4 DEF TextCalm, KeptInv, Kept
      <3>2. TextCalm(q)' => j.text = row[q].text
        BY <1>1, <2>2, <2>7, <3>1 DEF ReadJob
      <3>3. TextCalm(q)' => merged[q] \subseteq row'[q].text.docs
        BY <2>3, <3>1, <3>2 DEF KeptInv, Kept
      <3>4. RefsCalm(q)' => merged[q] \ gone \subseteq row[q].refs
        BY <2>4 DEF RefsCalm, KeptInv, Kept
      <3> QED  BY <1>0, <2>1, <2>2, <2>3, <2>4, <2>7, <3>3, <3>4 DEF Owed, KeptInv, Kept
    <2>8. Owed(q)
      BY <2>6, <2>7
    <2>9. ASSUME NEW p \in Pages, p # q PROVE Owed(p)
      <3>1. row'[p] = row[p] /\ merged'[p] = merged[p] /\ glossed'[p] = glossed[p]
        BY <2>1, <2>9 DEF TypeInv, PagesOK
      <3> QED  BY <1>0, <2>4, <3>1, OwedSame DEF KeptInv
    <2> QED  BY <2>8, <2>9
  <1> QED  BY <1>2, <1>3

\* A page that is erased for its last source owes no other document anything; who erases it
\* for what it said before is blamed.
LEMMA EraseOwed ==
    ASSUME TypeInv, KeptInv, NEW w \in Writers, Erase(w)
    PROVE  \A p \in Pages : Owed(p)
  <1>0. job[w].page \in Pages
    BY JobOf DEF Erase, At, GoodJob
  <1> SUFFICES ASSUME NEW q \in Pages, q = job[w].page PROVE \A p \in Pages : Owed(p)
    BY <1>0
  <1> DEFINE M == IF job[w].kind = "clean" THEN merged[q] \ gone ELSE {}
  <1>1. /\ row' = [row EXCEPT ![q] = NoRow] /\ glossed' = [glossed EXCEPT ![q] = {}]
        /\ merged' = [merged EXCEPT ![q] = M] /\ UNCHANGED gone
        /\ Blames(q, "erase", Hasty(w))
    BY DEF Erase, Quiet
  <1>2. \A p \in Pages : blame[p] \subseteq blame'[p]
    BY <1>1, BlameGrows
  <1>3. Hasty(w) => "erase" \in blame'[q]
    BY <1>1, BlameGrows
  <1>4. job[w].kind = "clean" => job[w].doc \in gone
    BY DEF KeptInv, Writing
  <1>5. ASSUME TextCalm(q)' \/ RefsCalm(q)' PROVE M = {}
    <2> SUFFICES ASSUME job[w].kind = "clean" PROVE merged[q] \ gone = {}
      OBVIOUS
    <2>1. ~Hasty(w) /\ blame[q] \cap {"lock", "edit", "erase"} = {}
      BY <1>2, <1>3, <1>5 DEF TextCalm, RefsCalm
    <2>2. CASE Exists(q)
      <3>1. row[q].refs = {job[w].doc} /\ "meta" \notin blame[q]
        BY <2>1, <2>2 DEF Hasty
      <3>2. merged[q] \ gone \subseteq row[q].refs
        BY <2>1, <3>1 DEF RefsCalm, KeptInv, Kept
      <3> QED  BY <1>4, <3>1, <3>2
    <2>3. CASE ~Exists(q)
      <3>1. TextCalm(q) \/ RefsCalm(q)
        BY <1>2, <1>5 DEF TextCalm, RefsCalm
      <3> QED  BY <2>3, <3>1 DEF Exists, KeptInv, Kept
    <2> QED  BY <2>2, <2>3
  <1>6. M \subseteq merged[q]
    OBVIOUS
  <1> HIDE DEF M
  <1>7. Owed(q)
    <2>1. glossed'[q] = {} /\ merged'[q] = M
      BY <1>1 DEF TypeInv, PagesOK
    <2> QED  BY <1>2, <1>5, <1>6, <2>1 DEF Owed
  <1>8. ASSUME NEW p \in Pages, p # q PROVE Owed(p)
    <2>1. row'[p] = row[p] /\ merged'[p] = merged[p] /\ glossed'[p] = glossed[p]
      BY <1>1, <1>8 DEF TypeInv, PagesOK
    <2> QED  BY <1>1, <1>2, <2>1, OwedSame DEF KeptInv
  <1> QED  BY <1>7, <1>8

\* Whoever is let in beside another is blamed on the lock, and has read nothing yet.
LEMMA EnterKept ==
    ASSUME TypeInv, KeptInv, NEW w \in Writers, Enter(w) \/ EnterUnlocked(w)
    PROVE  \A p \in Pages : Kept(p)'
  <1> SUFFICES ASSUME NEW p \in Pages PROVE Kept(p)'
    OBVIOUS
  <1>1. /\ job'[w].pc = "read" /\ job'[w].kind = job[w].kind /\ job'[w].page = job[w].page
        /\ \A v \in Writers \ {w} : job'[v] = job[v]
        /\ job[w].kind \in Reduces /\ job[w].page \in Pages /\ job[w].pc = "wait"
    BY FirstSteps
  <1>2. /\ UNCHANGED <<row, glossed, merged, gone>>
        /\ Blames(job[w].page, "lock", Inside(job[w].page) # {})
    BY DEF Enter, EnterUnlocked, pages
  <1>3. Inside(p)' = (IF p = job[w].page THEN Inside(p) \cup {w} ELSE Inside(p)) /\ w \notin Inside(p)
        /\ Inside(p) \subseteq Writers
    BY <1>1 DEF Inside, Section
  <1>4. blame[p] \subseteq blame'[p]
        /\ (p = job[w].page /\ Inside(p) # {} => "lock" \in blame'[p])
    BY <1>1, <1>2, BlameGrows
  <1>5. \A v \in Inside(p) : job'[v] = job[v]
    BY <1>1, <1>3
  <1>6. Alone(p)'
    BY <1>3, <1>4 DEF Alone, KeptInv, Kept
  <1>7. TextCalm(p)' => TextCalm(p)
    BY <1>4 DEF TextCalm
  <1>8. RefsCalm(p)' => RefsCalm(p)
    BY <1>4 DEF RefsCalm
  <1>9. \A v \in Inside(p)' : job'[v].pc \in {"think", "save"} => v \in Inside(p)
    BY <1>1, <1>3
  <1> QED  BY <1>2, <1>4, <1>5, <1>6, <1>7, <1>8, <1>9 DEF KeptInv, Kept

LEMMA UnlockKeeps ==
    ASSUME TypeInv, NEW w \in Writers, Unlock(w)
    PROVE  Keeps(w)
  <1>1. job'[w].pc \notin Section
    <2>1. job[w] \in Jobs /\ w \in DOMAIN job
      BY JobOf DEF TypeInv, JobsOK
    <2>2. job'[w] = NoJob \/ job'[w].pc = "publish"
      BY <2>1, NoJobType DEF Unlock, Jobs
    <2> QED  BY <2>2, NoJobType DEF Section
  <1> QED  BY <1>1 DEF Keeps

\* Whoever cleans a page does so for the same document to the end.
LEMMA CleanStays ==
    ASSUME TypeInv, NEW w \in Writers,
           \/ GiveUp(w) \/ Crash(w) \/ Unlock(w)
           \/ Read(w) \/ GenerationFails(w) \/ Update(w) \/ NotFound(w) \/ Create(w)
           \/ SaveVersion(w) \/ SaveMeta(w) \/ SaveGloss(w) \/ Prune(w)
           \/ LinkRead(w) \/ LinkWrite(w) \/ Linked(w)
           \/ Drop(w) \/ Erase(w) \/ Publish(w) \/ Flip(w) \/ TakeOut(w),
           job'[w].kind = "clean"
    PROVE  job[w].kind = "clean" /\ job'[w].doc = job[w].doc
  <1> DEFINE j == job[w]
  <1>1. j \in Jobs /\ w \in DOMAIN job /\ GoodJob(j, born)
    BY JobOf DEF TypeInv, JobsOK
  <1>2. NoJob.kind # "clean"
    BY NoJobType
  <1>3. Left(w).kind # "clean" /\ [Left(w) EXCEPT !.wrote = FALSE].kind # "clean"
    <2>1. CASE j.kind \in Reduces
      <3>1. Left(w) = [j EXCEPT !.pc = "unlock", !.copy = NoRow, !.cur = NoRow, !.text = NoText]
        BY <2>1 DEF Left
      <3>2. Left(w) \in Jobs /\ Left(w).kind = j.kind
        BY <1>1, <3>1, NoRowType DEF Jobs, Pcs, Section
      <3> QED  BY <2>1, <3>2 DEF Jobs, Reduces
    <2>2. CASE j.kind \notin Reduces
      BY <1>2, <2>2, NoJobType DEF Left, Jobs
    <2> QED  BY <2>1, <2>2
  <1>4. ~Leaves(w) /\ job' # [job EXCEPT ![w] = NoJob]
    BY <1>1, <1>2, <1>3 DEF Leaves
  <1>5. CASE Read(w)
    <2>1. \/ \E c : job'[w] \in {[j EXCEPT !.pc = "drop", !.copy = c], [j EXCEPT !.pc = "meta", !.copy = c]}
          \/ job'[w] = [j EXCEPT !.pc = "think", !.copy = row[j.page], !.wrote = TRUE]
      <3>1. job'[w] # Left(w)
        BY <1>3
      <3> HIDE DEF Left
      <3> DEFINE r == row[j.page]
      <3>2. job'[w] = IF j.kind = "clean" THEN [j EXCEPT !.pc = IF r.refs = {j.doc} THEN "drop" ELSE "meta",
                                                         !.copy = IF r.refs = {j.doc} THEN NoRow ELSE r]
                      ELSE [j EXCEPT !.pc = "think", !.copy = r, !.wrote = TRUE]
        BY <1>1, <1>5, <3>1 DEF Read
      <3> QED  BY <3>2
    <2> QED  BY <1>1, <2>1 DEF Jobs
  <1>6. CASE Update(w)
    <2>1. \E t : job' = [job EXCEPT ![w].pc = "save", ![w].cur = row[j.page], ![w].text = t.text,
                                    ![w].copy.draft = t.draft]
      BY <1>4, <1>6 DEF Update
    <2> QED  BY <1>1, <2>1 DEF Jobs
  <1>7. CASE Create(w)
    <2>1. job' = [job EXCEPT ![w] = [@ EXCEPT !.pc = "links", !.add = Links[j.page], !.text = NoText]]
      BY <1>4, <1>7 DEF Create
    <2> QED  BY <1>1, <2>1 DEF Jobs
  <1>8. CASE SaveVersion(w) \/ SaveMeta(w) \/ SaveGloss(w) \/ Prune(w)
    <2>1. \/ Linking(w)
          \/ job' = [job EXCEPT ![w].pc = "prune", ![w].copy = NoRow, ![w].text = NoText]
      BY <1>4, <1>8 DEF SaveVersion, SaveMeta, SaveGloss, Prune
    <2>2. CASE Linking(w)
      <3>1. job'[w] = [j EXCEPT !.pc = "links", !.del = Links[j.page], !.add = Links[j.page],
                                !.copy = NoRow, !.cur = NoRow, !.text = NoText]
        BY <1>1, <2>2 DEF Linking
      <3> QED  BY <1>1, <3>1 DEF Jobs
    <2>3. CASE job' = [job EXCEPT ![w].pc = "prune", ![w].copy = NoRow, ![w].text = NoText]
      BY <1>1, <2>3 DEF Jobs
    <2> QED  BY <2>1, <2>2, <2>3
  <1>9. CASE LinkRead(w)
    <2>1. \E t : \/ job' = [job EXCEPT ![w].pc = "link", ![w].target = t, ![w].seen = row[t]]
                 \/ job' = [job EXCEPT ![w].del = @ \ {t}]
                 \/ job' = [job EXCEPT ![w].add = @ \ {t}]
      BY <1>9 DEF LinkRead
    <2> QED  BY <1>1, <2>1 DEF Jobs
  <1>10. CASE LinkWrite(w) \/ Linked(w) \/ Drop(w)
    <2>1. CASE LinkWrite(w)
      BY <1>1, <2>1 DEF LinkWrite, Jobs
    <2>2. CASE Linked(w)
      BY <1>1, <1>4, <2>2 DEF Linked, Goes, Jobs
    <2>3. CASE Drop(w)
      BY <1>1, <1>4, <2>3 DEF Drop, Jobs
    <2> QED  BY <1>10, <2>1, <2>2, <2>3
  <1>11. CASE Unlock(w)
    <2>1. j.kind \in Reduces /\ job'[w].kind \in {NoJob.kind, j.kind}
      BY <1>1, <1>11 DEF Unlock, At, GoodJob, NoJob
    <2> QED  BY <1>2, <2>1 DEF Reduces
  <1>12. CASE Publish(w)
    BY <1>1, <1>2, <1>12 DEF Publish, Jobs
  <1>13. CASE GenerationFails(w)
    BY <1>1, <1>3, <1>13 DEF GenerationFails
  <1>14. CASE GiveUp(w) \/ Crash(w) \/ Flip(w) \/ NotFound(w) \/ Erase(w) \/ TakeOut(w)
    BY <1>4, <1>14 DEF GiveUp, Crash, Flip, NotFound, Erase, TakeOut
  <1> QED  BY <1>5, <1>6, <1>7, <1>8, <1>9, <1>10, <1>11, <1>12, <1>13, <1>14

\* What a writer is to write.
LEMMA WritingStep ==
    ASSUME TypeInv, KeptInv, gone \subseteq gone', NEW w \in Writers,
           \/ Reduce(w) \/ Request(w) \/ Clean(w) \/ Enter(w) \/ EnterUnlocked(w)
           \/ GiveUp(w) \/ Crash(w) \/ Unlock(w)
           \/ Read(w) \/ GenerationFails(w) \/ Update(w) \/ NotFound(w) \/ Create(w)
           \/ SaveVersion(w) \/ SaveMeta(w) \/ SaveGloss(w) \/ Prune(w)
           \/ LinkRead(w) \/ LinkWrite(w) \/ Linked(w)
           \/ Drop(w) \/ Erase(w) \/ Publish(w) \/ Flip(w) \/ TakeOut(w)
    PROVE  Writing(job'[w], gone')
  <1>1. job[w] \in Jobs /\ GoodJob(job[w], born) /\ w \in DOMAIN job /\ Writing(job[w], gone)
    BY JobOf DEF TypeInv, JobsOK, KeptInv
  <1>2. CASE Reduce(w) \/ Request(w) \/ Clean(w) \/ Enter(w) \/ EnterUnlocked(w)
    BY <1>1, <1>2, FirstSteps DEF Writing, Reduces
  <1>3. SUFFICES ASSUME ~(Reduce(w) \/ Request(w) \/ Clean(w) \/ Enter(w) \/ EnterUnlocked(w))
        PROVE Writing(job'[w], gone')
    BY <1>2
  <1>4. job'[w].kind = "clean" => job'[w].doc \in gone'
    BY <1>1, <1>3, CleanStays DEF Writing
  <1>5. CASE Read(w)
    <2>1. job[w].pc = "read"
      BY <1>5 DEF Read, At
    <2>2. \/ Leaves(w)
          \/ /\ job'[w].pc \in {"drop", "meta"} /\ job'[w].kind = job[w].kind /\ job'[w].doc = job[w].doc
          \/ job'[w].pc = "think" /\ job'[w].kind = job[w].kind /\ job[w].kind # "clean"
      BY <1>1, <1>5 DEF Read, Leaves, Jobs
    <2>3. Leaves(w) => Writing(job'[w], gone')
      BY <1>4, <2>1, LeavesDone, DoneWriting DEF Section
    <2> QED  BY <1>1, <1>4, <2>1, <2>2, <2>3 DEF Writing
  <1>6. CASE Update(w)
    <2>1. job[w].pc = "think"
      BY <1>6 DEF Update, At
    <2>2. CASE Leaves(w)
      BY <1>4, <2>1, <2>2, LeavesDone, DoneWriting DEF Section
    <2>3. CASE ~Leaves(w)
      <3>1. PICK t \in Written(w) :
               job' = [job EXCEPT ![w].pc = "save", ![w].cur = row[job[w].page], ![w].text = t.text,
                                  ![w].copy.draft = t.draft]
        BY <1>6, <2>3 DEF Update
      <3>2. job[w].copy \in Rows
        BY <1>1, JobFields
      <3>3. /\ job'[w].pc = "save" /\ job'[w].kind = job[w].kind /\ job'[w].doc = job[w].doc
            /\ job'[w].text = t.text /\ job'[w].copy.text = job[w].copy.text
        BY <1>1, <3>1, <3>2 DEF Jobs, Rows
      <3> QED  BY <1>1, <1>4, <2>1, <3>3, WrittenDocs DEF Writing
    <2> QED  BY <2>2, <2>3
  <1>7. CASE Create(w) \/ SaveVersion(w) \/ SaveMeta(w) \/ SaveGloss(w)
    BY <1>4, <1>7, EveryCopies, DoneWriting
  <1>8. CASE \/ GiveUp(w) \/ Crash(w) \/ Unlock(w) \/ GenerationFails(w) \/ NotFound(w)
             \/ Prune(w) \/ LinkRead(w) \/ LinkWrite(w) \/ Linked(w)
             \/ Drop(w) \/ Erase(w) \/ Publish(w) \/ Flip(w) \/ TakeOut(w)
    BY <1>4, <1>8, DoneSteps, DoneWriting
  <1> QED  BY <1>3, <1>5, <1>6, <1>7, <1>8

LEMMA KeptNext ==
    ASSUME TypeInv, HistoryInv, KeptInv, [Next]_vars
    PROVE  KeptInv'
  <1>1. gone \subseteq gone'
    BY GoneGrows
  <1>2. ASSUME NEW w \in Writers, JobStep(w), Writing(job'[w], gone')
        PROVE  \A v \in Writers : Writing(job'[v], gone')
    <2> SUFFICES ASSUME NEW v \in Writers, v # w PROVE Writing(job'[v], gone')
      BY <1>2
    <2>1. job'[v] = job[v] /\ Writing(job[v], gone)
      BY <1>2 DEF JobStep, TypeInv, JobsOK, KeptInv
    <2> QED  BY <1>1, <2>1 DEF Writing
  <1>3. ASSUME NEW w \in Writers, JobStep(w), Keeps(w), Copies(w), Writing(job'[w], gone'),
               \A p \in Pages : Owed(p)
        PROVE  KeptInv'
    <2>1. \A p \in Pages : Kept(p)'
      BY <1>1, <1>3, KeptOf DEF KeptInv
    <2> QED  BY <1>2, <1>3, <2>1 DEF KeptInv
  <1>4. ASSUME NEW w \in Writers,
               \/ Reduce(w) \/ Request(w) \/ Clean(w) \/ GiveUp(w) \/ Crash(w) \/ Unlock(w)
               \/ Read(w) \/ GenerationFails(w) \/ Update(w) \/ NotFound(w) \/ Prune(w)
               \/ LinkRead(w) \/ Linked(w) \/ Drop(w) \/ Publish(w)
        PROVE  KeptInv'
    <2>1. JobStep(w)
      BY <1>4, Coming, Locking, Reading, Deciding, Updating, Saving, LinkReading, Ending
    <2>2. Keeps(w) /\ Copies(w) /\ Writing(job'[w], gone')
      BY <1>1, <1>4, EveryKeeps, UnlockKeeps, EveryCopies, WritingStep
    <2>3. UNCHANGED <<row, glossed, merged, blame>>
      BY <1>4 DEF Reduce, Request, Clean, Comes, GiveUp, Crash, Unlock, Read, GenerationFails, Update,
                  NotFound, Prune, LinkRead, Linked, Drop, Publish, Rests, pages, ghosts
    <2> QED  BY <1>1, <1>3, <2>1, <2>2, <2>3, OwedRest
  <1>5. ASSUME NEW w \in Writers,
               \/ TakeOut(w) \/ LinkWrite(w) \/ Flip(w)
               \/ Create(w) \/ SaveVersion(w) \/ SaveMeta(w) \/ SaveGloss(w) \/ Erase(w)
        PROVE  KeptInv'
    <2>1. JobStep(w)
      BY <1>5, Creating, Saving, LinkWriting, Ending
    <2>2. Keeps(w) /\ Copies(w) /\ Writing(job'[w], gone')
      BY <1>1, <1>5, EveryKeeps, EveryCopies, WritingStep
    <2>3. \A p \in Pages : Owed(p)
      BY <1>5, BookkeepingOwed, CreateOwed, SaveVersionOwed, SaveMetaOwed, SaveGlossOwed, EraseOwed
    <2> QED  BY <1>3, <2>1, <2>2, <2>3
  <1>6. ASSUME NEW w \in Writers, Enter(w) \/ EnterUnlocked(w) PROVE KeptInv'
    <2>1. JobStep(w) /\ Writing(job'[w], gone')
      BY <1>1, <1>6, Locking, WritingStep
    <2> QED  BY <1>2, <1>6, <2>1, EnterKept DEF KeptInv
  <1>7. CASE (\E p \in Pages : Expire(p)) \/ UNCHANGED vars
    <2>1. UNCHANGED <<row, glossed, merged, blame, job, gone>>
      BY <1>7 DEF Expire, Rests, vars, pages, ghosts
    <2> QED  BY <2>1 DEF KeptInv, Kept, Alone, Inside, TextCalm, RefsCalm
  <1> QED  BY <1>4, <1>5, <1>6, <1>7 DEF Next

LEMMA KeptInit == Init => KeptInv
  <1> SUFFICES ASSUME Init PROVE KeptInv
    OBVIOUS
  <1>1. \A w \in Writers : job[w] = NoJob
    BY DEF Init
  <1>2. \A w \in Writers : job[w].pc \in Done /\ Writing(job[w], gone)
    BY <1>1, NoJobType, DoneWriting DEF Done, Pcs
  <1>3. \A p \in Pages : Inside(p) = {}
    BY <1>1, NoJobType DEF Inside, Section
  <1>4. \A p \in Pages : Kept(p)
    BY <1>3 DEF Init, Kept, Alone
  <1> QED  BY <1>2, <1>4 DEF KeptInv

LEMMA KeptAlways == Spec => []KeptInv
  <1>1. TypeInv /\ TypeInv' /\ HistoryInv /\ [Next]_vars => HistoryInv'
    BY HistoryNext
  <1>2. TypeInv /\ HistoryInv /\ KeptInv /\ [Next]_vars => KeptInv'
    BY KeptNext
  <1> QED  BY <1>1, <1>2, HistoryInit, KeptInit, TypeAlways, PTL DEF Spec

\* A document that a reduce has written into a page stays in its text until it
\* is retracted, edited away by somebody who saw it, or deleted with its page:
\* one reduce at a time writes what it read, a user's write is compared with
\* what it replaces, and a page erased for its last source owes nothing to
\* another document while its list of sources is right.
THEOREM TextIsKept == Spec => []TextKept
  <1>1. KeptInv => TextKept
    BY DEF KeptInv, Kept, TextCalm, TextKept
  <1> QED  BY <1>1, KeptAlways, PTL

\* And it stays among the sources of the page until it is deleted, unless
\* bookkeeping was written back that had been read before, or the page erased
\* for what it said before.
THEOREM RefsAreKept == Spec => []RefsKept
  <1>1. KeptInv => RefsKept
    BY DEF KeptInv, Kept, RefsCalm, RefsKept
  <1> QED  BY <1>1, KeptAlways, PTL
=============================================================================
