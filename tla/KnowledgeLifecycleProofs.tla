----------------------- MODULE KnowledgeLifecycleProofs -----------------------
(***************************************************************************)
(* Proofs about the life of a document, for any sorts of subtasks, plans,  *)
(* attempts, retries and troubles.                                         *)
(***************************************************************************)
EXTENDS KnowledgeLifecycle, FiniteSetTheorems, TLAPS

USE DEF Attempts, NoAttempt

-----------------------------------------------------------------------------
(* Types, one variable at a time.                                          *)

\* What the summary is about to save is a status it has read.
CopyOK(s, k) == s.pc = "save" \/ (s.pc = "work" /\ k = Summary) => s.copy \in Statuses

Copies == \A a \in Attempts, k \in Kinds : CopyOK(sub[a][k], k)

Typed == TypeOK /\ Copies

-----------------------------------------------------------------------------

\* The statuses that the code writes as literals.
LEMMA Literals ==
    {"pending", "processing", "finalizing", "cancelled", "deleting", "deleted", "completed", "failed"}
      = Statuses
  BY DEF Statuses, InPipeline, Aborted

LEMMA StatusType ==
    ASSUME row \in Rows, NEW s \in Statuses
    PROVE  /\ SetStatus(row, s) \in Rows
           /\ ResetCount(SetStatus(row, s)) \in Rows
  BY DEF Rows, SetStatus, ResetCount

LEMMA RowType ==
    ASSUME row \in Rows
    PROVE  ResetCount(row) \in Rows /\ Decremented(row) \in Rows /\ Promoted(row) \in Rows
  BY DEF Rows, ResetCount, Decremented, Promoted, Statuses

LEMMA DocRow ==
    ASSUME Typed, NEW a \in Attempts, DocStep(a) \/ DeadLetter(a)
    PROVE  row' \in Rows
  <1> USE StatusType, Literals DEF Write, Typed, TypeOK
  <1>1. CASE DocStart(a) \/ DocGiveUp(a) \/ DocCheck(a) \/ DocEnqueue(a)
    BY <1>1 DEF DocStart, DocGiveUp, DocCheck, DocEnqueue
  <1>2. CASE DocMark(a) \/ DocFail(a) \/ DocError(a)
    BY <1>2 DEF DocMark, DocFail, DocError
  <1>3. CASE DocSave(a) \/ DeadLetter(a)
    BY <1>3 DEF DocSave, DeadLetter
  <1> QED
    BY <1>1, <1>2, <1>3 DEF DocStep

LEMMA PostRow ==
    ASSUME Typed, NEW a \in Attempts, PostStep(a)
    PROVE  row' \in Rows
  <1> USE DEF Write, Typed, TypeOK
  <1>1. CASE PostStart(a) \/ PostError(a) \/ (\E k \in Kinds : PostFanOut(a, k)) \/ PostEnd(a)
    BY <1>1 DEF PostStart, PostError, PostFanOut, PostEnd
  <1>2. CASE PostFast(a)
    BY <1>2, StatusType, Literals DEF PostFast
  <1>3. CASE PostSeed(a)
    <2>1. Cardinality(post[a].todo) \in Nat
      BY KnowledgeLifecycleAssumption, FS_Subset, FS_CardinalityType DEF PostTasks
    <2> QED
      BY <1>3, <2>1, Literals DEF PostSeed, Rows
  <1>4. CASE PostRelease(a) \/ PostPromote(a)
    BY <1>4, RowType DEF PostRelease, PostPromote
  <1> QED
    BY <1>1, <1>2, <1>3, <1>4 DEF PostStep

LEMMA SubRow ==
    ASSUME Typed, NEW a \in Attempts, NEW k \in Kinds, SubStep(a, k)
    PROVE  row' \in Rows
  <1> USE DEF Write, Typed, TypeOK
  <1>1. CASE SubStart(a, k) \/ SubRead(a, k)
    BY <1>1 DEF SubStart, SubRead
  <1>2. CASE SubSave(a, k) \/ SubWork(a, k)
    <2>1. CopyOK(sub[a][k], k)
      BY DEF Copies
    <2> QED
      BY <1>2, <2>1, StatusType DEF SubSave, SubWork, SaveCopy, CopyOK
  <1>3. CASE SubDrain(a, k) \/ SubPromote(a, k)
    BY <1>3, RowType DEF SubDrain, SubPromote
  <1> QED
    BY <1>1, <1>2, <1>3 DEF SubStep

LEMMA OtherRow ==
    ASSUME Typed, Crash \/ UserBegins \/ UserGoesOn \/ Sweep
    PROVE  row' \in Rows
  <1> USE StatusType, RowType, Literals DEF Write, Typed, TypeOK
  <1>1. CASE Crash
    BY <1>1 DEF Crash, DocCrash, PostCrash, SubCrash
  <1>2. CASE UserBegins
    BY <1>2 DEF UserBegins, CancelRead, DeleteMark, ReparseOpen
  <1>3. CASE UserGoesOn
    <2>1. CASE DeletePurge
      BY <2>1 DEF Fails, DeletePurge, Rows
    <2>2. CASE ReparseReset
      BY <2>2 DEF Fails, ReparseReset
    <2> QED
      BY <1>3, <2>1, <2>2 DEF Fails, UserGoesOn, CancelWrite, Dequeue, ReparsePending, ReparseSubmit
  <1>4. CASE Sweep
    BY <1>4 DEF Sweep, SweepProbe, SweepFail, SweepFrame, Rows
  <1> QED
    BY <1>1, <1>2, <1>3, <1>4

-----------------------------------------------------------------------------

\* A dequeue removes some tasks and leaves the others alone.
LEMMA Dequeued ==
    ASSUME Typed, Dequeue
    PROVE  /\ doc' = [a \in Attempts |-> doc'[a]]
           /\ \A a \in Attempts : doc'[a] \in {NoDoc, doc[a]}
           /\ post' = [a \in Attempts |-> post'[a]]
           /\ \A a \in Attempts :
                 \/ post'[a] = post[a]
                 \/ post'[a] = NoPost /\ post[a].pc \in {"queued", "fast", "seed"}
           /\ sub' = [a \in Attempts |-> [k \in Kinds |-> sub'[a][k]]]
           /\ \A a \in Attempts, k \in Kinds : sub'[a][k] \in {NoSub, sub[a][k]}
  <1> DEFINE Removed(task, a, name, stopped) == task.pc = "queued" \/ <<name, a>> \in stopped
             Subs(stopped) == [a \in Attempts |-> [k \in Kinds |->
                        IF k # Wiki /\ Removed(sub[a][k], a, k, stopped) THEN NoSub ELSE sub[a][k]]]
  <1>1. PICK stopped \in SUBSET Stoppable :
          /\ doc' = [a \in Attempts |-> IF Removed(doc[a], a, "doc", stopped) THEN NoDoc ELSE doc[a]]
          /\ post' = [a \in Attempts |-> IF Removed(post[a], a, "post", stopped) THEN NoPost ELSE post[a]]
          /\ sub' = IF user = "dequeue" THEN WithoutWiki(Subs(stopped)) ELSE Subs(stopped)
    BY DEF Dequeue
  <1>2. \A a \in Attempts : <<"post", a>> \in stopped => post[a].pc \in {"fast", "seed"}
    BY <1>1, KnowledgeLifecycleAssumption DEF Stoppable
  <1>3. \A a \in Attempts, k \in Kinds : Subs(stopped)[a][k] \in {NoSub, sub[a][k]}
    OBVIOUS
  <1>4. /\ sub' = [a \in Attempts |-> [k \in Kinds |-> sub'[a][k]]]
        /\ \A a \in Attempts, k \in Kinds : sub'[a][k] \in {NoSub, sub[a][k]}
    BY <1>1, <1>3 DEF WithoutWiki
  <1> QED
    BY <1>1, <1>2, <1>4

LEMMA DocTyped ==
    ASSUME Typed, Next
    PROVE  doc' \in [Attempts -> DocTasks]
  <1>a. doc \in [Attempts -> DocTasks] /\ latest \in Attempts
    BY DEF Typed, TypeOK
  <1>b. MaxRetry \in Nat
    BY KnowledgeLifecycleAssumption
  <1> USE <1>a, <1>b DEF DocTasks, DocPcs, Idle, NoDoc, DocGoes, DocEnds, Again
  <1>1. ASSUME NEW a \in Attempts, DocStep(a)
        PROVE  doc' \in [Attempts -> DocTasks]
    <2>1. CASE DocStart(a)
      BY <2>1 DEF DocStart
    <2>2. CASE DocMark(a)
      BY <2>2 DEF DocMark
    <2>3. CASE DocFail(a)
      BY <2>3 DEF DocFail
    <2>4. CASE DocError(a)
      BY <2>4 DEF DocError
    <2>5. CASE DocGiveUp(a)
      BY <2>5 DEF DocGiveUp
    <2>6. CASE DocCheck(a)
      BY <2>6 DEF DocCheck
    <2>7. CASE DocSave(a)
      BY <2>7 DEF DocSave
    <2>8. CASE DocEnqueue(a)
      BY <2>8 DEF DocEnqueue
    <2> QED
      BY <1>1, <2>1, <2>2, <2>3, <2>4, <2>5, <2>6, <2>7, <2>8 DEF DocStep
  <1>2. ASSUME NEW a \in Attempts, DeadLetter(a)
        PROVE  doc' \in [Attempts -> DocTasks]
    BY <1>2 DEF DeadLetter
  <1>3. ASSUME NEW a \in Attempts, DocCrash(a)
        PROVE  doc' \in [Attempts -> DocTasks]
    BY <1>3 DEF DocCrash
  <1>4. CASE Dequeue
    BY <1>4, Dequeued
  <1>5. CASE ReparseSubmit
    BY <1>5 DEF ReparseSubmit
  <1>6. CASE UNCHANGED doc
    BY <1>6
  <1> QED
    <2>1. ASSUME NEW a \in Attempts, PostStep(a) \/ PostCrash(a)
          PROVE  UNCHANGED doc
      BY <2>1 DEF PostStep, PostFrame, PostStart, PostError, PostFast, PostSeed, PostFanOut, PostRelease,
                  PostPromote, PostEnd, PostCrash
    <2>2. ASSUME NEW a \in Attempts, NEW k \in Kinds, SubStep(a, k) \/ SubCrash(a, k)
          PROVE  UNCHANGED doc
      BY <2>2 DEF SubStep, SubFrame, SubStart, SubRead, SubSave, SubWork, SubDrain, SubPromote, SubCrash
    <2>3. CASE UserBegins \/ CancelWrite \/ DeletePurge \/ ReparsePending \/ ReparseReset \/ Sweep
      BY <2>3 DEF Fails, UserBegins, UserFrame, CancelRead, DeleteMark, ReparseOpen, CancelWrite, DeletePurge,
                  ReparsePending, ReparseReset, Sweep, SweepFrame, SweepProbe, SweepFail, taskVars
    <2> QED
      BY <1>1, <1>2, <1>3, <1>4, <1>5, <1>6, <2>1, <2>2, <2>3 DEF Next, Crash, UserGoesOn

LEMMA PostTyped ==
    ASSUME Typed, Next
    PROVE  post' \in [Attempts -> PostTasks]
  <1>a. post \in [Attempts -> PostTasks]
    BY DEF Typed, TypeOK
  <1>b. MaxRetry \in Nat /\ Plans \subseteq SUBSET Kinds
    BY KnowledgeLifecycleAssumption
  <1> USE <1>a, <1>b DEF PostTasks, PostPcs, Idle, NoPost, QueuedPost, PostGoes, PostEnds, Again
  <1>1. ASSUME NEW a \in Attempts, PostStep(a)
        PROVE  post' \in [Attempts -> PostTasks]
    <2>1. CASE PostStart(a)
      BY <2>1 DEF PostStart
    <2>2. CASE PostError(a)
      BY <2>2 DEF PostError
    <2>3. CASE PostFast(a)
      BY <2>3 DEF PostFast
    <2>4. CASE PostSeed(a)
      BY <2>4 DEF PostSeed
    <2>5. ASSUME NEW k \in Kinds, PostFanOut(a, k)
          PROVE  post' \in [Attempts -> PostTasks]
      <3>1. \/ post' = [post EXCEPT ![a] = [post[a] EXCEPT !.todo = @ \ {k}]]
            \/ post' = [post EXCEPT ![a] = [post[a] EXCEPT !.todo = @ \ {k}, !.shortfall = @ + 1]]
        BY <2>5 DEF PostFanOut
      <3>2. post[a] \in PostTasks /\ post[a].todo \ {k} \subseteq Kinds /\ post[a].shortfall + 1 \in Nat
        OBVIOUS
      <3>3. /\ [post[a] EXCEPT !.todo = @ \ {k}] \in PostTasks
            /\ [post[a] EXCEPT !.todo = @ \ {k}, !.shortfall = @ + 1] \in PostTasks
        BY <3>2
      <3> HIDE DEF PostTasks
      <3> QED
        BY <3>1, <3>3
    <2>6. CASE PostRelease(a)
      BY <2>6 DEF PostRelease
    <2>7. CASE PostPromote(a)
      BY <2>7 DEF PostPromote
    <2>8. CASE PostEnd(a)
      BY <2>8 DEF PostEnd
    <2> QED
      BY <1>1, <2>1, <2>2, <2>3, <2>4, <2>5, <2>6, <2>7, <2>8 DEF PostStep
  <1>2. ASSUME NEW a \in Attempts, DocStep(a) \/ DeadLetter(a)
        PROVE  post' \in [Attempts -> PostTasks]
    <2>1. CASE DocEnqueue(a)
      BY <2>1 DEF DocEnqueue
    <2>2. CASE DeadLetter(a)
      BY <2>2 DEF DeadLetter
    <2>3. CASE DocStep(a) /\ ~DocEnqueue(a)
      BY <2>3 DEF DocStep, DocFrame, DocStart, DocMark, DocFail, DocError, DocGiveUp, DocCheck, DocSave
    <2> QED
      BY <1>2, <2>1, <2>2, <2>3
  <1>3. ASSUME NEW a \in Attempts, PostCrash(a)
        PROVE  post' \in [Attempts -> PostTasks]
    BY <1>3 DEF PostCrash
  <1>4. CASE Dequeue
    BY <1>4, Dequeued
  <1>5. CASE UNCHANGED post
    BY <1>5
  <1> QED
    <2>1. ASSUME NEW a \in Attempts, NEW k \in Kinds, SubStep(a, k) \/ SubCrash(a, k) \/ DocCrash(a)
          PROVE  UNCHANGED post
      BY <2>1 DEF SubStep, SubFrame, SubStart, SubRead, SubSave, SubWork, SubDrain, SubPromote, SubCrash, DocCrash
    <2>2. CASE \/ UserBegins \/ CancelWrite \/ DeletePurge \/ ReparsePending \/ ReparseReset
               \/ ReparseSubmit \/ Sweep
      BY <2>2 DEF Fails, UserBegins, UserFrame, CancelRead, DeleteMark, ReparseOpen, CancelWrite, DeletePurge,
                  ReparsePending, ReparseReset, ReparseSubmit, Sweep, SweepFrame, SweepProbe, SweepFail,
                  taskVars
    <2>3. ASSUME NEW a \in Attempts, DocCrash(a)
          PROVE  UNCHANGED post
      BY <2>3 DEF DocCrash
    <2> QED
      BY <1>1, <1>2, <1>3, <1>4, <1>5, <2>1, <2>2, <2>3 DEF Next, Crash, UserGoesOn

\* A subtask gets a state that is typed.
LEMMA SubUpdate ==
    ASSUME Typed, NEW a \in Attempts, NEW k \in Kinds, NEW s \in SubTasks, CopyOK(s, k),
           sub' = [sub EXCEPT ![a][k] = s]
    PROVE  sub' \in [Attempts -> [Kinds -> SubTasks]] /\ Copies'
  BY DEF Typed, TypeOK, Copies

\* A step on a subtask replaces its state, by one that is typed.
LEMMA SubOne ==
    ASSUME Typed, NEW a \in Attempts, NEW k \in Kinds, SubStep(a, k) \/ SubCrash(a, k)
    PROVE  \E t \in SubTasks : CopyOK(t, k) /\ sub' = [sub EXCEPT ![a][k] = t]
  <1>n. NoSub \in SubTasks /\ CopyOK(NoSub, k)
    BY KnowledgeLifecycleAssumption DEF NoSub, SubTasks, SubPcs, Idle, CopyOK
  <1> DEFINE s == sub[a][k]
  <1>a. s \in SubTasks /\ CopyOK(s, k) /\ row.status \in Statuses /\ MaxRetry \in Nat
    BY KnowledgeLifecycleAssumption DEF Typed, TypeOK, Copies, Rows
  <1>b. sub \in [Attempts -> [Kinds -> SubTasks]]
    BY DEF Typed, TypeOK
  <1> USE <1>a, <1>b, <1>n
  <1>g. ASSUME NEW pc \in SubPcs, SubGoes(a, k, pc), pc # "save", pc = "work" => s.pc = "save"
        PROVE  \E t \in SubTasks : CopyOK(t, k) /\ sub' = [sub EXCEPT ![a][k] = t]
    <2>1. [s EXCEPT !.pc = pc] \in SubTasks /\ CopyOK([s EXCEPT !.pc = pc], k)
      BY <1>g DEF SubTasks, CopyOK
    <2>2. sub' = [sub EXCEPT ![a][k] = [s EXCEPT !.pc = pc]]
      BY <1>g DEF SubGoes
    <2> QED
      BY <2>1, <2>2
  <1>q. ASSUME NEW n \in 0..MaxRetry, NEW d \in BOOLEAN
        PROVE  QueuedSub(n, d) \in SubTasks /\ CopyOK(QueuedSub(n, d), k)
    BY DEF QueuedSub, SubTasks, SubPcs, Idle, CopyOK
  <1>p. {"started", "work", "drain", "promote"} \subseteq SubPcs /\ s.tries \in 0..MaxRetry
        /\ s.drained \in BOOLEAN
    BY DEF SubPcs, SubTasks
  <1>1. CASE SubStart(a, k)
    BY <1>1, <1>g, <1>p DEF SubStart, SubIs
  <1>2. CASE SubRead(a, k)
    <2>1. CASE SubGoes(a, k, "drain")
      BY <2>1, <1>g, <1>p
    <2>2. CASE ~SubGoes(a, k, "drain")
      <3> DEFINE t == [s EXCEPT !.pc = IF k = Summary THEN "save" ELSE "work",
                                !.copy = IF k = Summary THEN row.status ELSE @]
      <3>1. t \in SubTasks /\ CopyOK(t, k)
        BY DEF SubTasks, SubPcs, CopyOK
      <3>2. sub' = [sub EXCEPT ![a][k] = t]
        BY <1>2, <2>2 DEF SubRead, SubIs
      <3> QED
        BY <3>1, <3>2
    <2> QED
      BY <2>1, <2>2
  <1>3. CASE SubSave(a, k)
    BY <1>3, <1>g, <1>p DEF SubSave
  <1>4. CASE SubWork(a, k)
    BY <1>4, <1>g, <1>p, <1>q DEF SubWork, SubEnds, SubIs, Again
  <1>5. CASE SubDrain(a, k)
    BY <1>5, <1>g, <1>p DEF SubDrain, SubIs
  <1>6. CASE SubPromote(a, k)
    <2>1. CASE sub' = [sub EXCEPT ![a][k] = NoSub]
      BY <2>1
    <2>2. CASE Again(s) /\ sub' = [sub EXCEPT ![a][k] = QueuedSub(s.tries + 1, TRUE)]
      <3>1. s.tries + 1 \in 0..MaxRetry
        BY <2>2, <1>p DEF Again
      <3> QED
        BY <2>2, <3>1, <1>q
    <2> QED
      BY <1>6, <2>1, <2>2 DEF SubPromote, SubIs
  <1>7. CASE SubCrash(a, k)
    <2> DEFINE n == IF Again(s) THEN s.tries + 1 ELSE s.tries
               d == s.drained \/ s.pc = "promote"
    <2>1. CASE sub' = [sub EXCEPT ![a][k] = NoSub]
      BY <2>1
    <2>2. CASE sub' = [sub EXCEPT ![a][k] = QueuedSub(n, d)]
      <3>1. n \in 0..MaxRetry /\ d \in BOOLEAN
        BY <1>p DEF Again
      <3> HIDE DEF n, d
      <3> QED
        BY <2>2, <3>1, <1>q
    <2> QED
      BY <1>7, <2>1, <2>2 DEF SubCrash, SubIs
  <1> QED
    BY <1>1, <1>2, <1>3, <1>4, <1>5, <1>6, <1>7 DEF SubStep

LEMMA SubTyped ==
    ASSUME Typed, Next
    PROVE  sub' \in [Attempts -> [Kinds -> SubTasks]] /\ Copies'
  <1> DEFINE Goal == sub' \in [Attempts -> [Kinds -> SubTasks]] /\ Copies'
  <1>n. NoSub \in SubTasks /\ \A k \in Kinds : CopyOK(NoSub, k)
    BY KnowledgeLifecycleAssumption DEF NoSub, SubTasks, SubPcs, Idle, CopyOK
  <1>1. ASSUME NEW a \in Attempts, NEW k \in Kinds, SubStep(a, k) \/ SubCrash(a, k)
        PROVE  Goal
    BY <1>1, SubOne, SubUpdate
  <1>2. ASSUME NEW a \in Attempts, PostStep(a)
        PROVE  Goal
    <2>1. ASSUME NEW k \in Kinds, PostFanOut(a, k)
          PROVE  Goal
      <3>1. \/ sub' = sub
            \/ sub' = [sub EXCEPT ![a][k] = QueuedSub(0, FALSE)]
        BY <2>1 DEF PostFanOut
      <3>2. QueuedSub(0, FALSE) \in SubTasks /\ CopyOK(QueuedSub(0, FALSE), k)
        BY KnowledgeLifecycleAssumption DEF QueuedSub, SubTasks, SubPcs, Idle, CopyOK
      <3> QED
        BY <3>1, <3>2, SubUpdate DEF Typed, TypeOK, Copies
    <2>2. CASE ~\E k \in Kinds : PostFanOut(a, k)
      <3>1. UNCHANGED sub
        BY <1>2, <2>2 DEF PostStep, PostStart, PostError, PostFast, PostSeed, PostRelease, PostPromote, PostEnd
      <3> QED
        BY <3>1 DEF Typed, TypeOK, Copies
    <2> QED
      BY <2>1, <2>2
  <1>3. CASE \/ Dequeue \/ sub' = WithoutWiki(sub)
    <2>1. /\ sub' = [a \in Attempts |-> [k \in Kinds |-> sub'[a][k]]]
          /\ \A a \in Attempts, k \in Kinds : sub'[a][k] \in {NoSub, sub[a][k]}
      BY <1>3, Dequeued DEF WithoutWiki
    <2> QED
      BY <1>n, <2>1 DEF Typed, TypeOK, Copies
  <1>4. CASE UNCHANGED sub
    BY <1>4 DEF Typed, TypeOK, Copies
  <1> QED
    <2>1. ASSUME NEW a \in Attempts, DocStep(a) \/ DeadLetter(a) \/ DocCrash(a) \/ PostCrash(a)
          PROVE  UNCHANGED sub
      BY <2>1 DEF DocStep, DocFrame, DocStart, DocMark, DocFail, DocError, DocGiveUp, DocCheck, DocSave,
                  DocEnqueue, DeadLetter, DocCrash, PostCrash
    <2>2. ASSUME \/ CancelRead \/ DeleteMark \/ CancelWrite \/ ReparsePending \/ ReparseReset
                 \/ ReparseSubmit
          PROVE  UNCHANGED sub
      BY <2>2 DEF Fails, CancelRead, DeleteMark, CancelWrite, ReparsePending, ReparseReset, ReparseSubmit
    <2>4. ASSUME Sweep
          PROVE  UNCHANGED sub
      BY <2>4 DEF Sweep, SweepFrame, SweepProbe, SweepFail, taskVars
    <2>3. CASE DeletePurge \/ ReparseOpen
      BY <1>3, <2>3 DEF Fails, DeletePurge, ReparseOpen, ScrubWiki
    <2> QED
      BY <1>1, <1>2, <1>3, <1>4, <2>1, <2>2, <2>3, <2>4 DEF Next, Crash, UserGoesOn, UserBegins

LEMMA BlameTyped ==
    ASSUME NEW guilty, NEW b \in {"taken", "lost"}, Typed, Blame(guilty, b)
    PROVE  blame' \subseteq {"taken", "lost"} /\ seeded' = seeded
  BY DEF Blame, Typed, TypeOK

\* seeded and blame.
LEMMA HistoryTyped ==
    ASSUME Typed, Next
    PROVE  blame' \subseteq {"taken", "lost"} /\ seeded' \in 0..MaxAttempts
  <1> USE BlameTyped DEF history
  <1>t. blame \subseteq {"taken", "lost"} /\ seeded \in 0..MaxAttempts
    BY KnowledgeLifecycleAssumption DEF Typed, TypeOK
  <1>1. ASSUME NEW a \in Attempts, DocStep(a) \/ DeadLetter(a) \/ DocCrash(a)
        PROVE  blame' \subseteq {"taken", "lost"} /\ seeded' \in 0..MaxAttempts
    BY <1>1, <1>t DEF DocStep, DocFrame, DocStart, DocMark, DocFail, DocError, DocGiveUp, DocCheck, DocSave,
                DocEnqueue, DeadLetter, DocCrash
  <1>2. ASSUME NEW a \in Attempts, PostStep(a) \/ PostCrash(a)
        PROVE  blame' \subseteq {"taken", "lost"} /\ seeded' \in 0..MaxAttempts
    <2>1. CASE PostSeed(a)
      <3>1. blame' \in {blame, {}, {"taken"}} /\ seeded' \in {seeded, a}
        BY <2>1 DEF PostSeed
      <3> QED
        BY <1>t, <3>1
    <2>2. ASSUME NEW k \in Kinds, PostFanOut(a, k)
          PROVE  blame' \subseteq {"taken", "lost"} /\ seeded' \in 0..MaxAttempts
      <3>1. UNCHANGED history \/ Blame(a = seeded, "lost")
        BY <2>2 DEF PostFanOut
      <3> QED
        BY <1>t, <3>1
    <2>3. CASE PostStart(a) \/ PostError(a) \/ PostFast(a) \/ PostEnd(a) \/ PostCrash(a)
      BY <1>t, <2>3 DEF PostStart, PostError, PostFast, PostEnd, PostCrash
    <2>4. CASE PostRelease(a) \/ PostPromote(a)
      BY <1>t, <2>4 DEF PostRelease, PostPromote
    <2> QED
      BY <1>2, <2>1, <2>2, <2>3, <2>4 DEF PostStep
  <1>3. ASSUME NEW a \in Attempts, NEW k \in Kinds, SubStep(a, k) \/ SubCrash(a, k)
        PROVE  blame' \subseteq {"taken", "lost"} /\ seeded' \in 0..MaxAttempts
    BY <1>3, <1>t DEF SubStep, SubStart, SubRead, SubSave, SubWork, SaveCopy, SubDrain, SubPromote, SubCrash
  <1>4. CASE UserBegins \/ UserGoesOn \/ Sweep
    BY <1>4, <1>t DEF Fails, UserBegins, UserGoesOn, Sweep, CancelRead, DeleteMark, ReparseOpen, CancelWrite, Dequeue,
                DeletePurge, ReparsePending, ReparseReset, ReparseSubmit, ScrubWiki, SweepProbe, SweepFail,
                SweepFrame
  <1> QED
    BY <1>1, <1>2, <1>3, <1>4 DEF Next, Crash

\* latest, troubles, user and sweep.
LEMMA OthersTyped ==
    ASSUME Typed, Next
    PROVE  /\ latest' \in Attempts
           /\ troubles' \in 0..MaxTroubles
           /\ user' \in {"idle", "cancel", "dequeue", "again", "clear", "purge", "pending", "reset", "submit"}
           /\ sweep' \in [pc : {"idle", "fail"}, seen : Attempts \cup {NoAttempt}]
  <1> DEFINE Goal == /\ latest' \in Attempts
                     /\ troubles' \in 0..MaxTroubles
                     /\ user' \in {"idle", "cancel", "dequeue", "again", "clear", "purge",
                                   "pending", "reset", "submit"}
                     /\ sweep' \in [pc : {"idle", "fail"}, seen : Attempts \cup {NoAttempt}]
  <1>t. /\ latest \in Attempts /\ troubles \in 0..MaxTroubles
        /\ user \in {"idle", "cancel", "dequeue", "again", "clear", "purge", "pending", "reset", "submit"}
        /\ sweep \in [pc : {"idle", "fail"}, seen : Attempts \cup {NoAttempt}]
        /\ MaxTroubles \in Nat /\ MaxAttempts \in Nat
    BY KnowledgeLifecycleAssumption DEF Typed, TypeOK
  <1>1. ASSUME NEW a \in Attempts, DocStep(a) \/ DeadLetter(a) \/ DocCrash(a)
        PROVE  Goal
    BY <1>1, <1>t DEF DocStep, DocFrame, DocStart, DocMark, DocFail, DocError, DocGiveUp, DocCheck, DocSave,
                DocEnqueue, DeadLetter, DocCrash, Trouble
  <1>2. ASSUME NEW a \in Attempts, PostStep(a) \/ PostCrash(a)
        PROVE  Goal
    <2>1. UNCHANGED <<latest, user, sweep>>
      BY <1>2 DEF PostStep, PostFrame, PostStart, PostError, PostFast, PostSeed, PostFanOut, PostRelease,
                  PostPromote, PostEnd, PostCrash
    <2>2. Trouble \/ UNCHANGED troubles
      BY <1>2 DEF PostStep, PostStart, PostError, PostFast, PostSeed, PostFanOut, PostRelease, PostPromote,
                  PostEnd, PostCrash
    <2> QED
      BY <1>t, <2>1, <2>2 DEF Trouble
  <1>3. ASSUME NEW a \in Attempts, NEW k \in Kinds, SubStep(a, k) \/ SubCrash(a, k)
        PROVE  Goal
    <2>1. UNCHANGED <<latest, user, sweep>>
      BY <1>3 DEF SubStep, SubFrame, SubStart, SubRead, SubSave, SubWork, SubDrain, SubPromote, SubCrash
    <2>2. Trouble \/ UNCHANGED troubles
      BY <1>3 DEF SubStep, SubStart, SubRead, SubSave, SubWork, SubEnds, SubDrain, SubPromote, SubCrash
    <2> QED
      BY <1>t, <2>1, <2>2 DEF Trouble
  <1>4. ASSUME UserBegins \/ UserGoesOn
        PROVE  Goal
    <2>1. CASE UserBegins
      BY <2>1, <1>t DEF UserBegins, UserFrame, CancelRead, DeleteMark, ReparseOpen, Trouble
    <2>2. CASE CancelWrite \/ DeletePurge \/ ReparsePending \/ ReparseReset
      BY <2>2, <1>t DEF Fails, Trouble, UserFrame, CancelWrite, DeletePurge, ReparsePending, ReparseReset
    <2>3. CASE Dequeue \/ ReparseSubmit
      <3>1. user' \in {"purge", "idle"} /\ UNCHANGED <<latest, sweep>> /\ (Trouble \/ UNCHANGED troubles)
        BY <2>3 DEF Dequeue, ReparseSubmit
      <3> QED
        BY <1>t, <3>1 DEF Trouble
    <2> QED
      BY <1>4, <2>1, <2>2, <2>3 DEF UserGoesOn
  <1>5. ASSUME Sweep
        PROVE  Goal
    BY <1>5, <1>t DEF Sweep, SweepProbe, SweepFail, SweepFrame, NoSweep
  <1> HIDE DEF Goal
  <1>6. Goal
    BY <1>1, <1>2, <1>3, <1>4, <1>5 DEF Next, Crash
  <1> QED
    BY <1>6 DEF Goal

LEMMA InitTyped == Init => Typed
  <1> SUFFICES ASSUME Init PROVE Typed
    OBVIOUS
  <1> USE KnowledgeLifecycleAssumption DEF Init
  <1>1. row \in Rows
    BY Literals DEF Rows
  <1>2. doc \in [Attempts -> DocTasks]
    BY DEF DocTasks, DocPcs, Idle, NoDoc
  <1>3. post \in [Attempts -> PostTasks]
    BY DEF PostTasks, PostPcs, Idle, NoPost
  <1>4. sub \in [Attempts -> [Kinds -> SubTasks]] /\ Copies
    BY DEF SubTasks, SubPcs, Idle, NoSub, Copies, CopyOK
  <1>5. sweep \in [pc : {"idle", "fail"}, seen : Attempts \cup {NoAttempt}]
    BY DEF NoSweep
  <1> QED
    BY <1>1, <1>2, <1>3, <1>4, <1>5 DEF Typed, TypeOK

LEMMA StepTyped == Typed /\ [Next]_vars => Typed'
  <1> SUFFICES ASSUME Typed, [Next]_vars PROVE Typed'
    OBVIOUS
  <1>1. CASE Next
    <2>1. row' \in Rows
      BY <1>1, DocRow, PostRow, SubRow, OtherRow DEF Next
    <2> QED
      BY <1>1, <2>1, DocTyped, PostTyped, SubTyped, HistoryTyped, OthersTyped DEF Typed, TypeOK
  <1>2. CASE UNCHANGED vars
    BY <1>2 DEF vars, taskVars, history, Typed, TypeOK, Copies
  <1> QED
    BY <1>1, <1>2

\* The type invariant: the counter is never negative, and what is saved is a status.
THEOREM TypeCorrect == Spec => []TypeOK
  BY InitTyped, StepTyped, PTL DEF Spec, Typed

-----------------------------------------------------------------------------
(* What the sweep fails has no task.                                       *)

SweepOK == sweep.seen <= latest

\* Between the probe of the sweep and its update no task appears.
Quiet ==
    sweep.pc = "fail" /\ latest <= sweep.seen =>
        ~HasQueuedTasks /\ user \notin {"pending", "reset", "submit"}

\* Without a task only the wiki rows are worked on.
LEMMA NoTaskNoStep ==
    ASSUME ~HasQueuedTasks, NEW a \in Attempts
    PROVE  /\ ~DocStep(a) /\ ~PostStep(a) /\ ~DeadLetter(a) /\ ~DocCrash(a) /\ ~PostCrash(a)
           /\ \A k \in Kinds \ {Wiki} : ~SubStep(a, k) /\ ~SubCrash(a, k)
  <1>1. doc[a].pc = "none" /\ post[a].pc = "none" /\ \A k \in Kinds \ {Wiki} : sub[a][k].pc = "none"
    BY DEF HasQueuedTasks
  <1>2. ~DocStep(a) /\ ~DeadLetter(a) /\ ~DocCrash(a)
    BY <1>1 DEF DocStep, DocStart, DocMark, DocFail, DocError, DocGiveUp, DocCheck, DocSave, DocEnqueue,
                DeadLetter, DocCrash, Idle
  <1>3. ~PostStep(a) /\ ~PostCrash(a)
    BY <1>1 DEF PostStep, PostStart, PostError, PostFast, PostSeed, PostFanOut, PostRelease, PostPromote,
                PostEnd, PostCrash, Idle
  <1>4. ASSUME NEW k \in Kinds \ {Wiki}
        PROVE  ~SubStep(a, k) /\ ~SubCrash(a, k)
    BY <1>1 DEF SubStep, SubStart, SubRead, SubSave, SubWork, SubDrain, SubPromote, SubCrash, Idle
  <1> QED
    BY <1>2, <1>3, <1>4

\* A step on a wiki row leaves the tasks and the user alone.
LEMMA WikiStep ==
    ASSUME Typed, NEW a \in Attempts, Wiki \in Kinds, SubStep(a, Wiki) \/ SubCrash(a, Wiki)
    PROVE  /\ UNCHANGED <<latest, doc, post, user, sweep>>
           /\ \A b \in Attempts, k \in Kinds \ {Wiki} : sub'[b][k] = sub[b][k]
  <1>1. UNCHANGED <<latest, doc, post, user, sweep>>
    BY DEF SubStep, SubFrame, SubStart, SubRead, SubSave, SubWork, SubDrain, SubPromote, SubCrash
  <1>2. sub \in [Attempts -> [Kinds -> SubTasks]]
    BY DEF Typed, TypeOK
  <1>3. \A b \in Attempts, k \in Kinds \ {Wiki} : sub'[b][k] = sub[b][k]
    <2>1. PICK t \in SubTasks : sub' = [sub EXCEPT ![a][Wiki] = t]
      BY SubOne
    <2> QED
      BY <1>2, <2>1
  <1> QED
    BY <1>1, <1>3

\* Only the sweep and a new attempt change these.
LEMMA SweepFramed ==
    ASSUME [Next]_vars, ~Sweep, ~ReparseOpen
    PROVE  UNCHANGED <<latest, sweep>>
  <1>1. ASSUME NEW a \in Attempts, DocStep(a) \/ PostStep(a) \/ DeadLetter(a) \/ DocCrash(a) \/ PostCrash(a)
        PROVE  UNCHANGED <<latest, sweep>>
    <2>1. CASE DocStep(a) \/ DeadLetter(a) \/ DocCrash(a) \/ PostCrash(a)
      BY <2>1 DEF DocStep, DocFrame, DocStart, DocMark, DocFail, DocError, DocGiveUp, DocCheck, DocSave,
                  DocEnqueue, DeadLetter, DocCrash, PostCrash
    <2>2. CASE PostStep(a)
      BY <2>2 DEF PostStep, PostFrame, PostStart, PostError, PostFast, PostSeed, PostFanOut, PostRelease,
                  PostPromote, PostEnd
    <2> QED
      BY <1>1, <2>1, <2>2
  <1>2. ASSUME NEW a \in Attempts, NEW k \in Kinds, SubStep(a, k) \/ SubCrash(a, k)
        PROVE  UNCHANGED <<latest, sweep>>
    BY <1>2 DEF SubStep, SubFrame, SubStart, SubRead, SubSave, SubWork, SubDrain, SubPromote, SubCrash
  <1>3. ASSUME CancelRead \/ DeleteMark \/ UserGoesOn
        PROVE  UNCHANGED <<latest, sweep>>
    BY <1>3 DEF Fails, UserGoesOn, UserFrame, CancelRead, DeleteMark, CancelWrite, Dequeue, DeletePurge,
                ReparsePending, ReparseReset, ReparseSubmit
  <1> QED
    BY <1>1, <1>2, <1>3 DEF Next, Crash, UserBegins, vars

LEMMA SweepStep ==
    ASSUME Typed, SweepOK, [Next]_vars
    PROVE  SweepOK'
  <1>t. latest \in Attempts /\ sweep \in [pc : {"idle", "fail"}, seen : 0..MaxAttempts] /\ MaxAttempts \in Nat
    BY KnowledgeLifecycleAssumption DEF Typed, TypeOK
  <1>1. CASE Sweep
    BY <1>1, <1>t DEF Sweep, SweepProbe, SweepFail, SweepFrame, NoSweep, SweepOK
  <1>2. CASE ReparseOpen
    BY <1>2, <1>t DEF ReparseOpen, UserFrame, SweepOK
  <1>3. CASE ~Sweep /\ ~ReparseOpen
    BY <1>3, SweepFramed DEF SweepOK
  <1> QED
    BY <1>1, <1>2, <1>3

LEMMA QuietStep ==
    ASSUME Typed, SweepOK, Quiet, [Next]_vars
    PROVE  Quiet'
  <1> SUFFICES ASSUME sweep'.pc = "fail", latest' <= sweep'.seen
               PROVE  ~HasQueuedTasks' /\ user' \notin {"pending", "reset", "submit"}
    BY DEF Quiet
  <1>t. latest \in Attempts /\ sweep.seen \in 0..MaxAttempts /\ MaxAttempts \in Nat
    BY KnowledgeLifecycleAssumption DEF Typed, TypeOK
  <1>1. CASE Sweep
    <2>1. SweepProbe
      BY <1>1 DEF Sweep, SweepFail, NoSweep
    <2> QED
      BY <2>1 DEF SweepProbe, SweepFrame, taskVars, HasQueuedTasks
  <1>2. CASE ReparseOpen
    BY <1>2, <1>t DEF ReparseOpen, UserFrame, SweepOK
  <1>3. CASE ~Sweep /\ ~ReparseOpen
    <2>1. UNCHANGED <<latest, sweep>>
      BY <1>3, SweepFramed
    <2>2. ~HasQueuedTasks /\ user \notin {"pending", "reset", "submit"}
      BY <2>1 DEF Quiet
    <2>3. CASE UNCHANGED <<doc, post, user>> /\ \A b \in Attempts, k \in Kinds \ {Wiki} : sub'[b][k] = sub[b][k]
      BY <2>2, <2>3 DEF HasQueuedTasks
    <2>4. ASSUME NEW a \in Attempts, NEW k \in Kinds, SubStep(a, k) \/ SubCrash(a, k)
          PROVE  UNCHANGED <<doc, post, user>> /\ \A b \in Attempts, l \in Kinds \ {Wiki} : sub'[b][l] = sub[b][l]
      BY <2>2, <2>4, NoTaskNoStep, WikiStep
    <2>5. CASE CancelRead \/ DeleteMark \/ CancelWrite
      BY <2>2, <2>5 DEF Fails, CancelRead, DeleteMark, CancelWrite, UserFrame, HasQueuedTasks
    <2>6. CASE DeletePurge
      BY <2>2, <2>6 DEF Fails, DeletePurge, UserFrame, ScrubWiki, WithoutWiki, HasQueuedTasks
    <2>7. CASE Dequeue
      <3>1. user' \in {"idle", "purge"}
        BY <2>7 DEF Dequeue
      <3>2. ~HasQueuedTasks'
        BY <2>2, <2>7, Dequeued DEF HasQueuedTasks, NoDoc, NoPost, NoSub
      <3> QED
        BY <3>1, <3>2
    <2>8. ~ReparsePending /\ ~ReparseReset /\ ~ReparseSubmit
      BY <2>2 DEF Fails, ReparsePending, ReparseReset, ReparseSubmit
    <2> QED
      BY <1>3, <2>2, <2>3, <2>4, <2>5, <2>6, <2>7, <2>8, NoTaskNoStep
         DEF Next, Crash, UserBegins, UserGoesOn, vars, taskVars
  <1> QED
    BY <1>1, <1>2, <1>3

\* The sweep fails no document of which a task is queued or active.
THEOREM SweptOrphan == Spec => SweptIsOrphan
  <1> DEFINE Inv == Typed /\ SweepOK /\ Quiet
  <1>1. Init => Inv
    BY InitTyped, KnowledgeLifecycleAssumption DEF Init, SweepOK, Quiet, NoSweep
  <1>2. Inv /\ [Next]_vars => Inv'
    BY StepTyped, SweepStep, QuietStep
  <1>3. Inv /\ [Next]_vars =>
          [row.status \in InPipeline /\ row'.status = "failed" /\ sweep.pc # sweep'.pc
             => ~HasQueuedTasks \/ latest > sweep.seen]_vars
    <2> SUFFICES ASSUME Inv, [Next]_vars, row.status \in InPipeline, row'.status = "failed",
                        sweep.pc # sweep'.pc
                 PROVE  ~HasQueuedTasks \/ latest > sweep.seen
      OBVIOUS
    <2>1. sweep.pc \in {"idle", "fail"} /\ latest \in Nat /\ sweep.seen \in Nat
      BY KnowledgeLifecycleAssumption DEF Typed, TypeOK
    <2>2. CASE sweep.pc = "fail"
      BY <2>1, <2>2 DEF Quiet
    <2>3. CASE sweep.pc = "idle"
      <3>1. sweep' # sweep /\ "failed" \notin InPipeline
        BY DEF InPipeline
      <3>2. Sweep
        BY <3>1, SweepFramed DEF ReparseOpen, UserFrame
      <3>3. UNCHANGED row
        BY <2>3, <3>2 DEF Sweep, SweepProbe, SweepFail
      <3> QED
        BY <3>1, <3>3
    <2> QED
      BY <2>1, <2>2, <2>3
  <1> QED
    BY <1>1, <1>2, <1>3, PTL DEF Spec, SweptIsOrphan

-----------------------------------------------------------------------------
(* The counter.                                                            *)

Reparsing == {"pending", "reset", "submit"}

\* What post-processing still has to do, by the step it is at.
Shape ==
    \A a \in Attempts :
        /\ post[a].pc \notin {"fanout", "promote"} => post[a].shortfall = 0
        /\ post[a].pc \notin {"seed", "fanout"} => post[a].todo = {}
        /\ post[a].pc = "fanout" => \A k \in post[a].todo : sub[a][k].pc = "none"

\* Each attempt is parsed, and then post-processed, once.
Fresh ==
    \A a \in Attempts :
        /\ doc[a].pc # "none" => post[a].pc = "none"
        /\ a > latest \/ (a = latest /\ user \in Reparsing) => doc[a].pc = "none" /\ post[a].pc = "none"

\* Nobody has seen a document finalizing before a counter was seeded.
Copied ==
    /\ row.status = "finalizing" => seeded # NoAttempt
    /\ \A a \in Attempts, k \in Kinds : sub[a][k].copy = "finalizing" => seeded # NoAttempt

Counted ==
    row.status = "finalizing" /\ "taken" \notin blame =>
        /\ post[seeded].pc # "seed"
        /\ row.count >= Outstanding(seeded)
        /\ blame = {} => row.count = Outstanding(seeded)

LEMMA DocOne ==
    ASSUME Typed, NEW a \in Attempts, DocStep(a) \/ DocCrash(a)
    PROVE  /\ doc[a].pc # "none" /\ UNCHANGED <<latest, sub, user>>
           /\ \E t \in DocTasks : doc' = [doc EXCEPT ![a] = t]
           /\ UNCHANGED post \/ (post' = [post EXCEPT ![a].pc = "queued"] /\ doc' = [doc EXCEPT ![a] = NoDoc])
  <1>1. doc[a].pc # "none"
    BY DEF DocStep, DocStart, DocMark, DocFail, DocError, DocGiveUp, DocCheck, DocSave, DocEnqueue, DocCrash, Idle
  <1>2. UNCHANGED <<latest, sub, user>>
    BY DEF DocStep, DocFrame, DocStart, DocMark, DocFail, DocError, DocGiveUp, DocCheck, DocSave, DocEnqueue,
           DocCrash
  <1>3. UNCHANGED post \/ (post' = [post EXCEPT ![a].pc = "queued"] /\ doc' = [doc EXCEPT ![a] = NoDoc])
    BY DEF DocStep, DocFrame, DocStart, DocMark, DocFail, DocError, DocGiveUp, DocCheck, DocSave, DocEnqueue,
           DocEnds, DocCrash
  <1>4. \E t : doc' = [doc EXCEPT ![a] = t]
    <2>1. CASE DocStart(a) \/ DocGiveUp(a) \/ DocCheck(a) \/ DocEnqueue(a)
      BY <2>1 DEF DocStart, DocGiveUp, DocCheck, DocEnqueue, DocEnds, DocGoes
    <2>2. CASE DocMark(a) \/ DocFail(a) \/ DocSave(a)
      BY <2>2 DEF DocMark, DocFail, DocSave, DocEnds, DocGoes
    <2>3. CASE DocError(a)
      BY <2>3 DEF DocError, DocGoes
    <2>4. CASE DocCrash(a)
      BY <2>4 DEF DocCrash
    <2> QED
      BY <2>1, <2>2, <2>3, <2>4 DEF DocStep
  <1>5. doc' \in [Attempts -> DocTasks] /\ doc \in [Attempts -> DocTasks]
    BY DocTyped DEF Next, Crash, Typed, TypeOK
  <1>6. \E t \in DocTasks : doc' = [doc EXCEPT ![a] = t]
    BY <1>4, <1>5
  <1> QED
    BY <1>1, <1>2, <1>3, <1>6

LEMMA PostOne ==
    ASSUME Typed, NEW a \in Attempts, PostStep(a) \/ PostCrash(a)
    PROVE  /\ post[a].pc # "none" /\ UNCHANGED <<latest, doc, user>>
           /\ \E t \in PostTasks : post' = [post EXCEPT ![a] = t]
  <1>1. post[a].pc # "none"
    BY DEF PostStep, PostStart, PostError, PostFast, PostSeed, PostFanOut, PostRelease, PostPromote, PostEnd,
           PostCrash, Idle
  <1>2. UNCHANGED <<latest, doc, user>>
    BY DEF PostStep, PostFrame, PostStart, PostError, PostFast, PostSeed, PostFanOut, PostRelease, PostPromote,
           PostEnd, PostCrash
  <1>3. \E t : post' = [post EXCEPT ![a] = t]
    <2> USE DEF PostEnds, PostGoes
    <2>1. CASE PostStart(a) \/ PostError(a) \/ PostFast(a)
      BY <2>1 DEF PostStart, PostError, PostFast
    <2>2. CASE PostSeed(a)
      BY <2>2 DEF PostSeed
    <2>3. ASSUME NEW k \in Kinds, PostFanOut(a, k)
          PROVE  \E t : post' = [post EXCEPT ![a] = t]
      BY <2>3 DEF PostFanOut
    <2>4. CASE PostRelease(a) \/ PostPromote(a) \/ PostEnd(a) \/ PostCrash(a)
      BY <2>4 DEF PostRelease, PostPromote, PostEnd, PostCrash
    <2> QED
      BY <2>1, <2>2, <2>3, <2>4 DEF PostStep
  <1>4. post' \in [Attempts -> PostTasks] /\ post \in [Attempts -> PostTasks]
    BY PostTyped DEF Next, Crash, Typed, TypeOK
  <1> QED
    BY <1>1, <1>2, <1>3, <1>4

\* Only these steps change the tasks of the document and of post-processing.
LEMMA SubKeepsTasks ==
    ASSUME Typed, NEW a \in Attempts, NEW k \in Kinds, SubStep(a, k) \/ SubCrash(a, k)
    PROVE  UNCHANGED <<latest, doc, post, user>> /\ sub[a][k].pc # "none"
  BY DEF SubStep, SubFrame, SubStart, SubRead, SubSave, SubWork, SubDrain, SubPromote, SubCrash, Idle

LEMMA FreshStep ==
    ASSUME Typed, Fresh, [Next]_vars
    PROVE  Fresh'
  <1>t. /\ latest \in Attempts /\ MaxAttempts \in Nat
        /\ doc \in [Attempts -> DocTasks] /\ post \in [Attempts -> PostTasks]
    BY KnowledgeLifecycleAssumption DEF Typed, TypeOK
  <1>1. ASSUME NEW a \in Attempts, DocStep(a) \/ DocCrash(a)
        PROVE  Fresh'
    BY <1>1, <1>t, DocOne DEF Fresh, NoDoc, Reparsing
  <1>2. ASSUME NEW a \in Attempts, PostStep(a) \/ PostCrash(a)
        PROVE  Fresh'
    BY <1>2, <1>t, PostOne DEF Fresh
  <1>3. ASSUME NEW a \in Attempts, DeadLetter(a)
        PROVE  Fresh'
    BY <1>3, <1>t DEF DeadLetter, DocEnds, NoDoc, NoPost, Fresh
  <1>4. ASSUME NEW a \in Attempts, NEW k \in Kinds, SubStep(a, k) \/ SubCrash(a, k)
        PROVE  Fresh'
    BY <1>4, SubKeepsTasks DEF Fresh
  <1>5. CASE UserBegins
    BY <1>5, <1>t DEF UserBegins, CancelRead, DeleteMark, ReparseOpen, UserFrame, Fresh, Reparsing
  <1>6. CASE CancelWrite \/ DeletePurge \/ ReparsePending \/ ReparseReset
    BY <1>6, <1>t DEF Fails, CancelWrite, DeletePurge, ReparsePending, ReparseReset, UserFrame, Fresh, Reparsing
  <1>7. CASE ReparseSubmit
    BY <1>7, <1>t DEF ReparseSubmit, Fresh, Reparsing
  <1>8. CASE Dequeue
    <2>1. latest' = latest /\ user' \notin Reparsing
      BY <1>8 DEF Dequeue, Reparsing
    <2>2. ASSUME NEW a \in Attempts
          PROVE  /\ doc'[a].pc # "none" => doc[a].pc # "none"
                 /\ post'[a].pc # "none" => post[a].pc # "none"
      BY <1>8, Dequeued DEF NoDoc, NoPost
    <2> QED
      BY <2>1, <2>2 DEF Fresh
  <1>9. CASE Sweep \/ UNCHANGED vars
    BY <1>9 DEF Sweep, SweepProbe, SweepFail, SweepFrame, vars, taskVars, Fresh
  <1> QED
    BY <1>1, <1>2, <1>3, <1>4, <1>5, <1>6, <1>7, <1>8, <1>9 DEF Next, Crash, UserGoesOn

\* What Shape says of one attempt.
ShapeOf(p, subs) ==
    /\ p.pc \notin {"fanout", "promote"} => p.shortfall = 0
    /\ p.pc \notin {"seed", "fanout"} => p.todo = {}
    /\ p.pc = "fanout" => \A k \in p.todo : subs[k].pc = "none"

LEMMA PostFields ==
    ASSUME NEW p \in PostTasks, NEW x, NEW y, NEW n
    PROVE  /\ [p EXCEPT !.pc = x].pc = x /\ [p EXCEPT !.pc = x].todo = p.todo
           /\ [p EXCEPT !.pc = x].shortfall = p.shortfall
           /\ [p EXCEPT !.tries = x].pc = p.pc /\ [p EXCEPT !.tries = x].todo = p.todo
           /\ [p EXCEPT !.tries = x].shortfall = p.shortfall
           /\ [p EXCEPT !.pc = x, !.todo = y].pc = x /\ [p EXCEPT !.pc = x, !.todo = y].todo = y
           /\ [p EXCEPT !.pc = x, !.todo = y].shortfall = p.shortfall
           /\ [p EXCEPT !.todo = y].pc = p.pc /\ [p EXCEPT !.todo = y].todo = y
           /\ [p EXCEPT !.todo = y].shortfall = p.shortfall
           /\ [p EXCEPT !.todo = y, !.shortfall = n].pc = p.pc /\ [p EXCEPT !.todo = y, !.shortfall = n].todo = y
           /\ [p EXCEPT !.todo = y, !.shortfall = n].shortfall = n
           /\ [p EXCEPT !.pc = x, !.shortfall = n].pc = x /\ [p EXCEPT !.pc = x, !.shortfall = n].todo = p.todo
           /\ [p EXCEPT !.pc = x, !.shortfall = n].shortfall = n
  BY DEF PostTasks

LEMMA FanOutFields ==
    ASSUME Typed, NEW a \in Attempts, NEW k \in Kinds, PostFanOut(a, k)
    PROVE  /\ post[a].pc = "fanout" /\ post'[a].pc = "fanout" /\ k \in post[a].todo
           /\ post'[a].todo = post[a].todo \ {k}
           /\ \A l \in Kinds \ {k} : sub'[a][l] = sub[a][l]
           /\ \/ /\ sub'[a][k] = QueuedSub(0, FALSE) /\ post'[a].shortfall = post[a].shortfall
                 /\ UNCHANGED history
              \/ /\ UNCHANGED <<sub, history>> /\ post'[a].shortfall = post[a].shortfall + 1
              \/ /\ UNCHANGED sub /\ post'[a].shortfall = post[a].shortfall
                 /\ Blame(a = seeded, "lost")
           /\ UNCHANGED row
  <1>t. post \in [Attempts -> PostTasks] /\ sub \in [Attempts -> [Kinds -> SubTasks]] /\ post[a] \in PostTasks
    BY DEF Typed, TypeOK
  <1>p. post[a].pc = "fanout" /\ k \in post[a].todo /\ UNCHANGED row
    BY DEF PostFanOut
  <1>1. CASE /\ sub' = [sub EXCEPT ![a][k] = QueuedSub(0, FALSE)]
             /\ post' = [post EXCEPT ![a].todo = @ \ {k}]
             /\ UNCHANGED history
    <2>1. post'[a] = [post[a] EXCEPT !.todo = post[a].todo \ {k}]
      BY <1>t, <1>1
    <2>2. sub'[a] = [sub[a] EXCEPT ![k] = QueuedSub(0, FALSE)] /\ sub[a] \in [Kinds -> SubTasks]
      BY <1>t, <1>1
    <2>3. sub'[a][k] = QueuedSub(0, FALSE) /\ \A l \in Kinds \ {k} : sub'[a][l] = sub[a][l]
      BY <2>2
    <2>4. post'[a].pc = post[a].pc /\ post'[a].todo = post[a].todo \ {k} /\ post'[a].shortfall = post[a].shortfall
      BY <1>t, <2>1, PostFields
    <2> QED
      BY <1>p, <1>1, <2>3, <2>4
  <1>2. CASE /\ post' = [post EXCEPT ![a].todo = @ \ {k}, ![a].shortfall = @ + 1]
             /\ UNCHANGED <<sub, history>>
    <2>1. post'[a] = [post[a] EXCEPT !.todo = post[a].todo \ {k}, !.shortfall = post[a].shortfall + 1]
      BY <1>t, <1>2 DEF PostTasks
    <2>2. post'[a].pc = post[a].pc /\ post'[a].todo = post[a].todo \ {k} /\ post'[a].shortfall = post[a].shortfall + 1
      BY <1>t, <2>1, PostFields
    <2> QED
      BY <1>p, <1>2, <2>2
  <1>3. CASE /\ post' = [post EXCEPT ![a].todo = @ \ {k}]
             /\ Blame(a = seeded, "lost") /\ UNCHANGED sub
    <2>1. post'[a] = [post[a] EXCEPT !.todo = post[a].todo \ {k}]
      BY <1>t, <1>3
    <2>2. post'[a].pc = post[a].pc /\ post'[a].todo = post[a].todo \ {k} /\ post'[a].shortfall = post[a].shortfall
      BY <1>t, <2>1, PostFields
    <2> QED
      BY <1>p, <1>3, <2>2
  <1> QED
    BY <1>1, <1>2, <1>3 DEF PostFanOut

LEMMA ReleaseFields ==
    ASSUME Typed, NEW a \in Attempts, PostRelease(a)
    PROVE  /\ post[a].pc = "fanout" /\ post[a].todo = {} /\ post[a].shortfall > 0
           /\ \/ /\ row' = Decremented(row) /\ Blame(a # seeded /\ row.count > 0, "taken")
                 /\ post'[a].pc = "promote" /\ post'[a].todo = {}
                 /\ post'[a].shortfall = post[a].shortfall - 1
              \/ UNCHANGED row /\ Blame(a = seeded, "lost") /\ post'[a] = NoPost
           /\ UNCHANGED sub
  <1>t. post \in [Attempts -> PostTasks] /\ post[a] \in PostTasks
    BY DEF Typed, TypeOK
  <1>1. CASE post' = [post EXCEPT ![a].pc = "promote", ![a].shortfall = @ - 1]
    <2>1. post'[a] = [post[a] EXCEPT !.pc = "promote", !.shortfall = post[a].shortfall - 1]
      BY <1>t, <1>1 DEF PostTasks
    <2>2. post'[a].pc = "promote" /\ post'[a].todo = post[a].todo /\ post'[a].shortfall = post[a].shortfall - 1
      BY <1>t, <2>1, PostFields
    <2>3. ASSUME PostEnds(a)
          PROVE  FALSE
      <3>1. post'[a] = NoPost
        BY <1>t, <2>3 DEF PostEnds
      <3> QED
        BY <2>2, <3>1 DEF NoPost
    <2> QED
      BY <2>2, <2>3 DEF PostRelease, Write
  <1>2. CASE post' = [post EXCEPT ![a] = NoPost] /\ Blame(a = seeded, "lost") /\ UNCHANGED row
    BY <1>t, <1>2 DEF PostRelease, PostFrame
  <1> QED
    BY <1>1, <1>2 DEF PostRelease, PostEnds

LEMMA PromoteFields ==
    ASSUME Typed, NEW a \in Attempts, PostPromote(a)
    PROVE  /\ post[a].pc = "promote"
           /\ \/ /\ row' = Promoted(row) /\ UNCHANGED history
                 /\ post'[a].pc = "fanout" /\ post'[a].todo = post[a].todo
                 /\ post'[a].shortfall = post[a].shortfall
              \/ /\ UNCHANGED row /\ post'[a] = NoPost
                 /\ Blame(a = seeded /\ post[a].shortfall > 0, "lost")
           /\ UNCHANGED sub
  <1>t. post \in [Attempts -> PostTasks] /\ post[a] \in PostTasks
    BY DEF Typed, TypeOK
  <1>1. ASSUME PostGoes(a, "fanout")
        PROVE  post'[a] = [post[a] EXCEPT !.pc = "fanout"]
    BY <1>1, <1>t DEF PostGoes
  <1>2. ASSUME PostEnds(a)
        PROVE  post'[a] = NoPost
    BY <1>2, <1>t DEF PostEnds
  <1>3. CASE Write(Promoted(row)) /\ PostGoes(a, "fanout") /\ UNCHANGED history
    <2>2. post'[a] = [post[a] EXCEPT !.pc = "fanout"]
      BY <1>1, <1>3
    <2>1. post'[a].pc = "fanout" /\ post'[a].todo = post[a].todo /\ post'[a].shortfall = post[a].shortfall
      BY <1>t, <2>2, PostFields
    <2> QED
      BY <1>3, <2>1 DEF PostPromote, Write
  <1>4. CASE PostEnds(a) /\ Blame(a = seeded /\ post[a].shortfall > 0, "lost") /\ UNCHANGED row
    BY <1>2, <1>4 DEF PostPromote
  <1> QED
    BY <1>3, <1>4 DEF PostPromote

LEMMA PostShape ==
    ASSUME Typed, Shape, NEW a \in Attempts, PostStep(a) \/ PostCrash(a)
    PROVE  ShapeOf(post'[a], sub'[a])
  <1>t. post \in [Attempts -> PostTasks] /\ sub \in [Attempts -> [Kinds -> SubTasks]] /\ post[a] \in PostTasks
    BY DEF Typed, TypeOK
  <1>s. ShapeOf(post[a], sub[a])
    BY DEF Shape, ShapeOf
  <1>n. ShapeOf(NoPost, sub'[a]) /\ \A n \in Nat : ShapeOf(QueuedPost(n), sub'[a])
    BY DEF ShapeOf, NoPost, QueuedPost
  <1>e. ASSUME PostEnds(a)
        PROVE  post'[a] = NoPost
    BY <1>e, <1>t DEF PostEnds
  <1>g. ASSUME NEW pc, PostGoes(a, pc)
        PROVE  post'[a].pc = pc /\ post'[a].todo = post[a].todo /\ post'[a].shortfall = post[a].shortfall
    <2>1. post'[a] = [post[a] EXCEPT !.pc = pc]
      BY <1>g, <1>t DEF PostGoes
    <2> QED
      BY <1>t, <2>1, PostFields
  <1>1. CASE PostStart(a)
    <2>1. CASE row.status = "processing"
      <3>1. PICK plan \in Plans :
              post'[a] = [post[a] EXCEPT !.pc = IF plan = {} THEN "fast" ELSE "seed", !.todo = plan]
        BY <1>t, <1>1, <2>1 DEF PostStart
      <3>2. /\ post'[a].pc = IF plan = {} THEN "fast" ELSE "seed"
            /\ post'[a].todo = plan /\ post'[a].shortfall = post[a].shortfall
        BY <1>t, <3>1, PostFields
      <3>3. post[a].pc = "queued"
        BY <1>1 DEF PostStart
      <3> QED
        BY <1>s, <3>2, <3>3 DEF ShapeOf
    <2>2. CASE row.status # "processing"
      BY <1>1, <1>n, <1>e, <2>2 DEF PostStart
    <2> QED
      BY <2>1, <2>2
  <1>2. CASE PostError(a)
    <2>1. CASE post' = [post EXCEPT ![a].tries = @ + 1]
      <3>1. post'[a] = [post[a] EXCEPT !.tries = post[a].tries + 1]
        BY <1>t, <2>1
      <3> QED
        BY <1>t, <1>s, <1>2, <3>1, PostFields DEF PostError, ShapeOf
    <2> QED
      BY <1>2, <1>s, <1>g, <2>1 DEF PostError, ShapeOf
  <1>3. CASE PostFast(a) \/ PostEnd(a)
    BY <1>3, <1>n, <1>e DEF PostFast, PostEnd
  <1>4. CASE PostSeed(a)
    BY <1>4, <1>s, <1>n, <1>e, <1>g DEF PostSeed, PostFrame, ShapeOf
  <1>5. ASSUME NEW k \in Kinds, PostFanOut(a, k)
        PROVE  ShapeOf(post'[a], sub'[a])
    <2>1. post[a].todo \subseteq Kinds
      BY <1>t DEF PostTasks
    <2>2. /\ post[a].pc = "fanout" /\ post'[a].pc = "fanout" /\ post'[a].todo = post[a].todo \ {k}
          /\ \A l \in Kinds \ {k} : sub'[a][l] = sub[a][l]
      BY <1>5, FanOutFields
    <2> QED
      BY <1>s, <2>1, <2>2 DEF ShapeOf
  <1>6. CASE PostRelease(a)
    BY <1>6, <1>n, ReleaseFields DEF ShapeOf
  <1>7. CASE PostPromote(a)
    BY <1>7, <1>s, <1>n, PromoteFields DEF ShapeOf
  <1>9. CASE PostCrash(a)
    <2>1. post[a].tries + 1 \in Nat
      BY <1>t DEF PostTasks
    <2>2. post'[a] \in {NoPost, QueuedPost(post[a].tries + 1)}
      BY <1>9, <1>t DEF PostCrash
    <2> QED
      BY <1>n, <2>1, <2>2
  <1> QED
    BY <1>1, <1>2, <1>3, <1>4, <1>5, <1>6, <1>7, <1>9 DEF PostStep

\* Post-processing of one attempt leaves the subtasks of the others alone.
LEMMA PostKeepsOthers ==
    ASSUME Typed, NEW a \in Attempts, NEW b \in Attempts \ {a}, PostStep(a) \/ PostCrash(a)
    PROVE  post'[b] = post[b] /\ sub'[b] = sub[b]
  <1>t. post \in [Attempts -> PostTasks] /\ sub \in [Attempts -> [Kinds -> SubTasks]]
    BY DEF Typed, TypeOK
  <1>1. post'[b] = post[b]
    <2>1. PICK t : post' = [post EXCEPT ![a] = t]
      BY PostOne
    <2> QED
      BY <1>t, <2>1
  <1>2. ASSUME NEW k \in Kinds, PostFanOut(a, k)
        PROVE  sub'[b] = sub[b]
    BY <1>2, <1>t DEF PostFanOut
  <1>3. ASSUME ~\E k \in Kinds : PostFanOut(a, k)
        PROVE  sub' = sub
    BY <1>3 DEF PostStep, PostStart, PostError, PostFast, PostSeed, PostRelease, PostPromote, PostEnd, PostCrash
  <1> QED
    BY <1>1, <1>2, <1>3

LEMMA ShapeStep ==
    ASSUME Typed, Fresh, Shape, [Next]_vars
    PROVE  Shape'
  <1>t. post \in [Attempts -> PostTasks] /\ sub \in [Attempts -> [Kinds -> SubTasks]]
    BY DEF Typed, TypeOK
  <1> SUFFICES ASSUME NEW b \in Attempts
               PROVE  ShapeOf(post'[b], sub'[b])
    BY DEF Shape, ShapeOf
  <1>s. ShapeOf(post[b], sub[b])
    BY DEF Shape, ShapeOf
  <1>1. ASSUME NEW a \in Attempts, DocStep(a) \/ DocCrash(a)
        PROVE  ShapeOf(post'[b], sub'[b])
    <2>1. sub' = sub /\ post[a].pc = "none"
      BY <1>1, DocOne DEF Fresh
    <2>2. CASE post' = [post EXCEPT ![a].pc = "queued"]
      <3>1. ShapeOf(post[a], sub[a])
        BY DEF Shape, ShapeOf
      <3>2. post'[b] = IF b = a THEN [post[a] EXCEPT !.pc = "queued"] ELSE post[b]
        BY <1>t, <2>2
      <3> QED
        BY <1>s, <1>t, <2>1, <3>1, <3>2 DEF ShapeOf, PostTasks
    <2> QED
      BY <1>1, <1>s, <2>1, <2>2, DocOne
  <1>2. ASSUME NEW a \in Attempts, PostStep(a) \/ PostCrash(a)
        PROVE  ShapeOf(post'[b], sub'[b])
    <2>1. CASE b = a
      BY <1>2, <2>1, PostShape
    <2>2. CASE b # a
      BY <1>2, <1>s, <2>2, PostKeepsOthers
    <2> QED
      BY <2>1, <2>2
  <1>3. ASSUME NEW a \in Attempts, DeadLetter(a)
        PROVE  ShapeOf(post'[b], sub'[b])
    <2>1. sub' = sub /\ post'[b] \in {NoPost, post[b]}
      BY <1>3, <1>t DEF DeadLetter
    <2> QED
      BY <1>s, <2>1 DEF NoPost, ShapeOf
  <1>4. ASSUME NEW a \in Attempts, NEW k \in Kinds, SubStep(a, k) \/ SubCrash(a, k)
        PROVE  ShapeOf(post'[b], sub'[b])
    <2>1. post' = post /\ sub[a][k].pc # "none"
      BY <1>4, SubKeepsTasks
    <2>2. PICK t \in SubTasks : sub' = [sub EXCEPT ![a][k] = t]
      BY <1>4, SubOne
    <2>3. post[b].todo \subseteq Kinds
      BY <1>t DEF PostTasks
    <2> QED
      BY <1>s, <1>t, <2>1, <2>2, <2>3 DEF ShapeOf
  <1>5. CASE Dequeue \/ DeletePurge \/ ReparseOpen
    <2>1. /\ post'[b] \in {NoPost, post[b]}
          /\ \A k \in Kinds : sub'[b][k] \in {NoSub, sub[b][k]}
      BY <1>5, Dequeued DEF Fails, DeletePurge, ReparseOpen, UserFrame, ScrubWiki, WithoutWiki
    <2>2. post[b].todo \subseteq Kinds
      BY <1>t DEF PostTasks
    <2> QED
      BY <1>s, <2>1, <2>2 DEF ShapeOf, NoPost, NoSub
  <1>6. CASE \/ CancelRead \/ DeleteMark \/ CancelWrite \/ ReparsePending \/ ReparseReset \/ ReparseSubmit
             \/ Sweep \/ UNCHANGED vars
    <2>1. UNCHANGED <<post, sub>>
      BY <1>6 DEF Fails, CancelRead, DeleteMark, CancelWrite, ReparsePending, ReparseReset, ReparseSubmit, UserFrame,
                  Sweep, SweepProbe, SweepFail, SweepFrame, vars, taskVars
    <2> QED
      BY <2>1, <1>s
  <1> QED
    BY <1>1, <1>2, <1>3, <1>4, <1>5, <1>6 DEF Next, Crash, UserBegins, UserGoesOn

\* The history: only seeding starts it anew.
LEMMA BlameEffect ==
    ASSUME NEW guilty, NEW b, Blame(guilty, b)
    PROVE  /\ seeded' = seeded /\ blame \subseteq blame'
           /\ blame' = blame \/ blame' = blame \cup {b}
           /\ guilty /\ seeded # NoAttempt => b \in blame'
           /\ ~guilty => blame' = blame
  BY DEF Blame

LEMMA SetTo ==
    ASSUME row \in Rows, NEW s, row' = SetStatus(row, s)
    PROVE  row' = row \/ (row'.status = s /\ row'.count = row.count)
  BY DEF SetStatus, Rows

\* No step of a document task makes the document finalizing.
LEMMA DocEffect ==
    ASSUME Typed, NEW a \in Attempts, DocStep(a) \/ DocCrash(a) \/ DeadLetter(a)
    PROVE  /\ UNCHANGED sub
           /\ seeded' = seeded /\ blame \subseteq blame'
           /\ row'.status = "finalizing" => row' = row
  <1>t. row \in Rows
    BY DEF Typed, TypeOK
  <1>1. CASE DocStart(a) \/ DocGiveUp(a) \/ DocCheck(a) \/ DocEnqueue(a) \/ DocCrash(a)
    BY <1>1 DEF DocStart, DocGiveUp, DocCheck, DocEnqueue, DocCrash, DocFrame, history
  <1>2. CASE DocMark(a) \/ DocFail(a) \/ DocError(a) \/ DeadLetter(a)
    BY <1>2, <1>t, SetTo DEF DocMark, DocFail, DocError, DeadLetter, DocFrame, history, Write
  <1>3. CASE DocSave(a)
    <2>1. seeded' = seeded /\ blame \subseteq blame'
      BY <1>3, BlameEffect DEF DocSave
    <2>2. PICK s \in {"processing", "completed"} : row' = SetStatus(row, s)
      BY <1>3 DEF DocSave, Write
    <2>3. row'.status = "finalizing" => row' = row
      BY <1>t, <2>2, SetTo
    <2> QED
      BY <1>3, <2>1, <2>3 DEF DocSave
  <1> QED
    BY <1>1, <1>2, <1>3 DEF DocStep

\* A subtask saves what it has read, or drains.
LEMMA SubEffect ==
    ASSUME Typed, NEW a \in Attempts, NEW k \in Kinds, SubStep(a, k) \/ SubCrash(a, k)
    PROVE  /\ seeded' = seeded /\ blame \subseteq blame'
           /\ \/ row' = row
              \/ row' = Decremented(row)
              \/ row' = Promoted(row)
              \/ row' = SetStatus(row, sub[a][k].copy)
  <1>1. seeded' = seeded /\ blame \subseteq blame'
    <2>1. CASE SubStart(a, k) \/ SubRead(a, k) \/ SubPromote(a, k)
      BY <2>1, BlameEffect DEF SubStart, SubRead, SubPromote, history
    <2>2. CASE SubSave(a, k) \/ SubWork(a, k)
      BY <2>2, BlameEffect DEF SubSave, SubWork, SaveCopy, history
    <2>3. CASE SubDrain(a, k) \/ SubCrash(a, k)
      BY <2>3, BlameEffect DEF SubDrain, SubCrash, history
    <2> QED
      BY <2>1, <2>2, <2>3 DEF SubStep
  <1>2. \/ row' = row
        \/ row' = Decremented(row)
        \/ row' = Promoted(row)
        \/ row' = SetStatus(row, sub[a][k].copy)
    BY DEF SubStep, SubStart, SubRead, SubSave, SubWork, SubDrain, SubPromote, SubCrash, SaveCopy, Write
  <1> QED
    BY <1>1, <1>2

\* The user and the sweep do not make a document finalizing, either.
LEMMA OtherEffect ==
    ASSUME Typed, UserBegins \/ UserGoesOn \/ Sweep
    PROVE  /\ seeded' = seeded /\ blame \subseteq blame'
           /\ row'.status = "finalizing" => row.status = "finalizing"
           /\ row'.status = "finalizing" /\ ~ReparseReset => row' = row
  <1>t. row \in Rows
    BY DEF Typed, TypeOK
  <1>1. CASE CancelRead \/ ReparseSubmit \/ ReparseOpen \/ Dequeue
    BY <1>1, BlameEffect DEF CancelRead, ReparseSubmit, ReparseOpen, Dequeue, ScrubWiki, history
  <1>2. CASE DeleteMark \/ ReparsePending
    BY <1>2, <1>t, SetTo DEF Fails, DeleteMark, ReparsePending, Write, history
  <1>3. CASE CancelWrite
    BY <1>3, <1>t DEF Fails, CancelWrite, Write, history, Rows, SetStatus, ResetCount
  <1>4. CASE DeletePurge
    BY <1>4, <1>t, BlameEffect DEF Fails, DeletePurge, ScrubWiki, Write, Rows
  <1>5. CASE ReparseReset
    BY <1>5, <1>t, BlameEffect DEF Fails, ReparseReset, Write, Rows, ResetCount, history
  <1>6. CASE Sweep
    BY <1>6, <1>t DEF Sweep, SweepProbe, SweepFail, SweepFrame, Write, history
  <1> QED
    BY <1>1, <1>2, <1>3, <1>4, <1>5, <1>6 DEF UserBegins, UserGoesOn

\* SetFinalizing has found the document processing.
Seeds(a) ==
    /\ post[a].pc = "seed" /\ row.status = "processing" /\ seeded' = a
    /\ row' = [status |-> "finalizing", count |-> Cardinality(post[a].todo)]
    /\ blame' = IF \A k \in Kinds : sub[a][k].pc = "none" THEN {} ELSE {"taken"}
    /\ PostGoes(a, "fanout")
    /\ UNCHANGED sub

\* Post-processing seeds the counter, releases a slot, or ends.
LEMMA PostEffect ==
    ASSUME Typed, NEW a \in Attempts, PostStep(a) \/ PostCrash(a), ~Seeds(a)
    PROVE  /\ seeded' = seeded /\ blame \subseteq blame'
           /\ \/ row' = row
              \/ row' = Decremented(row)
              \/ row' = Promoted(row)
              \/ row'.status # "finalizing"
  <1>t. row \in Rows
    BY DEF Typed, TypeOK
  <1>1. CASE PostStart(a) \/ PostError(a) \/ PostEnd(a)
    BY <1>1 DEF PostStart, PostError, PostEnd, history
  <1>2. CASE PostFast(a)
    <2>1. seeded' = seeded /\ blame \subseteq blame'
      BY <1>2, BlameEffect DEF PostFast
    <2>2. row' = SetStatus(row, "completed")
      BY <1>2 DEF PostFast, Write
    <2> QED
      BY <1>t, <2>1, <2>2, SetTo
  <1>3. CASE PostSeed(a)
    BY <1>3 DEF PostSeed, Seeds, PostFrame, Write, history
  <1>4. ASSUME NEW k \in Kinds, PostFanOut(a, k)
        PROVE  seeded' = seeded /\ blame \subseteq blame' /\ row' = row
    BY <1>4, BlameEffect DEF PostFanOut, history
  <1>5. CASE PostRelease(a)
    BY <1>5, BlameEffect DEF PostRelease, Write
  <1>6. CASE PostPromote(a)
    BY <1>6, BlameEffect DEF PostPromote, Write, history
  <1>7. CASE PostCrash(a)
    BY <1>7, BlameEffect DEF PostCrash
  <1> QED
    BY <1>1, <1>2, <1>3, <1>4, <1>5, <1>6, <1>7 DEF PostStep

\* Counting and promoting do not make a document finalizing.
LEMMA CountStatus ==
    ASSUME row \in Rows, row' = Decremented(row) \/ row' = Promoted(row), row'.status = "finalizing"
    PROVE  row.status = "finalizing" /\ (row' = Promoted(row) => row' = row)
  BY DEF Rows, Decremented, Promoted

\* What a subtask keeps of the row it has read.
LEMMA CopyOf ==
    ASSUME Typed, NEW a \in Attempts, NEW k \in Kinds, SubStep(a, k) \/ SubCrash(a, k)
    PROVE  sub'[a][k].copy \in {"none", row.status, sub[a][k].copy}
  <1>t. sub \in [Attempts -> [Kinds -> SubTasks]] /\ sub[a][k] \in SubTasks
    BY DEF Typed, TypeOK
  <1>g. ASSUME NEW pc, SubGoes(a, k, pc)
        PROVE  sub'[a][k].copy = sub[a][k].copy
    <2>1. sub'[a][k] = [sub[a][k] EXCEPT !.pc = pc]
      BY <1>g, <1>t DEF SubGoes
    <2> QED
      BY <1>t, <2>1 DEF SubTasks
  <1>i. ASSUME NEW s, SubIs(a, k, s)
        PROVE  sub'[a][k] = s
    BY <1>i, <1>t DEF SubIs
  <1>n. NoSub.copy = "none" /\ \A n, b : QueuedSub(n, b).copy = "none"
    BY DEF NoSub, QueuedSub
  <1>1. CASE SubStart(a, k)
    BY <1>1, <1>g, <1>i, <1>n DEF SubStart
  <1>2. CASE SubRead(a, k)
    <2>1. CASE SubIs(a, k, [sub[a][k] EXCEPT !.pc = IF k = Summary THEN "save" ELSE "work",
                                             !.copy = IF k = Summary THEN row.status ELSE @])
      <3>1. sub'[a][k] = [sub[a][k] EXCEPT !.pc = IF k = Summary THEN "save" ELSE "work",
                                           !.copy = IF k = Summary THEN row.status ELSE @]
        BY <2>1, <1>i
      <3> QED
        BY <1>t, <3>1 DEF SubTasks
    <2> QED
      BY <1>2, <1>g, <2>1 DEF SubRead
  <1>3. CASE SubSave(a, k)
    BY <1>3, <1>g DEF SubSave
  <1>4. CASE SubWork(a, k)
    BY <1>4, <1>g, <1>i, <1>n DEF SubWork, SubEnds
  <1>5. CASE SubDrain(a, k)
    BY <1>5, <1>g, <1>i, <1>n DEF SubDrain
  <1>6. CASE SubPromote(a, k)
    BY <1>6, <1>i, <1>n DEF SubPromote
  <1>7. CASE SubCrash(a, k)
    BY <1>7, <1>i, <1>n DEF SubCrash
  <1> QED
    BY <1>1, <1>2, <1>3, <1>4, <1>5, <1>6, <1>7 DEF SubStep

LEMMA CopiedStep ==
    ASSUME Typed, Copied, [Next]_vars
    PROVE  Copied'
  <1>t. /\ sub \in [Attempts -> [Kinds -> SubTasks]] /\ row \in Rows
        /\ 0 \notin Attempts
    BY KnowledgeLifecycleAssumption DEF Typed, TypeOK
  <1>n. NoSub.copy = "none" /\ QueuedSub(0, FALSE).copy = "none"
    BY DEF NoSub, QueuedSub
  <1>1. ASSUME NEW a \in Attempts, DocStep(a) \/ DocCrash(a) \/ DeadLetter(a)
        PROVE  Copied'
    BY <1>1, DocEffect DEF Copied
  <1>2. ASSUME NEW a \in Attempts, PostStep(a) \/ PostCrash(a)
        PROVE  Copied'
    <2>1. \A b \in Attempts, k \in Kinds : sub'[b][k].copy \in {"none", sub[b][k].copy}
      <3>1. ASSUME NEW k \in Kinds, PostFanOut(a, k)
            PROVE  sub' = sub \/ sub' = [sub EXCEPT ![a][k] = QueuedSub(0, FALSE)]
        BY <3>1 DEF PostFanOut
      <3>2. ASSUME ~\E k \in Kinds : PostFanOut(a, k)
            PROVE  sub' = sub
        BY <1>2, <3>2 DEF PostStep, PostStart, PostError, PostFast, PostSeed, PostRelease, PostPromote, PostEnd,
                          PostCrash
      <3>3. CASE sub' = sub
        BY <3>3
      <3>4. ASSUME NEW k \in Kinds, sub' = [sub EXCEPT ![a][k] = QueuedSub(0, FALSE)]
            PROVE  \A b \in Attempts, l \in Kinds : sub'[b][l].copy \in {"none", sub[b][l].copy}
        BY <3>4, <1>t, <1>n
      <3> QED
        BY <3>1, <3>2, <3>3, <3>4
    <2>2. seeded # 0 => seeded' # 0
      BY <1>2, <1>t, PostEffect DEF Seeds
    <2>3. row'.status = "finalizing" => seeded' # 0
      BY <1>2, <1>t, <2>2, PostEffect, CountStatus DEF Seeds, Copied
    <2> QED
      BY <2>1, <2>2, <2>3 DEF Copied
  <1>3. ASSUME NEW a \in Attempts, NEW k \in Kinds, SubStep(a, k) \/ SubCrash(a, k)
        PROVE  Copied'
    <2>1. PICK t \in SubTasks : sub' = [sub EXCEPT ![a][k] = t]
      BY <1>3, SubOne
    <2>2. sub'[a][k].copy \in {"none", row.status, sub[a][k].copy}
      BY <1>3, CopyOf
    <2>3. ASSUME NEW b \in Attempts, NEW l \in Kinds, sub'[b][l].copy = "finalizing"
          PROVE  seeded # 0
      BY <1>t, <2>1, <2>2, <2>3 DEF Copied
    <2>4. row'.status = "finalizing" => seeded # 0
      <3>1. CASE row' = SetStatus(row, sub[a][k].copy)
        BY <1>t, <3>1, SetTo DEF Copied
      <3> QED
        BY <1>3, <1>t, <3>1, SubEffect, CountStatus DEF Copied
    <2> QED
      BY <1>3, <2>3, <2>4, SubEffect DEF Copied
  <1>4. CASE UserBegins \/ UserGoesOn \/ Sweep
    <2>1. \A b \in Attempts, k \in Kinds : sub'[b][k] \in {NoSub, sub[b][k]}
      <3>1. CASE Dequeue
        BY <3>1, Dequeued
      <3>2. CASE DeletePurge \/ ReparseOpen
        BY <3>2, <1>t DEF Fails, DeletePurge, ReparseOpen, ScrubWiki, WithoutWiki
      <3>3. CASE \/ CancelRead \/ DeleteMark \/ CancelWrite \/ ReparsePending \/ ReparseReset \/ ReparseSubmit
                 \/ Sweep
        BY <3>3 DEF Fails, CancelRead, DeleteMark, CancelWrite, ReparsePending, ReparseReset, ReparseSubmit,
                    Sweep, SweepProbe, SweepFail, SweepFrame, taskVars
      <3> QED
        BY <1>4, <3>1, <3>2, <3>3 DEF UserBegins, UserGoesOn
    <2> QED
      BY <1>4, <1>n, <2>1, OtherEffect DEF Copied
  <1>5. CASE UNCHANGED vars
    BY <1>5 DEF vars, taskVars, history, Copied
  <1> QED
    BY <1>1, <1>2, <1>3, <1>4, <1>5 DEF Next, Crash

-----------------------------------------------------------------------------
(* The slots outstanding, as a number computed from the tasks of one attempt. *)

Pays(t) == t.pc \in {"queued", "started", "save", "work", "drain"} /\ ~t.drained

Payers(f) == {k \in Kinds : Pays(f[k])}

Slots(p, f) == Cardinality(p.todo) + p.shortfall + Cardinality(Payers(f))

LEMMA SlotsNat ==
    ASSUME NEW p \in PostTasks, NEW f
    PROVE  /\ IsFiniteSet(p.todo) /\ IsFiniteSet(Payers(f))
           /\ Cardinality(p.todo) \in Nat /\ Cardinality(Payers(f)) \in Nat
           /\ p.shortfall \in Nat /\ Slots(p, f) \in Nat
  <1>1. p.todo \subseteq Kinds /\ Payers(f) \subseteq Kinds /\ p.shortfall \in Nat
    BY DEF PostTasks, Payers
  <1>2. IsFiniteSet(p.todo) /\ IsFiniteSet(Payers(f))
    BY <1>1, KnowledgeLifecycleAssumption, FS_Subset
  <1>3. Cardinality(p.todo) \in Nat /\ Cardinality(Payers(f)) \in Nat
    BY <1>2, FS_CardinalityType
  <1> QED
    BY <1>1, <1>2, <1>3 DEF Slots

LEMMA OutstandingIs ==
    /\ Outstanding(seeded) = Slots(post[seeded], sub[seeded])
    /\ Outstanding(seeded)' = Slots(post'[seeded'], sub'[seeded'])
  <1>1. {k \in Kinds : Owes(seeded, k)} = Payers(sub[seeded])
    BY DEF Owes, Payers, Pays
  <1>2. {k \in Kinds : Owes(seeded, k)'} = Payers(sub'[seeded'])
    BY DEF Owes, Payers, Pays
  <1> QED
    BY <1>1, <1>2 DEF Outstanding, Slots

\* The same subtasks owe their slot.
LEMMA SlotsSame ==
    ASSUME NEW p, NEW q, NEW f, NEW g, q.todo = p.todo, q.shortfall = p.shortfall,
           \A k \in Kinds : Pays(g[k]) <=> Pays(f[k])
    PROVE  Slots(q, g) = Slots(p, f)
  <1>1. Payers(g) = Payers(f)
    BY DEF Payers
  <1> QED
    BY <1>1 DEF Slots

\* Some slots have lost their owner.
LEMMA SlotsFewer ==
    ASSUME NEW p \in PostTasks, NEW q \in PostTasks, NEW f, NEW g,
           q.todo \subseteq p.todo, q.shortfall <= p.shortfall,
           \A k \in Kinds : Pays(g[k]) => Pays(f[k])
    PROVE  Slots(q, g) <= Slots(p, f)
  <1>1. Payers(g) \subseteq Payers(f)
    BY DEF Payers
  <1>2. /\ Cardinality(Payers(g)) <= Cardinality(Payers(f))
        /\ Cardinality(q.todo) <= Cardinality(p.todo)
    BY <1>1, SlotsNat, FS_Subset
  <1> QED
    BY <1>2, SlotsNat DEF Slots

\* Subtask k drains.
LEMMA SlotsPaid ==
    ASSUME NEW p \in PostTasks, NEW f, NEW g, NEW k \in Kinds, Pays(f[k]), ~Pays(g[k]),
           \A l \in Kinds \ {k} : g[l] = f[l]
    PROVE  Slots(p, g) = Slots(p, f) - 1
  <1>1. Payers(g) = Payers(f) \ {k} /\ k \in Payers(f)
    BY DEF Payers
  <1>2. Cardinality(Payers(g)) = Cardinality(Payers(f)) - 1
    BY <1>1, SlotsNat, FS_RemoveElement
  <1> QED
    BY <1>2, SlotsNat DEF Slots

\* Subtask k is enqueued, which was to be.
LEMMA SlotsEnqueued ==
    ASSUME NEW p \in PostTasks, NEW q \in PostTasks, NEW f, NEW g, NEW k \in p.todo,
           ~Pays(f[k]), Pays(g[k]), \A l \in Kinds \ {k} : g[l] = f[l],
           q.todo = p.todo \ {k}, q.shortfall = p.shortfall
    PROVE  Slots(q, g) = Slots(p, f)
  <1>k. k \in Kinds
    BY DEF PostTasks
  <1>1. Payers(g) = Payers(f) \cup {k} /\ k \notin Payers(f)
    BY <1>k DEF Payers
  <1>2. Cardinality(Payers(g)) = Cardinality(Payers(f)) + 1
    <2>1. IsFiniteSet(Payers(f))
      BY SlotsNat
    <2>2. Cardinality(Payers(f) \cup {k}) = Cardinality(Payers(f)) + 1
      BY <1>1, <2>1, FS_AddElement
    <2> QED
      BY <1>1, <2>2
  <1>3. Cardinality(q.todo) = Cardinality(p.todo) - 1
    BY SlotsNat, FS_RemoveElement
  <1> QED
    BY <1>2, <1>3, SlotsNat DEF Slots

\* Subtask k, which was to be enqueued, cannot be: a slot to release.
LEMMA SlotsShort ==
    ASSUME NEW p \in PostTasks, NEW q \in PostTasks, NEW f, NEW k \in p.todo,
           q.todo = p.todo \ {k}, q.shortfall = p.shortfall + 1
    PROVE  Slots(q, f) = Slots(p, f)
  <1>1. Cardinality(q.todo) = Cardinality(p.todo) - 1
    BY SlotsNat, FS_RemoveElement
  <1> QED
    BY <1>1, SlotsNat DEF Slots

-----------------------------------------------------------------------------
(* The counter keeps step with the slots outstanding. *)

Still == row'.status = "finalizing" /\ "taken" \notin blame'

\* What a step may do to the two.
Balance ==
    LET before == Slots(post[seeded], sub[seeded])
        after == Slots(post'[seeded], sub'[seeded])
    IN \/ row'.count = row.count /\ after = before
       \/ row'.count = row.count /\ after <= before /\ "lost" \in blame'
       \/ row'.count = row.count - 1 /\ after = before - 1

LEMMA Balanced ==
    ASSUME Typed, Typed', Counted, Still,
           seeded \in Attempts, seeded' = seeded, blame \subseteq blame', row.status = "finalizing",
           post'[seeded].pc # "seed", Balance
    PROVE  Counted'
  <1> DEFINE before == Slots(post[seeded], sub[seeded])
             after == Slots(post'[seeded], sub'[seeded])
  <1>1. before \in Nat /\ after \in Nat /\ row.count \in Nat /\ row'.count \in Nat
    <2>1. post[seeded] \in PostTasks /\ post'[seeded] \in PostTasks /\ row \in Rows /\ row' \in Rows
      BY DEF Typed, TypeOK
    <2> QED
      BY <2>1, SlotsNat DEF Rows
  <1>2. row.count >= before /\ (blame = {} => row.count = before)
    BY OutstandingIs DEF Counted, Still
  <1>3. row'.count >= after /\ (blame' = {} => row'.count = after)
    <2> HIDE DEF before, after
    <2>1. \/ row'.count = row.count /\ after = before
          \/ row'.count = row.count /\ after <= before /\ "lost" \in blame'
          \/ row'.count = row.count - 1 /\ after = before - 1
      BY DEF Balance, before, after
    <2> QED
      BY <1>1, <1>2, <2>1
  <1>4. Outstanding(seeded)' = after
    BY OutstandingIs
  <1> QED
    BY <1>3, <1>4 DEF Counted

LEMMA DocCounted ==
    ASSUME Typed, Typed', Copied, Counted, NEW a \in Attempts, DocStep(a) \/ DocCrash(a) \/ DeadLetter(a), Still
    PROVE  Counted'
  <1>1. /\ sub' = sub /\ seeded' = seeded /\ blame \subseteq blame'
        /\ row' = row /\ row.status = "finalizing" /\ seeded \in Attempts
    BY DocEffect DEF Still, Copied, Typed, TypeOK
  <1>2. ~DeadLetter(a)
    BY <1>1 DEF DeadLetter, Write, SetStatus, Typed, TypeOK, Rows
  <1>t. post \in [Attempts -> PostTasks] /\ post[seeded] \in PostTasks /\ post[seeded].pc # "seed"
    BY <1>1 DEF Typed, TypeOK, Counted, Still
  <1>3. /\ post'[seeded].pc # "seed" /\ post'[seeded].todo = post[seeded].todo
        /\ post'[seeded].shortfall = post[seeded].shortfall
    <2>1. post'[seeded] \in {post[seeded], [post[seeded] EXCEPT !.pc = "queued"]}
      BY <1>1, <1>2, <1>t, DocOne
    <2> DEFINE q == [post[seeded] EXCEPT !.pc = "queued"]
    <2>2. q.pc = "queued" /\ q.todo = post[seeded].todo /\ q.shortfall = post[seeded].shortfall
      BY <1>t, PostFields
    <2> QED
      BY <1>t, <2>1, <2>2
  <1>4. Balance
    BY <1>1, <1>3, SlotsSame DEF Balance
  <1> QED
    BY <1>1, <1>3, <1>4, Balanced

\* Under Still a save has written what was there.
LEMMA SubStill ==
    ASSUME Typed, Copied, NEW a \in Attempts, NEW k \in Kinds, SubStep(a, k) \/ SubCrash(a, k), Still
    PROVE  /\ row.status = "finalizing" /\ seeded \in Attempts
           /\ row'.count = row.count \/ SubDrain(a, k)
  <1>t. row \in Rows /\ seeded \in Attempts \cup {0} /\ row'.status = "finalizing" /\ "taken" \notin blame'
    BY DEF Typed, TypeOK, Still
  <1>1. CASE SaveCopy(a, k)
    <2>1. row' = SetStatus(row, sub[a][k].copy) /\ seeded # 0
      BY <1>1, <1>t, SetTo DEF SaveCopy, Copied, Write
    <2>2. row.status \in {"deleted", sub[a][k].copy}
      BY <1>1, <1>t, <2>1, BlameEffect DEF SaveCopy
    <2>3. row.status # "deleted"
      BY <1>t, <2>1 DEF SetStatus
    <2>4. row' = row \/ (row'.status = sub[a][k].copy /\ row'.count = row.count)
      BY <1>t, <2>1, SetTo
    <2> QED
      BY <1>t, <2>1, <2>2, <2>3, <2>4
  <1>2. CASE row' = row \/ row' = Promoted(row) \/ (SubDrain(a, k) /\ row' = Decremented(row))
    <2>1. row.status = "finalizing" /\ (row'.count = row.count \/ SubDrain(a, k))
      BY <1>2, <1>t, CountStatus
    <2> QED
      BY <1>t, <2>1 DEF Copied
  <1> QED
    BY <1>1, <1>2 DEF SubStep, SubStart, SubRead, SubSave, SubWork, SubDrain, SubPromote, SubCrash, Write

\* Does the subtask still owe its slot after the step?
LEMMA SubPays ==
    ASSUME Typed, NEW a \in Attempts, NEW k \in Kinds, SubStep(a, k) \/ SubCrash(a, k)
    PROVE  \/ ~SubDrain(a, k) /\ (Pays(sub'[a][k]) <=> Pays(sub[a][k]))
           \/ ~Pays(sub'[a][k]) /\ Blame(Owes(a, k), "lost") /\ row' = row
           \/ /\ ~Pays(sub'[a][k]) /\ row' = Decremented(row)
              /\ Blame(~Owes(a, k) /\ row.count > 0, "taken")
  <1>t. sub \in [Attempts -> [Kinds -> SubTasks]] /\ sub[a][k] \in SubTasks
    BY DEF Typed, TypeOK
  <1>g. ASSUME NEW pc, SubGoes(a, k, pc)
        PROVE  sub'[a][k].pc = pc /\ sub'[a][k].drained = sub[a][k].drained
    <2>1. sub'[a][k] = [sub[a][k] EXCEPT !.pc = pc]
      BY <1>g, <1>t DEF SubGoes
    <2> QED
      BY <1>t, <2>1 DEF SubTasks
  <1>i. ASSUME NEW s, SubIs(a, k, s)
        PROVE  sub'[a][k] = s
    BY <1>i, <1>t DEF SubIs
  <1>n. ~Pays(NoSub) /\ \A n, b : QueuedSub(n, b).pc = "queued" /\ QueuedSub(n, b).drained = b
    BY DEF NoSub, QueuedSub, Pays
  <1>1. CASE SubStart(a, k)
    BY <1>1, <1>g, <1>i, <1>n DEF SubStart, SubDrain, Pays
  <1>2. CASE SubRead(a, k)
    <2>1. CASE SubIs(a, k, [sub[a][k] EXCEPT !.pc = IF k = Summary THEN "save" ELSE "work",
                                             !.copy = IF k = Summary THEN row.status ELSE @])
      <3>1. sub'[a][k] = [sub[a][k] EXCEPT !.pc = IF k = Summary THEN "save" ELSE "work",
                                           !.copy = IF k = Summary THEN row.status ELSE @]
        BY <2>1, <1>i
      <3>2. sub'[a][k].pc \in {"save", "work"} /\ sub'[a][k].drained = sub[a][k].drained
        BY <1>t, <3>1 DEF SubTasks
      <3> QED
        BY <1>2, <3>2 DEF SubRead, SubDrain, Pays
    <2> QED
      BY <1>2, <1>g, <2>1 DEF SubRead, SubDrain, Pays
  <1>3. CASE SubSave(a, k)
    BY <1>3, <1>g DEF SubSave, SubDrain, Pays
  <1>4. CASE SubWork(a, k)
    BY <1>4, <1>g, <1>i, <1>n DEF SubWork, SubEnds, SubDrain, Pays
  <1>5. CASE SubDrain(a, k)
    BY <1>5, <1>g, <1>i, <1>n DEF SubDrain, Pays, Write
  <1>6. CASE SubPromote(a, k)
    BY <1>6, <1>i, <1>n DEF SubPromote, SubDrain, Pays
  <1>7. CASE SubCrash(a, k)
    <2>1. CASE k = Wiki \/ Again(sub[a][k])
      <3>1. /\ sub'[a][k].pc = "queued" /\ sub'[a][k].drained = (sub[a][k].drained \/ sub[a][k].pc = "promote")
        BY <1>7, <1>i, <1>n, <2>1 DEF SubCrash
      <3>2. sub[a][k].pc \in {"started", "save", "work", "drain", "promote"}
        BY <1>7, <1>t DEF SubCrash, SubTasks, SubPcs, Idle
      <3>3. ~SubDrain(a, k)
        BY <3>1, <3>2, <1>g, <1>i DEF SubDrain, NoSub
      <3> QED
        BY <3>1, <3>2, <3>3 DEF Pays
    <2>2. CASE ~(k = Wiki \/ Again(sub[a][k]))
      BY <1>7, <1>i, <1>n, <2>2 DEF SubCrash
    <2> QED
      BY <2>1, <2>2
  <1> QED
    BY <1>1, <1>2, <1>3, <1>4, <1>5, <1>6, <1>7 DEF SubStep

LEMMA SubCounted ==
    ASSUME Typed, Typed', Copied, Counted, NEW a \in Attempts, NEW k \in Kinds,
           SubStep(a, k) \/ SubCrash(a, k), Still
    PROVE  Counted'
  <1>1. /\ seeded' = seeded /\ blame \subseteq blame'
        /\ row.status = "finalizing" /\ seeded \in Attempts /\ "taken" \notin blame'
        /\ row'.count = row.count \/ SubDrain(a, k)
    BY SubEffect, SubStill DEF Still
  <1>2. post' = post /\ post[seeded].pc # "seed"
    BY <1>1, SubKeepsTasks DEF Counted
  <1>3. PICK t \in SubTasks : sub' = [sub EXCEPT ![a][k] = t]
    BY SubOne
  <1> DEFINE before == Slots(post[seeded], sub[seeded])
             after == Slots(post[seeded], sub'[seeded])
  <1>t. /\ sub \in [Attempts -> [Kinds -> SubTasks]] /\ post[seeded] \in PostTasks /\ row \in Rows
        /\ row.count \in Nat /\ seeded # 0
    BY <1>1, KnowledgeLifecycleAssumption DEF Typed, TypeOK, Rows
  <1>n. before \in Nat /\ after \in Nat /\ row.count >= before
    BY <1>1, <1>t, SlotsNat, OutstandingIs DEF Counted
  <1>d. row' = Decremented(row) => row'.count = IF row.count > 0 THEN row.count - 1 ELSE row.count
    BY <1>1, <1>t DEF Decremented, Rows
  <1>o. a = seeded => \A l \in Kinds \ {k} : sub'[seeded][l] = sub[seeded][l]
    BY <1>t, <1>3
  <1> HIDE DEF before, after
  <1>4. \/ row'.count = row.count /\ after = before
        \/ row'.count = row.count /\ after <= before /\ "lost" \in blame'
        \/ row'.count = row.count - 1 /\ after = before - 1
    <2>1. CASE a # seeded
      <3>1. sub'[seeded] = sub[seeded]
        BY <1>t, <1>3, <2>1
      <3>2. row'.count = row.count
        <4>1. CASE row' = Decremented(row) /\ Blame(~Owes(a, k) /\ row.count > 0, "taken")
          <5>1. ~(row.count > 0)
            BY <1>1, <1>t, <2>1, <4>1, BlameEffect DEF Owes
          <5> QED
            BY <1>d, <4>1, <5>1
        <4> QED
          BY <1>1, <4>1, SubPays
      <3> QED
        BY <3>1, <3>2 DEF before, after
    <2>2. CASE a = seeded
      <3>1. Owes(a, k) <=> Pays(sub[a][k])
        BY <2>2 DEF Owes, Pays
      <3>2. CASE row'.count = row.count /\ (Pays(sub'[a][k]) <=> Pays(sub[a][k]))
        <4>1. after = before
          BY <1>o, <2>2, <3>2, SlotsSame DEF before, after
        <4> QED
          BY <3>2, <4>1
      <3>3. CASE ~Pays(sub'[a][k]) /\ Blame(Owes(a, k), "lost") /\ row' = row
        <4>1. CASE Pays(sub[a][k])
          <5>1. "lost" \in blame'
            BY <1>t, <3>1, <3>3, <4>1, BlameEffect
          <5>2. after <= before
            <6>1. \A l \in Kinds : Pays(sub'[seeded][l]) => Pays(sub[seeded][l])
              BY <1>o, <2>2, <3>3
            <6>2. post[seeded].shortfall <= post[seeded].shortfall
              BY <1>t DEF PostTasks
            <6> QED
              BY <1>t, <6>1, <6>2, SlotsFewer DEF before, after
          <5> QED
            BY <3>3, <5>1, <5>2
        <4>2. CASE ~Pays(sub[a][k])
          BY <3>2, <3>3, <4>2
        <4> QED
          BY <4>1, <4>2
      <3>4. CASE /\ ~Pays(sub'[a][k]) /\ row' = Decremented(row)
                 /\ Blame(~Owes(a, k) /\ row.count > 0, "taken")
        <4>1. CASE Pays(sub[a][k])
          <5>1. after = before - 1
            BY <1>o, <1>t, <2>2, <3>4, <4>1, SlotsPaid DEF before, after
          <5> QED
            BY <1>n, <1>d, <1>t, <3>4, <5>1
        <4>2. CASE ~Pays(sub[a][k])
          <5>1. ~(row.count > 0)
            BY <1>1, <1>t, <3>1, <3>4, <4>2, BlameEffect
          <5>2. row'.count = row.count
            BY <1>d, <3>4, <5>1
          <5>3. \A l \in Kinds : Pays(sub'[seeded][l]) <=> Pays(sub[seeded][l])
            BY <1>o, <2>2, <3>4, <4>2
          <5>4. after = before
            BY <5>3, SlotsSame DEF before, after
          <5> QED
            BY <5>2, <5>4
        <4> QED
          BY <4>1, <4>2
      <3> QED
        BY <1>1, <3>2, <3>3, <3>4, SubPays
    <2> QED
      BY <2>1, <2>2
  <1>5. Balance
    BY <1>2, <1>4 DEF Balance, before, after
  <1> QED
    BY <1>1, <1>2, <1>5, Balanced

LEMMA SeedCounted ==
    ASSUME Typed, Typed', Shape, NEW a \in Attempts, Seeds(a), Still
    PROVE  Counted'
  <1>1. /\ seeded' = a /\ row'.count = Cardinality(post[a].todo)
        /\ \A k \in Kinds : sub[a][k].pc = "none"
        /\ sub' = sub /\ post[a].pc = "seed"
    BY DEF Seeds, Still
  <1>t. post \in [Attempts -> PostTasks] /\ post[a] \in PostTasks /\ post'[a] \in PostTasks
    BY DEF Typed, TypeOK
  <1>2. post'[a].pc = "fanout" /\ post'[a].todo = post[a].todo /\ post'[a].shortfall = post[a].shortfall
    <2>1. post'[a] = [post[a] EXCEPT !.pc = "fanout"]
      BY <1>t DEF Seeds, PostGoes
    <2> QED
      BY <1>t, <2>1, PostFields
  <1>3. Slots(post'[a], sub'[a]) = Cardinality(post[a].todo) /\ Cardinality(post[a].todo) \in Nat
    <2>1. Payers(sub'[a]) = {}
      BY <1>1 DEF Payers, Pays
    <2>2. post'[a].shortfall = 0
      BY <1>1, <1>2 DEF Shape
    <2> QED
      BY <1>t, <1>2, <2>1, <2>2, SlotsNat, FS_EmptySet DEF Slots
  <1>4. Outstanding(seeded)' = row'.count
    BY <1>1, <1>3, OutstandingIs
  <1> QED
    BY <1>1, <1>2, <1>3, <1>4 DEF Counted

LEMMA PostStill ==
    ASSUME Typed, Copied, NEW a \in Attempts, PostStep(a) \/ PostCrash(a), ~Seeds(a), Still
    PROVE  /\ row.status = "finalizing" /\ seeded \in Attempts
           /\ row' = row \/ (PostRelease(a) /\ row' = Decremented(row))
  <1>t. row \in Rows /\ seeded \in Attempts \cup {0} /\ row'.status = "finalizing"
    BY DEF Typed, TypeOK, Still
  <1>1. row' = row \/ row' = Promoted(row) \/ (PostRelease(a) /\ row' = Decremented(row))
    <2>1. ~PostFast(a)
      BY <1>t DEF PostFast, Write, SetStatus, Rows
    <2>2. CASE PostSeed(a)
      BY <2>2 DEF PostSeed, Seeds, PostFrame, Write
    <2> QED
      BY <2>1, <2>2 DEF PostStep, PostStart, PostError, PostFanOut, PostRelease, PostPromote, PostEnd, PostCrash, Write
  <1>2. row.status = "finalizing" /\ (row' = row \/ (PostRelease(a) /\ row' = Decremented(row)))
    BY <1>1, <1>t, CountStatus
  <1> QED
    BY <1>t, <1>2 DEF Copied

\* Post-processing of the attempt that seeded the counter: what it does to the
\* slots, and to its program counter.
PostBalance(p, q, f, g) ==
    /\ q.pc # "seed"
    /\ \/ row'.count = row.count /\ Slots(q, g) = Slots(p, f)
       \/ row'.count = row.count /\ Slots(q, g) <= Slots(p, f) /\ "lost" \in blame'
       \/ row'.count = row.count - 1 /\ Slots(q, g) = Slots(p, f) - 1

LEMMA PostOwn ==
    ASSUME Typed, Typed', Shape, Copied, Counted, NEW a \in Attempts, PostStep(a) \/ PostCrash(a), ~Seeds(a), Still,
           a = seeded
    PROVE  PostBalance(post[a], post'[a], sub[a], sub'[a])
  <1> DEFINE p == post[a]
             q == post'[a]
             f == sub[a]
             g == sub'[a]
  <1>1. /\ row.status = "finalizing" /\ "taken" \notin blame'
        /\ row' = row \/ (PostRelease(a) /\ row' = Decremented(row))
    BY PostStill DEF Still
  <1>t. /\ post \in [Attempts -> PostTasks] /\ sub \in [Attempts -> [Kinds -> SubTasks]]
        /\ p \in PostTasks /\ q \in PostTasks /\ seeded # 0 /\ blame \subseteq blame'
        /\ row.count \in Nat /\ row \in Rows
    BY PostEffect, KnowledgeLifecycleAssumption DEF Typed, TypeOK, Rows
  <1>s. /\ p.pc \notin {"fanout", "promote"} => p.shortfall = 0
        /\ p.pc \notin {"seed", "fanout"} => p.todo = {}
        /\ p.pc = "fanout" => \A k \in p.todo : f[k].pc = "none"
    BY DEF Shape
  <1>c. p.pc # "seed" /\ row.count >= Slots(p, f)
    BY <1>1, <1>t, OutstandingIs DEF Counted
  <1>n. NoPost.pc = "none" /\ NoPost.todo = {} /\ NoPost.shortfall = 0
    BY DEF NoPost
  <1> SUFFICES PostBalance(p, q, f, g)
    OBVIOUS
  <1> HIDE DEF p, q, f, g
  <1>e. ASSUME sub' = sub, row' = row, q.todo = p.todo, q.shortfall = p.shortfall, q.pc # "seed"
        PROVE  PostBalance(p, q, f, g)
    <2>1. g = f
      BY <1>e DEF f, g
    <2>2. Slots(q, g) = Slots(p, f)
      BY <1>e, <2>1, SlotsSame
    <2> QED
      BY <1>e, <2>2 DEF PostBalance
  <1>l. ASSUME sub' = sub, row' = row, q.todo \subseteq p.todo, q.shortfall <= p.shortfall, q.pc # "seed",
               q.todo # p.todo \/ q.shortfall # p.shortfall => "lost" \in blame'
        PROVE  PostBalance(p, q, f, g)
    <2>1. g = f
      BY <1>l DEF f, g
    <2>2. Slots(q, g) <= Slots(p, f)
      BY <1>l, <1>t, <2>1, SlotsFewer
    <2> QED
      BY <1>e, <1>l, <2>2 DEF PostBalance
  <1>z. ASSUME q = NoPost, sub' = sub, row' = row, p.todo # {} \/ p.shortfall > 0 => "lost" \in blame'
        PROVE  PostBalance(p, q, f, g)
    <2>1. p.shortfall \in Nat
      BY <1>t DEF PostTasks
    <2>2. q.todo \subseteq p.todo /\ q.shortfall <= p.shortfall /\ q.pc # "seed"
      BY <1>n, <1>z, <2>1
    <2>3. q.todo # p.todo \/ q.shortfall # p.shortfall => "lost" \in blame'
      BY <1>n, <1>z, <2>1
    <2> QED
      BY <1>l, <1>z, <2>2, <2>3
  <1>d. ASSUME PostEnds(a)
        PROVE  q = NoPost
    BY <1>d, <1>t DEF PostEnds, q
  <1>2. CASE PostStart(a)
    <2>1. sub' = sub /\ row' = row /\ PostEnds(a) /\ p.pc = "queued"
      BY <1>1, <1>2 DEF PostStart, p
    <2> QED
      BY <1>d, <1>s, <1>z, <2>1
  <1>3. CASE PostError(a)
    <2>1. sub' = sub /\ row' = row /\ p.pc = "queued"
      BY <1>3 DEF PostError, p
    <2>2. q = [p EXCEPT !.tries = p.tries + 1] \/ q = [p EXCEPT !.pc = "deadletter"]
      BY <1>3, <1>t DEF PostError, PostGoes, p, q
    <2>3. q.todo = p.todo /\ q.shortfall = p.shortfall /\ q.pc # "seed"
      <3>1. /\ [p EXCEPT !.tries = p.tries + 1].pc = p.pc
            /\ [p EXCEPT !.tries = p.tries + 1].todo = p.todo
            /\ [p EXCEPT !.tries = p.tries + 1].shortfall = p.shortfall
        BY <1>t, PostFields
      <3>2. /\ [p EXCEPT !.pc = "deadletter"].pc = "deadletter"
            /\ [p EXCEPT !.pc = "deadletter"].todo = p.todo
            /\ [p EXCEPT !.pc = "deadletter"].shortfall = p.shortfall
        BY <1>t, PostFields
      <3> QED
        BY <2>1, <2>2, <3>1, <3>2
    <2> QED
      BY <1>e, <2>1, <2>3
  <1>4. ~PostFast(a) /\ ~PostSeed(a)
    <2>1. ~PostFast(a)
      BY <1>1, <1>t DEF PostFast, Write, SetStatus, Decremented, Rows
    <2> QED
      BY <2>1, <1>c DEF PostSeed, p
  <1>5. ASSUME NEW k \in Kinds, PostFanOut(a, k)
        PROVE  PostBalance(p, q, f, g)
    <2>1. /\ p.pc = "fanout" /\ q.pc = "fanout" /\ k \in p.todo /\ q.todo = p.todo \ {k}
          /\ row' = row /\ \A l \in Kinds \ {k} : g[l] = f[l]
      BY <1>5, FanOutFields DEF p, q, f, g
    <2>2. CASE sub'[a][k] = QueuedSub(0, FALSE) /\ q.shortfall = p.shortfall
      <3>1. ~Pays(f[k]) /\ Pays(g[k])
        BY <1>s, <2>1, <2>2 DEF QueuedSub, Pays, g
      <3>2. Slots(q, g) = Slots(p, f)
        BY <1>t, <2>1, <2>2, <3>1, SlotsEnqueued
      <3> QED
        BY <2>1, <3>2 DEF PostBalance
    <2>3. CASE sub' = sub /\ q.shortfall = p.shortfall + 1
      <3>1. g = f
        BY <2>3 DEF f, g
      <3>2. Slots(q, g) = Slots(p, f)
        BY <1>t, <2>1, <2>3, <3>1, SlotsShort
      <3> QED
        BY <2>1, <3>2 DEF PostBalance
    <2>4. CASE sub' = sub /\ q.shortfall = p.shortfall /\ Blame(a = seeded, "lost")
      <3>1. "lost" \in blame'
        BY <1>t, <2>4, BlameEffect
      <3>2. q.todo \subseteq p.todo /\ q.shortfall <= p.shortfall
        BY <1>t, <2>1, <2>4 DEF PostTasks
      <3> QED
        BY <1>l, <2>1, <2>4, <3>1, <3>2
    <2> QED
      BY <1>5, <2>2, <2>3, <2>4, FanOutFields DEF p, q
  <1>6. CASE PostRelease(a)
    <2>1. /\ p.pc = "fanout" /\ p.todo = {} /\ p.shortfall > 0 /\ sub' = sub
          /\ \/ row' = Decremented(row) /\ q.pc = "promote" /\ q.todo = {} /\ q.shortfall = p.shortfall - 1
             \/ row' = row /\ Blame(a = seeded, "lost") /\ q = NoPost
      BY <1>6, ReleaseFields DEF p, q
    <2>2. CASE row' = Decremented(row) /\ q.pc = "promote" /\ q.todo = {} /\ q.shortfall = p.shortfall - 1
      <3>1. g = f
        BY <2>1 DEF f, g
      <3>2. Slots(q, g) = Slots(p, f) - 1 /\ Slots(q, g) \in Nat /\ Slots(p, f) \in Nat
        <4>1. q.todo = p.todo /\ q.shortfall = p.shortfall - 1 /\ p.shortfall \in Nat
          BY <1>t, <2>1, <2>2 DEF PostTasks
        <4>2. /\ Cardinality(p.todo) \in Nat /\ Cardinality(Payers(f)) \in Nat
              /\ Slots(q, g) \in Nat /\ Slots(p, f) \in Nat
          BY <1>t, SlotsNat
        <4> QED
          BY <3>1, <4>1, <4>2 DEF Slots
      <3>3. row'.count = row.count - 1
        BY <1>1, <1>c, <1>t, <2>2, <3>2 DEF Decremented, Rows
      <3> QED
        BY <2>2, <3>2, <3>3 DEF PostBalance
    <2>3. CASE row' = row /\ Blame(a = seeded, "lost") /\ q = NoPost
      BY <1>t, <1>z, <2>1, <2>3, BlameEffect
    <2> QED
      BY <2>1, <2>2, <2>3
  <1>7. CASE PostPromote(a)
    <2>1. /\ p.pc = "promote" /\ sub' = sub
          /\ \/ q.pc = "fanout" /\ q.todo = p.todo /\ q.shortfall = p.shortfall
             \/ q = NoPost /\ Blame(a = seeded /\ p.shortfall > 0, "lost")
      BY <1>7, PromoteFields DEF p, q
    <2>2. row' = row
      BY <1>1, <2>1 DEF PostRelease, p
    <2>3. CASE q.pc = "fanout" /\ q.todo = p.todo /\ q.shortfall = p.shortfall
      BY <1>e, <2>1, <2>2, <2>3
    <2>4. CASE q = NoPost /\ Blame(a = seeded /\ p.shortfall > 0, "lost")
      <3>1. p.shortfall > 0 => "lost" \in blame'
        BY <1>t, <2>4, BlameEffect
      <3> QED
        BY <1>s, <1>z, <2>1, <2>2, <2>4, <3>1
    <2> QED
      BY <2>1, <2>3, <2>4
  <1>8. CASE PostEnd(a)
    <2>1. sub' = sub /\ row' = row /\ PostEnds(a) /\ p.todo = {} /\ p.shortfall = 0
      BY <1>8 DEF PostEnd, p
    <2> QED
      BY <1>d, <1>z, <2>1
  <1>9. CASE PostCrash(a)
    <2>1. /\ sub' = sub /\ row' = row
          /\ Blame(a = seeded /\ (p.todo # {} \/ p.shortfall > 0), "lost")
      BY <1>9 DEF PostCrash, p
    <2>2. q.pc # "seed" /\ q.todo = {} /\ q.shortfall = 0
      BY <1>9, <1>t DEF PostCrash, QueuedPost, NoPost, p, q
    <2>3. p.todo # {} \/ p.shortfall > 0 => "lost" \in blame'
      BY <1>t, <2>1, BlameEffect
    <2>4. p.shortfall \in Nat
      BY <1>t DEF PostTasks
    <2>5. q.todo \subseteq p.todo /\ q.shortfall <= p.shortfall
      BY <2>2, <2>4
    <2>6. q.todo # p.todo \/ q.shortfall # p.shortfall => "lost" \in blame'
      BY <2>2, <2>3, <2>4
    <2> QED
      BY <1>l, <2>1, <2>2, <2>5, <2>6
  <1> QED
    BY <1>2, <1>3, <1>4, <1>5, <1>6, <1>7, <1>8, <1>9 DEF PostStep

LEMMA PostCounted ==
    ASSUME Typed, Typed', Shape, Copied, Counted, NEW a \in Attempts, PostStep(a) \/ PostCrash(a), ~Seeds(a), Still
    PROVE  Counted'
  <1>1. /\ row.status = "finalizing" /\ seeded \in Attempts /\ "taken" \notin blame'
        /\ row' = row \/ (PostRelease(a) /\ row' = Decremented(row))
        /\ seeded' = seeded /\ blame \subseteq blame'
    BY PostStill, PostEffect DEF Still
  <1>2. CASE a = seeded
    <2>1. PostBalance(post[seeded], post'[seeded], sub[seeded], sub'[seeded])
      BY <1>2, PostOwn
    <2>2. Balance /\ post'[seeded].pc # "seed"
      BY <2>1 DEF Balance, PostBalance
    <2> QED
      BY <1>1, <2>2, Balanced
  <1>3. CASE a # seeded
    <2>1. post'[seeded] = post[seeded] /\ sub'[seeded] = sub[seeded] /\ post[seeded].pc # "seed"
      BY <1>1, <1>3, PostKeepsOthers DEF Counted
    <2>2. row' = row
      <3>1. CASE PostRelease(a) /\ row' = Decremented(row)
        <4>1. seeded # 0 /\ row \in Rows
          BY <1>1, KnowledgeLifecycleAssumption DEF Typed, TypeOK
        <4>2. row' = row \/ Blame(a # seeded /\ row.count > 0, "taken")
          BY <3>1, ReleaseFields
        <4> QED
          BY <1>1, <1>3, <3>1, <4>1, <4>2, BlameEffect DEF Decremented, Rows
      <3> QED
        BY <1>1, <3>1
    <2>3. Balance
      BY <2>1, <2>2 DEF Balance
    <2> QED
      BY <1>1, <2>1, <2>3, Balanced
  <1> QED
    BY <1>2, <1>3

LEMMA OtherCounted ==
    ASSUME Typed, Typed', Shape, Copied, Counted, UserBegins \/ UserGoesOn \/ Sweep, Still
    PROVE  Counted'
  <1>1. /\ row.status = "finalizing" /\ seeded \in Attempts /\ seeded' = seeded
        /\ blame \subseteq blame' /\ "taken" \notin blame'
    BY OtherEffect DEF Still, Copied, Typed, TypeOK
  <1>t. /\ post[seeded] \in PostTasks /\ post'[seeded] \in PostTasks /\ seeded # 0
        /\ sub \in [Attempts -> [Kinds -> SubTasks]]
    BY <1>1, KnowledgeLifecycleAssumption DEF Typed, TypeOK
  <1>3. row' = row
    <2>1. CASE ReparseReset
      BY <1>1, <1>t, <2>1, BlameEffect DEF Fails, ReparseReset
    <2>2. CASE ~ReparseReset
      BY <2>2, OtherEffect DEF Still
    <2> QED
      BY <2>1, <2>2
  <1>4. post[seeded].pc # "seed"
    BY <1>1 DEF Counted
  <1>5. /\ post'[seeded].pc # "seed" /\ post'[seeded].todo = post[seeded].todo
        /\ post'[seeded].shortfall = post[seeded].shortfall
    <2>1. CASE Dequeue
      <3>1. \/ post'[seeded] = post[seeded]
            \/ post'[seeded] = NoPost /\ post[seeded].pc \in {"queued", "fast", "seed"}
        BY <1>1, <2>1, Dequeued
      <3>2. post[seeded].pc \in {"queued", "fast"} => post[seeded].todo = {} /\ post[seeded].shortfall = 0
        BY <1>1 DEF Shape
      <3> QED
        BY <1>4, <3>1, <3>2 DEF NoPost
    <2>2. CASE ~Dequeue
      BY <1>4, <2>2 DEF Fails, UserBegins, UserGoesOn, CancelRead, DeleteMark, ReparseOpen, CancelWrite, DeletePurge,
                        ReparsePending, ReparseReset, ReparseSubmit, UserFrame, Sweep, SweepProbe, SweepFail,
                        SweepFrame, taskVars
    <2> QED
      BY <2>1, <2>2
  \* A subtask that is removed has lost its slot.
  <1>6. ASSUME NEW k \in Kinds, sub'[seeded][k] # sub[seeded][k]
        PROVE  sub'[seeded][k] = NoSub /\ (Owes(seeded, k) => "lost" \in blame')
    <2>1. CASE Dequeue
      <3>1. sub'[seeded][k] = NoSub
        BY <1>1, <1>6, <2>1, Dequeued
      <3>2. Blame(\E a \in Attempts, l \in Kinds : Owes(a, l) /\ sub'[a][l] = NoSub, "lost")
        BY <2>1 DEF Dequeue
      <3>3. Owes(seeded, k) => "lost" \in blame'
        BY <1>1, <1>t, <3>1, <3>2, BlameEffect
      <3> QED
        BY <3>1, <3>3
    <2>2. CASE DeletePurge \/ ReparseOpen
      <3>1. sub' = WithoutWiki(sub) /\ Blame(WikiOwes, "lost")
        BY <2>2 DEF Fails, DeletePurge, ReparseOpen, ScrubWiki
      <3>2. k = Wiki /\ sub[seeded][k].pc = "queued" /\ sub'[seeded][k] = NoSub
        BY <1>1, <1>6, <3>1 DEF WithoutWiki
      <3>3. Owes(seeded, k) => WikiOwes
        BY <1>1, <3>2 DEF WikiOwes
      <3> QED
        BY <1>t, <3>1, <3>2, <3>3, BlameEffect
    <2>3. CASE ~Dequeue /\ ~DeletePurge /\ ~ReparseOpen
      <3>1. sub' = sub
        BY <2>3 DEF Fails, UserBegins, UserGoesOn, CancelRead, DeleteMark, CancelWrite, ReparsePending, ReparseReset,
                    ReparseSubmit, UserFrame, Sweep, SweepProbe, SweepFail, SweepFrame, taskVars
      <3> QED
        BY <1>6, <3>1
    <2> QED
      BY <2>1, <2>2, <2>3
  <1>7. \A k \in Kinds : Pays(sub[seeded][k]) <=> Owes(seeded, k)
    BY DEF Pays, Owes
  <1>8. ~Pays(NoSub)
    BY DEF Pays, NoSub
  <1>9. Balance
    <2>1. CASE "lost" \in blame'
      <3>1. \A k \in Kinds : Pays(sub'[seeded][k]) => Pays(sub[seeded][k])
        BY <1>6, <1>8
      <3>2. post'[seeded].shortfall <= post[seeded].shortfall
        BY <1>t, <1>5 DEF PostTasks
      <3>3. Slots(post'[seeded], sub'[seeded]) <= Slots(post[seeded], sub[seeded])
        BY <1>t, <1>5, <3>1, <3>2, SlotsFewer
      <3> QED
        BY <1>3, <2>1, <3>3 DEF Balance
    <2>2. CASE "lost" \notin blame'
      <3>1. \A k \in Kinds : Pays(sub'[seeded][k]) <=> Pays(sub[seeded][k])
        BY <1>6, <1>7, <1>8, <2>2
      <3>2. Slots(post'[seeded], sub'[seeded]) = Slots(post[seeded], sub[seeded])
        BY <1>5, <3>1, SlotsSame
      <3> QED
        BY <1>3, <3>2 DEF Balance
    <2> QED
      BY <2>1, <2>2
  <1> QED
    BY <1>1, <1>5, <1>9, Balanced

LEMMA CountedStep ==
    ASSUME Typed, Typed', Shape, Copied, Counted, [Next]_vars
    PROVE  Counted'
  <1> SUFFICES ASSUME Still
               PROVE  Counted'
    BY DEF Counted, Still
  <1>1. ASSUME NEW a \in Attempts, PostStep(a) \/ PostCrash(a)
        PROVE  Counted'
    BY <1>1, PostCounted, SeedCounted
  <1>2. CASE UNCHANGED vars
    BY <1>2 DEF vars, taskVars, history, Counted, Still, Outstanding, Owes
  <1> QED
    BY <1>1, <1>2, DocCounted, SubCounted, OtherCounted DEF Next, Crash

-----------------------------------------------------------------------------

\* Who completes a document that is finalizing has found the counter at zero.
LEMMA CompletedBy ==
    ASSUME Typed, Copied, Next, row.status = "finalizing", row'.status = "completed", "taken" \notin blame'
    PROVE  row.count = 0 /\ "taken" \notin blame /\ seeded \in Attempts
  <1>t. row \in Rows /\ seeded \in Attempts /\ seeded # 0
    BY KnowledgeLifecycleAssumption DEF Copied, Typed, TypeOK
  <1>p. row' = Promoted(row) => row.count = 0
    BY <1>t DEF Promoted
  <1>d. row' # row /\ row' # Decremented(row)
    BY <1>t DEF Decremented, Rows
  <1>s. ASSUME NEW s, row' = SetStatus(row, s)
        PROVE  s = "completed"
    BY <1>d, <1>s, <1>t, SetTo
  <1>1. ASSUME NEW a \in Attempts, DocStep(a) \/ DocCrash(a) \/ DeadLetter(a)
        PROVE  FALSE
    <2>1. CASE DocSave(a)
      BY <1>t, <2>1, BlameEffect DEF DocSave
    <2>2. CASE DocMark(a) \/ DocFail(a) \/ DocError(a) \/ DeadLetter(a)
      BY <1>d, <1>s, <2>2 DEF DocMark, DocFail, DocError, DeadLetter, Write
    <2> QED
      BY <1>1, <1>d, <2>1, <2>2 DEF DocStep, DocStart, DocGiveUp, DocCheck, DocEnqueue, DocCrash
  <1>2. ASSUME NEW a \in Attempts, PostStep(a) \/ PostCrash(a)
        PROVE  row.count = 0 /\ blame \subseteq blame'
    <2>1. ~Seeds(a)
      BY DEF Seeds
    <2>2. ~PostFast(a)
      BY <1>t, BlameEffect DEF PostFast
    <2>3. row' = row \/ row' = Decremented(row) \/ row' = Promoted(row)
      BY <1>2, <2>1, <2>2 DEF PostStep, PostStart, PostError, PostSeed, PostFanOut, PostRelease, PostPromote,
                               PostEnd, PostCrash, Seeds, PostFrame, Write
    <2> QED
      BY <1>2, <1>p, <1>d, <2>1, <2>3, PostEffect
  <1>3. ASSUME NEW a \in Attempts, NEW k \in Kinds, SubStep(a, k) \/ SubCrash(a, k)
        PROVE  row.count = 0 /\ blame \subseteq blame'
    <2>1. ~SaveCopy(a, k)
      BY <1>s, <1>t, BlameEffect DEF SaveCopy, Write
    <2>2. row' = row \/ row' = Decremented(row) \/ row' = Promoted(row)
      BY <1>3, <2>1 DEF SubStep, SubStart, SubRead, SubSave, SubWork, SubDrain, SubPromote, SubCrash, Write
    <2> QED
      BY <1>3, <1>p, <1>d, <2>2, SubEffect
  <1>4. ASSUME UserBegins \/ UserGoesOn \/ Sweep
        PROVE  FALSE
    <2>1. CASE CancelRead \/ ReparseSubmit \/ ReparseOpen \/ Dequeue
      BY <1>d, <2>1 DEF CancelRead, ReparseSubmit, ReparseOpen, Dequeue
    <2>2. CASE DeleteMark \/ ReparsePending
      BY <1>s, <2>2 DEF Fails, DeleteMark, ReparsePending, Write
    <2>3. CASE CancelWrite \/ DeletePurge \/ ReparseReset
      BY <1>t, <2>3 DEF Fails, CancelWrite, DeletePurge, ReparseReset, Write, Rows, SetStatus, ResetCount
    <2>4. CASE Sweep
      BY <1>d, <2>4 DEF Sweep, SweepProbe, SweepFail, SweepFrame, Write
    <2> QED
      BY <1>4, <2>1, <2>2, <2>3, <2>4 DEF UserBegins, UserGoesOn
  <1> QED
    BY <1>t, <1>1, <1>2, <1>3, <1>4 DEF Next, Crash

CounterInv == Typed /\ Fresh /\ Shape /\ Copied /\ Counted

LEMMA CounterInit == Init => CounterInv
  <1> SUFFICES ASSUME Init
               PROVE  CounterInv
    OBVIOUS
  <1>1. Fresh
    BY KnowledgeLifecycleAssumption DEF Init, Fresh, NoDoc, NoPost, Reparsing
  <1>2. Shape
    BY DEF Init, Shape, NoPost
  <1>3. Copied /\ Counted
    BY DEF Init, Copied, Counted, NoSub
  <1> QED
    BY InitTyped, <1>1, <1>2, <1>3 DEF CounterInv

LEMMA CounterStep == CounterInv /\ [Next]_vars => CounterInv'
  BY StepTyped, FreshStep, ShapeStep, CopiedStep, CountedStep DEF CounterInv

\* While a document is finalizing its counter is the number of subtasks that
\* have yet to drain, as long as no slot was lost and none taken.
THEOREM SlotsAreCounted == Spec => []SlotsCounted
  <1>1. CounterInv => SlotsCounted
    BY DEF CounterInv, Counted, SlotsCounted
  <1> QED
    BY <1>1, CounterInit, CounterStep, PTL DEF Spec

\* A document is promoted only when nothing is outstanding, slots lost or not.
THEOREM PromotedRight == Spec => PromotedWhenDone
  <1>1. CounterInv /\ [Next]_vars =>
          [ /\ row.status = "finalizing" /\ row'.status = "completed"
            /\ "taken" \notin blame'
            => Outstanding(seeded) = 0 ]_vars
    <2> SUFFICES ASSUME CounterInv, Next, row.status = "finalizing", row'.status = "completed",
                        "taken" \notin blame'
                 PROVE  Outstanding(seeded) = 0
      BY DEF vars
    <2>1. row.count = 0 /\ "taken" \notin blame /\ seeded \in Attempts
      BY CompletedBy DEF CounterInv
    <2>2. row.count >= Outstanding(seeded) /\ Outstanding(seeded) \in Nat
      <3>1. post[seeded] \in PostTasks
        BY <2>1 DEF CounterInv, Typed, TypeOK
      <3> QED
        BY <2>1, <3>1, OutstandingIs, SlotsNat DEF CounterInv, Counted
    <2> QED
      BY <2>1, <2>2
  <1> QED
    BY <1>1, CounterInit, CounterStep, PTL DEF Spec, PromotedWhenDone

=============================================================================
