--------------------------- MODULE DocumentQueue ---------------------------
(***************************************************************************)
(* What the wiki queue of a knowledge base promises, without workers,      *)
(* claims, retries or time: the operations on one document are carried out *)
(* one at a time in the order in which they were queued, each at least     *)
(* once, where the newest supersedes those before it; an operation leaves  *)
(* the queue after it was carried out, given up or superseded, or is       *)
(* withdrawn.  One that is withdrawn while it is carried out goes astray:  *)
(* it may still have its effect, at any time.                              *)
(***************************************************************************)
EXTENDS Naturals

CONSTANTS Docs,   \* documents
          Ids     \* ids of operations, given in ascending order; none is 0

Ops == {"ingest", "retract"}

VARIABLES queue,   \* the document and the kind of each queued operation
          doing,   \* for each document, the operation that is carried out, or 0
          over,    \* documents for which that is done, or given up
          strays,  \* operations that were withdrawn while they were carried out
          pages    \* documents that the wiki names

queueVars == <<queue, doing, over, strays, pages>>

Of(d) == {i \in DOMAIN queue : queue[i].doc = d}

Newest(d) == CHOOSE i \in Of(d) : \A j \in Of(d) : j <= i

Effect(d, op) == IF op = "ingest" THEN pages \cup {d} ELSE pages \ {d}

QueueInit ==
    /\ queue = [i \in {} |-> 0] /\ doing = [d \in Docs |-> 0]
    /\ over = {} /\ strays = {} /\ pages = {}

\* An operation is queued.  Whoever queues a retract takes the document off the pages,
\* queued or not.
Put(i, d, op) ==
    /\ \A j \in DOMAIN queue : j < i
    /\ queue' = [j \in DOMAIN queue \cup {i} |-> IF j = i THEN [doc |-> d, op |-> op] ELSE queue[j]]
    /\ pages' = IF op = "retract" THEN pages \ {d} ELSE pages
    /\ UNCHANGED <<doing, over, strays>>

TakeOff(d) == pages' = pages \ {d} /\ UNCHANGED <<queue, doing, over, strays>>

\* Operations S leave, and with them what is done about them.
Remove(S) ==
    /\ queue' = [i \in DOMAIN queue \ S |-> queue[i]]
    /\ doing' = [d \in Docs |-> IF doing[d] \in S THEN 0 ELSE doing[d]]
    /\ over' = {d \in over : doing[d] \notin S}
    /\ UNCHANGED pages

\* All operations are withdrawn, or the ingests of a document.
Withdraw(S) ==
    /\ S = DOMAIN queue \/ \E d \in Docs : S = {i \in Of(d) : queue[i].op = "ingest"}
    /\ Remove(S)
    /\ strays' = strays \cup {[id |-> doing[d], doc |-> d, op |-> queue[doing[d]].op] :
                                d \in {d \in Docs : doing[d] \in S}}

\* The newest operations of documents D are taken up, which nobody is working on.
Take(D) ==
    /\ \A d \in D : doing[d] = 0 /\ Of(d) # {}
    /\ doing' = [d \in Docs |-> IF d \in D THEN Newest(d) ELSE doing[d]]
    /\ UNCHANGED <<queue, over, strays, pages>>

\* An operation has its effect, or part of it, or is skipped or given up.
Carry(d) ==
    /\ doing[d] # 0 /\ d \notin over
    /\ pages' \in {pages, Effect(d, queue[doing[d]].op)}
    /\ over' \in {over, over \cup {d}}
    /\ UNCHANGED <<queue, doing, strays>>

StrayEffect(x) ==
    /\ pages' = Effect(x.doc, x.op)
    /\ UNCHANGED <<queue, doing, over, strays>>

\* Nobody works on documents D any longer, nor on some that went astray.
Drop(D) ==
    /\ doing' = [d \in Docs |-> IF d \in D THEN 0 ELSE doing[d]]
    /\ over' = over \ D
    /\ strays' \subseteq strays
    /\ UNCHANGED <<queue, pages>>

\* Operations leave in the order of their document: one that is over, and those that it, or
\* one that went astray, has superseded.
Leave(S) ==
    /\ \A i \in S :
          LET d == queue[i].doc IN
          /\ \A j \in Of(d) : j < i => j \in S
          /\ \/ i = doing[d] /\ d \in over
             \/ i < doing[d]
             \/ \E x \in strays : x.doc = d /\ i < x.id
    /\ Remove(S)
    /\ strays' \subseteq strays

QueueNext ==
    \/ \E i \in Ids, d \in Docs, op \in Ops : Put(i, d, op)
    \/ \E d \in Docs : TakeOff(d) \/ Carry(d)
    \/ \E S \in SUBSET DOMAIN queue : Withdraw(S) \/ Leave(S)
    \/ \E D \in SUBSET Docs : Take(D) \/ Drop(D)
    \/ \E x \in strays : StrayEffect(x)

QueueSpec == QueueInit /\ [][QueueNext]_queueVars
=============================================================================
