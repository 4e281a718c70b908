------------------------ MODULE ChannelLeaderProofs ------------------------
(***************************************************************************)
(* For every number of instances and every bound: types, that a channel    *)
(* has at most one connection, and that no connection is left behind.      *)
(***************************************************************************)
EXTENDS ChannelLeader, FiniteSetTheorems, TLAPS

USE ChannelLeaderAssumption

-----------------------------------------------------------------------------
(* Types of the pieces.                                                    *)

Goroutine == [pc : Pcs, ver : Nat, cancelled : BOOLEAN]

LEMMA AtType ==
    ASSUME NEW pc \in Pcs, NEW ver \in Nat
    PROVE  /\ At(pc, ver) \in Goroutine
           /\ At(pc, ver).pc = pc /\ At(pc, ver).ver = ver
  BY DEF At, Goroutine

LEMMA OverType ==
    ASSUME NEW g \in Goroutines
    PROVE  /\ Over(g) \in Goroutine /\ Over(g).pc \in {"publish", "none"}
           /\ Nothing \in Goroutine /\ Nothing.pc = "none"
  BY DEF Over, Nothing, At, Goroutine, Pcs, Goroutines

LEMMA CancelledType ==
    ASSUME TypeOK, NEW i \in Instances, NEW gs, NEW due
    PROVE  /\ Cancelled(i, gs, due) \in [Goroutines -> Goroutine]
           /\ \A g \in Goroutines :
                 LET r == Cancelled(i, gs, due)[g] IN
                 r.pc = go[i][g].pc \/ r.pc \in {"stop", "due", "none"}
           /\ \A g \in Goroutines :
                 go[i][g].pc \in Starting => Cancelled(i, gs, due)[g].pc = go[i][g].pc
  <1> DEFINE c == Cancelled(i, gs, due)
  <1>1. ASSUME NEW g \in Goroutines
        PROVE  /\ c[g] \in Goroutine
               /\ c[g].pc = go[i][g].pc \/ c[g].pc \in {"stop", "due", "none"}
               /\ go[i][g].pc \in Starting => c[g].pc = go[i][g].pc
    <2>1. go[i][g] \in Goroutine
      BY DEF TypeOK, Goroutine
    <2>2. c[g] = CASE g \notin gs -> go[i][g]
         [] g \in gs /\ go[i][g].pc # "wait" -> [go[i][g] EXCEPT !.cancelled = TRUE]
         [] g \in gs \cap due /\ go[i][g].pc = "wait" ->
              At(IF g \in Renewers THEN "stop" ELSE "due", 0)
         [] OTHER -> Nothing
      BY DEF Cancelled
    <2>3. CASE g \notin gs
      BY <2>1, <2>2, <2>3
    <2>4. CASE g \in gs /\ go[i][g].pc # "wait"
      <3>1. c[g] = [go[i][g] EXCEPT !.cancelled = TRUE]
        BY <2>2, <2>4
      <3> QED  BY <2>1, <3>1 DEF Goroutine
    <2>5. CASE g \in gs \cap due /\ go[i][g].pc = "wait"
      <3>1. c[g] = At("stop", 0) \/ c[g] = At("due", 0)
        BY <2>2, <2>5
      <3> QED  BY <2>5, <3>1, AtType DEF Pcs, Starting
    <2>6. CASE g \in gs /\ g \notin due /\ go[i][g].pc = "wait"
      <3>1. c[g] = Nothing
        BY <2>2, <2>6
      <3> QED  BY <2>6, <3>1, OverType DEF Starting
    <2> QED  BY <2>3, <2>4, <2>5, <2>6
  <1>2. c \in [Goroutines -> Goroutine]
    BY <1>1 DEF Cancelled
  <1> QED  BY <1>1, <1>2

LEMMA GoType ==
    ASSUME TypeOK, NEW i \in Instances, NEW g \in Goroutines, NEW r \in Goroutine
    PROVE  [go EXCEPT ![i][g] = r] \in [Instances -> [Goroutines -> Goroutine]]
  BY DEF TypeOK, Goroutine

LEMMA GoesType ==
    ASSUME TypeOK, NEW i \in Instances, NEW g \in Goroutines, NEW pc \in Pcs
    PROVE  [go EXCEPT ![i][g].pc = pc] \in [Instances -> [Goroutines -> Goroutine]]
  <1>1. [go[i][g] EXCEPT !.pc = pc] \in Goroutine
    <2>1. go[i][g] \in Goroutine
      BY DEF TypeOK, Goroutine
    <2> QED  BY <2>1 DEF Goroutine
  <1>2. [go EXCEPT ![i][g].pc = pc] = [go EXCEPT ![i][g] = [go[i][g] EXCEPT !.pc = pc]]
    BY DEF TypeOK
  <1> QED  BY <1>1, <1>2, GoType

LEMMA GoAllType ==
    ASSUME TypeOK, NEW i \in Instances, NEW c \in [Goroutines -> Goroutine]
    PROVE  [go EXCEPT ![i] = c] \in [Instances -> [Goroutines -> Goroutine]]
  BY DEF TypeOK, Goroutine

-----------------------------------------------------------------------------
(***************************************************************************)
(* Whoever runs the channel, starts it, or still ends a poll while it is   *)
(* up, owns the lock, and does one of the three once.                      *)
(***************************************************************************)

Starts(i) == {g \in Goroutines : go[i][g].pc \in Starting}

Opened(i) == {g \in Goroutines : go[i][g].pc = "register"}

Alone(i) ==
    /\ \A g, h \in Starts(i) : g = h
    /\ Starts(i) # {} => ~Runs(i) /\ lock = i
    /\ Runs(i) => lock = i

Counted(i) == open[i] = IF Runs(i) \/ Opened(i) # {} THEN 1 ELSE 0

Draining(i) ==
    draining[i] > 0 =>
       /\ LongPoll
       /\ up[i] = "up" => draining[i] = 1 /\ lock = i /\ ~Runs(i) /\ Starts(i) = {}

Ended(i) ==
    /\ up[i] = "stopped" => ~Runs(i)
    /\ up[i] = "down" => /\ draining[i] = 0 /\ ~Runs(i) /\ ~late[i]
                         /\ \A g \in Goroutines : go[i][g] = Nothing

Ok(i) == Alone(i) /\ Counted(i) /\ Draining(i) /\ Ended(i)

\* What is about to be started has been read.
Read == {"start", "elect", "connect", "register"}

Versioned == \A i \in Instances, g \in Goroutines : go[i][g].pc \in Read => go[i][g].ver # 0

IInv == TypeOK /\ Versioned /\ \A i \in Instances : Ok(i)

\* A step of i leaves the others alone, and takes no lock from them.
Apart(i) ==
    /\ \A j \in Instances \ {i} :
          /\ runtime'[j] = runtime[j] /\ go'[j] = go[j] /\ up'[j] = up[j]
          /\ open'[j] = open[j] /\ draining'[j] = draining[j] /\ late'[j] = late[j]
    /\ lock' = lock \/ lock \in {NoOne, i}

LEMMA Others ==
    ASSUME IInv, NEW i \in Instances, Apart(i), Ok(i)'
    PROVE  \A j \in Instances : Ok(j)'
  <1> SUFFICES ASSUME NEW j \in Instances, j # i
               PROVE  Ok(j)'
    OBVIOUS
  <1>1. Ok(j)
    BY DEF IInv
  <1>2. Runs(j)' = Runs(j) /\ Starts(j)' = Starts(j) /\ Opened(j)' = Opened(j)
    BY DEF Apart, Runs, Starts, Opened
  <1>3. lock = j => lock' = j
    BY DEF Apart
  <1>4. Alone(j)'
    BY <1>1, <1>2, <1>3 DEF Ok, Alone
  <1>5. Counted(j)'
    BY <1>1, <1>2 DEF Ok, Counted, Apart
  <1>6. Draining(j)'
    BY <1>1, <1>2, <1>3 DEF Ok, Draining, Apart
  <1>7. Ended(j)'
    BY <1>1, <1>2 DEF Ok, Ended, Apart
  <1> QED  BY <1>4, <1>5, <1>6, <1>7 DEF Ok

\* A step that opens and closes nothing, and neither wins nor loses the lock.
LEMMA Quiet ==
    ASSUME IInv, NEW i \in Instances, up[i] # "down",
           UNCHANGED <<runtime, up, open, draining, lock>>,
           \A g \in Goroutines :
              /\ go'[i][g].pc \in Starting <=> go[i][g].pc \in Starting
              /\ go'[i][g].pc = "register" <=> go[i][g].pc = "register"
    PROVE  Ok(i)'
  <1>1. Runs(i)' = Runs(i) /\ Starts(i)' = Starts(i) /\ Opened(i)' = Opened(i)
    BY DEF Runs, Starts, Opened
  <1>2. Ok(i)
    BY DEF IInv
  <1> QED  BY <1>1, <1>2 DEF Ok, Alone, Counted, Draining, Ended

\* One goroutine of an instance goes from one place to another, neither of which starts.
LEMMA QuietGoes ==
    ASSUME IInv, NEW i \in Instances, NEW g \in Goroutines, up[i] # "down",
           UNCHANGED <<runtime, up, open, draining, lock>>,
           go[i][g].pc \notin Starting, NEW r \in Goroutine, r.pc \notin Starting,
           go' = [go EXCEPT ![i][g] = r]
    PROVE  Ok(i)'
  <1>1. \A h \in Goroutines : go'[i][h] = IF h = g THEN r ELSE go[i][h]
    BY DEF IInv, TypeOK
  <1>2. "register" \in Starting
    BY DEF Starting
  <1> QED  BY <1>1, <1>2, Quiet

-----------------------------------------------------------------------------
(* StopRuntime, and who calls it.                                          *)

LEMMA Alive ==
    ASSUME IInv, NEW i \in Instances, NEW g \in Goroutines, go[i][g].pc # "none"
    PROVE  up[i] # "down"
  BY OverType DEF IInv, Ok, Ended

LEMMA StopRuntimeKeeps ==
    ASSUME IInv, NEW i \in Instances, StopRuntime(i)
    PROVE  /\ runtime' \in [Instances -> [version : Nat, renewer : Renewers \cup {"none"}]]
           /\ retrying' \in [Instances -> Retriers \cup {"none"}]
           /\ lock' \in Instances \cup {NoOne}
           /\ open' \in [Instances -> Nat] /\ draining' \in [Instances -> Nat]
           /\ ~Runs(i)'
           /\ \A j \in Instances \ {i} : /\ runtime'[j] = runtime[j] /\ open'[j] = open[j]
                                         /\ draining'[j] = draining[j]
           /\ lock' = lock \/ (lock' = NoOne /\ lock = i)
           /\ ~Runs(i) => open'[i] = open[i] /\ draining'[i] = draining[i] /\ lock' = lock
           /\ Runs(i) => /\ open'[i] = 0
                         /\ draining'[i] = IF LongPoll THEN draining[i] + 1 ELSE draining[i]
                         /\ LongPoll => lock' = lock
  <1>1. NoRuntime \in [version : Nat, renewer : Renewers \cup {"none"}] /\ NoRuntime.version = 0
    BY DEF NoRuntime
  <1>2. /\ runtime' \in [Instances -> [version : Nat, renewer : Renewers \cup {"none"}]]
        /\ runtime'[i] = NoRuntime
        /\ \A j \in Instances \ {i} : runtime'[j] = runtime[j]
        /\ retrying' \in [Instances -> Retriers \cup {"none"}]
    BY <1>1 DEF StopRuntime, IInv, TypeOK
  <1>3. ~Runs(i)'
    BY <1>1, <1>2 DEF Runs
  <1>4. CASE Runs(i)
    <2>1. open[i] = 1
      BY <1>4 DEF IInv, Ok, Counted
    <2>2. Close(i) /\ lock' = IF LongPoll THEN lock ELSE Released(i)
      BY <1>4 DEF StopRuntime
    <2>3. /\ open' \in [Instances -> Nat] /\ draining' \in [Instances -> Nat]
          /\ open'[i] = 0
          /\ draining'[i] = IF LongPoll THEN draining[i] + 1 ELSE draining[i]
          /\ \A j \in Instances \ {i} : open'[j] = open[j] /\ draining'[j] = draining[j]
      BY <2>1, <2>2 DEF Close, IInv, TypeOK
    <2>4. /\ lock' \in Instances \cup {NoOne}
          /\ lock' = lock \/ (lock' = NoOne /\ lock = i)
          /\ LongPoll => lock' = lock
      BY <2>2 DEF Released, IInv, TypeOK
    <2> QED  BY <1>2, <1>3, <1>4, <2>3, <2>4
  <1>5. CASE ~Runs(i)
    <2>1. UNCHANGED <<open, draining, lock>>
      BY <1>5 DEF StopRuntime, conns
    <2> QED  BY <1>2, <1>3, <1>5, <2>1 DEF IInv, TypeOK
  <1> QED  BY <1>4, <1>5

\* What StopRuntime leaves is in order, when the goroutines that start go on.
LEMMA StopRuntimeOk ==
    ASSUME IInv, NEW i \in Instances, StopRuntime(i), up[i] # "down",
           up'[i] = up[i] \/ (up[i] = "stopping" /\ up'[i] = "stopped"),
           \A g \in Goroutines :
              /\ go'[i][g].pc \in Starting <=> go[i][g].pc \in Starting
              /\ go'[i][g].pc = "register" <=> go[i][g].pc = "register"
    PROVE  Ok(i)'
  <1>1. Starts(i)' = Starts(i) /\ Opened(i)' = Opened(i) /\ Opened(i) \subseteq Starts(i)
    BY DEF Starts, Opened, Starting
  <1>2. Ok(i) /\ draining[i] \in Nat
    BY DEF IInv, TypeOK
  <1>3. CASE Runs(i)
    <2>1. Starts(i) = {} /\ Opened(i) = {} /\ lock = i
      BY <1>1, <1>2, <1>3 DEF Ok, Alone
    <2>2. up[i] = "up" => draining[i] = 0
      BY <1>2, <1>3 DEF Ok, Draining
    <2>3. ~LongPoll => draining[i] = 0
      BY <1>2 DEF Ok, Draining
    <2>4. /\ ~Runs(i)' /\ open'[i] = 0
          /\ draining'[i] = IF LongPoll THEN draining[i] + 1 ELSE draining[i]
          /\ LongPoll => lock' = lock
      BY <1>3, StopRuntimeKeeps
    <2>5. Alone(i)'
      BY <1>1, <2>1, <2>4 DEF Alone
    <2>6. Counted(i)'
      BY <1>1, <2>1, <2>4 DEF Counted
    <2>7. Draining(i)'
      BY <1>1, <1>2, <2>1, <2>2, <2>3, <2>4 DEF Draining
    <2>8. Ended(i)'
      BY <2>4 DEF Ended
    <2> QED  BY <2>5, <2>6, <2>7, <2>8 DEF Ok
  <1>4. CASE ~Runs(i)
    <2>1. ~Runs(i)' /\ open'[i] = open[i] /\ draining'[i] = draining[i] /\ lock' = lock
      BY <1>4, StopRuntimeKeeps
    <2>2. Alone(i)'
      BY <1>1, <1>2, <1>4, <2>1 DEF Ok, Alone
    <2>3. Counted(i)'
      BY <1>1, <1>2, <1>4, <2>1 DEF Ok, Counted
    <2>4. Draining(i)'
      BY <1>1, <1>2, <1>4, <2>1 DEF Ok, Draining
    <2>5. Ended(i)'
      BY <2>1 DEF Ended
    <2> QED  BY <2>2, <2>3, <2>4, <2>5 DEF Ok
  <1> QED  BY <1>3, <1>4

LEMMA TroublesType ==
    ASSUME TypeOK
    PROVE  Trouble \/ UNCHANGED troubles => troubles' \in 0..MaxTroubles
  BY DEF TypeOK, Trouble

LEMMA StopsKeeps ==
    ASSUME IInv, NEW i \in Instances, NEW g \in Goroutines, NEW r \in Goroutine,
           go[i][g].pc \notin Starting, go[i][g].pc # "none", r.pc \notin Starting,
           Stops(i, g, r), Frame, dropped' \in BOOLEAN
    PROVE  TypeOK' /\ Apart(i) /\ Ok(i)'
  <1>1. StopRuntime(i)
    BY DEF Stops
  <1>2. PICK due \in SUBSET Loops(i) :
           /\ DueOf(due)
           /\ go' = [go EXCEPT ![i] = [Cancelled(i, Loops(i), due) EXCEPT ![g] = r]]
    BY DEF Stops
  <1> DEFINE c == Cancelled(i, Loops(i), due)
  <1>3. c \in [Goroutines -> Goroutine]
    BY CancelledType DEF IInv
  <1>4. [c EXCEPT ![g] = r] \in [Goroutines -> Goroutine]
    BY <1>3
  <1>5. go' \in [Instances -> [Goroutines -> Goroutine]]
    BY <1>2, <1>4, GoAllType DEF IInv
  <1>6. troubles' \in 0..MaxTroubles
    BY <1>2, TroublesType DEF DueOf, IInv
  <1>7. \A h \in Goroutines : go'[i][h] = IF h = g THEN r ELSE c[h]
    BY <1>2, <1>3 DEF IInv, TypeOK
  <1>8. \A j \in Instances \ {i} : go'[j] = go[j]
    BY <1>2 DEF IInv, TypeOK
  <1>9. \A h \in Goroutines :
              /\ go'[i][h].pc \in Starting <=> go[i][h].pc \in Starting
              /\ go'[i][h].pc = "register" <=> go[i][h].pc = "register"
    <2> SUFFICES ASSUME NEW h \in Goroutines, h # g
                 PROVE  c[h].pc = go[i][h].pc \/ (c[h].pc \notin Starting /\ go[i][h].pc \notin Starting)
      BY <1>7 DEF Starting
    <2>1. /\ c[h].pc = go[i][h].pc \/ c[h].pc \in {"stop", "due", "none"}
          /\ go[i][h].pc \in Starting => c[h].pc = go[i][h].pc
      BY CancelledType DEF IInv
    <2> QED  BY <2>1 DEF Starting
  <1>10. TypeOK'
    BY <1>1, <1>5, <1>6, StopRuntimeKeeps DEF IInv, TypeOK, Frame, network, Goroutine
  <1>11. Apart(i)
    BY <1>1, <1>8, StopRuntimeKeeps DEF Apart, Frame, network
  <1>12. Ok(i)'
    BY <1>1, <1>9, StopRuntimeOk, Alive DEF Frame
  <1> QED  BY <1>10, <1>11, <1>12

-----------------------------------------------------------------------------
(* Winning the lock, and giving it back.                                   *)

LEMMA Wins ==
    ASSUME IInv, NEW i \in Instances, NEW g \in Goroutines, up[i] # "down",
           UNCHANGED <<runtime, up, open, draining>>,
           lock = NoOne, lock' = i,
           NEW r \in Goroutine, r.pc \in {"verify", "connect"},
           go' = [go EXCEPT ![i][g] = r]
    PROVE  Ok(i)'
  <1>1. \A h \in Goroutines : go'[i][h] = IF h = g THEN r ELSE go[i][h]
    BY DEF IInv, TypeOK
  <1>2. Ok(i) /\ lock # i
    BY DEF IInv
  <1>3. ~Runs(i) /\ Starts(i) = {} /\ Opened(i) = {}
    BY <1>2 DEF Ok, Alone, Starts, Opened, Starting
  <1>4. ~Runs(i)' /\ Starts(i)' = {g} /\ Opened(i)' = {}
    BY <1>1, <1>3 DEF Runs, Starts, Opened, Starting
  <1>5. Alone(i)'
    BY <1>4 DEF Alone
  <1>6. Counted(i)'
    BY <1>2, <1>3, <1>4 DEF Ok, Counted
  <1>7. Draining(i)'
    BY <1>2 DEF Ok, Draining
  <1>8. Ended(i)'
    BY <1>4 DEF Ended
  <1> QED  BY <1>5, <1>6, <1>7, <1>8 DEF Ok

LEMMA GivesUp ==
    ASSUME IInv, NEW i \in Instances, NEW g \in Goroutines,
           UNCHANGED <<runtime, up, open, draining>>,
           go[i][g].pc \in {"verify", "connect"}, lock' = Released(i),
           NEW r \in Goroutine, r.pc \notin Starting,
           go' = [go EXCEPT ![i][g] = r]
    PROVE  Ok(i)'
  <1>1. \A h \in Goroutines : go'[i][h] = IF h = g THEN r ELSE go[i][h]
    BY DEF IInv, TypeOK
  <1>2. Ok(i) /\ g \in Starts(i)
    BY DEF IInv, Starts, Starting
  <1>3. ~Runs(i) /\ Starts(i) = {g} /\ Opened(i) = {}
    BY <1>2 DEF Ok, Alone, Starts, Opened, Starting
  <1>4. ~Runs(i)' /\ Starts(i)' = {} /\ Opened(i)' = {}
    BY <1>1, <1>3 DEF Runs, Starts, Opened, Starting
  <1>5. Alone(i)'
    BY <1>4 DEF Alone
  <1>6. Counted(i)'
    BY <1>2, <1>3, <1>4 DEF Ok, Counted
  <1>7. Draining(i)'
    BY <1>2, <1>3 DEF Ok, Draining
  <1>8. Ended(i)'
    BY <1>2, <1>4, Alive DEF Ended, Starts, Starting
  <1> QED  BY <1>5, <1>6, <1>7, <1>8 DEF Ok

LEMMA EndsGo ==
    ASSUME IInv, NEW i \in Instances, NEW g \in Goroutines, Ends(i, g)
    PROVE  /\ go' = [go EXCEPT ![i][g] = Over(g)] /\ Over(g) \in Goroutine
           /\ Over(g).pc \notin Starting
           /\ go' \in [Instances -> [Goroutines -> Goroutine]]
           /\ \A j \in Instances \ {i} : go'[j] = go[j]
           /\ retrying' \in [Instances -> Retriers \cup {"none"}]
  <1>1. go' = [go EXCEPT ![i][g] = Over(g)]
    BY DEF Ends, Becomes
  <1>2. Over(g) \in Goroutine /\ Over(g).pc \notin Starting
    BY OverType DEF Starting
  <1>3. \A j \in Instances \ {i} : go'[j] = go[j]
    BY <1>1 DEF IInv, TypeOK
  <1>4. retrying' \in [Instances -> Retriers \cup {"none"}]
    BY DEF Ends, IInv, TypeOK
  <1> QED  BY <1>1, <1>2, <1>3, <1>4, GoType DEF IInv

LEMMA BecomesGo ==
    ASSUME IInv, NEW i \in Instances, NEW g \in Goroutines, NEW r \in Goroutine,
           go' = [go EXCEPT ![i][g] = r]
    PROVE  /\ go' \in [Instances -> [Goroutines -> Goroutine]]
           /\ \A j \in Instances \ {i} : go'[j] = go[j]
           /\ \A h \in Goroutines : go'[i][h] = IF h = g THEN r ELSE go[i][h]
  BY GoType DEF IInv, TypeOK

LEMMA GoesGo ==
    ASSUME IInv, NEW i \in Instances, NEW g \in Goroutines, NEW pc \in Pcs, Goes(i, g, pc)
    PROVE  \E r \in Goroutine : r.pc = pc /\ go' = [go EXCEPT ![i][g] = r]
  <1> DEFINE r == [go[i][g] EXCEPT !.pc = pc]
  <1>1. go[i][g] \in Goroutine
    BY DEF IInv, TypeOK, Goroutine
  <1>2. r \in Goroutine /\ r.pc = pc
    BY <1>1 DEF Goroutine
  <1>3. go' = [go EXCEPT ![i][g] = r]
    BY DEF Goes, IInv, TypeOK
  <1> QED  BY <1>2, <1>3

-----------------------------------------------------------------------------
(* StartChannel and StopChannel.                                           *)

LEMMA StopStepKeeps ==
    ASSUME IInv, NEW i \in Instances, NEW g \in Goroutines, StopStep(i, g)
    PROVE  TypeOK' /\ Apart(i) /\ Ok(i)'
  <1> DEFINE r == IF go[i][g].ver # 0 THEN At("start", go[i][g].ver) ELSE Over(g)
  <1>1. r \in Goroutine /\ r.pc \notin Starting
    <2>1. go[i][g].ver \in Nat
      BY DEF IInv, TypeOK
    <2> QED  BY <2>1, AtType, OverType DEF Pcs, Starting
  <1>2. Stops(i, g, r) /\ Frame /\ dropped' \in BOOLEAN
    BY DEF StopStep, IInv, TypeOK
  <1>3. go[i][g].pc \notin Starting /\ go[i][g].pc # "none"
    BY DEF StopStep, Starting
  <1> HIDE DEF r
  <1> QED  BY <1>1, <1>2, <1>3, StopsKeeps

LEMMA StartStepKeeps ==
    ASSUME IInv, NEW i \in Instances, NEW g \in Goroutines, StartStep(i, g)
    PROVE  TypeOK' /\ Apart(i) /\ Ok(i)'
  <1>1. go[i][g].pc \notin Starting /\ go[i][g].pc # "none" /\ Frame /\ UNCHANGED dropped
    BY DEF StartStep, Starting
  <1>2. CASE up[i] = "up"
    <2> DEFINE r == At("elect", go[i][g].ver)
    <2>1. r \in Goroutine /\ r.pc \notin Starting
      <3>1. go[i][g].ver \in Nat
        BY DEF IInv, TypeOK
      <3> QED  BY <3>1, AtType DEF Pcs, Starting
    <2>2. Stops(i, g, r) /\ dropped' \in BOOLEAN
      BY <1>1, <1>2 DEF StartStep, IInv, TypeOK
    <2> HIDE DEF r
    <2> QED  BY <1>1, <2>1, <2>2, StopsKeeps
  <1>3. CASE up[i] # "up"
    <2>1. Ends(i, g) /\ UNCHANGED <<runtime, conns, lock, troubles>>
      BY <1>3 DEF StartStep
    <2>2. TypeOK'
      BY <1>1, <2>1, EndsGo DEF IInv, TypeOK, Frame, conns, network, Goroutine
    <2>3. Apart(i)
      BY <1>1, <2>1, EndsGo DEF Apart, Frame, conns, network
    <2>4. Ok(i)'
      BY <1>1, <2>1, EndsGo, QuietGoes, Alive DEF Frame, conns
    <2> QED  BY <2>2, <2>3, <2>4
  <1> QED  BY <1>2, <1>3

LEMMA ElectKeeps ==
    ASSUME IInv, NEW i \in Instances, NEW g \in Goroutines, Elect(i, g)
    PROVE  TypeOK' /\ Apart(i) /\ Ok(i)'
  <1>1. /\ go[i][g].pc \notin Starting /\ up[i] # "down"
        /\ UNCHANGED <<db, up, inbox, late, changes, runtime, retrying, open, draining, dropped>>
    BY Alive DEF Elect, Starting, Frame, network, conns
  <1>2. troubles' \in 0..MaxTroubles
    BY TroublesType DEF Elect, IInv
  <1>3. CASE lock = NoOne /\ lock' = i /\ Goes(i, g, "connect")
    <2>1. PICK r \in Goroutine : r.pc = "connect" /\ go' = [go EXCEPT ![i][g] = r]
      BY <1>3, GoesGo DEF Pcs, Starting
    <2>2. TypeOK'
      BY <1>1, <1>2, <1>3, <2>1, BecomesGo DEF IInv, TypeOK, Goroutine
    <2>3. Apart(i)
      BY <1>1, <1>3, <2>1, BecomesGo DEF Apart
    <2> QED  BY <1>1, <1>3, <2>1, <2>2, <2>3, Wins
  <1>4. CASE Goes(i, g, "standby") /\ UNCHANGED lock
    <2>1. PICK r \in Goroutine : r.pc = "standby" /\ go' = [go EXCEPT ![i][g] = r]
      BY <1>4, GoesGo DEF Pcs
    <2>2. TypeOK'
      BY <1>1, <1>2, <1>4, <2>1, BecomesGo DEF IInv, TypeOK, Goroutine
    <2>3. Apart(i)
      BY <1>1, <1>4, <2>1, BecomesGo DEF Apart
    <2> QED  BY <1>1, <1>4, <2>1, <2>2, <2>3, QuietGoes DEF Starting
  <1> QED  BY <1>3, <1>4 DEF Elect

LEMMA StandbyKeeps ==
    ASSUME IInv, NEW i \in Instances, NEW g \in Goroutines, Standby(i, g)
    PROVE  TypeOK' /\ Apart(i) /\ Ok(i)'
  <1> DEFINE r == NewRetrier(i)
  <1>1. PICK due \in SUBSET ({retrying[i]} \cap Retriers) :
          LET rest == Cancelled(i, {retrying[i]}, due) IN
          /\ DueOf(due)
          /\ IF up[i] = "up"
             THEN /\ go[i][r].pc = "none"
                  /\ go' = [go EXCEPT ![i] = [rest EXCEPT ![g] = Over(g), ![r] = At("wait", 0)]]
                  /\ retrying' = [retrying EXCEPT ![i] = r]
             ELSE /\ go' = [go EXCEPT ![i] = [rest EXCEPT ![g] = Over(g)]]
                  /\ UNCHANGED retrying
    BY DEF Standby
  <1> DEFINE c == Cancelled(i, {retrying[i]}, due)
  <1>2. /\ go[i][g].pc \notin Starting /\ up[i] # "down"
        /\ UNCHANGED <<db, up, inbox, late, changes, runtime, lock, open, draining, dropped>>
    BY Alive DEF Standby, Starting, Frame, network, conns
  <1>3. r \in Retriers /\ r \in Goroutines
    BY DEF NewRetrier, Retriers, Goroutines
  <1>4. c \in [Goroutines -> Goroutine]
    BY CancelledType DEF IInv
  <1>5. Over(g) \in Goroutine /\ Over(g).pc \notin Starting
    BY OverType DEF Starting
  <1>6. At("wait", 0) \in Goroutine /\ At("wait", 0).pc \notin Starting
    BY AtType DEF Pcs, Starting
  <1> DEFINE n == IF up[i] = "up" THEN [c EXCEPT ![g] = Over(g), ![r] = At("wait", 0)]
                                  ELSE [c EXCEPT ![g] = Over(g)]
  <1>7. /\ n \in [Goroutines -> Goroutine]
        /\ \A h \in Goroutines :
              n[h] = IF up[i] = "up" /\ h = r THEN At("wait", 0) ELSE IF h = g THEN Over(g) ELSE c[h]
    BY <1>3, <1>4, <1>5, <1>6
  <1>8. go' = [go EXCEPT ![i] = n]
    BY <1>1
  <1>9. retrying' \in [Instances -> Retriers \cup {"none"}]
    BY <1>1, <1>3 DEF IInv, TypeOK
  <1>10. troubles' \in 0..MaxTroubles
    BY <1>1, TroublesType DEF DueOf, IInv
  <1>11. up[i] = "up" => go[i][r].pc \notin Starting
    BY <1>1 DEF Starting
  <1> HIDE DEF r
  <1>12. \A h \in Goroutines :
              /\ n[h].pc \in Starting <=> go[i][h].pc \in Starting
              /\ n[h].pc = "register" <=> go[i][h].pc = "register"
    <2> SUFFICES ASSUME NEW h \in Goroutines, n[h] = c[h]
                 PROVE  c[h].pc = go[i][h].pc \/ (c[h].pc \notin Starting /\ go[i][h].pc \notin Starting)
      <3>1. "register" \in Starting
        BY DEF Starting
      <3> QED  BY <1>2, <1>5, <1>6, <1>7, <1>11, <3>1
    <2>1. /\ c[h].pc = go[i][h].pc \/ c[h].pc \in {"stop", "due", "none"}
          /\ go[i][h].pc \in Starting => c[h].pc = go[i][h].pc
      BY CancelledType DEF IInv
    <2> QED  BY <2>1 DEF Starting
  <1> HIDE DEF n, c
  <1>13. /\ go' \in [Instances -> [Goroutines -> Goroutine]] /\ go'[i] = n
         /\ \A j \in Instances \ {i} : go'[j] = go[j]
    BY <1>7, <1>8, GoAllType DEF IInv, TypeOK
  <1>14. TypeOK'
    BY <1>2, <1>9, <1>10, <1>13 DEF IInv, TypeOK, Goroutine
  <1>15. Apart(i)
    BY <1>2, <1>13 DEF Apart
  <1>16. Ok(i)'
    BY <1>2, <1>12, <1>13, Quiet
  <1> QED  BY <1>14, <1>15, <1>16

LEMMA ConnectKeeps ==
    ASSUME IInv, NEW i \in Instances, NEW g \in Goroutines, Connect(i, g)
    PROVE  TypeOK' /\ Apart(i) /\ Ok(i)'
  <1>1. /\ go[i][g].pc = "connect" /\ up[i] # "down"
        /\ UNCHANGED <<db, up, inbox, late, changes, runtime, draining>>
    BY Alive DEF Connect, Frame, network
  <1>2. CASE /\ open' = [open EXCEPT ![i] = @ + 1] /\ Goes(i, g, "register")
             /\ UNCHANGED <<retrying, lock, troubles, dropped>>
    <2>1. PICK r \in Goroutine : r.pc = "register" /\ go' = [go EXCEPT ![i][g] = r]
      BY <1>2, GoesGo DEF Pcs, Starting
    <2>2. /\ open' \in [Instances -> Nat] /\ open'[i] = open[i] + 1
          /\ \A j \in Instances \ {i} : open'[j] = open[j]
      BY <1>2 DEF IInv, TypeOK
    <2>3. TypeOK'
      BY <1>1, <1>2, <2>1, <2>2, BecomesGo DEF IInv, TypeOK, Goroutine
    <2>4. Apart(i)
      BY <1>1, <1>2, <2>1, <2>2, BecomesGo DEF Apart
    <2>5. Ok(i) /\ g \in Starts(i)
      BY <1>1 DEF IInv, Starts, Starting
    <2>6. ~Runs(i) /\ Opened(i) = {}
      BY <1>1, <2>5 DEF Ok, Alone, Starts, Opened, Starting
    <2>7. ~Runs(i)' /\ Starts(i)' = Starts(i) /\ Opened(i)' = {g}
      <3>1. \A h \in Goroutines : go'[i][h] = IF h = g THEN r ELSE go[i][h]
        BY <2>1, BecomesGo
      <3> QED  BY <1>1, <2>1, <2>6, <3>1 DEF Runs, Starts, Opened, Starting
    <2>8. Alone(i)'
      BY <1>2, <2>5, <2>6, <2>7 DEF Ok, Alone
    <2>9. Counted(i)'
      BY <2>2, <2>5, <2>6, <2>7 DEF Ok, Counted
    <2>10. Draining(i)'
      BY <1>1, <1>2, <2>5, <2>7 DEF Ok, Draining
    <2>11. Ended(i)'
      BY <1>1, <2>7 DEF Ended
    <2> QED  BY <2>3, <2>4, <2>8, <2>9, <2>10, <2>11 DEF Ok
  <1>3. CASE /\ Trouble /\ Ends(i, g) /\ lock' = Released(i) /\ dropped' = TRUE
             /\ UNCHANGED open
    <2>1. troubles' \in 0..MaxTroubles /\ lock' \in Instances \cup {NoOne}
          /\ (lock' = lock \/ lock = i)
      BY <1>3, TroublesType DEF IInv, TypeOK, Released
    <2>2. TypeOK'
      BY <1>1, <1>3, <2>1, EndsGo DEF IInv, TypeOK, Goroutine
    <2>3. Apart(i)
      BY <1>1, <1>3, <2>1, EndsGo DEF Apart
    <2>4. Ok(i)'
      BY <1>1, <1>3, EndsGo, GivesUp
    <2> QED  BY <2>2, <2>3, <2>4
  <1> QED  BY <1>2, <1>3 DEF Connect

LEMMA EnterGo ==
    ASSUME IInv, NEW i \in Instances, NEW g \in Goroutines, Enter(i, g), go[i][g].pc = "register"
    PROVE  /\ go' \in [Instances -> [Goroutines -> Goroutine]]
           /\ \A j \in Instances \ {i} : go'[j] = go[j]
           /\ \A h \in Goroutines : go'[i][h].pc \notin Starting
           /\ troubles' \in 0..MaxTroubles
           /\ runtime' \in [Instances -> [version : Nat, renewer : Renewers \cup {"none"}]]
           /\ \A j \in Instances \ {i} : runtime'[j] = runtime[j]
           /\ retrying' \in [Instances -> Retriers \cup {"none"}]
  <1> DEFINE r == NewRenewer(i)
  <1>1. PICK due \in SUBSET ({runtime[i].renewer} \cap Renewers) :
          /\ DueOf(due)
          /\ go' = [go EXCEPT ![i] = [Cancelled(i, {runtime[i].renewer}, due)
                      EXCEPT ![g] = Over(g), ![r] = At("wait", 0)]]
    BY DEF Enter
  <1> DEFINE c == Cancelled(i, {runtime[i].renewer}, due)
             n == [c EXCEPT ![g] = Over(g), ![r] = At("wait", 0)]
  <1>2. r \in Renewers /\ r \in Goroutines
    BY DEF NewRenewer, Renewers, Goroutines
  <1>3. c \in [Goroutines -> Goroutine]
    BY CancelledType DEF IInv
  <1>4. Over(g) \in Goroutine /\ Over(g).pc \notin Starting
    BY OverType DEF Starting
  <1>5. At("wait", 0) \in Goroutine /\ At("wait", 0).pc \notin Starting
    BY AtType DEF Pcs, Starting
  <1>6. /\ n \in [Goroutines -> Goroutine]
        /\ \A h \in Goroutines : n[h] = IF h = r THEN At("wait", 0) ELSE IF h = g THEN Over(g) ELSE c[h]
    BY <1>2, <1>3, <1>4, <1>5
  <1>7. troubles' \in 0..MaxTroubles
    BY <1>1, TroublesType DEF DueOf, IInv
  <1>8. go' = [go EXCEPT ![i] = n]
    BY <1>1
  <1> HIDE DEF n, c, r
  <1>9. \A h \in Goroutines : n[h].pc \notin Starting
    <2> SUFFICES ASSUME NEW h \in Goroutines, h # g, n[h] = c[h]
                 PROVE  c[h].pc \notin Starting
      BY <1>4, <1>5, <1>6
    <2>1. go[i][h].pc \notin Starting
      BY DEF IInv, Ok, Alone, Starts, Starting
    <2>2. c[h].pc = go[i][h].pc \/ c[h].pc \in {"stop", "due", "none"}
      BY CancelledType DEF IInv, c
    <2> QED  BY <2>1, <2>2 DEF Starting
  <1>10. /\ go' \in [Instances -> [Goroutines -> Goroutine]] /\ go'[i] = n
         /\ \A j \in Instances \ {i} : go'[j] = go[j]
    BY <1>6, <1>8, GoAllType DEF IInv, TypeOK
  <1>11. runtime' = [runtime EXCEPT ![i] = [version |-> go[i][g].ver, renewer |-> r]]
    BY DEF Enter, r
  <1>12. go[i][g].ver \in Nat
    BY DEF IInv, TypeOK
  <1>13. /\ runtime' \in [Instances -> [version : Nat, renewer : Renewers \cup {"none"}]]
         /\ \A j \in Instances \ {i} : runtime'[j] = runtime[j]
    BY <1>2, <1>11, <1>12 DEF IInv, TypeOK
  <1>14. retrying' \in [Instances -> Retriers \cup {"none"}]
    BY DEF Enter, IInv, TypeOK
  <1> QED  BY <1>7, <1>9, <1>10, <1>13, <1>14

LEMMA RegisterKeeps ==
    ASSUME IInv, NEW i \in Instances, NEW g \in Goroutines, Register(i, g)
    PROVE  TypeOK' /\ Apart(i) /\ Ok(i)'
  <1>1. /\ go[i][g].pc = "register" /\ up[i] # "down"
        /\ UNCHANGED <<db, up, inbox, late, changes, dropped>>
    BY Alive DEF Register, Frame, network
  <1>2. Ok(i) /\ g \in Starts(i) /\ g \in Opened(i) /\ draining[i] \in Nat
    BY <1>1 DEF IInv, TypeOK, Starts, Opened, Starting
  <1>3. ~Runs(i) /\ lock = i /\ Starts(i) = {g} /\ open[i] = 1
    BY <1>2 DEF Ok, Alone, Counted
  <1>4. CASE up[i] # "up"
    <2>1. Ends(i, g) /\ Close(i) /\ lock' = Released(i) /\ UNCHANGED <<runtime, troubles>>
      BY <1>4 DEF Register
    <2>2. /\ open' \in [Instances -> Nat] /\ draining' \in [Instances -> Nat]
          /\ open'[i] = 0
          /\ draining'[i] = IF LongPoll THEN draining[i] + 1 ELSE draining[i]
          /\ \A j \in Instances \ {i} : open'[j] = open[j] /\ draining'[j] = draining[j]
      BY <1>3, <2>1 DEF Close, IInv, TypeOK
    <2>3. lock' \in Instances \cup {NoOne}
      BY <2>1 DEF Released, IInv, TypeOK
    <2>4. TypeOK'
      BY <1>1, <2>1, <2>2, <2>3, EndsGo DEF IInv, TypeOK, Goroutine
    <2>5. Apart(i)
      BY <1>1, <1>3, <2>1, <2>2, EndsGo DEF Apart
    <2>6. \A h \in Goroutines : go'[i][h] = IF h = g THEN Over(g) ELSE go[i][h]
      BY <2>1, EndsGo DEF IInv, TypeOK
    <2>7. ~Runs(i)' /\ Starts(i)' = {} /\ Opened(i)' = {}
      BY <1>3, <2>1, <2>6, EndsGo DEF Runs, Starts, Opened, Starting
    <2>8. Alone(i)'
      BY <2>7 DEF Alone
    <2>9. Counted(i)'
      BY <2>2, <2>7 DEF Counted
    <2>10. Draining(i)'
      BY <1>1, <1>2, <1>4, <2>2, <2>7 DEF Ok, Draining
    <2>11. Ended(i)'
      BY <1>1, <2>7 DEF Ended
    <2> QED  BY <2>4, <2>5, <2>8, <2>9, <2>10, <2>11 DEF Ok
  <1>5. CASE up[i] = "up"
    <2>1. Enter(i, g) /\ UNCHANGED <<open, draining, lock>>
      BY <1>3, <1>5 DEF Register, conns
    <2>2. TypeOK'
      BY <1>1, <2>1, EnterGo DEF IInv, TypeOK, Goroutine
    <2>3. Apart(i)
      BY <1>1, <2>1, EnterGo DEF Apart
    <2>4. Starts(i)' = {} /\ Opened(i)' = {}
      <3>1. \A h \in Goroutines : go'[i][h].pc \notin Starting
        BY <1>1, <2>1, EnterGo
      <3> QED  BY <3>1 DEF Starts, Opened, Starting
    <2>5. Runs(i)'
      <3>1. go[i][g].ver \in Nat /\ runtime'[i].version = go[i][g].ver
        BY <2>1 DEF Enter, IInv, TypeOK
      <3>2. go[i][g].ver # 0
        BY <1>1 DEF IInv, Versioned, Read
      <3> QED  BY <3>1, <3>2 DEF Runs
    <2>6. Alone(i)'
      BY <1>3, <2>1, <2>4 DEF Alone
    <2>7. Counted(i)'
      BY <1>3, <2>1, <2>5 DEF Counted
    <2>8. Draining(i)'
      BY <1>1, <1>2, <1>3, <1>5, <2>1 DEF Ok, Draining
    <2>9. Ended(i)'
      BY <1>1, <1>5 DEF Ended
    <2> QED  BY <2>2, <2>3, <2>6, <2>7, <2>8, <2>9 DEF Ok
  <1> QED  BY <1>4, <1>5

-----------------------------------------------------------------------------
(* Requests, events and messages.                                          *)

\* A goroutine with nothing to do is sent somewhere.
LEMMA SentKeeps ==
    ASSUME IInv, NEW i \in Instances, NEW g \in Goroutines, NEW r \in Goroutine,
           up[i] # "down", go[i][g].pc \notin Starting, r.pc \notin Starting, Becomes(i, g, r),
           UNCHANGED <<runtime, up, retrying, open, draining, lock>>,
           late' = [late EXCEPT ![i] = late'[i]]
    PROVE  /\ go' \in [Instances -> [Goroutines -> Goroutine]]
           /\ Apart(i) /\ Ok(i)'
  <1>1. go' = [go EXCEPT ![i][g] = r]
    BY DEF Becomes
  <1>2. Ok(i)'
    BY <1>1, QuietGoes
  <1>3. go' \in [Instances -> [Goroutines -> Goroutine]] /\ \A j \in Instances \ {i} : go'[j] = go[j]
    BY <1>1, BecomesGo
  <1>4. Apart(i)
    BY <1>3 DEF Apart, IInv, TypeOK
  <1> QED  BY <1>2, <1>3, <1>4

LEMMA RequestKeeps ==
    ASSUME IInv, NEW i \in Instances, NEW status \in {"on", "off", "gone"},
           NEW version \in Nat \ {0}, NEW next \in Goroutine, next.pc \notin Starting,
           Request(i, status, version, next)
    PROVE  TypeOK' /\ Apart(i) /\ Ok(i)'
  <1>1. /\ up[i] = "up" /\ go[i]["request"].pc = "none" /\ "request" \in Goroutines
        /\ UNCHANGED <<lock, up, runtime, retrying, open, draining, inbox, late, troubles, dropped>>
        /\ changes < MaxChanges /\ changes' = changes + 1
        /\ db' = [status |-> status, version |-> version]
        /\ Becomes(i, "request", next)
    BY DEF Request, Calm, Goroutines, conns, network
  <1>2. late' = [late EXCEPT ![i] = late'[i]]
    BY <1>1 DEF IInv, TypeOK
  <1>3. /\ go' \in [Instances -> [Goroutines -> Goroutine]]
        /\ Apart(i) /\ Ok(i)'
    BY <1>1, <1>2, SentKeeps DEF Starting
  <1>4. changes' \in 0..MaxChanges
    BY <1>1 DEF IInv, TypeOK
  <1>5. db' \in [status : {"on", "off", "gone"}, version : Nat \ {0}]
    BY <1>1
  <1> QED  BY <1>1, <1>3, <1>4, <1>5 DEF IInv, TypeOK, Goroutine

LEMMA ChangeKeeps ==
    ASSUME IInv, NEW i \in Instances, Update(i) \/ Toggle(i) \/ Delete(i)
    PROVE  TypeOK' /\ Apart(i) /\ Ok(i)'
  <1>1. db.version \in Nat \ {0} /\ db.version + 1 \in Nat \ {0}
        /\ db.status \in {"on", "off", "gone"}
    BY DEF IInv, TypeOK
  <1>2. ASSUME NEW pc \in {"stop", "start"}, NEW ver \in Nat
        PROVE  At(pc, ver) \in Goroutine /\ At(pc, ver).pc \notin Starting
    BY <1>2, AtType DEF Pcs, Starting
  <1>3. CASE Update(i)
    <2> DEFINE v == IF db.status = "on" THEN db.version + 1 ELSE 0
    <2>1. v \in Nat
      BY <1>1
    <2>2. Request(i, db.status, db.version + 1, At("stop", v))
      BY <1>3 DEF Update
    <2> HIDE DEF v
    <2> QED  BY <1>1, <1>2, <2>1, <2>2, RequestKeeps
  <1>4. CASE Toggle(i)
    <2>1. CASE db.status = "on"
      <3>1. Request(i, "off", db.version, At("stop", 0))
        BY <1>4, <2>1 DEF Toggle
      <3> QED  BY <1>1, <1>2, <3>1, RequestKeeps
    <2>2. CASE db.status # "on"
      <3>1. Request(i, "on", db.version, At("start", db.version))
        BY <1>4, <2>2 DEF Toggle
      <3> QED  BY <1>1, <1>2, <3>1, RequestKeeps
    <2> QED  BY <2>1, <2>2
  <1>5. CASE Delete(i)
    <2>1. Request(i, "gone", db.version, At("stop", 0))
      BY <1>5 DEF Delete
    <2> QED  BY <1>1, <1>2, <2>1, RequestKeeps
  <1> QED  BY <1>3, <1>4, <1>5

LEMMA PublishKeeps ==
    ASSUME IInv, NEW i \in Instances, Publish(i)
    PROVE  TypeOK' /\ Apart(i) /\ Ok(i)'
  <1>1. /\ go[i]["request"].pc = "publish" /\ "request" \in Goroutines
        /\ Becomes(i, "request", Nothing)
        /\ UNCHANGED <<db, lock, up, runtime, retrying, open, draining, late, changes, dropped>>
    BY DEF Publish, Goroutines, conns
  <1>2. Nothing \in Goroutine /\ Nothing.pc \notin Starting
    BY OverType DEF Starting, Goroutines
  <1>3. up[i] # "down" /\ go[i]["request"].pc \notin Starting
    BY <1>1, Alive DEF Starting
  <1>4. late' = [late EXCEPT ![i] = late'[i]]
    BY <1>1 DEF IInv, TypeOK
  <1>5. /\ go' \in [Instances -> [Goroutines -> Goroutine]]
        /\ Apart(i) /\ Ok(i)'
    BY <1>1, <1>2, <1>3, <1>4, SentKeeps
  <1>6. inbox' \in [Instances -> Nat]
    <2>1. inbox \in [Instances -> Nat]
      BY DEF IInv, TypeOK
    <2>2. CASE up[i] = "up"
      <3>1. PICK missed : inbox' = [j \in Instances |->
                 IF j # i /\ up[j] = "up" /\ j \notin missed THEN inbox[j] + 1 ELSE inbox[j]]
        BY <2>2 DEF Publish
      <3> QED  BY <2>1, <3>1
    <2>3. CASE up[i] # "up"
      BY <2>1, <2>3 DEF Publish
    <2> QED  BY <2>2, <2>3
  <1>7. troubles' \in 0..MaxTroubles
    BY TroublesType DEF Publish, IInv
  <1> QED  BY <1>1, <1>5, <1>6, <1>7 DEF IInv, TypeOK, Goroutine

LEMMA ReloadKeeps ==
    ASSUME IInv, NEW i \in Instances, Reload(i)
    PROVE  TypeOK' /\ Apart(i) /\ Ok(i)'
  <1>1. /\ up[i] = "up" /\ inbox[i] > 0
        /\ go[i]["reload"].pc = "none" /\ "reload" \in Goroutines
        /\ inbox' = [inbox EXCEPT ![i] = @ - 1]
        /\ UNCHANGED <<db, lock, up, runtime, retrying, open, draining, late, changes, dropped>>
    BY DEF Reload, Calm, Goroutines, conns
  <1>2. inbox' \in [Instances -> Nat] /\ troubles' \in 0..MaxTroubles
    BY <1>1, TroublesType DEF Reload, IInv, TypeOK
  <1>3. late' = [late EXCEPT ![i] = late'[i]]
    BY <1>1 DEF IInv, TypeOK
  <1>4. ASSUME NEW r \in Goroutine, r.pc \notin Starting, Becomes(i, "reload", r)
        PROVE  TypeOK' /\ Apart(i) /\ Ok(i)'
    <2>1. /\ go' \in [Instances -> [Goroutines -> Goroutine]]
          /\ Apart(i) /\ Ok(i)'
      BY <1>1, <1>3, <1>4, SentKeeps DEF Starting
    <2> QED  BY <1>1, <1>2, <2>1 DEF IInv, TypeOK, Goroutine
  <1>5. CASE UNCHANGED go
    <2>1. Ok(i)'
      BY <1>1, <1>5, Quiet
    <2>2. TypeOK'
      BY <1>1, <1>2, <1>5 DEF IInv, TypeOK
    <2> QED  BY <1>1, <1>5, <2>1, <2>2 DEF Apart
  <1>6. CASE Becomes(i, "reload", At("start", db.version))
    <2>1. At("start", db.version) \in Goroutine /\ At("start", db.version).pc \notin Starting
      BY AtType DEF IInv, TypeOK, Pcs, Starting
    <2> QED  BY <1>4, <1>6, <2>1
  <1>7. CASE Becomes(i, "reload", At("stop", 0))
    <2>1. At("stop", 0) \in Goroutine /\ At("stop", 0).pc \notin Starting
      BY AtType DEF Pcs, Starting
    <2> QED  BY <1>4, <1>7, <2>1
  <1> QED  BY <1>5, <1>6, <1>7 DEF Reload

LEMMA ReceiveKeeps ==
    ASSUME IInv, NEW i \in Instances, Receive(i)
    PROVE  TypeOK' /\ Apart(i) /\ Ok(i)'
  <1>1. /\ up[i] = "up" /\ late' = [late EXCEPT ![i] = TRUE]
        /\ UNCHANGED <<db, lock, up, runtime, retrying, go, open, draining, inbox, changes, dropped>>
    BY DEF Receive, local, conns
  <1>2. Ok(i)'
    BY <1>1, Quiet
  <1>3. TypeOK'
    BY <1>1, TroublesType DEF Receive, IInv, TypeOK
  <1> QED  BY <1>1, <1>2, <1>3 DEF Apart, IInv, TypeOK

LEMMA HandleKeeps ==
    ASSUME IInv, NEW i \in Instances, Handle(i)
    PROVE  TypeOK' /\ Apart(i) /\ Ok(i)'
  <1>1. /\ late[i] /\ late' = [late EXCEPT ![i] = FALSE]
        /\ go[i]["dynamic"].pc = "none" /\ "dynamic" \in Goroutines
        /\ UNCHANGED <<db, lock, up, runtime, retrying, open, draining, inbox, changes, troubles, dropped>>
    BY DEF Handle, Calm, Goroutines, conns
  <1>2. up[i] # "down"
    BY <1>1 DEF IInv, Ok, Ended
  <1>3. late' \in [Instances -> BOOLEAN] /\ late' = [late EXCEPT ![i] = late'[i]]
    BY <1>1 DEF IInv, TypeOK
  <1>4. CASE UNCHANGED go
    <2>1. Ok(i)'
      BY <1>1, <1>2, <1>4, Quiet
    <2>2. TypeOK'
      BY <1>1, <1>3, <1>4 DEF IInv, TypeOK
    <2> QED  BY <1>1, <1>4, <2>1, <2>2 DEF Apart, IInv, TypeOK
  <1>5. CASE Becomes(i, "dynamic", At("start", db.version))
    <2>1. At("start", db.version) \in Goroutine /\ At("start", db.version).pc \notin Starting
      BY AtType DEF IInv, TypeOK, Pcs, Starting
    <2>2. /\ go' \in [Instances -> [Goroutines -> Goroutine]]
          /\ Apart(i) /\ Ok(i)'
      BY <1>1, <1>2, <1>3, <1>5, <2>1, SentKeeps DEF Starting
    <2> QED  BY <1>1, <1>3, <2>2 DEF IInv, TypeOK, Goroutine
  <1> QED  BY <1>4, <1>5 DEF Handle

-----------------------------------------------------------------------------
(* Renewals and retries.                                                   *)

LEMMA RenewKeeps ==
    ASSUME IInv, NEW i \in Instances, NEW g \in Goroutines, Renew(i, g)
    PROVE  TypeOK' /\ Apart(i) /\ Ok(i)'
  <1>1. /\ go[i][g].pc \notin Starting /\ up[i] # "down"
        /\ UNCHANGED <<db, up, inbox, late, changes, runtime, open, draining, retrying, lock, dropped>>
    BY Alive DEF Renew, LoopFrame, Frame, network, conns, Starting
  <1>2. troubles' \in 0..MaxTroubles
    BY TroublesType DEF Renew, IInv
  <1>3. ASSUME NEW r \in Goroutine, r.pc \notin Starting, go' = [go EXCEPT ![i][g] = r]
        PROVE  TypeOK' /\ Apart(i) /\ Ok(i)'
    <2>1. Ok(i)'
      BY <1>1, <1>3, QuietGoes
    <2>2. /\ go' \in [Instances -> [Goroutines -> Goroutine]]
          /\ \A j \in Instances \ {i} : go'[j] = go[j]
      BY <1>3, BecomesGo
    <2>3. TypeOK'
      BY <1>1, <1>2, <2>2 DEF IInv, TypeOK, Goroutine
    <2> QED  BY <1>1, <2>1, <2>2, <2>3 DEF Apart
  <1>4. CASE Goes(i, g, "check")
    <2>1. \E r \in Goroutine : r.pc = "check" /\ go' = [go EXCEPT ![i][g] = r]
      BY <1>4, GoesGo DEF Pcs
    <2> QED  BY <1>3, <2>1 DEF Starting
  <1>5. CASE Becomes(i, g, At("stop", 0))
    <2>1. At("stop", 0) \in Goroutine /\ At("stop", 0).pc \notin Starting
      BY AtType DEF Pcs, Starting
    <2> QED  BY <1>3, <1>5, <2>1 DEF Becomes
  <1> QED  BY <1>4, <1>5 DEF Renew

LEMMA WaitsGo ==
    ASSUME IInv, NEW i \in Instances, NEW g \in Goroutines, Waits(i, g)
    PROVE  /\ \E r \in Goroutine : r.pc \notin Starting /\ go' = [go EXCEPT ![i][g] = r]
           /\ retrying' \in [Instances -> Retriers \cup {"none"}]
  <1>1. CASE go[i][g].cancelled
    BY <1>1, EndsGo DEF Waits
  <1>2. CASE ~go[i][g].cancelled
    <2>1. \E r \in Goroutine : r.pc = "wait" /\ go' = [go EXCEPT ![i][g] = r]
      BY <1>2, GoesGo DEF Waits, Pcs
    <2>2. UNCHANGED retrying
      BY <1>2 DEF Waits
    <2> QED  BY <2>1, <2>2 DEF Starting, IInv, TypeOK
  <1> QED  BY <1>1, <1>2

LEMMA CheckKeeps ==
    ASSUME IInv, NEW i \in Instances, NEW g \in Goroutines, Check(i, g)
    PROVE  TypeOK' /\ Apart(i) /\ Ok(i)'
  <1>1. /\ go[i][g].pc \notin Starting /\ up[i] # "down"
        /\ UNCHANGED <<db, up, inbox, late, changes, runtime, open, draining, lock, dropped>>
    BY Alive DEF Check, LoopFrame, Frame, network, conns, Starting
  <1>2. troubles' \in 0..MaxTroubles
    BY TroublesType DEF Check, IInv
  <1>3. /\ \E r \in Goroutine : r.pc \notin Starting /\ go' = [go EXCEPT ![i][g] = r]
        /\ retrying' \in [Instances -> Retriers \cup {"none"}]
    <2>1. CASE Becomes(i, g, At("stop", 0)) /\ UNCHANGED retrying
      <3>1. At("stop", 0) \in Goroutine /\ At("stop", 0).pc \notin Starting
        BY AtType DEF Pcs, Starting
      <3> QED  BY <2>1, <3>1 DEF Becomes, IInv, TypeOK
    <2>2. CASE Becomes(i, g, At("start", db.version)) /\ UNCHANGED retrying
      <3>1. At("start", db.version) \in Goroutine /\ At("start", db.version).pc \notin Starting
        BY AtType DEF IInv, TypeOK, Pcs, Starting
      <3> QED  BY <2>2, <3>1 DEF Becomes, IInv, TypeOK
    <2>3. CASE Ends(i, g)
      BY <2>3, EndsGo
    <2>4. CASE Waits(i, g)
      BY <2>4, WaitsGo
    <2> QED  BY <2>1, <2>2, <2>3, <2>4 DEF Check
  <1>4. PICK r \in Goroutine : r.pc \notin Starting /\ go' = [go EXCEPT ![i][g] = r]
    BY <1>3
  <1>5. Ok(i)'
    BY <1>1, <1>4, QuietGoes
  <1>6. TypeOK' /\ Apart(i)
    BY <1>1, <1>2, <1>3, <1>4, BecomesGo DEF Apart, IInv, TypeOK, Goroutine
  <1> QED  BY <1>5, <1>6

LEMMA RetryKeeps ==
    ASSUME IInv, NEW i \in Instances, NEW g \in Goroutines, Retry(i, g)
    PROVE  TypeOK' /\ Apart(i) /\ Ok(i)'
  <1>1. /\ go[i][g].pc \in {"wait", "due"} /\ go[i][g].pc \notin Starting /\ up[i] # "down"
        /\ UNCHANGED <<db, up, inbox, late, changes, runtime, open, draining, troubles, dropped>>
    BY Alive DEF Retry, LoopFrame, Frame, network, conns, Starting
  <1>2. CASE /\ lock = NoOne /\ lock' = i /\ UNCHANGED retrying
             /\ go' = [go EXCEPT ![i][g].pc = "verify",
                                 ![i][g].cancelled = go[i][g].pc = "due"]
    <2> DEFINE due == go[i][g].pc = "due"
               r == [go[i][g] EXCEPT !.pc = "verify", !.cancelled = due]
    <2>1. ASSUME NEW x \in Goroutine, NEW b \in BOOLEAN
          PROVE  /\ [x EXCEPT !.pc = "verify", !.cancelled = b] \in Goroutine
                 /\ [x EXCEPT !.pc = "verify", !.cancelled = b].pc = "verify"
      BY <2>1 DEF Goroutine, Pcs, Starting
    <2>2. go[i][g] \in Goroutine /\ due \in BOOLEAN
      BY DEF IInv, TypeOK, Goroutine
    <2>3. go' = [go EXCEPT ![i][g] = r]
      BY <1>2 DEF IInv, TypeOK
    <2> HIDE DEF due
    <2>4. r \in Goroutine /\ r.pc = "verify"
      BY <2>1, <2>2
    <2> HIDE DEF r
    <2>5. lock = NoOne /\ lock' = i /\ UNCHANGED retrying
      BY <1>2
    <2>6. TypeOK'
      BY <1>1, <2>3, <2>4, <2>5, BecomesGo DEF IInv, TypeOK, Goroutine
    <2>7. Apart(i)
      BY <1>1, <2>3, <2>4, <2>5, BecomesGo DEF Apart
    <2> QED  BY <1>1, <2>3, <2>4, <2>5, <2>6, <2>7, Wins
  <1>3. CASE Ends(i, g) /\ UNCHANGED lock
    <2>1. TypeOK'
      BY <1>1, <1>3, EndsGo DEF IInv, TypeOK, Goroutine
    <2>2. Apart(i)
      BY <1>1, <1>3, EndsGo DEF Apart
    <2> QED  BY <1>1, <1>3, <2>1, <2>2, EndsGo, QuietGoes
  <1> QED  BY <1>2, <1>3 DEF Retry

LEMMA VerifyKeeps ==
    ASSUME IInv, NEW i \in Instances, NEW g \in Goroutines, Verify(i, g)
    PROVE  TypeOK' /\ Apart(i) /\ Ok(i)'
  <1>1. /\ go[i][g].pc = "verify" /\ go[i][g].pc \in Starting /\ up[i] # "down"
        /\ UNCHANGED <<db, up, inbox, late, changes, runtime, open, draining, dropped>>
    BY Alive DEF Verify, LoopFrame, Frame, network, conns, Starting
  <1>2. troubles' \in 0..MaxTroubles
    BY TroublesType DEF Verify, IInv
  <1>3. CASE Becomes(i, g, At("connect", db.version)) /\ UNCHANGED <<retrying, lock>>
    <2> DEFINE r == At("connect", db.version)
    <2>1. r \in Goroutine /\ r.pc = "connect" /\ go' = [go EXCEPT ![i][g] = r]
      BY <1>3, AtType DEF Becomes, IInv, TypeOK, Pcs, Starting
    <2> HIDE DEF r
    <2>2. TypeOK' /\ Apart(i)
      BY <1>1, <1>2, <1>3, <2>1, BecomesGo DEF Apart, IInv, TypeOK, Goroutine
    <2>3. \A h \in Goroutines : go'[i][h] = IF h = g THEN r ELSE go[i][h]
      BY <2>1, BecomesGo
    <2>4. \A h \in Goroutines :
              /\ go'[i][h].pc \in Starting <=> go[i][h].pc \in Starting
              /\ go'[i][h].pc = "register" <=> go[i][h].pc = "register"
      BY <1>1, <2>1, <2>3 DEF Starting
    <2> QED  BY <1>1, <1>3, <2>2, <2>4, Quiet
  <1>4. CASE lock' = Released(i) /\ (Ends(i, g) \/ Waits(i, g))
    <2>1. /\ \E r \in Goroutine : r.pc \notin Starting /\ go' = [go EXCEPT ![i][g] = r]
          /\ retrying' \in [Instances -> Retriers \cup {"none"}]
      BY <1>4, EndsGo, WaitsGo
    <2>2. PICK r \in Goroutine : r.pc \notin Starting /\ go' = [go EXCEPT ![i][g] = r]
      BY <2>1
    <2>3. lock' \in Instances \cup {NoOne} /\ (lock' = lock \/ lock = i)
      BY <1>4 DEF Released, IInv, TypeOK
    <2>4. TypeOK' /\ Apart(i)
      BY <1>1, <1>2, <2>1, <2>2, <2>3, BecomesGo DEF Apart, IInv, TypeOK, Goroutine
    <2>5. Ok(i)'
      BY <1>1, <1>4, <2>2, GivesUp
    <2> QED  BY <2>4, <2>5
  <1> QED  BY <1>3, <1>4 DEF Verify

-----------------------------------------------------------------------------
(* Processes and time.                                                     *)

LEMMA BootKeeps ==
    ASSUME IInv, NEW i \in Instances, Boot(i)
    PROVE  TypeOK' /\ Apart(i) /\ Ok(i)'
  <1>1. /\ up[i] = "down" /\ up' = [up EXCEPT ![i] = "up"] /\ "dynamic" \in Goroutines
        /\ UNCHANGED <<db, lock, runtime, retrying, open, draining, inbox, late, changes, troubles, dropped>>
    BY DEF Boot, conns, network, Goroutines
  <1>2. Ok(i)
    BY DEF IInv
  <1>3. /\ draining[i] = 0 /\ ~Runs(i) /\ \A g \in Goroutines : go[i][g].pc = "none"
    BY <1>1, <1>2, OverType DEF Ok, Ended
  <1>4. /\ go' \in [Instances -> [Goroutines -> Goroutine]]
        /\ \A j \in Instances \ {i} : go'[j] = go[j]
        /\ \A g \in Goroutines : go'[i][g].pc \notin Starting
    <2>1. CASE UNCHANGED go
      BY <1>3, <2>1 DEF IInv, TypeOK, Goroutine, Starting
    <2>2. CASE Becomes(i, "dynamic", At("start", db.version))
      <3> DEFINE r == At("start", db.version)
      <3>1. r \in Goroutine /\ r.pc \notin Starting /\ go' = [go EXCEPT ![i]["dynamic"] = r]
        BY <2>2, AtType DEF Becomes, IInv, TypeOK, Pcs, Starting
      <3> HIDE DEF r
      <3>2. /\ go' \in [Instances -> [Goroutines -> Goroutine]]
            /\ \A j \in Instances \ {i} : go'[j] = go[j]
            /\ \A h \in Goroutines : go'[i][h] = IF h = "dynamic" THEN r ELSE go[i][h]
        BY <1>1, <3>1, BecomesGo
      <3> QED  BY <1>3, <3>1, <3>2 DEF Starting
    <2> QED  BY <2>1, <2>2 DEF Boot
  <1>5. TypeOK'
    BY <1>1, <1>4 DEF IInv, TypeOK, Goroutine
  <1>6. Apart(i)
    BY <1>1, <1>4 DEF Apart, IInv, TypeOK
  <1>7. Starts(i)' = {} /\ Opened(i)' = {} /\ ~Runs(i)' /\ Opened(i) = {}
    BY <1>1, <1>3, <1>4 DEF Starts, Opened, Runs, Starting
  <1>8. up'[i] = "up"
    BY <1>1 DEF IInv, TypeOK
  <1>9. Alone(i)' /\ Ended(i)'
    BY <1>7, <1>8 DEF Alone, Ended
  <1>10. Counted(i)' /\ Draining(i)'
    BY <1>1, <1>2, <1>3, <1>7 DEF Ok, Counted, Draining
  <1> QED  BY <1>5, <1>6, <1>9, <1>10 DEF Ok

LEMMA ShutdownKeeps ==
    ASSUME IInv, NEW i \in Instances, Shutdown(i)
    PROVE  TypeOK' /\ Apart(i) /\ Ok(i)'
  <1>1. /\ up[i] = "up" /\ up' = [up EXCEPT ![i] = "stopping"]
        /\ UNCHANGED <<db, lock, runtime, retrying, go, open, draining, inbox, late, changes, dropped>>
    BY DEF Shutdown, conns, network
  <1>2. TypeOK'
    BY <1>1, TroublesType DEF Shutdown, IInv, TypeOK
  <1>3. Apart(i) /\ up'[i] = "stopping"
    BY <1>1 DEF Apart, IInv, TypeOK
  <1>4. Ok(i) /\ Runs(i)' = Runs(i) /\ Starts(i)' = Starts(i) /\ Opened(i)' = Opened(i)
    BY <1>1 DEF IInv, Runs, Starts, Opened
  <1> QED  BY <1>1, <1>2, <1>3, <1>4 DEF Ok, Alone, Counted, Draining, Ended

LEMMA StopAllKeeps ==
    ASSUME IInv, NEW i \in Instances, StopAll(i)
    PROVE  TypeOK' /\ Apart(i) /\ Ok(i)'
  <1>1. /\ up[i] = "stopping" /\ up' = [up EXCEPT ![i] = "stopped"] /\ StopRuntime(i)
        /\ UNCHANGED <<db, inbox, late, changes, dropped>>
    BY DEF StopAll, network
  <1>2. PICK due : DueOf(due) /\ go' = [go EXCEPT ![i] = Cancelled(i, Loops(i), due)]
    BY DEF StopAll
  <1> DEFINE c == Cancelled(i, Loops(i), due)
  <1>3. c \in [Goroutines -> Goroutine]
    BY CancelledType DEF IInv
  <1>4. \A h \in Goroutines :
              /\ c[h].pc \in Starting <=> go[i][h].pc \in Starting
              /\ c[h].pc = "register" <=> go[i][h].pc = "register"
    <2> SUFFICES ASSUME NEW h \in Goroutines
                 PROVE  c[h].pc = go[i][h].pc \/ (c[h].pc \notin Starting /\ go[i][h].pc \notin Starting)
      BY DEF Starting
    <2>1. /\ c[h].pc = go[i][h].pc \/ c[h].pc \in {"stop", "due", "none"}
          /\ go[i][h].pc \in Starting => c[h].pc = go[i][h].pc
      BY CancelledType DEF IInv
    <2> QED  BY <2>1 DEF Starting
  <1>5. go' = [go EXCEPT ![i] = c]
    BY <1>2
  <1> HIDE DEF c
  <1>6. /\ go' \in [Instances -> [Goroutines -> Goroutine]] /\ go'[i] = c
        /\ \A j \in Instances \ {i} : go'[j] = go[j]
    BY <1>3, <1>5, GoAllType DEF IInv, TypeOK
  <1>7. troubles' \in 0..MaxTroubles
    BY <1>2, TroublesType DEF DueOf, IInv
  <1>8. TypeOK'
    BY <1>1, <1>6, <1>7, StopRuntimeKeeps DEF IInv, TypeOK, Goroutine
  <1>9. Apart(i) /\ up'[i] = "stopped"
    BY <1>1, <1>6, StopRuntimeKeeps DEF Apart, IInv, TypeOK
  <1>10. Ok(i)'
    BY <1>1, <1>4, <1>6, <1>9, StopRuntimeOk
  <1> QED  BY <1>8, <1>9, <1>10

LEMMA DieKeeps ==
    ASSUME IInv, NEW i \in Instances, Die(i)
    PROVE  TypeOK' /\ Apart(i) /\ Ok(i)'
  <1>1. /\ up' = [up EXCEPT ![i] = "down"]
        /\ runtime' = [runtime EXCEPT ![i] = NoRuntime]
        /\ retrying' = [retrying EXCEPT ![i] = "none"]
        /\ go' = [go EXCEPT ![i] = [g \in Goroutines |-> Nothing]]
        /\ open' = [open EXCEPT ![i] = 0] /\ draining' = [draining EXCEPT ![i] = 0]
        /\ inbox' = [inbox EXCEPT ![i] = 0] /\ late' = [late EXCEPT ![i] = FALSE]
        /\ UNCHANGED <<db, lock, changes, dropped>>
    BY DEF Die
  <1>2. troubles' \in 0..MaxTroubles
    BY TroublesType DEF Die, IInv
  <1> DEFINE n == [g \in Goroutines |-> Nothing]
  <1>3. n \in [Goroutines -> Goroutine] /\ \A g \in Goroutines : n[g] = Nothing
    BY OverType
  <1>4. go' = [go EXCEPT ![i] = n]
    BY <1>1
  <1> HIDE DEF n
  <1>5. /\ go' \in [Instances -> [Goroutines -> Goroutine]] /\ go'[i] = n
        /\ \A j \in Instances \ {i} : go'[j] = go[j]
    BY <1>3, <1>4, GoAllType DEF IInv, TypeOK
  <1>6. NoRuntime \in [version : Nat, renewer : Renewers \cup {"none"}] /\ NoRuntime.version = 0
    BY DEF NoRuntime
  <1>7. /\ up' \in [Instances -> {"up", "stopping", "stopped", "down"}] /\ up'[i] = "down"
        /\ runtime' \in [Instances -> [version : Nat, renewer : Renewers \cup {"none"}]]
        /\ runtime'[i] = NoRuntime
        /\ retrying' \in [Instances -> Retriers \cup {"none"}]
        /\ open' \in [Instances -> Nat] /\ open'[i] = 0
        /\ draining' \in [Instances -> Nat] /\ draining'[i] = 0
        /\ inbox' \in [Instances -> Nat]
        /\ late' \in [Instances -> BOOLEAN] /\ late'[i] = FALSE
    BY <1>1, <1>6 DEF IInv, TypeOK
  <1>8. TypeOK'
    BY <1>1, <1>2, <1>5, <1>7 DEF IInv, TypeOK, Goroutine
  <1>9. Apart(i)
    BY <1>1, <1>5 DEF Apart, IInv, TypeOK
  <1>10. ~Runs(i)' /\ Starts(i)' = {} /\ Opened(i)' = {}
    BY <1>3, <1>5, <1>6, <1>7, OverType DEF Runs, Starts, Opened, Starting
  <1>11. Ok(i)'
    BY <1>3, <1>5, <1>7, <1>10 DEF Ok, Alone, Counted, Draining, Ended
  <1> QED  BY <1>8, <1>9, <1>11

LEMMA DrainedKeeps ==
    ASSUME IInv, NEW i \in Instances, Drained(i)
    PROVE  TypeOK' /\ Apart(i) /\ Ok(i)'
  <1>1. /\ draining[i] > 0 /\ draining' = [draining EXCEPT ![i] = @ - 1]
        /\ UNCHANGED <<db, lock, up, runtime, retrying, go, open, inbox, late, changes, troubles, dropped>>
    BY DEF Drained, local, network
  <1>2. /\ draining' \in [Instances -> Nat] /\ draining'[i] = draining[i] - 1 /\ draining[i] \in Nat
        /\ \A j \in Instances \ {i} : draining'[j] = draining[j]
    BY <1>1 DEF IInv, TypeOK
  <1>3. TypeOK' /\ Apart(i)
    BY <1>1, <1>2 DEF Apart, IInv, TypeOK
  <1>4. Ok(i) /\ Runs(i)' = Runs(i) /\ Starts(i)' = Starts(i) /\ Opened(i)' = Opened(i)
    BY <1>1 DEF IInv, Runs, Starts, Opened
  <1>5. Draining(i)'
    BY <1>1, <1>2, <1>4 DEF Ok, Draining
  <1> QED  BY <1>1, <1>2, <1>3, <1>4, <1>5 DEF Ok, Alone, Counted, Ended

LEMMA ExpireKeeps ==
    ASSUME IInv, Expire
    PROVE  TypeOK' /\ \A i \in Instances : Ok(i)'
  <1>1. /\ lock \in Instances /\ ~Keeps(lock) /\ lock' = NoOne
        /\ UNCHANGED <<db, up, runtime, retrying, go, open, draining, inbox, late, changes, troubles, dropped>>
    BY DEF Expire, local, conns, network, IInv, TypeOK
  <1>2. TypeOK'
    BY <1>1 DEF IInv, TypeOK
  <1>3. ~Runs(lock) /\ Starts(lock) = {} /\ draining[lock] = 0
    BY <1>1 DEF Keeps, Starts, IInv, TypeOK
  <1>4. ASSUME NEW i \in Instances
        PROVE  Ok(i)'
    <2>1. Ok(i) /\ Runs(i)' = Runs(i) /\ Starts(i)' = Starts(i) /\ Opened(i)' = Opened(i)
      BY <1>1 DEF IInv, Runs, Starts, Opened
    <2>2. Alone(i)'
      BY <1>3, <2>1 DEF Ok, Alone
    <2>3. Draining(i)'
      BY <1>1, <1>3, <2>1 DEF Ok, Draining
    <2> QED  BY <1>1, <2>1, <2>2, <2>3 DEF Ok, Counted, Ended
  <1> QED  BY <1>2, <1>4

-----------------------------------------------------------------------------
(* Versions.                                                               *)

LEMMA CancelledVersion ==
    ASSUME TypeOK, NEW i \in Instances, NEW gs, NEW due, NEW g \in Goroutines,
           Cancelled(i, gs, due)[g].pc \in Read
    PROVE  /\ Cancelled(i, gs, due)[g].ver = go[i][g].ver
           /\ Cancelled(i, gs, due)[g].pc = go[i][g].pc
  <1> DEFINE c == Cancelled(i, gs, due)
  <1>1. c[g] = CASE g \notin gs -> go[i][g]
         [] g \in gs /\ go[i][g].pc # "wait" -> [go[i][g] EXCEPT !.cancelled = TRUE]
         [] g \in gs \cap due /\ go[i][g].pc = "wait" ->
              At(IF g \in Renewers THEN "stop" ELSE "due", 0)
         [] OTHER -> Nothing
    BY DEF Cancelled
  <1>2. go[i][g] \in Goroutine
    BY DEF TypeOK, Goroutine
  <1>3. CASE g \notin gs
    BY <1>1, <1>3
  <1>4. CASE g \in gs /\ go[i][g].pc # "wait"
    <2>1. c[g] = [go[i][g] EXCEPT !.cancelled = TRUE]
      BY <1>1, <1>4
    <2> QED  BY <1>2, <2>1 DEF Goroutine
  <1>5. CASE g \in gs /\ go[i][g].pc = "wait"
    <2>1. c[g] = At("stop", 0) \/ c[g] = At("due", 0) \/ c[g] = Nothing
      BY <1>1, <1>5
    <2>2. c[g].pc \in {"stop", "due", "none"}
      BY <2>1, AtType, OverType DEF Pcs
    <2> QED  BY <2>2 DEF Read
  <1> QED  BY <1>3, <1>4, <1>5

LEMMA SetsVersioned ==
    ASSUME IInv, NEW i \in Instances, NEW g \in Goroutines, NEW r,
           r.pc \in Read => r.ver # 0, go' = [go EXCEPT ![i][g] = r]
    PROVE  Versioned'
  BY DEF IInv, TypeOK, Versioned

LEMMA EndsVersioned ==
    ASSUME IInv, NEW i \in Instances, NEW g \in Goroutines, Ends(i, g)
    PROVE  Versioned'
  BY EndsGo, SetsVersioned, OverType DEF Read

LEMMA GoesVersioned ==
    ASSUME IInv, NEW i \in Instances, NEW g \in Goroutines, NEW pc \in Pcs, Goes(i, g, pc),
           pc \in Read => go[i][g].pc \in Read
    PROVE  Versioned'
  <1> DEFINE r == [go[i][g] EXCEPT !.pc = pc]
  <1>1. go[i][g] \in Goroutine
    BY DEF IInv, TypeOK, Goroutine
  <1>2. r.ver = go[i][g].ver /\ r.pc = pc
    BY <1>1 DEF Goroutine
  <1>3. go' = [go EXCEPT ![i][g] = r]
    BY DEF Goes, IInv, TypeOK
  <1> HIDE DEF r
  <1> QED  BY <1>2, <1>3, SetsVersioned DEF IInv, Versioned

LEMMA AllVersioned ==
    ASSUME IInv, NEW i \in Instances, NEW n, go' = [go EXCEPT ![i] = n],
           \A g \in Goroutines : n[g].pc \in Read => n[g].ver # 0
    PROVE  Versioned'
  BY DEF IInv, TypeOK, Versioned

LEMMA BecomesVersioned ==
    ASSUME IInv, NEW i \in Instances, NEW g \in Goroutines, NEW pc \in Pcs,
           Becomes(i, g, At(pc, db.version)) \/ (Becomes(i, g, At(pc, 0)) /\ pc \notin Read)
    PROVE  Versioned'
  <1>1. db.version \in Nat \ {0}
    BY DEF IInv, TypeOK
  <1>2. PICK ver \in Nat : /\ pc \in Read => ver # 0
                           /\ go' = [go EXCEPT ![i][g] = At(pc, ver)]
    BY <1>1 DEF Becomes
  <1>3. At(pc, ver).pc = pc /\ At(pc, ver).ver = ver
    BY AtType
  <1> QED  BY <1>2, <1>3, SetsVersioned

LEMMA StopsVersioned ==
    ASSUME IInv, NEW i \in Instances, NEW g \in Goroutines, NEW r, Stops(i, g, r),
           r.pc \in Read => r.ver # 0
    PROVE  Versioned'
  <1>1. PICK due : go' = [go EXCEPT ![i] = [Cancelled(i, Loops(i), due) EXCEPT ![g] = r]]
    BY DEF Stops
  <1> DEFINE c == Cancelled(i, Loops(i), due)
             n == [c EXCEPT ![g] = r]
  <1>2. c \in [Goroutines -> Goroutine]
    BY CancelledType DEF IInv
  <1>3. \A h \in Goroutines : n[h] = IF h = g THEN r ELSE c[h]
    BY <1>2
  <1>4. \A h \in Goroutines : c[h].pc \in Read => c[h].ver # 0
    BY CancelledVersion DEF IInv, Versioned
  <1>5. go' = [go EXCEPT ![i] = n]
    BY <1>1
  <1> HIDE DEF n, c
  <1> QED  BY <1>3, <1>4, <1>5, AllVersioned

\* What replaces goroutines that were cancelled: g is through, and a loop waits.
LEMMA LoopVersioned ==
    ASSUME IInv, NEW i \in Instances, NEW g \in Goroutines, NEW r \in Goroutines,
           NEW gs, NEW due, NEW n,
           \/ n = [Cancelled(i, gs, due) EXCEPT ![g] = Over(g), ![r] = At("wait", 0)]
           \/ n = [Cancelled(i, gs, due) EXCEPT ![g] = Over(g)],
           go' = [go EXCEPT ![i] = n]
    PROVE  Versioned'
  <1> DEFINE c == Cancelled(i, gs, due)
  <1>1. c \in [Goroutines -> Goroutine]
    BY CancelledType DEF IInv
  <1>2. \A h \in Goroutines : c[h].pc \in Read => c[h].ver # 0
    BY CancelledVersion DEF IInv, Versioned
  <1>3. At("wait", 0).pc \notin Read /\ Over(g).pc \notin Read
    BY AtType, OverType DEF Pcs, Read
  <1>4. n = [c EXCEPT ![g] = Over(g), ![r] = At("wait", 0)] \/ n = [c EXCEPT ![g] = Over(g)]
    OBVIOUS
  <1> HIDE DEF c
  <1>5. \A h \in Goroutines : n[h] \in {At("wait", 0), Over(g), c[h]}
    BY <1>1, <1>4
  <1>6. \A h \in Goroutines : n[h].pc \in Read => n[h].ver # 0
    BY <1>2, <1>3, <1>5
  <1> QED  BY <1>6, AllVersioned

LEMMA StartOrStopVersioned ==
    ASSUME IInv, NEW i \in Instances, NEW g \in Goroutines, StartOrStop(i, g)
    PROVE  Versioned'
  <1>1. go[i][g].ver \in Nat /\ (go[i][g].pc \in Read => go[i][g].ver # 0)
    BY DEF IInv, TypeOK, Versioned
  <1>2. CASE StopStep(i, g)
    <2> DEFINE r == IF go[i][g].ver # 0 THEN At("start", go[i][g].ver) ELSE Over(g)
    <2>1. r.pc \in Read => r.ver # 0
      BY <1>1, AtType, OverType DEF Pcs, Read
    <2>2. Stops(i, g, r)
      BY <1>2 DEF StopStep
    <2> HIDE DEF r
    <2> QED  BY <2>1, <2>2, StopsVersioned
  <1>3. CASE StartStep(i, g)
    <2>1. CASE Stops(i, g, At("elect", go[i][g].ver))
      <3>1. At("elect", go[i][g].ver).ver # 0
        BY <1>1, <1>3, AtType DEF StartStep, Pcs, Read
      <3> QED  BY <2>1, <3>1, StopsVersioned
    <2> QED  BY <1>3, <2>1, EndsVersioned DEF StartStep
  <1>4. CASE Elect(i, g)
    <2>1. go[i][g].pc \in Read
      BY <1>4 DEF Elect, Read
    <2>2. Goes(i, g, "connect") \/ Goes(i, g, "standby")
      BY <1>4 DEF Elect
    <2> QED  BY <2>1, <2>2, GoesVersioned DEF Pcs, Starting
  <1>5. CASE Standby(i, g)
    <2> DEFINE r == NewRetrier(i)
    <2>1. r \in Goroutines
      BY DEF NewRetrier, Goroutines, Retriers
    <2>2. \E due :
            \/ go' = [go EXCEPT ![i] = [Cancelled(i, {retrying[i]}, due)
                         EXCEPT ![g] = Over(g), ![r] = At("wait", 0)]]
            \/ go' = [go EXCEPT ![i] = [Cancelled(i, {retrying[i]}, due) EXCEPT ![g] = Over(g)]]
      BY <1>5 DEF Standby
    <2> HIDE DEF r
    <2> QED  BY <2>1, <2>2, LoopVersioned
  <1>6. CASE Connect(i, g)
    <2>1. go[i][g].pc \in Read
      BY <1>6 DEF Connect, Read
    <2>2. Goes(i, g, "register") \/ Ends(i, g)
      BY <1>6 DEF Connect
    <2> QED  BY <2>1, <2>2, GoesVersioned, EndsVersioned DEF Pcs, Starting
  <1>7. CASE Register(i, g)
    <2> DEFINE r == NewRenewer(i)
    <2>1. r \in Goroutines
      BY DEF NewRenewer, Goroutines, Renewers
    <2>2. CASE Enter(i, g)
      <3>1. \E due : go' = [go EXCEPT ![i] = [Cancelled(i, {runtime[i].renewer}, due)
                         EXCEPT ![g] = Over(g), ![r] = At("wait", 0)]]
        BY <2>2 DEF Enter
      <3> HIDE DEF r
      <3> QED  BY <2>1, <3>1, LoopVersioned
    <2> QED  BY <1>7, <2>2, EndsVersioned DEF Register
  <1> QED  BY <1>2, <1>3, <1>4, <1>5, <1>6, <1>7 DEF StartOrStop

LEMMA WaitsVersioned ==
    ASSUME IInv, NEW i \in Instances, NEW g \in Goroutines, Waits(i, g)
    PROVE  Versioned'
  BY EndsVersioned, GoesVersioned DEF Waits, Pcs, Read

LEMMA LoopStepVersioned ==
    ASSUME IInv, NEW i \in Instances, NEW g \in Goroutines, LoopStep(i, g)
    PROVE  Versioned'
  <1>1. CASE Renew(i, g)
    BY <1>1, GoesVersioned, BecomesVersioned DEF Renew, Pcs, Read
  <1>2. CASE Check(i, g)
    BY <1>2, WaitsVersioned, EndsVersioned, BecomesVersioned DEF Check, Pcs, Read
  <1>3. CASE Retry(i, g)
    <2>1. CASE go' = [go EXCEPT ![i][g].pc = "verify",
                                ![i][g].cancelled = go[i][g].pc = "due"]
      <3> DEFINE due == go[i][g].pc = "due"
                 r == [go[i][g] EXCEPT !.pc = "verify", !.cancelled = due]
      <3>1. ASSUME NEW x \in Goroutine, NEW b \in BOOLEAN
            PROVE  [x EXCEPT !.pc = "verify", !.cancelled = b].pc \notin Read
        BY <3>1 DEF Goroutine, Read
      <3>2. go[i][g] \in Goroutine /\ due \in BOOLEAN
        BY DEF IInv, TypeOK, Goroutine
      <3>3. go' = [go EXCEPT ![i][g] = r]
        BY <2>1 DEF IInv, TypeOK
      <3> HIDE DEF due
      <3>4. r.pc \notin Read
        BY <3>1, <3>2
      <3> HIDE DEF r
      <3> QED  BY <3>3, <3>4, SetsVersioned
    <2> QED  BY <1>3, <2>1, EndsVersioned DEF Retry
  <1>4. CASE Verify(i, g)
    BY <1>4, WaitsVersioned, EndsVersioned, BecomesVersioned DEF Verify, Pcs, Starting
  <1> QED  BY <1>1, <1>2, <1>3, <1>4 DEF LoopStep

LEMMA UnchangedVersioned ==
    ASSUME IInv, UNCHANGED go
    PROVE  Versioned'
  BY DEF IInv, Versioned

LEMMA ChangeVersioned ==
    ASSUME IInv, NEW i \in Instances, Update(i) \/ Toggle(i) \/ Delete(i)
    PROVE  Versioned'
  <1>1. PICK pc \in {"stop", "start"}, ver \in Nat :
           /\ pc = "start" => ver # 0
           /\ go' = [go EXCEPT ![i]["request"] = At(pc, ver)]
    <2>1. db.version \in Nat \ {0} /\ db.version + 1 \in Nat
      BY DEF IInv, TypeOK
    <2>2. CASE Update(i)
      <3> DEFINE v == IF db.status = "on" THEN db.version + 1 ELSE 0
      <3>1. v \in Nat /\ go' = [go EXCEPT ![i]["request"] = At("stop", v)]
        BY <2>1, <2>2 DEF Update, Request, Becomes
      <3> QED  BY <3>1
    <2>3. CASE Toggle(i)
      <3>1. \/ go' = [go EXCEPT ![i]["request"] = At("stop", 0)]
            \/ go' = [go EXCEPT ![i]["request"] = At("start", db.version)]
        BY <2>3 DEF Toggle, Request, Becomes
      <3> QED  BY <2>1, <3>1
    <2>4. CASE Delete(i)
      <3>1. go' = [go EXCEPT ![i]["request"] = At("stop", 0)]
        BY <2>4 DEF Delete, Request, Becomes
      <3> QED  BY <3>1
    <2> QED  BY <2>2, <2>3, <2>4
  <1>2. At(pc, ver).pc = pc /\ At(pc, ver).ver = ver /\ "request" \in Goroutines
    BY AtType DEF Pcs, Goroutines
  <1> QED  BY <1>1, <1>2, SetsVersioned DEF Read

LEMMA InstanceVersioned ==
    ASSUME IInv, NEW i \in Instances,
           Publish(i) \/ Reload(i) \/ Handle(i) \/ Boot(i) \/ StopAll(i) \/ Die(i)
    PROVE  Versioned'
  <1>1. {"request", "reload", "dynamic"} \subseteq Goroutines /\ {"start", "stop"} \subseteq Pcs
    BY DEF Goroutines, Pcs
  <1>2. CASE Publish(i)
    BY <1>1, <1>2, SetsVersioned, OverType DEF Publish, Becomes, Read
  <1>3. CASE Reload(i)
    BY <1>1, <1>3, UnchangedVersioned, BecomesVersioned DEF Reload, Read
  <1>4. CASE Handle(i)
    BY <1>1, <1>4, UnchangedVersioned, BecomesVersioned DEF Handle
  <1>5. CASE Boot(i)
    BY <1>1, <1>5, UnchangedVersioned, BecomesVersioned DEF Boot
  <1>6. CASE StopAll(i)
    <2>1. PICK due : go' = [go EXCEPT ![i] = Cancelled(i, Loops(i), due)]
      BY <1>6 DEF StopAll
    <2>2. \A h \in Goroutines : Cancelled(i, Loops(i), due)[h].pc \in Read
                                => Cancelled(i, Loops(i), due)[h].ver # 0
      BY CancelledVersion DEF IInv, Versioned
    <2> QED  BY <2>1, <2>2, AllVersioned
  <1>7. CASE Die(i)
    <2> DEFINE n == [g \in Goroutines |-> Nothing]
    <2>1. \A g \in Goroutines : n[g].pc \notin Read
      BY OverType DEF Read
    <2>2. go' = [go EXCEPT ![i] = n]
      BY <1>7 DEF Die
    <2> HIDE DEF n
    <2> QED  BY <2>1, <2>2, AllVersioned
  <1> QED  BY <1>2, <1>3, <1>4, <1>5, <1>6, <1>7

-----------------------------------------------------------------------------
(* The invariant, and what follows from it.                                *)

LEMMA InitKept ==
    ASSUME Init
    PROVE  IInv
  <1>1. PICK leader \in Instances :
       /\ db = [status |-> "on", version |-> 1]
       /\ lock = leader
       /\ up = [i \in Instances |-> "up"]
       /\ runtime = [i \in Instances |-> IF i = leader
                        THEN [version |-> 1, renewer |-> "renew1"] ELSE NoRuntime]
       /\ retrying = [i \in Instances |-> IF i = leader THEN "none" ELSE "retry1"]
       /\ go = [i \in Instances |-> [g \in Goroutines |->
                   IF g = (IF i = leader THEN "renew1" ELSE "retry1") THEN At("wait", 0)
                                                                      ELSE Nothing]]
       /\ open = [i \in Instances |-> IF i = leader THEN 1 ELSE 0]
       /\ draining = [i \in Instances |-> 0]
       /\ inbox = [i \in Instances |-> 0] /\ late = [i \in Instances |-> FALSE]
       /\ changes = 0 /\ troubles = 0
       /\ dropped = FALSE
    BY DEF Init
  <1>2. \A i \in Instances, g \in Goroutines :
          go[i][g] = IF g = (IF i = leader THEN "renew1" ELSE "retry1") THEN At("wait", 0) ELSE Nothing
    BY <1>1
  <1>3. /\ At("wait", 0) \in Goroutine /\ At("wait", 0).pc = "wait"
        /\ Nothing \in Goroutine /\ Nothing.pc = "none"
    BY AtType, OverType DEF Pcs, Goroutines
  <1>4. go \in [Instances -> [Goroutines -> Goroutine]]
    BY <1>1, <1>3
  <1>5. \A i \in Instances, g \in Goroutines : go[i][g].pc \in {"wait", "none"}
    BY <1>2, <1>3
  <1>6. NoRuntime \in [version : Nat, renewer : Renewers \cup {"none"}] /\ NoRuntime.version = 0
    BY DEF NoRuntime
  <1>7. runtime \in [Instances -> [version : Nat, renewer : Renewers \cup {"none"}]]
    BY <1>1, <1>6 DEF Renewers
  <1>8. TypeOK
    <2>1. retrying \in [Instances -> Retriers \cup {"none"}]
      BY <1>1 DEF Retriers
    <2>2. db \in [status : {"on", "off", "gone"}, version : Nat \ {0}]
      BY <1>1
    <2>3. /\ lock \in Instances \cup {NoOne}
          /\ changes \in 0..MaxChanges /\ troubles \in 0..MaxTroubles
          /\ dropped \in BOOLEAN
      <3>1. lock = leader /\ changes = 0 /\ troubles = 0 /\ dropped = FALSE
        BY <1>1
      <3>2. 0 \in 0..MaxChanges /\ 0 \in 0..MaxTroubles
        BY ChannelLeaderAssumption
      <3> QED  BY <3>1, <3>2
    <2>4. /\ up \in [Instances -> {"up", "stopping", "stopped", "down"}]
          /\ open \in [Instances -> Nat] /\ draining \in [Instances -> Nat]
      BY <1>1
    <2>5. inbox \in [Instances -> Nat] /\ late \in [Instances -> BOOLEAN]
      BY <1>1
    <2> QED  BY <1>4, <1>7, <2>1, <2>2, <2>3, <2>4, <2>5 DEF TypeOK, Goroutine
  <1>9. Versioned
    BY <1>5 DEF Versioned, Read
  <1>10. ASSUME NEW i \in Instances
         PROVE  Ok(i)
    <2>1. Starts(i) = {} /\ Opened(i) = {}
      BY <1>5 DEF Starts, Opened, Starting
    <2>2. Runs(i) <=> i = leader
      BY <1>1, <1>6 DEF Runs
    <2> QED  BY <1>1, <2>1, <2>2 DEF Ok, Alone, Counted, Draining, Ended
  <1> QED  BY <1>8, <1>9, <1>10 DEF IInv

LEMMA StepKeeps ==
    ASSUME IInv, [Next]_vars
    PROVE  IInv'
  <1>1. ASSUME NEW i \in Instances, NEW g \in Goroutines, StartOrStop(i, g)
        PROVE  IInv'
    <2>1. TypeOK' /\ Apart(i) /\ Ok(i)'
      BY <1>1, StopStepKeeps, StartStepKeeps, ElectKeeps, StandbyKeeps, ConnectKeeps, RegisterKeeps
      DEF StartOrStop
    <2> QED  BY <1>1, <2>1, Others, StartOrStopVersioned DEF IInv
  <1>2. ASSUME NEW i \in Instances, NEW g \in Goroutines, LoopStep(i, g)
        PROVE  IInv'
    <2>1. TypeOK' /\ Apart(i) /\ Ok(i)'
      BY <1>2, RenewKeeps, CheckKeeps, RetryKeeps, VerifyKeeps DEF LoopStep
    <2> QED  BY <1>2, <2>1, Others, LoopStepVersioned DEF IInv
  <1>3. ASSUME NEW i \in Instances,
               Publish(i) \/ Reload(i) \/ Handle(i) \/ Boot(i) \/ StopAll(i) \/ Die(i)
        PROVE  IInv'
    <2>1. TypeOK' /\ Apart(i) /\ Ok(i)'
      BY <1>3, PublishKeeps, ReloadKeeps, HandleKeeps, BootKeeps, StopAllKeeps, DieKeeps
    <2> QED  BY <1>3, <2>1, Others, InstanceVersioned DEF IInv
  <1>4. ASSUME NEW i \in Instances, Drained(i) \/ Receive(i) \/ Shutdown(i)
        PROVE  IInv'
    <2>1. TypeOK' /\ Apart(i) /\ Ok(i)'
      BY <1>4, DrainedKeeps, ReceiveKeeps, ShutdownKeeps
    <2>2. UNCHANGED go
      BY <1>4 DEF Drained, Receive, Shutdown, local
    <2> QED  BY <2>1, <2>2, Others, UnchangedVersioned DEF IInv
  <1>5. ASSUME Change
        PROVE  IInv'
    <2>1. PICK i \in Instances : Update(i) \/ Toggle(i) \/ Delete(i)
      BY <1>5 DEF Change
    <2>2. TypeOK' /\ Apart(i) /\ Ok(i)'
      BY <2>1, ChangeKeeps
    <2> QED  BY <2>1, <2>2, Others, ChangeVersioned DEF IInv
  <1>6. ASSUME Expire
        PROVE  IInv'
    <2>1. UNCHANGED go
      BY <1>6 DEF Expire, local
    <2> QED  BY <1>6, <2>1, ExpireKeeps, UnchangedVersioned DEF IInv
  <1>7. ASSUME UNCHANGED vars
        PROVE  IInv'
    <2>1. UNCHANGED <<db, lock, up, runtime, retrying, go, open, draining, inbox, late, changes,
                      troubles, dropped>>
      BY <1>7 DEF vars, local, conns, network
    <2>2. TypeOK' /\ Versioned'
      BY <2>1 DEF IInv, TypeOK, Versioned
    <2>3. \A i \in Instances : Ok(i)'
      BY <2>1 DEF IInv, Ok, Alone, Counted, Draining, Ended, Runs, Starts, Opened
    <2> QED  BY <2>2, <2>3 DEF IInv
  <1> QED  BY <1>1, <1>2, <1>3, <1>4, <1>5, <1>6, <1>7 DEF Next, Environment

LEMMA InvariantKept == Spec => []IInv
  <1>1. Init => IInv
    BY InitKept
  <1>2. IInv /\ [Next]_vars => IInv'
    BY StepKeeps
  <1> QED  BY <1>1, <1>2, PTL DEF Spec

(***************************************************************************)
(* Every state is well-typed: what is counted is never below zero.         *)
(***************************************************************************)
THEOREM TypeCorrect == Spec => []TypeOK
  <1>1. IInv => TypeOK
    BY DEF IInv
  <1> QED  BY <1>1, InvariantKept, PTL

(***************************************************************************)
(* At most one connection serves the channel, over all instances.          *)
(***************************************************************************)
THEOREM ServedOnce == Spec => []OneConnection
  <1>1. ASSUME IInv
        PROVE  OneConnection
    <2>1. ASSUME NEW i \in Instances
          PROVE  /\ Connections(i) \in {0, 1}
                 /\ Connections(i) = 1 => lock = i
      <3>1. Ok(i) /\ draining[i] \in Nat
        BY <1>1 DEF IInv, TypeOK
      <3>2. Opened(i) \subseteq Starts(i)
        BY DEF Opened, Starts, Starting
      <3>3. open[i] \in {0, 1} /\ (open[i] = 1 => lock = i)
        BY <3>1, <3>2 DEF Ok, Alone, Counted
      <3>4. up[i] = "up" /\ draining[i] > 0 => draining[i] = 1 /\ lock = i /\ open[i] = 0
        BY <3>1, <3>2 DEF Ok, Draining, Counted
      <3> QED  BY <3>1, <3>3, <3>4 DEF Connections
    <2> QED  BY <2>1 DEF OneConnection
  <1> QED  BY <1>1, InvariantKept, PTL

(***************************************************************************)
(* Each open connection belongs to a runtime, or to a start that will      *)
(* enter it or close it, and nothing runs once Stop is through.            *)
(***************************************************************************)
THEOREM NothingLeaks == Spec => []NoLeak
  <1>1. ASSUME IInv
        PROVE  NoLeak
    <2>1. ASSUME NEW i \in Instances
          PROVE  /\ open[i] = Cardinality(Opened(i)) + (IF Runs(i) THEN 1 ELSE 0)
                 /\ up[i] = "stopped" => ~Runs(i)
      <3>1. Ok(i)
        BY <1>1 DEF IInv
      <3>2. Opened(i) \subseteq Starts(i)
        BY DEF Opened, Starts, Starting
      <3>3. CASE Opened(i) = {}
        <4>1. Cardinality(Opened(i)) = 0
          BY <3>3, FS_EmptySet
        <4> QED  BY <3>1, <3>3, <4>1 DEF Ok, Counted, Ended
      <3>4. CASE Opened(i) # {}
        <4>1. PICK g : Opened(i) = {g}
          BY <3>1, <3>2, <3>4 DEF Ok, Alone
        <4>2. Cardinality(Opened(i)) = 1
          BY <4>1, FS_Singleton
        <4>3. ~Runs(i)
          BY <3>1, <3>2, <3>4 DEF Ok, Alone
        <4> QED  BY <3>1, <3>4, <4>2, <4>3 DEF Ok, Counted, Ended
      <3> QED  BY <3>3, <3>4
    <2> QED  BY <2>1 DEF NoLeak, Opened
  <1> QED  BY <1>1, InvariantKept, PTL

=============================================================================
