--------------------------- MODULE ThreadPoolProofs ---------------------------
(***************************************************************************)
(* What frl_threads keeps in both of its thread models, for every number   *)
(* of workers, clients and tasks.                                          *)
(*                                                                         *)
(* LeaderFollower: at most one worker leads, assign never opens more than  *)
(* max workers nor one of them twice, waiters counts the workers that do   *)
(* not execute, and no task is lost or handed out twice.  The inductive    *)
(* invariants are ElectInv (who leads), CountInv (waiters) relative to it, *)
(* and TaskInv (where each task is).                                       *)
(*                                                                         *)
(* ConsumerProducer: the producer hands each task to one consumer at most, *)
(* assign opens no consumer twice, and without spurious wakeups a consumer *)
(* is offered once and a task executed once at most.  The inductive        *)
(* invariant is ConsumersTypeOK, GrowInv, HandInv, OfferInv and FreshInv   *)
(* together.                                                               *)
(***************************************************************************)
EXTENDS LeaderFollower, ConsumerProducer, FiniteSetTheorems, TLAPS

USE ThreadsAssumption, WaiterAssumption, SpuriousAssumption

-----------------------------------------------------------------------------
(* LeaderFollower.                                                         *)

(* What the proofs need to know of the types.                              *)
Types ==
  /\ open \in MinOpen .. MaxOpen
  /\ pc \in [Worker -> {"unborn", "enter", "test", "sleep", "asleep", "pop", "resign",
                        "signal", "depart", "execute", "back"}]
  /\ cpc \in [Client -> {"idle", "look", "lookopen", "lock", "recheck", "grown", "offered"}]
  /\ leader \in Worker \cup {None}

(* While a client is between the creation of a worker and its count, there *)
(* is room for that worker below max.                                      *)
GrowsInRoom == \A c \in Client : cpc[c] \in {"grown", "offered"} => open < MaxOpen

ElectInv == Types /\ LeaderNamed /\ OpenExact /\ GrowsInRoom

LEMMA NoneIsNoWorker == None \notin Worker
BY DEF None, Worker

LEMMA InitElect == Init => ElectInv
<1> SUFFICES ASSUME Init PROVE ElectInv
  OBVIOUS
<1> USE DEF Init, ThreadPoolInit
<1>1. Types
  BY DEF Types
<1>2. LeaderNamed
  BY DEF LeaderNamed, Leading, Electing
<1>3. OpenExact /\ GrowsInRoom
  BY DEF OpenExact, GrowsInRoom
<1> QED BY <1>1, <1>2, <1>3 DEF ElectInv

(* A step of a worker: the workers elect, but none of them is created.     *)
LEMMA WorkerKeeps ==
  ASSUME ElectInv, NEW w \in Worker,
         WorkerLock(w) \/ WorkerStep(w) \/ Execute(w) \/ SpuriousWake(w)
  PROVE  ElectInv'
<1> USE DEF ElectInv, Types, Goto, threadPoolVars, growVars, doneVars, electVars
<1>1. /\ UNCHANGED <<open, poolMutex, cpc>>
      /\ pc[w] # "unborn" \/ UNCHANGED pc
      /\ pc' \in [Worker -> {"unborn", "enter", "test", "sleep", "asleep", "pop", "resign",
                             "signal", "depart", "execute", "back"}]
      /\ \A v \in Worker : pc'[v] = "unborn" <=> pc[v] = "unborn"
  <2>1. CASE WorkerLock(w)
    BY <2>1 DEF WorkerLock, EnterLock, Wake
  <2>2. CASE WorkerStep(w)
    BY <2>2 DEF WorkerStep, Lead, Follow, Sleep, Pop, Resign, Signal, Depart, Back
  <2>3. CASE Execute(w) \/ SpuriousWake(w)
    BY <2>3 DEF Execute, SpuriousWake
  <2> QED BY <2>1, <2>2, <2>3
<1>2. OpenExact' /\ GrowsInRoom'
  BY <1>1 DEF OpenExact, GrowsInRoom
<1>3. Types' /\ LeaderNamed'
  <2>1. CASE WorkerLock(w)
    BY <1>1, <2>1, NoneIsNoWorker
       DEF WorkerLock, EnterLock, Wake, LeaderNamed, Leading, Electing
  <2>2. CASE Lead(w)
    BY <1>1, <2>2, NoneIsNoWorker DEF Lead, LeaderNamed, Leading, Electing
  <2>3. CASE Resign(w)
    BY <1>1, <2>3, NoneIsNoWorker DEF Resign, LeaderNamed, Leading, Electing
  <2>4. CASE Follow(w) \/ Sleep(w)
    BY <1>1, <2>4, NoneIsNoWorker DEF Follow, Sleep, LeaderNamed, Leading, Electing
  <2>5. CASE Pop(w) \/ Signal(w) \/ Depart(w) \/ Back(w)
    BY <1>1, <2>5 DEF Pop, Signal, Depart, Back, LeaderNamed, Leading, Electing
  <2>6. CASE Execute(w) \/ SpuriousWake(w)
    BY <1>1, <2>6 DEF Execute, SpuriousWake, LeaderNamed, Leading, Electing
  <2> QED BY <2>1, <2>2, <2>3, <2>4, <2>5, <2>6 DEF WorkerStep
<1> QED BY <1>2, <1>3

(* A step of assign: at most one client, the one with the mutex, grows.    *)
LEMMA ClientKeeps ==
  ASSUME ElectInv, NEW c \in Client,
         \/ ClientLock(c) \/ ClientStep(c)
         \/ \E k \in Task : Assign(c, k) /\ UNCHANGED <<electVars, task>>
  PROVE  ElectInv'
<1> USE DEF ElectInv, Types, Goto, ClientGoto, LookToGrow, LookAtWaiters, LookAtOpen, MayGrow,
            growVars, doneVars, electVars
<1>1. CASE \/ ClientLock(c)
           \/ LookToGrow(c) /\ UNCHANGED <<electVars, task>>
           \/ LeaveOpen(c) /\ UNCHANGED <<electVars, task>>
           \/ \E k \in Task : Assign(c, k) /\ UNCHANGED <<electVars, task>>
  <2>1. UNCHANGED <<open, pc, leader, leaderMutex>>
    BY <1>1 DEF ClientLock, LockToGrow, LookToGrow, LeaveOpen, Assign
  <2>2. Types' /\ LeaderNamed'
    BY <1>1, <2>1 DEF ClientLock, LockToGrow, LookToGrow, LeaveOpen, Assign, LeaderNamed,
                      Leading, Electing
  <2>3. OpenExact' /\ GrowsInRoom'
    BY <1>1, <2>1 DEF ClientLock, LockToGrow, LookToGrow, LeaveOpen, Assign,
                      OpenExact, GrowsInRoom
  <2> QED BY <2>2, <2>3
<1>2. CASE CreateWorker(c) /\ UNCHANGED <<electVars, task>>
  <2>1. /\ open \in Worker /\ open < MaxOpen /\ cpc[c] = "recheck"
        /\ pc' = [pc EXCEPT ![open] = "enter"] /\ cpc' = [cpc EXCEPT ![c] = "grown"]
        /\ UNCHANGED <<open, poolMutex, leader, leaderMutex>>
    BY <1>2 DEF CreateWorker, Worker
  <2>2. \A d \in Client : cpc[d] \notin {"grown", "offered"}
    BY <2>1 DEF OpenExact
  <2>3. Types' /\ LeaderNamed'
    BY <2>1 DEF LeaderNamed, Leading, Electing
  <2>4. OpenExact' /\ GrowsInRoom'
    BY <2>1, <2>2 DEF OpenExact, GrowsInRoom
  <2> QED BY <2>3, <2>4
<1>3. CASE CountOpen(c, "grown") /\ UNCHANGED <<electVars, task>>
  <2>1. /\ cpc[c] = "grown" /\ open < MaxOpen /\ open' = open + 1
        /\ cpc' = [cpc EXCEPT ![c] = "idle"] /\ UNCHANGED <<pc, leader, leaderMutex>>
    BY <1>3 DEF CountOpen, GrowsInRoom
  <2>2. \A d \in Client : d # c => cpc[d] \notin {"recheck", "grown", "offered"}
    BY <2>1 DEF OpenExact
  <2>3. Types' /\ LeaderNamed'
    BY <2>1 DEF LeaderNamed, Leading, Electing
  <2>4. \A d \in Client : cpc'[d] \notin {"recheck", "grown", "offered"}
    BY <2>1, <2>2
  <2>5. \A v \in Worker : pc'[v] # "unborn" <=> v < open'
    BY <2>1 DEF OpenExact, Worker
  <2> QED BY <2>3, <2>4, <2>5 DEF OpenExact, GrowsInRoom
<1> QED BY <1>1, <1>2, <1>3 DEF ClientStep

LEMMA NextKeepsElect == ElectInv /\ [Next]_vars => ElectInv'
<1> SUFFICES ASSUME ElectInv, [Next]_vars PROVE ElectInv'
  OBVIOUS
<1>1. CASE UNCHANGED vars
  BY <1>1 DEF vars, threadPoolVars, growVars, electVars, ElectInv, Types, LeaderNamed,
              Leading, Electing, OpenExact, GrowsInRoom
<1>2. CASE Finished
  BY <1>1, <1>2 DEF Finished
<1> QED BY <1>1, <1>2, WorkerKeeps, ClientKeeps DEF Next

LEMMA ElectInvariant == Spec => []ElectInv
BY InitElect, NextKeepsElect, PTL DEF Spec

(* At most one worker at a time waits for the next task                    *)
(* (thread_leader, lines 15-28), although the leader resigns without the   *)
(* mutex.                                                                  *)
THEOREM AtMostOneLeader == Spec => []OneLeader
<1>1. ElectInv => OneLeader
  BY DEF ElectInv, LeaderNamed, OneLeader
<1> QED BY <1>1, ElectInvariant, PTL

(* leader->no names the leader.                                            *)
THEOREM LeaderIsNamed == Spec => []LeaderNamed
<1>1. ElectInv => LeaderNamed
  BY DEF ElectInv
<1> QED BY <1>1, ElectInvariant, PTL

(* assign opens workers one by one below max, though it first reads        *)
(* waiters and open without the mutex (lines 122-141).                     *)
THEOREM OpensEachWorkerOnce == Spec => []OpenExact
<1>1. ElectInv => OpenExact
  BY DEF ElectInv
<1> QED BY <1>1, ElectInvariant, PTL

-----------------------------------------------------------------------------
(* How many workers wait.                                                  *)

(* What % gives within one turn of the counter, below 0 and above.         *)
LEMMA OneTurn ==
  ASSUME NEW m \in Nat \ {0}, NEW a \in Int, a < m, -m < a
  PROVE  a % m = IF a >= 0 THEN a ELSE a + m
OBVIOUS

(* The same in terms of the counted set, and what the counter does when a  *)
(* worker joins the set or leaves it.                                      *)
CountInv ==
  /\ pc \in [Worker -> {"unborn", "enter", "test", "sleep", "asleep", "pop", "resign",
                        "signal", "depart", "execute", "back"}]
  /\ waiters = (MinOpen - Cardinality(Busy)) % WaiterMod

LEMMA BusyIsSmall ==
  ASSUME NEW B, B \subseteq Worker
  PROVE  IsFiniteSet(B) /\ Cardinality(B) \in 0 .. MaxOpen
<1>1. IsFiniteSet(Worker) /\ Cardinality(Worker) = MaxOpen
  BY FS_Interval DEF Worker
<1>2. IsFiniteSet(B) /\ Cardinality(B) <= Cardinality(Worker)
  BY <1>1, FS_Subset
<1> QED BY <1>1, <1>2, FS_CardinalityType

LEMMA CounterTurns ==
  ASSUME NEW n \in 0 .. MaxOpen, n - 1 \in 0 .. MaxOpen
  PROVE  /\ (((MinOpen - (n - 1)) % WaiterMod) - 1) % WaiterMod = (MinOpen - n) % WaiterMod
         /\ (((MinOpen - n) % WaiterMod) + 1) % WaiterMod = (MinOpen - (n - 1)) % WaiterMod
<1>1. /\ WaiterMod \in Nat \ {0} /\ MinOpen \in Nat /\ MaxOpen \in Nat /\ MinOpen < WaiterMod
      /\ n \in Nat /\ n >= 1 /\ n < WaiterMod
      /\ MinOpen - n \in Int /\ MinOpen - n < WaiterMod /\ -WaiterMod < MinOpen - n
      /\ MinOpen - (n - 1) \in Int /\ MinOpen - (n - 1) < WaiterMod
      /\ -WaiterMod < MinOpen - (n - 1)
  OBVIOUS
<1>2. (MinOpen - n) % WaiterMod = IF MinOpen - n >= 0 THEN MinOpen - n
                                  ELSE MinOpen - n + WaiterMod
  BY <1>1, OneTurn
<1>3. (MinOpen - (n - 1)) % WaiterMod = IF MinOpen - (n - 1) >= 0 THEN MinOpen - (n - 1)
                                        ELSE MinOpen - (n - 1) + WaiterMod
  BY <1>1, OneTurn
<1> DEFINE p == ((MinOpen - (n - 1)) % WaiterMod) - 1
           q == ((MinOpen - n) % WaiterMod) + 1
<1>4. p \in Int /\ p < WaiterMod /\ -WaiterMod < p
  BY <1>1, <1>3
<1>5. p % WaiterMod = IF p >= 0 THEN p ELSE p + WaiterMod
  BY <1>1, <1>4, OneTurn
<1>6. q \in Nat /\ q <= WaiterMod
  BY <1>1, <1>2
<1>7. q % WaiterMod = IF q = WaiterMod THEN 0 ELSE q
  <2>1. CASE q = WaiterMod
    BY <1>1, <2>1
  <2>2. CASE q # WaiterMod
    <3>1. q \in Int /\ q < WaiterMod /\ -WaiterMod < q /\ q >= 0
      BY <1>1, <1>6, <2>2
    <3> HIDE DEF q
    <3> QED BY <1>1, <2>2, <3>1, OneTurn
  <2> QED BY <2>1, <2>2
<1> QED BY <1>1, <1>2, <1>3, <1>5, <1>7

LEMMA NextKeepsCount == ElectInv /\ CountInv /\ [Next]_vars => CountInv'
<1> SUFFICES ASSUME ElectInv, CountInv, [Next]_vars PROVE CountInv'
  OBVIOUS
<1> USE DEF Goto, threadPoolVars, growVars, doneVars, electVars
<1>1. ASSUME waiters' = waiters,
             pc' \in [Worker -> {"unborn", "enter", "test", "sleep", "asleep", "pop",
                                 "resign", "signal", "depart", "execute", "back"}],
             \A w \in Worker : pc'[w] \in {"execute", "back"} <=> pc[w] \in {"execute", "back"}
      PROVE  CountInv'
  <2>1. Busy' = Busy
    BY <1>1 DEF Busy
  <2> QED BY <1>1, <2>1 DEF CountInv
<1>2. ASSUME NEW w \in Worker, Depart(w) PROVE CountInv'
  <2>1. /\ pc' \in [Worker -> {"unborn", "enter", "test", "sleep", "asleep", "pop", "resign",
                               "signal", "depart", "execute", "back"}]
        /\ Busy' = Busy \cup {w} /\ w \notin Busy
    BY <1>2 DEF Depart, CountInv, Busy
  <2>2. Busy \subseteq Worker /\ Busy' \subseteq Worker
    BY DEF Busy
  <2>3. IsFiniteSet(Busy) /\ Cardinality(Busy) \in 0 .. MaxOpen
        /\ Cardinality(Busy') \in 0 .. MaxOpen
    BY <2>2, BusyIsSmall
  <2>4. Cardinality(Busy') - 1 = Cardinality(Busy)
    <3>1. Cardinality(Busy \cup {w}) = Cardinality(Busy) + 1
      BY <2>1, <2>3, FS_AddElement
    <3> QED BY <2>1, <2>3, <3>1
  <2>5. waiters' = (((MinOpen - Cardinality(Busy)) % WaiterMod) - 1) % WaiterMod
    BY <1>2 DEF Depart, CountInv
  <2>6. waiters' = (MinOpen - Cardinality(Busy')) % WaiterMod
    BY <2>3, <2>4, <2>5, CounterTurns
  <2> QED BY <2>1, <2>6 DEF CountInv
<1>3. ASSUME NEW w \in Worker, Back(w) PROVE CountInv'
  <2>1. /\ pc' \in [Worker -> {"unborn", "enter", "test", "sleep", "asleep", "pop", "resign",
                               "signal", "depart", "execute", "back"}]
        /\ Busy = Busy' \cup {w} /\ w \notin Busy'
    BY <1>3 DEF Back, CountInv, Busy
  <2>2. Busy \subseteq Worker /\ Busy' \subseteq Worker
    BY DEF Busy
  <2>3. IsFiniteSet(Busy') /\ Cardinality(Busy) \in 0 .. MaxOpen
        /\ Cardinality(Busy') \in 0 .. MaxOpen
    BY <2>2, BusyIsSmall
  <2>4. Cardinality(Busy') = Cardinality(Busy) - 1
    <3>1. Cardinality(Busy' \cup {w}) = Cardinality(Busy') + 1
      BY <2>1, <2>3, FS_AddElement
    <3> QED BY <2>1, <2>3, <3>1
  <2>5. waiters' = (((MinOpen - Cardinality(Busy)) % WaiterMod) + 1) % WaiterMod
    BY <1>3 DEF Back, CountInv
  <2>6. waiters' = (MinOpen - Cardinality(Busy')) % WaiterMod
    BY <2>3, <2>4, <2>5, CounterTurns
  <2> QED BY <2>1, <2>6 DEF CountInv
<1>4. ASSUME NEW w \in Worker, WorkerLock(w) \/ WorkerStep(w) \/ Execute(w) \/ SpuriousWake(w)
      PROVE  CountInv'
  <2>1. CASE EnterLock(w) \/ Wake(w) \/ SpuriousWake(w)
    BY <1>1, <2>1 DEF EnterLock, Wake, SpuriousWake, CountInv
  <2>2. CASE Lead(w) \/ Follow(w) \/ Sleep(w)
    BY <1>1, <2>2 DEF Lead, Follow, Sleep, CountInv
  <2>3. CASE Pop(w) \/ Resign(w) \/ Signal(w)
    BY <1>1, <2>3 DEF Pop, Resign, Signal, CountInv
  <2>4. CASE Execute(w)
    BY <1>1, <2>4 DEF Execute, CountInv
  <2> QED BY <1>2, <1>3, <1>4, <2>1, <2>2, <2>3, <2>4 DEF WorkerLock, WorkerStep
<1>5. ASSUME NEW c \in Client,
             \/ ClientLock(c) \/ ClientStep(c)
             \/ \E k \in Task : Assign(c, k) /\ UNCHANGED <<electVars, task>>
      PROVE  CountInv'
  <2>1. CASE CreateWorker(c)
    <3>1. \A w \in Worker : pc'[w] = IF w = open THEN "enter" ELSE pc[w]
      BY <2>1 DEF CreateWorker, CountInv
    <3>2. poolMutex = c /\ \A d \in Client : cpc[d] \notin {"grown", "offered"}
      BY <2>1 DEF CreateWorker, ElectInv, OpenExact
    <3>3. open \in Worker => pc[open] = "unborn"
      BY <3>2 DEF ElectInv, Types, OpenExact, Worker
    <3>4. waiters' = waiters /\ pc' = [pc EXCEPT ![open] = "enter"]
      BY <2>1 DEF CreateWorker
    <3>5. pc' \in [Worker -> {"unborn", "enter", "test", "sleep", "asleep", "pop", "resign",
                              "signal", "depart", "execute", "back"}]
      BY <3>4 DEF CountInv
    <3> QED BY <1>1, <3>1, <3>3, <3>4, <3>5
  <2>2. CASE ~CreateWorker(c)
    <3>1. waiters' = waiters /\ pc' = pc
      BY <1>5, <2>2 DEF ClientLock, ClientStep, LockToGrow, LookToGrow, LookAtWaiters,
                        LookAtOpen, CountOpen, LeaveOpen,
                        Assign
    <3> QED BY <1>1, <3>1 DEF CountInv
  <2> QED BY <2>1, <2>2
<1>6. CASE UNCHANGED vars
  BY <1>1, <1>6 DEF vars, CountInv
<1> QED BY <1>4, <1>5, <1>6 DEF Next, Finished

-----------------------------------------------------------------------------
(* Where the tasks are.                                                    *)

PlaceTypes ==
  /\ poolMutex \in Client \cup {NoClient}
  /\ queue \in Seq(Task) /\ todo \subseteq Task
  /\ runs \in [Task -> Nat]
  /\ outcome \in [Task -> {"pending", "handled", "failed"}]
  /\ leaderMutex \in Worker \cup {None} /\ blocked \subseteq Worker
  /\ task \in [Worker -> Task \cup {NoTask}]

InQueue(k) == \E i \in 1 .. Len(queue) : queue[i] = k
WithWorker(k) == \E w \in Worker : task[w] = k

(* A task that is assigned and not done is in the queue once or with one   *)
(* worker, never both; the others are at neither place.  A worker has a    *)
(* task from the pop to the end of the execution.                          *)
PlaceInv ==
  /\ \A i, j \in 1 .. Len(queue) : queue[i] = queue[j] => i = j
  /\ \A v, w \in Worker : task[v] = task[w] /\ task[v] # NoTask => v = w
  /\ \A k \in Task : ~(InQueue(k) /\ WithWorker(k))
  /\ \A k \in Task : InQueue(k) \/ WithWorker(k) <=> k \notin todo /\ outcome[k] = "pending"
  /\ \A w \in Worker : pc[w] \in {"resign", "signal", "depart", "execute"} <=> task[w] # NoTask

OutcomeInv ==
  \A k \in Task :
    /\ k \in todo => outcome[k] = "pending"
    /\ runs[k] = IF outcome[k] = "pending" \/ k = NullTask THEN 0 ELSE 1

TaskInv == Types /\ PlaceTypes /\ PlaceInv /\ OutcomeInv

(* Steps that move no task.                                                *)
LEMMA NoTaskMoves ==
  ASSUME TaskInv, Types', PlaceTypes', UNCHANGED <<queue, todo, runs, outcome, task>>,
         \A w \in Worker : pc'[w] \in {"resign", "signal", "depart", "execute"}
                           <=> pc[w] \in {"resign", "signal", "depart", "execute"}
  PROVE  TaskInv'
<1>1. PlaceInv'
  BY DEF TaskInv, PlaceInv, InQueue, WithWorker
<1>2. OutcomeInv'
  BY DEF TaskInv, OutcomeInv
<1> QED BY <1>1, <1>2 DEF TaskInv

(* A task goes to the end of the queue.                                    *)
LEMMA AssignPlaces ==
  ASSUME TaskInv, Types', NEW c \in Client, NEW k \in Task, Assign(c, k),
         UNCHANGED <<electVars, task>>
  PROVE  TaskInv'
<1> USE DEF growVars, doneVars, electVars
<1>1. /\ queue \in Seq(Task) /\ k \in todo /\ todo' = todo \ {k}
      /\ queue' = Append(queue, k) /\ UNCHANGED <<task, pc, runs, outcome>>
  BY DEF Assign, TaskInv, PlaceTypes
<1>2. /\ queue' \in Seq(Task) /\ Len(queue') = Len(queue) + 1 /\ Len(queue) \in Nat
      /\ queue'[Len(queue) + 1] = k
      /\ \A i \in 1 .. Len(queue) : queue'[i] = queue[i]
  BY <1>1
<1>3. PlaceTypes'
  BY <1>1, <1>2 DEF Assign, TaskInv, PlaceTypes
<1>4. ~InQueue(k) /\ ~WithWorker(k) /\ outcome[k] = "pending"
  BY <1>1 DEF TaskInv, PlaceInv, OutcomeInv
<1>5. \A x \in Task : InQueue(x)' <=> InQueue(x) \/ x = k
  <2> SUFFICES ASSUME NEW x \in Task PROVE InQueue(x)' <=> InQueue(x) \/ x = k
    OBVIOUS
  <2>1. \A i \in 1 .. Len(queue) + 1 : i \in 1 .. Len(queue) \/ i = Len(queue) + 1
    BY <1>2
  <2>2. Len(queue) + 1 \in 1 .. Len(queue')
    BY <1>2
  <2>3. \A i \in 1 .. Len(queue) : i \in 1 .. Len(queue')
    BY <1>2
  <2> QED BY <1>2, <2>1, <2>2, <2>3 DEF InQueue
<1>6. \A x \in Task : WithWorker(x)' <=> WithWorker(x)
  BY <1>1 DEF WithWorker
<1>7. PlaceInv'
  <2>1. \A i, j \in 1 .. Len(queue') : queue'[i] = queue'[j] => i = j
    <3> SUFFICES ASSUME NEW i \in 1 .. Len(queue'), NEW j \in 1 .. Len(queue'),
                        queue'[i] = queue'[j]
                 PROVE  i = j
      OBVIOUS
    <3>1. /\ i \in 1 .. Len(queue) \/ i = Len(queue) + 1
          /\ j \in 1 .. Len(queue) \/ j = Len(queue) + 1
      BY <1>2
    <3>2. \A n \in 1 .. Len(queue) : queue[n] # k
      BY <1>4 DEF InQueue
    <3>3. \A m, n \in 1 .. Len(queue) : queue[m] = queue[n] => m = n
      BY DEF TaskInv, PlaceInv
    <3> QED BY <1>2, <3>1, <3>2, <3>3
  <2>2. \A x \in Task : ~(InQueue(x)' /\ WithWorker(x)')
    BY <1>4, <1>5, <1>6 DEF TaskInv, PlaceInv
  <2>3. \A x \in Task : InQueue(x)' \/ WithWorker(x)' <=> x \notin todo' /\ outcome'[x] = "pending"
    BY <1>1, <1>4, <1>5, <1>6 DEF TaskInv, PlaceInv
  <2>4. \A v, w \in Worker : task'[v] = task'[w] /\ task'[v] # NoTask => v = w
    BY <1>1 DEF TaskInv, PlaceInv
  <2>5. \A w \in Worker : pc'[w] \in {"resign", "signal", "depart", "execute"}
                          <=> task'[w] # NoTask
    BY <1>1 DEF TaskInv, PlaceInv
  <2> QED BY <2>1, <2>2, <2>3, <2>4, <2>5 DEF PlaceInv
<1>8. OutcomeInv'
  BY <1>1 DEF TaskInv, OutcomeInv
<1> QED BY <1>3, <1>7, <1>8 DEF TaskInv

(* The leader takes the task at the head of the queue.                     *)
LEMMA PopPlaces ==
  ASSUME TaskInv, Types', NEW w \in Worker, Pop(w)
  PROVE  TaskInv'
<1> USE DEF growVars, doneVars, electVars, Goto
<1>1. /\ queue \in Seq(Task) /\ queue # <<>> /\ queue' = Tail(queue)
      /\ pc[w] = "pop" /\ pc' = [pc EXCEPT ![w] = "resign"]
      /\ task' = [task EXCEPT ![w] = Head(queue)]
      /\ UNCHANGED <<todo, runs, outcome>>
  BY DEF Pop, TaskInv, PlaceTypes
<1>2. PICK k \in Task : k = Head(queue) /\ k = queue[1]
  BY <1>1
<1>3. /\ queue' \in Seq(Task) /\ Len(queue) \in Nat \ {0} /\ Len(queue') = Len(queue) - 1
      /\ \A i \in 1 .. Len(queue) - 1 : queue'[i] = queue[i + 1]
  BY <1>1
<1>4. /\ task'[w] = k /\ task[w] = NoTask /\ k # NoTask
      /\ \A v \in Worker \ {w} : task'[v] = task[v]
      /\ task' \in [Worker -> Task \cup {NoTask}]
  <2>1. task[w] = NoTask /\ task \in [Worker -> Task \cup {NoTask}]
    BY <1>1 DEF TaskInv, PlaceTypes, PlaceInv
  <2> QED BY <1>1, <1>2, <2>1
<1>5. PlaceTypes'
  BY <1>1, <1>3, <1>4 DEF Pop, TaskInv, PlaceTypes
<1>6. \A m, n \in 1 .. Len(queue) : queue[m] = queue[n] => m = n
  BY DEF TaskInv, PlaceInv
<1>7. InQueue(k) /\ ~WithWorker(k)
  <2>1. InQueue(k)
    BY <1>2, <1>3 DEF InQueue
  <2> QED BY <2>1 DEF TaskInv, PlaceInv
<1>8. \A x \in Task : InQueue(x)' <=> InQueue(x) /\ x # k
  <2> SUFFICES ASSUME NEW x \in Task PROVE InQueue(x)' <=> InQueue(x) /\ x # k
    OBVIOUS
  <2>1. ASSUME InQueue(x)' PROVE InQueue(x) /\ x # k
    <3>1. PICK i \in 1 .. Len(queue) - 1 : queue[i + 1] = x
      BY <1>3, <2>1 DEF InQueue
    <3>2. i + 1 \in 1 .. Len(queue) /\ 1 \in 1 .. Len(queue) /\ i + 1 # 1
      BY <1>3
    <3> QED BY <1>2, <1>6, <3>1, <3>2 DEF InQueue
  <2>2. ASSUME InQueue(x), x # k PROVE InQueue(x)'
    <3>1. PICK i \in 1 .. Len(queue) : queue[i] = x
      BY <2>2 DEF InQueue
    <3>2. i - 1 \in 1 .. Len(queue) - 1 /\ (i - 1) + 1 = i
      BY <1>2, <1>3, <2>2, <3>1
    <3>3. queue'[i - 1] = x
      BY <1>3, <3>1, <3>2
    <3> QED BY <1>3, <3>2, <3>3 DEF InQueue
  <2> QED BY <2>1, <2>2
<1>9. \A x \in Task : WithWorker(x)' <=> WithWorker(x) \/ x = k
  <2> SUFFICES ASSUME NEW x \in Task PROVE WithWorker(x)' <=> WithWorker(x) \/ x = k
    OBVIOUS
  <2>1. x # NoTask
    OBVIOUS
  <2> QED BY <1>4, <2>1 DEF WithWorker
<1>10. PlaceInv'
  <2>1. \A i, j \in 1 .. Len(queue') : queue'[i] = queue'[j] => i = j
    <3> SUFFICES ASSUME NEW i \in 1 .. Len(queue) - 1, NEW j \in 1 .. Len(queue) - 1,
                        queue[i + 1] = queue[j + 1]
                 PROVE  i = j
      BY <1>3
    <3>1. i + 1 \in 1 .. Len(queue) /\ j + 1 \in 1 .. Len(queue)
      BY <1>3
    <3>2. i + 1 = j + 1
      BY <1>6, <3>1
    <3> QED BY <3>2
  <2>2. \A x \in Task : ~(InQueue(x)' /\ WithWorker(x)')
    BY <1>8, <1>9 DEF TaskInv, PlaceInv
  <2>3. \A x \in Task : InQueue(x)' \/ WithWorker(x)' <=> x \notin todo' /\ outcome'[x] = "pending"
    BY <1>1, <1>7, <1>8, <1>9 DEF TaskInv, PlaceInv
  <2>4. ASSUME NEW u \in Worker, NEW v \in Worker, task'[u] = task'[v], task'[u] # NoTask
        PROVE  u = v
    <3>1. \A x \in Worker : task[x] # k
      BY <1>7 DEF WithWorker
    <3> QED BY <1>4, <2>4, <3>1 DEF TaskInv, PlaceInv
  <2>5. \A v \in Worker : pc'[v] \in {"resign", "signal", "depart", "execute"}
                          <=> task'[v] # NoTask
    BY <1>1, <1>4 DEF TaskInv, Types, PlaceInv
  <2> QED BY <2>1, <2>2, <2>3, <2>4, <2>5 DEF PlaceInv
<1>11. OutcomeInv'
  BY <1>1 DEF TaskInv, OutcomeInv
<1> QED BY <1>5, <1>10, <1>11 DEF TaskInv

(* A worker is done with its task.                                         *)
LEMMA ExecutePlaces ==
  ASSUME TaskInv, Types', NEW w \in Worker, Execute(w)
  PROVE  TaskInv'
<1> USE DEF growVars, doneVars, electVars, Goto
<1>1. PICK k \in Task : k = task[w] /\ k # NoTask
  <2>1. task[w] # NoTask
    BY DEF Execute, TaskInv, PlaceInv
  <2> QED BY <2>1 DEF TaskInv, PlaceTypes
<1>2. /\ pc[w] = "execute" /\ pc' = [pc EXCEPT ![w] = "back"]
      /\ task' = [task EXCEPT ![w] = NoTask]
      /\ UNCHANGED <<poolMutex, queue, todo, leaderMutex, blocked>>
  BY DEF Execute
<1>3. WithWorker(k) /\ ~InQueue(k) /\ k \notin todo /\ outcome[k] = "pending"
  <2>1. WithWorker(k)
    BY <1>1 DEF WithWorker
  <2> QED BY <2>1 DEF TaskInv, PlaceInv
<1>4. /\ outcome' \in [Task -> {"pending", "handled", "failed"}] /\ runs' \in [Task -> Nat]
      /\ outcome'[k] # "pending" /\ runs'[k] = IF k = NullTask THEN 0 ELSE 1
      /\ \A x \in Task \ {k} : outcome'[x] = outcome[x] /\ runs'[x] = runs[x]
  <2>1. runs[k] = 0
    BY <1>3 DEF TaskInv, OutcomeInv
  <2>2. CASE k = NullTask
    BY <1>1, <2>1, <2>2 DEF Execute, TaskInv, PlaceTypes
  <2>3. CASE k # NullTask
    <3>1. PICK o \in {"handled", "failed"} :
            outcome' = [outcome EXCEPT ![k] = o] /\ runs' = [runs EXCEPT ![k] = @ + 1]
      BY <1>1, <2>3 DEF Execute, ExecuteTask
    <3> QED BY <2>1, <2>3, <3>1 DEF TaskInv, PlaceTypes
  <2> QED BY <2>2, <2>3
<1>5. /\ task'[w] = NoTask /\ \A v \in Worker \ {w} : task'[v] = task[v]
      /\ task' \in [Worker -> Task \cup {NoTask}]
  BY <1>2 DEF TaskInv, PlaceTypes
<1>6. PlaceTypes'
  BY <1>2, <1>4, <1>5 DEF TaskInv, PlaceTypes
<1>7. \A x \in Task : InQueue(x)' <=> InQueue(x)
  BY <1>2 DEF InQueue
<1>8. \A x \in Task : WithWorker(x)' <=> WithWorker(x) /\ x # k
  <2> SUFFICES ASSUME NEW x \in Task PROVE WithWorker(x)' <=> WithWorker(x) /\ x # k
    OBVIOUS
  <2>1. x # NoTask
    OBVIOUS
  <2>2. \A v \in Worker : task[v] = k => v = w
    BY <1>1 DEF TaskInv, PlaceInv
  <2> QED BY <1>1, <1>5, <2>1, <2>2 DEF WithWorker
<1>9. PlaceInv'
  <2>1. \A i, j \in 1 .. Len(queue') : queue'[i] = queue'[j] => i = j
    BY <1>2 DEF TaskInv, PlaceInv
  <2>2. \A x \in Task : ~(InQueue(x)' /\ WithWorker(x)')
    BY <1>7, <1>8 DEF TaskInv, PlaceInv
  <2>3. \A x \in Task : InQueue(x)' \/ WithWorker(x)' <=> x \notin todo' /\ outcome'[x] = "pending"
    BY <1>2, <1>3, <1>4, <1>7, <1>8 DEF TaskInv, PlaceInv
  <2>4. \A u, v \in Worker : task'[u] = task'[v] /\ task'[u] # NoTask => u = v
    BY <1>5 DEF TaskInv, PlaceInv
  <2>5. \A v \in Worker : pc'[v] \in {"resign", "signal", "depart", "execute"}
                          <=> task'[v] # NoTask
    BY <1>2, <1>5 DEF TaskInv, Types, PlaceInv
  <2> QED BY <2>1, <2>2, <2>3, <2>4, <2>5 DEF PlaceInv
<1>10. OutcomeInv'
  BY <1>2, <1>3, <1>4 DEF TaskInv, OutcomeInv
<1> QED BY <1>6, <1>9, <1>10 DEF TaskInv

LEMMA NextKeepsTasks == ElectInv /\ ElectInv' /\ TaskInv /\ [Next]_vars => TaskInv'
<1> SUFFICES ASSUME ElectInv, Types', TaskInv, [Next]_vars PROVE TaskInv'
  BY DEF ElectInv
<1> USE DEF Goto, ClientGoto, threadPoolVars, growVars, doneVars, electVars
<1>0. /\ pc \in [Worker -> {"unborn", "enter", "test", "sleep", "asleep", "pop", "resign",
                            "signal", "depart", "execute", "back"}]
      /\ PlaceTypes
  BY DEF TaskInv, Types
<1>1. ASSUME NEW w \in Worker, WorkerLock(w) \/ WorkerStep(w) \/ SpuriousWake(w), ~Pop(w)
      PROVE  TaskInv'
  <2>1. UNCHANGED <<queue, todo, runs, outcome, task, poolMutex>>
    BY <1>1 DEF WorkerLock, EnterLock, Wake, WorkerStep, Lead, Follow, Sleep, Resign, Signal,
                Depart, Back, SpuriousWake
  <2>2. leaderMutex' \in Worker \cup {None} /\ blocked' \subseteq Worker
    BY <1>0, <1>1 DEF WorkerLock, EnterLock, Wake, WorkerStep, Lead, Follow, Sleep, Resign,
                      Signal, Depart, Back, SpuriousWake, PlaceTypes
  <2>3. PlaceTypes'
    BY <1>0, <2>1, <2>2 DEF PlaceTypes
  <2>4. \A v \in Worker : pc'[v] \in {"resign", "signal", "depart", "execute"}
                          <=> pc[v] \in {"resign", "signal", "depart", "execute"}
    <3>1. CASE EnterLock(w) \/ Wake(w) \/ SpuriousWake(w) \/ Back(w)
      BY <1>0, <3>1 DEF EnterLock, Wake, SpuriousWake, Back
    <3>2. CASE Lead(w) \/ Follow(w) \/ Sleep(w)
      BY <1>0, <3>2 DEF Lead, Follow, Sleep
    <3>3. CASE Resign(w) \/ Signal(w) \/ Depart(w)
      BY <1>0, <3>3 DEF Resign, Signal, Depart
    <3> QED BY <1>1, <3>1, <3>2, <3>3 DEF WorkerLock, WorkerStep
  <2> QED BY <2>1, <2>3, <2>4, NoTaskMoves
<1>2. ASSUME NEW c \in Client, ClientLock(c) \/ ClientStep(c) PROVE TaskInv'
  <2>1. UNCHANGED <<queue, todo, runs, outcome, task, leaderMutex, blocked>>
        /\ poolMutex' \in {poolMutex, c, NoClient}
    BY <1>2 DEF ClientLock, ClientStep, LockToGrow, LookToGrow, LookAtWaiters, LookAtOpen,
                CreateWorker, CountOpen, LeaveOpen
  <2>2. PlaceTypes'
    BY <1>0, <2>1 DEF PlaceTypes
  <2>3. \A v \in Worker : pc'[v] \in {"resign", "signal", "depart", "execute"}
                          <=> pc[v] \in {"resign", "signal", "depart", "execute"}
    <3>1. CASE CreateWorker(c)
      <4>1. \A v \in Worker : pc'[v] = IF v = open THEN "enter" ELSE pc[v]
        BY <1>0, <3>1 DEF CreateWorker
      <4>2. open \in Worker => pc[open] \notin {"resign", "signal", "depart", "execute"}
        <5>1. poolMutex = c /\ \A d \in Client : cpc[d] \notin {"grown", "offered"}
          BY <3>1 DEF CreateWorker, ElectInv, OpenExact
        <5> QED BY <5>1 DEF ElectInv, Types, OpenExact, Worker
      <4> QED BY <4>1, <4>2
    <3>2. CASE ~CreateWorker(c)
      BY <1>2, <3>2 DEF ClientLock, ClientStep, LockToGrow, LookToGrow, LookAtWaiters, LookAtOpen,
                       CountOpen, LeaveOpen
    <3> QED BY <3>1, <3>2
  <2> QED BY <2>1, <2>2, <2>3, NoTaskMoves
<1>3. CASE UNCHANGED vars
  <2>1. PlaceTypes' /\ UNCHANGED <<queue, todo, runs, outcome, task, pc>>
    BY <1>0, <1>3 DEF vars, PlaceTypes
  <2> QED BY <2>1, NoTaskMoves
<1> QED BY <1>1, <1>2, <1>3, AssignPlaces, PopPlaces, ExecutePlaces DEF Next, WorkerStep, Finished

LEMMA InitTasks == Init => CountInv /\ TaskInv
<1> SUFFICES ASSUME Init PROVE CountInv /\ TaskInv
  OBVIOUS
<1> USE DEF Init, ThreadPoolInit
<1>1. CountInv
  <2>1. Busy = {} /\ waiters = MinOpen
    BY DEF Busy
  <2>2. Cardinality(Busy) = 0
    BY <2>1, FS_EmptySet
  <2>3. MinOpen % WaiterMod = MinOpen
    BY OneTurn
  <2> QED BY <2>1, <2>2, <2>3 DEF CountInv
<1>2. Types
  BY DEF Types
<1>3. PlaceTypes
  BY DEF PlaceTypes
<1>4. PlaceInv
  BY DEF PlaceInv, InQueue, WithWorker
<1>5. OutcomeInv
  BY DEF OutcomeInv
<1> QED BY <1>1, <1>2, <1>3, <1>4, <1>5 DEF TaskInv

LEMMA TaskInvariant == Spec => [](ElectInv /\ CountInv /\ TaskInv)
<1>1. Init => ElectInv /\ CountInv /\ TaskInv
  BY InitElect, InitTasks
<1>2. ElectInv /\ CountInv /\ TaskInv /\ [Next]_vars => (ElectInv /\ CountInv /\ TaskInv)'
  <2> SUFFICES ASSUME ElectInv, CountInv, TaskInv, [Next]_vars
               PROVE  ElectInv' /\ CountInv' /\ TaskInv'
    OBVIOUS
  <2> QED BY NextKeepsElect, NextKeepsCount, NextKeepsTasks
<1> QED BY <1>1, <1>2, PTL DEF Spec

(* waiters is min minus the workers that execute, modulo its width, though *)
(* every worker changes it on its own (thread_leader, lines 31-38), and    *)
(* every variable keeps its type.                                          *)
THEOREM WaitersCounted == Spec => []WaitersExact
<1>1. ElectInv /\ CountInv /\ TaskInv => WaitersExact
  <2> SUFFICES ASSUME ElectInv, CountInv, TaskInv PROVE WaitersExact
    OBVIOUS
  <2>1. waiters \in Nat /\ waiters < WaiterMod
    <3>1. Busy \subseteq Worker
      BY DEF Busy
    <3>2. Cardinality(Busy) \in 0 .. MaxOpen
      BY <3>1, BusyIsSmall
    <3>3. MinOpen - Cardinality(Busy) \in Int /\ WaiterMod \in Nat \ {0}
      BY <3>2
    <3> QED BY <3>3 DEF CountInv
  <2>2. TypeOK
    BY <2>1 DEF TypeOK, ThreadPoolTypeOK, TaskInv, Types, PlaceTypes
  <2> QED BY <2>2 DEF CountInv, WaitersExact
<1> QED BY <1>1, TaskInvariant, PTL

(* No task is lost and none is executed twice, whichever worker leads      *)
(* (thread_leader, lines 15-39).                                           *)
THEOREM NoTaskTwice == Spec => []EachTaskOnce
<1>1. TaskInv => EachTaskOnce
  <2> SUFFICES ASSUME TaskInv, NEW k \in Task
               PROVE  Queued(k) + Cardinality({w \in Worker : task[w] = k})
                      = IF k \notin todo /\ outcome[k] = "pending" THEN 1 ELSE 0
    BY DEF EachTaskOnce, TaskInv, OutcomeInv
  <2> DEFINE Q == {i \in 1 .. Len(queue) : queue[i] = k}
             W == {w \in Worker : task[w] = k}
  <2>0. k # NoTask
    OBVIOUS
  <2>1. Q = {} \/ \E i : Q = {i}
    <3> SUFFICES ASSUME NEW i \in Q PROVE Q = {i}
      OBVIOUS
    <3>1. \A j \in Q : j = i
      BY DEF TaskInv, PlaceInv
    <3> QED BY <3>1
  <2>2. W = {} \/ \E w : W = {w}
    <3> SUFFICES ASSUME NEW w \in W PROVE W = {w}
      OBVIOUS
    <3>1. \A v \in W : v = w
      BY <2>0 DEF TaskInv, PlaceInv
    <3> QED BY <3>1
  <2>3. /\ Cardinality(Q) = IF Q = {} THEN 0 ELSE 1
        /\ Cardinality(W) = IF W = {} THEN 0 ELSE 1
    <3> HIDE DEF Q, W
    <3>1. Cardinality({}) = 0 /\ \A x : Cardinality({x}) = 1
      BY FS_EmptySet, FS_Singleton
    <3> QED BY <2>1, <2>2, <3>1
  <2>4. (Q # {} <=> InQueue(k)) /\ (W # {} <=> WithWorker(k))
    BY DEF InQueue, WithWorker
  <2>5. /\ ~(InQueue(k) /\ WithWorker(k))
        /\ InQueue(k) \/ WithWorker(k) <=> k \notin todo /\ outcome[k] = "pending"
    BY DEF TaskInv, PlaceInv
  <2>6. Queued(k) = Cardinality(Q)
    BY DEF Queued
  <2> HIDE DEF Q, W
  <2>7. Cardinality(Q) + Cardinality(W)
        = IF k \notin todo /\ outcome[k] = "pending" THEN 1 ELSE 0
    BY <2>3, <2>4, <2>5
  <2> QED BY <2>6, <2>7 DEF W
<1> QED BY <1>1, TaskInvariant, PTL

-----------------------------------------------------------------------------
(* ConsumerProducer.                                                       *)

(* What assign leaves of the producer and the consumers.                   *)
rest == <<consumerQueue, pointer, blocked, producerVars, spurious>>

-----------------------------------------------------------------------------
(* assign grows the pool one consumer at a time.                           *)

GrowInv ==
  /\ OpenExact
  /\ \A c \in Client : cpc[c] \in {"grown", "offered"} => open < MaxOpen

LEMMA InitTypes == ConsumersInit => ConsumersTypeOK /\ GrowInv
<1> SUFFICES ASSUME ConsumersInit PROVE ConsumersTypeOK /\ GrowInv
  OBVIOUS
<1> USE DEF ConsumersInit, ThreadPoolInit
<1>1. ThreadPoolTypeOK
  BY DEF ThreadPoolTypeOK
<1>2. consumerQueue \in Seq(Worker) /\ chosen \in Worker
  BY DEF Worker
<1>3. ConsumersTypeOK
  BY <1>1, <1>2 DEF ConsumersTypeOK
<1>4. GrowInv
  BY DEF GrowInv, OpenExact
<1> QED BY <1>3, <1>4

(* The producer and the consumers open nobody.                             *)
LEMMA WorkTypes ==
  ASSUME ConsumersTypeOK, GrowInv,
         (\E w \in Worker : ConsumerStep(w) \/ ConsumerSpuriousWake(w)) \/ ProducerStep
  PROVE  ConsumersTypeOK' /\ GrowInv'
<1> USE DEF Goto, threadPoolVars, growVars, doneVars, producerVars
<1>1. ASSUME NEW w \in Worker, ConsumerSleep(w) \/ ConsumerSpuriousWake(w)
      PROVE  ConsumersTypeOK' /\ UNCHANGED <<open, poolMutex, cpc>>
             /\ \A v \in Worker : pc'[v] = "unborn" <=> pc[v] = "unborn"
  <2>1. CASE ConsumerSleep(w)
    BY <2>1 DEF ConsumerSleep, ConsumersTypeOK, ThreadPoolTypeOK
  <2>2. CASE ConsumerSpuriousWake(w)
    BY <2>2 DEF ConsumerSpuriousWake, ConsumersTypeOK, ThreadPoolTypeOK
  <2> QED BY <1>1, <2>1, <2>2
<1>2. ASSUME NEW w \in Worker, ConsumerExecute(w)
      PROVE  ConsumersTypeOK' /\ UNCHANGED <<open, poolMutex, cpc>>
             /\ \A v \in Worker : pc'[v] = "unborn" <=> pc[v] = "unborn"
  <2>1. /\ runs' \in [Task -> Nat]
        /\ outcome' \in [Task -> {"pending", "handled", "failed"}]
    <3>1. CASE pointer[w] # NoTask
      <4>1. pointer[w] \in Task
        BY <3>1 DEF ConsumersTypeOK
      <4>2. PICK o \in {"handled", "failed"} :
              /\ runs' = [runs EXCEPT ![pointer[w]] = @ + 1]
              /\ outcome' = [outcome EXCEPT ![pointer[w]] = o]
        BY <1>2, <3>1 DEF ConsumerExecute, ExecuteTask
      <4> QED BY <4>1, <4>2 DEF ConsumersTypeOK, ThreadPoolTypeOK
    <3>2. CASE pointer[w] = NoTask
      BY <1>2, <3>2 DEF ConsumerExecute, ConsumersTypeOK, ThreadPoolTypeOK
    <3> QED BY <3>1, <3>2
  <2>2. /\ pc[w] = "asleep" /\ pc' = [pc EXCEPT ![w] = "requeue"]
        /\ UNCHANGED <<growVars, queue, todo, cpc, consumerQueue, pointer, blocked,
                       producerVars, spurious>>
    BY <1>2 DEF ConsumerExecute
  <2> QED BY <2>1, <2>2 DEF ConsumersTypeOK, ThreadPoolTypeOK
<1>3. ASSUME NEW w \in Worker, Requeue(w)
      PROVE  ConsumersTypeOK' /\ UNCHANGED <<open, poolMutex, cpc>>
             /\ \A v \in Worker : pc'[v] = "unborn" <=> pc[v] = "unborn"
  BY <1>3 DEF Requeue, ConsumersTypeOK, ThreadPoolTypeOK
<1>4. ASSUME ProducerPop
      PROVE  ConsumersTypeOK' /\ UNCHANGED <<open, poolMutex, cpc, pc>>
  <2>1. Head(queue) \in Task /\ Tail(queue) \in Seq(Task)
    BY <1>4 DEF ProducerPop, ConsumersTypeOK, ThreadPoolTypeOK
  <2> QED BY <1>4, <2>1 DEF ProducerPop, ConsumersTypeOK, ThreadPoolTypeOK
<1>5. ASSUME ProducerTake
      PROVE  ConsumersTypeOK' /\ UNCHANGED <<open, poolMutex, cpc, pc>>
  <2>1. Head(consumerQueue) \in Worker /\ Tail(consumerQueue) \in Seq(Worker)
    BY <1>5 DEF ProducerTake, ConsumersTypeOK
  <2> QED BY <1>5, <2>1 DEF ProducerTake, ConsumersTypeOK, ThreadPoolTypeOK
<1>6. ASSUME ProducerHand \/ ProducerSignal
      PROVE  ConsumersTypeOK' /\ UNCHANGED <<open, poolMutex, cpc, pc>>
  <2>1. 0 \in Worker
    BY DEF Worker
  <2>2. CASE ProducerHand
    BY <2>1, <2>2 DEF ProducerHand, ConsumersTypeOK, ThreadPoolTypeOK
  <2>3. CASE ProducerSignal
    BY <2>1, <2>3 DEF ProducerSignal, ConsumersTypeOK, ThreadPoolTypeOK
  <2> QED BY <1>6, <2>2, <2>3
<1>7. ConsumersTypeOK' /\ UNCHANGED <<open, poolMutex, cpc>>
      /\ \A v \in Worker : pc'[v] = "unborn" <=> pc[v] = "unborn"
  BY <1>1, <1>2, <1>3, <1>4, <1>5, <1>6 DEF ConsumerStep, ProducerStep
<1> QED BY <1>7 DEF GrowInv, OpenExact

(* assign: at most one client, the one with the mutex, grows.              *)
LEMMA ClientTypes ==
  ASSUME ConsumersTypeOK, GrowInv, NEW c \in Client,
         GrowLock(c) \/ GrowStep(c) \/ (\E k \in Task : Assign(c, k) /\ UNCHANGED rest)
  PROVE  ConsumersTypeOK' /\ GrowInv'
<1> USE DEF Goto, ClientGoto, LookToGrow, LookAtWaiters, LookAtOpen, MayGrow, growVars, doneVars,
            producerVars, rest
<1>1. CASE GrowLock(c) \/ (\E k \in Task : Assign(c, k) /\ UNCHANGED rest)
           \/ (LookToGrow(c) /\ UNCHANGED rest) \/ (LeaveOpen(c) /\ UNCHANGED rest)
  <2>1. ConsumersTypeOK' /\ UNCHANGED <<open, pc>>
    <3>1. CASE GrowLock(c)
      BY <3>1 DEF GrowLock, LockToGrow, ConsumersTypeOK, ThreadPoolTypeOK
    <3>2. ASSUME NEW k \in Task, Assign(c, k), UNCHANGED rest
          PROVE  ConsumersTypeOK' /\ UNCHANGED <<open, pc>>
      BY <3>2 DEF Assign, ConsumersTypeOK, ThreadPoolTypeOK
    <3>3. CASE LookToGrow(c) /\ UNCHANGED rest
      BY <3>3 DEF LookToGrow, ConsumersTypeOK, ThreadPoolTypeOK
    <3>4. CASE LeaveOpen(c) /\ UNCHANGED rest
      BY <3>4 DEF LeaveOpen, ConsumersTypeOK, ThreadPoolTypeOK
    <3> QED BY <1>1, <3>1, <3>2, <3>3, <3>4
  <2>2. GrowInv'
    <3>1. \A d \in Client :
            /\ cpc'[d] \in {"grown", "offered"} => cpc[d] \in {"grown", "offered"}
            /\ cpc'[d] \in {"recheck", "grown", "offered"} => poolMutex' = d
      <4>1. \A d \in Client : cpc[d] \in {"recheck", "grown", "offered"} => poolMutex = d
        BY DEF GrowInv, OpenExact
      <4>2. cpc \in [Client -> {"idle", "look", "lookopen", "lock", "recheck", "grown", "offered"}]
        BY DEF ConsumersTypeOK, ThreadPoolTypeOK
      <4>3. CASE GrowLock(c)
        BY <4>1, <4>2, <4>3 DEF GrowLock, LockToGrow
      <4>4. CASE LeaveOpen(c)
        BY <4>1, <4>2, <4>4 DEF LeaveOpen
      <4>5. CASE LookToGrow(c) \/ (\E k \in Task : Assign(c, k))
        BY <4>1, <4>2, <4>5 DEF LookToGrow, Assign
      <4> QED BY <1>1, <4>3, <4>4, <4>5
    <3>2. \A d \in Client : cpc[d] \in {"grown", "offered"} => cpc'[d] = cpc[d]
      BY <1>1 DEF GrowLock, LockToGrow, Assign, LookToGrow, LeaveOpen,
                  ConsumersTypeOK, ThreadPoolTypeOK
    <3> QED BY <2>1, <3>1, <3>2 DEF GrowInv, OpenExact
  <2> QED BY <2>1, <2>2
<1>2. CASE CreateWorker(c) /\ UNCHANGED rest
  <2>1. /\ open \in Worker /\ open < MaxOpen /\ cpc[c] = "recheck"
        /\ pc' = [pc EXCEPT ![open] = "enter"] /\ cpc' = [cpc EXCEPT ![c] = "grown"]
        /\ UNCHANGED <<open, poolMutex>>
    BY <1>2 DEF CreateWorker, Worker, ConsumersTypeOK, ThreadPoolTypeOK
  <2>2. \A d \in Client : cpc[d] \notin {"grown", "offered"}
    BY <2>1 DEF GrowInv, OpenExact
  <2>3. ConsumersTypeOK'
    BY <1>2, <2>1 DEF CreateWorker, ConsumersTypeOK, ThreadPoolTypeOK
  <2>4. GrowInv'
    BY <2>1, <2>2 DEF GrowInv, OpenExact, ConsumersTypeOK, ThreadPoolTypeOK
  <2> QED BY <2>3, <2>4
<1>3. CASE OfferNew(c)
  <2>1. /\ cpc[c] = "grown" /\ open < MaxOpen /\ open \in Worker
        /\ cpc' = [cpc EXCEPT ![c] = "offered"] /\ UNCHANGED <<open, poolMutex, pc>>
    BY <1>3 DEF OfferNew, GrowInv, ConsumersTypeOK, ThreadPoolTypeOK, Worker
  <2>2. ConsumersTypeOK'
    <3>1. consumerQueue' \in Seq(Worker)
      BY <1>3, <2>1 DEF OfferNew, ConsumersTypeOK
    <3> QED BY <1>3, <2>1, <3>1 DEF OfferNew, ConsumersTypeOK, ThreadPoolTypeOK
  <2>3. \A d \in Client : /\ cpc'[d] \in {"grown", "offered"} <=> cpc[d] \in {"grown", "offered"}
                          /\ cpc'[d] = "recheck" <=> cpc[d] = "recheck"
    BY <2>1 DEF ConsumersTypeOK, ThreadPoolTypeOK
  <2>4. GrowInv'
    BY <2>1, <2>3 DEF GrowInv, OpenExact
  <2> QED BY <2>2, <2>4
<1>4. CASE CountOpen(c, "offered") /\ UNCHANGED rest
  <2>1. /\ cpc[c] = "offered" /\ open < MaxOpen /\ open' = open + 1 /\ open \in Worker
        /\ cpc' = [cpc EXCEPT ![c] = "idle"] /\ poolMutex' = NoClient /\ UNCHANGED pc
    BY <1>4 DEF CountOpen, GrowInv, ConsumersTypeOK, ThreadPoolTypeOK, Worker
  <2>2. \A d \in Client : d # c => cpc[d] \notin {"recheck", "grown", "offered"}
    BY <2>1 DEF GrowInv, OpenExact
  <2>3. ConsumersTypeOK'
    <3>1. open' \in MinOpen .. MaxOpen
      BY <2>1 DEF ConsumersTypeOK, ThreadPoolTypeOK
    <3> QED BY <1>4, <2>1, <3>1 DEF CountOpen, ConsumersTypeOK, ThreadPoolTypeOK
  <2>4. \A d \in Client : cpc'[d] \notin {"recheck", "grown", "offered"}
    BY <2>1, <2>2 DEF ConsumersTypeOK, ThreadPoolTypeOK
  <2>5. \A v \in Worker : pc'[v] # "unborn" <=> v < open'
    BY <2>1 DEF GrowInv, OpenExact, Worker, ConsumersTypeOK, ThreadPoolTypeOK
  <2> QED BY <2>3, <2>4, <2>5 DEF GrowInv, OpenExact
<1> QED BY <1>1, <1>2, <1>3, <1>4 DEF GrowStep

LEMMA NextKeepsTypes ==
  ConsumersTypeOK /\ GrowInv /\ [ConsumersNext]_consumerVars => ConsumersTypeOK' /\ GrowInv'
<1> SUFFICES ASSUME ConsumersTypeOK, GrowInv, [ConsumersNext]_consumerVars
             PROVE  ConsumersTypeOK' /\ GrowInv'
  OBVIOUS
<1>1. CASE UNCHANGED consumerVars
  BY <1>1 DEF consumerVars, threadPoolVars, growVars, doneVars, producerVars,
              ConsumersTypeOK, ThreadPoolTypeOK, GrowInv, OpenExact
<1> QED BY <1>1, WorkTypes, ClientTypes DEF ConsumersNext, rest

-----------------------------------------------------------------------------
(* Each task is at one place on its way to a consumer.                     *)

Waiting(k) == \E i \in 1 .. Len(queue) : queue[i] = k

HandInv ==
  /\ \A i, j \in 1 .. Len(queue) : queue[i] = queue[j] => i = j
  /\ \A k \in todo : ~Waiting(k)
  /\ ppc = "pop" <=> item = NoTask
  /\ ppc \in {"take", "hand"} =>
       /\ item \notin todo /\ ~Waiting(item)
       /\ \A w \in Worker : pointer[w] # item
  /\ ppc = "signal" => pointer[chosen] = item
  /\ \A v, w \in Worker : pointer[v] = pointer[w] /\ pointer[v] # NoTask => v = w
  /\ \A w \in Worker : pointer[w] \notin todo /\ ~Waiting(pointer[w])

(* Appending and taking off the head, element by element.                  *)
LEMMA AppendIs ==
  ASSUME NEW S, NEW q \in Seq(S), NEW x \in S
  PROVE  /\ Append(q, x) \in Seq(S) /\ Len(Append(q, x)) = Len(q) + 1 /\ Len(q) \in Nat
         /\ Append(q, x)[Len(q) + 1] = x
         /\ \A i \in 1 .. Len(q) : Append(q, x)[i] = q[i]
OBVIOUS

LEMMA TailIs ==
  ASSUME NEW S, NEW q \in Seq(S), q # <<>>
  PROVE  /\ Head(q) \in S /\ Head(q) = q[1] /\ Tail(q) \in Seq(S)
         /\ Len(q) \in Nat \ {0} /\ Len(Tail(q)) = Len(q) - 1
         /\ \A i \in 1 .. Len(q) - 1 : Tail(q)[i] = q[i + 1]
OBVIOUS

(* The same for the set of the elements, when each is there once.          *)
LEMMA AppendOnce ==
  ASSUME NEW S, NEW q \in Seq(S), NEW x \in S,
         \A i, j \in 1 .. Len(q) : q[i] = q[j] => i = j,
         \A i \in 1 .. Len(q) : q[i] # x,
         NEW r, r = Append(q, x)
  PROVE  /\ \A i, j \in 1 .. Len(r) : r[i] = r[j] => i = j
         /\ \A i \in 1 .. Len(r) : r[i] = x \/ \E j \in 1 .. Len(q) : r[i] = q[j]
<1>1. /\ Len(r) = Len(q) + 1 /\ Len(q) \in Nat /\ r[Len(q) + 1] = x
      /\ \A i \in 1 .. Len(q) : r[i] = q[i]
  BY AppendIs
<1>2. \A i \in 1 .. Len(r) : i \in 1 .. Len(q) \/ i = Len(q) + 1
  BY <1>1
<1> QED BY <1>1, <1>2

LEMMA TailOnce ==
  ASSUME NEW S, NEW q \in Seq(S), q # <<>>,
         \A i, j \in 1 .. Len(q) : q[i] = q[j] => i = j,
         NEW r, r = Tail(q)
  PROVE  /\ \A i, j \in 1 .. Len(r) : r[i] = r[j] => i = j
         /\ \A i \in 1 .. Len(r) : r[i] # Head(q) /\ \E j \in 1 .. Len(q) : r[i] = q[j]
<1>1. /\ Len(q) \in Nat \ {0} /\ Len(r) = Len(q) - 1 /\ Head(q) = q[1]
      /\ \A i \in 1 .. Len(q) - 1 : r[i] = q[i + 1]
  BY TailIs
<1>2. \A i \in 1 .. Len(r) : i + 1 \in 1 .. Len(q) /\ i + 1 # 1 /\ r[i] = q[i + 1]
  BY <1>1
<1>3. 1 \in 1 .. Len(q)
  BY <1>1
<1>4. ASSUME NEW i \in 1 .. Len(r), NEW j \in 1 .. Len(r), r[i] = r[j] PROVE i = j
  <2>1. i + 1 = j + 1
    BY <1>2, <1>4
  <2> QED BY <2>1
<1>5. ASSUME NEW i \in 1 .. Len(r)
      PROVE  r[i] # Head(q) /\ \E j \in 1 .. Len(q) : r[i] = q[j]
  BY <1>1, <1>2, <1>3
<1> QED BY <1>4, <1>5

LEMMA NextKeepsHand == ConsumersTypeOK /\ HandInv /\ [ConsumersNext]_consumerVars => HandInv'
<1> SUFFICES ASSUME ConsumersTypeOK, HandInv, [ConsumersNext]_consumerVars PROVE HandInv'
  OBVIOUS
<1> USE DEF producerVars, threadPoolVars, growVars, doneVars, rest
<1>0. queue \in Seq(Task) /\ todo \subseteq Task /\ pointer \in [Worker -> Task \cup {NoTask}]
      /\ item \in Task \cup {NoTask} /\ chosen \in Worker
      /\ ppc \in {"pop", "take", "hand", "signal"}
  BY DEF ConsumersTypeOK, ThreadPoolTypeOK
<1>1. ASSUME UNCHANGED <<queue, todo, ppc, item, pointer, chosen>> PROVE HandInv'
  BY <1>1 DEF HandInv, Waiting
<1>2. ASSUME NEW c \in Client, NEW k \in Task, Assign(c, k), UNCHANGED rest PROVE HandInv'
  <2>1. /\ k \in todo /\ todo' = todo \ {k} /\ queue' = Append(queue, k)
        /\ UNCHANGED <<ppc, item, pointer, chosen>>
    BY <1>2 DEF Assign
  <2>2. ~Waiting(k) /\ (\A w \in Worker : pointer[w] # k)
        /\ (ppc \in {"take", "hand"} => item # k)
    BY <2>1 DEF HandInv
  <2>3. /\ \A i, j \in 1 .. Len(queue') : queue'[i] = queue'[j] => i = j
        /\ \A i \in 1 .. Len(queue') :
             queue'[i] = k \/ \E j \in 1 .. Len(queue) : queue'[i] = queue[j]
    <3>1. /\ \A i, j \in 1 .. Len(queue) : queue[i] = queue[j] => i = j
          /\ \A i \in 1 .. Len(queue) : queue[i] # k
      BY <2>2 DEF HandInv, Waiting
    <3> QED BY <1>0, <2>1, <3>1, AppendOnce
  <2>4. \A x : Waiting(x)' => Waiting(x) \/ x = k
    BY <2>3 DEF Waiting
  <2> QED BY <2>1, <2>2, <2>3, <2>4 DEF HandInv
<1>3. CASE ProducerPop
  <2>1. /\ queue # <<>> /\ queue' = Tail(queue) /\ ppc = "pop"
        /\ UNCHANGED <<todo, pointer, chosen>>
    BY <1>3 DEF ProducerPop
  <2>2. PICK k \in Task : k = Head(queue)
    BY <1>0, <2>1, TailIs
  <2>3. Waiting(k)
    <3>1. k = queue[1] /\ Len(queue) \in Nat \ {0}
      BY <1>0, <2>1, <2>2, TailIs
    <3> QED BY <3>1 DEF Waiting
  <2>4. k \notin todo /\ \A w \in Worker : pointer[w] # k
    BY <2>3 DEF HandInv
  <2>5. /\ \A i, j \in 1 .. Len(queue') : queue'[i] = queue'[j] => i = j
        /\ \A i \in 1 .. Len(queue') :
             queue'[i] # k /\ \E j \in 1 .. Len(queue) : queue'[i] = queue[j]
    <3>1. \A i, j \in 1 .. Len(queue) : queue[i] = queue[j] => i = j
      BY DEF HandInv
    <3> QED BY <1>0, <2>1, <2>2, <3>1, TailOnce
  <2>6. \A x : Waiting(x)' => Waiting(x) /\ x # k
    BY <2>5 DEF Waiting
  <2>7. \/ UNCHANGED <<ppc, item>>
        \/ ppc' = "take" /\ item' = k /\ k # NoTask
    BY <1>3, <2>2 DEF ProducerPop
  <2> QED BY <2>1, <2>4, <2>5, <2>6, <2>7 DEF HandInv
<1>4. CASE ProducerTake
  <2>1. ppc = "take" /\ ppc' = "hand" /\ UNCHANGED <<queue, todo, item, pointer>>
    BY <1>4 DEF ProducerTake
  <2> QED BY <2>1 DEF HandInv, Waiting
<1>5. CASE ProducerHand
  <2>1. /\ ppc = "hand" /\ ppc' = "signal" /\ UNCHANGED <<queue, todo, item, chosen>>
        /\ pointer' = [pointer EXCEPT ![chosen] = item]
    BY <1>5 DEF ProducerHand
  <2>2. pointer'[chosen] = item /\ \A w \in Worker \ {chosen} : pointer'[w] = pointer[w]
    BY <1>0, <2>1
  <2>3. item \notin todo /\ ~Waiting(item) /\ \A w \in Worker : pointer[w] # item
    BY <2>1 DEF HandInv
  <2> QED BY <2>1, <2>2, <2>3 DEF HandInv, Waiting
<1>6. CASE ProducerSignal
  <2>1. ppc' = "pop" /\ item' = NoTask /\ UNCHANGED <<queue, todo, pointer>>
    BY <1>6 DEF ProducerSignal
  <2> QED BY <2>1 DEF HandInv, Waiting
<1>7. ASSUME NEW w \in Worker, ConsumerStep(w) \/ ConsumerSpuriousWake(w) PROVE HandInv'
  <2>1. UNCHANGED <<queue, todo, ppc, item, pointer, chosen>>
    BY <1>7 DEF ConsumerStep, ConsumerSleep, ConsumerExecute, Requeue, ConsumerSpuriousWake
  <2> QED BY <1>1, <2>1
<1>8. ASSUME NEW c \in Client, GrowLock(c) \/ GrowStep(c) PROVE HandInv'
  <2>1. UNCHANGED <<queue, todo, ppc, item, pointer, chosen>>
    BY <1>8 DEF GrowLock, GrowStep, OfferNew, CountOpen, LockToGrow, LookToGrow, LookAtWaiters,
                LookAtOpen, CreateWorker, LeaveOpen
  <2> QED BY <1>1, <2>1
<1>9. CASE UNCHANGED consumerVars
  BY <1>1, <1>9 DEF consumerVars
<1> QED BY <1>2, <1>3, <1>4, <1>5, <1>6, <1>7, <1>8, <1>9 DEF ConsumersNext, ProducerStep

-----------------------------------------------------------------------------
(* Without spurious wakeups a consumer is offered, or handed a task, only  *)
(* while it waits or is about to; one that assign has created and not      *)
(* offered yet is not at work.                                             *)

AtWork(w) == Awake(w) \/ pc[w] = "requeue"
Offered(w) == \E i \in 1 .. Len(consumerQueue) : consumerQueue[i] = w

(* The consumers that producer and queue may know: open, or on the way.    *)
Known(w) == w < open \/ (w = open /\ \E c \in Client : cpc[c] = "offered")

OfferedInv ==
  /\ \A i, j \in 1 .. Len(consumerQueue) : consumerQueue[i] = consumerQueue[j] => i = j
  /\ \A w \in Worker :
       /\ Offered(w) \/ Handing(w) => Known(w) /\ ~AtWork(w)
       /\ ~(Offered(w) /\ Handing(w))
       /\ AtWork(w) => Known(w)

OfferInv == spurious = 0 => OfferedInv

(* Steps that put nobody to work and leave the offers alone.               *)
LEMMA NobodyOffered ==
  ASSUME OfferedInv, UNCHANGED consumerQueue,
         \A w \in Worker : Known(w) => Known(w)',
         \A w \in Worker : Handing(w)' => Handing(w),
         \A w \in Worker : AtWork(w)' => AtWork(w)
  PROVE  OfferedInv'
<1>1. \A w : Offered(w)' <=> Offered(w)
  BY DEF Offered
<1> QED BY <1>1 DEF OfferedInv

LEMMA NextKeepsOffers ==
  ConsumersTypeOK /\ GrowInv /\ OfferInv /\ [ConsumersNext]_consumerVars => OfferInv'
<1> SUFFICES ASSUME ConsumersTypeOK, GrowInv, OfferInv, [ConsumersNext]_consumerVars, spurious' = 0
             PROVE  OfferedInv'
  BY DEF OfferInv
<1> USE DEF Goto, producerVars, threadPoolVars, growVars, doneVars, rest
<1>0. /\ consumerQueue \in Seq(Worker) /\ chosen \in Worker /\ open \in Nat
      /\ cpc \in [Client -> {"idle", "look", "lookopen", "lock", "recheck", "grown", "offered"}]
      /\ pc \in [Worker -> {"unborn", "enter", "asleep", "requeue"}] /\ blocked \subseteq Worker
  BY DEF ConsumersTypeOK, ThreadPoolTypeOK
<1>1. spurious = 0 /\ \A w \in Worker : ~ConsumerSpuriousWake(w)
  <2>1. \A w \in Worker : ~ConsumerSpuriousWake(w)
    BY DEF ConsumerSpuriousWake, ConsumersTypeOK
  <2>2. spurious' = spurious
    BY <2>1 DEF ConsumersNext, ConsumerStep, ConsumerSleep, ConsumerExecute, Requeue,
                ProducerStep, ProducerPop, ProducerTake, ProducerHand, ProducerSignal,
                GrowLock, GrowStep, OfferNew, consumerVars
  <2> QED BY <2>1, <2>2
<1>2. OfferedInv
  BY <1>1 DEF OfferInv
<1>3. ASSUME NEW w \in Worker, ConsumerSleep(w) \/ ConsumerExecute(w) PROVE OfferedInv'
  <2>1. \A v \in Worker : AtWork(v)' => AtWork(v)
    <3>1. CASE ConsumerSleep(w)
      BY <1>0, <3>1 DEF ConsumerSleep, AtWork, Awake
    <3>2. CASE ConsumerExecute(w)
      BY <1>0, <3>2 DEF ConsumerExecute, AtWork, Awake
    <3> QED BY <1>3, <3>1, <3>2
  <2>2. UNCHANGED <<consumerQueue, ppc, chosen, open, cpc>>
    BY <1>3 DEF ConsumerSleep, ConsumerExecute
  <2>3. \A v \in Worker : (Handing(v)' => Handing(v)) /\ (Known(v) => Known(v)')
    BY <2>2 DEF Handing, Known
  <2> QED BY <1>2, <2>1, <2>2, <2>3, NobodyOffered
<1>4. ASSUME NEW x \in Worker, consumerQueue' = Append(consumerQueue, x), ~Offered(x)
      PROVE  /\ \A i, j \in 1 .. Len(consumerQueue') :
                  consumerQueue'[i] = consumerQueue'[j] => i = j
             /\ \A w \in Worker : Offered(w)' => Offered(w) \/ w = x
  <2>1. /\ \A i, j \in 1 .. Len(consumerQueue) : consumerQueue[i] = consumerQueue[j] => i = j
        /\ \A i \in 1 .. Len(consumerQueue) : consumerQueue[i] # x
    BY <1>2, <1>4 DEF OfferedInv, Offered
  <2>2. /\ \A i, j \in 1 .. Len(consumerQueue') : consumerQueue'[i] = consumerQueue'[j] => i = j
        /\ \A i \in 1 .. Len(consumerQueue') :
             consumerQueue'[i] = x \/ \E j \in 1 .. Len(consumerQueue) :
                                        consumerQueue'[i] = consumerQueue[j]
    BY <1>0, <1>4, <2>1, AppendOnce
  <2> QED BY <2>2 DEF Offered
<1>5. ASSUME NEW w \in Worker, Requeue(w) PROVE OfferedInv'
  <2>1. /\ pc[w] = "requeue" /\ pc' = [pc EXCEPT ![w] = "enter"]
        /\ consumerQueue' = Append(consumerQueue, w)
        /\ UNCHANGED <<open, cpc, blocked, ppc, chosen>>
    BY <1>5 DEF Requeue
  <2>2. AtWork(w) /\ Known(w) /\ ~Offered(w) /\ ~Handing(w)
    BY <1>2, <2>1 DEF AtWork, OfferedInv
  <2>3. \A v \in Worker : AtWork(v)' <=> AtWork(v) /\ v # w
    BY <1>0, <2>1 DEF AtWork, Awake
  <2>4. \A v \in Worker : (Handing(v)' <=> Handing(v)) /\ (Known(v)' <=> Known(v))
    BY <2>1 DEF Handing, Known
  <2>5. /\ \A i, j \in 1 .. Len(consumerQueue') : consumerQueue'[i] = consumerQueue'[j] => i = j
        /\ \A v \in Worker : Offered(v)' => Offered(v) \/ v = w
    BY <1>4, <2>1, <2>2
  <2> QED BY <1>2, <2>1, <2>2, <2>3, <2>4, <2>5 DEF OfferedInv
<1>6. CASE ProducerPop
  <2>1. /\ UNCHANGED <<consumerQueue, chosen, open, cpc, pc, blocked>> /\ ppc' \in {"pop", "take"}
    BY <1>6 DEF ProducerPop
  <2>2. \A w \in Worker : ~Handing(w)' /\ (AtWork(w)' <=> AtWork(w)) /\ (Known(w)' <=> Known(w))
    BY <2>1 DEF Handing, AtWork, Awake, Known
  <2> QED BY <1>2, <2>1, <2>2, NobodyOffered
<1>7. CASE ProducerTake
  <2>1. /\ consumerQueue # <<>> /\ consumerQueue' = Tail(consumerQueue)
        /\ chosen' = Head(consumerQueue) /\ ppc' = "hand" /\ UNCHANGED <<open, cpc, pc, blocked>>
    BY <1>7 DEF ProducerTake
  <2>2. PICK x \in Worker : x = Head(consumerQueue) /\ Offered(x)
    <3>1. /\ Head(consumerQueue) = consumerQueue[1] /\ Len(consumerQueue) \in Nat \ {0}
          /\ Head(consumerQueue) \in Worker
      BY <1>0, <2>1, TailIs
    <3> QED BY <3>1 DEF Offered
  <2>3. /\ \A i, j \in 1 .. Len(consumerQueue') : consumerQueue'[i] = consumerQueue'[j] => i = j
        /\ \A i \in 1 .. Len(consumerQueue') :
             consumerQueue'[i] # x /\ \E j \in 1 .. Len(consumerQueue) :
                                        consumerQueue'[i] = consumerQueue[j]
    <3>1. \A i, j \in 1 .. Len(consumerQueue) : consumerQueue[i] = consumerQueue[j] => i = j
      BY <1>2 DEF OfferedInv
    <3> QED BY <1>0, <2>1, <2>2, <3>1, TailOnce
  <2>4. \A w \in Worker : /\ Offered(w)' => Offered(w) /\ w # x
                          /\ Handing(w)' <=> w = x
                          /\ AtWork(w)' <=> AtWork(w)
                          /\ Known(w)' <=> Known(w)
    BY <2>1, <2>2, <2>3 DEF Offered, Handing, AtWork, Awake, Known
  <2> QED BY <1>2, <2>1, <2>2, <2>3, <2>4 DEF OfferedInv
<1>8. CASE ProducerHand
  <2>1. /\ ppc = "hand" /\ UNCHANGED <<consumerQueue, chosen, open, cpc, pc, blocked>>
    BY <1>8 DEF ProducerHand
  <2>2. \A w \in Worker : /\ (Handing(w)' => Handing(w)) /\ (AtWork(w)' <=> AtWork(w))
                          /\ Known(w)' <=> Known(w)
    BY <2>1 DEF Handing, AtWork, Awake, Known
  <2> QED BY <1>2, <2>1, <2>2, NobodyOffered
<1>9. CASE ProducerSignal
  <2>1. /\ ppc = "signal" /\ ppc' = "pop" /\ blocked' = blocked \ {chosen}
        /\ UNCHANGED <<consumerQueue, open, cpc, pc>>
    BY <1>9 DEF ProducerSignal
  <2>2. Known(chosen) /\ ~Offered(chosen)
    BY <1>0, <1>2, <2>1 DEF OfferedInv, Handing
  <2>3. \A w \in Worker : /\ ~Handing(w)' /\ (Offered(w)' <=> Offered(w))
                          /\ w # chosen => (AtWork(w)' <=> AtWork(w))
                          /\ Known(w)' <=> Known(w)
    BY <2>1 DEF AtWork, Awake, Handing, Offered, Known
  <2> QED BY <1>2, <2>1, <2>2, <2>3 DEF OfferedInv
<1>10. ASSUME NEW c \in Client, OfferNew(c) PROVE OfferedInv'
  <2>1. /\ consumerQueue' = Append(consumerQueue, open) /\ cpc[c] = "grown" /\ open < MaxOpen
        /\ cpc' = [cpc EXCEPT ![c] = "offered"]
        /\ UNCHANGED <<open, pc, blocked, ppc, chosen>>
    BY <1>10 DEF OfferNew, ClientGoto, GrowInv
  <2>2. open \in Worker /\ ~Known(open)
    <3>1. \A d \in Client : d # c => cpc[d] # "offered"
      BY <2>1 DEF GrowInv, OpenExact
    <3> QED BY <1>0, <2>1, <3>1 DEF Worker, Known
  <2>3. ~Offered(open) /\ ~Handing(open) /\ ~AtWork(open)
    BY <1>2, <2>2 DEF OfferedInv
  <2>4. Known(open)' /\ \A w \in Worker : Known(w) => Known(w)'
    BY <1>0, <2>1 DEF Known
  <2>5. \A w \in Worker : (AtWork(w)' <=> AtWork(w)) /\ (Handing(w)' <=> Handing(w))
    BY <2>1 DEF AtWork, Awake, Handing
  <2>6. /\ \A i, j \in 1 .. Len(consumerQueue') : consumerQueue'[i] = consumerQueue'[j] => i = j
        /\ \A w \in Worker : Offered(w)' => Offered(w) \/ w = open
    BY <1>4, <2>1, <2>2, <2>3
  <2>7. ASSUME NEW w \in Worker
        PROVE  /\ Offered(w)' \/ Handing(w)' => Known(w)' /\ ~AtWork(w)'
               /\ ~(Offered(w)' /\ Handing(w)')
               /\ AtWork(w)' => Known(w)'
    <3>1. CASE w = open
      BY <2>1, <2>3, <2>4, <2>5, <3>1
    <3>2. CASE w # open
      BY <1>2, <2>4, <2>5, <2>6, <3>2 DEF OfferedInv
    <3> QED BY <3>1, <3>2
  <2> QED BY <2>6, <2>7 DEF OfferedInv
<1>15. ASSUME NEW c \in Client, CountOpen(c, "offered"), UNCHANGED rest PROVE OfferedInv'
  <2>1. open' = open + 1 /\ UNCHANGED <<consumerQueue, pc, blocked, ppc, chosen>>
    BY <1>15 DEF CountOpen
  <2>2. \A w \in Worker : Known(w) => Known(w)'
    BY <1>0, <2>1 DEF Known, Worker
  <2> QED BY <1>2, <2>1, <2>2, NobodyOffered DEF AtWork, Awake, Handing
<1>11. ASSUME NEW c \in Client, CreateWorker(c), UNCHANGED rest PROVE OfferedInv'
  <2>1. /\ pc' = [pc EXCEPT ![open] = "enter"] /\ cpc[c] = "recheck"
        /\ cpc' = [cpc EXCEPT ![c] = "grown"]
        /\ UNCHANGED <<open, blocked, consumerQueue, ppc, chosen>>
    BY <1>11 DEF CreateWorker, ClientGoto
  <2>2. \A v \in Worker : /\ (AtWork(v)' => AtWork(v)) /\ (Handing(v)' => Handing(v))
                          /\ Known(v) => Known(v)'
    BY <1>0, <2>1 DEF AtWork, Awake, Handing, Known
  <2> QED BY <1>2, <2>1, <2>2, NobodyOffered
<1>12. ASSUME UNCHANGED <<consumerQueue, ppc, chosen, open, pc, blocked>>,
              \A d \in Client : cpc[d] = "offered" => cpc'[d] = "offered"
       PROVE  OfferedInv'
  BY <1>2, <1>12, NobodyOffered DEF AtWork, Awake, Handing, Known
<1>13. ASSUME NEW c \in Client,
              \/ GrowLock(c) \/ (LookToGrow(c) /\ UNCHANGED rest)
              \/ (LeaveOpen(c) /\ UNCHANGED rest)
              \/ \E k \in Task : Assign(c, k) /\ UNCHANGED rest
       PROVE  OfferedInv'
  <2>1. UNCHANGED <<consumerQueue, ppc, chosen, open, pc, blocked>>
    BY <1>13 DEF GrowLock, LockToGrow, LookToGrow, LookAtWaiters, LookAtOpen, LeaveOpen, Assign
  <2>2. cpc[c] # "offered" /\ \A d \in Client \ {c} : cpc'[d] = cpc[d]
    BY <1>0, <1>13 DEF GrowLock, LockToGrow, LookToGrow, LookAtWaiters, LookAtOpen, LeaveOpen,
                       Assign, ClientGoto
  <2> QED BY <1>12, <2>1, <2>2
<1>14. CASE UNCHANGED consumerVars
  BY <1>12, <1>14 DEF consumerVars
<1> QED BY <1>1, <1>3, <1>5, <1>6, <1>7, <1>8, <1>9, <1>10, <1>11, <1>13, <1>14, <1>15
        DEF ConsumersNext, ConsumerStep, ProducerStep, GrowStep

-----------------------------------------------------------------------------
(* A task that may still be executed has not been.                         *)

ToExecute(k) ==
  \/ k \in todo \/ Waiting(k) \/ item = k
  \/ \E w \in Worker : Awake(w) /\ pointer[w] = k

FreshInv ==
  spurious = 0 => \A k \in Task : runs[k] <= 1 /\ (ToExecute(k) => runs[k] = 0)

LEMMA NextKeepsFresh ==
  ConsumersTypeOK /\ HandInv /\ OfferInv /\ FreshInv /\ [ConsumersNext]_consumerVars => FreshInv'
<1> SUFFICES ASSUME ConsumersTypeOK, HandInv, OfferInv, FreshInv,
                    [ConsumersNext]_consumerVars, spurious' = 0
             PROVE  \A k \in Task : runs'[k] <= 1 /\ (ToExecute(k)' => runs'[k] = 0)
  BY DEF FreshInv
<1> USE DEF Goto, producerVars, threadPoolVars, growVars, doneVars, rest
<1>0. /\ queue \in Seq(Task) /\ todo \subseteq Task /\ chosen \in Worker
      /\ pointer \in [Worker -> Task \cup {NoTask}] /\ runs \in [Task -> Nat]
      /\ pc \in [Worker -> {"unborn", "enter", "asleep", "requeue"}] /\ blocked \subseteq Worker
  BY DEF ConsumersTypeOK, ThreadPoolTypeOK
<1>1. spurious = 0 /\ \A w \in Worker : ~ConsumerSpuriousWake(w)
  <2>1. \A w \in Worker : ~ConsumerSpuriousWake(w)
    BY DEF ConsumerSpuriousWake, ConsumersTypeOK
  <2>2. spurious' = spurious
    BY <2>1 DEF ConsumersNext, ConsumerStep, ConsumerSleep, ConsumerExecute, Requeue,
                ProducerStep, ProducerPop, ProducerTake, ProducerHand, ProducerSignal,
                GrowLock, GrowStep, OfferNew, consumerVars
  <2> QED BY <2>1, <2>2
<1>2. OfferedInv /\ \A k \in Task : runs[k] <= 1 /\ (ToExecute(k) => runs[k] = 0)
  BY <1>1 DEF OfferInv, FreshInv
<1>3. SUFFICES \/ runs' = runs /\ \A k \in Task : ToExecute(k)' => ToExecute(k)
               \/ \A k \in Task : runs'[k] <= 1 /\ (ToExecute(k)' => runs'[k] = 0)
  BY <1>2
<1>4. ASSUME NEW w \in Worker, ConsumerSleep(w)
      PROVE  runs' = runs /\ \A k \in Task : ToExecute(k)' => ToExecute(k)
  <2>1. /\ UNCHANGED <<todo, queue, item, pointer, runs>>
        /\ \A v \in Worker : Awake(v)' => Awake(v)
    BY <1>0, <1>4 DEF ConsumerSleep, Awake
  <2> QED BY <2>1 DEF ToExecute, Waiting
<1>5. ASSUME NEW w \in Worker, ConsumerExecute(w)
      PROVE  \A k \in Task : runs'[k] <= 1 /\ (ToExecute(k)' => runs'[k] = 0)
  <2>1. /\ Awake(w) /\ ~Awake(w)' /\ \A v \in Worker \ {w} : Awake(v)' => Awake(v)
        /\ UNCHANGED <<todo, queue, item, pointer>>
    BY <1>0, <1>5 DEF ConsumerExecute, Awake
  <2>2. \A k \in Task : ToExecute(k)' => ToExecute(k)
    BY <2>1 DEF ToExecute, Waiting
  <2>3. CASE pointer[w] = NoTask
    <3>1. runs' = runs
      BY <1>5, <2>3 DEF ConsumerExecute
    <3> QED BY <1>2, <2>2, <3>1
  <2>4. CASE pointer[w] # NoTask
    <3>1. PICK x \in Task : x = pointer[w]
      BY <1>0, <2>4
    <3>2. runs[x] = 0 /\ runs' = [runs EXCEPT ![x] = @ + 1]
      BY <1>2, <1>5, <2>1, <2>4, <3>1 DEF ToExecute, ConsumerExecute, ExecuteTask
    <3>3. ~ToExecute(x)'
      <4>1. x \notin todo /\ ~Waiting(x)
        BY <3>1 DEF HandInv
      <4>2. \A v \in Worker : pointer[v] = x => v = w
        BY <2>4, <3>1 DEF HandInv
      <4>3. item # x
        <5>1. ppc \in {"take", "hand"} => pointer[w] # item
          BY DEF HandInv
        <5>2. ppc = "pop" => item = NoTask
          BY DEF HandInv
        <5>3. ppc = "signal" => chosen # w
          BY <1>2, <2>1 DEF OfferedInv, AtWork, Handing
        <5>4. ppc = "signal" => pointer[chosen] = item
          BY DEF HandInv
        <5> QED BY <1>0, <2>4, <3>1, <4>2, <5>1, <5>2, <5>3, <5>4 DEF ConsumersTypeOK
      <4> QED BY <2>1, <4>1, <4>2, <4>3 DEF ToExecute, Waiting
    <3> QED BY <1>0, <1>2, <2>2, <3>2, <3>3
  <2> QED BY <2>3, <2>4
<1>6. ASSUME NEW w \in Worker, Requeue(w)
      PROVE  runs' = runs /\ \A k \in Task : ToExecute(k)' => ToExecute(k)
  <2>1. /\ UNCHANGED <<todo, queue, item, pointer, runs>>
        /\ \A v \in Worker : Awake(v)' => Awake(v)
    BY <1>0, <1>6 DEF Requeue, Awake
  <2> QED BY <2>1 DEF ToExecute, Waiting
<1>7. ASSUME ProducerPop
      PROVE  runs' = runs /\ \A k \in Task : ToExecute(k)' => ToExecute(k)
  <2>1. /\ queue # <<>> /\ queue' = Tail(queue) /\ UNCHANGED <<todo, pointer, runs, pc, blocked>>
        /\ item' = item \/ item' = Head(queue)
    BY <1>7 DEF ProducerPop
  <2>2. /\ Len(queue) \in Nat \ {0} /\ Len(Tail(queue)) = Len(queue) - 1
        /\ Head(queue) = queue[1]
        /\ \A i \in 1 .. Len(queue) - 1 : Tail(queue)[i] = queue[i + 1]
    BY <1>0, <2>1, TailIs
  <2>3. \A k \in Task : Waiting(k)' => Waiting(k)
    <3> SUFFICES ASSUME NEW k \in Task, NEW i \in 1 .. Len(queue) - 1, queue[i + 1] = k
                 PROVE  Waiting(k)
      BY <2>1, <2>2 DEF Waiting
    <3>1. i + 1 \in 1 .. Len(queue)
      BY <2>2
    <3> QED BY <3>1 DEF Waiting
  <2>4. Waiting(Head(queue))
    BY <2>2 DEF Waiting
  <2>5. \A w \in Worker : Awake(w)' <=> Awake(w)
    BY <2>1 DEF Awake
  <2> QED BY <2>1, <2>3, <2>4, <2>5 DEF ToExecute
<1>8. ASSUME ProducerTake
      PROVE  runs' = runs /\ \A k \in Task : ToExecute(k)' => ToExecute(k)
  BY <1>8 DEF ProducerTake, ToExecute, Waiting, Awake
<1>9. ASSUME ProducerHand
      PROVE  runs' = runs /\ \A k \in Task : ToExecute(k)' => ToExecute(k)
  <2>1. /\ UNCHANGED <<todo, queue, item, runs, pc, blocked>>
        /\ pointer' = [pointer EXCEPT ![chosen] = item]
    BY <1>9 DEF ProducerHand
  <2>2. \A w \in Worker : pointer'[w] = item \/ pointer'[w] = pointer[w]
    BY <1>0, <2>1
  <2> QED BY <2>1, <2>2 DEF ToExecute, Waiting, Awake
<1>10. ASSUME ProducerSignal
       PROVE  runs' = runs /\ \A k \in Task : ToExecute(k)' => ToExecute(k)
  <2>1. /\ UNCHANGED <<todo, queue, pointer, runs, pc>> /\ item' = NoTask
        /\ blocked' = blocked \ {chosen} /\ ppc = "signal"
    BY <1>10 DEF ProducerSignal
  <2>2. \A w \in Worker : Awake(w)' => Awake(w) \/ w = chosen
    BY <2>1 DEF Awake
  <2>3. pointer[chosen] = item
    BY <2>1 DEF HandInv
  <2>4. \A k \in Task : k # NoTask
    OBVIOUS
  <2> QED BY <2>1, <2>2, <2>3, <2>4 DEF ToExecute, Waiting
<1>11. ASSUME NEW c \in Client, NEW x \in Task, Assign(c, x), UNCHANGED rest
       PROVE  runs' = runs /\ \A k \in Task : ToExecute(k)' => ToExecute(k)
  <2>1. /\ x \in todo /\ todo' \subseteq todo /\ queue' = Append(queue, x)
        /\ UNCHANGED <<item, pointer, runs, pc, blocked>>
    BY <1>11 DEF Assign
  <2>2. \A k \in Task : Waiting(k)' => Waiting(k) \/ k = x
    <3>1. /\ Len(queue') = Len(queue) + 1 /\ Len(queue) \in Nat /\ queue'[Len(queue) + 1] = x
          /\ \A i \in 1 .. Len(queue) : queue'[i] = queue[i]
      BY <1>0, <2>1, AppendIs
    <3>2. \A i \in 1 .. Len(queue') : i \in 1 .. Len(queue) \/ i = Len(queue) + 1
      BY <3>1
    <3> QED BY <3>1, <3>2 DEF Waiting
  <2> QED BY <2>1, <2>2 DEF ToExecute, Awake
<1>12. ASSUME NEW c \in Client, GrowLock(c) \/ GrowStep(c)
       PROVE  runs' = runs /\ \A k \in Task : ToExecute(k)' => ToExecute(k)
  <2>1. UNCHANGED <<todo, queue, item, pointer, runs, blocked>>
    BY <1>12 DEF GrowLock, GrowStep, OfferNew, CountOpen, LockToGrow, LookToGrow, LookAtWaiters,
                 LookAtOpen, CreateWorker, LeaveOpen
  <2>2. \A w \in Worker : pc'[w] = pc[w] \/ pc'[w] = "enter"
    BY <1>0, <1>12 DEF GrowLock, GrowStep, OfferNew, CountOpen, LockToGrow, LookToGrow,
                       LookAtWaiters, LookAtOpen, CreateWorker, LeaveOpen
  <2>3. \A w \in Worker : Awake(w)' => Awake(w)
    BY <2>1, <2>2 DEF Awake
  <2> QED BY <2>1, <2>3 DEF ToExecute, Waiting
<1>13. ASSUME UNCHANGED consumerVars
       PROVE  runs' = runs /\ \A k \in Task : ToExecute(k)' => ToExecute(k)
  BY <1>13 DEF consumerVars, ToExecute, Waiting, Awake
<1> QED BY <1>1, <1>4, <1>5, <1>6, <1>7, <1>8, <1>9, <1>10, <1>11, <1>12, <1>13
        DEF ConsumersNext, ConsumerStep, ProducerStep

-----------------------------------------------------------------------------

IInv == ConsumersTypeOK /\ GrowInv /\ HandInv /\ OfferInv /\ FreshInv

LEMMA InitIInv == ConsumersInit => IInv
<1> SUFFICES ASSUME ConsumersInit PROVE IInv
  OBVIOUS
<1>1. ConsumersTypeOK /\ GrowInv
  BY InitTypes
<1> USE DEF ConsumersInit, ThreadPoolInit
<1>2. HandInv
  BY DEF HandInv, Waiting
<1>3. \A w \in Worker : ~AtWork(w)
  BY DEF AtWork, Awake
<1>4. OfferInv
  <2>1. Len(consumerQueue) = MinOpen /\ \A i \in 1 .. MinOpen : consumerQueue[i] = i - 1
    OBVIOUS
  <2>2. \A i \in 1 .. MinOpen : i - 1 \in Worker /\ i - 1 < MinOpen
    BY DEF Worker
  <2>3. \A w \in Worker : ~Handing(w) /\ (Offered(w) => Known(w))
    BY <2>1, <2>2 DEF Handing, Offered, Known
  <2>4. \A i, j \in 1 .. Len(consumerQueue) : consumerQueue[i] = consumerQueue[j] => i = j
    BY <2>1
  <2> QED BY <1>3, <2>3, <2>4 DEF OfferInv, OfferedInv
<1>5. FreshInv
  BY DEF FreshInv
<1> QED BY <1>1, <1>2, <1>4, <1>5 DEF IInv

(* The hand-over of a task keeps the inductive invariant: the producer, the*)
(* consumers and assign of frl_util_threads.cpp in any order.              *)
THEOREM Invariance == ConsumersSpec => []IInv
<1>1. IInv /\ [ConsumersNext]_consumerVars => IInv'
  BY NextKeepsTypes, NextKeepsHand, NextKeepsOffers, NextKeepsFresh DEF IInv
<1> QED BY <1>1, InitIInv, PTL DEF ConsumersSpec

(* assign opens consumers one by one below max (lines 122-141).            *)
THEOREM OpensEachConsumerOnce == ConsumersSpec => []OpenExact
<1>1. IInv => OpenExact
  BY DEF IInv, GrowInv
<1> QED BY <1>1, Invariance, PTL

(* A set with at most one element.                                         *)
LEMMA OneAtMost ==
  ASSUME NEW S, \A x, y \in S : x = y
  PROVE  Cardinality(S) = IF S = {} THEN 0 ELSE 1
<1>1. CASE S = {}
  BY <1>1, FS_EmptySet
<1>2. CASE S # {}
  <2>1. PICK x \in S : S = {x}
    BY <1>2
  <2> QED BY <1>2, <2>1, FS_Singleton
<1> QED BY <1>1, <1>2

(* The producer hands a task to one consumer at most, however the          *)
(* consumers were woken.                                                   *)
THEOREM HandsOnce == ConsumersSpec => []HandedOnce
<1>1. IInv => HandedOnce
  <2> SUFFICES ASSUME IInv, NEW k \in Task \ {NullTask}
               PROVE  Queued(k) + (IF item = k /\ ppc # "signal" THEN 1 ELSE 0)
                        + Cardinality({w \in Worker : pointer[w] = k})
                      <= IF k \in todo THEN 0 ELSE 1
    BY DEF HandedOnce
  <2> DEFINE Q == {i \in 1 .. Len(queue) : queue[i] = k}
             W == {w \in Worker : pointer[w] = k}
  <2>1. HandInv /\ k # NoTask /\ ppc \in {"pop", "take", "hand", "signal"}
    BY DEF IInv, ConsumersTypeOK
  <2>2. /\ \A i, j \in Q : i = j
        /\ \A v, w \in W : v = w
        /\ Q # {} <=> Waiting(k)
    BY <2>1 DEF HandInv, Waiting
  <2>3. /\ Waiting(k) => k \notin todo /\ W = {}
        /\ W # {} => k \notin todo /\ ~Waiting(k)
        /\ item = k /\ ppc # "signal" => k \notin todo /\ ~Waiting(k) /\ W = {}
    BY <2>1 DEF HandInv
  <2>4. Queued(k) = Cardinality(Q)
    BY DEF Queued
  <2> HIDE DEF Q
  <2>5. Cardinality(Q) = IF Q = {} THEN 0 ELSE 1
    BY <2>2, OneAtMost
  <2>6. Cardinality(W) = IF W = {} THEN 0 ELSE 1
    <3> HIDE DEF W
    <3> QED BY <2>2, OneAtMost
  <2> QED BY <2>2, <2>3, <2>4, <2>5, <2>6
<1> QED BY <1>1, Invariance, PTL

(* Without spurious wakeups no consumer is offered twice, and the producer *)
(* never writes the pointer of one that is at work.                        *)
THEOREM OffersOnce == ConsumersSpec => []OfferedOnce
<1>1. IInv => OfferedOnce
  <2> SUFFICES ASSUME IInv, spurious = 0, NEW w \in Worker
               PROVE  /\ Idle(w) <= 1
                      /\ Idle(w) = 1 => ~Handing(w)
                      /\ Idle(w) = 1 \/ Handing(w) => ~Awake(w) /\ pc[w] # "requeue"
    BY DEF OfferedOnce, IInv
  <2> DEFINE I == {i \in 1 .. Len(consumerQueue) : consumerQueue[i] = w}
  <2>1. OfferedInv
    BY DEF IInv, OfferInv
  <2>2. \A i, j \in I : i = j
    BY <2>1 DEF OfferedInv
  <2>3. I # {} => ~AtWork(w) /\ ~Handing(w)
    BY <2>1 DEF OfferedInv, Offered
  <2>4. Handing(w) => ~AtWork(w)
    BY <2>1 DEF OfferedInv
  <2>5. Idle(w) = Cardinality(I)
    BY DEF Idle
  <2> HIDE DEF I
  <2>6. Cardinality(I) = IF I = {} THEN 0 ELSE 1
    BY <2>2, OneAtMost
  <2> QED BY <2>3, <2>4, <2>5, <2>6 DEF AtWork
<1> QED BY <1>1, Invariance, PTL

(* Without spurious wakeups a task is executed once at most, although a    *)
(* consumer never clears its pointer.                                      *)
THEOREM ExecutesOnce == ConsumersSpec => []AtMostOnce
<1>1. IInv => AtMostOnce
  BY DEF IInv, FreshInv, AtMostOnce
<1> QED BY <1>1, Invariance, PTL
===============================================================================
