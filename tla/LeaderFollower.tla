---------------------------- MODULE LeaderFollower ----------------------------
(***************************************************************************)
(* frl_threads with FRL_THREAD_LEADER_FOLLOWER: one worker, the leader,    *)
(* waits for the next task; it resigns before it executes the task, so     *)
(* that another worker can lead.  The leader is elected under a mutex and  *)
(* a condition variable, but resigns without the mutex.                    *)
(***************************************************************************)
EXTENDS ThreadPool

CONSTANT WaiterMod   (* waiters is unsigned: it wraps at WaiterMod          *)

ASSUME WaiterAssumption == WaiterMod \in Nat /\ MaxOpen < WaiterMod

(* leader->no while nobody leads, and the owner of a free leader->mutex.   *)
None == -1

VARIABLES
  leader,      (* leader->no                                               *)
  leaderMutex, (* the worker that holds leader->mutex, or None             *)
  task         (* local pointer of each worker                             *)

electVars == <<leader, leaderMutex, blocked>>
vars == <<threadPoolVars, electVars, task>>

Init ==
  /\ ThreadPoolInit
  /\ leader = None /\ leaderMutex = None
  /\ task = [w \in Worker |-> NoTask]

-----------------------------------------------------------------------------

(* Become the leader: lock, look whether somebody leads.                   *)
EnterLock(w) ==
  /\ pc[w] = "enter" /\ leaderMutex = None
  /\ leaderMutex' = w
  /\ Goto(w, "test")
  /\ UNCHANGED <<growVars, queue, todo, cpc, doneVars, leader, blocked, task>>

(* Mutant: leads without a look at leader->no.                             *)
Lead_NoTest(w) ==
  /\ pc[w] = "test"
  /\ leader' = w
  /\ leaderMutex' = None
  /\ Goto(w, "pop")
  /\ UNCHANGED <<growVars, queue, todo, cpc, doneVars, blocked, task>>

Lead(w) ==
  /\ pc[w] = "test" /\ leader = None
  /\ leader' = w
  /\ leaderMutex' = None
  /\ Goto(w, "pop")
  /\ UNCHANGED <<growVars, queue, todo, cpc, doneVars, blocked, task>>

(* Somebody leads: go to sleep.  Between this test and the sleep the       *)
(* leader may resign and signal, because it does so without the mutex.     *)
Follow(w) ==
  /\ pc[w] = "test" /\ leader # None
  /\ Goto(w, "sleep")
  /\ UNCHANGED <<growVars, queue, todo, cpc, doneVars, electVars, task>>

Sleep(w) ==
  /\ pc[w] = "sleep"
  /\ blocked' = blocked \cup {w}
  /\ leaderMutex' = None
  /\ Goto(w, "asleep")
  /\ UNCHANGED <<growVars, queue, todo, cpc, doneVars, leader, task>>

SpuriousWake(w) ==
  /\ w \in blocked
  /\ blocked' = blocked \ {w}
  /\ UNCHANGED <<threadPoolVars, leader, leaderMutex, task>>

(* A worker that was woken has the mutex again and tests again.            *)
Wake(w) ==
  /\ pc[w] = "asleep" /\ w \notin blocked /\ leaderMutex = None
  /\ leaderMutex' = w
  /\ Goto(w, "test")
  /\ UNCHANGED <<growVars, queue, todo, cpc, doneVars, leader, blocked, task>>

(* Mutant: leaves the task in the queue.                                   *)
Pop_Peeks(w) ==
  /\ pc[w] = "pop" /\ queue # <<>>
  /\ task' = [task EXCEPT ![w] = Head(queue)]
  /\ Goto(w, "resign")
  /\ UNCHANGED <<growVars, queue, todo, cpc, doneVars, electVars>>

(* The leader waits for a message.                                         *)
Pop(w) ==
  /\ pc[w] = "pop" /\ queue # <<>>
  /\ queue' = Tail(queue)
  /\ task' = [task EXCEPT ![w] = Head(queue)]
  /\ Goto(w, "resign")
  /\ UNCHANGED <<growVars, todo, cpc, doneVars, electVars>>

(* Mutant: stays the leader while it executes.                             *)
Resign_Stays(w) ==
  /\ pc[w] = "resign"
  /\ Goto(w, "signal")
  /\ UNCHANGED <<growVars, queue, todo, cpc, doneVars, electVars, task>>

Resign(w) ==
  /\ pc[w] = "resign"
  /\ leader' = None
  /\ Goto(w, "signal")
  /\ UNCHANGED <<growVars, queue, todo, cpc, doneVars, leaderMutex, blocked, task>>

Signal(w) ==
  /\ pc[w] = "signal"
  /\ \/ blocked = {} /\ UNCHANGED blocked
     \/ \E f \in blocked : blocked' = blocked \ {f}
  /\ Goto(w, "depart")
  /\ UNCHANGED <<growVars, queue, todo, cpc, doneVars, leader, leaderMutex, task>>

Depart(w) ==
  /\ pc[w] = "depart"
  /\ waiters' = (waiters - 1) % WaiterMod
  /\ Goto(w, "execute")
  /\ UNCHANGED <<open, poolMutex, queue, todo, cpc, doneVars, electVars, task>>

(* A task without a pointer is not executed and counts as failed.          *)
Execute(w) ==
  /\ pc[w] = "execute"
  /\ \/ task[w] # NullTask /\ ExecuteTask(task[w])
     \/ /\ task[w] = NullTask
        /\ outcome' = [outcome EXCEPT ![NullTask] = "failed"] /\ UNCHANGED runs
  /\ task' = [task EXCEPT ![w] = NoTask]
  /\ Goto(w, "back")
  /\ UNCHANGED <<growVars, queue, todo, cpc, electVars>>

(* Mutant: a worker that comes back is not counted.                        *)
Back_Uncounted(w) ==
  /\ pc[w] = "back"
  /\ Goto(w, "enter")
  /\ UNCHANGED <<growVars, queue, todo, cpc, doneVars, electVars, task>>

Back(w) ==
  /\ pc[w] = "back"
  /\ waiters' = (waiters + 1) % WaiterMod
  /\ Goto(w, "enter")
  /\ UNCHANGED <<open, poolMutex, queue, todo, cpc, doneVars, electVars, task>>

WorkerLock(w) == EnterLock(w) \/ Wake(w)
WorkerStep(w) ==
  \/ Lead(w) \/ Follow(w) \/ Sleep(w) \/ Pop(w) \/ Resign(w)
  \/ Signal(w) \/ Depart(w) \/ Back(w)

ClientLock(c) == LockToGrow(c) /\ UNCHANGED <<electVars, task>>
ClientStep(c) ==
  /\ LookToGrow(c) \/ CreateWorker(c) \/ CountOpen(c, "grown") \/ LeaveOpen(c)
  /\ UNCHANGED <<electVars, task>>

(* Every task is done and the workers wait for more.                       *)
Finished == todo = {} /\ (\A k \in Task : outcome[k] # "pending") /\ UNCHANGED vars

Next ==
  \/ \E w \in Worker : WorkerLock(w) \/ WorkerStep(w) \/ Execute(w) \/ SpuriousWake(w)
  \/ \E c \in Client :
       \/ ClientLock(c) \/ ClientStep(c)
       \/ \E k \in Task : Assign(c, k) /\ UNCHANGED <<electVars, task>>
  \/ Finished

Spec == Init /\ [][Next]_vars

(* A thread that can go on does, and the task it executes ends; a mutex is *)
(* handed to whoever keeps asking for it.  Nothing makes a client assign,  *)
(* and no sleep ends by itself.                                            *)
Fairness ==
  /\ \A w \in Worker : SF_vars(WorkerLock(w)) /\ WF_vars(WorkerStep(w) \/ Execute(w))
  /\ \A c \in Client : SF_vars(ClientLock(c)) /\ WF_vars(ClientStep(c))
FairSpec == Spec /\ Fairness

-----------------------------------------------------------------------------

(* Every variable keeps its type.                                          *)
TypeOK ==
  /\ ThreadPoolTypeOK
  /\ waiters < WaiterMod
  /\ leader \in Worker \cup {None} /\ leaderMutex \in Worker \cup {None}
  /\ blocked \subseteq Worker
  /\ pc \in [Worker -> {"unborn", "enter", "test", "sleep", "asleep", "pop", "resign",
                        "signal", "depart", "execute", "back"}]
  /\ task \in [Worker -> Task \cup {NoTask}]

Leading(w) == pc[w] \in {"pop", "resign"}
Electing(w) == pc[w] \in {"test", "sleep"}
Busy == {w \in Worker : pc[w] \in {"execute", "back"}}

(* At most one worker leads: only it waits for the next task.              *)
OneLeader ==
  \A v, w \in Worker : Leading(v) /\ Leading(w) => v = w

(* A worker reads leader->no and decides to lead or to sleep only with     *)
(* leader->mutex, and leader->no names the worker that leads.              *)
LeaderNamed ==
  /\ \A w \in Worker : Leading(w) => leader = w
  /\ \A w \in Worker : Electing(w) => leaderMutex = w

(* Every variable keeps its type, and waiters counts min minus the workers *)
(* that execute, modulo its width: workers opened later are not counted    *)
(* until they execute, so it wraps below 0 when more than min are busy.    *)
WaitersExact ==
  /\ TypeOK
  /\ waiters = (MinOpen - Cardinality(Busy)) % WaiterMod

(* Each task is at one place: not assigned, in the queue, with one worker, *)
(* or done; a task that is done was executed once, if it has a pointer.    *)
EachTaskOnce ==
  \A k \in Task :
    LET places == Queued(k) + Cardinality({w \in Worker : task[w] = k})
    IN  /\ places = IF k \notin todo /\ outcome[k] = "pending" THEN 1 ELSE 0
        /\ k \in todo => outcome[k] = "pending"
        /\ runs[k] = IF outcome[k] = "pending" \/ k = NullTask THEN 0 ELSE 1

=============================================================================
