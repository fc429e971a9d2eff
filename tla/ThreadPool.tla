------------------------------ MODULE ThreadPool ------------------------------
(***************************************************************************)
(* frl_threads: what its two thread models share.  Clients assign tasks to *)
(* a queue and open more workers, up to max, when they read that none is   *)
(* waiting.  LeaderFollower and ConsumerProducer add the workers.          *)
(*                                                                         *)
(* The task queue is a frl_queue, taken here as the queue of Fifo: a push  *)
(* and a pop are one step each, and a pop waits until there is a task.     *)
(***************************************************************************)
EXTENDS Integers, FiniteSets, Sequences

CONSTANTS
  MinOpen,    (* min given to spawn                                        *)
  MaxOpen,    (* max given to spawn                                        *)
  Client,     (* the threads that call assign                              *)
  Task,       (* the tasks they assign, each once                          *)
  NullTask,   (* the task whose pointer is NULL, should it be in Task      *)
  NoTask,     (* the pointer of a worker that has none                     *)
  NoClient    (* the owner of frl_threads::mutex while it is free          *)

Worker == 0 .. MaxOpen - 1

ASSUME ThreadsAssumption ==
  /\ MinOpen \in Nat /\ MaxOpen \in Nat \ {0} /\ MinOpen <= MaxOpen
  /\ NoTask \notin Task
  /\ NoClient \notin Client

VARIABLES
  waiters,     (* frl_threads::waiters                                     *)
  open,        (* frl_threads::open                                        *)
  poolMutex,   (* the client that holds frl_threads::mutex, or NoClient    *)
  queue,       (* task_queue                                               *)
  todo,        (* the tasks not assigned yet                               *)
  cpc,         (* where each client stands in assign                       *)
  pc,          (* where each worker stands; "unborn" is not created        *)
  blocked,     (* the workers that wait on leader->select, or a consumer    *)
               (* on its own                                               *)
  runs,        (* how often each task was passed to execute                *)
  outcome      (* "pending", or how thd_stat counts it                     *)

growVars == <<waiters, open, poolMutex>>
doneVars == <<runs, outcome>>
threadPoolVars == <<growVars, queue, todo, cpc, pc, doneVars>>

(* spawn: min workers are created and counted as waiting.                  *)
ThreadPoolInit ==
  /\ waiters = MinOpen /\ open = MinOpen /\ poolMutex = NoClient
  /\ queue = <<>> /\ todo = Task
  /\ cpc = [c \in Client |-> "idle"]
  /\ pc = [w \in Worker |-> IF w < MinOpen THEN "enter" ELSE "unborn"]
  /\ blocked = {}
  /\ runs = [k \in Task |-> 0]
  /\ outcome = [k \in Task |-> "pending"]

-----------------------------------------------------------------------------

Goto(w, where) == pc' = [pc EXCEPT ![w] = where]
ClientGoto(c, where) == cpc' = [cpc EXCEPT ![c] = where]

(* A task is executed and may fail.                                        *)
ExecuteTask(k) ==
  /\ runs' = [runs EXCEPT ![k] = @ + 1]
  /\ \E o \in {"handled", "failed"} : outcome' = [outcome EXCEPT ![k] = o]

(* assign: queue the task, then look, without the mutex, whether to grow.  *)
Assign(c, k) ==
  /\ cpc[c] = "idle" /\ k \in todo
  /\ queue' = Append(queue, k)
  /\ todo' = todo \ {k}
  /\ ClientGoto(c, "look")
  /\ UNCHANGED <<growVars, pc, doneVars>>

LookAtWaiters(c) ==
  /\ cpc[c] = "look"
  /\ ClientGoto(c, IF waiters <= 0 THEN "lookopen" ELSE "idle")
  /\ UNCHANGED <<growVars, queue, todo, pc, doneVars>>

LookAtOpen(c) ==
  /\ cpc[c] = "lookopen"
  /\ ClientGoto(c, IF open < MaxOpen THEN "lock" ELSE "idle")
  /\ UNCHANGED <<growVars, queue, todo, pc, doneVars>>

LookToGrow(c) == LookAtWaiters(c) \/ LookAtOpen(c)

(* Mutant: does not take the mutex.                                        *)
LockToGrow_NoLock(c) ==
  /\ cpc[c] = "lock"
  /\ ClientGoto(c, "recheck")
  /\ UNCHANGED <<growVars, queue, todo, pc, doneVars>>

LockToGrow(c) ==
  /\ cpc[c] = "lock" /\ poolMutex = NoClient
  /\ poolMutex' = c
  /\ ClientGoto(c, "recheck")
  /\ UNCHANGED <<waiters, open, queue, todo, pc, doneVars>>

(* With the mutex open stands still, so one look at both is enough.        *)
MayGrow == waiters <= 0 /\ open < MaxOpen

(* The worker starts before open counts it.                                *)
CreateWorker(c) ==
  /\ cpc[c] = "recheck" /\ MayGrow
  /\ Goto(open, "enter")
  /\ ClientGoto(c, "grown")
  /\ UNCHANGED <<growVars, queue, todo, doneVars>>

(* Open counts the worker, once the client has done what comes before.     *)
CountOpen(c, before) ==
  /\ cpc[c] = before
  /\ open' = open + 1
  /\ poolMutex' = NoClient
  /\ ClientGoto(c, "idle")
  /\ UNCHANGED <<waiters, queue, todo, pc, doneVars>>

LeaveOpen(c) ==
  /\ cpc[c] = "recheck" /\ ~MayGrow
  /\ poolMutex' = NoClient
  /\ ClientGoto(c, "idle")
  /\ UNCHANGED <<waiters, open, queue, todo, pc, doneVars>>

-----------------------------------------------------------------------------

ThreadPoolTypeOK ==
  /\ waiters \in Nat
  /\ open \in MinOpen .. MaxOpen
  /\ poolMutex \in Client \cup {NoClient}
  /\ queue \in Seq(Task)
  /\ todo \subseteq Task
  /\ cpc \in [Client -> {"idle", "look", "lookopen", "lock", "recheck", "grown", "offered"}]
  /\ runs \in [Task -> Nat]
  /\ outcome \in [Task -> {"pending", "handled", "failed"}]

(* The workers below open, and no other, are running, and a client grows   *)
(* the pool with its mutex: no thread_config is ever used twice.           *)
OpenExact ==
  /\ \A c \in Client : cpc[c] \in {"recheck", "grown", "offered"} => poolMutex = c
  /\ \A w \in Worker :
       pc[w] # "unborn" <=>
         w < open \/ (w = open /\ \E c \in Client : cpc[c] \in {"grown", "offered"})

Queued(k) == Cardinality({i \in 1 .. Len(queue) : queue[i] = k})

(* Every task that is assigned is executed, or counted as failed.          *)
TasksHandled == \A k \in Task : k \notin todo ~> outcome[k] # "pending"

=============================================================================
