---------------------------- MODULE QueueLockWith ----------------------------
(***************************************************************************)
(* frl_queue created with FRL_LOCK_WITH: a linked list with a dummy entry  *)
(* at its head, under one mutex and one condition variable.  Entries come  *)
(* from a slab pool, of which only the promise matters here: palloc gives  *)
(* an entry nobody else has, or NULL.                                      *)
(***************************************************************************)
EXTENDS Naturals, FiniteSets, Sequences

CONSTANTS
  Pusher,     (* threads that push                                         *)
  Popper,     (* threads that pop                                          *)
  PushOps,    (* which of "push", "trypush" the pushers call               *)
  PopOps,     (* which of "pop", "trypop" the poppers call                 *)
  Value,      (* the pointers they pass on                                 *)
  Node,       (* the entries the pool can provide                          *)
  Null,       (* the NULL pointer                                          *)
  NoThread

Thread == Pusher \cup Popper

ASSUME QueueAssumption ==
  /\ PushOps \subseteq {"push", "trypush"}
  /\ PopOps \subseteq {"pop", "trypop"}
  /\ Null \notin Node \cup Value
  /\ NoThread \notin Thread
  /\ Node # {} /\ Value # {}
  /\ IsFiniteSet(Node) /\ IsFiniteSet(Thread)

VARIABLES
  head,          (* queue->head: the dummy entry                           *)
  tail,          (* queue->tail                                            *)
  nxt,           (* entry->next                                            *)
  val,           (* entry->pointer                                         *)
  free,          (* the entries in the pool                                *)
  nelts,         (* queue->nelts                                           *)
  emptyWaiters,  (* queue->empty_waiters                                   *)
  waiting,       (* the threads blocked on queue->not_empty                *)
  mutex,         (* the thread that holds queue->mutex, or NoThread        *)
  destroyed,     (* queue->destroyed                                       *)
  pc,            (* where each thread stands; "idle" is outside the queue  *)
  op,            (* the function it is in                                  *)
  arg,           (* the value it pushes                                    *)
  elts,          (* local elts of push                                     *)
  res            (* what its last call returned                            *)

listVars == <<head, tail, nxt, val, free, nelts>>
condVars == <<emptyWaiters, waiting, destroyed>>
callVars == <<op, arg, elts, res>>
vars == <<listVars, condVars, mutex, pc, callVars>>

(* create takes the dummy from a fresh pool, whichever entry that is.      *)
Init ==
  /\ head = (CHOOSE n \in Node : TRUE) /\ tail = head
  /\ nxt = [n \in Node |-> Null]
  /\ val = [n \in Node |-> Null]
  /\ free = Node \ {head}
  /\ nelts = 0
  /\ emptyWaiters = 0 /\ waiting = {} /\ destroyed = FALSE
  /\ mutex = NoThread
  /\ pc = [t \in Thread |-> "idle"]
  /\ op = [t \in Thread |-> "none"]
  /\ arg = [t \in Thread |-> Null]
  /\ elts = [t \in Thread |-> Null]
  /\ res = [t \in Thread |-> Null]

-----------------------------------------------------------------------------

CallPush(t) ==
  /\ t \in Pusher /\ pc[t] = "idle" /\ ~destroyed
  /\ pc' = [pc EXCEPT ![t] = "lock"]
  /\ \E o \in PushOps : op' = [op EXCEPT ![t] = o]
  /\ \E v \in Value : arg' = [arg EXCEPT ![t] = v]
  /\ UNCHANGED <<listVars, condVars, mutex, elts, res>>

CallPop(t) ==
  /\ t \in Popper /\ pc[t] = "idle" /\ ~destroyed
  /\ pc' = [pc EXCEPT ![t] = "lock"]
  /\ \E o \in PopOps : op' = [op EXCEPT ![t] = o]
  /\ UNCHANGED <<listVars, condVars, mutex, arg, elts, res>>

(* The call of t returns r; its locals are gone.                           *)
Return(t, r) ==
  /\ pc' = [pc EXCEPT ![t] = "idle"]
  /\ op' = [op EXCEPT ![t] = "none"]
  /\ arg' = [arg EXCEPT ![t] = Null]
  /\ elts' = [elts EXCEPT ![t] = Null]
  /\ res' = [res EXCEPT ![t] = r]

Lock(t) ==
  /\ pc[t] = "lock" /\ mutex = NoThread
  /\ mutex' = t
  /\ pc' = [pc EXCEPT ![t] = IF op[t] \in PushOps THEN "alloc" ELSE "look"]
  /\ UNCHANGED <<listVars, condVars, callVars>>

(* push and trypush get an entry and fill it.                              *)
PushAlloc(t) ==
  /\ pc[t] = "alloc"
  /\ \E n \in free :
       /\ free' = free \ {n}
       /\ nxt' = [nxt EXCEPT ![n] = Null]
       /\ val' = [val EXCEPT ![n] = arg[t]]
       /\ elts' = [elts EXCEPT ![t] = n]
  /\ pc' = [pc EXCEPT ![t] = "append"]
  /\ UNCHANGED <<head, tail, nelts, condVars, mutex, op, arg, res>>

(* APR_ENOMEM.                                                             *)
PushNoMem(t) ==
  /\ pc[t] = "alloc" /\ free = {}
  /\ mutex' = NoThread
  /\ Return(t, Null)
  /\ UNCHANGED <<listVars, condVars>>

(* Mutant: signals only for the first value in an empty queue.             *)
SignalNotEmpty_First(t) ==
  IF op[t] = "push" /\ nelts = 0 /\ waiting # {}
  THEN \E w \in waiting : waiting' = waiting \ {w}
  ELSE UNCHANGED waiting

(* Mutant: does not signal.                                                *)
SignalNotEmpty_Never(t) == UNCHANGED waiting

(* push signals not_empty if it sees a waiter; trypush does not signal.    *)
SignalNotEmpty(t) ==
  IF op[t] = "push" /\ emptyWaiters > 0 /\ waiting # {}
  THEN \E w \in waiting : waiting' = waiting \ {w}
  ELSE UNCHANGED waiting

(* The entry goes behind the tail; push, but not trypush, signals.         *)
PushAppend(t) ==
  /\ pc[t] = "append"
  /\ nxt' = [nxt EXCEPT ![tail] = elts[t]]
  /\ tail' = elts[t]
  /\ nelts' = nelts + 1
  /\ SignalNotEmpty(t)
  /\ mutex' = NoThread
  /\ Return(t, arg[t])
  /\ UNCHANGED <<head, val, free, emptyWaiters, destroyed>>

(* Mutant: frees the entry that becomes the dummy.                         *)
Unlink_FreesNew == head' = nxt[head] /\ free' = free \cup {nxt[head]}

(* The first entry behind the dummy becomes the dummy.                     *)
Unlink == head' = nxt[head] /\ free' = free \cup {head}

(* Mutant: the value in the dummy.                                         *)
FirstValue_Dummy == val[head]

FirstValue == val[nxt[head]]

(* The value is in the entry behind the dummy, which becomes the dummy.    *)
PopTake(t) ==
  /\ pc[t] = "look" /\ head # tail
  /\ Unlink
  /\ nelts' = nelts - 1
  /\ mutex' = NoThread
  /\ Return(t, FirstValue)
  /\ UNCHANGED <<tail, nxt, val, condVars>>

(* An empty queue: pop counts itself, lets go of the mutex and sleeps.     *)
PopWait(t) ==
  /\ pc[t] = "look" /\ op[t] = "pop" /\ head = tail
  /\ emptyWaiters' = emptyWaiters + 1
  /\ waiting' = waiting \cup {t}
  /\ mutex' = NoThread
  /\ pc' = [pc EXCEPT ![t] = "wait"]
  /\ UNCHANGED <<listVars, destroyed, callVars>>

TryPopEmpty(t) ==
  /\ pc[t] = "look" /\ op[t] = "trypop" /\ head = tail
  /\ mutex' = NoThread
  /\ Return(t, Null)
  /\ UNCHANGED <<listVars, condVars>>

(* A thread that is no longer blocked returns from the wait with the mutex *)
(* and looks again, or gives up: then it returns with the mutex held.      *)
PopWake(t) ==
  /\ pc[t] = "wait" /\ t \notin waiting /\ mutex = NoThread
  /\ mutex' = t
  /\ emptyWaiters' = emptyWaiters - 1
  /\ IF destroyed
     THEN Return(t, Null)
     ELSE pc' = [pc EXCEPT ![t] = "look"] /\ UNCHANGED callVars
  /\ UNCHANGED <<listVars, waiting, destroyed>>

(* A condition variable may let a thread go without a signal.              *)
SpuriousWake(t) ==
  /\ t \in waiting
  /\ waiting' = waiting \ {t}
  /\ UNCHANGED <<listVars, emptyWaiters, destroyed, mutex, pc, callVars>>

(* Called when no thread is inside, unless it waits in pop.  The waiters   *)
(* find the freed queue as it was left.                                    *)
Destroy ==
  /\ ~destroyed /\ \A t \in Thread : pc[t] \in {"idle", "wait"}
  /\ destroyed' = TRUE
  /\ waiting' = {}
  /\ UNCHANGED <<listVars, emptyWaiters, mutex, pc, callVars>>

Call(t) == CallPush(t) \/ CallPop(t)
Acquire(t) == Lock(t) \/ PopWake(t)
Step(t) ==
  \/ PushAlloc(t) \/ PushNoMem(t) \/ PushAppend(t)
  \/ PopTake(t) \/ PopWait(t) \/ TryPopEmpty(t)

Next ==
  \/ \E t \in Thread : Call(t) \/ Acquire(t) \/ Step(t) \/ SpuriousWake(t)
  \/ Destroy

Spec == Init /\ [][Next]_vars

(* A thread inside the queue keeps running, and the mutex is handed to     *)
(* every thread that keeps asking for it.                                  *)
Fairness == \A t \in Thread : SF_vars(Acquire(t)) /\ WF_vars(Step(t))
FairSpec == Spec /\ Fairness

-----------------------------------------------------------------------------

(* The i-th entry behind the dummy.                                        *)
Walk ==
  LET walk[i \in 0 .. Cardinality(Node)] ==
        IF i = 0 THEN head
        ELSE IF walk[i - 1] = Null THEN Null ELSE nxt[walk[i - 1]]
  IN  walk

(* How many entries lie between head and tail.                             *)
Length == CHOOSE n \in 0 .. Cardinality(Node) :
            Walk[n] = tail /\ \A m \in 0 .. n - 1 : Walk[m] # tail

Contents == [i \in 1 .. Length |-> val[Walk[i]]]

(* Every variable keeps its type.                                          *)
TypeOK ==
  /\ head \in Node /\ tail \in Node
  /\ nxt \in [Node -> Node \cup {Null}]
  /\ val \in [Node -> Value \cup {Null}]
  /\ free \subseteq Node
  /\ nelts \in Nat /\ emptyWaiters \in Nat
  /\ waiting \subseteq Popper
  /\ mutex \in Thread \cup {NoThread}
  /\ destroyed \in BOOLEAN
  /\ pc \in [Thread -> {"idle", "lock", "alloc", "append", "look", "wait"}]
  /\ op \in [Thread -> PushOps \cup PopOps \cup {"none"}]
  /\ arg \in [Thread -> Value \cup {Null}]
  /\ elts \in [Thread -> Node \cup {Null}]
  /\ res \in [Thread -> Value \cup {Null}]

(* Every variable keeps its type; each entry is in the pool, in the list,  *)
(* or in the hands of one thread that is about to append it, and nelts     *)
(* counts the list.                                                        *)
NodesAccounted ==
  LET listed == {Walk[i] : i \in 0 .. Length}
      inHand == {elts[t] : t \in {u \in Thread : pc[u] = "append"}}
  IN  /\ TypeOK
      /\ free \cup listed \cup inHand = Node
      /\ Cardinality(free) + Cardinality(listed) + Cardinality(inHand) = Cardinality(Node)
      /\ nelts = Length

(* Threads that will take a value if they find one, without being woken.   *)
Awake == {t \in Popper : op[t] \in PopOps /\ t \notin waiting}

(* While a pop sleeps, every value in the queue has a pop awake to take    *)
(* it: no signal was lost.                                                 *)
NoLostWakeup == waiting # {} => nelts <= Cardinality(Awake)

(* A pop that is under way while there is a value in the queue returns,    *)
(* unless other pops empty the queue first or it is destroyed.             *)
PopReturns == \A t \in Popper :
  op[t] = "pop" /\ nelts > 0 ~> op[t] = "none" \/ nelts = 0 \/ destroyed

(* The list behaves as the queue of Fifo.                                  *)
Abstract == INSTANCE Fifo WITH q <- Contents, closed <- destroyed
ImplementsFifo == Abstract!Spec

=============================================================================
