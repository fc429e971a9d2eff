---------------------------- MODULE QueueLockFree ----------------------------
(***************************************************************************)
(* frl_queue created with FRL_LOCK_FREE: the same list with a dummy entry, *)
(* worked on with compare-and-swap.  Each access to head, to tail and to   *)
(* entry->next is a step of its own.  tail may lag behind the last entry,  *)
(* and whoever notices helps it on.  An entry goes back to the slab pool   *)
(* when it is popped and may be pushed again while other threads still     *)
(* hold a pointer to it; from then on, nothing protects the list, and      *)
(* reused remembers that.  The mutex only serves the wait: nobody else     *)
(* takes it, so to lock it and to wait are one step.                       *)
(***************************************************************************)
EXTENDS Integers, FiniteSets, Sequences

CONSTANTS
  Thread,
  Crews,     (* the sets of threads that may push and pop during one period *)
  PushOps, PopOps, Value, Node, Null

ASSUME QueueAssumption ==
  /\ Crews \subseteq [push : SUBSET Thread, pop : SUBSET Thread] /\ Crews # {}
  /\ PushOps \subseteq {"push", "trypush"}
  /\ PopOps \subseteq {"pop", "trypop"}
  /\ Null \notin Node \cup Value
  /\ Node # {} /\ IsFiniteSet(Node) /\ IsFiniteSet(Thread) /\ Value # {}

VARIABLES
  head, tail,    (* queue->head, queue->tail                               *)
  nxt, val,      (* entry->next, entry->pointer                            *)
  free,          (* the entries in the pool                                *)
  nelts,         (* queue->nelts                                           *)
  emptyWaiters,  (* queue->empty_waiters                                   *)
  waiting,       (* the threads blocked on queue->not_empty                *)
  destroyed,     (* queue->destroyed                                       *)
  crew,          (* the threads that push, those that pop, at this time    *)
  pc, op, arg,   (* where each thread stands, in which call, with what     *)
  elts,          (* local elts of push                                     *)
  hd, tl, nx,    (* local head, tail and next; nx is also push's swap      *)
  res,           (* what the last call of each thread returned             *)
  reused         (* history: an entry was pushed again under a pointer     *)

listVars == <<head, tail, nxt, val, free, nelts>>
condVars == <<emptyWaiters, waiting, destroyed, crew>>
callVars == <<op, arg, elts, res>>
readVars == <<hd, tl, nx>>
vars == <<listVars, condVars, pc, callVars, readVars, reused>>

Init ==
  /\ head \in Node /\ tail = head
  /\ nxt = [n \in Node |-> Null] /\ val = [n \in Node |-> Null]
  /\ free = Node \ {head} /\ nelts = 0
  /\ emptyWaiters = 0 /\ waiting = {} /\ destroyed = FALSE
  /\ crew \in Crews
  /\ pc = [t \in Thread |-> "idle"] /\ op = [t \in Thread |-> "none"]
  /\ arg = [t \in Thread |-> Null] /\ elts = [t \in Thread |-> Null]
  /\ hd = [t \in Thread |-> Null] /\ tl = [t \in Thread |-> Null]
  /\ nx = [t \in Thread |-> Null] /\ res = [t \in Thread |-> Null]
  /\ reused = FALSE

-----------------------------------------------------------------------------

Goto(t, where) == pc' = [pc EXCEPT ![t] = where]

CallPush(t) ==
  /\ t \in crew.push /\ pc[t] = "idle" /\ ~destroyed
  /\ Goto(t, "alloc")
  /\ \E o \in PushOps : op' = [op EXCEPT ![t] = o]
  /\ \E v \in Value : arg' = [arg EXCEPT ![t] = v]
  /\ UNCHANGED <<listVars, condVars, elts, res, readVars, reused>>

CallPop(t) ==
  /\ t \in crew.pop /\ pc[t] = "idle" /\ ~destroyed
  /\ Goto(t, "read")
  /\ \E o \in PopOps : op' = [op EXCEPT ![t] = o]
  /\ UNCHANGED <<listVars, condVars, arg, elts, res, readVars, reused>>

(* The call of t returns r; its locals are gone.                           *)
Return(t, r) ==
  /\ Goto(t, "idle")
  /\ op' = [op EXCEPT ![t] = "none"]
  /\ arg' = [arg EXCEPT ![t] = Null] /\ elts' = [elts EXCEPT ![t] = Null]
  /\ hd' = [hd EXCEPT ![t] = Null] /\ tl' = [tl EXCEPT ![t] = Null]
  /\ nx' = [nx EXCEPT ![t] = Null] /\ res' = [res EXCEPT ![t] = r]

(* The entry whose fields u goes on to use or to compare by address.       *)
Refs(u) ==
  CASE pc[u] \in {"link", "help", "swing"} -> {tl[u]}
    [] pc[u] \in {"readtail", "readnext", "helptail", "claim"} -> {hd[u]}
    [] pc[u] = "load" -> {nx[u]}
    [] OTHER -> {}

(* An entry from the pool is filled, even if somebody still refers to it.  *)
PushAlloc(t) ==
  /\ pc[t] = "alloc"
  /\ \E n \in free :
       /\ free' = free \ {n}
       /\ reused' = (reused \/ \E u \in Thread : n \in Refs(u))
       /\ nxt' = [nxt EXCEPT ![n] = Null]
       /\ val' = [val EXCEPT ![n] = arg[t]]
       /\ elts' = [elts EXCEPT ![t] = n]
  /\ Goto(t, "tail")
  /\ UNCHANGED <<head, tail, nelts, condVars, op, arg, res, readVars>>

(* APR_ENOMEM.                                                             *)
PushNoMem(t) ==
  /\ pc[t] = "alloc" /\ free = {}
  /\ Return(t, Null)
  /\ UNCHANGED <<listVars, condVars, reused>>

PushReadTail(t) ==
  /\ pc[t] = "tail"
  /\ tl' = [tl EXCEPT ![t] = tail]
  /\ Goto(t, "link")
  /\ UNCHANGED <<listVars, condVars, callVars, hd, nx, reused>>

(* The entry is linked behind the tail, if that is the last entry.         *)
PushLink(t) ==
  /\ pc[t] = "link" /\ nxt[tl[t]] = Null
  /\ nxt' = [nxt EXCEPT ![tl[t]] = elts[t]]
  /\ Goto(t, "swing")
  /\ UNCHANGED <<head, tail, val, free, nelts, condVars, callVars, readVars, reused>>

PushBehind(t) ==
  /\ pc[t] = "link" /\ nxt[tl[t]] # Null
  /\ nx' = [nx EXCEPT ![t] = nxt[tl[t]]]
  /\ Goto(t, "help")
  /\ UNCHANGED <<listVars, condVars, callVars, hd, tl, reused>>

(* queue->tail after a compare-and-swap from old to new.                   *)
TailSwapped(old, new) == IF tail = old THEN new ELSE tail

PushHelp(t) ==
  /\ pc[t] = "help"
  /\ tail' = TailSwapped(tl[t], nx[t])
  /\ Goto(t, "tail")
  /\ UNCHANGED <<head, nxt, val, free, nelts, condVars, callVars, readVars, reused>>

PushSwing(t) ==
  /\ pc[t] = "swing"
  /\ tail' = TailSwapped(tl[t], elts[t])
  /\ Goto(t, "count")
  /\ UNCHANGED <<head, nxt, val, free, nelts, condVars, callVars, readVars, reused>>

(* push, but not trypush, goes on to look for a thread that waits.         *)
PushCount(t) ==
  /\ pc[t] = "count"
  /\ nelts' = nelts + 1
  /\ IF op[t] = "push"
     THEN Goto(t, "look") /\ UNCHANGED <<callVars, readVars>>
     ELSE Return(t, arg[t])
  /\ UNCHANGED <<head, tail, nxt, val, free, condVars, reused>>

PushLook(t) ==
  /\ pc[t] = "look"
  /\ IF emptyWaiters > 0
     THEN Goto(t, "signal") /\ UNCHANGED <<callVars, readVars>>
     ELSE Return(t, arg[t])
  /\ UNCHANGED <<listVars, condVars, reused>>

(* The signal is sent without the mutex: a thread that has counted itself  *)
(* but does not wait yet misses it.                                        *)
PushSignal(t) ==
  /\ pc[t] = "signal"
  /\ \/ waiting = {} /\ UNCHANGED waiting
     \/ \E w \in waiting : waiting' = waiting \ {w}
  /\ Return(t, arg[t])
  /\ UNCHANGED <<listVars, emptyWaiters, destroyed, crew, reused>>

PopReadHead(t) ==
  /\ pc[t] = "read"
  /\ hd' = [hd EXCEPT ![t] = head]
  /\ Goto(t, "readtail")
  /\ UNCHANGED <<listVars, condVars, callVars, tl, nx, reused>>

PopReadTail(t) ==
  /\ pc[t] = "readtail"
  /\ tl' = [tl EXCEPT ![t] = tail]
  /\ Goto(t, "readnext")
  /\ UNCHANGED <<listVars, condVars, callVars, hd, nx, reused>>

(* Mutant: takes the entry behind head although tail has not passed it.    *)
PopNext_NoHelp(t) == IF nxt[hd[t]] = Null THEN "wait" ELSE "claim"

(* What pop goes on to do.  Behind a stale head it may find nothing; only  *)
(* pop tests that before it claims.                                        *)
PopNext(t) ==
  IF hd[t] = tl[t]
  THEN IF nxt[hd[t]] = Null THEN "wait" ELSE "helptail"
  ELSE IF nxt[hd[t]] = Null /\ op[t] = "pop" THEN "read" ELSE "claim"

(* A thread that follows Null takes no further step: the program is gone.  *)
PopReadNext(t) ==
  /\ pc[t] = "readnext" /\ hd[t] # Null
  /\ op[t] = "pop" \/ PopNext(t) # "wait"
  /\ nx' = [nx EXCEPT ![t] = nxt[hd[t]]]
  /\ Goto(t, PopNext(t))
  /\ UNCHANGED <<listVars, condVars, callVars, hd, tl, reused>>

TryPopEmpty(t) ==
  /\ pc[t] = "readnext" /\ hd[t] # Null
  /\ op[t] = "trypop" /\ PopNext(t) = "wait"
  /\ Return(t, Null)
  /\ UNCHANGED <<listVars, condVars, reused>>

PopHelp(t) ==
  /\ pc[t] = "helptail"
  /\ tail' = TailSwapped(tl[t], nx[t])
  /\ Goto(t, "read")
  /\ UNCHANGED <<head, nxt, val, free, nelts, condVars, callVars, readVars, reused>>

(* The entry behind the dummy becomes the dummy.                           *)
PopClaim(t) ==
  /\ pc[t] = "claim"
  /\ IF head = hd[t]
     THEN head' = nx[t] /\ Goto(t, "load")
     ELSE UNCHANGED head /\ Goto(t, "read")
  /\ UNCHANGED <<tail, nxt, val, free, nelts, condVars, callVars, readVars, reused>>

(* Mutant: the value of the dummy.                                         *)
Loaded_Dummy(t) == val[hd[t]]

(* The value that pop returns: the one of the entry behind the old dummy.  *)
Loaded(t) == val[nx[t]]

(* The value is read after the claim; res keeps it until the return.       *)
PopLoad(t) ==
  /\ pc[t] = "load" /\ nx[t] # Null
  /\ res' = [res EXCEPT ![t] = Loaded(t)]
  /\ Goto(t, "release")
  /\ UNCHANGED <<listVars, condVars, op, arg, elts, readVars, reused>>

(* Mutant: frees the entry that has become the dummy.                      *)
Retired_New(t) == nx[t]

(* The entry that pop gives back to the pool.                              *)
Retired(t) == hd[t]

PopRelease(t) ==
  /\ pc[t] = "release"
  /\ free' = free \cup {Retired(t)}
  /\ nelts' = nelts - 1
  /\ Return(t, res[t])
  /\ UNCHANGED <<head, tail, nxt, val, condVars, reused>>

(* An empty queue: pop counts itself and waits, without another look.      *)
PopCountWaiter(t) ==
  /\ pc[t] = "wait"
  /\ emptyWaiters' = emptyWaiters + 1
  /\ Goto(t, "sleep")
  /\ UNCHANGED <<listVars, waiting, destroyed, crew, callVars, readVars, reused>>

PopSleep(t) ==
  /\ pc[t] = "sleep"
  /\ waiting' = waiting \cup {t}
  /\ Goto(t, "asleep")
  /\ UNCHANGED <<listVars, emptyWaiters, destroyed, crew, callVars, readVars, reused>>

(* A thread that was woken tries again, or returns from a queue that is    *)
(* being destroyed.                                                        *)
PopWake(t) ==
  /\ pc[t] = "asleep" /\ t \notin waiting
  /\ emptyWaiters' = emptyWaiters - 1
  /\ IF destroyed THEN Return(t, Null) ELSE Goto(t, "read") /\ UNCHANGED <<callVars, readVars>>
  /\ UNCHANGED <<listVars, waiting, destroyed, crew, reused>>

(* A condition variable may let a thread go without a signal.              *)
SpuriousWake(t) ==
  /\ t \in waiting
  /\ waiting' = waiting \ {t}
  /\ UNCHANGED <<listVars, emptyWaiters, destroyed, crew, pc, callVars, readVars, reused>>

(* Called when no thread is inside, unless it is blocked in pop.           *)
Destroy ==
  /\ ~destroyed /\ \A t \in Thread : pc[t] \in {"idle", "asleep"}
  /\ destroyed' = TRUE
  /\ waiting' = {}
  /\ UNCHANGED <<listVars, emptyWaiters, crew, pc, callVars, readVars, reused>>

Push(t) ==
  \/ CallPush(t) \/ PushAlloc(t) \/ PushNoMem(t) \/ PushReadTail(t) \/ PushLink(t)
  \/ PushBehind(t) \/ PushHelp(t) \/ PushSwing(t) \/ PushCount(t)
  \/ PushLook(t) \/ PushSignal(t)
Pop(t) ==
  \/ CallPop(t) \/ PopReadHead(t) \/ PopReadTail(t) \/ PopReadNext(t) \/ TryPopEmpty(t)
  \/ PopHelp(t) \/ PopClaim(t) \/ PopLoad(t) \/ PopRelease(t)
  \/ PopCountWaiter(t) \/ PopSleep(t) \/ PopWake(t) \/ SpuriousWake(t)

(* The clients hand the queue over to other threads while it is at rest.   *)
Regroup ==
  /\ \A t \in Thread : pc[t] = "idle"
  /\ crew' \in Crews \ {crew}
  /\ UNCHANGED <<listVars, emptyWaiters, waiting, destroyed, pc, callVars, readVars, reused>>

Next == (\E t \in Thread : Push(t) \/ Pop(t)) \/ Destroy \/ Regroup

Spec == Init /\ [][Next]_vars

-----------------------------------------------------------------------------

(* Nobody pops, nobody pushes, or one thread does each.                    *)
Fits(c) ==
  \/ c.push = {} \/ c.pop = {}
  \/ /\ \A t, u \in c.push : t = u
     /\ \A t, u \in c.pop : t = u

(* The entries from head on, as far as they are linked.                    *)
Walk ==
  LET walk[i \in 0 .. Cardinality(Node)] ==
        IF i = 0 THEN head
        ELSE IF walk[i - 1] = Null THEN Null ELSE nxt[walk[i - 1]]
  IN  walk

Listed == {Walk[i] : i \in 0 .. Cardinality(Node)} \ {Null}
Contents == [i \in 1 .. Cardinality(Listed) - 1 |-> val[Walk[i]]]

(* Every variable keeps its type.                                          *)
TypeOK ==
  /\ {head, tail} \subseteq Node \cup {Null}
  /\ nxt \in [Node -> Node \cup {Null}] /\ val \in [Node -> Value \cup {Null}]
  /\ free \subseteq Node
  /\ nelts \in Int /\ emptyWaiters \in Nat
  /\ waiting \subseteq Thread /\ crew \in Crews
  /\ {destroyed, reused} \subseteq BOOLEAN
  /\ op \in [Thread -> PushOps \cup PopOps \cup {"none"}]
  /\ \A t \in Thread : {arg[t], res[t]} \subseteq Value \cup {Null}
  /\ \A t \in Thread : {elts[t], hd[t], tl[t], nx[t]} \subseteq Node \cup {Null}

(* Each entry is in the pool, in the list, or in the hands of one thread:  *)
(* one that is about to link it, or one that has just unlinked it.         *)
EachEntryOnce ==
  LET linking == {t \in Thread : pc[t] \in {"tail", "link", "help"}}
      retiring == {t \in Thread : pc[t] \in {"load", "release"}}
      inHand == {elts[t] : t \in linking} \cup {hd[t] : t \in retiring}
  IN  /\ free \cup Listed \cup inHand = Node
      /\ Cardinality(free) + Cardinality(Listed) + Cardinality(linking)
           + Cardinality(retiring) = Cardinality(Node)

(* Every variable keeps its type; and push, pop, trypush and trypop lose   *)
(* no entry and free none that is still linked, for any number of threads  *)
(* on each side, until push is given an entry that a thread refers to.     *)
NodesAccounted == TypeOK /\ (reused \/ EachEntryOnce)

(* Until then tail never leaves the list and lags behind the last entry by *)
(* one at most, so that a push never links its entry behind a free one.    *)
TailListed ==
  reused \/ (tail \in Listed /\ (nxt[tail] # Null => nxt[nxt[tail]] = Null))

(* The pool hands out no entry that a thread refers to while nobody pops,  *)
(* nobody pushes, or one thread does each: it takes two pushers and a      *)
(* popper, or two poppers and a pusher.                                    *)
ReusedOnlyCrowded == [][~reused /\ reused' => ~Fits(crew)]_vars

(* A push takes effect when it links its entry, a pop when it claims the   *)
(* head: the calls behave as those of the queue of Fifo.                   *)
Effective(t) == pc[t] \in {"swing", "count", "look", "signal", "load", "release"}
Abstract == INSTANCE Fifo WITH
  q <- Contents,
  closed <- destroyed,
  op <- [t \in Thread |-> IF Effective(t) THEN "none" ELSE op[t]],
  arg <- [t \in Thread |-> IF Effective(t) THEN Null ELSE arg[t]],
  res <- [t \in Thread |-> CASE pc[t] \in {"swing", "count", "look", "signal"} -> arg[t]
                             [] pc[t] = "load" -> val[nx[t]]
                             [] OTHER -> res[t]]

(* The calls of any number of pushers and poppers behave as those of Fifo  *)
(* as long as no entry is pushed again under a pointer to it.              *)
ImplementsFifo ==
  Abstract!Init /\ [][reused' \/ Abstract!Next]_(Abstract!fifoVars)

=============================================================================
