--------------------------- MODULE SlabPoolLockWith ---------------------------
(***************************************************************************)
(* frl_slab_pool created with FRL_LOCK_WITH: palloc and pfree run under    *)
(* pool->mutex.  What frl_slab_pfree reads of the header (the assertion,   *)
(* mem->block) it reads before it has the mutex.                           *)
(***************************************************************************)
EXTENDS SlabPool

CONSTANT NoThread
ASSUME NoThreadAssumption == NoThread \notin Thread

VARIABLE mutex    (* the thread that holds pool->mutex, or NoThread *)

vars == <<slabVars, mutex>>

Init == SlabInit /\ mutex = NoThread

-----------------------------------------------------------------------------

(* Mutant: does not wait for the mutex.                                    *)
LockMutex_NoWait(t) == mutex' = t

LockMutex(t) == mutex = NoThread /\ mutex' = t

(* palloc takes the mutex and starts its walk at pool->block.              *)
PallocLock(t) ==
  /\ pc[t] = "palloc" /\ LockMutex(t)
  /\ blk' = [blk EXCEPT ![t] = poolBlock]
  /\ last' = [last EXCEPT ![t] = poolBlock]
  /\ pc' = [pc EXCEPT ![t] = "search"]
  /\ UNCHANGED <<poolVars, headerVars, owners, mem>>

(* The block at hand has a chunk: pop it, remember the block, return.      *)
PallocPop(t) ==
  LET b == blk[t]
      c == slot[b][sp[b]]
  IN  /\ pc[t] = "search" /\ sp[b] > 0
      /\ sp' = [sp EXCEPT ![b] = @ - 1]
      /\ WriteHeader(c, b)
      /\ poolBlock' = b
      /\ owners' = [owners EXCEPT ![c] = {t}]
      /\ mutex' = NoThread
      /\ Return(t)
      /\ UNCHANGED <<capacity, next, slot, maxCapacity>>

(* Mutant: stops one block short of the end.                               *)
Closes_Early(b) == next[next[b]] = poolBlock

(* The ring closes behind block b.                                         *)
Closes(b) == next[b] = poolBlock

(* The block at hand is empty: go on along the ring until it closes.       *)
PallocNext(t) ==
  LET b == blk[t]
  IN  /\ pc[t] = "search" /\ sp[b] = 0
      /\ last' = [last EXCEPT ![t] = IF Closes(b) THEN b ELSE @]
      /\ blk' = [blk EXCEPT ![t] = next[b]]
      /\ pc' = [pc EXCEPT ![t] = IF Closes(b) THEN "grow" ELSE "search"]
      /\ UNCHANGED <<poolVars, headerVars, owners, mem, mutex>>

DoubleMax == maxCapacity' = 2 * maxCapacity

(* Block b goes into the ring behind block l.                              *)
LinkBehind(b, l) == next' = [next EXCEPT ![b] = next[l], ![l] = b]

(* Every block is empty: append one of twice the capacity behind last,     *)
(* hand out its top chunk, return.                                         *)
PallocGrow(t, b) ==
  LET n == 2 * maxCapacity
  IN  /\ pc[t] = "grow" /\ MallocGives(b, n)
      /\ TakeFromNewBlock(b, n)
      /\ LinkBehind(b, last[t])
      /\ DoubleMax
      /\ poolBlock' = b
      /\ owners' = [owners EXCEPT ![<<b, n>>] = {t}]
      /\ mutex' = NoThread
      /\ Return(t)

(* malloc fails: return NULL, with the mutex still held.                   *)
PallocFail(t) ==
  /\ pc[t] = "grow" /\ MallocFails(2 * maxCapacity)
  /\ Return(t)
  /\ UNCHANGED <<poolVars, headerVars, owners, mutex>>

(* pfree reads mem->block, before it asks for the mutex.                   *)
PfreeStart(t) ==
  /\ pc[t] = "pfree"
  /\ blk' = [blk EXCEPT ![t] = MemBlock(mem[t])]
  /\ pc' = [pc EXCEPT ![t] = "lock"]
  /\ UNCHANGED <<poolVars, headerVars, owners, last, mem, mutex>>

PfreeLock(t) ==
  /\ pc[t] = "lock" /\ LockMutex(t)
  /\ pc' = [pc EXCEPT ![t] = "push"]
  /\ UNCHANGED <<poolVars, headerVars, owners, localVars>>

(* The chunk goes on top of the usage stack of its block.                  *)
PfreePush(t) ==
  LET b == blk[t]
  IN  /\ pc[t] = "push"
      /\ occupied' = [occupied EXCEPT ![mem[t]] = FALSE]
      /\ sp' = [sp EXCEPT ![b] = @ + 1]
      /\ slot' = [slot EXCEPT ![b][sp[b] + 1] = mem[t]]
      /\ mutex' = NoThread
      /\ Return(t)
      /\ UNCHANGED <<capacity, next, poolBlock, maxCapacity, home, refcount, owners>>

Client(t) ==
  \/ CallPalloc(t) /\ UNCHANGED mutex
  \/ \E c \in Chunk : CallPfree(t, c) /\ UNCHANGED mutex
  \/ \E u \in Thread, c \in Chunk : SlabRef(t, u, c) /\ UNCHANGED mutex
  \/ \E c \in Chunk : SlabUnref(t, c) /\ UNCHANGED mutex

Lock(t) == PallocLock(t) \/ PfreeLock(t)

Step(t) ==
  \/ PallocPop(t)
  \/ PallocNext(t)
  \/ \E b \in Block : PallocGrow(t, b)
  \/ PallocFail(t)
  \/ PfreeStart(t)
  \/ PfreePush(t)

(* clear takes the mutex and returns it; destroy does not ask for it.      *)
Owner ==
  \/ mutex = NoThread /\ PoolClear /\ UNCHANGED mutex
  \/ PoolDestroy /\ UNCHANGED mutex
  \/ Finished /\ UNCHANGED mutex

Next ==
  \/ \E t \in Thread : Client(t) \/ Lock(t) \/ Step(t)
  \/ Owner

Spec == Init /\ [][Next]_vars

-----------------------------------------------------------------------------

(* Every variable keeps its type; in particular no stack outgrows its      *)
(* array and max_capacity never passes what malloc gives.                  *)
TypeOK ==
  /\ capacity \in [Block -> 0 .. MaxCapacity]
  /\ next \in [Block -> Block]
  /\ slot \in [Block -> [Slot -> Chunk]]
  /\ sp \in [Block -> 0 .. MaxCapacity]
  /\ poolBlock \in Block \cup {Gone}
  /\ maxCapacity \in Capacity .. MaxCapacity
  /\ home \in [Chunk -> Block]
  /\ occupied \in [Chunk -> BOOLEAN]
  /\ refcount \in [Chunk -> Nat]
  /\ owners \in [Chunk -> SUBSET Thread]
  /\ pc \in [Thread -> {"idle", "palloc", "search", "grow", "pfree", "lock", "push"}]
  /\ blk \in [Thread -> Block]
  /\ last \in [Thread -> Block]
  /\ mem \in [Thread -> Chunk \cup {NoChunk}]
  /\ mutex \in Thread \cup {NoThread}

(* Only the thread that holds pool->mutex is between the lock and the      *)
(* unlock of palloc or pfree.                                              *)
MutexHeld == \A t \in Thread : pc[t] \in {"search", "grow", "push"} => mutex = t

(* pfree never writes past the end of usage_stack.                         *)
PushInBounds == \A t \in Thread : pc[t] = "push" => sp[blk[t]] < capacity[blk[t]]

-----------------------------------------------------------------------------

(* What an inductive proof of the above needs besides: the chunk a thread  *)
(* brings back lies in the block it is about to push it on, and a pool     *)
(* that is gone has no users.                                              *)
Inside ==
  /\ \A b \in Block : sp[b] <= capacity[b]
  /\ \A t \in Thread :
       /\ pc[t] \in {"pfree", "lock", "push"} => mem[t] \in Chunk
       /\ pc[t] \in {"lock", "push"} => blk[t] = mem[t][1] /\ mem[t][2] <= capacity[blk[t]]
  /\ poolBlock = Gone => AllIdle /\ \A c \in Chunk : owners[c] = {}

ChunkInv == TypeOK /\ MutexHeld /\ Inside /\ PoolSafe /\ Exclusive /\ HeaderTrue

(* The blocks of a live pool form one ring: next leads from block to block *)
(* and no smaller set of blocks is closed under it.  max_capacity is the   *)
(* largest capacity, and a thread that walks the ring stands on it.        *)
OneRing ==
  /\ \A b \in Mapped : next[b] \in Mapped
  /\ \A S \in SUBSET Mapped : S # {} /\ (\A a \in S : next[a] \in S) => S = Mapped

LargestKnown ==
  /\ \A b \in Mapped : capacity[b] <= maxCapacity
  /\ \E b \in Mapped : capacity[b] = maxCapacity

RingInv ==
  /\ poolBlock = Gone => Mapped = {}
  /\ poolBlock # Gone => poolBlock \in Mapped /\ OneRing /\ LargestKnown
  /\ \A t \in Thread : pc[t] \in {"search", "grow"} => blk[t] \in Mapped /\ last[t] \in Mapped

(* The pool grows only when it is full: once the walk has come round, each *)
(* chunk has a user or is with a thread that waits to give it back.        *)
GrowsWhenFull ==
  \A t \in Thread : pc[t] = "grow" =>
    \A b \in Mapped : \A i \in 1 .. capacity[b] :
      \/ owners[<<b, i>>] # {}
      \/ \E u \in Thread : pc[u] \in {"pfree", "lock"} /\ mem[u] = <<b, i>>

(* What palloc has seen of the ring: S are blocks it found empty, from     *)
(* pool->block to the one it stands on.                                    *)
Passed(t, S) ==
  /\ S \subseteq Mapped
  /\ \A a \in S : sp[a] = 0 /\ next[a] \in S \cup {blk[t]}
  /\ poolBlock \in S \cup {blk[t]}

WalkInv ==
  /\ \A t \in Thread : pc[t] = "search" => \E S \in SUBSET Block : Passed(t, S)
  /\ \A t \in Thread : pc[t] = "grow" => \A b \in Mapped : sp[b] = 0

IInv == ChunkInv /\ RingInv /\ WalkInv

=============================================================================
