--------------------------- MODULE SlabPoolLockFree ---------------------------
(***************************************************************************)
(* frl_slab_pool created with FRL_LOCK_FREE: a thread claims the stack of  *)
(* one block by swapping its stack pointer for DCAS_BUSY_VAL, and links a  *)
(* new block into the ring by one compare-and-swap.  Each read of a shared *)
(* word and each compare-and-swap is a step.                               *)
(*                                                                         *)
(* The stack pointer of b is NULL while busy[b]; sp[b] is then the height  *)
(* the thread that made it busy found, which it alone knows.  A thread     *)
(* that reads NULL reads again: it waits until ~busy[b].                   *)
(***************************************************************************)
EXTENDS SlabPool

VARIABLES
  busy,      (* block->stack_pointer = DCAS_BUSY_VAL                       *)
  seen,      (* local pool_block of palloc                                 *)
  attempt,   (* local attempt of palloc and pfree, as a height             *)
  cmpval,    (* local cmpval of pfree                                      *)
  readMax    (* local max_capacity of palloc                               *)

casVars == <<seen, attempt, cmpval, readMax>>
vars == <<slabVars, busy, casVars>>

Init ==
  /\ SlabInit
  /\ busy = [b \in Block |-> FALSE]
  /\ seen = [t \in Thread |-> 1]
  /\ attempt = [t \in Thread |-> 0]
  /\ cmpval = [t \in Thread |-> NoChunk]
  /\ readMax = [t \in Thread |-> 0]

Goto(t, where) == pc' = [pc EXCEPT ![t] = where]

(* A call returns: its locals are gone.                                    *)
ReturnFree(t) ==
  /\ Return(t)
  /\ seen' = [seen EXCEPT ![t] = 1]
  /\ attempt' = [attempt EXCEPT ![t] = 0]
  /\ cmpval' = [cmpval EXCEPT ![t] = NoChunk]
  /\ readMax' = [readMax EXCEPT ![t] = 0]

-----------------------------------------------------------------------------

(* palloc starts, or starts over, at pool->block.                          *)
PallocStart(t) ==
  /\ pc[t] = "palloc"
  /\ seen' = [seen EXCEPT ![t] = poolBlock]
  /\ blk' = [blk EXCEPT ![t] = poolBlock]
  /\ last' = [last EXCEPT ![t] = poolBlock]
  /\ Goto(t, "read")
  /\ UNCHANGED <<poolVars, headerVars, owners, mem, busy, attempt, cmpval, readMax>>

PallocRead(t) ==
  /\ pc[t] = "read" /\ ~busy[blk[t]]
  /\ attempt' = [attempt EXCEPT ![t] = sp[blk[t]]]
  /\ Goto(t, IF sp[blk[t]] = 0 THEN "next" ELSE "take")
  /\ UNCHANGED <<poolVars, headerVars, owners, localVars, busy, seen, cmpval, readMax>>

(* Mutant: does not see that another thread has claimed the stack.         *)
Claims_Busy(t) == sp[blk[t]] = attempt[t]

(* The compare-and-swap of the stack pointer with DCAS_BUSY_VAL succeeds.  *)
Claims(t) == ~busy[blk[t]] /\ sp[blk[t]] = attempt[t]

(* Claim the stack if its pointer is still the one that was read.          *)
PallocTake(t) ==
  /\ pc[t] = "take"
  /\ busy' = [busy EXCEPT ![blk[t]] = Claims(t) \/ @]
  /\ Goto(t, IF Claims(t) THEN "pop" ELSE "read")
  /\ UNCHANGED <<poolVars, headerVars, owners, localVars, casVars>>

PallocPop(t) ==
  LET b == blk[t]
  IN  /\ pc[t] = "pop"
      /\ mem' = [mem EXCEPT ![t] = slot[b][attempt[t]]]
      /\ sp' = [sp EXCEPT ![b] = attempt[t] - 1]
      /\ busy' = [busy EXCEPT ![b] = FALSE]
      /\ Goto(t, "header")
      /\ UNCHANGED <<capacity, next, slot, poolBlock, maxCapacity, headerVars, owners,
                     blk, last, casVars>>

(* Write the header, let later calls start at this block, return.          *)
PallocHeader(t) ==
  /\ pc[t] = "header"
  /\ WriteHeader(mem[t], blk[t])
  /\ poolBlock' = IF poolBlock = seen[t] THEN blk[t] ELSE poolBlock
  /\ owners' = [owners EXCEPT ![mem[t]] = {t}]
  /\ ReturnFree(t)
  /\ UNCHANGED <<capacity, next, slot, sp, maxCapacity, busy>>

(* An empty block: next is read once to compare and once to go on.         *)
PallocNext(t) ==
  /\ pc[t] = "next"
  /\ last' = [last EXCEPT ![t] = IF next[blk[t]] = seen[t] THEN blk[t] ELSE @]
  /\ Goto(t, "walk")
  /\ UNCHANGED <<poolVars, headerVars, owners, blk, mem, busy, casVars>>

PallocWalk(t) ==
  /\ pc[t] = "walk"
  /\ blk' = [blk EXCEPT ![t] = next[blk[t]]]
  /\ Goto(t, IF next[blk[t]] = seen[t] THEN "grow" ELSE "read")
  /\ UNCHANGED <<poolVars, headerVars, owners, last, mem, busy, casVars>>

PallocReadMax(t) ==
  /\ pc[t] = "grow"
  /\ readMax' = [readMax EXCEPT ![t] = maxCapacity]
  /\ Goto(t, "create")
  /\ UNCHANGED <<poolVars, headerVars, owners, localVars, busy, seen, attempt, cmpval>>

(* Mutant: pool->block names the block before it is linked in.             *)
PallocCreate_Publishes(t, b) ==
  LET n == 2 * readMax[t]
  IN  /\ pc[t] = "create" /\ MallocGives(b, n)
      /\ TakeFromNewBlock(b, n)
      /\ next' = [next EXCEPT ![b] = seen[t]]
      /\ poolBlock' = b
      /\ blk' = [blk EXCEPT ![t] = b]
      /\ mem' = [mem EXCEPT ![t] = <<b, n>>]
      /\ Goto(t, "link")
      /\ UNCHANGED <<maxCapacity, owners, last, busy, casVars>>

(* A new block, known to this thread only, whose top chunk is taken.       *)
PallocCreate(t, b) ==
  LET n == 2 * readMax[t]
  IN  /\ pc[t] = "create" /\ MallocGives(b, n)
      /\ TakeFromNewBlock(b, n)
      /\ next' = [next EXCEPT ![b] = seen[t]]
      /\ blk' = [blk EXCEPT ![t] = b]
      /\ mem' = [mem EXCEPT ![t] = <<b, n>>]
      /\ Goto(t, "link")
      /\ UNCHANGED <<poolBlock, maxCapacity, owners, last, busy, casVars>>

PallocFail(t) ==
  /\ pc[t] = "create" /\ MallocFails(2 * readMax[t])
  /\ ReturnFree(t)
  /\ UNCHANGED <<poolVars, headerVars, owners, busy>>

(* Close the ring through the new block.                                   *)
PallocLink(t) ==
  /\ pc[t] = "link" /\ next[last[t]] = seen[t]
  /\ next' = [next EXCEPT ![last[t]] = blk[t]]
  /\ Goto(t, "double")
  /\ UNCHANGED <<capacity, slot, sp, poolBlock, maxCapacity, headerVars, owners,
                 localVars, busy, casVars>>

(* Mutant: forgets to destroy the block that it could not link in.         *)
PallocUnlink_Leaks(t) ==
  /\ pc[t] = "link" /\ next[last[t]] # seen[t]
  /\ mem' = [mem EXCEPT ![t] = NoChunk]
  /\ Goto(t, "palloc")
  /\ UNCHANGED <<poolVars, headerVars, owners, blk, last, busy, casVars>>

(* Somebody else linked a block there: destroy this one and start over.    *)
PallocUnlink(t) ==
  /\ pc[t] = "link" /\ next[last[t]] # seen[t]
  /\ capacity' = [capacity EXCEPT ![blk[t]] = 0]
  /\ sp' = [sp EXCEPT ![blk[t]] = 0]
  /\ mem' = [mem EXCEPT ![t] = NoChunk]
  /\ Goto(t, "palloc")
  /\ UNCHANGED <<next, slot, poolBlock, maxCapacity, headerVars, owners, blk, last,
                 busy, casVars>>

(* Mutant: max_capacity is left alone.                                     *)
DoubledMax_Skipped(t) == maxCapacity

(* max_capacity after the compare-and-swap that doubles it.                *)
DoubledMax(t) == IF maxCapacity = readMax[t] THEN 2 * readMax[t] ELSE maxCapacity

PallocDouble(t) ==
  /\ pc[t] = "double"
  /\ maxCapacity' = DoubledMax(t)
  /\ Goto(t, "publish")
  /\ UNCHANGED <<capacity, next, slot, sp, poolBlock, headerVars, owners, localVars,
                 busy, casVars>>

PallocPublish(t) ==
  /\ pc[t] = "publish"
  /\ poolBlock' = IF poolBlock = seen[t] THEN blk[t] ELSE poolBlock
  /\ owners' = [owners EXCEPT ![mem[t]] = {t}]
  /\ ReturnFree(t)
  /\ UNCHANGED <<capacity, next, slot, sp, maxCapacity, headerVars, busy>>

-----------------------------------------------------------------------------

(* pfree leaves occupied as it is: it swaps 0 for 0.                       *)
PfreeStart(t) ==
  /\ pc[t] = "pfree"
  /\ blk' = [blk EXCEPT ![t] = MemBlock(mem[t])]
  /\ Goto(t, "peek")
  /\ UNCHANGED <<poolVars, headerVars, owners, last, mem, busy, casVars>>

PfreePeek(t) ==
  /\ pc[t] = "peek" /\ ~busy[blk[t]]
  /\ attempt' = [attempt EXCEPT ![t] = sp[blk[t]]]
  /\ Goto(t, "compare")
  /\ UNCHANGED <<poolVars, headerVars, owners, localVars, busy, seen, cmpval, readMax>>

PfreeCompare(t) ==
  /\ pc[t] = "compare"
  /\ cmpval' = [cmpval EXCEPT ![t] = slot[blk[t]][attempt[t] + 1]]
  /\ Goto(t, "claim")
  /\ UNCHANGED <<poolVars, headerVars, owners, localVars, busy, seen, attempt, readMax>>

PfreeClaim(t) ==
  /\ pc[t] = "claim"
  /\ busy' = [busy EXCEPT ![blk[t]] = Claims(t) \/ @]
  /\ Goto(t, IF Claims(t) THEN "write" ELSE "peek")
  /\ UNCHANGED <<poolVars, headerVars, owners, localVars, casVars>>

(* Mutant: the comparison is reversed.                                     *)
EntryKept_Reversed(t) == slot[blk[t]][attempt[t] + 1] # cmpval[t]

(* The entry above the stack is still the one pfree has read.              *)
EntryKept(t) == slot[blk[t]][attempt[t] + 1] = cmpval[t]

(* Write the chunk above the stack unless that entry has changed.          *)
PfreeWrite(t) ==
  /\ pc[t] = "write"
  /\ \/ /\ EntryKept(t)
        /\ slot' = [slot EXCEPT ![blk[t]][attempt[t] + 1] = mem[t]]
        /\ Goto(t, "store")
        /\ UNCHANGED <<sp, busy>>
     \/ /\ ~EntryKept(t)
        /\ sp' = [sp EXCEPT ![blk[t]] = attempt[t]]
        /\ busy' = [busy EXCEPT ![blk[t]] = FALSE]
        /\ Goto(t, "peek")
        /\ UNCHANGED slot
  /\ UNCHANGED <<capacity, next, poolBlock, maxCapacity, headerVars, owners,
                 localVars, casVars>>

PfreeStore(t) ==
  /\ pc[t] = "store"
  /\ sp' = [sp EXCEPT ![blk[t]] = attempt[t] + 1]
  /\ busy' = [busy EXCEPT ![blk[t]] = FALSE]
  /\ ReturnFree(t)
  /\ UNCHANGED <<capacity, next, slot, poolBlock, maxCapacity, headerVars, owners>>

-----------------------------------------------------------------------------

Client(t) ==
  \/ CallPalloc(t) /\ UNCHANGED <<busy, casVars>>
  \/ \E c \in Chunk : CallPfree(t, c) /\ UNCHANGED <<busy, casVars>>
  \/ \E u \in Thread, c \in Chunk : SlabRef(t, u, c) /\ UNCHANGED <<busy, casVars>>
  \/ \E c \in Chunk : SlabUnref(t, c) /\ UNCHANGED <<busy, casVars>>

PallocStep(t) ==
  \/ PallocStart(t) \/ PallocRead(t) \/ PallocTake(t) \/ PallocPop(t) \/ PallocHeader(t)
  \/ PallocNext(t) \/ PallocWalk(t) \/ PallocReadMax(t)
  \/ \E b \in Block : PallocCreate(t, b)
  \/ PallocFail(t) \/ PallocLink(t) \/ PallocUnlink(t) \/ PallocDouble(t) \/ PallocPublish(t)

PfreeStep(t) ==
  \/ PfreeStart(t) \/ PfreePeek(t) \/ PfreeCompare(t)
  \/ PfreeClaim(t) \/ PfreeWrite(t) \/ PfreeStore(t)

Step(t) == PallocStep(t) \/ PfreeStep(t)

Owner == (PoolClear \/ PoolDestroy \/ Finished) /\ UNCHANGED <<busy, casVars>>

Next == (\E t \in Thread : Client(t) \/ Step(t)) \/ Owner

Spec == Init /\ [][Next]_vars

(* A thread inside a call keeps running.                                   *)
FairSpec == Spec /\ \A t \in Thread : WF_vars(Step(t))

-----------------------------------------------------------------------------

(* Every variable keeps its type.                                          *)
TypeOK ==
  /\ capacity \in [Block -> 0 .. MaxCapacity]
  /\ next \in [Block -> Block]
  /\ slot \in [Block -> [Slot -> Chunk]]
  /\ sp \in [Block -> 0 .. MaxCapacity]
  /\ busy \in [Block -> BOOLEAN]
  /\ poolBlock \in Block \cup {Gone}
  /\ maxCapacity \in Capacity .. MaxCapacity
  /\ home \in [Chunk -> Block]
  /\ occupied \in [Chunk -> BOOLEAN]
  /\ refcount \in [Chunk -> Nat]
  /\ owners \in [Chunk -> SUBSET Thread]
  /\ pc \in [Thread -> {"idle", "palloc", "read", "take", "pop", "header", "next", "walk",
                        "grow", "create", "link", "double", "publish",
                        "pfree", "peek", "compare", "claim", "write", "store"}]
  /\ blk \in [Thread -> Block] /\ last \in [Thread -> Block] /\ seen \in [Thread -> Block]
  /\ mem \in [Thread -> Chunk \cup {NoChunk}]
  /\ attempt \in [Thread -> 0 .. MaxCapacity]
  /\ cmpval \in [Thread -> Chunk \cup {NoChunk}]
  /\ readMax \in [Thread -> 0 .. MaxCapacity]

Claiming(t) == pc[t] \in {"pop", "write", "store"}

(* A busy stack has one owner, whose local attempt is the height that the  *)
(* stack pointer no longer tells.                                          *)
BusyOwned ==
  /\ \A b \in Block : busy[b] <=> \E t \in Thread : Claiming(t) /\ blk[t] = b
  /\ \A t, u \in Thread : Claiming(t) /\ Claiming(u) /\ blk[t] = blk[u] => t = u
  /\ \A t \in Thread : Claiming(t) => sp[blk[t]] = attempt[t]

(* Every variable keeps its type, and pfree never reads or writes past the *)
(* end of usage_stack, not even with a stack pointer that has changed      *)
(* since it read it.                                                       *)
PushInBounds ==
  /\ TypeOK
  /\ \A t \in Thread : pc[t] \in {"compare", "claim", "write", "store"} =>
       attempt[t] < capacity[blk[t]]

(* A block is destroyed only while no other thread and no link knows it.   *)
(* What a thread about to start over remembers, it does not use again.     *)
PrivateUntilLinked ==
  \A t \in Thread : pc[t] = "link" =>
    /\ blk[t] \notin Ring
    /\ \A u \in Thread \ {t} :
         blk[t] \in {blk[u], last[u], seen[u]} => pc[u] \in {"idle", "palloc"}

(* Calls keep returning as long as there are calls: no two threads spoil   *)
(* each other's attempts for ever.                                         *)
Progress ==
  \/ <>[]AllIdle
  \/ []<><<\E t \in Thread : pc[t] # "idle" /\ pc'[t] = "idle">>_vars

=============================================================================
