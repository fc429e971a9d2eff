------------------------------ MODULE SlabPool ------------------------------
(***************************************************************************)
(* frl_slab_pool: fixed-size chunks cut out of blocks that form a ring.    *)
(* This module holds what both locking variants share: the ring, the usage *)
(* stack of each block, the header in front of each chunk, the references  *)
(* the client threads hold, and the operations that both variants run the  *)
(* same way.  SlabPoolLockWith and SlabPoolLockFree add frl_slab_palloc    *)
(* and frl_slab_pfree.                                                     *)
(***************************************************************************)
EXTENDS Integers, FiniteSets

CONSTANTS
  Thread,       (* the client threads                                       *)
  Capacity,     (* capacity given to frl_slab_pool_create                   *)
  MaxBlocks,    (* how many blocks malloc can give before it returns NULL   *)
  MaxCapacity,  (* the largest block malloc can give                        *)
  MallocMayFail,(* whether malloc may also return NULL before that          *)
  MaxHeld       (* bound on the references one client thread collects       *)

ASSUME SlabAssumption ==
  /\ IsFiniteSet(Thread)
  /\ Capacity \in Nat \ {0}
  /\ MaxBlocks \in Nat \ {0}
  /\ MaxCapacity \in Nat
  /\ Capacity <= MaxCapacity
  /\ MallocMayFail \in BOOLEAN
  /\ MaxHeld \in Nat

Block == 1 .. MaxBlocks
Slot == 1 .. MaxCapacity

(* A chunk is named by its block and its place in the block's arena.       *)
Chunk == Block \X Slot
NoChunk == <<0, 0>>

(* poolBlock after frl_slab_pool_destroy.                                  *)
Gone == 0

VARIABLES
  capacity,     (* block->capacity; 0 while the block is not allocated      *)
  next,         (* block->next                                              *)
  slot,         (* block->usage_stack[1 .. capacity], stale entries included *)
  sp,           (* block->stack_pointer - block->usage_stack                *)
  poolBlock,    (* pool->block                                              *)
  maxCapacity,  (* pool->max_capacity                                       *)
  home,         (* mem->block of each chunk's header                        *)
  occupied,     (* mem->occupied                                            *)
  refcount,     (* mem->refcount                                            *)
  owners,       (* the threads that may use a chunk: what palloc returned   *)
                (* to them or another thread passed them with a reference   *)
  pc,           (* where each thread stands; "idle" is outside the pool     *)
  blk,          (* local block of palloc                                    *)
  last,         (* local last_block of palloc                               *)
  mem           (* local mem of pfree, and the chunk palloc has popped      *)

poolVars == <<capacity, next, slot, sp, poolBlock, maxCapacity>>
headerVars == <<home, occupied, refcount>>
localVars == <<blk, last, mem>>
slabVars == <<poolVars, headerVars, owners, pc, localVars>>

-----------------------------------------------------------------------------

Mapped == {b \in Block : capacity[b] # 0}
FreshSlots(b) == [i \in Slot |-> <<b, i>>]

Held(t) == {c \in Chunk : t \in owners[c]}
AllIdle == \A t \in Thread : pc[t] = "idle"

(* frl_slab_block_create succeeds for n chunks and yields block b.         *)
MallocGives(b, n) ==
  /\ n <= MaxCapacity
  /\ b \in Block \ Mapped
  /\ \A a \in Block : a < b => a \in Mapped

MallocFails(n) == MallocMayFail \/ \A b \in Block : ~MallocGives(b, n)

(* Mutant: the count of an earlier use stays in the header.                *)
WriteHeader_KeepsCount(c, b) ==
  /\ home' = [home EXCEPT ![c] = b]
  /\ occupied' = [occupied EXCEPT ![c] = TRUE]
  /\ UNCHANGED refcount

(* The header palloc writes in front of chunk c, popped from block b.      *)
WriteHeader(c, b) ==
  /\ home' = [home EXCEPT ![c] = b]
  /\ occupied' = [occupied EXCEPT ![c] = TRUE]
  /\ refcount' = [refcount EXCEPT ![c] = 1]

(* Mutant: the top chunk stays on the stack.                               *)
TakeFromNewBlock_NoPop(b, n) ==
  /\ capacity' = [capacity EXCEPT ![b] = n]
  /\ slot' = [slot EXCEPT ![b] = FreshSlots(b)]
  /\ sp' = [sp EXCEPT ![b] = n]
  /\ WriteHeader(<<b, n>>, b)

(* palloc has got block b with n chunks from malloc, takes the top chunk   *)
(* off its stack and writes the header.                                    *)
TakeFromNewBlock(b, n) ==
  /\ capacity' = [capacity EXCEPT ![b] = n]
  /\ slot' = [slot EXCEPT ![b] = FreshSlots(b)]
  /\ sp' = [sp EXCEPT ![b] = n - 1]
  /\ WriteHeader(<<b, n>>, b)

(* Mutant: pool->block instead of the chunk's own block.                   *)
MemBlock_PoolBlock(c) == poolBlock

(* mem->block, the block that pfree pushes chunk c on.                     *)
MemBlock(c) == home[c]

(* A call returns: its locals are gone.                                    *)
Return(t) ==
  /\ pc' = [pc EXCEPT ![t] = "idle"]
  /\ blk' = [blk EXCEPT ![t] = 1]
  /\ last' = [last EXCEPT ![t] = 1]
  /\ mem' = [mem EXCEPT ![t] = NoChunk]

(* The blocks on the way along next from pool->block: those in every set   *)
(* that holds pool->block and, with a block, the next one.                 *)
Ring ==
  {b \in Block : \A S \in SUBSET Block :
     poolBlock \in S /\ (\A a \in S : next[a] \in S) => b \in S}

-----------------------------------------------------------------------------

InitPool ==
  /\ capacity = [b \in Block |-> IF b = 1 THEN Capacity ELSE 0]
  /\ next = [b \in Block |-> b]
  /\ slot = [b \in Block |-> FreshSlots(b)]
  /\ sp = [b \in Block |-> IF b = 1 THEN Capacity ELSE 0]
  /\ poolBlock = 1
  /\ maxCapacity = Capacity

InitClient ==
  /\ home = [c \in Chunk |-> 1]
  /\ occupied = [c \in Chunk |-> FALSE]
  /\ refcount = [c \in Chunk |-> 0]
  /\ owners = [c \in Chunk |-> {}]
  /\ pc = [t \in Thread |-> "idle"]
  /\ blk = [t \in Thread |-> 1]
  /\ last = [t \in Thread |-> 1]
  /\ mem = [t \in Thread |-> NoChunk]

SlabInit == InitPool /\ InitClient

(* A thread enters frl_slab_palloc.                                        *)
CallPalloc(t) ==
  /\ pc[t] = "idle" /\ poolBlock # Gone
  /\ Cardinality(Held(t)) < MaxHeld
  /\ pc' = [pc EXCEPT ![t] = "palloc"]
  /\ UNCHANGED <<poolVars, headerVars, owners, localVars>>

(* The only user of a chunk enters frl_slab_pfree.                         *)
CallPfree(t, c) ==
  /\ pc[t] = "idle"
  /\ owners[c] = {t}
  /\ owners' = [owners EXCEPT ![c] = {}]
  /\ mem' = [mem EXCEPT ![t] = c]
  /\ pc' = [pc EXCEPT ![t] = "pfree"]
  /\ UNCHANGED <<poolVars, headerVars, blk, last>>

(* frl_slab_ref: t counts a reference and passes it to u.                  *)
SlabRef(t, u, c) ==
  /\ pc[t] = "idle" /\ pc[u] = "idle"
  /\ t \in owners[c] /\ u \notin owners[c]
  /\ Cardinality(Held(u)) < MaxHeld
  /\ refcount' = [refcount EXCEPT ![c] = @ + 1]
  /\ owners' = [owners EXCEPT ![c] = @ \cup {u}]
  /\ UNCHANGED <<poolVars, home, occupied, pc, localVars>>

(* Mutant: looks at the count from before the decrement.                   *)
DropsLast_OldCount(c) == refcount[c] = 0

(* The decrement of unref reaches 0.                                       *)
DropsLast(c) == refcount[c] = 1

(* frl_slab_unref: the decrement that reaches 0 goes on to frl_slab_pfree. *)
SlabUnref(t, c) ==
  /\ pc[t] = "idle" /\ t \in owners[c]
  /\ refcount' = [refcount EXCEPT ![c] = @ - 1]
  /\ owners' = [owners EXCEPT ![c] = @ \ {t}]
  /\ IF DropsLast(c)
     THEN mem' = [mem EXCEPT ![t] = c] /\ pc' = [pc EXCEPT ![t] = "pfree"]
     ELSE UNCHANGED <<mem, pc>>
  /\ UNCHANGED <<poolVars, home, occupied, blk, last>>

(* Mutant: leaves the stack pointers where they are.                       *)
FullStacks_Skipped == sp

(* The stack pointers after clear has refilled every block of the ring.    *)
FullStacks == [b \in Block |-> IF b \in Ring THEN capacity[b] ELSE sp[b]]

(* frl_slab_pool_clear, called while no other call is in progress; every   *)
(* pointer given out before is dead afterwards.                            *)
PoolClear ==
  /\ AllIdle /\ poolBlock # Gone
  /\ slot' = [b \in Block |-> IF b \in Ring THEN FreshSlots(b) ELSE slot[b]]
  /\ sp' = FullStacks
  /\ owners' = [c \in Chunk |-> {}]
  /\ UNCHANGED <<capacity, next, poolBlock, maxCapacity, headerVars, pc, localVars>>

(* frl_slab_pool_destroy, called while no other call is in progress.       *)
PoolDestroy ==
  /\ AllIdle /\ poolBlock # Gone
  /\ capacity' = [b \in Block |-> IF b \in Ring THEN 0 ELSE capacity[b]]
  /\ sp' = [b \in Block |-> IF b \in Ring THEN 0 ELSE sp[b]]
  /\ poolBlock' = Gone
  /\ owners' = [c \in Chunk |-> {}]
  /\ UNCHANGED <<next, slot, maxCapacity, headerVars, pc, localVars>>

(* Nothing is left to do once the pool is destroyed.                       *)
Finished == poolBlock = Gone /\ UNCHANGED slabVars

-----------------------------------------------------------------------------

(* The chunk a thread has in its hands inside palloc or pfree: popped and  *)
(* not handed out yet, or handed back and not pushed yet.                  *)
InHand(t) ==
  IF pc[t] \in {"header", "link", "double", "publish",
                "pfree", "lock", "push", "peek", "compare", "claim", "write", "store"}
  THEN {mem[t]} ELSE {}

(* The part of the usage stack of b below its stack pointer.               *)
Stacked(b) == {slot[b][i] : i \in 1 .. sp[b]}

(* usage of frl_slab_pool_stat: capacity - stack height, over the ring.    *)
Usage == Cardinality({c \in Chunk : c[1] \in Ring /\ c[2] \in sp[c[1]] + 1 .. capacity[c[1]]})

(* frl_slab_pool_safe: each entry of each usage stack, below its stack     *)
(* pointer or above, points into the arena of that block.                  *)
PoolSafe ==
  \A b \in Mapped : \A i \in 1 .. capacity[b] :
    slot[b][i] \in {b} \X (1 .. capacity[b])

(* No chunk is given out twice: one that a client may use, or that a       *)
(* thread has in its hands, is on no stack and in no other thread's hands, *)
(* and a chunk on a stack is there once.                                   *)
Exclusive ==
  /\ \A t \in Thread : \A c \in InHand(t) :
       /\ owners[c] = {}
       /\ \A u \in Thread \ {t} : c \notin InHand(u)
       /\ \A b \in Block : c \notin Stacked(b)
  /\ \A c \in Chunk : owners[c] # {} => \A b \in Block : c \notin Stacked(b)
  /\ \A b \in Block : \A i, j \in 1 .. sp[b] : slot[b][i] = slot[b][j] => i = j

(* No chunk of a live pool is lost: it is given out, in the hands of a     *)
(* thread, or on the stack of its own block.                               *)
Conserved ==
  \A b \in Mapped : \A i \in 1 .. capacity[b] :
    \/ owners[<<b, i>>] # {}
    \/ \E t \in Thread : <<b, i>> \in InHand(t)
    \/ <<b, i>> \in Stacked(b)

(* A chunk in use counts its users, is marked occupied (what frl_slab_pfree *)
(* asserts) and knows the block it came from.                              *)
HeaderTrue ==
  \A c \in Chunk :
    /\ owners[c] # {} => refcount[c] = Cardinality(owners[c])
    /\ owners[c] # {} \/ (\E t \in Thread : pc[t] = "pfree" /\ mem[t] = c)
         => occupied[c] /\ home[c] = c[1] /\ c[2] <= capacity[c[1]]

(* Walking next from pool->block meets every block there is, but for those *)
(* not linked in yet, so that clear resets and destroy frees them all.     *)
RingCovers ==
  IF poolBlock = Gone THEN Mapped = {}
  ELSE Ring = Mapped \ {blk[t] : t \in {u \in Thread : pc[u] = "link"}}

(* While no call is in progress, max_capacity is the largest capacity.     *)
MaxCapacityTracks ==
  AllIdle /\ poolBlock # Gone =>
    /\ \A b \in Mapped : capacity[b] <= maxCapacity
    /\ \E b \in Mapped : capacity[b] = maxCapacity

(* While no call is in progress, the usage that frl_slab_pool_stat reports *)
(* is the number of chunks in the hands of clients.                        *)
UsageExact ==
  AllIdle /\ poolBlock # Gone => Usage = Cardinality({c \in Chunk : owners[c] # {}})

-----------------------------------------------------------------------------

(* The call a client sees each thread in, and the chunk it is giving back. *)
GivingBack == {"pfree", "lock", "push", "peek", "compare", "claim", "write", "store"}

CallOf(t) ==
  IF pc[t] = "idle" THEN "idle" ELSE IF pc[t] \in GivingBack THEN "pfree" ELSE "palloc"

BackOf(t) == IF pc[t] \in GivingBack THEN mem[t] ELSE NoChunk

(* Either variant is the pool of ChunkPool: palloc takes effect when the   *)
(* chunk has its user, pfree when the chunk is on its stack again, and a   *)
(* chunk goes back just when its last user has dropped it, which the code  *)
(* tells from the count in the header.                                     *)
Abstract == INSTANCE ChunkPool WITH
              users <- owners, gone <- poolBlock = Gone,
              call <- [t \in Thread |-> CallOf(t)],
              back <- [t \in Thread |-> BackOf(t)]
ImplementsChunkPool == Abstract!Spec

=============================================================================
