------------------------ MODULE SlabPoolLockWithProofs ------------------------
(***************************************************************************)
(* That SlabPoolLockWith gives no chunk out twice and loses none, never    *)
(* writes past a usage stack, counts references and usage truly, keeps     *)
(* every block in the ring and the largest capacity in max_capacity, grows *)
(* only when it is full, and implements ChunkPool, for every set of        *)
(* threads, every initial capacity and every number and size of blocks.    *)
(* The inductive invariant is IInv of SlabPoolLockWith, which is ChunkInv  *)
(* (chunks, stacks and headers), RingInv (the ring) and WalkInv (what      *)
(* palloc has seen of it); Conserved is inductive relative to it.          *)
(***************************************************************************)
EXTENDS SlabPoolLockWith, Functions, FiniteSetTheorems, TLAPS

(* n + 1 values do not fit into n places.                                  *)
LEMMA NoInjection ==
  ASSUME NEW n \in Nat, NEW f \in [1 .. n + 1 -> 1 .. n]
  PROVE  \E i, j \in 1 .. n + 1 : i # j /\ f[i] = f[j]
<1> DEFINE S == 1 .. n + 1
           T == 1 .. n
<1>1. Cardinality(T) = n /\ IsFiniteSet(T)
  BY FS_Interval
<1>2. Cardinality(S) = n + 1 /\ IsFiniteSet(S)
  BY FS_Interval
<1>3. Cardinality(T) < Cardinality(S)
  BY <1>1, <1>2
<1>4. f \in [S -> T]
  OBVIOUS
<1> HIDE DEF S, T
<1>5. \E i, j \in S : i # j /\ f[i] = f[j]
  BY <1>1, <1>2, <1>3, <1>4, FS_PigeonHole, ZenonT(30)
<1> QED BY <1>5 DEF S

USE SlabAssumption, NoThreadAssumption

(* A chunk is a pair of a block and a slot.                                *)
LEMMA ChunkPair ==
  /\ \A c \in Chunk : c[1] \in Block /\ c[2] \in Slot /\ c = <<c[1], c[2]>>
  /\ \A b \in Block, i \in Slot : /\ <<b, i>> \in Chunk
                                  /\ <<b, i>>[1] = b /\ <<b, i>>[2] = i
BY DEF Chunk

(* Where a thread stands that gives a chunk back.                          *)
Returning == {"pfree", "lock", "push"}
USE DEF Returning

(* The chunk a thread has in its hands, in the pcs of this module.          *)
LEMMA InHandIs ==
  ASSUME TypeOK, NEW t \in Thread
  PROVE  InHand(t) = IF pc[t] \in Returning THEN {mem[t]} ELSE {}
BY DEF InHand, TypeOK

LEMMA InHandIsNext ==
  ASSUME TypeOK', NEW t \in Thread
  PROVE  InHand(t)' = IF pc'[t] \in Returning THEN {mem'[t]} ELSE {}
BY DEF InHand, TypeOK

(* Each entry of a usage stack is a chunk of the block's own arena.        *)
LEMMA SlotInArena ==
  ASSUME TypeOK, PoolSafe, NEW b \in Block, NEW i \in 1 .. capacity[b]
  PROVE  /\ i \in Slot
         /\ slot[b][i] \in Chunk
         /\ slot[b][i][1] = b
         /\ slot[b][i][2] \in 1 .. capacity[b]
<1>1. capacity[b] \in 0 .. MaxCapacity /\ capacity[b] # 0
  BY DEF TypeOK
<1>2. i \in Slot /\ b \in Mapped
  BY <1>1, SlabAssumption DEF Slot, Mapped
<1>3. slot[b] \in [Slot -> Chunk]
  BY DEF TypeOK
<1>4. slot[b][i] \in {b} \X (1 .. capacity[b])
  BY <1>2 DEF PoolSafe
<1> QED BY <1>2, <1>3, <1>4

(* pfree never writes past the end of usage_stack (frl_slab_pool.c:208):   *)
(* the chunk it brings and those on the stack are different chunks of one  *)
(* arena, so there is room for one more.                                   *)
LEMMA RoomToPush ==
  ASSUME ChunkInv
  PROVE  PushInBounds
<1> SUFFICES ASSUME NEW t \in Thread, pc[t] = "push", ~(sp[blk[t]] < capacity[blk[t]])
             PROVE  FALSE
  BY DEF PushInBounds
<1>0. PICK b \in Block : b = blk[t]
  BY DEF ChunkInv, TypeOK
<1>1. PICK n \in Nat : n = sp[b]
  BY DEF ChunkInv, TypeOK
<1>2. /\ n = capacity[b]
      /\ mem[t] \in Chunk /\ mem[t][1] = b /\ mem[t][2] \in 1 .. n
  BY <1>0, <1>1, ChunkPair, SlabAssumption DEF ChunkInv, TypeOK, Inside, Slot
<1>3. \A i \in 1 .. n : /\ slot[b][i] \in Chunk /\ slot[b][i][1] = b
                        /\ slot[b][i][2] \in 1 .. n
  BY <1>2, SlotInArena DEF ChunkInv
<1> DEFINE f == [i \in 1 .. n + 1 |-> IF i = n + 1 THEN mem[t][2] ELSE slot[b][i][2]]
<1>4. f \in [1 .. n + 1 -> 1 .. n]
  BY <1>2, <1>3
<1>5. PICK i \in 1 .. n + 1, j \in 1 .. n + 1 : i # j /\ f[i] = f[j]
  BY <1>4, NoInjection
<1>6. \A k \in 1 .. n : slot[b][k][2] # mem[t][2]
  <2> SUFFICES ASSUME NEW k \in 1 .. n, slot[b][k][2] = mem[t][2] PROVE FALSE
    OBVIOUS
  <2>1. slot[b][k] = mem[t]
    BY <1>2, <1>3, ChunkPair
  <2>2. mem[t] \in Stacked(b)
    BY <1>1, <2>1 DEF Stacked
  <2>3. mem[t] \in InHand(t)
    BY InHandIs DEF ChunkInv
  <2> QED BY <2>2, <2>3 DEF ChunkInv, Exclusive
<1>7. \A k, m \in 1 .. n : slot[b][k][2] = slot[b][m][2] => k = m
  <2> SUFFICES ASSUME NEW k \in 1 .. n, NEW m \in 1 .. n, slot[b][k][2] = slot[b][m][2]
               PROVE  k = m
    OBVIOUS
  <2>1. slot[b][k] = slot[b][m]
    BY <1>3, ChunkPair
  <2> QED BY <1>1, <2>1 DEF ChunkInv, Exclusive
<1> QED BY <1>5, <1>6, <1>7

-----------------------------------------------------------------------------

LEMMA InitChunkInv == Init => ChunkInv
<1> SUFFICES ASSUME Init PROVE ChunkInv
  OBVIOUS
<1> USE DEF Init, SlabInit, InitPool, InitClient
<1>1. TypeOK
  BY ChunkPair DEF TypeOK, FreshSlots, Gone, Block, Slot
<1>2. MutexHeld
  BY DEF MutexHeld
<1>3. Inside
  BY DEF Inside, Gone
<1>4. PoolSafe
  BY DEF PoolSafe, Mapped, FreshSlots, Block, Slot
<1>5. Exclusive
  BY InHandIs, <1>1 DEF Exclusive, Stacked, FreshSlots, Slot, Block
<1>6. HeaderTrue
  BY DEF HeaderTrue
<1> QED BY <1>1, <1>2, <1>3, <1>4, <1>5, <1>6 DEF ChunkInv

-----------------------------------------------------------------------------
(* Each action of a thread keeps the invariant.                            *)

(* Steps that touch neither a chunk nor a stack.                           *)
LEMMA WalkKeeps ==
  ASSUME ChunkInv, NEW t \in Thread,
         \/ CallPalloc(t) /\ UNCHANGED mutex
         \/ PallocLock(t) \/ PallocNext(t) \/ PallocFail(t)
  PROVE  ChunkInv'
<1> USE DEF ChunkInv, CallPalloc, PallocLock, LockMutex, PallocNext, Closes, PallocFail, Return,
            poolVars, headerVars, localVars
<1>0. /\ UNCHANGED <<capacity, next, slot, sp, poolBlock, maxCapacity, home,
                     occupied, refcount, owners>>
      /\ pc[t] \in {"idle", "palloc", "search", "grow"}
      /\ poolBlock # Gone
  BY DEF Inside, AllIdle
<1>1. TypeOK'
  <2>1. CASE CallPalloc(t) /\ UNCHANGED mutex
    BY <2>1 DEF TypeOK
  <2>2. CASE PallocLock(t)
    BY <1>0, <2>2 DEF TypeOK
  <2>3. CASE PallocNext(t)
    BY <2>3 DEF TypeOK
  <2>4. CASE PallocFail(t)
    <3>1. 1 \in Block
      BY SlabAssumption DEF Block
    <3> QED BY <2>4, <3>1 DEF TypeOK
  <2> QED BY <2>1, <2>2, <2>3, <2>4
<1>2. MutexHeld'
  BY DEF MutexHeld, TypeOK
<1>3. \A u \in Thread : /\ pc'[u] \in Returning <=> pc[u] \in Returning
                        /\ pc[u] \in Returning => pc'[u] = pc[u]
                        /\ pc[u] \in Returning => mem'[u] = mem[u] /\ blk'[u] = blk[u]
  BY DEF TypeOK
<1>4. Inside'
  BY <1>0, <1>3 DEF Inside
<1>5. PoolSafe'
  BY <1>0 DEF PoolSafe, Mapped
<1>6. \A u \in Thread : InHand(u)' = InHand(u)
  <2> HIDE DEF CallPalloc, PallocLock, PallocNext, PallocFail
  <2> SUFFICES ASSUME NEW u \in Thread PROVE InHand(u)' = InHand(u)
    OBVIOUS
  <2>1. CASE pc[u] \in Returning
    BY <1>1, <1>3, <2>1, InHandIs, InHandIsNext
  <2>2. CASE pc[u] \notin Returning
    BY <1>1, <1>3, <2>2, InHandIs, InHandIsNext
  <2> QED BY <2>1, <2>2
<1>7. Exclusive'
  BY <1>0, <1>6 DEF Exclusive, Stacked
<1>8. HeaderTrue'
  BY <1>0, <1>3 DEF HeaderTrue
<1> QED BY <1>1, <1>2, <1>4, <1>5, <1>7, <1>8

(* pfree reads the block of its chunk from the header.                     *)
LEMMA PfreeStartKeeps ==
  ASSUME ChunkInv, NEW t \in Thread, PfreeStart(t)
  PROVE  ChunkInv'
<1> USE DEF ChunkInv, PfreeStart, MemBlock, poolVars, headerVars
<1>1. /\ pc[t] = "pfree" /\ mem[t] \in Chunk
      /\ home[mem[t]] = mem[t][1] /\ mem[t][1] \in Block
      /\ mem[t][2] <= capacity[mem[t][1]]
  BY ChunkPair DEF Inside, HeaderTrue
<1>2. TypeOK'
  BY <1>1 DEF TypeOK
<1>3. MutexHeld'
  BY DEF MutexHeld, TypeOK
<1>4. Inside'
  BY <1>1 DEF Inside, TypeOK, AllIdle
<1>5. PoolSafe'
  BY DEF PoolSafe, Mapped
<1>6. \A u \in Thread : InHand(u)' = InHand(u)
  <2>1. \A u \in Thread : /\ pc'[u] \in Returning <=> pc[u] \in Returning
                          /\ mem'[u] = mem[u]
    BY DEF TypeOK
  <2> QED BY <1>2, <2>1, InHandIs, InHandIsNext
<1>7. Exclusive'
  BY <1>6 DEF Exclusive, Stacked
<1>8. HeaderTrue'
  BY DEF HeaderTrue, TypeOK
<1> QED BY <1>2, <1>3, <1>4, <1>5, <1>7, <1>8

(* pfree, waiting for the mutex, gets it.                                  *)
LEMMA PfreeLockKeeps ==
  ASSUME ChunkInv, NEW t \in Thread, PfreeLock(t)
  PROVE  ChunkInv'
<1> USE DEF ChunkInv, PfreeLock, LockMutex, poolVars, headerVars, localVars
<1>1. TypeOK'
  BY DEF TypeOK
<1>2. MutexHeld'
  BY DEF MutexHeld, TypeOK
<1>3. Inside'
  BY DEF Inside, TypeOK, AllIdle
<1>4. PoolSafe'
  BY DEF PoolSafe, Mapped
<1>5. \A u \in Thread : InHand(u)' = InHand(u)
  <2>1. \A u \in Thread : pc'[u] \in Returning <=> pc[u] \in Returning
    BY DEF TypeOK
  <2> QED BY <1>1, <2>1, InHandIs, InHandIsNext
<1>6. Exclusive'
  BY <1>5 DEF Exclusive, Stacked
<1>7. HeaderTrue'
  BY DEF HeaderTrue, TypeOK
<1> QED BY <1>1, <1>2, <1>3, <1>4, <1>6, <1>7

(* The only user of a chunk enters pfree, by a call of its own or by the   *)
(* unref that reaches 0.                                                   *)
LEMMA LastUserKeeps ==
  ASSUME ChunkInv, NEW t \in Thread, NEW c \in Chunk,
         pc[t] = "idle", owners[c] = {t},
         owners' = [owners EXCEPT ![c] = {}],
         mem' = [mem EXCEPT ![t] = c],
         pc' = [pc EXCEPT ![t] = "pfree"],
         refcount' \in [Chunk -> Nat],
         \A d \in Chunk \ {c} : refcount'[d] = refcount[d],
         UNCHANGED <<poolVars, home, occupied, blk, last, mutex>>
  PROVE  ChunkInv'
<1> USE DEF ChunkInv, poolVars
<1>1. pc[t] = "idle" /\ owners[c] = {t} /\ owners'[c] = {} /\ poolBlock # Gone
  BY DEF Inside, TypeOK
<1>2. TypeOK'
  BY DEF TypeOK
<1>3. MutexHeld'
  BY DEF MutexHeld, TypeOK
<1>4. Inside'
  BY <1>1 DEF Inside, TypeOK
<1>5. PoolSafe'
  BY DEF PoolSafe, Mapped
<1>6. \A u \in Thread : InHand(u)' = IF u = t THEN {c} ELSE InHand(u)
  <2>1. pc'[t] = "pfree" /\ mem'[t] = c
    BY DEF TypeOK
  <2>2. \A u \in Thread \ {t} : pc'[u] = pc[u] /\ mem'[u] = mem[u]
    BY DEF TypeOK
  <2>3. InHand(t)' = {c}
    BY <1>2, <2>1, InHandIsNext
  <2>4. ASSUME NEW u \in Thread \ {t} PROVE InHand(u)' = InHand(u)
    <3>1. TypeOK
      OBVIOUS
    <3> QED BY <1>2, <2>2, <3>1, InHandIs, InHandIsNext
  <2> QED BY <2>3, <2>4
<1>7. InHand(t) = {} /\ \A u \in Thread : c \notin InHand(u)
  BY <1>1 DEF Exclusive, InHand
<1>8. Exclusive'
  <2>1. \A d \in Chunk : owners'[d] = IF d = c THEN {} ELSE owners[d]
    BY DEF TypeOK
  <2>2. \A b \in Block : Stacked(b)' = Stacked(b) /\ c \notin Stacked(b)
    BY <1>1 DEF Exclusive, Stacked
  <2>3. ASSUME NEW u \in Thread, NEW d \in InHand(u)'
        PROVE  /\ owners'[d] = {}
               /\ \A v \in Thread \ {u} : d \notin InHand(v)'
               /\ \A b \in Block : d \notin Stacked(b)'
    <3>1. d \in Chunk
      BY <1>6, <2>3, InHandIs DEF Inside
    <3> QED BY <1>1, <1>6, <1>7, <2>1, <2>2, <2>3, <3>1 DEF Exclusive
  <2>4. \A d \in Chunk : owners'[d] # {} => \A b \in Block : d \notin Stacked(b)'
    BY <2>1, <2>2 DEF Exclusive
  <2>5. \A b \in Block : \A i, j \in 1 .. sp'[b] : slot'[b][i] = slot'[b][j] => i = j
    BY DEF Exclusive
  <2> QED BY <2>3, <2>4, <2>5 DEF Exclusive
<1>9. HeaderTrue'
  <2>1. \A d \in Chunk : owners'[d] = IF d = c THEN {} ELSE owners[d]
    BY DEF TypeOK
  <2>2. mem'[t] = c /\ \A u \in Thread \ {t} : pc'[u] = pc[u] /\ mem'[u] = mem[u]
    BY DEF TypeOK
  <2>3. occupied[c] /\ home[c] = c[1] /\ c[2] <= capacity[c[1]]
    BY <1>1 DEF HeaderTrue
  <2>4. ASSUME NEW d \in Chunk,
               owners'[d] # {} \/ (\E u \in Thread : pc'[u] = "pfree" /\ mem'[u] = d)
        PROVE  occupied[d] /\ home[d] = d[1] /\ d[2] <= capacity[d[1]]
    <3>1. \/ d = c
          \/ owners[d] # {} \/ (\E u \in Thread : pc[u] = "pfree" /\ mem[u] = d)
      BY <2>1, <2>2, <2>4
    <3> QED BY <2>3, <3>1 DEF HeaderTrue
  <2>5. \A d \in Chunk : owners'[d] # {} => refcount'[d] = Cardinality(owners'[d])
    BY <2>1 DEF HeaderTrue
  <2> QED BY <2>4, <2>5 DEF HeaderTrue
<1> QED BY <1>2, <1>3, <1>4, <1>5, <1>8, <1>9

(* frl_slab_ref: one more user, one more reference.                        *)
LEMMA SlabRefKeeps ==
  ASSUME ChunkInv, NEW t \in Thread, NEW u \in Thread, NEW c \in Chunk,
         SlabRef(t, u, c), UNCHANGED mutex
  PROVE  ChunkInv'
<1> USE DEF ChunkInv, SlabRef, poolVars, localVars
<1>1. /\ owners[c] \subseteq Thread /\ owners[c] # {}
      /\ owners'[c] = owners[c] \cup {u} /\ u \notin owners[c]
      /\ refcount'[c] = refcount[c] + 1
      /\ \A d \in Chunk \ {c} : owners'[d] = owners[d] /\ refcount'[d] = refcount[d]
  BY DEF TypeOK
<1>2. TypeOK'
  BY DEF TypeOK
<1>3. MutexHeld'
  BY DEF MutexHeld
<1>4. Inside'
  BY <1>1 DEF Inside, AllIdle
<1>5. PoolSafe'
  BY DEF PoolSafe, Mapped
<1>6. \A v \in Thread : InHand(v)' = InHand(v) /\ InHand(v) \subseteq Chunk
  BY InHandIs DEF Inside, InHand
<1>7. Exclusive'
  BY <1>1, <1>6 DEF Exclusive, Stacked
<1>8. Cardinality(owners'[c]) = refcount'[c]
  <2>1. IsFiniteSet(owners[c])
    BY <1>1, FS_Subset
  <2>2. Cardinality(owners[c] \cup {u}) = Cardinality(owners[c]) + 1
    BY <1>1, <2>1, FS_AddElement
  <2>3. Cardinality(owners[c]) = refcount[c]
    BY <1>1 DEF HeaderTrue
  <2> QED BY <1>1, <2>2, <2>3
<1>9. HeaderTrue'
  <2>1. \A d \in Chunk : owners'[d] # {} => owners[d] # {}
    BY <1>1
  <2>2. \A d \in Chunk : owners'[d] # {} => refcount'[d] = Cardinality(owners'[d])
    <3>1. \A d \in Chunk : owners[d] # {} => refcount[d] = Cardinality(owners[d])
      BY DEF HeaderTrue
    <3>2. \A d \in Chunk \ {c} : Cardinality(owners'[d]) = Cardinality(owners[d])
      BY <1>1
    <3> HIDE DEF SlabRef, ChunkInv
    <3> QED BY <1>1, <1>8, <2>1, <3>1, <3>2
  <2>3. \A d \in Chunk :
          owners'[d] # {} \/ (\E v \in Thread : pc'[v] = "pfree" /\ mem'[v] = d)
          => occupied'[d] /\ home'[d] = d[1] /\ d[2] <= capacity'[d[1]]
    BY <2>1 DEF HeaderTrue
  <2> QED BY <2>2, <2>3 DEF HeaderTrue
<1> QED BY <1>2, <1>3, <1>4, <1>5, <1>7, <1>9

(* frl_slab_unref: the reference that goes is the user's, and 0 means that *)
(* no user is left.                                                        *)
LEMMA SlabUnrefKeeps ==
  ASSUME ChunkInv, NEW t \in Thread, NEW c \in Chunk, SlabUnref(t, c), UNCHANGED mutex
  PROVE  ChunkInv'
<1> USE DEF ChunkInv, SlabUnref, DropsLast, poolVars
<1>1. /\ owners[c] \subseteq Thread /\ t \in owners[c] /\ refcount[c] \in Nat
      /\ refcount[c] = Cardinality(owners[c])
      /\ refcount'[c] = refcount[c] - 1
      /\ owners' = [owners EXCEPT ![c] = owners[c] \ {t}]
      /\ \A d \in Chunk \ {c} : owners'[d] = owners[d] /\ refcount'[d] = refcount[d]
  BY DEF TypeOK, HeaderTrue
<1>2. IsFiniteSet(owners[c]) /\ IsFiniteSet(owners[c] \ {t})
  BY <1>1, FS_Subset, FS_RemoveElement
<1>3. Cardinality(owners[c] \ {t}) = refcount[c] - 1 /\ refcount[c] - 1 \in Nat
  <2>1. Cardinality(owners[c] \ {t}) = refcount[c] - 1
    BY <1>1, <1>2, FS_RemoveElement
  <2> QED BY <1>2, <2>1, FS_CardinalityType
<1>4. refcount' \in [Chunk -> Nat]
  BY <1>1, <1>3 DEF TypeOK
<1>5. CASE refcount[c] = 1
  <2>1. owners[c] \ {t} = {}
    BY <1>1, <1>2, <1>3, <1>5, FS_EmptySet
  <2>2. owners[c] = {t} /\ owners' = [owners EXCEPT ![c] = {}]
    BY <1>1, <2>1
  <2> QED BY <1>1, <1>4, <1>5, <2>2, LastUserKeeps
<1>6. CASE refcount[c] # 1
  <2> UNCHANGED <<mem, pc>>
    BY <1>6
  <2>1. TypeOK'
    BY <1>4 DEF TypeOK
  <2>2. MutexHeld'
    BY DEF MutexHeld
  <2>3. Inside'
    BY <1>1 DEF Inside, AllIdle
  <2>4. PoolSafe'
    BY DEF PoolSafe, Mapped
  <2>5. \A v \in Thread : InHand(v)' = InHand(v) /\ InHand(v) \subseteq Chunk
    BY InHandIs DEF Inside, InHand
  <2>6. Exclusive'
    BY <1>1, <2>5 DEF Exclusive, Stacked
  <2>7. owners'[c] = owners[c] \ {t}
    BY DEF TypeOK
  <2>8. HeaderTrue'
    BY <1>1, <1>3, <2>7 DEF HeaderTrue
  <2> QED BY <2>1, <2>2, <2>3, <2>4, <2>6, <2>8
<1> QED BY <1>5, <1>6

(* palloc pops the top chunk of a stack and hands it out.                  *)
LEMMA PallocPopKeeps ==
  ASSUME ChunkInv, NEW t \in Thread, PallocPop(t)
  PROVE  ChunkInv'
<1> DEFINE b == blk[t]
           n == sp[b]
           c == slot[b][n]
<1> USE DEF ChunkInv
<1>1. /\ pc[t] = "search" /\ mutex = t /\ mutex' = NoThread
      /\ b \in Block /\ n \in 1 .. capacity[b] /\ n <= MaxCapacity
      /\ c \in Chunk /\ c[1] = b /\ c[2] \in 1 .. capacity[b]
      /\ capacity[b] \in Nat
  <2>1. /\ pc[t] = "search" /\ mutex = t /\ mutex' = NoThread /\ b \in Block
        /\ n \in 1 .. capacity[b] /\ n <= MaxCapacity /\ capacity[b] \in Nat
    BY SlabAssumption DEF PallocPop, TypeOK, MutexHeld, Inside
  <2> QED BY <2>1, SlotInArena
<1>2. c \in Stacked(b)
  BY <1>1 DEF Stacked
<1>3. owners[c] = {} /\ \A u \in Thread : c \notin InHand(u)
  BY <1>1, <1>2 DEF Exclusive
<1>4. TypeOK'
  <2>1. 1 \in Block
    BY SlabAssumption DEF Block
  <2>2. sp' \in [Block -> 0 .. MaxCapacity]
    BY <1>1, SlabAssumption DEF PallocPop, TypeOK
  <2>3. /\ home' \in [Chunk -> Block] /\ occupied' \in [Chunk -> BOOLEAN]
        /\ refcount' \in [Chunk -> Nat]
    BY <1>1 DEF PallocPop, WriteHeader, TypeOK
  <2>4. /\ owners' \in [Chunk -> SUBSET Thread] /\ poolBlock' \in Block
    BY <1>1 DEF PallocPop, TypeOK
  <2> QED BY <1>1, <2>1, <2>2, <2>3, <2>4 DEF PallocPop, Return, TypeOK
<1>5. /\ sp' = [sp EXCEPT ![b] = n - 1]
      /\ owners' = [owners EXCEPT ![c] = {t}]
      /\ home' = [home EXCEPT ![c] = b]
      /\ occupied' = [occupied EXCEPT ![c] = TRUE]
      /\ refcount' = [refcount EXCEPT ![c] = 1]
      /\ pc' = [pc EXCEPT ![t] = "idle"]
      /\ \A u \in Thread \ {t} : mem'[u] = mem[u] /\ blk'[u] = blk[u]
      /\ poolBlock' = b /\ UNCHANGED <<capacity, slot>>
  BY DEF PallocPop, WriteHeader, Return, TypeOK
<1> HIDE DEF b, n, c
<1>6. MutexHeld'
  BY <1>1, <1>5 DEF MutexHeld, TypeOK
<1>7. Inside'
  <2>1. \A a \in Block : sp'[a] <= capacity'[a]
    BY <1>1, <1>5 DEF TypeOK, Inside
  <2>2. poolBlock' # Gone
    BY <1>1, <1>5 DEF Block, Gone
  <2> QED BY <1>5, <2>1, <2>2 DEF TypeOK, Inside
<1>8. PoolSafe'
  BY <1>5 DEF PoolSafe, Mapped
<1>9. \A u \in Thread : InHand(u)' = InHand(u) /\ InHand(u) \subseteq Chunk
  <2>1. \A u \in Thread : InHand(u)' = InHand(u)
    <3>1. \A u \in Thread :
            /\ pc'[u] \in Returning <=> pc[u] \in Returning
            /\ pc[u] \in Returning => mem'[u] = mem[u]
      BY <1>1, <1>5 DEF TypeOK
    <3> QED BY <1>4, <3>1, InHandIs, InHandIsNext
  <2> QED BY <2>1, InHandIs DEF Inside
<1>10. \A a \in Block : Stacked(a)' \subseteq Stacked(a) /\ c \notin Stacked(a)'
  <2> SUFFICES ASSUME NEW a \in Block
               PROVE  Stacked(a)' \subseteq Stacked(a) /\ c \notin Stacked(a)'
    OBVIOUS
  <2>1. CASE a # b
    <3>1. Stacked(a)' = Stacked(a)
      BY <1>5, <2>1 DEF Stacked, TypeOK
    <3>2. \A i \in 1 .. sp[a] : slot[a][i][1] = a
      BY SlotInArena DEF Inside, TypeOK
    <3> QED BY <1>1, <2>1, <3>1, <3>2 DEF Stacked
  <2>2. CASE a = b
    <3>1. sp'[b] = n - 1 /\ slot' = slot /\ sp[b] = n
      BY <1>1, <1>5 DEF TypeOK, n
    <3>2. \A i \in 1 .. n - 1 : slot[b][i] # c
      BY <1>1, <3>1 DEF Exclusive, c
    <3> QED BY <1>1, <2>2, <3>1, <3>2 DEF Stacked
  <2> QED BY <2>1, <2>2
<1>11. Exclusive'
  <2>1. \A d \in Chunk : owners'[d] = IF d = c THEN {t} ELSE owners[d]
    BY <1>1, <1>5 DEF TypeOK
  <2>2. \A a \in Block : sp'[a] \in 0 .. sp[a] /\ sp[a] \in Nat
    BY <1>1, <1>5 DEF TypeOK, n
  <2>3. \A a \in Block : \A i, j \in 1 .. sp'[a] : slot'[a][i] = slot'[a][j] => i = j
    BY <1>5, <2>2 DEF Exclusive
  <2> QED BY <1>3, <1>9, <1>10, <2>1, <2>3 DEF Exclusive
<1>12. HeaderTrue'
  <2>1. Cardinality({t}) = 1
    BY FS_Singleton
  <2>2. \A d \in Chunk \ {c} :
          /\ owners'[d] = owners[d] /\ refcount'[d] = refcount[d]
          /\ home'[d] = home[d] /\ occupied'[d] = occupied[d]
    BY <1>5 DEF TypeOK
  <2>3. owners'[c] = {t} /\ refcount'[c] = 1 /\ home'[c] = b /\ occupied'[c] = TRUE
    BY <1>1, <1>5 DEF TypeOK
  <2>4. \A u \in Thread : pc'[u] = "pfree" => pc[u] = "pfree" /\ mem'[u] = mem[u]
    BY <1>5 DEF TypeOK
  <2>5. ASSUME NEW d \in Chunk, d # c,
               owners'[d] # {} \/ (\E u \in Thread : pc'[u] = "pfree" /\ mem'[u] = d)
        PROVE  occupied'[d] /\ home'[d] = d[1] /\ d[2] <= capacity'[d[1]]
    <3>1. owners[d] # {} \/ (\E u \in Thread : pc[u] = "pfree" /\ mem[u] = d)
      BY <2>2, <2>4, <2>5
    <3> QED BY <1>5, <2>2, <2>5, <3>1 DEF HeaderTrue
  <2>6. occupied'[c] /\ home'[c] = c[1] /\ c[2] <= capacity'[c[1]]
    BY <1>1, <1>5, <2>3
  <2>7. \A d \in Chunk : owners'[d] # {} => refcount'[d] = Cardinality(owners'[d])
    <3>1. \A d \in Chunk : owners[d] # {} => refcount[d] = Cardinality(owners[d])
      BY DEF HeaderTrue
    <3> QED BY <2>1, <2>2, <2>3, <3>1
  <2> QED BY <2>5, <2>6, <2>7 DEF HeaderTrue
<1> QED BY <1>4, <1>6, <1>7, <1>8, <1>11, <1>12

(* palloc found the ring exhausted and hands out the top chunk of a block  *)
(* that nobody knew before.                                                *)
LEMMA PallocGrowKeeps ==
  ASSUME ChunkInv, NEW t \in Thread, NEW b \in Block, PallocGrow(t, b)
  PROVE  ChunkInv'
<1> DEFINE n == 2 * maxCapacity
           c == <<b, n>>
<1> USE DEF ChunkInv
<1>1. /\ pc[t] = "grow" /\ mutex = t /\ mutex' = NoThread
      /\ capacity[b] = 0 /\ sp[b] = 0
      /\ n \in Nat /\ n \in Slot /\ n - 1 \in 0 .. MaxCapacity /\ n \in 0 .. MaxCapacity
      /\ n \in Capacity .. MaxCapacity
      /\ last[t] \in Block /\ next[last[t]] \in Block
  BY SlabAssumption DEF PallocGrow, MallocGives, TypeOK, MutexHeld, Mapped, Inside, Slot
<1>2. c \in Chunk /\ c[1] = b /\ c[2] = n
  BY <1>1, ChunkPair
<1>3. /\ capacity' = [capacity EXCEPT ![b] = n]
      /\ slot' = [slot EXCEPT ![b] = FreshSlots(b)]
      /\ sp' = [sp EXCEPT ![b] = n - 1]
      /\ owners' = [owners EXCEPT ![c] = {t}]
      /\ home' = [home EXCEPT ![c] = b]
      /\ occupied' = [occupied EXCEPT ![c] = TRUE]
      /\ refcount' = [refcount EXCEPT ![c] = 1]
      /\ pc' = [pc EXCEPT ![t] = "idle"]
      /\ \A u \in Thread \ {t} : mem'[u] = mem[u] /\ blk'[u] = blk[u]
      /\ poolBlock' = b
  BY DEF PallocGrow, TakeFromNewBlock, WriteHeader, Return, TypeOK
<1>4. TypeOK'
  <2>1. 1 \in Block
    BY SlabAssumption DEF Block
  <2>2. FreshSlots(b) \in [Slot -> Chunk]
    BY ChunkPair DEF FreshSlots
  <2>3. /\ capacity' \in [Block -> 0 .. MaxCapacity] /\ sp' \in [Block -> 0 .. MaxCapacity]
        /\ slot' \in [Block -> [Slot -> Chunk]]
        /\ next' \in [Block -> Block]
        /\ maxCapacity' \in Capacity .. MaxCapacity
        /\ poolBlock' \in Block
    <3>1. capacity' \in [Block -> 0 .. MaxCapacity] /\ sp' \in [Block -> 0 .. MaxCapacity]
      BY <1>1, <1>3 DEF TypeOK
    <3>2. slot' \in [Block -> [Slot -> Chunk]]
      BY <1>3, <2>2 DEF TypeOK
    <3>3. next' \in [Block -> Block]
      BY <1>1 DEF PallocGrow, LinkBehind, TypeOK
    <3> QED BY <1>1, <1>3, <3>1, <3>2, <3>3 DEF PallocGrow, DoubleMax
  <2>4. /\ home' \in [Chunk -> Block] /\ occupied' \in [Chunk -> BOOLEAN]
        /\ refcount' \in [Chunk -> Nat] /\ owners' \in [Chunk -> SUBSET Thread]
    BY <1>2, <1>3 DEF TypeOK
  <2> QED BY <1>1, <2>1, <2>3, <2>4 DEF PallocGrow, Return, TypeOK
<1> HIDE DEF n, c
<1>5. MutexHeld'
  BY <1>1, <1>3 DEF MutexHeld, TypeOK
<1>6. \A d \in Chunk : \/ owners[d] # {}
                       \/ \E u \in Thread : pc[u] \in Returning /\ mem[u] = d
                       => d[1] # b /\ d # c
  <2> SUFFICES ASSUME NEW d \in Chunk,
                      \/ owners[d] # {}
                      \/ \E u \in Thread : pc[u] \in Returning /\ mem[u] = d
               PROVE  d[1] # b /\ d # c
    OBVIOUS
  <2>1. d[2] <= capacity[d[1]] /\ d[2] \in Slot
    BY ChunkPair DEF HeaderTrue, Inside
  <2> QED BY <1>1, <1>2, <2>1, SlabAssumption DEF Slot
<1>7. Inside'
  <2>1. poolBlock' # Gone
    BY <1>3 DEF Block, Gone
  <2>2. \A a \in Block : sp'[a] <= capacity'[a]
    BY <1>1, <1>3 DEF Inside, TypeOK
  <2>3. ASSUME NEW u \in Thread, pc'[u] \in {"lock", "push"}
        PROVE  blk'[u] = mem'[u][1] /\ mem'[u][2] <= capacity'[blk'[u]]
    BY <1>3, <1>6, <2>3 DEF Inside, TypeOK
  <2>4. \A u \in Thread : pc'[u] \in Returning => mem'[u] \in Chunk
    BY <1>3 DEF Inside, TypeOK
  <2> QED BY <2>1, <2>2, <2>3, <2>4 DEF Inside
<1>8. PoolSafe'
  <2> SUFFICES ASSUME NEW a \in Block, NEW i \in 1 .. capacity'[a], capacity'[a] # 0
               PROVE  slot'[a][i] \in {a} \X (1 .. capacity'[a])
    BY DEF PoolSafe, Mapped
  <2>1. CASE a = b
    <3>1. capacity'[b] = n /\ slot'[b] = FreshSlots(b)
      BY <1>3 DEF TypeOK
    <3>2. i \in Slot /\ i \in 1 .. n
      BY <1>1, <2>1, <3>1, SlabAssumption DEF Slot
    <3> QED BY <2>1, <3>1, <3>2 DEF FreshSlots
  <2>2. CASE a # b
    <3>1. capacity'[a] = capacity[a] /\ slot'[a] = slot[a]
      BY <1>3, <2>2 DEF TypeOK
    <3> QED BY <3>1 DEF PoolSafe, Mapped
  <2> QED BY <2>1, <2>2
<1>9. \A u \in Thread : InHand(u)' = InHand(u) /\ InHand(u) \subseteq Chunk
  <2>1. \A u \in Thread : InHand(u)' = InHand(u)
    <3>1. \A u \in Thread :
            /\ pc'[u] \in Returning <=> pc[u] \in Returning
            /\ pc[u] \in Returning => mem'[u] = mem[u]
      BY <1>1, <1>3 DEF TypeOK
    <3> QED BY <1>4, <3>1, InHandIs, InHandIsNext
  <2> QED BY <2>1, InHandIs DEF Inside
<1>10. /\ \A a \in Block \ {b} : Stacked(a)' = Stacked(a) /\ c \notin Stacked(a)
       /\ \A d \in Stacked(b)' : d[1] = b /\ d # c
       /\ \A i, j \in 1 .. sp'[b] : slot'[b][i] = slot'[b][j] => i = j
  <2>1. ASSUME NEW a \in Block, a # b
        PROVE  Stacked(a)' = Stacked(a) /\ c \notin Stacked(a)
    <3>1. sp'[a] = sp[a] /\ slot'[a] = slot[a]
      BY <1>3, <2>1 DEF TypeOK
    <3>2. \A i \in 1 .. sp[a] : slot[a][i][1] = a
      BY SlotInArena DEF Inside, TypeOK
    <3> QED BY <1>2, <2>1, <3>1, <3>2 DEF Stacked
  <2>2. sp'[b] = n - 1 /\ \A i \in 1 .. n - 1 : slot'[b][i] = <<b, i>>
    <3>1. sp'[b] = n - 1 /\ slot'[b] = FreshSlots(b)
      BY <1>3 DEF TypeOK
    <3> QED BY <1>1, <3>1 DEF FreshSlots, Slot
  <2>3. \A d \in Stacked(b)' : d[1] = b /\ d # c
    <3> SUFFICES ASSUME NEW i \in 1 .. n - 1
                 PROVE  <<b, i>>[1] = b /\ <<b, i>>[2] # c[2]
      BY <2>2 DEF Stacked
    <3> QED BY <1>1, <1>2
  <2>4. \A i, j \in 1 .. sp'[b] : slot'[b][i] = slot'[b][j] => i = j
    BY <2>2
  <2> QED BY <2>1, <2>3, <2>4
<1>11. Exclusive'
  <2>1. \A d \in Chunk : owners'[d] = IF d = c THEN {t} ELSE owners[d]
    BY <1>3 DEF TypeOK
  <2>2. \A a \in Block \ {b} : sp'[a] = sp[a] /\ slot'[a] = slot[a]
    BY <1>3 DEF TypeOK
  <2>3. \A a \in Block : \A i, j \in 1 .. sp'[a] : slot'[a][i] = slot'[a][j] => i = j
    BY <1>10, <2>2 DEF Exclusive
  <2>4. ASSUME NEW u \in Thread, NEW d \in InHand(u)
        PROVE  /\ d \in Chunk /\ owners[d] = {} /\ d # c /\ d[1] # b
               /\ \A v \in Thread \ {u} : d \notin InHand(v)
               /\ \A a \in Block : d \notin Stacked(a)'
    <3>1. d \in Chunk /\ d[1] # b /\ d # c
      BY <1>6, <1>9, <2>4, InHandIs
    <3> QED BY <1>10, <2>4, <3>1 DEF Exclusive
  <2>5. ASSUME NEW d \in Chunk, owners'[d] # {}, NEW a \in Block
        PROVE  d \notin Stacked(a)'
    BY <1>6, <1>10, <2>1, <2>5 DEF Exclusive
  <2> QED BY <1>9, <2>1, <2>3, <2>4, <2>5 DEF Exclusive
<1>12. HeaderTrue'
  <2>1. Cardinality({t}) = 1
    BY FS_Singleton
  <2>2. \A d \in Chunk \ {c} :
          /\ owners'[d] = owners[d] /\ refcount'[d] = refcount[d]
          /\ home'[d] = home[d] /\ occupied'[d] = occupied[d]
    BY <1>3 DEF TypeOK
  <2>3. owners'[c] = {t} /\ refcount'[c] = 1 /\ home'[c] = b /\ occupied'[c] = TRUE
    BY <1>2, <1>3 DEF TypeOK
  <2>4. \A u \in Thread : pc'[u] = "pfree" => pc[u] = "pfree" /\ mem'[u] = mem[u]
    BY <1>3 DEF TypeOK
  <2>5. ASSUME NEW d \in Chunk, d # c,
               owners'[d] # {} \/ (\E u \in Thread : pc'[u] = "pfree" /\ mem'[u] = d)
        PROVE  occupied'[d] /\ home'[d] = d[1] /\ d[2] <= capacity'[d[1]]
    <3>1. owners[d] # {} \/ (\E u \in Thread : pc[u] = "pfree" /\ mem[u] = d)
      BY <2>2, <2>4, <2>5
    <3>2. d[1] # b /\ d[1] \in Block
      BY <1>6, <3>1, ChunkPair
    <3>3. capacity'[d[1]] = capacity[d[1]]
      BY <1>3, <3>2 DEF TypeOK
    <3> QED BY <2>2, <2>5, <3>1, <3>3 DEF HeaderTrue
  <2>6. occupied'[c] /\ home'[c] = c[1] /\ c[2] <= capacity'[c[1]]
    BY <1>1, <1>2, <1>3, <2>3 DEF TypeOK
  <2>7. \A d \in Chunk : owners'[d] # {} => refcount'[d] = Cardinality(owners'[d])
    <3>1. \A d \in Chunk : owners[d] # {} => refcount[d] = Cardinality(owners[d])
      BY DEF HeaderTrue
    <3> QED BY <2>1, <2>2, <2>3, <3>1
  <2> QED BY <2>5, <2>6, <2>7 DEF HeaderTrue
<1> QED BY <1>4, <1>5, <1>7, <1>8, <1>11, <1>12

(* pfree puts the chunk on top of the stack of its block.                  *)
LEMMA PfreePushKeeps ==
  ASSUME ChunkInv, NEW t \in Thread, PfreePush(t)
  PROVE  ChunkInv'
<1> DEFINE b == blk[t]
           c == mem[t]
           n == sp[b] + 1
<1> USE DEF ChunkInv
<1>1. /\ pc[t] = "push" /\ mutex = t /\ mutex' = NoThread
      /\ b \in Block /\ c \in Chunk /\ c[1] = b /\ c[2] \in 1 .. capacity[b]
      /\ sp[b] = n - 1 /\ n \in 1 .. capacity[b] /\ n \in Slot /\ n \in 0 .. MaxCapacity
  <2>1. /\ pc[t] = "push" /\ mutex = t /\ mutex' = NoThread
        /\ b \in Block /\ c \in Chunk /\ c[1] = b /\ c[2] <= capacity[b]
    BY DEF PfreePush, MutexHeld, Inside, TypeOK
  <2>2. sp[b] < capacity[b]
    BY <2>1, RoomToPush DEF PushInBounds
  <2>3. sp[b] \in 0 .. MaxCapacity /\ capacity[b] \in 0 .. MaxCapacity /\ c[2] \in Slot
    BY <2>1, ChunkPair DEF TypeOK
  <2> QED BY <2>1, <2>2, <2>3, SlabAssumption DEF Slot
<1>2. c \in InHand(t) /\ owners[c] = {}
      /\ (\A u \in Thread \ {t} : c \notin InHand(u))
      /\ (\A a \in Block : c \notin Stacked(a))
  BY <1>1, InHandIs DEF Exclusive
<1>3. /\ sp' = [sp EXCEPT ![b] = n]
      /\ slot' = [slot EXCEPT ![b] = [slot[b] EXCEPT ![n] = c]]
      /\ occupied' = [occupied EXCEPT ![c] = FALSE]
      /\ pc' = [pc EXCEPT ![t] = "idle"]
      /\ \A u \in Thread \ {t} : mem'[u] = mem[u] /\ blk'[u] = blk[u]
      /\ UNCHANGED <<capacity, poolBlock, home, refcount, owners>>
  BY DEF PfreePush, Return, TypeOK
<1>4. TypeOK'
  <2>1. 1 \in Block
    BY SlabAssumption DEF Block
  <2>2. sp' \in [Block -> 0 .. MaxCapacity] /\ slot' \in [Block -> [Slot -> Chunk]]
        /\ occupied' \in [Chunk -> BOOLEAN]
    <3>1. slot[b] \in [Slot -> Chunk]
      BY <1>1 DEF TypeOK
    <3>2. [slot[b] EXCEPT ![n] = c] \in [Slot -> Chunk]
      BY <1>1, <3>1
    <3> HIDE DEF n, c, b
    <3> QED BY <1>1, <1>3, <3>2 DEF TypeOK
  <2> QED BY <1>1, <2>1, <2>2 DEF PfreePush, Return, TypeOK
<1> HIDE DEF b, c, n
<1>5. MutexHeld'
  BY <1>1, <1>3 DEF MutexHeld, TypeOK
<1>6. /\ \A a \in Block \ {b} : sp'[a] = sp[a] /\ slot'[a] = slot[a]
      /\ sp'[b] = n /\ slot'[b][n] = c
      /\ \A i \in Slot \ {n} : slot'[b][i] = slot[b][i]
  BY <1>1, <1>3 DEF TypeOK
<1>7. \A u \in Thread : /\ pc'[u] \in Returning <=> u # t /\ pc[u] \in Returning
                        /\ pc'[u] \in Returning => pc'[u] = pc[u]
  BY <1>1, <1>3 DEF TypeOK
<1>8. Inside'
  <2>1. \A a \in Block : sp'[a] <= capacity'[a]
    BY <1>1, <1>3, <1>6 DEF Inside
  <2>2. \A u \in Thread : pc'[u] \in Returning => mem'[u] \in Chunk
    BY <1>3, <1>7 DEF Inside
  <2>3. \A u \in Thread : pc'[u] \in {"lock", "push"} =>
          blk'[u] = mem'[u][1] /\ mem'[u][2] <= capacity'[blk'[u]]
    BY <1>3, <1>7 DEF Inside
  <2>4. poolBlock' # Gone
    BY <1>1, <1>3 DEF Inside, AllIdle
  <2> QED BY <2>1, <2>2, <2>3, <2>4 DEF Inside
<1>9. PoolSafe'
  <2> SUFFICES ASSUME NEW a \in Block, NEW i \in 1 .. capacity[a], capacity[a] # 0
               PROVE  slot'[a][i] \in {a} \X (1 .. capacity[a])
    BY <1>3 DEF PoolSafe, Mapped
  <2>1. slot[a][i] \in {a} \X (1 .. capacity[a]) /\ i \in Slot
    BY SlotInArena DEF PoolSafe, Mapped
  <2>2. CASE a = b /\ i = n
    <3>1. c = <<c[1], c[2]>>
      BY <1>1, ChunkPair
    <3> QED BY <1>1, <1>6, <2>2, <3>1
  <2>3. CASE ~(a = b /\ i = n)
    BY <1>6, <2>1, <2>3
  <2> QED BY <2>2, <2>3
<1>10. \A u \in Thread : InHand(u)' = IF u = t THEN {} ELSE InHand(u)
  <2> SUFFICES ASSUME NEW u \in Thread
               PROVE  InHand(u)' = IF u = t THEN {} ELSE InHand(u)
    OBVIOUS
  <2>1. CASE u = t
    BY <1>4, <1>7, <2>1, InHandIsNext
  <2>2. CASE u # t
    <3>1. mem'[u] = mem[u] /\ (pc'[u] \in Returning <=> pc[u] \in Returning)
      BY <1>3, <1>7, <2>2
    <3> QED BY <1>4, <2>2, <3>1, InHandIs, InHandIsNext
  <2> QED BY <2>1, <2>2
<1>11. \A i \in 1 .. n : i # n => slot[b][i] # c /\ i \in 1 .. sp[b]
  BY <1>1, <1>2 DEF Stacked
<1>12. \A a \in Block : Stacked(a)' = IF a = b THEN Stacked(b) \cup {c} ELSE Stacked(a)
  <2>1. \A i \in 1 .. n : i \in Slot /\ (i = n \/ i \in 1 .. sp[b])
    BY <1>1 DEF Slot
  <2>2. \A i \in 1 .. sp[b] : i \in 1 .. n /\ i # n /\ i \in Slot
    BY <1>1 DEF Slot
  <2>3. ASSUME NEW a \in Block, a = b
        PROVE  Stacked(a)' = Stacked(b) \cup {c}
    <3>1. Stacked(a)' = {slot'[b][i] : i \in 1 .. n}
      BY <1>6, <2>3 DEF Stacked
    <3>2. \A i \in 1 .. sp[b] : slot'[b][i] = slot[b][i]
      BY <1>6, <2>2
    <3>3. n \in 1 .. n
      BY <1>1
    <3>4. ASSUME NEW d \in {slot'[b][i] : i \in 1 .. n} PROVE d \in Stacked(b) \cup {c}
      BY <1>6, <2>1, <3>2, <3>4 DEF Stacked
    <3>5. ASSUME NEW d \in Stacked(b) \cup {c} PROVE d \in {slot'[b][i] : i \in 1 .. n}
      BY <1>6, <2>2, <3>2, <3>3, <3>5 DEF Stacked
    <3> QED BY <3>1, <3>4, <3>5
  <2>4. \A a \in Block : a # b => Stacked(a)' = Stacked(a)
    BY <1>6 DEF Stacked
  <2> QED BY <2>3, <2>4
<1>13. Exclusive'
  <2>1. ASSUME NEW u \in Thread, NEW d \in InHand(u)'
        PROVE  /\ owners'[d] = {}
               /\ \A v \in Thread \ {u} : d \notin InHand(v)'
               /\ \A a \in Block : d \notin Stacked(a)'
    <3>1. u # t /\ d \in InHand(u) /\ d # c
      BY <1>2, <1>10, <2>1
    <3> QED BY <1>3, <1>10, <1>12, <3>1 DEF Exclusive
  <2>2. \A d \in Chunk : owners'[d] # {} => \A a \in Block : d \notin Stacked(a)'
    BY <1>2, <1>3, <1>12 DEF Exclusive
  <2>3. ASSUME NEW a \in Block, NEW i \in 1 .. sp'[a], NEW j \in 1 .. sp'[a],
               slot'[a][i] = slot'[a][j]
        PROVE  i = j
    <3>1. CASE a # b
      BY <1>6, <2>3, <3>1 DEF Exclusive
    <3>2. CASE a = b
      <4>1. i \in 1 .. n /\ j \in 1 .. n /\ i \in Slot /\ j \in Slot
        BY <1>1, <1>6, <3>2, SlabAssumption DEF Slot
      <4> QED BY <1>6, <1>11, <2>3, <3>2, <4>1 DEF Exclusive
    <3> QED BY <3>1, <3>2
  <2> QED BY <2>1, <2>2, <2>3 DEF Exclusive
<1>14. HeaderTrue'
  <2>1. ASSUME NEW d \in Chunk,
               owners'[d] # {} \/ (\E u \in Thread : pc'[u] = "pfree" /\ mem'[u] = d)
        PROVE  occupied'[d] /\ home'[d] = d[1] /\ d[2] <= capacity'[d[1]]
    <3>1. owners[d] # {} \/ (\E u \in Thread \ {t} : pc[u] = "pfree" /\ mem[u] = d)
      BY <1>3, <1>7, <2>1
    <3>2. d # c
      BY <1>2, <3>1 DEF InHand
    <3>3. occupied'[d] = occupied[d]
      BY <1>3, <3>2 DEF TypeOK
    <3> QED BY <1>3, <3>1, <3>3 DEF HeaderTrue
  <2> QED BY <1>3, <2>1 DEF HeaderTrue
<1> QED BY <1>4, <1>5, <1>8, <1>9, <1>13, <1>14

-----------------------------------------------------------------------------

(* clear and destroy leave no chunk with a client.                         *)
LEMMA OwnerKeeps ==
  ASSUME ChunkInv, PoolClear \/ PoolDestroy, UNCHANGED mutex
  PROVE  ChunkInv'
<1> USE DEF ChunkInv, headerVars, localVars
<1>1. /\ AllIdle /\ pc' = pc /\ \A c \in Chunk : owners'[c] = {}
      /\ UNCHANGED <<next, maxCapacity, home, occupied, refcount, blk, last, mem>>
      /\ poolBlock' \in {poolBlock, Gone}
  BY DEF PoolClear, FullStacks, PoolDestroy
<1>2. \A b \in Block : FreshSlots(b) \in [Slot -> Chunk]
  BY ChunkPair DEF FreshSlots
<1>3. ASSUME NEW b \in Block
      PROVE  \/ capacity'[b] = capacity[b] /\ slot'[b] = slot[b] /\ sp'[b] = sp[b]
             \/ capacity'[b] = capacity[b] /\ slot'[b] = FreshSlots(b) /\ sp'[b] = capacity[b]
             \/ capacity'[b] = 0 /\ slot'[b] = slot[b] /\ sp'[b] = 0
  BY DEF PoolClear, FullStacks, PoolDestroy, TypeOK
<1>4. TypeOK'
  <2>1. capacity' \in [Block -> 0 .. MaxCapacity] /\ sp' \in [Block -> 0 .. MaxCapacity]
    <3>1. CASE PoolClear
      BY <3>1 DEF PoolClear, FullStacks, TypeOK
    <3>2. CASE PoolDestroy
      BY <3>2, SlabAssumption DEF PoolDestroy, TypeOK
    <3> QED BY <3>1, <3>2
  <2>2. slot' \in [Block -> [Slot -> Chunk]]
    <3>1. CASE PoolClear
      BY <1>2, <3>1 DEF PoolClear, FullStacks, TypeOK
    <3>2. CASE PoolDestroy
      BY <3>2 DEF PoolDestroy, TypeOK
    <3> QED BY <3>1, <3>2
  <2>3. owners' \in [Chunk -> SUBSET Thread]
    BY DEF PoolClear, FullStacks, PoolDestroy
  <2> QED BY <1>1, <2>1, <2>2, <2>3 DEF TypeOK
<1>5. MutexHeld'
  BY <1>1 DEF MutexHeld
<1>6. Inside'
  <2>1. \A b \in Block : sp'[b] <= capacity'[b]
    <3> SUFFICES ASSUME NEW b \in Block PROVE sp'[b] <= capacity'[b]
      OBVIOUS
    <3>1. capacity[b] \in Nat /\ sp[b] <= capacity[b]
      BY SlabAssumption DEF Inside, TypeOK
    <3> QED BY <1>3, <3>1
  <2> QED BY <1>1, <2>1 DEF Inside, AllIdle
<1>7. \A b \in Block : \A i \in 1 .. capacity'[b] :
        capacity'[b] = capacity[b] /\ (slot'[b][i] = slot[b][i] \/ slot'[b][i] = <<b, i>>)
  <2> SUFFICES ASSUME NEW b \in Block, NEW i \in 1 .. capacity'[b]
               PROVE  capacity'[b] = capacity[b]
                      /\ (slot'[b][i] = slot[b][i] \/ slot'[b][i] = <<b, i>>)
    OBVIOUS
  <2>1. i \in Slot
    BY <1>4, SlabAssumption DEF TypeOK, Slot
  <2>2. FreshSlots(b)[i] = <<b, i>>
    BY <2>1 DEF FreshSlots
  <2>3. capacity'[b] # 0
    OBVIOUS
  <2> QED BY <1>3, <2>2, <2>3
<1>8. PoolSafe'
  BY <1>7 DEF PoolSafe, Mapped
<1>9. \A t \in Thread : InHand(t)' = {}
  BY <1>1 DEF AllIdle, InHand
<1>10. ASSUME NEW b \in Block, NEW i \in 1 .. sp'[b], NEW j \in 1 .. sp'[b],
              slot'[b][i] = slot'[b][j]
       PROVE  i = j
  <2>1. sp'[b] \in 0 .. MaxCapacity /\ sp'[b] # 0
    BY <1>4 DEF TypeOK
  <2>2. i \in Slot /\ j \in Slot
    BY <2>1, SlabAssumption DEF Slot
  <2>3. FreshSlots(b)[i] = <<b, i>> /\ FreshSlots(b)[j] = <<b, j>>
    BY <2>2 DEF FreshSlots
  <2>4. CASE slot'[b] = slot[b] /\ sp'[b] = sp[b]
    BY <1>10, <2>4 DEF Exclusive
  <2>5. CASE slot'[b] = FreshSlots(b)
    BY <1>10, <2>3, <2>5
  <2> QED BY <1>3, <2>1, <2>4, <2>5
<1>11. Exclusive'
  BY <1>1, <1>9, <1>10 DEF Exclusive
<1>12. HeaderTrue'
  BY <1>1 DEF HeaderTrue, AllIdle
<1> QED BY <1>4, <1>5, <1>6, <1>8, <1>11, <1>12

LEMMA StutterKeeps == ChunkInv /\ UNCHANGED vars => ChunkInv'
<1> SUFFICES ASSUME ChunkInv, UNCHANGED vars PROVE ChunkInv'
  OBVIOUS
<1> USE DEF ChunkInv, vars, slabVars, poolVars, headerVars, localVars
<1>1. TypeOK' /\ MutexHeld'
  BY DEF TypeOK, MutexHeld
<1>2. Inside' /\ PoolSafe'
  BY DEF Inside, AllIdle, PoolSafe, Mapped
<1>3. Exclusive' /\ HeaderTrue'
  BY DEF Exclusive, HeaderTrue, InHand, Stacked
<1> QED BY <1>1, <1>2, <1>3

LEMMA NextKeeps == ChunkInv /\ [Next]_vars => ChunkInv'
<1> SUFFICES ASSUME ChunkInv, [Next]_vars PROVE ChunkInv'
  OBVIOUS
<1>1. ASSUME NEW t \in Thread, Client(t) PROVE ChunkInv'
  <2>1. CASE CallPalloc(t) /\ UNCHANGED mutex
    BY <2>1, WalkKeeps
  <2>2. ASSUME NEW c \in Chunk, CallPfree(t, c), UNCHANGED mutex PROVE ChunkInv'
    <3>1. /\ refcount' \in [Chunk -> Nat] /\ refcount' = refcount
          /\ UNCHANGED <<poolVars, home, occupied, blk, last, mutex>>
      BY <2>2 DEF CallPfree, headerVars, ChunkInv, TypeOK
    <3> QED BY <2>2, <3>1, LastUserKeeps DEF CallPfree
  <2>3. ASSUME NEW u \in Thread, NEW c \in Chunk, SlabRef(t, u, c), UNCHANGED mutex
        PROVE  ChunkInv'
    BY <2>3, SlabRefKeeps
  <2>4. ASSUME NEW c \in Chunk, SlabUnref(t, c), UNCHANGED mutex PROVE ChunkInv'
    BY <2>4, SlabUnrefKeeps
  <2> QED BY <1>1, <2>1, <2>2, <2>3, <2>4 DEF Client
<1>2. ASSUME NEW t \in Thread, Lock(t) PROVE ChunkInv'
  BY <1>2, WalkKeeps, PfreeLockKeeps DEF Lock
<1>3. ASSUME NEW t \in Thread, Step(t) PROVE ChunkInv'
  BY <1>3, WalkKeeps, PallocPopKeeps, PallocGrowKeeps, PfreeStartKeeps, PfreePushKeeps DEF Step
<1>4. CASE Owner
  <2>1. CASE Finished /\ UNCHANGED mutex
    BY <2>1, StutterKeeps DEF Finished, vars
  <2> QED BY <1>4, <2>1, OwnerKeeps DEF Owner
<1>5. CASE UNCHANGED vars
  BY <1>5, StutterKeeps
<1> QED BY <1>1, <1>2, <1>3, <1>4, <1>5 DEF Next

-----------------------------------------------------------------------------
(* The ring.                                                               *)

LEMMA InitRing == Init => RingInv
<1> SUFFICES ASSUME Init PROVE RingInv
  OBVIOUS
<1> USE DEF Init, SlabInit, InitPool, InitClient
<1>1. Mapped = {1} /\ 1 \in Block /\ poolBlock = 1
  BY DEF Mapped, Block
<1>2. OneRing
  <2>1. next[1] = 1
    BY <1>1
  <2> HIDE DEF Init, SlabInit, InitPool, InitClient
  <2> QED BY <1>1, <2>1 DEF OneRing
<1>3. LargestKnown
  BY <1>1 DEF LargestKnown
<1> QED BY <1>1, <1>2, <1>3 DEF RingInv, Gone

(* Steps that leave the ring alone: pool->block moves along it, and a      *)
(* thread that walks it goes from block to block.                          *)
LEMMA WalkKeepsRing ==
  ASSUME RingInv, UNCHANGED <<capacity, next, maxCapacity>>,
         poolBlock' = poolBlock \/ (poolBlock # Gone /\ poolBlock' \in Mapped),
         \A t \in Thread : pc'[t] \in {"search", "grow"} =>
                             blk'[t] \in Mapped /\ last'[t] \in Mapped
  PROVE  RingInv'
<1>1. Mapped' = Mapped
  BY DEF Mapped
<1>2. OneRing => OneRing'
  BY <1>1 DEF OneRing
<1>3. LargestKnown => LargestKnown'
  BY <1>1 DEF LargestKnown
<1>4. poolBlock' # Gone => poolBlock # Gone
  BY DEF RingInv, Mapped, Block, Gone
<1>5. poolBlock' = Gone => poolBlock = Gone
  BY DEF RingInv, Mapped, Block, Gone
<1> QED BY <1>1, <1>2, <1>3, <1>4, <1>5 DEF RingInv

(* The new block goes in between two neighbours of the ring.               *)
LEMMA GrowKeepsRing ==
  ASSUME ChunkInv, RingInv, NEW t \in Thread, NEW b \in Block, PallocGrow(t, b)
  PROVE  RingInv'
<1> DEFINE l == last[t]
           n == 2 * maxCapacity
<1>1. /\ pc[t] = "grow" /\ b \notin Mapped /\ n # 0 /\ n \in Nat /\ maxCapacity \in Nat
      /\ capacity \in [Block -> 0 .. MaxCapacity] /\ next \in [Block -> Block]
  BY SlabAssumption DEF PallocGrow, MallocGives, ChunkInv, TypeOK
<1>2. poolBlock # Gone
  BY <1>1 DEF ChunkInv, Inside, AllIdle
<1>3. l \in Mapped /\ l \in Block /\ OneRing /\ LargestKnown
  BY <1>1, <1>2 DEF RingInv, Mapped
<1>4. Mapped' = Mapped \cup {b}
  BY <1>1 DEF PallocGrow, TakeFromNewBlock, Mapped
<1>5. /\ next'[b] = next[l] /\ next'[l] = b
      /\ \A a \in Mapped \ {l} : next'[a] = next[a]
  BY <1>1, <1>3 DEF PallocGrow, LinkBehind, Mapped
<1>6. OneRing'
  <2>1. \A a \in Mapped' : next'[a] \in Mapped'
    BY <1>3, <1>4, <1>5 DEF OneRing
  <2>2. ASSUME NEW S \in SUBSET (Mapped'), S # {}, \A a \in S : next'[a] \in S
        PROVE  S = Mapped'
    <3> DEFINE R == S \ {b}
    <3>1. R \in SUBSET Mapped
      BY <1>4, <2>2
    <3>2. \A a \in R : next[a] \in R
      <4> SUFFICES ASSUME NEW a \in R PROVE next[a] \in R
        OBVIOUS
      <4>1. next[a] # b
        BY <1>1, <1>3, <3>1 DEF OneRing
      <4>2. CASE a = l
        BY <1>5, <2>2, <4>1, <4>2
      <4>3. CASE a # l
        BY <1>5, <2>2, <3>1, <4>1, <4>3
      <4> QED BY <4>2, <4>3
    <3>3. R # {}
      <4> SUFFICES ASSUME b \in S PROVE R # {}
        BY <2>2
      <4>1. next[l] \in S /\ next[l] # b
        BY <1>1, <1>3, <1>5, <2>2 DEF OneRing
      <4> QED BY <4>1
    <3>4. R = Mapped
      BY <1>3, <3>1, <3>2, <3>3 DEF OneRing
    <3>5. b \in S
      BY <1>3, <1>5, <2>2, <3>4
    <3> QED BY <1>4, <3>4, <3>5
  <2> QED BY <2>1, <2>2 DEF OneRing
<1>7. LargestKnown'
  <2>1. capacity'[b] = n /\ maxCapacity' = n
    BY <1>1 DEF PallocGrow, TakeFromNewBlock, DoubleMax
  <2>2. \A a \in Mapped : capacity'[a] = capacity[a] /\ capacity[a] <= maxCapacity
                          /\ capacity[a] \in Nat
    BY <1>1, <1>3, SlabAssumption DEF PallocGrow, TakeFromNewBlock, Mapped, LargestKnown
  <2> QED BY <1>1, <1>4, <2>1, <2>2 DEF LargestKnown
<1>8. poolBlock' = b /\ b # Gone
  BY DEF PallocGrow, Block, Gone
<1>9. \A u \in Thread : pc'[u] \in {"search", "grow"} =>
        pc[u] = pc'[u] /\ blk'[u] = blk[u] /\ last'[u] = last[u]
  BY DEF PallocGrow, Return, ChunkInv, TypeOK
<1> QED BY <1>4, <1>6, <1>7, <1>8, <1>9 DEF RingInv

(* Walking the ring from pool->block meets every block there is.           *)
LEMMA RingIsMapped ==
  ASSUME RingInv, poolBlock # Gone
  PROVE  Ring = Mapped
<1>1. poolBlock \in Mapped /\ OneRing /\ Mapped \in SUBSET Block
  BY DEF RingInv, Mapped
<1>2. Ring \subseteq Mapped
  BY <1>1 DEF Ring, OneRing
<1>3. ASSUME NEW b \in Mapped, NEW S \in SUBSET Block,
             poolBlock \in S, \A a \in S : next[a] \in S
      PROVE  b \in S
  <2> DEFINE R == S \cap Mapped
  <2>1. R \in SUBSET Mapped /\ R # {} /\ \A a \in R : next[a] \in R
    BY <1>1, <1>3 DEF OneRing
  <2>2. R = Mapped
    BY <1>1, <2>1 DEF OneRing
  <2> QED BY <2>2
<1> QED BY <1>1, <1>2, <1>3 DEF Ring

LEMMA NextKeepsRing == ChunkInv /\ RingInv /\ [Next]_vars => RingInv'
<1> SUFFICES ASSUME ChunkInv, RingInv, [Next]_vars PROVE RingInv'
  OBVIOUS
<1> USE DEF poolVars, headerVars, localVars
<1>0. pc \in [Thread -> {"idle", "palloc", "search", "grow", "pfree", "lock", "push"}]
      /\ blk \in [Thread -> Block] /\ last \in [Thread -> Block]
  BY DEF ChunkInv, TypeOK
<1>1. ASSUME NEW t \in Thread, Client(t) PROVE RingInv'
  <2>1. /\ UNCHANGED <<capacity, next, maxCapacity, poolBlock, blk, last>>
        /\ \A u \in Thread : pc'[u] \in {"search", "grow"} => pc'[u] = pc[u]
    BY <1>0, <1>1 DEF Client, CallPalloc, CallPfree, SlabRef, SlabUnref
  <2>2. \A u \in Thread : pc'[u] \in {"search", "grow"} =>
                            blk'[u] \in Mapped /\ last'[u] \in Mapped
    BY <2>1 DEF RingInv
  <2> QED BY <2>1, <2>2, WalkKeepsRing
<1>2. ASSUME NEW t \in Thread, Lock(t) PROVE RingInv'
  <2>1. UNCHANGED <<capacity, next, maxCapacity, poolBlock>>
    BY <1>2 DEF Lock, PallocLock, PfreeLock
  <2>2. CASE PallocLock(t)
    <3>1. poolBlock \in Mapped
      BY <2>2 DEF PallocLock, ChunkInv, Inside, AllIdle, RingInv
    <3>2. \A u \in Thread : pc'[u] \in {"search", "grow"} =>
            blk'[u] \in Mapped /\ last'[u] \in Mapped
      BY <1>0, <2>2, <3>1 DEF PallocLock, RingInv
    <3> QED BY <2>1, <3>2, WalkKeepsRing
  <2>3. CASE PfreeLock(t)
    <3>1. \A u \in Thread : pc'[u] \in {"search", "grow"} =>
            blk'[u] \in Mapped /\ last'[u] \in Mapped
      BY <1>0, <2>3 DEF PfreeLock, RingInv
    <3> QED BY <2>1, <3>1, WalkKeepsRing
  <2> QED BY <1>2, <2>2, <2>3 DEF Lock
<1>3. ASSUME NEW t \in Thread, Step(t) PROVE RingInv'
  <2>0. CASE PfreeStart(t)
    <3>1. UNCHANGED <<capacity, next, maxCapacity, poolBlock>>
      BY <2>0 DEF PfreeStart
    <3>2. \A u \in Thread : pc'[u] \in {"search", "grow"} =>
            blk'[u] \in Mapped /\ last'[u] \in Mapped
      BY <1>0, <2>0 DEF PfreeStart, RingInv
    <3> QED BY <3>1, <3>2, WalkKeepsRing
  <2>1. CASE PallocPop(t) \/ PallocFail(t) \/ PfreePush(t)
    <3>1. /\ UNCHANGED <<capacity, next, maxCapacity>>
          /\ poolBlock' = poolBlock \/ (pc[t] = "search" /\ poolBlock' = blk[t])
      <4>1. CASE PallocPop(t)
        BY <4>1 DEF PallocPop
      <4>2. CASE PallocFail(t)
        BY <4>2 DEF PallocFail
      <4>3. CASE PfreePush(t)
        BY <4>3 DEF PfreePush
      <4> QED BY <2>1, <4>1, <4>2, <4>3
    <3>2. pc[t] = "search" => poolBlock # Gone
      BY DEF ChunkInv, Inside, AllIdle
    <3>3. \A u \in Thread : pc'[u] \in {"search", "grow"} =>
            blk'[u] \in Mapped /\ last'[u] \in Mapped
      BY <1>0, <2>1 DEF PallocPop, PallocFail, PfreePush, Return, RingInv
    <3>4. pc[t] = "search" => blk[t] \in Mapped
      BY DEF RingInv
    <3> QED BY <3>1, <3>2, <3>3, <3>4, WalkKeepsRing
  <2>2. CASE PallocNext(t)
    <3>1. UNCHANGED <<capacity, next, maxCapacity, poolBlock>> /\ pc[t] = "search"
      BY <2>2 DEF PallocNext
    <3>2. poolBlock # Gone /\ blk[t] \in Mapped /\ last[t] \in Mapped /\ next[blk[t]] \in Mapped
      BY <3>1 DEF ChunkInv, Inside, AllIdle, RingInv, OneRing
    <3>3. /\ blk'[t] = next[blk[t]] /\ last'[t] \in {blk[t], last[t]}
          /\ \A u \in Thread \ {t} : pc'[u] = pc[u] /\ blk'[u] = blk[u] /\ last'[u] = last[u]
      BY <1>0, <2>2 DEF PallocNext
    <3>4. \A u \in Thread : pc'[u] \in {"search", "grow"} =>
                              blk'[u] \in Mapped /\ last'[u] \in Mapped
      BY <3>2, <3>3 DEF RingInv
    <3> QED BY <3>1, <3>4, WalkKeepsRing
  <2> QED BY <1>3, <2>0, <2>1, <2>2, GrowKeepsRing DEF Step
<1>4. CASE Owner
  <2>1. CASE PoolClear
    <3>1. UNCHANGED <<capacity, next, maxCapacity, poolBlock, pc, blk, last>>
      BY <2>1 DEF PoolClear
    <3> QED BY <3>1, WalkKeepsRing DEF RingInv
  <2>2. CASE PoolDestroy
    <3>1. Mapped' = {} /\ poolBlock' = Gone
      BY <2>2, RingIsMapped DEF PoolDestroy, Mapped
    <3>2. \A t \in Thread : pc'[t] = "idle"
      BY <2>2 DEF PoolDestroy, AllIdle
    <3> QED BY <3>1, <3>2 DEF RingInv
  <2>3. CASE Finished
    <3>1. UNCHANGED <<capacity, next, maxCapacity, poolBlock, pc, blk, last>>
      BY <2>3 DEF Finished, slabVars
    <3> QED BY <3>1, WalkKeepsRing DEF RingInv
  <2> QED BY <1>4, <2>1, <2>2, <2>3 DEF Owner
<1>5. CASE UNCHANGED vars
  <2>1. UNCHANGED <<capacity, next, maxCapacity, poolBlock, pc, blk, last>>
    BY <1>5 DEF vars, slabVars
  <2> QED BY <2>1, WalkKeepsRing DEF RingInv
<1> QED BY <1>1, <1>2, <1>3, <1>4, <1>5 DEF Next

-----------------------------------------------------------------------------
(* The walk of palloc.                                                     *)

(* Who walks goes on with what it has seen, if the stacks stay.            *)
LEMMA WalkStays ==
  ASSUME WalkInv, UNCHANGED <<capacity, next, sp, poolBlock>>,
         \A u \in Thread : pc'[u] \in {"search", "grow"} => pc'[u] = pc[u] /\ blk'[u] = blk[u]
  PROVE  WalkInv'
<1>1. Mapped' = Mapped
  BY DEF Mapped
<1>2. \A u \in Thread, S \in SUBSET Block :
        pc'[u] \in {"search", "grow"} /\ Passed(u, S) => Passed(u, S)'
  BY <1>1 DEF Passed
<1> QED BY <1>1, <1>2 DEF WalkInv

LEMMA NobodyWalks ==
  ASSUME \A u \in Thread : pc[u] \notin {"search", "grow"}
  PROVE  WalkInv
BY DEF WalkInv

(* The step to the next block: what was seen and this block is empty, and  *)
(* if the ring closes here, that is all of it.                             *)
LEMMA PallocNextWalks ==
  ASSUME ChunkInv, RingInv, WalkInv, NEW t \in Thread, PallocNext(t)
  PROVE  WalkInv'
<1>1. pc \in [Thread -> {"idle", "palloc", "search", "grow", "pfree", "lock", "push"}]
      /\ blk \in [Thread -> Block]
  BY DEF ChunkInv, TypeOK
<1>2. PICK b \in Block : b = blk[t]
  BY <1>1
<1>3. /\ pc[t] = "search" /\ sp[b] = 0 /\ poolBlock # Gone /\ b \in Mapped
      /\ UNCHANGED <<capacity, next, sp, poolBlock>>
  BY <1>2 DEF PallocNext, poolVars, ChunkInv, Inside, AllIdle, RingInv
<1>4. blk'[t] = next[b] /\ pc'[t] = IF Closes(b) THEN "grow" ELSE "search"
  BY <1>1, <1>2 DEF PallocNext
<1>5. \A u \in Thread \ {t} : pc'[u] \notin {"search", "grow"}
  BY <1>1, <1>3 DEF PallocNext, ChunkInv, MutexHeld
<1>6. PICK S \in SUBSET Block : Passed(t, S)
  BY <1>3 DEF WalkInv
<1>7. PICK R : R = S \cup {b}
  OBVIOUS
<1>8. /\ R \subseteq Mapped /\ poolBlock \in R
      /\ \A a \in R : sp[a] = 0 /\ (next[a] \in R \/ a = b)
  BY <1>2, <1>3, <1>6, <1>7 DEF Passed
<1>9. Mapped' = Mapped
  BY <1>3 DEF Mapped
<1>10. CASE Closes(b)
  <2>1. \A a \in R : next[a] \in R
    BY <1>8, <1>10 DEF Closes
  <2>2. R = Mapped
    BY <1>3, <1>8, <2>1 DEF RingInv, OneRing
  <2>3. \A c \in Mapped' : sp'[c] = 0
    BY <1>3, <1>8, <1>9, <2>2
  <2>4. \A u \in Thread : pc'[u] # "search"
    BY <1>4, <1>5, <1>10
  <2> QED BY <2>3, <2>4 DEF WalkInv
<1>11. CASE ~Closes(b)
  <2>1. pc'[t] = "search"
    BY <1>4, <1>11
  <2>2. R \subseteq Block /\ next'[b] = blk'[t]
    BY <1>3, <1>4, <1>7
  <2>3. \A a \in R : sp'[a] = 0 /\ next'[a] \in R \cup {blk'[t]}
    BY <1>3, <1>8, <2>2
  <2>4. Passed(t, R)'
    BY <1>3, <1>8, <1>9, <2>3 DEF Passed
  <2> QED BY <1>5, <2>1, <2>2, <2>4 DEF WalkInv
<1> QED BY <1>10, <1>11

LEMMA NextKeepsWalk ==
  ASSUME ChunkInv, RingInv, WalkInv, [Next]_vars
  PROVE  WalkInv'
<1> USE DEF poolVars, headerVars, localVars
<1>0. pc \in [Thread -> {"idle", "palloc", "search", "grow", "pfree", "lock", "push"}]
      /\ blk \in [Thread -> Block]
  BY DEF ChunkInv, TypeOK
<1>1. ASSUME NEW t \in Thread, Client(t) PROVE WalkInv'
  <2>1. /\ UNCHANGED <<capacity, next, sp, poolBlock, blk>>
        /\ \A u \in Thread : pc'[u] \in {"search", "grow"} => pc'[u] = pc[u]
    BY <1>0, <1>1 DEF Client, CallPalloc, CallPfree, SlabRef, SlabUnref
  <2> QED BY <2>1, WalkStays
<1>2. ASSUME NEW t \in Thread, PallocLock(t) PROVE WalkInv'
  <2>1. \A u \in Thread : pc[u] \notin {"search", "grow"}
    BY <1>2 DEF PallocLock, LockMutex, ChunkInv, MutexHeld
  <2>2. pc'[t] = "search" /\ blk'[t] = poolBlock /\ poolBlock' = poolBlock
    BY <1>0, <1>2 DEF PallocLock
  <2>3. \A u \in Thread \ {t} : pc'[u] \notin {"search", "grow"}
    BY <1>0, <1>2, <2>1 DEF PallocLock
  <2>4. Passed(t, {})'
    BY <2>2 DEF Passed
  <2> QED BY <2>2, <2>3, <2>4 DEF WalkInv
<1>3. ASSUME NEW t \in Thread, PfreeLock(t) PROVE WalkInv'
  <2>1. \A u \in Thread : pc'[u] \notin {"search", "grow"}
    BY <1>0, <1>3 DEF PfreeLock, LockMutex, ChunkInv, MutexHeld
  <2> QED BY <2>1 DEF WalkInv
<1>4. ASSUME NEW t \in Thread, Step(t), ~PallocNext(t), ~PfreeStart(t) PROVE WalkInv'
  <2>1. pc[t] \in {"search", "grow", "push"} /\ pc' = [pc EXCEPT ![t] = "idle"]
    BY <1>4 DEF Step, PallocPop, PallocGrow, PallocFail, PfreePush, Return
  <2>2. \A u \in Thread : pc'[u] \notin {"search", "grow"}
    BY <1>0, <2>1 DEF ChunkInv, MutexHeld
  <2> QED BY <2>2 DEF WalkInv
<1>8. ASSUME NEW t \in Thread, PfreeStart(t) PROVE WalkInv'
  <2>1. /\ UNCHANGED <<capacity, next, sp, poolBlock>>
        /\ \A u \in Thread : pc'[u] \in {"search", "grow"} => pc'[u] = pc[u] /\ blk'[u] = blk[u]
    BY <1>0, <1>8 DEF PfreeStart
  <2> QED BY <2>1, WalkStays
<1>5. ASSUME PoolClear \/ PoolDestroy PROVE WalkInv'
  <2>1. \A u \in Thread : pc'[u] \notin {"search", "grow"}
    BY <1>5 DEF PoolClear, PoolDestroy, AllIdle
  <2> QED BY <2>1 DEF WalkInv
<1>6. ASSUME UNCHANGED slabVars PROVE WalkInv'
  BY <1>6, WalkStays DEF slabVars
<1> QED BY <1>1, <1>2, <1>3, <1>4, <1>5, <1>6, <1>8, PallocNextWalks
        DEF Next, Lock, Owner, Finished, vars

(* The inductive invariant holds whatever the threads do between lock and  *)
(* unlock (frl_slab_palloc_lock_with, frl_slab_pfree_lock_with, lines      *)
(* 154-213) and whenever the owner clears or destroys the pool.            *)
THEOREM Invariance == Spec => []IInv
<1>1. Init => IInv
  <2> SUFFICES ASSUME Init PROVE IInv
    OBVIOUS
  <2>1. WalkInv
    BY NobodyWalks DEF Init, SlabInit, InitClient
  <2> QED BY <2>1, InitChunkInv, InitRing DEF IInv
<1>2. IInv /\ [Next]_vars => IInv'
  BY NextKeeps, NextKeepsRing, NextKeepsWalk DEF IInv
<1> QED BY <1>1, <1>2, PTL DEF Spec

(* The ring holds every block, so that clear resets and destroy frees them *)
(* all (frl_slab_pool.c:257-294), though palloc links a new block wherever *)
(* its walk ended.                                                         *)
THEOREM RingIsWhole == Spec => []RingCovers
<1>1. IInv => RingCovers
  <2> SUFFICES ASSUME IInv PROVE RingCovers
    OBVIOUS
  <2>1. {u \in Thread : pc[u] = "link"} = {}
    BY DEF IInv, ChunkInv, TypeOK
  <2>2. {blk[t] : t \in {u \in Thread : pc[u] = "link"}} = {}
    BY <2>1
  <2>3. CASE poolBlock = Gone
    BY <2>3 DEF IInv, RingInv, RingCovers
  <2>4. CASE poolBlock # Gone
    BY <2>2, <2>4, RingIsMapped DEF IInv, RingCovers
  <2> QED BY <2>3, <2>4
<1> QED BY <1>1, Invariance, PTL

(* max_capacity is the largest capacity, so that palloc really doubles.    *)
THEOREM LargestIsTracked == Spec => []MaxCapacityTracks
<1>1. IInv => MaxCapacityTracks
  BY DEF IInv, RingInv, LargestKnown, MaxCapacityTracks
<1> QED BY <1>1, Invariance, PTL

-----------------------------------------------------------------------------
(* No chunk is lost.                                                       *)

Placed(c) ==
  \/ owners[c] # {}
  \/ \E t \in Thread : c \in InHand(t)
  \/ c \in Stacked(c[1])

(* A step that moves no chunk out of its place.                            *)
LEMMA StayPlaced ==
  ASSUME TypeOK, Conserved, UNCHANGED capacity,
         \A c \in Chunk : c[2] \in 1 .. capacity[c[1]] /\ Placed(c) => Placed(c)'
  PROVE  Conserved'
<1> SUFFICES ASSUME NEW b \in Block, capacity[b] # 0, NEW i \in 1 .. capacity[b]
             PROVE  Placed(<<b, i>>)'
  BY DEF Conserved, Mapped, Placed
<1>1. i \in Slot
  BY SlabAssumption DEF TypeOK, Slot
<1>2. <<b, i>> \in Chunk /\ <<b, i>>[1] = b /\ <<b, i>>[2] = i
  BY <1>1, ChunkPair
<1>3. Placed(<<b, i>>)
  BY DEF Conserved, Mapped, Placed
<1> QED BY <1>2, <1>3

(* The hands of the threads, when only thread t moves.                     *)
LEMMA HandsOfOthers ==
  ASSUME TypeOK, TypeOK', NEW t \in Thread,
         \A u \in Thread \ {t} : pc'[u] = pc[u] /\ mem'[u] = mem[u]
  PROVE  \A u \in Thread \ {t} : InHand(u)' = InHand(u)
<1> SUFFICES ASSUME NEW u \in Thread \ {t} PROVE InHand(u)' = InHand(u)
  OBVIOUS
<1> QED BY InHandIs, InHandIsNext

(* Steps that touch no stack and take no chunk from a user: what a thread  *)
(* has in its hands stays there.                                           *)
LEMMA WalkConserves ==
  ASSUME ChunkInv, TypeOK', Conserved, NEW t \in Thread,
         UNCHANGED <<capacity, slot, sp, mem>>,
         \A c \in Chunk : owners[c] # {} => owners'[c] # {},
         \A u \in Thread \ {t} : pc'[u] = pc[u],
         pc[t] \in Returning => pc'[t] \in Returning
  PROVE  Conserved'
<1>1. \A u \in Thread : InHand(u) \subseteq InHand(u)'
  <2> SUFFICES ASSUME NEW u \in Thread PROVE InHand(u) \subseteq InHand(u)'
    OBVIOUS
  <2>1. pc[u] \in Returning => pc'[u] \in Returning
    OBVIOUS
  <2> QED BY <2>1, InHandIs, InHandIsNext DEF ChunkInv
<1>2. \A b \in Block : Stacked(b)' = Stacked(b)
  BY DEF Stacked
<1>3. \A c \in Chunk : Placed(c) => Placed(c)'
  BY <1>1, <1>2, ChunkPair DEF Placed
<1> QED BY <1>3, StayPlaced DEF ChunkInv

(* The last user brings the chunk back: it is in that thread's hands.      *)
LEMMA LastUserConserves ==
  ASSUME ChunkInv, TypeOK', Conserved, NEW t \in Thread, NEW c \in Chunk,
         pc[t] = "idle",
         owners' = [owners EXCEPT ![c] = {}],
         mem' = [mem EXCEPT ![t] = c],
         pc' = [pc EXCEPT ![t] = "pfree"],
         UNCHANGED <<capacity, slot, sp>>
  PROVE  Conserved'
<1>1. pc'[t] = "pfree" /\ mem'[t] = c
  BY DEF ChunkInv, TypeOK
<1>2. InHand(t)' = {c} /\ InHand(t) = {}
  BY <1>1, InHandIs, InHandIsNext DEF ChunkInv
<1>3. \A u \in Thread \ {t} : pc'[u] = pc[u] /\ mem'[u] = mem[u]
  BY DEF ChunkInv, TypeOK
<1>4. \A u \in Thread \ {t} : InHand(u)' = InHand(u)
  BY <1>3, HandsOfOthers DEF ChunkInv
<1>5. \A b \in Block : Stacked(b)' = Stacked(b)
  BY DEF Stacked
<1>6. \A d \in Chunk \ {c} : owners'[d] = owners[d]
  BY DEF ChunkInv, TypeOK
<1>7. \A d \in Chunk : Placed(d) => Placed(d)'
  <2> SUFFICES ASSUME NEW d \in Chunk, Placed(d) PROVE Placed(d)'
    OBVIOUS
  <2>1. CASE d = c
    BY <1>2, <2>1 DEF Placed
  <2>2. CASE d # c
    BY <1>2, <1>4, <1>5, <1>6, <2>2, ChunkPair DEF Placed
  <2> QED BY <2>1, <2>2
<1> QED BY <1>7, StayPlaced DEF ChunkInv

(* palloc: the popped chunk has a user, what was below it stays stacked.   *)
LEMMA PallocPopConserves ==
  ASSUME ChunkInv, TypeOK', Conserved, NEW t \in Thread, PallocPop(t)
  PROVE  Conserved'
<1> DEFINE b == blk[t]
           n == sp[b]
           c == slot[b][n]
<1>1. /\ pc[t] = "search" /\ b \in Block /\ n \in 1 .. capacity[b] /\ n \in Nat
  BY SlabAssumption DEF PallocPop, ChunkInv, TypeOK, Inside
<1>2. c \in Chunk
  BY <1>1, SlotInArena DEF ChunkInv
<1>3. /\ sp' = [sp EXCEPT ![b] = n - 1]
      /\ owners' = [owners EXCEPT ![c] = {t}]
      /\ pc' = [pc EXCEPT ![t] = "idle"]
      /\ mem' = [mem EXCEPT ![t] = NoChunk]
      /\ UNCHANGED <<capacity, slot>>
  BY DEF PallocPop, Return
<1> HIDE DEF b, n, c
<1>4. \A u \in Thread \ {t} : InHand(u)' = InHand(u)
  <2>1. \A u \in Thread \ {t} : pc'[u] = pc[u] /\ mem'[u] = mem[u]
    BY <1>3 DEF ChunkInv, TypeOK
  <2> QED BY <2>1, HandsOfOthers DEF ChunkInv
<1>5. InHand(t) = {}
  BY <1>1, InHandIs DEF ChunkInv
<1>6. \A a \in Block : Stacked(a) \subseteq Stacked(a)' \cup {c}
  <2> SUFFICES ASSUME NEW a \in Block, NEW i \in 1 .. sp[a], slot[a][i] # c
               PROVE  slot[a][i] \in Stacked(a)'
    BY DEF Stacked
  <2>1. i \in 1 .. sp'[a]
    <3>1. CASE a = b
      <4>1. sp'[b] = n - 1 /\ i \in 1 .. n /\ i # n
        BY <1>1, <1>3, <3>1 DEF ChunkInv, TypeOK, n, c
      <4> QED BY <1>1, <3>1, <4>1
    <3>2. CASE a # b
      BY <1>3, <3>2 DEF ChunkInv, TypeOK
    <3> QED BY <3>1, <3>2
  <2> QED BY <1>3, <2>1 DEF Stacked
<1>7. \A d \in Chunk : owners'[d] = IF d = c THEN {t} ELSE owners[d]
  BY <1>2, <1>3 DEF ChunkInv, TypeOK
<1>8. \A d \in Chunk : Placed(d) => Placed(d)'
  <2> SUFFICES ASSUME NEW d \in Chunk, d # c, Placed(d) PROVE Placed(d)'
    BY <1>7 DEF Placed
  <2> QED BY <1>4, <1>5, <1>6, <1>7, ChunkPair DEF Placed
<1> QED BY <1>3, <1>8, StayPlaced DEF ChunkInv

(* palloc with a new block: the chunks below the top one are stacked.      *)
LEMMA PallocGrowConserves ==
  ASSUME ChunkInv, TypeOK', Conserved, NEW t \in Thread, NEW b \in Block, PallocGrow(t, b)
  PROVE  Conserved'
<1> DEFINE n == 2 * maxCapacity
           c == <<b, n>>
<1>1. /\ pc[t] = "grow" /\ capacity[b] = 0 /\ n \in Nat /\ n \in Slot /\ b \notin Mapped
  BY SlabAssumption DEF PallocGrow, MallocGives, ChunkInv, TypeOK, Mapped, Slot
<1>2. c \in Chunk
  BY <1>1, ChunkPair
<1>3. /\ capacity' = [capacity EXCEPT ![b] = n]
      /\ slot' = [slot EXCEPT ![b] = FreshSlots(b)]
      /\ sp' = [sp EXCEPT ![b] = n - 1]
      /\ owners' = [owners EXCEPT ![c] = {t}]
      /\ pc' = [pc EXCEPT ![t] = "idle"]
      /\ mem' = [mem EXCEPT ![t] = NoChunk]
  BY DEF PallocGrow, TakeFromNewBlock, Return
<1>4. \A u \in Thread : InHand(u) \subseteq InHand(u)'
  <2>1. \A u \in Thread \ {t} : pc'[u] = pc[u] /\ mem'[u] = mem[u]
    BY <1>3 DEF ChunkInv, TypeOK
  <2>2. InHand(t) = {}
    BY <1>1, InHandIs DEF ChunkInv
  <2>3. \A u \in Thread \ {t} : InHand(u)' = InHand(u)
    BY <2>1, HandsOfOthers DEF ChunkInv
  <2> QED BY <2>2, <2>3
<1> HIDE DEF n, c
<1>5. ASSUME NEW a \in Block, a # b, capacity[a] # 0, NEW i \in 1 .. capacity[a]
      PROVE  Placed(<<a, i>>)'
  <2>1. Placed(<<a, i>>)
    BY <1>5 DEF Conserved, Mapped, Placed
  <2>2. <<a, i>> \in Chunk /\ <<a, i>> # c
    <3>1. i \in Slot
      BY <1>5, SlabAssumption DEF ChunkInv, TypeOK, Slot
    <3>2. <<a, i>> \in Chunk /\ <<a, i>>[1] = a /\ c[1] = b
      BY <1>1, <3>1, ChunkPair DEF c
    <3> QED BY <1>5, <3>2
  <2>3. owners'[<<a, i>>] = owners[<<a, i>>]
    BY <1>2, <1>3, <2>2 DEF ChunkInv, TypeOK
  <2>4. Stacked(a)' = Stacked(a)
    BY <1>3, <1>5 DEF Stacked, ChunkInv, TypeOK
  <2> QED BY <1>4, <2>1, <2>2, <2>3, <2>4 DEF Placed
<1>6. ASSUME NEW i \in 1 .. n
      PROVE  Placed(<<b, i>>)'
  <2>1. CASE i = n
    <3>1. owners'[c] = {t}
      BY <1>2, <1>3 DEF ChunkInv, TypeOK
    <3> QED BY <2>1, <3>1 DEF Placed, c
  <2>2. CASE i # n
    <3>1. i \in 1 .. n - 1 /\ i \in Slot
      BY <1>1, <2>2 DEF Slot
    <3>2. sp'[b] = n - 1 /\ slot'[b] = FreshSlots(b)
      BY <1>3 DEF ChunkInv, TypeOK
    <3>3. slot'[b][i] = <<b, i>>
      BY <3>1, <3>2 DEF FreshSlots
    <3>4. <<b, i>> \in Stacked(b)'
      BY <3>1, <3>2, <3>3 DEF Stacked
    <3> QED BY <3>4 DEF Placed
  <2> QED BY <2>1, <2>2
<1>7. capacity'[b] = n /\ \A a \in Block \ {b} : capacity'[a] = capacity[a]
  BY <1>3 DEF ChunkInv, TypeOK
<1>8. \A a \in Block : capacity'[a] # 0 => \A i \in 1 .. capacity'[a] : Placed(<<a, i>>)'
  BY <1>5, <1>6, <1>7
<1> QED BY <1>8 DEF Conserved, Mapped, Placed

(* pfree: the chunk that was in the thread's hands is on its stack.        *)
LEMMA PfreePushConserves ==
  ASSUME ChunkInv, TypeOK', Conserved, NEW t \in Thread, PfreePush(t)
  PROVE  Conserved'
<1>0. PICK b \in Block, c \in Chunk, n \in Nat :
        /\ pc[t] = "push" /\ b = blk[t] /\ c = mem[t] /\ c[1] = b /\ n = sp[b] + 1
  <2>1. pc[t] = "push" /\ blk[t] \in Block /\ mem[t] \in Chunk /\ mem[t][1] = blk[t]
    BY DEF PfreePush, ChunkInv, Inside, TypeOK
  <2>2. sp[blk[t]] + 1 \in Nat
    BY <2>1 DEF ChunkInv, TypeOK
  <2> QED BY <2>1, <2>2
<1>1. sp[b] = n - 1 /\ sp[b] < capacity[b] /\ n \in Slot
  <2>1. sp[b] < capacity[b]
    BY <1>0, RoomToPush DEF PushInBounds
  <2>2. sp[b] \in 0 .. MaxCapacity /\ capacity[b] \in 0 .. MaxCapacity
    BY DEF ChunkInv, TypeOK
  <2> QED BY <1>0, <2>1, <2>2, SlabAssumption DEF Slot
<1>2. /\ sp' = [sp EXCEPT ![b] = n]
      /\ slot' = [slot EXCEPT ![b] = [slot[b] EXCEPT ![n] = c]]
      /\ pc' = [pc EXCEPT ![t] = "idle"]
      /\ mem' = [mem EXCEPT ![t] = NoChunk]
      /\ UNCHANGED <<capacity, owners>>
  BY <1>0 DEF PfreePush, Return
<1>3. InHand(t) = {c}
  BY <1>0, InHandIs DEF ChunkInv
<1>4. \A u \in Thread \ {t} : InHand(u)' = InHand(u)
  <2>1. \A u \in Thread \ {t} : pc'[u] = pc[u] /\ mem'[u] = mem[u]
    BY <1>2 DEF ChunkInv, TypeOK
  <2> QED BY <2>1, HandsOfOthers DEF ChunkInv
<1>5. /\ sp'[b] = n /\ slot'[b][n] = c
      /\ \A i \in Slot \ {n} : slot'[b][i] = slot[b][i]
  BY <1>1, <1>2 DEF ChunkInv, TypeOK
<1>6. c \in Stacked(b)'
  <2>1. n \in 1 .. sp'[b]
    BY <1>1, <1>5 DEF Slot
  <2> QED BY <1>5, <2>1 DEF Stacked
<1>7. \A a \in Block : Stacked(a) \subseteq Stacked(a)'
  <2> SUFFICES ASSUME NEW a \in Block, NEW i \in 1 .. sp[a]
               PROVE  slot[a][i] \in Stacked(a)'
    BY DEF Stacked
  <2>1. CASE a = b
    <3>1. i \in 1 .. sp'[b] /\ i \in Slot \ {n}
      BY <1>1, <1>5, <2>1 DEF Slot
    <3> QED BY <1>5, <2>1, <3>1 DEF Stacked
  <2>2. CASE a # b
    BY <1>2, <2>2 DEF Stacked, ChunkInv, TypeOK
  <2> QED BY <2>1, <2>2
<1>8. \A d \in Chunk : Placed(d) => Placed(d)'
  <2> SUFFICES ASSUME NEW d \in Chunk, Placed(d) PROVE Placed(d)'
    OBVIOUS
  <2>1. CASE d = c
    BY <1>0, <1>6, <2>1 DEF Placed
  <2>2. CASE d # c
    BY <1>2, <1>3, <1>4, <1>7, <2>2, ChunkPair DEF Placed
  <2> QED BY <2>1, <2>2
<1> QED BY <1>2, <1>8, StayPlaced DEF ChunkInv

(* clear reaches every block and refills it; destroy leaves none.          *)
LEMMA OwnerConserves ==
  ASSUME IInv, PoolClear \/ PoolDestroy
  PROVE  Conserved'
<1>1. Ring = Mapped
  BY RingIsMapped DEF PoolClear, PoolDestroy, IInv
<1>2. CASE PoolClear
  <2> SUFFICES ASSUME NEW b \in Block, capacity[b] # 0, NEW i \in 1 .. capacity[b]
               PROVE  <<b, i>> \in Stacked(b)'
    BY <1>2 DEF PoolClear, Conserved, Mapped
  <2>1. b \in Ring /\ i \in Slot
    BY <1>1, SlabAssumption DEF Mapped, IInv, ChunkInv, TypeOK, Slot
  <2>2. sp'[b] = capacity[b] /\ slot'[b] = FreshSlots(b)
    BY <1>2, <2>1 DEF PoolClear, FullStacks
  <2>3. slot'[b][i] = <<b, i>>
    BY <2>1, <2>2 DEF FreshSlots
  <2> QED BY <2>2, <2>3 DEF Stacked
<1>3. CASE PoolDestroy
  <2>1. Mapped' = {}
    BY <1>1, <1>3 DEF PoolDestroy, Mapped
  <2> QED BY <2>1 DEF Conserved
<1> QED BY <1>2, <1>3

LEMMA NextConserves ==
  ASSUME IInv, IInv', Conserved, [Next]_vars
  PROVE  Conserved'
<1> USE DEF poolVars, headerVars, localVars
<1>0. ChunkInv /\ TypeOK /\ TypeOK'
  BY DEF IInv, ChunkInv
<1>1. ASSUME NEW t \in Thread, Client(t) PROVE Conserved'
  <2>1. CASE CallPalloc(t)
    <3>1. /\ UNCHANGED <<capacity, slot, sp, mem, owners>>
          /\ \A u \in Thread \ {t} : pc'[u] = pc[u]
          /\ pc[t] = "idle"
      BY <1>0, <2>1 DEF CallPalloc, TypeOK
    <3> QED BY <1>0, <3>1, WalkConserves
  <2>2. ASSUME NEW c \in Chunk, CallPfree(t, c) PROVE Conserved'
    BY <1>0, <2>2, LastUserConserves DEF CallPfree
  <2>3. ASSUME NEW u \in Thread, NEW c \in Chunk, SlabRef(t, u, c) PROVE Conserved'
    <3>1. UNCHANGED <<capacity, slot, sp, mem, pc>>
      BY <2>3 DEF SlabRef
    <3>2. \A d \in Chunk : owners[d] # {} => owners'[d] # {}
      BY <1>0, <2>3 DEF SlabRef, TypeOK
    <3> QED BY <1>0, <3>1, <3>2, WalkConserves
  <2>4. ASSUME NEW c \in Chunk, SlabUnref(t, c) PROVE Conserved'
    <3>1. /\ pc[t] = "idle" /\ t \in owners[c] /\ owners[c] \subseteq Thread
          /\ owners' = [owners EXCEPT ![c] = owners[c] \ {t}]
          /\ UNCHANGED <<capacity, slot, sp>>
          /\ refcount[c] = Cardinality(owners[c])
      BY <1>0, <2>4 DEF SlabUnref, TypeOK, ChunkInv, HeaderTrue
    <3>2. CASE owners[c] = {t}
      <4>1. refcount[c] = 1 /\ owners' = [owners EXCEPT ![c] = {}]
        BY <3>1, <3>2, FS_Singleton
      <4>2. mem' = [mem EXCEPT ![t] = c] /\ pc' = [pc EXCEPT ![t] = "pfree"]
        BY <2>4, <4>1 DEF SlabUnref, DropsLast
      <4> QED BY <1>0, <3>1, <4>1, <4>2, LastUserConserves
    <3>3. CASE owners[c] # {t}
      <4>1. refcount[c] # 1
        <5>1. IsFiniteSet(owners[c])
          BY <3>1, SlabAssumption, FS_Subset
        <5>2. SUFFICES ASSUME Cardinality(owners[c]) = 1 PROVE FALSE
          BY <3>1
        <5>3. PICK x : owners[c] = {x}
          BY <5>1, <5>2, FS_Singleton
        <5> QED BY <3>1, <3>3, <5>3
      <4>2. UNCHANGED <<mem, pc>>
        BY <2>4, <4>1 DEF SlabUnref, DropsLast
      <4>3. \A d \in Chunk : owners[d] # {} => owners'[d] # {}
        BY <1>0, <3>1, <3>3 DEF TypeOK
      <4> QED BY <1>0, <3>1, <4>2, <4>3, WalkConserves
    <3> QED BY <3>2, <3>3
  <2> QED BY <1>1, <2>1, <2>2, <2>3, <2>4 DEF Client
<1>2. ASSUME NEW t \in Thread, Lock(t) PROVE Conserved'
  <2>1. /\ UNCHANGED <<capacity, slot, sp, mem, owners>>
        /\ \A u \in Thread \ {t} : pc'[u] = pc[u]
        /\ pc[t] = "palloc" \/ pc'[t] = "push"
    BY <1>0, <1>2 DEF Lock, PallocLock, PfreeLock, TypeOK
  <2> QED BY <1>0, <2>1, WalkConserves
<1>3. ASSUME NEW t \in Thread, Step(t) PROVE Conserved'
  <2>1. CASE PallocNext(t)
    <3>1. /\ UNCHANGED <<capacity, slot, sp, mem, owners>>
          /\ \A u \in Thread \ {t} : pc'[u] = pc[u]
          /\ pc[t] = "search"
      BY <1>0, <2>1 DEF PallocNext, TypeOK
    <3> QED BY <1>0, <3>1, WalkConserves
  <2>0. CASE PfreeStart(t)
    <3>1. /\ UNCHANGED <<capacity, slot, sp, mem, owners>>
          /\ \A u \in Thread \ {t} : pc'[u] = pc[u]
          /\ pc'[t] = "lock"
      BY <1>0, <2>0 DEF PfreeStart, TypeOK
    <3> QED BY <1>0, <3>1, WalkConserves
  <2>2. CASE PallocFail(t)
    <3>1. /\ UNCHANGED <<capacity, slot, sp, owners>> /\ pc[t] = "grow"
          /\ \A u \in Thread \ {t} : pc'[u] = pc[u] /\ mem'[u] = mem[u]
      BY <1>0, <2>2 DEF PallocFail, Return, TypeOK
    <3>2. \A u \in Thread : InHand(u) \subseteq InHand(u)'
      <4>1. \A u \in Thread \ {t} : InHand(u)' = InHand(u)
        BY <1>0, <3>1, HandsOfOthers
      <4>2. InHand(t) = {}
        BY <1>0, <3>1, InHandIs
      <4> QED BY <4>1, <4>2
    <3>3. \A b \in Block : Stacked(b)' = Stacked(b)
      BY <3>1 DEF Stacked
    <3>4. \A c \in Chunk : Placed(c) => Placed(c)'
      BY <3>1, <3>2, <3>3, ChunkPair DEF Placed
    <3> QED BY <1>0, <3>1, <3>4, StayPlaced
  <2> QED BY <1>0, <1>3, <2>0, <2>1, <2>2, PallocPopConserves, PallocGrowConserves,
             PfreePushConserves DEF Step
<1>4. ASSUME UNCHANGED <<capacity, slot, sp, owners, pc, mem>> PROVE Conserved'
  BY <1>4 DEF Conserved, Mapped, Stacked, InHand
<1>5. CASE Owner
  BY <1>4, <1>5, OwnerConserves DEF Owner, Finished, slabVars
<1>6. CASE UNCHANGED vars
  BY <1>4, <1>6 DEF vars, slabVars
<1> QED BY <1>1, <1>2, <1>3, <1>5, <1>6 DEF Next

(* No chunk is lost, whatever block its palloc and its pfree met.          *)
THEOREM NothingLost == Spec => []Conserved
<1>1. Init => Conserved
  <2> SUFFICES ASSUME Init PROVE Conserved
    OBVIOUS
  <2>1. ASSUME NEW i \in 1 .. Capacity PROVE <<1, i>> \in Stacked(1)
    <3>1. i \in Slot /\ 1 \in Block
      BY SlabAssumption DEF Slot, Block
    <3>2. slot[1] = FreshSlots(1) /\ sp[1] = Capacity
      BY <3>1 DEF Init, SlabInit, InitPool
    <3>3. slot[1][i] = <<1, i>>
      BY <3>1, <3>2 DEF FreshSlots
    <3> QED BY <3>2, <3>3 DEF Stacked
  <2>2. Mapped = {1} /\ capacity[1] = Capacity
    BY SlabAssumption DEF Init, SlabInit, InitPool, Mapped, Block
  <2> QED BY <2>1, <2>2 DEF Conserved
<1>2. IInv /\ IInv' /\ Conserved /\ [Next]_vars => Conserved'
  BY NextConserves
<1> QED BY <1>1, <1>2, Invariance, PTL DEF Spec

(* Two sets that a one-to-one function maps onto each other are as large.  *)
LEMMA SameSize ==
  ASSUME NEW S, NEW T, IsFiniteSet(S), NEW f \in [S -> T],
         \A x, y \in S : f[x] = f[y] => x = y,
         \A z \in T : \E x \in S : f[x] = z
  PROVE  Cardinality(T) = Cardinality(S)
<1>1. f \in Bijection(S, T)
  BY DEF Bijection, Injection, Surjection, IsInjective
<1>2. ExistsBijection(S, T)
  BY <1>1 DEF ExistsBijection
<1> QED BY <1>2, FS_Bijection

(* What frl_slab_pool_stat computes from the heights of the stacks         *)
(* (frl_slab_pool.c:320-336) is the number of chunks that have users: the  *)
(* arena entries below the stack pointers and the stacked chunks are as    *)
(* many, so what is left of the arenas is too.                             *)
THEOREM UsageIsTrue == Spec => []UsageExact
<1>1. ASSUME IInv, Conserved PROVE UsageExact
  <2> SUFFICES ASSUME AllIdle, poolBlock # Gone
               PROVE  Usage = Cardinality({c \in Chunk : owners[c] # {}})
    BY DEF UsageExact
  <2> DEFINE Arena == {c \in Chunk : c[2] <= capacity[c[1]]}
             Low == {c \in Arena : c[2] <= sp[c[1]]}
             Free == {c \in Chunk : c \in Stacked(c[1])}
             f == [c \in Low |-> slot[c[1]][c[2]]]
  <2>0. ChunkInv /\ TypeOK
    BY <1>1 DEF IInv, ChunkInv
  <2>1. \A c \in Chunk :
          /\ c[1] \in Block /\ c[2] \in Nat \ {0} /\ c[2] \in Slot
          /\ capacity[c[1]] \in Nat /\ sp[c[1]] \in Nat /\ sp[c[1]] <= capacity[c[1]]
    <3>1. \A b \in Block : capacity[b] \in Nat /\ sp[b] \in Nat /\ sp[b] <= capacity[b]
      BY <2>0, SlabAssumption DEF TypeOK, ChunkInv, Inside
    <3>2. \A i \in Slot : i \in Nat \ {0}
      BY SlabAssumption DEF Slot
    <3> QED BY <3>1, <3>2, ChunkPair
  <2>2. IsFiniteSet(Arena)
    <3>1. IsFiniteSet(Block) /\ IsFiniteSet(Slot)
      BY SlabAssumption, FS_Interval DEF Block, Slot
    <3>2. IsFiniteSet(Chunk)
      BY <3>1, FS_Product DEF Chunk
    <3> QED BY <3>2, FS_Subset
  <2>3. ASSUME NEW c \in Low
        PROVE  /\ f[c] \in Free /\ f[c][1] = c[1]
               /\ c[2] \in 1 .. sp[c[1]] /\ f[c] = slot[c[1]][c[2]]
    <3>1. c[2] \in 1 .. sp[c[1]] /\ c[2] \in 1 .. capacity[c[1]]
      BY <2>1
    <3>2. slot[c[1]][c[2]] \in Chunk /\ slot[c[1]][c[2]][1] = c[1]
      BY <2>0, <2>1, <3>1, SlotInArena DEF ChunkInv
    <3>3. slot[c[1]][c[2]] \in Stacked(c[1])
      BY <3>1 DEF Stacked
    <3> QED BY <3>1, <3>2, <3>3
  <2>4. ASSUME NEW c \in Low, NEW d \in Low, f[c] = f[d]
        PROVE  c = d
    <3>1. c[1] = d[1] /\ c[1] \in Block
      BY <2>1, <2>3, <2>4
    <3>2. /\ c[2] \in 1 .. sp[c[1]] /\ d[2] \in 1 .. sp[c[1]]
          /\ slot[c[1]][c[2]] = slot[c[1]][d[2]]
      BY <2>3, <2>4, <3>1
    <3>3. c[2] = d[2]
      BY <2>0, <3>1, <3>2 DEF ChunkInv, Exclusive
    <3> QED BY <3>1, <3>3, ChunkPair
  <2>5. ASSUME NEW d \in Free
        PROVE  \E c \in Low : f[c] = d
    <3>1. PICK i \in 1 .. sp[d[1]] : d = slot[d[1]][i]
      BY DEF Stacked
    <3>2. d[1] \in Block /\ i \in Slot /\ i <= sp[d[1]] /\ i <= capacity[d[1]]
      <4>1. d[1] \in Block /\ i \in Nat \ {0} /\ i <= sp[d[1]] /\ i <= capacity[d[1]]
        BY <2>1
      <4>2. capacity[d[1]] \in 0 .. MaxCapacity
        BY <2>0, <4>1 DEF TypeOK
      <4> QED BY <4>1, <4>2, SlabAssumption DEF Slot
    <3>3. /\ <<d[1], i>> \in Chunk
          /\ <<d[1], i>>[1] = d[1] /\ <<d[1], i>>[2] = i
      BY <3>2, ChunkPair
    <3>4. <<d[1], i>> \in Low
      BY <3>2, <3>3
    <3> QED BY <3>1, <3>3, <3>4
  <2>6. Cardinality(Free) = Cardinality(Low)
    <3>1. f \in [Low -> Free]
      BY <2>3
    <3>2. IsFiniteSet(Low)
      BY <2>2, FS_Subset
    <3> HIDE DEF f, Low, Free
    <3> QED BY <2>4, <2>5, <3>1, <3>2, SameSize
  <2>7. Free \subseteq Arena
    <3> SUFFICES ASSUME NEW d \in Chunk, d \in Stacked(d[1]) PROVE d[2] <= capacity[d[1]]
      OBVIOUS
    <3>1. PICK i \in 1 .. sp[d[1]] : d = slot[d[1]][i]
      BY DEF Stacked
    <3>2. i \in 1 .. capacity[d[1]]
      BY <2>1
    <3> QED BY <2>0, <2>1, <3>1, <3>2, SlotInArena DEF ChunkInv
  <2>8. {c \in Chunk : c[1] \in Ring /\ c[2] \in sp[c[1]] + 1 .. capacity[c[1]]} = Arena \ Low
    <3> SUFFICES ASSUME NEW c \in Chunk
                 PROVE  c[1] \in Ring /\ c[2] \in sp[c[1]] + 1 .. capacity[c[1]]
                        <=> c[2] <= capacity[c[1]] /\ ~(c[2] <= sp[c[1]])
      OBVIOUS
    <3>1. capacity[c[1]] # 0 => c[1] \in Ring
      BY <1>1, <2>1, RingIsMapped DEF IInv, Mapped
    <3> QED BY <2>1, <3>1
  <2>9. {c \in Chunk : owners[c] # {}} = Arena \ Free
    <3> SUFFICES ASSUME NEW c \in Chunk
                 PROVE  owners[c] # {} <=> c[2] <= capacity[c[1]] /\ c \notin Stacked(c[1])
      OBVIOUS
    <3>1. owners[c] # {} => c[2] <= capacity[c[1]] /\ c \notin Stacked(c[1])
      BY <2>0, <2>1 DEF ChunkInv, HeaderTrue, Exclusive
    <3>2. ASSUME c[2] <= capacity[c[1]], c \notin Stacked(c[1])
          PROVE  owners[c] # {}
      <4>1. c[1] \in Mapped /\ c[2] \in 1 .. capacity[c[1]] /\ c = <<c[1], c[2]>>
        BY <2>1, <3>2, ChunkPair DEF Mapped
      <4>2. \A t \in Thread : InHand(t) = {}
        BY DEF AllIdle, InHand
      <4> QED BY <1>1, <3>2, <4>1, <4>2 DEF Conserved
    <3> QED BY <3>1, <3>2
  <2>10. Cardinality(Arena \ Low) = Cardinality(Arena \ Free)
    <3>1. Arena \cap Low = Low /\ Arena \cap Free = Free
      BY <2>7
    <3> HIDE DEF Arena, Low, Free
    <3>2. Cardinality(Arena \ Low) = Cardinality(Arena) - Cardinality(Low)
      BY <2>2, <3>1, FS_Difference
    <3>3. Cardinality(Arena \ Free) = Cardinality(Arena) - Cardinality(Free)
      BY <2>2, <3>1, FS_Difference
    <3> QED BY <2>6, <3>2, <3>3
  <2> QED BY <2>8, <2>9, <2>10 DEF Usage
<1> QED BY <1>1, Invariance, NothingLost, PTL

-----------------------------------------------------------------------------
(* palloc asks malloc for memory only when there is no chunk left: a walk  *)
(* that has come round (frl_slab_pool.c:161-180) has seen every block, and *)
(* each was empty; whoever gives a chunk back waits for the mutex.         *)
THEOREM GrowsOnlyWhenFull == Spec => []GrowsWhenFull
<1>1. ASSUME IInv, Conserved PROVE GrowsWhenFull
  <2> SUFFICES ASSUME NEW t \in Thread, pc[t] = "grow",
                      NEW b \in Mapped, NEW i \in 1 .. capacity[b], owners[<<b, i>>] = {}
               PROVE  \E u \in Thread : pc[u] \in {"pfree", "lock"} /\ mem[u] = <<b, i>>
    BY DEF GrowsWhenFull
  <2>1. ChunkInv /\ TypeOK /\ MutexHeld
    BY <1>1 DEF IInv, ChunkInv
  <2>2. sp[b] = 0
    BY <1>1 DEF IInv, WalkInv
  <2>3. <<b, i>> \notin Stacked(b)
    BY <2>2 DEF Stacked
  <2>4. PICK u \in Thread : <<b, i>> \in InHand(u)
    BY <1>1, <2>3 DEF Conserved
  <2>5. pc[u] \in Returning /\ mem[u] = <<b, i>>
    BY <2>1, <2>4, InHandIs
  <2>6. pc[u] # "push"
    <3> SUFFICES ASSUME pc[u] = "push" PROVE FALSE
      OBVIOUS
    <3> QED BY <2>1 DEF MutexHeld
  <2> QED BY <2>5, <2>6
<1> QED BY <1>1, Invariance, NothingLost, PTL

-----------------------------------------------------------------------------
(* The pool is the pool of ChunkPool.                                      *)

(* What a client sees of thread t, in the pcs of this module.              *)
LEMMA SeenIs ==
  ASSUME TypeOK, NEW t \in Thread
  PROVE  /\ CallOf(t) = IF pc[t] = "idle" THEN "idle"
                        ELSE IF pc[t] \in Returning THEN "pfree" ELSE "palloc"
         /\ BackOf(t) = IF pc[t] \in Returning THEN mem[t] ELSE NoChunk
BY DEF TypeOK, CallOf, BackOf, GivingBack

LEMMA SeenIsNext ==
  ASSUME TypeOK', NEW t \in Thread
  PROVE  /\ CallOf(t)' = IF pc'[t] = "idle" THEN "idle"
                         ELSE IF pc'[t] \in Returning THEN "pfree" ELSE "palloc"
         /\ BackOf(t)' = IF pc'[t] \in Returning THEN mem'[t] ELSE NoChunk
BY DEF TypeOK, CallOf, BackOf, GivingBack

Calls == [t \in Thread |-> CallOf(t)]
Backs == [t \in Thread |-> BackOf(t)]

(* Only what is seen of t changes.                                         *)
LEMMA OnlySeen ==
  ASSUME TypeOK, TypeOK', NEW t \in Thread,
         \A u \in Thread \ {t} : pc'[u] = pc[u] /\ mem'[u] = mem[u]
  PROVE  /\ Calls' = [Calls EXCEPT ![t] = CallOf(t)']
         /\ Backs' = [Backs EXCEPT ![t] = BackOf(t)']
<1>1. \A u \in Thread \ {t} : CallOf(u)' = CallOf(u) /\ BackOf(u)' = BackOf(u)
  BY SeenIs, SeenIsNext
<1> QED BY <1>1 DEF Calls, Backs

(* A chunk that is stacked, or in a block that is not there yet, has no    *)
(* user and nobody is giving it back.                                      *)
LEMMA StackedIsUnused ==
  ASSUME ChunkInv, NEW c \in Chunk,
         c \in Stacked(c[1]) \/ capacity[c[1]] = 0
  PROVE  owners[c] = {} /\ \A u \in Thread : BackOf(u) # c
<1>1. TypeOK /\ Exclusive /\ HeaderTrue /\ Inside
  BY DEF ChunkInv
<1>2. c[1] \in Block /\ c[2] \in Nat \ {0} /\ c # NoChunk
  BY ChunkPair DEF Slot, NoChunk, Block
<1>3. CASE c \in Stacked(c[1])
  <2>1. owners[c] = {}
    BY <1>1, <1>2, <1>3 DEF Exclusive
  <2>2. \A u \in Thread : c \notin InHand(u)
    BY <1>1, <1>2, <1>3 DEF Exclusive
  <2> QED BY <1>1, <1>2, <2>1, <2>2, SeenIs, InHandIs
<1>4. CASE capacity[c[1]] = 0
  <2>1. ~(c[2] <= capacity[c[1]])
    BY <1>2, <1>4
  <2>2. owners[c] = {}
    BY <1>1, <2>1 DEF HeaderTrue
  <2>3. \A u \in Thread : pc[u] \in Returning => mem[u] # c
    BY <1>1, <2>1 DEF HeaderTrue, Inside
  <2> QED BY <1>1, <1>2, <2>2, <2>3, SeenIs
<1> QED BY <1>3, <1>4

(* palloc returns chunk c.                                                 *)
LEMMA PallocTakes ==
  ASSUME ChunkInv, TypeOK', NEW t \in Thread, NEW c \in Chunk,
         pc[t] \in {"search", "grow"},
         c \in Stacked(c[1]) \/ capacity[c[1]] = 0,
         owners' = [owners EXCEPT ![c] = {t}], Return(t),
         poolBlock' # Gone
  PROVE  Abstract!TakeChunk(t, c)
<1>1. TypeOK /\ poolBlock # Gone
  BY DEF ChunkInv, Inside, AllIdle
<1>2. pc'[t] = "idle" /\ \A u \in Thread \ {t} : pc'[u] = pc[u] /\ mem'[u] = mem[u]
  BY <1>1 DEF Return, TypeOK
<1>3. CallOf(t) = "palloc" /\ BackOf(t) = NoChunk /\ CallOf(t)' = "idle" /\ BackOf(t)' = NoChunk
  BY <1>1, <1>2, SeenIs, SeenIsNext
<1>4. Calls' = [Calls EXCEPT ![t] = "idle"] /\ Backs' = [Backs EXCEPT ![t] = NoChunk]
  BY <1>1, <1>2, <1>3, OnlySeen
<1>5. Backs' = Backs /\ Calls[t] = "palloc"
  BY <1>3, <1>4 DEF Backs, Calls
<1>6. c \in Abstract!Unused
  BY StackedIsUnused DEF Abstract!Unused
<1> QED BY <1>1, <1>4, <1>5, <1>6 DEF Abstract!TakeChunk, Calls, Backs

(* The last user lets c go.                                                *)
LEMMA LastUserLeaves ==
  ASSUME ChunkInv, TypeOK', NEW t \in Thread, NEW c \in Chunk,
         pc[t] = "idle", owners[c] = {t},
         owners' = [owners EXCEPT ![c] = {}],
         mem' = [mem EXCEPT ![t] = c],
         pc' = [pc EXCEPT ![t] = "pfree"],
         UNCHANGED poolBlock
  PROVE  Abstract!LeaveChunk(t, c)
<1>1. TypeOK
  BY DEF ChunkInv
<1>2. /\ pc'[t] = "pfree" /\ mem'[t] = c
      /\ \A u \in Thread \ {t} : pc'[u] = pc[u] /\ mem'[u] = mem[u]
  BY <1>1 DEF TypeOK
<1>3. CallOf(t) = "idle" /\ CallOf(t)' = "pfree" /\ BackOf(t)' = c
  BY <1>1, <1>2, SeenIs, SeenIsNext
<1>4. Calls' = [Calls EXCEPT ![t] = "pfree"] /\ Backs' = [Backs EXCEPT ![t] = c]
  BY <1>1, <1>2, <1>3, OnlySeen
<1>5. Calls[t] = "idle"
  BY <1>3 DEF Calls
<1>6. owners' = [owners EXCEPT ![c] = owners[c] \ {t}]
  OBVIOUS
<1> QED BY <1>4, <1>5, <1>6 DEF Abstract!LeaveChunk, Calls, Backs

(* One of several users lets c go: the count stays above 0.                *)
LEMMA OneUserLeaves ==
  ASSUME ChunkInv, NEW t \in Thread, NEW c \in Chunk,
         pc[t] = "idle", t \in owners[c], owners[c] # {t},
         owners' = [owners EXCEPT ![c] = owners[c] \ {t}],
         UNCHANGED <<pc, mem, poolBlock>>
  PROVE  Abstract!LeaveChunk(t, c)
<1>1. Calls' = Calls /\ Backs' = Backs
  BY DEF Calls, Backs, CallOf, BackOf
<1>2. Calls[t] = "idle"
  BY SeenIs DEF ChunkInv, Calls
<1> QED BY <1>1, <1>2 DEF Abstract!LeaveChunk, Calls, Backs

LEMMA ClientStep ==
  ASSUME ChunkInv, TypeOK', NEW t \in Thread, Client(t)
  PROVE  Abstract!Next
<1> USE DEF poolVars, headerVars, localVars
<1>1. TypeOK /\ HeaderTrue
  BY DEF ChunkInv
<1>2. CASE CallPalloc(t)
  <2>1. /\ pc[t] = "idle" /\ pc'[t] = "palloc" /\ poolBlock # Gone
        /\ \A u \in Thread \ {t} : pc'[u] = pc[u] /\ mem'[u] = mem[u]
        /\ UNCHANGED <<owners, poolBlock>>
    BY <1>1, <1>2 DEF CallPalloc, TypeOK
  <2>2. /\ CallOf(t) = "idle" /\ CallOf(t)' = "palloc"
        /\ BackOf(t) = NoChunk /\ BackOf(t)' = NoChunk
    BY <1>1, <2>1, SeenIs, SeenIsNext
  <2>3. Calls' = [Calls EXCEPT ![t] = "palloc"] /\ Backs' = [Backs EXCEPT ![t] = NoChunk]
    BY <1>1, <2>1, <2>2, OnlySeen
  <2>4. Calls[t] = "idle" /\ Backs' = Backs
    BY <2>2, <2>3 DEF Calls, Backs
  <2>5. Abstract!AskChunk(t)
    BY <2>1, <2>3, <2>4 DEF Abstract!AskChunk, Calls, Backs
  <2> QED BY <2>5 DEF Abstract!Next
<1>3. ASSUME NEW c \in Chunk, CallPfree(t, c) PROVE Abstract!Next
  <2>1. Abstract!LeaveChunk(t, c)
    BY <1>3, LastUserLeaves DEF CallPfree
  <2> QED BY <2>1 DEF Abstract!Next
<1>4. ASSUME NEW u \in Thread, NEW c \in Chunk, SlabRef(t, u, c) PROVE Abstract!Next
  <2>1. Calls' = Calls /\ Backs' = Backs /\ UNCHANGED poolBlock
    BY <1>4 DEF SlabRef, Calls, Backs, CallOf, BackOf
  <2>2. Calls[t] = "idle" /\ Calls[u] = "idle" /\ t \in owners[c]
        /\ owners' = [owners EXCEPT ![c] = @ \cup {u}]
    BY <1>1, <1>4, SeenIs DEF SlabRef, Calls
  <2>3. Abstract!ShareChunk(t, u, c)
    BY <2>1, <2>2 DEF Abstract!ShareChunk, Calls, Backs
  <2> QED BY <2>3 DEF Abstract!Next
<1>5. ASSUME NEW c \in Chunk, SlabUnref(t, c) PROVE Abstract!Next
  <2>1. /\ pc[t] = "idle" /\ t \in owners[c] /\ owners[c] \subseteq Thread
        /\ owners' = [owners EXCEPT ![c] = owners[c] \ {t}]
        /\ UNCHANGED poolBlock
        /\ refcount[c] = Cardinality(owners[c])
    BY <1>1, <1>5 DEF SlabUnref, TypeOK, HeaderTrue
  <2>2. CASE owners[c] = {t}
    <3>1. refcount[c] = 1 /\ owners' = [owners EXCEPT ![c] = {}]
      BY <2>1, <2>2, FS_Singleton
    <3>2. mem' = [mem EXCEPT ![t] = c] /\ pc' = [pc EXCEPT ![t] = "pfree"]
      BY <1>5, <3>1 DEF SlabUnref, DropsLast
    <3>3. Abstract!LeaveChunk(t, c)
      BY <2>1, <2>2, <3>1, <3>2, LastUserLeaves
    <3> QED BY <3>3 DEF Abstract!Next
  <2>3. CASE owners[c] # {t}
    <3>1. refcount[c] # 1
      <4>1. IsFiniteSet(owners[c])
        BY <2>1, SlabAssumption, FS_Subset
      <4>2. SUFFICES ASSUME Cardinality(owners[c]) = 1 PROVE FALSE
        BY <2>1
      <4>3. PICK x : owners[c] = {x}
        BY <4>1, <4>2, FS_Singleton
      <4> QED BY <2>1, <2>3, <4>3
    <3>2. UNCHANGED <<pc, mem>>
      BY <1>5, <3>1 DEF SlabUnref, DropsLast
    <3>3. Abstract!LeaveChunk(t, c)
      BY <2>1, <2>3, <3>2, OneUserLeaves
    <3> QED BY <3>3 DEF Abstract!Next
  <2> QED BY <2>2, <2>3
<1> QED BY <1>2, <1>3, <1>4, <1>5 DEF Client

LEMMA CallStep ==
  ASSUME ChunkInv, TypeOK', NEW t \in Thread, Step(t), ~PallocNext(t), ~PfreeStart(t)
  PROVE  Abstract!Next
<1>1. TypeOK
  BY DEF ChunkInv
<1>2. CASE PallocPop(t)
  <2>1. PICK b \in Block, n \in Nat : b = blk[t] /\ n = sp[b] /\ n # 0 /\ n <= capacity[b]
    BY <1>2 DEF PallocPop, ChunkInv, TypeOK, Inside
  <2>2. n \in 1 .. capacity[b] /\ n \in 1 .. sp[b]
    BY <1>1, <2>1 DEF TypeOK
  <2>3. PICK c \in Chunk : c = slot[b][n] /\ c[1] = b
    BY <2>2, SlotInArena DEF ChunkInv
  <2>4. c \in Stacked(c[1])
    BY <2>2, <2>3 DEF Stacked
  <2>5. /\ pc[t] = "search" /\ owners' = [owners EXCEPT ![c] = {t}] /\ Return(t)
        /\ poolBlock' # Gone
    BY <1>2, <2>1, <2>3 DEF PallocPop, Block, Gone
  <2>6. Abstract!TakeChunk(t, c)
    BY <2>4, <2>5, PallocTakes
  <2> QED BY <2>6 DEF Abstract!Next
<1>3. ASSUME NEW b \in Block, PallocGrow(t, b) PROVE Abstract!Next
  <2>1. PICK n \in Slot : n = 2 * maxCapacity
    BY <1>1, <1>3 DEF PallocGrow, MallocGives, TypeOK, Slot
  <2>2. PICK c \in Chunk : c = <<b, n>> /\ c[1] = b
    <3>1. <<b, n>> \in Chunk /\ <<b, n>>[1] = b
      BY ChunkPair
    <3> QED BY <3>1
  <2>3. capacity[c[1]] = 0
    BY <1>3, <2>2 DEF PallocGrow, MallocGives, Mapped
  <2>4. /\ pc[t] = "grow" /\ owners' = [owners EXCEPT ![c] = {t}] /\ Return(t)
        /\ poolBlock' # Gone
    BY <1>3, <2>1, <2>2 DEF PallocGrow, Block, Gone
  <2>5. Abstract!TakeChunk(t, c)
    BY <2>3, <2>4, PallocTakes
  <2> QED BY <2>5 DEF Abstract!Next
<1>4. CASE PallocFail(t) \/ PfreePush(t)
  <2>1. /\ pc[t] \in {"grow", "push"} /\ pc'[t] = "idle"
        /\ \A u \in Thread \ {t} : pc'[u] = pc[u] /\ mem'[u] = mem[u]
        /\ UNCHANGED <<owners, poolBlock>>
    BY <1>1, <1>4 DEF PallocFail, PfreePush, Return, poolVars, TypeOK
  <2>2. CallOf(t)' = "idle" /\ BackOf(t)' = NoChunk
    BY <2>1, SeenIsNext
  <2>3. Calls' = [Calls EXCEPT ![t] = "idle"] /\ Backs' = [Backs EXCEPT ![t] = NoChunk]
    BY <1>1, <2>1, <2>2, OnlySeen
  <2>4. CASE pc[t] = "grow"
    <3>1. Calls[t] = "palloc" /\ Backs' = Backs
      BY <1>1, <2>3, <2>4, SeenIs DEF Calls, Backs
    <3>2. Abstract!RefuseChunk(t)
      BY <2>1, <2>3, <3>1 DEF Abstract!RefuseChunk, Calls, Backs
    <3> QED BY <3>2 DEF Abstract!Next
  <2>5. CASE pc[t] = "push"
    <3>1. Calls[t] = "pfree"
      BY <1>1, <2>5, SeenIs DEF Calls
    <3>2. Abstract!ReturnChunk(t)
      BY <2>1, <2>3, <3>1 DEF Abstract!ReturnChunk, Calls, Backs
    <3> QED BY <3>2 DEF Abstract!Next
  <2> QED BY <2>1, <2>4, <2>5
<1> QED BY <1>2, <1>3, <1>4 DEF Step

(* Steps that no client sees.                                              *)
LEMMA HiddenStep ==
  ASSUME TypeOK, TypeOK', NEW t \in Thread, Lock(t) \/ PallocNext(t) \/ PfreeStart(t)
  PROVE  UNCHANGED Abstract!chunkVars
<1>1. /\ UNCHANGED <<owners, poolBlock, mem>>
      /\ \A u \in Thread \ {t} : pc'[u] = pc[u]
      /\ \/ pc[t] \in {"palloc", "search"} /\ pc'[t] \in {"search", "grow"}
         \/ pc[t] \in {"pfree", "lock"} /\ pc'[t] \in {"lock", "push"}
  <2>1. CASE Lock(t)
    BY <2>1 DEF Lock, PallocLock, PfreeLock, poolVars, localVars, TypeOK
  <2>2. CASE PallocNext(t) \/ PfreeStart(t)
    BY <2>2 DEF PallocNext, PfreeStart, poolVars, TypeOK
  <2> QED BY <2>1, <2>2
<1>2. CallOf(t)' = CallOf(t) /\ BackOf(t)' = BackOf(t)
  BY <1>1, SeenIs, SeenIsNext
<1>3. Calls' = [Calls EXCEPT ![t] = CallOf(t)] /\ Backs' = [Backs EXCEPT ![t] = BackOf(t)]
  BY <1>1, <1>2, OnlySeen
<1>4. Calls' = Calls /\ Backs' = Backs
  BY <1>3 DEF Calls, Backs
<1> QED BY <1>1, <1>4 DEF Abstract!chunkVars, Calls, Backs

LEMMA OwnerStep ==
  ASSUME ChunkInv, PoolClear \/ PoolDestroy
  PROVE  Abstract!DropChunks
<1>1. /\ AllIdle /\ poolBlock # Gone /\ UNCHANGED <<pc, mem>>
      /\ owners' = [c \in Chunk |-> {}]
  BY DEF PoolClear, PoolDestroy, localVars
<1>2. Calls' = Calls /\ Backs' = Backs
  BY <1>1 DEF Calls, Backs, CallOf, BackOf
<1>3. \A t \in Thread : Calls[t] = "idle"
  BY <1>1, SeenIs DEF ChunkInv, AllIdle, Calls
<1> QED BY <1>1, <1>2, <1>3 DEF Abstract!DropChunks, Calls, Backs

LEMMA NextStep ==
  ASSUME IInv, IInv', [Next]_vars
  PROVE  [Abstract!Next]_(Abstract!chunkVars)
<1>1. ChunkInv /\ TypeOK /\ TypeOK'
  BY DEF IInv, ChunkInv
<1>2. ASSUME NEW t \in Thread, Client(t) \/ Lock(t) \/ Step(t)
      PROVE  [Abstract!Next]_(Abstract!chunkVars)
  BY <1>1, <1>2, ClientStep, CallStep, HiddenStep
<1>3. CASE Owner /\ ~Finished
  BY <1>1, <1>3, OwnerStep DEF Owner, Abstract!Next
<1>4. CASE Finished \/ UNCHANGED vars
  <2>1. UNCHANGED <<owners, poolBlock, pc, mem>>
    BY <1>4 DEF Finished, vars, slabVars, poolVars, localVars
  <2>2. Calls' = Calls /\ Backs' = Backs
    BY <2>1 DEF Calls, Backs, CallOf, BackOf
  <2> QED BY <2>1, <2>2 DEF Abstract!chunkVars, Calls, Backs
<1> QED BY <1>2, <1>3, <1>4 DEF Next

(* frl_slab_pool with its mutex is the pool of ChunkPool: palloc gives a   *)
(* chunk that nobody has, and unref gives it back just when the last user  *)
(* has dropped it (frl_slab_pool.c:154-247).                               *)
THEOREM Implements == Spec => ImplementsChunkPool
<1>1. Init => Abstract!Init
  <2> SUFFICES ASSUME Init PROVE Abstract!Init
    OBVIOUS
  <2>1. \A t \in Thread : CallOf(t) = "idle" /\ BackOf(t) = NoChunk
    BY DEF Init, SlabInit, InitClient, CallOf, BackOf, GivingBack
  <2> QED BY <2>1 DEF Init, SlabInit, InitClient, InitPool, Gone, Abstract!Init
<1>2. IInv /\ IInv' /\ [Next]_vars => [Abstract!Next]_(Abstract!chunkVars)
  BY NextStep
<1> QED BY <1>1, <1>2, Invariance, PTL DEF Spec, ImplementsChunkPool, Abstract!Spec

-----------------------------------------------------------------------------
(* Every variable keeps its type: the stacks stay inside their arrays.     *)
THEOREM TypeCorrect == Spec => []TypeOK
<1>1. IInv => TypeOK
  BY DEF IInv, ChunkInv
<1> QED BY <1>1, Invariance, PTL

(* Between lock and unlock there is only the thread that holds the mutex.  *)
THEOREM MutualExclusion == Spec => []MutexHeld
<1>1. IInv => MutexHeld
  BY DEF IInv, ChunkInv
<1> QED BY <1>1, Invariance, PTL

(* No chunk is given out twice (frl_slab_palloc_lock_with and              *)
(* frl_slab_pfree_lock_with, lines 154-213).                               *)
THEOREM NoDoubleUse == Spec => []Exclusive
<1>1. IInv => Exclusive
  BY DEF IInv, ChunkInv
<1> QED BY <1>1, Invariance, PTL

(* References are counted truly and the assertion of frl_slab_pfree holds. *)
THEOREM HeadersTrue == Spec => []HeaderTrue
<1>1. IInv => HeaderTrue
  BY DEF IInv, ChunkInv
<1> QED BY <1>1, Invariance, PTL

(* pfree stays inside usage_stack, and frl_slab_pool_safe finds no entry   *)
(* outside its arena.                                                      *)
THEOREM StacksStayInArena == Spec => [](PushInBounds /\ PoolSafe)
<1>1. IInv => PushInBounds /\ PoolSafe
  BY RoomToPush DEF IInv, ChunkInv
<1> QED BY <1>1, Invariance, PTL

=============================================================================
