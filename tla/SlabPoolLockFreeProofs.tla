------------------------ MODULE SlabPoolLockFreeProofs ------------------------
(***************************************************************************)
(* That the lock-free slab pool gives no chunk out twice and loses none,   *)
(* never writes past a usage stack, has one owner for each claimed stack,  *)
(* keeps its ring whole, and implements ChunkPool, for every set of        *)
(* threads, every initial capacity and every number and size of blocks.    *)
(*                                                                         *)
(* The inductive invariant IInv tells the blocks that the ring links from  *)
(* those a thread has created and not linked in yet, and says what a       *)
(* thread's locals are worth at each of its steps: palloc stands on linked *)
(* blocks, the chunk in its hands fits the block it came from, the height  *)
(* that pfree has read leaves room for one more entry.                     *)
(***************************************************************************)
EXTENDS SlabPoolLockFree, Functions, FiniteSetTheorems, TLAPS

(* The blocks that are in the ring: all but those not linked in yet.       *)
Linked == {b \in Mapped : \A t \in Thread : pc[t] = "link" => blk[t] # b}

(* In palloc, on a block of the ring.                                      *)
Walking == {"read", "take", "pop", "header", "next", "walk", "grow", "create",
            "double", "publish"}

(* In pfree, past its first read of the header.                            *)
Pushing == {"peek", "compare", "claim", "write", "store"}

(* With a chunk in the hands.                                              *)
Holding == {"header", "link", "double", "publish", "pfree"} \cup Pushing

(* What the locals of palloc are worth.                                    *)
Walks(t) ==
  /\ pc[t] \in Walking => blk[t] \in Linked /\ last[t] \in Linked /\ seen[t] \in Linked
  /\ pc[t] = "link" => /\ last[t] \in Linked /\ seen[t] \in Linked
                       /\ blk[t] \in Mapped /\ next[blk[t]] = seen[t]
  /\ pc[t] \in {"take", "pop"} => attempt[t] \in 1 .. capacity[blk[t]]
  /\ pc[t] \in {"idle", "pfree"} \cup Pushing => last[t] = 1 /\ seen[t] = 1
  /\ pc[t] \in {"idle", "pfree"} => blk[t] = 1

(* What the locals of a thread that has a chunk in its hands are worth.    *)
Holds(t) ==
  /\ pc[t] \in Holding => mem[t] \in Chunk /\ mem[t][2] <= capacity[mem[t][1]]
  /\ pc[t] \in Holding \ {"pfree"} => blk[t] = mem[t][1]
  /\ pc[t] \in Pushing \cup {"pfree"} => mem[t][1] \in Linked
  /\ pc[t] \in Pushing \ {"peek"} => attempt[t] < capacity[blk[t]]
  /\ pc[t] = "store" => slot[blk[t]][attempt[t] + 1] = mem[t]
  /\ pc[t] \in {"link", "double", "publish"} =>
       home[mem[t]] = mem[t][1] /\ occupied[mem[t]] /\ refcount[mem[t]] = 1

(* A chunk that a client may use is in the arena of a linked block.        *)
InUse(c) == owners[c] # {} => c[1] \in Linked /\ c[2] <= capacity[c[1]]

Alive ==
  IF poolBlock = Gone THEN AllIdle /\ Mapped = {}
  ELSE poolBlock \in Linked /\ 1 \in Linked

PlaceInv ==
  /\ \A b \in Block : sp[b] <= capacity[b]
  /\ \A b \in Linked : next[b] \in Linked
  /\ \A t \in Thread : Walks(t) /\ Holds(t)
  /\ \A c \in Chunk : InUse(c)
  /\ \A t, u \in Thread : pc[t] = "link" /\ pc[u] = "link" /\ blk[t] = blk[u] => t = u
  /\ Alive

(* No part of the linked blocks is closed under next but the whole.        *)
OneRing ==
  poolBlock # Gone =>
    \A S \in SUBSET Linked : S # {} /\ (\A a \in S : next[a] \in S) => S = Linked

(* A thread that has doubled what it read as max_capacity either still     *)
(* finds it there, or finds it doubled already.                            *)
ReadsMax(t) ==
  /\ pc[t] \in {"create", "link", "double"} =>
       /\ readMax[t] # 0
       /\ readMax[t] = maxCapacity \/ 2 * readMax[t] <= maxCapacity
  /\ pc[t] \in {"link", "double"} => capacity[blk[t]] = 2 * readMax[t]

(* max_capacity is the largest capacity in the ring, but for the blocks    *)
(* whose threads have still to double it.                                  *)
MaxInv ==
  /\ \A t \in Thread : ReadsMax(t)
  /\ \A b \in Linked : \/ capacity[b] <= maxCapacity
                       \/ \E t \in Thread : pc[t] = "double" /\ blk[t] = b
  /\ poolBlock # Gone => \E b \in Linked : capacity[b] = maxCapacity

IInv ==
  /\ TypeOK /\ PoolSafe /\ PlaceInv /\ OneRing /\ MaxInv
  /\ BusyOwned /\ Exclusive /\ HeaderTrue

-----------------------------------------------------------------------------

(* n + 1 values do not fit into n places.                                  *)
LEMMA NoInjection ==
  ASSUME NEW n \in Nat, NEW f \in [1 .. n + 1 -> 1 .. n]
  PROVE  \E i, j \in 1 .. n + 1 : i # j /\ f[i] = f[j]
<1> DEFINE S == 1 .. n + 1
           T == 1 .. n
<1>1. Cardinality(T) = n /\ IsFiniteSet(T)
  BY FS_Interval
<1>2. Cardinality(S) = n + 1 /\ IsFiniteSet(S)
  BY FS_Interval
<1>3. Cardinality(T) < Cardinality(S)
  BY <1>1, <1>2
<1>4. f \in [S -> T]
  OBVIOUS
<1> HIDE DEF S, T
<1>5. \E i, j \in S : i # j /\ f[i] = f[j]
  BY <1>1, <1>2, <1>3, <1>4, FS_PigeonHole, ZenonT(30)
<1> QED BY <1>5 DEF S

USE SlabAssumption

(* A chunk is a pair of a block and a slot.                                *)
LEMMA ChunkPair ==
  /\ \A c \in Chunk : c[1] \in Block /\ c[2] \in Slot /\ c = <<c[1], c[2]>>
  /\ \A b \in Block, i \in Slot : /\ <<b, i>> \in Chunk
                                  /\ <<b, i>>[1] = b /\ <<b, i>>[2] = i
BY DEF Chunk

LEMMA OneIsBlock == 1 \in Block /\ \A b \in Block : b # Gone
BY DEF Block, Gone

(* The chunk a thread has in its hands, in the pcs of this module.         *)
LEMMA InHandIs ==
  TypeOK => \A t \in Thread : InHand(t) = IF pc[t] \in Holding THEN {mem[t]} ELSE {}
BY DEF InHand, TypeOK, Holding, Pushing

LEMMA InHandIsNext ==
  TypeOK' => \A t \in Thread : InHand(t)' = IF pc'[t] \in Holding THEN {mem'[t]} ELSE {}
<1>1. (TypeOK => \A t \in Thread : InHand(t) = IF pc[t] \in Holding THEN {mem[t]} ELSE {})'
  BY InHandIs, PTL
<1> QED BY <1>1 DEF Holding, Pushing

(* Each entry of a usage stack is a chunk of the block's own arena.        *)
LEMMA SlotInArena ==
  ASSUME TypeOK, PoolSafe, NEW b \in Block, NEW i \in 1 .. capacity[b]
  PROVE  /\ i \in Slot
         /\ slot[b][i] \in Chunk
         /\ slot[b][i][1] = b
         /\ slot[b][i][2] \in 1 .. capacity[b]
<1>1. capacity[b] \in 0 .. MaxCapacity /\ capacity[b] # 0
  BY DEF TypeOK
<1>2. i \in Slot /\ b \in Mapped
  BY <1>1 DEF Slot, Mapped
<1>3. slot[b] \in [Slot -> Chunk]
  BY DEF TypeOK
<1>4. slot[b][i] \in {b} \X (1 .. capacity[b])
  BY <1>2 DEF PoolSafe
<1> QED BY <1>2, <1>3, <1>4

(* A chunk in the hands is a chunk of an allocated block.                  *)
LEMMA HeldIsChunk ==
  ASSUME IInv, NEW t \in Thread, NEW c \in InHand(t)
  PROVE  c \in Chunk /\ c = mem[t] /\ pc[t] \in Holding /\ c[1] \in Mapped
<1>1. pc[t] \in Holding /\ c = mem[t]
  BY InHandIs DEF IInv
<1>2. Walks(t) /\ Holds(t) /\ TypeOK
  BY DEF IInv, PlaceInv
<1>3. c \in Chunk /\ c[2] <= capacity[c[1]]
  BY <1>1, <1>2 DEF Holds
<1>4. c[1] \in Block /\ c[2] \in Slot /\ capacity[c[1]] \in Nat
  BY <1>2, <1>3, ChunkPair DEF TypeOK
<1>5. capacity[c[1]] # 0
  BY <1>3, <1>4 DEF Slot
<1> QED BY <1>1, <1>3, <1>4, <1>5 DEF Mapped

(* A thread that has a chunk in its hands and has not just created the     *)
(* block stands on a linked block.                                         *)
LEMMA StandsOnLinked ==
  ASSUME IInv, NEW t \in Thread, pc[t] \in Walking \cup Pushing
  PROVE  blk[t] \in Linked /\ blk[t] \in Block /\ capacity[blk[t]] # 0
<1>1. Walks(t) /\ Holds(t)
  BY DEF IInv, PlaceInv
<1>2. blk[t] \in Linked
  BY <1>1 DEF Walks, Holds, Holding, Pushing, Walking
<1> QED BY <1>2 DEF Linked, Mapped

(* pfree finds room for one more entry: the chunk it brings and those on   *)
(* the stack are different chunks of one arena.                            *)
LEMMA RoomToPush ==
  ASSUME IInv, NEW t \in Thread, pc[t] \in Pushing
  PROVE  sp[blk[t]] < capacity[blk[t]]
<1> SUFFICES ASSUME ~(sp[blk[t]] < capacity[blk[t]])
             PROVE  FALSE
  OBVIOUS
<1>0. PICK b \in Block : b = blk[t]
  BY DEF IInv, TypeOK
<1>1. PICK n \in Nat : n = sp[b]
  BY DEF IInv, TypeOK
<1>2. /\ n = capacity[b]
      /\ mem[t] \in Chunk /\ mem[t][1] = b /\ mem[t][2] \in 1 .. n
  <2>1. Holds(t) /\ sp[b] <= capacity[b] /\ capacity[b] \in Nat
    BY DEF IInv, PlaceInv, TypeOK
  <2>2. mem[t] \in Chunk /\ mem[t][1] = b /\ mem[t][2] <= capacity[b]
    BY <1>0, <2>1 DEF Holds, Holding, Pushing
  <2>3. mem[t][2] \in Slot
    BY <2>2, ChunkPair
  <2> QED BY <1>0, <1>1, <2>1, <2>2, <2>3 DEF Slot
<1>3. \A i \in 1 .. n : /\ slot[b][i] \in Chunk /\ slot[b][i][1] = b
                        /\ slot[b][i][2] \in 1 .. n
  BY <1>2, SlotInArena DEF IInv
<1> DEFINE f == [i \in 1 .. n + 1 |-> IF i = n + 1 THEN mem[t][2] ELSE slot[b][i][2]]
<1>4. f \in [1 .. n + 1 -> 1 .. n]
  BY <1>2, <1>3
<1>5. PICK i \in 1 .. n + 1, j \in 1 .. n + 1 : i # j /\ f[i] = f[j]
  BY <1>4, NoInjection
<1>6. \A k \in 1 .. n : slot[b][k][2] # mem[t][2]
  <2> SUFFICES ASSUME NEW k \in 1 .. n, slot[b][k][2] = mem[t][2] PROVE FALSE
    OBVIOUS
  <2>1. slot[b][k] = mem[t]
    BY <1>2, <1>3, ChunkPair
  <2>2. mem[t] \in Stacked(b)
    BY <1>1, <2>1 DEF Stacked
  <2>3. mem[t] \in InHand(t)
    BY InHandIs DEF IInv, Holding
  <2> QED BY <2>2, <2>3 DEF IInv, Exclusive
<1>7. \A k, m \in 1 .. n : slot[b][k][2] = slot[b][m][2] => k = m
  <2> SUFFICES ASSUME NEW k \in 1 .. n, NEW m \in 1 .. n, slot[b][k][2] = slot[b][m][2]
               PROVE  k = m
    OBVIOUS
  <2>1. slot[b][k] = slot[b][m]
    BY <1>3, ChunkPair
  <2> QED BY <1>1, <2>1 DEF IInv, Exclusive
<1> QED BY <1>5, <1>6, <1>7

-----------------------------------------------------------------------------

LEMMA InitIInv == Init => IInv
<1> SUFFICES ASSUME Init PROVE IInv
  OBVIOUS
<1> USE DEF Init, SlabInit, InitPool, InitClient
<1>0. 1 \in Block /\ Capacity \in Nat /\ Capacity # 0 /\ 1 # Gone
  BY OneIsBlock
<1>1. TypeOK
  BY ChunkPair DEF TypeOK, FreshSlots, Gone, Block, Slot
<1>2. PoolSafe
  BY DEF PoolSafe, Mapped, FreshSlots, Block, Slot
<1>3. Linked = {1} /\ Mapped = {1}
  BY <1>0 DEF Linked, Mapped
<1>4. \A t \in Thread : Walks(t) /\ Holds(t)
  BY DEF Walks, Holds, Walking, Holding, Pushing
<1>5. PlaceInv
  BY <1>0, <1>3, <1>4 DEF PlaceInv, InUse, Alive
<1>6. OneRing
  BY <1>3 DEF OneRing
<1>7. MaxInv
  BY <1>0, <1>3 DEF MaxInv, ReadsMax
<1>8. BusyOwned
  BY DEF BusyOwned, Claiming
<1>9. \A t \in Thread : InHand(t) = {}
  BY DEF InHand
<1>10. Exclusive
  BY <1>9 DEF Exclusive, Stacked, FreshSlots, Slot, Block
<1>11. HeaderTrue
  BY DEF HeaderTrue
<1> QED BY <1>1, <1>2, <1>5, <1>6, <1>7, <1>8, <1>10, <1>11 DEF IInv

-----------------------------------------------------------------------------
(* What stays when a thread's locals and what they point at stay.          *)

LEMMA WalksStays ==
  ASSUME NEW u \in Thread, Walks(u),
         pc'[u] = pc[u], blk'[u] = blk[u], last'[u] = last[u], seen'[u] = seen[u],
         attempt'[u] = attempt[u],
         Linked \subseteq Linked', \A b \in Linked : capacity'[b] = capacity[b],
         pc[u] = "link" => blk[u] \in Mapped' /\ next'[blk[u]] = next[blk[u]]
  PROVE  Walks(u)'
BY DEF Walks, Walking

LEMMA HoldsStays ==
  ASSUME NEW u \in Thread, Walks(u), Holds(u),
         pc'[u] = pc[u], blk'[u] = blk[u], mem'[u] = mem[u], attempt'[u] = attempt[u],
         Linked \subseteq Linked', \A b \in Linked : capacity'[b] = capacity[b],
         pc[u] = "link" => capacity'[blk[u]] = capacity[blk[u]],
         pc[u] = "store" =>
           slot'[blk[u]][attempt[u] + 1] = slot[blk[u]][attempt[u] + 1],
         pc[u] \in {"link", "double", "publish"} =>
           /\ home'[mem[u]] = home[mem[u]]
           /\ occupied'[mem[u]] = occupied[mem[u]]
           /\ refcount'[mem[u]] = refcount[mem[u]]
  PROVE  Holds(u)'
<1>1. pc[u] \in Holding => capacity'[mem[u][1]] = capacity[mem[u][1]]
  BY DEF Walks, Holds, Holding, Pushing, Walking
<1>2. pc[u] \in Pushing => blk[u] = mem[u][1]
  BY DEF Holds, Holding, Pushing
<1> QED BY <1>1, <1>2 DEF Holds, Holding, Pushing

LEMMA ReadsMaxStays ==
  ASSUME NEW u \in Thread, ReadsMax(u), Walks(u),
         pc'[u] = pc[u], blk'[u] = blk[u], readMax'[u] = readMax[u],
         \A b \in Linked : capacity'[b] = capacity[b],
         pc[u] = "link" => capacity'[blk[u]] = capacity[blk[u]],
         UNCHANGED maxCapacity
  PROVE  ReadsMax(u)'
BY DEF ReadsMax, Walks, Walking

(* The linked blocks, when nothing is allocated or freed and nobody enters *)
(* or leaves the step that links.                                          *)
LEMMA LinkedStays ==
  ASSUME UNCHANGED capacity,
         \A u \in Thread : /\ pc'[u] = "link" <=> pc[u] = "link"
                           /\ pc[u] = "link" => blk'[u] = blk[u]
  PROVE  Linked' = Linked /\ Mapped' = Mapped
BY DEF Linked, Mapped

(* What the steps of a thread say of the others.                           *)
Others(t) ==
  \A u \in Thread \ {t} :
    /\ pc'[u] = pc[u] /\ blk'[u] = blk[u] /\ last'[u] = last[u] /\ seen'[u] = seen[u]
    /\ mem'[u] = mem[u] /\ attempt'[u] = attempt[u] /\ readMax'[u] = readMax[u]

(* The part of the invariant about the ring, for the steps of t that leave *)
(* the ring as it is.                                                      *)
LEMMA RingStays ==
  ASSUME IInv, NEW t \in Thread, Others(t), poolBlock # Gone,
         UNCHANGED <<capacity, next, maxCapacity>>,
         poolBlock' = poolBlock \/ poolBlock' \in Linked,
         pc[t] \notin {"link", "double"}, pc'[t] # "link",
         Walks(t)', Holds(t)', ReadsMax(t)',
         \A b \in Block : sp'[b] <= capacity[b],
         \A c \in Chunk : InUse(c)',
         \A u \in Thread \ {t} :
           /\ pc[u] = "store" =>
                slot'[blk[u]][attempt[u] + 1] = slot[blk[u]][attempt[u] + 1]
           /\ pc[u] \in {"link", "double", "publish"} =>
                /\ home'[mem[u]] = home[mem[u]]
                /\ occupied'[mem[u]] = occupied[mem[u]]
                /\ refcount'[mem[u]] = refcount[mem[u]]
  PROVE  PlaceInv' /\ OneRing' /\ MaxInv'
<1>0. PlaceInv /\ OneRing /\ MaxInv /\ poolBlock' # Gone
  BY OneIsBlock DEF IInv, Linked, Mapped
<1>1. Linked' = Linked /\ Mapped' = Mapped
  BY LinkedStays DEF Others
<1>3. \A u \in Thread : Walks(u)' /\ Holds(u)' /\ ReadsMax(u)'
  <2> SUFFICES ASSUME NEW u \in Thread, u # t PROVE Walks(u)' /\ Holds(u)' /\ ReadsMax(u)'
    OBVIOUS
  <2>0. /\ pc'[u] = pc[u] /\ blk'[u] = blk[u] /\ last'[u] = last[u] /\ seen'[u] = seen[u]
        /\ mem'[u] = mem[u] /\ attempt'[u] = attempt[u] /\ readMax'[u] = readMax[u]
    BY DEF Others
  <2>1. Walks(u) /\ Holds(u) /\ ReadsMax(u)
    BY <1>0 DEF PlaceInv, MaxInv
  <2>2. pc[u] = "link" => blk[u] \in Mapped
    BY <2>1 DEF Walks
  <2>3. Walks(u)'
    BY <1>1, <2>0, <2>1, <2>2, WalksStays
  <2>4. Holds(u)'
    BY <1>1, <2>0, <2>1, HoldsStays
  <2>5. ReadsMax(u)'
    BY <1>1, <2>0, <2>1, ReadsMaxStays
  <2> QED BY <2>3, <2>4, <2>5
<1>4. PlaceInv'
  <2>1. Alive'
    BY <1>0, <1>1 DEF PlaceInv, Alive
  <2>2. \A u, v \in Thread : pc'[u] = "link" /\ pc'[v] = "link" /\ blk'[u] = blk'[v] => u = v
    BY <1>0 DEF PlaceInv, Others
  <2>3. (\A b \in Block : sp'[b] <= capacity'[b]) /\ (\A b \in Linked' : next'[b] \in Linked')
    BY <1>0, <1>1 DEF PlaceInv
  <2> QED BY <1>3, <2>1, <2>2, <2>3 DEF PlaceInv
<1>5. OneRing'
  BY <1>0, <1>1 DEF OneRing
<1>6. MaxInv'
  <2>1. \A b \in Linked' : \/ capacity'[b] <= maxCapacity'
                           \/ \E u \in Thread : pc'[u] = "double" /\ blk'[u] = b
    BY <1>0, <1>1 DEF MaxInv, Others
  <2>2. poolBlock' # Gone => \E b \in Linked' : capacity'[b] = maxCapacity'
    BY <1>0, <1>1 DEF MaxInv
  <2> QED BY <1>3, <2>1, <2>2 DEF MaxInv
<1> QED BY <1>4, <1>5, <1>6

(* A step of t that moves t's locals and nothing else.                     *)
LEMMA LocalMove ==
  ASSUME IInv, NEW t \in Thread, TypeOK', poolBlock # Gone, Others(t),
         UNCHANGED <<poolVars, headerVars, owners, busy>>,
         pc[t] \notin {"link", "double"}, pc'[t] \notin {"link", "double", "pfree"},
         ~Claiming(t), ~Claiming(t)',
         pc'[t] \in Holding <=> pc[t] \in Holding, pc[t] \in Holding => mem'[t] = mem[t],
         Walks(t)', Holds(t)', ReadsMax(t)'
  PROVE  IInv'
<1> USE DEF poolVars, headerVars
<1>0. TypeOK /\ PoolSafe /\ PlaceInv /\ BusyOwned /\ Exclusive /\ HeaderTrue
  BY DEF IInv
<1>1. Linked' = Linked /\ Mapped' = Mapped
  BY LinkedStays DEF Others
<1>2. PoolSafe'
  BY <1>0, <1>1 DEF PoolSafe
<1>3. PlaceInv' /\ OneRing' /\ MaxInv'
  <2>1. \A c \in Chunk : InUse(c)'
    BY <1>0, <1>1 DEF PlaceInv, InUse
  <2>2. \A b \in Block : sp'[b] <= capacity[b]
    BY <1>0 DEF PlaceInv
  <2> QED BY <2>1, <2>2, RingStays
<1>7. BusyOwned'
  <2>1. \A u \in Thread : /\ Claiming(u)' <=> Claiming(u)
                          /\ Claiming(u) => blk'[u] = blk[u] /\ attempt'[u] = attempt[u]
    BY DEF Claiming, Others
  <2> QED BY <1>0, <2>1 DEF BusyOwned
<1>8. Exclusive'
  <2>1. \A u \in Thread : InHand(u)' = InHand(u)
    BY <1>0, InHandIs, InHandIsNext DEF Others
  <2> QED BY <1>0, <2>1 DEF Exclusive, Stacked
<1>9. HeaderTrue'
  <2>1. \A u \in Thread : pc'[u] = "pfree" => pc[u] = "pfree" /\ mem'[u] = mem[u]
    BY DEF Others
  <2> QED BY <1>0, <2>1 DEF HeaderTrue
<1> QED BY <1>2, <1>3, <1>7, <1>8, <1>9 DEF IInv

-----------------------------------------------------------------------------
(* Steps that move one thread's locals.                                    *)

(* A thread inside a call finds the pool there.                            *)
LEMMA InsideAlive ==
  ASSUME IInv, NEW t \in Thread, pc[t] # "idle"
  PROVE  poolBlock # Gone /\ poolBlock \in Linked /\ 1 \in Linked
BY DEF IInv, PlaceInv, Alive, AllIdle

LEMMA LinkedIsBlock == Linked \subseteq Mapped /\ Mapped \subseteq Block
BY DEF Linked, Mapped

(* The part of PlaceInv about t, at hand.                                  *)
LEMMA AboutT ==
  ASSUME IInv, NEW t \in Thread
  PROVE  TypeOK /\ Walks(t) /\ Holds(t) /\ ReadsMax(t)
BY DEF IInv, PlaceInv, MaxInv

LEMMA CallPallocKeeps ==
  ASSUME IInv, NEW t \in Thread, CallPalloc(t), UNCHANGED <<busy, casVars>>
  PROVE  IInv'
<1> USE DEF CallPalloc, casVars, poolVars, headerVars, localVars
<1>0. TypeOK /\ Walks(t) /\ Holds(t) /\ ReadsMax(t)
  BY AboutT
<1>1. TypeOK'
  BY <1>0 DEF TypeOK
<1>2. Others(t) /\ pc'[t] = "palloc"
  BY <1>0 DEF TypeOK, Others
<1>3. Walks(t)' /\ Holds(t)' /\ ReadsMax(t)'
  BY <1>2 DEF Walks, Holds, ReadsMax, Walking, Holding, Pushing
<1> QED BY <1>1, <1>2, <1>3, LocalMove DEF Others, Claiming, Holding, Pushing

LEMMA PallocStartKeeps ==
  ASSUME IInv, NEW t \in Thread, PallocStart(t)
  PROVE  IInv'
<1> USE DEF PallocStart, Goto, poolVars, headerVars
<1>0. TypeOK /\ Walks(t) /\ Holds(t) /\ ReadsMax(t)
  BY AboutT
<1>1. poolBlock # Gone /\ poolBlock \in Linked /\ poolBlock \in Block
  BY InsideAlive, LinkedIsBlock
<1>2. TypeOK'
  BY <1>0, <1>1 DEF TypeOK
<1>3. /\ Others(t) /\ pc'[t] = "read"
      /\ seen'[t] = poolBlock /\ blk'[t] = poolBlock /\ last'[t] = poolBlock
  BY <1>0 DEF TypeOK, Others
<1>4. Linked' = Linked
  BY <1>3, LinkedStays DEF Others
<1>5. Walks(t)'
  BY <1>1, <1>3, <1>4 DEF Walks, Walking, Pushing
<1>6. Holds(t)' /\ ReadsMax(t)'
  BY <1>3 DEF Holds, ReadsMax, Holding, Pushing
<1> QED BY <1>1, <1>2, <1>3, <1>5, <1>6, LocalMove DEF Others, Claiming, Holding, Pushing

LEMMA PallocReadKeeps ==
  ASSUME IInv, NEW t \in Thread, PallocRead(t)
  PROVE  IInv'
<1> USE DEF PallocRead, Goto, poolVars, headerVars, localVars
<1>0. TypeOK /\ Walks(t) /\ Holds(t) /\ ReadsMax(t)
  BY AboutT
<1>1. /\ poolBlock # Gone /\ blk[t] \in Linked /\ blk[t] \in Block
      /\ sp[blk[t]] \in 0 .. MaxCapacity /\ sp[blk[t]] <= capacity[blk[t]]
  BY <1>0, InsideAlive, StandsOnLinked DEF TypeOK, Walking, IInv, PlaceInv
<1>2. TypeOK'
  BY <1>0, <1>1 DEF TypeOK
<1>3. /\ Others(t) /\ pc'[t] = (IF sp[blk[t]] = 0 THEN "next" ELSE "take")
      /\ attempt'[t] = sp[blk[t]]
  BY <1>0 DEF TypeOK, Others
<1>4. Linked' = Linked
  BY <1>3, LinkedStays DEF Others
<1>5. Walks(t)'
  <2>1. blk[t] \in Linked /\ last[t] \in Linked /\ seen[t] \in Linked
    BY <1>0 DEF Walks, Walking
  <2>2. pc'[t] = "take" => attempt'[t] \in 1 .. capacity[blk[t]]
    BY <1>0, <1>1, <1>3 DEF TypeOK
  <2>3. pc'[t] \in {"next", "take"}
    BY <1>3
  <2> QED BY <1>4, <2>1, <2>2, <2>3 DEF Walks, Walking, Pushing
<1>6. Holds(t)' /\ ReadsMax(t)'
  BY <1>3 DEF Holds, ReadsMax, Holding, Pushing
<1> QED BY <1>1, <1>2, <1>3, <1>5, <1>6, LocalMove DEF Others, Claiming, Holding, Pushing

LEMMA PallocNextKeeps ==
  ASSUME IInv, NEW t \in Thread, PallocNext(t)
  PROVE  IInv'
<1> USE DEF PallocNext, Goto, poolVars, headerVars, casVars
<1>0. TypeOK /\ Walks(t) /\ Holds(t) /\ ReadsMax(t)
  BY AboutT
<1>1. poolBlock # Gone
  BY InsideAlive
<1>2. TypeOK'
  BY <1>0 DEF TypeOK
<1>3. Others(t) /\ pc'[t] = "walk" /\ last'[t] \in {blk[t], last[t]}
  BY <1>0 DEF TypeOK, Others
<1>4. Linked' = Linked
  BY <1>3, LinkedStays DEF Others
<1>5. Walks(t)'
  BY <1>0, <1>3, <1>4 DEF Walks, Walking, Pushing
<1>6. Holds(t)' /\ ReadsMax(t)'
  BY <1>3 DEF Holds, ReadsMax, Holding, Pushing
<1> QED BY <1>1, <1>2, <1>3, <1>5, <1>6, LocalMove DEF Others, Claiming, Holding, Pushing

LEMMA PallocWalkKeeps ==
  ASSUME IInv, NEW t \in Thread, PallocWalk(t)
  PROVE  IInv'
<1> USE DEF PallocWalk, Goto, poolVars, headerVars, casVars
<1>0. TypeOK /\ Walks(t) /\ Holds(t) /\ ReadsMax(t)
  BY AboutT
<1>1. poolBlock # Gone /\ next[blk[t]] \in Linked /\ next[blk[t]] \in Block
  BY InsideAlive, StandsOnLinked, LinkedIsBlock DEF Walking, IInv, PlaceInv
<1>2. TypeOK'
  BY <1>0, <1>1 DEF TypeOK
<1>3. Others(t) /\ pc'[t] \in {"grow", "read"} /\ blk'[t] = next[blk[t]]
  BY <1>0 DEF TypeOK, Others
<1>4. Linked' = Linked
  BY <1>3, LinkedStays DEF Others
<1>5. Walks(t)'
  BY <1>0, <1>1, <1>3, <1>4 DEF Walks, Walking, Pushing
<1>6. Holds(t)' /\ ReadsMax(t)'
  BY <1>3 DEF Holds, ReadsMax, Holding, Pushing
<1> QED BY <1>1, <1>2, <1>3, <1>5, <1>6, LocalMove DEF Others, Claiming, Holding, Pushing

LEMMA PallocReadMaxKeeps ==
  ASSUME IInv, NEW t \in Thread, PallocReadMax(t)
  PROVE  IInv'
<1> USE DEF PallocReadMax, Goto, poolVars, headerVars, localVars
<1>0. TypeOK /\ Walks(t) /\ Holds(t) /\ ReadsMax(t)
  BY AboutT
<1>1. poolBlock # Gone
  BY InsideAlive
<1>2. TypeOK'
  BY <1>0 DEF TypeOK
<1>3. Others(t) /\ pc'[t] = "create" /\ readMax'[t] = maxCapacity /\ maxCapacity # 0
  BY <1>0 DEF TypeOK, Others
<1>4. Linked' = Linked
  BY <1>3, LinkedStays DEF Others
<1>5. Walks(t)'
  BY <1>0, <1>3, <1>4 DEF Walks, Walking, Pushing
<1>6. Holds(t)' /\ ReadsMax(t)'
  BY <1>3 DEF Holds, ReadsMax, Holding, Pushing
<1> QED BY <1>1, <1>2, <1>3, <1>5, <1>6, LocalMove DEF Others, Claiming, Holding, Pushing

LEMMA PallocFailKeeps ==
  ASSUME IInv, NEW t \in Thread, PallocFail(t)
  PROVE  IInv'
<1> USE DEF PallocFail, ReturnFree, Return, poolVars, headerVars
<1>0. TypeOK /\ Walks(t) /\ Holds(t) /\ ReadsMax(t)
  BY AboutT
<1>1. poolBlock # Gone
  BY InsideAlive
<1>2. TypeOK'
  BY <1>0, OneIsBlock DEF TypeOK
<1>3. Others(t) /\ pc'[t] = "idle" /\ blk'[t] = 1 /\ last'[t] = 1 /\ seen'[t] = 1
  BY <1>0 DEF TypeOK, Others
<1>5. Walks(t)'
  BY <1>3 DEF Walks, Walking, Pushing
<1>6. Holds(t)' /\ ReadsMax(t)'
  BY <1>3 DEF Holds, ReadsMax, Holding, Pushing
<1> QED BY <1>1, <1>2, <1>3, <1>5, <1>6, LocalMove DEF Others, Claiming, Holding, Pushing

LEMMA PfreeStartKeeps ==
  ASSUME IInv, NEW t \in Thread, PfreeStart(t)
  PROVE  IInv'
<1> USE DEF PfreeStart, MemBlock, Goto, poolVars, headerVars, casVars
<1>0. TypeOK /\ Walks(t) /\ Holds(t) /\ ReadsMax(t)
  BY AboutT
<1>1. /\ poolBlock # Gone /\ mem[t] \in Chunk /\ mem[t][1] \in Block
      /\ home[mem[t]] = mem[t][1]
  <2>1. mem[t] \in Chunk
    BY <1>0 DEF Holds, Holding
  <2>2. home[mem[t]] = mem[t][1]
    BY <2>1 DEF IInv, HeaderTrue
  <2> QED BY <2>1, <2>2, InsideAlive, ChunkPair
<1>2. TypeOK'
  BY <1>0, <1>1 DEF TypeOK
<1>3. Others(t) /\ pc'[t] = "peek" /\ blk'[t] = mem[t][1]
  BY <1>0, <1>1 DEF TypeOK, Others
<1>4. Linked' = Linked
  BY <1>3, LinkedStays DEF Others
<1>5. Walks(t)'
  BY <1>0, <1>3, <1>4 DEF Walks, Walking, Pushing
<1>6. Holds(t)' /\ ReadsMax(t)'
  BY <1>0, <1>3, <1>4 DEF Holds, ReadsMax, Holding, Pushing
<1> QED BY <1>1, <1>2, <1>3, <1>5, <1>6, LocalMove DEF Others, Claiming, Holding, Pushing

LEMMA PfreePeekKeeps ==
  ASSUME IInv, NEW t \in Thread, PfreePeek(t)
  PROVE  IInv'
<1> USE DEF PfreePeek, Goto, poolVars, headerVars, localVars
<1>0. TypeOK /\ Walks(t) /\ Holds(t) /\ ReadsMax(t)
  BY AboutT
<1>1. poolBlock # Gone /\ blk[t] \in Block /\ sp[blk[t]] \in 0 .. MaxCapacity
  BY <1>0, InsideAlive DEF TypeOK
<1>2. TypeOK'
  BY <1>0, <1>1 DEF TypeOK
<1>3. Others(t) /\ pc'[t] = "compare" /\ attempt'[t] = sp[blk[t]]
  BY <1>0 DEF TypeOK, Others
<1>4. Linked' = Linked
  BY <1>3, LinkedStays DEF Others
<1>5. Walks(t)'
  BY <1>0, <1>3, <1>4 DEF Walks, Walking, Pushing
<1>6. Holds(t)' /\ ReadsMax(t)'
  <2>1. sp[blk[t]] < capacity[blk[t]]
    BY RoomToPush DEF Pushing
  <2> QED BY <1>0, <1>3, <1>4, <2>1 DEF Holds, ReadsMax, Holding, Pushing
<1> QED BY <1>1, <1>2, <1>3, <1>5, <1>6, LocalMove DEF Others, Claiming, Holding, Pushing

LEMMA PfreeCompareKeeps ==
  ASSUME IInv, NEW t \in Thread, PfreeCompare(t)
  PROVE  IInv'
<1> USE DEF PfreeCompare, Goto, poolVars, headerVars, localVars
<1>0. TypeOK /\ Walks(t) /\ Holds(t) /\ ReadsMax(t)
  BY AboutT
<1>1. poolBlock # Gone /\ blk[t] \in Block /\ attempt[t] + 1 \in Slot
  <2>1. blk[t] \in Block /\ attempt[t] < capacity[blk[t]]
    BY <1>0 DEF Holds, TypeOK, Pushing
  <2>2. capacity[blk[t]] \in 0 .. MaxCapacity /\ attempt[t] \in 0 .. MaxCapacity
    BY <1>0, <2>1 DEF TypeOK
  <2> QED BY <2>1, <2>2, InsideAlive DEF Slot
<1>2. TypeOK'
  <2>1. slot[blk[t]][attempt[t] + 1] \in Chunk
    BY <1>0, <1>1 DEF TypeOK
  <2> QED BY <1>0, <2>1 DEF TypeOK
<1>3. Others(t) /\ pc'[t] = "claim"
  BY <1>0 DEF TypeOK, Others
<1>4. Linked' = Linked
  BY <1>3, LinkedStays DEF Others
<1>5. Walks(t)'
  BY <1>0, <1>3, <1>4 DEF Walks, Walking, Pushing
<1>6. Holds(t)' /\ ReadsMax(t)'
  BY <1>0, <1>3, <1>4 DEF Holds, ReadsMax, Holding, Pushing
<1> QED BY <1>1, <1>2, <1>3, <1>5, <1>6, LocalMove DEF Others, Claiming, Holding, Pushing

-----------------------------------------------------------------------------
(* The stack of a block: claimed, popped, pushed.                          *)

LEMMA ExclusiveStays ==
  ASSUME Exclusive, UNCHANGED <<owners, slot, sp>>,
         \A u \in Thread : InHand(u)' = InHand(u)
  PROVE  Exclusive'
BY DEF Exclusive, Stacked

(* The compare-and-swap with DCAS_BUSY_VAL, whether it succeeds or not.    *)
LEMMA ClaimKeeps ==
  ASSUME IInv, NEW t \in Thread, PallocTake(t) \/ PfreeClaim(t)
  PROVE  IInv'
<1> USE DEF poolVars, headerVars, localVars, casVars
<1>0. /\ TypeOK /\ PoolSafe /\ BusyOwned /\ Exclusive /\ HeaderTrue
      /\ Walks(t) /\ Holds(t) /\ ReadsMax(t)
  BY AboutT DEF IInv
<1>1. /\ UNCHANGED <<poolVars, headerVars, owners, localVars, casVars>>
      /\ pc[t] \in {"take", "claim"}
      /\ pc'[t] = (IF Claims(t) THEN IF pc[t] = "take" THEN "pop" ELSE "write"
                   ELSE IF pc[t] = "take" THEN "read" ELSE "peek")
      /\ \A u \in Thread \ {t} : pc'[u] = pc[u]
      /\ pc' \in [Thread -> {"idle", "palloc", "read", "take", "pop", "header", "next",
                             "walk", "grow", "create", "link", "double", "publish",
                             "pfree", "peek", "compare", "claim", "write", "store"}]
  BY <1>0 DEF PallocTake, PfreeClaim, Goto, TypeOK
<1>2. busy' = [busy EXCEPT ![blk[t]] = Claims(t) \/ @]
  BY DEF PallocTake, PfreeClaim
<1>3. PICK b \in Block : b = blk[t]
  BY <1>0 DEF TypeOK
<1>4. CASE Claims(t)
  <2>1. busy' = [busy EXCEPT ![b] = TRUE] /\ ~busy[b] /\ sp[b] = attempt[t]
    BY <1>2, <1>3, <1>4 DEF Claims
  <2>2. TypeOK'
    BY <1>0, <1>1, <2>1 DEF TypeOK
  <2>3. BusyOwned'
    <3>1. \A u \in Thread : Claiming(u)' <=> Claiming(u) \/ u = t
      BY <1>1, <1>4 DEF Claiming
    <3>2. \A u \in Thread : Claiming(u) => blk[u] # b
      BY <1>0, <2>1 DEF BusyOwned, TypeOK
    <3>3. \A a \in Block : busy'[a] <=> busy[a] \/ a = b
      BY <1>0, <2>1 DEF TypeOK
    <3>4. \A a \in Block : busy'[a] <=> \E u \in Thread : Claiming(u)' /\ blk'[u] = a
      BY <1>0, <1>1, <1>3, <3>1, <3>3 DEF BusyOwned
    <3>5. \A u, v \in Thread : Claiming(u)' /\ Claiming(v)' /\ blk'[u] = blk'[v] => u = v
      BY <1>0, <1>1, <1>3, <3>1, <3>2 DEF BusyOwned
    <3>6. \A u \in Thread : Claiming(u)' => sp'[blk'[u]] = attempt'[u]
      BY <1>0, <1>1, <1>3, <2>1, <3>1 DEF BusyOwned
    <3> QED BY <3>4, <3>5, <3>6 DEF BusyOwned
  <2> QED
    <3>1. Linked' = Linked
      BY <1>1, LinkedStays
    <3>2. pc'[t] \in {"pop", "write"} /\ (pc'[t] = "pop" <=> pc[t] = "take")
      BY <1>1, <1>4
    <3>3. Walks(t)' /\ Holds(t)' /\ ReadsMax(t)'
      <4>1. Walks(t)'
        BY <1>0, <1>1, <3>1, <3>2 DEF Walks, Walking, Pushing
      <4>2. Holds(t)'
        BY <1>0, <1>1, <3>1, <3>2 DEF Holds, Holding, Pushing
      <4>3. ReadsMax(t)'
        BY <3>2 DEF ReadsMax
      <4> QED BY <4>1, <4>2, <4>3
    <3>4. PlaceInv' /\ OneRing' /\ MaxInv'
      <4>1. \A c \in Chunk : InUse(c)'
        BY <1>1, <3>1 DEF IInv, PlaceInv, InUse
      <4>2. \A a \in Block : sp'[a] <= capacity[a]
        BY <1>1 DEF IInv, PlaceInv
      <4>3. Others(t) /\ poolBlock # Gone
        BY <1>1, InsideAlive DEF Others
      <4> QED BY <1>1, <3>2, <3>3, <4>1, <4>2, <4>3, RingStays
    <3>5. PoolSafe'
      BY <1>0, <1>1 DEF PoolSafe, Mapped
    <3>6. Exclusive'
      <4>1. \A u \in Thread : InHand(u)' = InHand(u)
        BY <1>0, <1>1, <2>2, <3>2, InHandIs, InHandIsNext DEF Holding, Pushing
      <4> QED BY <1>0, <1>1, <4>1, ExclusiveStays
    <3>7. HeaderTrue'
      BY <1>0, <1>1, <3>2 DEF HeaderTrue
    <3> QED BY <2>2, <2>3, <3>4, <3>5, <3>6, <3>7 DEF IInv
<1>5. CASE ~Claims(t)
  <2>1. busy' = busy
    BY <1>0, <1>2, <1>3, <1>5 DEF TypeOK
  <2>2. TypeOK'
    BY <1>0, <1>1, <2>1 DEF TypeOK
  <2>3. pc'[t] \in {"read", "peek"} /\ (pc'[t] = "read" <=> pc[t] = "take")
    BY <1>1, <1>5
  <2>4. Linked' = Linked
    BY <1>1, LinkedStays
  <2>5. Walks(t)'
    BY <1>0, <1>1, <2>3, <2>4 DEF Walks, Walking, Pushing
  <2>6. Holds(t)' /\ ReadsMax(t)'
    BY <1>0, <1>1, <2>3, <2>4 DEF Holds, ReadsMax, Holding, Pushing
  <2>7. Others(t) /\ poolBlock # Gone
    BY <1>1, InsideAlive DEF Others
  <2> QED BY <1>1, <2>1, <2>2, <2>3, <2>5, <2>6, <2>7, LocalMove
          DEF Claiming, Holding, Pushing
<1> QED BY <1>4, <1>5

(* The top chunk leaves the stack for the hands of t.                      *)
LEMMA PallocPopKeeps ==
  ASSUME IInv, NEW t \in Thread, PallocPop(t)
  PROVE  IInv'
<1> USE DEF headerVars, casVars
<1>0. /\ TypeOK /\ PoolSafe /\ BusyOwned /\ Exclusive /\ HeaderTrue
      /\ Walks(t) /\ Holds(t) /\ ReadsMax(t)
  BY AboutT DEF IInv
<1>1. PICK b \in Block : b = blk[t]
  BY <1>0 DEF TypeOK
<1>2. PICK n \in 1 .. capacity[b] : n = attempt[t] /\ n = sp[b] /\ n <= MaxCapacity
  <2>1. attempt[t] \in 1 .. capacity[b] /\ sp[b] = attempt[t]
    BY <1>0, <1>1 DEF PallocPop, Walks, BusyOwned, Claiming
  <2>2. sp[b] \in 0 .. MaxCapacity
    BY <1>0 DEF TypeOK
  <2> QED BY <2>1, <2>2
<1>3. PICK c \in Chunk : c = slot[b][n] /\ c[1] = b /\ c[2] <= capacity[b]
  BY <1>0, SlotInArena
<1>4. /\ pc[t] = "pop" /\ b \in Linked /\ poolBlock # Gone
      /\ mem' = [mem EXCEPT ![t] = c]
      /\ sp' = [sp EXCEPT ![b] = n - 1]
      /\ busy' = [busy EXCEPT ![b] = FALSE]
      /\ pc' = [pc EXCEPT ![t] = "header"]
      /\ UNCHANGED <<capacity, next, slot, poolBlock, maxCapacity, headerVars, owners,
                     blk, last, casVars>>
  BY <1>0, <1>1, <1>2, <1>3, InsideAlive DEF PallocPop, Goto, Walks, Walking
<1>5. TypeOK'
  <2>1. sp' \in [Block -> 0 .. MaxCapacity]
    BY <1>0, <1>2, <1>4 DEF TypeOK
  <2> QED BY <1>0, <1>4, <2>1 DEF TypeOK
<1>6. Others(t) /\ pc'[t] = "header" /\ mem'[t] = c /\ sp'[b] = n - 1
  BY <1>0, <1>4 DEF TypeOK, Others
<1>7. Linked' = Linked
  BY <1>4, <1>6, LinkedStays DEF Others
<1>8. PlaceInv' /\ OneRing' /\ MaxInv'
  <2>1. Walks(t)'
    BY <1>0, <1>4, <1>6, <1>7 DEF Walks, Walking, Pushing
  <2>2. Holds(t)' /\ ReadsMax(t)'
    BY <1>1, <1>3, <1>4, <1>6 DEF Holds, ReadsMax, Holding, Pushing
  <2>3. \A d \in Chunk : InUse(d)'
    BY <1>4, <1>7 DEF IInv, PlaceInv, InUse
  <2>4. \A a \in Block : sp'[a] <= capacity[a]
    <3>1. \A a \in Block : sp[a] <= capacity[a]
      BY DEF IInv, PlaceInv
    <3>2. capacity[b] \in Nat
      BY <1>0 DEF TypeOK
    <3> QED BY <1>0, <1>2, <1>4, <3>1, <3>2 DEF TypeOK
  <2> QED BY <1>4, <1>6, <2>1, <2>2, <2>3, <2>4, RingStays
<1>9. PoolSafe'
  BY <1>0, <1>4 DEF PoolSafe, Mapped
<1>10. BusyOwned'
  <2>1. \A u \in Thread : Claiming(u)' <=> Claiming(u) /\ u # t
    BY <1>4, <1>6 DEF Claiming, Others
  <2>2. \A u \in Thread \ {t} : Claiming(u) => blk[u] # b
    BY <1>0, <1>1, <1>4 DEF BusyOwned, Claiming
  <2>3. \A a \in Block : busy'[a] <=> busy[a] /\ a # b
    BY <1>0, <1>4 DEF TypeOK
  <2>4. \A a \in Block : busy'[a] <=> \E u \in Thread : Claiming(u)' /\ blk'[u] = a
    BY <1>0, <1>1, <1>4, <2>1, <2>2, <2>3 DEF BusyOwned
  <2>5. \A u, v \in Thread : Claiming(u)' /\ Claiming(v)' /\ blk'[u] = blk'[v] => u = v
    BY <1>0, <1>4, <2>1 DEF BusyOwned
  <2>6. \A u \in Thread : Claiming(u)' => sp'[blk'[u]] = attempt'[u]
    BY <1>0, <1>4, <2>1, <2>2 DEF BusyOwned, TypeOK
  <2> QED BY <2>4, <2>5, <2>6 DEF BusyOwned
<1>11. Exclusive'
  <2>1. c \in Stacked(b)
    BY <1>2, <1>3 DEF Stacked
  <2>2. owners[c] = {} /\ \A u \in Thread : c \notin InHand(u)
    BY <1>0, <2>1 DEF Exclusive
  <2>3. \A u \in Thread : InHand(u)' = IF u = t THEN {c} ELSE InHand(u)
    BY <1>0, <1>5, <1>6, InHandIs, InHandIsNext DEF Others, Holding
  <2>4. \A a \in Block : \A i \in 1 .. sp'[a] : i \in 1 .. sp[a]
    BY <1>0, <1>2, <1>4 DEF TypeOK
  <2>5. \A a \in Block : Stacked(a)' \subseteq Stacked(a)
    BY <1>4, <2>4 DEF Stacked
  <2>6. \A a \in Block : c \notin Stacked(a)'
    <3>1. c \notin Stacked(b)'
      <4> SUFFICES ASSUME NEW i \in 1 .. n - 1, slot[b][i] = c PROVE FALSE
        BY <1>4, <1>6 DEF Stacked
      <4>1. i \in 1 .. sp[b] /\ n \in 1 .. sp[b] /\ i # n
        BY <1>2
      <4> QED BY <1>0, <1>3, <4>1 DEF Exclusive
    <3>2. ASSUME NEW a \in Block, a # b PROVE c \notin Stacked(a)
      <4> SUFFICES ASSUME NEW i \in 1 .. sp[a], slot[a][i] = c PROVE FALSE
        BY DEF Stacked
      <4>1. sp[a] <= capacity[a] /\ sp[a] \in Nat /\ capacity[a] \in Nat
        BY <1>0 DEF IInv, PlaceInv, TypeOK
      <4>2. i \in 1 .. capacity[a]
        BY <4>1
      <4> QED BY <1>0, <1>3, <3>2, <4>2, SlotInArena
    <3> QED BY <2>5, <3>1, <3>2
  <2>7. \A a \in Block : \A i, j \in 1 .. sp'[a] : slot'[a][i] = slot'[a][j] => i = j
    BY <1>0, <1>4, <2>4 DEF Exclusive
  <2>8. \A d \in Chunk : owners'[d] # {} => \A a \in Block : d \notin Stacked(a)'
    BY <1>0, <1>4, <2>5 DEF Exclusive
  <2>9. ASSUME NEW u \in Thread, NEW d \in InHand(u)'
        PROVE  /\ owners'[d] = {}
               /\ \A v \in Thread \ {u} : d \notin InHand(v)'
               /\ \A a \in Block : d \notin Stacked(a)'
    <3>1. CASE u = t
      BY <1>4, <2>2, <2>3, <2>6, <2>9, <3>1
    <3>2. CASE u # t
      <4>1. d \in InHand(u) /\ d # c
        BY <2>2, <2>3, <2>9, <3>2
      <4> QED BY <1>0, <1>4, <2>3, <2>5, <4>1 DEF Exclusive
    <3> QED BY <3>1, <3>2
  <2> QED BY <2>7, <2>8, <2>9 DEF Exclusive
<1>12. HeaderTrue'
  BY <1>0, <1>4, <1>6 DEF HeaderTrue, Others
<1> QED BY <1>5, <1>8, <1>9, <1>10, <1>11, <1>12 DEF IInv

(* A chunk on the stack of a block is of that block's arena.               *)
LEMMA StackedIsOwn ==
  ASSUME IInv, NEW a \in Block, NEW c \in Stacked(a)
  PROVE  c \in Chunk /\ c[1] = a
<1>1. PICK i \in 1 .. sp[a] : c = slot[a][i]
  BY DEF Stacked
<1>2. sp[a] <= capacity[a] /\ sp[a] \in Nat /\ capacity[a] \in Nat
  BY DEF IInv, PlaceInv, TypeOK
<1>3. i \in 1 .. capacity[a]
  BY <1>2
<1> QED BY <1>1, <1>3, SlotInArena DEF IInv

(* palloc hands out the chunk it has in its hands.                         *)
LEMMA HandOutKeeps ==
  ASSUME IInv, NEW t \in Thread, PallocHeader(t) \/ PallocPublish(t)
  PROVE  IInv'
<1>0. /\ TypeOK /\ PoolSafe /\ BusyOwned /\ Exclusive /\ HeaderTrue
      /\ Walks(t) /\ Holds(t) /\ ReadsMax(t)
  BY AboutT DEF IInv
<1>1. pc[t] \in {"header", "publish"}
  BY DEF PallocHeader, PallocPublish
<1>2. PICK c \in Chunk : /\ c = mem[t] /\ c[1] = blk[t] /\ c[2] <= capacity[c[1]]
                         /\ c[1] \in Linked /\ c[1] \in Block /\ poolBlock # Gone
  BY <1>0, <1>1, InsideAlive, ChunkPair DEF Holds, Walks, Walking, Holding, Pushing
<1>3. /\ poolBlock' = (IF poolBlock = seen[t] THEN c[1] ELSE poolBlock)
      /\ owners' = [owners EXCEPT ![c] = {t}]
      /\ ReturnFree(t)
      /\ UNCHANGED <<capacity, next, slot, sp, maxCapacity, busy>>
  BY <1>2 DEF PallocHeader, PallocPublish
<1>4. /\ home' \in [Chunk -> Block] /\ occupied' \in [Chunk -> BOOLEAN]
      /\ refcount' \in [Chunk -> Nat]
      /\ home'[c] = c[1] /\ occupied'[c] /\ refcount'[c] = 1
      /\ \A d \in Chunk \ {c} : /\ home'[d] = home[d] /\ occupied'[d] = occupied[d]
                                /\ refcount'[d] = refcount[d]
  <2>1. CASE PallocHeader(t)
    BY <1>0, <1>2, <2>1 DEF PallocHeader, WriteHeader, TypeOK
  <2>2. CASE PallocPublish(t)
    BY <1>0, <1>2, <2>2 DEF PallocPublish, headerVars, TypeOK, Holds
  <2> QED BY <2>1, <2>2
<1>5. TypeOK'
  <2>1. poolBlock' \in Block \cup {Gone} /\ owners' \in [Chunk -> SUBSET Thread]
    BY <1>0, <1>2, <1>3 DEF TypeOK
  <2>2. /\ blk' \in [Thread -> Block] /\ last' \in [Thread -> Block]
        /\ seen' \in [Thread -> Block] /\ mem' \in [Thread -> Chunk \cup {NoChunk}]
        /\ attempt' \in [Thread -> 0 .. MaxCapacity]
        /\ cmpval' \in [Thread -> Chunk \cup {NoChunk}]
        /\ readMax' \in [Thread -> 0 .. MaxCapacity]
    BY <1>0, <1>3, OneIsBlock DEF ReturnFree, Return, TypeOK
  <2>3. pc' \in [Thread -> {"idle", "palloc", "read", "take", "pop", "header", "next",
                            "walk", "grow", "create", "link", "double", "publish",
                            "pfree", "peek", "compare", "claim", "write", "store"}]
    BY <1>0, <1>3 DEF ReturnFree, Return, TypeOK
  <2> QED BY <1>0, <1>3, <1>4, <2>1, <2>2, <2>3 DEF TypeOK
<1>6. /\ Others(t) /\ pc'[t] = "idle" /\ owners'[c] = {t}
      /\ blk'[t] = 1 /\ last'[t] = 1 /\ seen'[t] = 1
      /\ \A d \in Chunk \ {c} : owners'[d] = owners[d]
      /\ \A u \in Thread \ {t} : cmpval'[u] = cmpval[u]
  BY <1>0, <1>3 DEF ReturnFree, Return, TypeOK, Others
<1>7. Linked' = Linked
  BY <1>1, <1>3, <1>6, LinkedStays DEF Others
<1>8. /\ c \in InHand(t) /\ owners[c] = {} /\ (\A b \in Block : c \notin Stacked(b))
      /\ \A u \in Thread \ {t} : c \notin InHand(u)
  BY <1>0, <1>1, <1>2, InHandIs DEF Exclusive, Holding
<1>9. \A u \in Thread : InHand(u)' = IF u = t THEN {} ELSE InHand(u)
  <2>1. InHand(t)' = {}
    BY <1>5, <1>6, InHandIsNext DEF Holding, Pushing
  <2>2. ASSUME NEW u \in Thread, u # t PROVE InHand(u)' = InHand(u)
    <3>1. pc'[u] = pc[u] /\ mem'[u] = mem[u]
      BY <1>6, <2>2 DEF Others
    <3> QED BY <1>0, <1>5, <3>1, InHandIs, InHandIsNext
  <2> QED BY <2>1, <2>2
<1>10. PlaceInv' /\ OneRing' /\ MaxInv'
  <2>1. Walks(t)'
    BY <1>6 DEF Walks, Walking, Pushing
  <2>2. Holds(t)' /\ ReadsMax(t)'
    BY <1>6 DEF Holds, ReadsMax, Holding, Pushing
  <2>3. \A d \in Chunk : InUse(d)'
    BY <1>2, <1>3, <1>6, <1>7 DEF IInv, PlaceInv, InUse
  <2>4. \A a \in Block : sp'[a] <= capacity[a]
    BY <1>3 DEF IInv, PlaceInv
  <2>5. ASSUME NEW u \in Thread \ {t}, pc[u] \in {"link", "double", "publish"}
        PROVE  /\ home'[mem[u]] = home[mem[u]]
               /\ occupied'[mem[u]] = occupied[mem[u]]
               /\ refcount'[mem[u]] = refcount[mem[u]]
    <3>1. mem[u] \in InHand(u)
      BY <1>0, <2>5, InHandIs DEF Holding
    <3>2. mem[u] # c /\ mem[u] \in Chunk
      BY <1>8, <3>1, HeldIsChunk
    <3> QED BY <1>4, <3>2
  <2>6. poolBlock' = poolBlock \/ poolBlock' \in Linked
    BY <1>2, <1>3
  <2> HIDE DEF Others
  <2> QED BY <1>1, <1>2, <1>3, <1>6, <2>1, <2>2, <2>3, <2>4, <2>5, <2>6, RingStays
<1>11. PoolSafe'
  BY <1>0, <1>3 DEF PoolSafe, Mapped
<1>12. BusyOwned'
  <2>1. \A u \in Thread : /\ Claiming(u)' <=> Claiming(u)
                          /\ Claiming(u) => blk'[u] = blk[u] /\ attempt'[u] = attempt[u]
    BY <1>1, <1>6 DEF Claiming, Others
  <2> QED BY <1>0, <1>3, <2>1 DEF BusyOwned
<1>13. Exclusive'
  <2>1. \A b \in Block : Stacked(b)' = Stacked(b)
    BY <1>3 DEF Stacked
  <2>2. ASSUME NEW u \in Thread, NEW d \in InHand(u)'
        PROVE  /\ owners'[d] = {}
               /\ \A v \in Thread \ {u} : d \notin InHand(v)'
               /\ \A b \in Block : d \notin Stacked(b)'
    <3>1. u # t /\ d \in InHand(u) /\ d # c
      BY <1>8, <1>9, <2>2
    <3>2. d \in Chunk
      BY <3>1, HeldIsChunk
    <3>3. owners'[d] = {}
      BY <1>0, <1>6, <3>1, <3>2 DEF Exclusive
    <3> QED BY <1>0, <1>9, <2>1, <3>1, <3>3 DEF Exclusive
  <2>3. \A d \in Chunk : owners'[d] # {} => \A b \in Block : d \notin Stacked(b)'
    BY <1>0, <1>6, <1>8, <2>1 DEF Exclusive
  <2>4. \A b \in Block : \A i, j \in 1 .. sp'[b] : slot'[b][i] = slot'[b][j] => i = j
    BY <1>0, <1>3 DEF Exclusive
  <2> QED BY <2>2, <2>3, <2>4 DEF Exclusive
<1>14. HeaderTrue'
  <2> SUFFICES ASSUME NEW d \in Chunk
               PROVE  /\ owners'[d] # {} => refcount'[d] = Cardinality(owners'[d])
                      /\ owners'[d] # {} \/ (\E u \in Thread : pc'[u] = "pfree" /\ mem'[u] = d)
                         => occupied'[d] /\ home'[d] = d[1] /\ d[2] <= capacity'[d[1]]
    BY DEF HeaderTrue
  <2>1. CASE d = c
    <3>1. Cardinality({t}) = 1
      BY FS_Singleton
    <3> QED BY <1>2, <1>3, <1>4, <1>6, <2>1, <3>1
  <2>2. CASE d # c
    <3>1. /\ owners'[d] = owners[d] /\ refcount'[d] = refcount[d] /\ home'[d] = home[d]
          /\ occupied'[d] = occupied[d] /\ UNCHANGED capacity
      BY <1>3, <1>4, <1>6, <2>2
    <3>2. \A u \in Thread : pc'[u] = "pfree" => pc[u] = "pfree" /\ mem'[u] = mem[u]
      BY <1>6 DEF Others
    <3> QED BY <1>0, <3>1, <3>2 DEF HeaderTrue
  <2> QED BY <2>1, <2>2
<1> QED BY <1>5, <1>10, <1>11, <1>12, <1>13, <1>14 DEF IInv

(* What the threads in pfree know of their block.                          *)
LEMMA PushingIs ==
  ASSUME IInv, NEW t \in Thread, pc[t] \in {"write", "store"}
  PROVE  /\ blk[t] \in Linked /\ blk[t] \in Block /\ poolBlock # Gone
         /\ mem[t] \in Chunk /\ mem[t][1] = blk[t] /\ mem[t][2] <= capacity[blk[t]]
         /\ attempt[t] = sp[blk[t]] /\ attempt[t] < capacity[blk[t]]
         /\ attempt[t] + 1 \in 1 .. capacity[blk[t]] /\ attempt[t] + 1 \in Slot
<1>1. Walks(t) /\ Holds(t) /\ TypeOK /\ BusyOwned
  BY AboutT DEF IInv
<1>2. blk[t] \in Linked /\ blk[t] \in Block /\ poolBlock # Gone
  BY StandsOnLinked, InsideAlive DEF Pushing
<1>3. /\ mem[t] \in Chunk /\ mem[t][1] = blk[t] /\ mem[t][2] <= capacity[blk[t]]
      /\ attempt[t] < capacity[blk[t]]
  BY <1>1 DEF Holds, Holding, Pushing
<1>4. attempt[t] = sp[blk[t]]
  BY <1>1 DEF BusyOwned, Claiming
<1>5. attempt[t] \in 0 .. MaxCapacity /\ capacity[blk[t]] \in 0 .. MaxCapacity
  BY <1>1, <1>2 DEF TypeOK
<1> QED BY <1>2, <1>3, <1>4, <1>5 DEF Slot

(* pfree writes above the stack it has claimed, or gives the stack back.   *)
LEMMA PfreeWriteKeeps ==
  ASSUME IInv, NEW t \in Thread, PfreeWrite(t)
  PROVE  IInv'
<1> USE DEF headerVars, localVars, casVars
<1>0. /\ TypeOK /\ PoolSafe /\ BusyOwned /\ Exclusive /\ HeaderTrue
      /\ Walks(t) /\ Holds(t) /\ ReadsMax(t)
  BY AboutT DEF IInv
<1>1. PICK b \in Block : b = blk[t]
  BY <1>0 DEF TypeOK
<1>2. PICK n \in Nat : n = attempt[t]
  BY <1>0 DEF TypeOK
<1>3. PICK c \in Chunk : c = mem[t] /\ c[1] = b /\ c[2] <= capacity[b]
  BY <1>1, PushingIs DEF PfreeWrite
<1>4. /\ pc[t] = "write" /\ b \in Linked /\ poolBlock # Gone
      /\ n = sp[b] /\ n < capacity[b] /\ n + 1 \in 1 .. capacity[b] /\ n + 1 \in Slot
      /\ UNCHANGED <<capacity, next, poolBlock, maxCapacity, headerVars, owners,
                     localVars, casVars>>
      /\ \A u \in Thread \ {t} : pc'[u] = pc[u]
  BY <1>0, <1>1, <1>2, PushingIs DEF PfreeWrite, Goto, TypeOK
<1>5. Others(t)
  BY <1>4 DEF Others
<1>6. /\ \A d \in Chunk : InUse(d)' <=> InUse(d)
      /\ pc'[t] # "link" => Linked' = Linked
  <2>1. pc'[t] # "link" => Linked' = Linked
    BY <1>4, LinkedStays
  <2>2. pc'[t] # "link"
    BY <1>0 DEF PfreeWrite, Goto, TypeOK
  <2> QED BY <1>4, <2>1, <2>2 DEF InUse
<1>7. CASE EntryKept(t)
  <2>1. /\ slot' = [slot EXCEPT ![b][n + 1] = c]
        /\ pc' = [pc EXCEPT ![t] = "store"] /\ UNCHANGED <<sp, busy>>
    BY <1>1, <1>2, <1>3, <1>7 DEF PfreeWrite, Goto
  <2>2. /\ slot'[b][n + 1] = c /\ pc'[t] = "store"
        /\ \A i \in Slot : i # n + 1 => slot'[b][i] = slot[b][i]
        /\ \A a \in Block : a # b => slot'[a] = slot[a]
    BY <1>0, <1>4, <2>1 DEF TypeOK
  <2>3. TypeOK'
    BY <1>0, <1>4, <2>1 DEF TypeOK
  <2>4. PoolSafe'
    <3> SUFFICES ASSUME NEW a \in Mapped, NEW i \in 1 .. capacity[a]
                 PROVE  slot'[a][i] \in {a} \X (1 .. capacity[a])
      BY <1>4 DEF PoolSafe, Mapped
    <3>1. a \in Block /\ i \in Slot
      BY <1>0, SlotInArena DEF Mapped
    <3>2. CASE a = b /\ i = n + 1
      <4>1. c \in {b} \X (1 .. capacity[b])
        <5>1. c[2] \in 1 .. MaxCapacity /\ capacity[b] \in Nat /\ c = <<c[1], c[2]>>
          BY <1>0, ChunkPair DEF TypeOK, Slot
        <5> QED BY <1>3, <5>1
      <4> QED BY <2>2, <3>2, <4>1
    <3>3. CASE ~(a = b /\ i = n + 1)
      BY <1>0, <2>2, <3>1, <3>3 DEF PoolSafe
    <3> QED BY <3>2, <3>3
  <2>5. PlaceInv' /\ OneRing' /\ MaxInv'
    <3>1. Walks(t)'
      BY <1>0, <1>4, <1>6, <2>2 DEF Walks, Walking, Pushing
    <3>2. Holds(t)'
      BY <1>0, <1>1, <1>2, <1>3, <1>4, <1>6, <2>2 DEF Holds, Holding, Pushing
    <3>3. ReadsMax(t)'
      BY <2>2 DEF ReadsMax
    <3>4. ASSUME NEW u \in Thread \ {t}, pc[u] = "store"
          PROVE  slot'[blk[u]][attempt[u] + 1] = slot[blk[u]][attempt[u] + 1]
      <4>1. blk[u] # b /\ blk[u] \in Block
        BY <1>0, <1>1, <1>4, <3>4 DEF BusyOwned, Claiming, TypeOK
      <4> QED BY <2>2, <4>1
    <3>5. (\A d \in Chunk : InUse(d)') /\ (\A a \in Block : sp'[a] <= capacity[a])
      BY <1>6, <2>1 DEF IInv, PlaceInv
    <3> QED BY <1>4, <1>5, <2>2, <3>1, <3>2, <3>3, <3>4, <3>5, RingStays
  <2>6. BusyOwned'
    BY <1>0, <1>4, <2>1, <2>2 DEF BusyOwned, Claiming
  <2>7. Exclusive'
    <3>1. \A u \in Thread : InHand(u)' = InHand(u)
      BY <1>0, <1>4, <2>2, <2>3, InHandIs, InHandIsNext DEF Holding, Pushing
    <3>2. \A a \in Block : \A i \in 1 .. sp[a] : slot'[a][i] = slot[a][i]
      <4> SUFFICES ASSUME NEW a \in Block, NEW i \in 1 .. sp[a]
                   PROVE  slot'[a][i] = slot[a][i]
        OBVIOUS
      <4>1. CASE a = b
        <5>1. i # n + 1 /\ i \in Slot
          BY <1>0, <1>4, <4>1 DEF TypeOK, Slot
        <5> QED BY <2>2, <4>1, <5>1
      <4> QED BY <2>2, <4>1
    <3>3. \A a \in Block : Stacked(a)' = Stacked(a)
      BY <2>1, <3>2 DEF Stacked
    <3>4. \A a \in Block : \A i, j \in 1 .. sp'[a] : slot'[a][i] = slot'[a][j] => i = j
      BY <1>0, <2>1, <3>2 DEF Exclusive
    <3> QED BY <1>0, <1>4, <3>1, <3>3, <3>4 DEF Exclusive
  <2>8. HeaderTrue'
    BY <1>0, <1>4, <2>2 DEF HeaderTrue
  <2> QED BY <2>3, <2>4, <2>5, <2>6, <2>7, <2>8 DEF IInv
<1>8. CASE ~EntryKept(t)
  <2>1. /\ sp' = sp /\ busy' = [busy EXCEPT ![b] = FALSE]
        /\ pc' = [pc EXCEPT ![t] = "peek"] /\ UNCHANGED slot
    BY <1>0, <1>1, <1>2, <1>4, <1>8 DEF PfreeWrite, Goto, TypeOK
  <2>2. TypeOK' /\ pc'[t] = "peek"
    BY <1>0, <1>4, <2>1 DEF TypeOK
  <2>3. PoolSafe'
    BY <1>0, <1>4, <2>1 DEF PoolSafe, Mapped
  <2>4. PlaceInv' /\ OneRing' /\ MaxInv'
    <3>1. Walks(t)'
      BY <1>0, <1>4, <1>6, <2>2 DEF Walks, Walking, Pushing
    <3>2. Holds(t)' /\ ReadsMax(t)'
      BY <1>0, <1>4, <1>6, <2>2 DEF Holds, ReadsMax, Holding, Pushing
    <3>3. (\A d \in Chunk : InUse(d)') /\ (\A a \in Block : sp'[a] <= capacity[a])
      BY <1>6, <2>1 DEF IInv, PlaceInv
    <3> QED BY <1>4, <1>5, <2>1, <2>2, <3>1, <3>2, <3>3, RingStays
  <2>5. BusyOwned'
    <3>1. \A u \in Thread : Claiming(u)' <=> Claiming(u) /\ u # t
      BY <1>4, <2>2 DEF Claiming
    <3>2. \A u \in Thread \ {t} : Claiming(u) => blk[u] # b
      BY <1>0, <1>1, <1>4 DEF BusyOwned, Claiming
    <3>3. \A a \in Block : busy'[a] <=> busy[a] /\ a # b
      BY <1>0, <2>1 DEF TypeOK
    <3>4. \A a \in Block : busy'[a] <=> \E u \in Thread : Claiming(u)' /\ blk'[u] = a
      BY <1>0, <1>1, <1>4, <3>1, <3>2, <3>3 DEF BusyOwned
    <3> QED BY <1>0, <1>4, <2>1, <3>1, <3>4 DEF BusyOwned
  <2>6. Exclusive'
    <3>1. \A u \in Thread : InHand(u)' = InHand(u)
      BY <1>0, <1>4, <2>2, InHandIs, InHandIsNext DEF Holding, Pushing
    <3> QED BY <1>0, <1>4, <2>1, <3>1, ExclusiveStays
  <2>7. HeaderTrue'
    BY <1>0, <1>4, <2>2 DEF HeaderTrue
  <2> QED BY <2>2, <2>3, <2>4, <2>5, <2>6, <2>7 DEF IInv
<1> QED BY <1>7, <1>8

(* pfree makes the chunk it has written the new top of the stack.          *)
LEMMA PfreeStoreKeeps ==
  ASSUME IInv, NEW t \in Thread, PfreeStore(t)
  PROVE  IInv'
<1> USE DEF headerVars
<1>0. /\ TypeOK /\ PoolSafe /\ BusyOwned /\ Exclusive /\ HeaderTrue
      /\ Walks(t) /\ Holds(t) /\ ReadsMax(t) /\ pc[t] = "store"
  BY AboutT DEF IInv, PfreeStore
<1>1. PICK b \in Block : b = blk[t]
  BY <1>0 DEF TypeOK
<1>2. PICK n \in Nat : n = attempt[t]
  BY <1>0 DEF TypeOK
<1>3. PICK c \in Chunk : c = mem[t] /\ c[1] = b
  BY <1>0, <1>1, PushingIs
<1>4. /\ b \in Linked /\ poolBlock # Gone /\ slot[b][n + 1] = c
      /\ n = sp[b] /\ n < capacity[b] /\ n + 1 \in 1 .. capacity[b] /\ n + 1 \in Slot
      /\ UNCHANGED <<capacity, next, slot, poolBlock, maxCapacity, headerVars, owners>>
      /\ sp' = [sp EXCEPT ![b] = n + 1]
      /\ busy' = [busy EXCEPT ![b] = FALSE]
  BY <1>0, <1>1, <1>2, <1>3, PushingIs DEF PfreeStore, Holds
<1>5. TypeOK'
  <2>0. n + 1 \in 0 .. MaxCapacity
    BY <1>4 DEF Slot
  <2>1. sp' \in [Block -> 0 .. MaxCapacity] /\ busy' \in [Block -> BOOLEAN]
    <3>1. sp' \in [Block -> 0 .. MaxCapacity]
      BY <1>0, <1>4, <2>0 DEF TypeOK
    <3>2. busy' \in [Block -> BOOLEAN]
      BY <1>0, <1>4 DEF TypeOK
    <3> QED BY <3>1, <3>2
  <2>2. /\ blk' \in [Thread -> Block] /\ last' \in [Thread -> Block]
        /\ seen' \in [Thread -> Block] /\ mem' \in [Thread -> Chunk \cup {NoChunk}]
        /\ attempt' \in [Thread -> 0 .. MaxCapacity]
        /\ cmpval' \in [Thread -> Chunk \cup {NoChunk}]
        /\ readMax' \in [Thread -> 0 .. MaxCapacity]
    BY <1>0, OneIsBlock DEF PfreeStore, ReturnFree, Return, TypeOK
  <2>3. pc' \in [Thread -> {"idle", "palloc", "read", "take", "pop", "header", "next",
                            "walk", "grow", "create", "link", "double", "publish",
                            "pfree", "peek", "compare", "claim", "write", "store"}]
    BY <1>0 DEF PfreeStore, ReturnFree, Return, TypeOK
  <2> QED BY <1>0, <1>4, <2>1, <2>2, <2>3 DEF TypeOK
<1>6. /\ Others(t) /\ pc'[t] = "idle" /\ blk'[t] = 1 /\ last'[t] = 1 /\ seen'[t] = 1
  BY <1>0 DEF PfreeStore, ReturnFree, Return, TypeOK, Others
<1>7. /\ sp'[b] = n + 1 /\ (\A a \in Block : a # b => sp'[a] = sp[a])
      /\ Linked' = Linked
  BY <1>0, <1>4, <1>6, LinkedStays DEF TypeOK, Others
<1>8. PlaceInv' /\ OneRing' /\ MaxInv'
  <2>1. Walks(t)'
    BY <1>6 DEF Walks, Walking, Pushing
  <2>2. Holds(t)' /\ ReadsMax(t)'
    BY <1>6 DEF Holds, ReadsMax, Holding, Pushing
  <2>3. \A d \in Chunk : InUse(d)'
    BY <1>4, <1>7 DEF IInv, PlaceInv, InUse
  <2>4. \A a \in Block : sp'[a] <= capacity[a]
    <3>1. \A a \in Block : sp[a] <= capacity[a]
      BY DEF IInv, PlaceInv
    <3>2. n + 1 <= capacity[b]
      BY <1>4
    <3> QED BY <1>7, <3>1, <3>2
  <2> QED BY <1>0, <1>4, <1>6, <2>1, <2>2, <2>3, <2>4, RingStays
<1>9. PoolSafe'
  BY <1>0, <1>4 DEF PoolSafe, Mapped
<1>10. BusyOwned'
  <2>1. \A u \in Thread : Claiming(u)' <=> Claiming(u) /\ u # t
    BY <1>6 DEF Claiming, Others
  <2>2. \A u \in Thread \ {t} : /\ Claiming(u) => blk[u] # b
                                /\ blk'[u] = blk[u] /\ attempt'[u] = attempt[u]
    BY <1>0, <1>1, <1>6 DEF BusyOwned, Claiming, Others
  <2>3. \A a \in Block : busy'[a] <=> busy[a] /\ a # b
    BY <1>0, <1>4 DEF TypeOK
  <2>4. \A a \in Block : busy'[a] <=> \E u \in Thread : Claiming(u)' /\ blk'[u] = a
    <3> SUFFICES ASSUME NEW a \in Block
                 PROVE  busy'[a] <=> \E u \in Thread : Claiming(u)' /\ blk'[u] = a
      OBVIOUS
    <3>1. busy[a] <=> \E u \in Thread : Claiming(u) /\ blk[u] = a
      BY <1>0 DEF BusyOwned
    <3> QED BY <1>1, <2>1, <2>2, <2>3, <3>1
  <2>5. \A u, v \in Thread : Claiming(u)' /\ Claiming(v)' /\ blk'[u] = blk'[v] => u = v
    BY <1>0, <2>1, <2>2 DEF BusyOwned
  <2>6. \A u \in Thread : Claiming(u)' => sp'[blk'[u]] = attempt'[u]
    BY <1>0, <1>7, <2>1, <2>2 DEF BusyOwned, TypeOK
  <2> QED BY <2>4, <2>5, <2>6 DEF BusyOwned
<1>11. /\ c \in InHand(t) /\ owners[c] = {} /\ (\A a \in Block : c \notin Stacked(a))
       /\ \A u \in Thread \ {t} : c \notin InHand(u)
  BY <1>0, <1>3, InHandIs DEF Exclusive, Holding, Pushing
<1>12. \A u \in Thread : InHand(u)' = IF u = t THEN {} ELSE InHand(u)
  <2>1. InHand(t)' = {}
    BY <1>5, <1>6, InHandIsNext DEF Holding, Pushing
  <2>2. ASSUME NEW u \in Thread, u # t PROVE InHand(u)' = InHand(u)
    <3>1. pc'[u] = pc[u] /\ mem'[u] = mem[u]
      BY <1>6, <2>2 DEF Others
    <3> QED BY <1>0, <1>5, <3>1, InHandIs, InHandIsNext
  <2> QED BY <2>1, <2>2
<1>13. \A a \in Block : Stacked(a)' \subseteq Stacked(a) \cup {c}
  <2> SUFFICES ASSUME NEW a \in Block, NEW i \in 1 .. sp'[a]
               PROVE  slot[a][i] \in Stacked(a) \cup {c}
    BY <1>4 DEF Stacked
  <2>1. CASE a = b /\ i = n + 1
    BY <1>4, <2>1
  <2>2. CASE ~(a = b /\ i = n + 1)
    <3>1. i \in 1 .. sp[a]
      BY <1>4, <1>7, <2>2
    <3> QED BY <3>1 DEF Stacked
  <2> QED BY <2>1, <2>2
<1>14. Exclusive'
  <2>1. ASSUME NEW u \in Thread, NEW d \in InHand(u)'
        PROVE  /\ owners'[d] = {}
               /\ \A v \in Thread \ {u} : d \notin InHand(v)'
               /\ \A a \in Block : d \notin Stacked(a)'
    <3>1. u # t /\ d \in InHand(u) /\ d # c
      BY <1>11, <1>12, <2>1
    <3> QED BY <1>0, <1>4, <1>12, <1>13, <3>1 DEF Exclusive
  <2>2. \A d \in Chunk : owners'[d] # {} => \A a \in Block : d \notin Stacked(a)'
    BY <1>0, <1>4, <1>11, <1>13 DEF Exclusive
  <2>3. ASSUME NEW a \in Block, NEW i \in 1 .. sp'[a], NEW j \in 1 .. sp'[a],
               slot'[a][i] = slot'[a][j]
        PROVE  i = j
    <3>1. CASE i \in 1 .. sp[a] /\ j \in 1 .. sp[a]
      BY <1>0, <1>4, <2>3, <3>1 DEF Exclusive
    <3>2. CASE ~(i \in 1 .. sp[a] /\ j \in 1 .. sp[a])
      <4>1. a = b /\ (i = n + 1 \/ i \in 1 .. n) /\ (j = n + 1 \/ j \in 1 .. n)
        BY <1>4, <1>7, <3>2
      <4>2. \A k \in 1 .. n : slot[b][k] # c
        BY <1>4, <1>11 DEF Stacked
      <4> QED BY <1>4, <2>3, <3>2, <4>1, <4>2
    <3> QED BY <3>1, <3>2
  <2> QED BY <2>1, <2>2, <2>3 DEF Exclusive
<1>15. HeaderTrue'
  <2>1. \A u \in Thread : pc'[u] = "pfree" => pc[u] = "pfree" /\ mem'[u] = mem[u]
    BY <1>6 DEF Others
  <2> QED BY <1>0, <1>4, <2>1 DEF HeaderTrue
<1> QED BY <1>5, <1>8, <1>9, <1>10, <1>14, <1>15 DEF IInv

-----------------------------------------------------------------------------
(* The clients' references.                                                *)

(* A chunk in use lies in a linked block of a live pool.                   *)
LEMMA InUseIs ==
  ASSUME IInv, NEW c \in Chunk, owners[c] # {}
  PROVE  /\ c[1] \in Linked /\ c[2] <= capacity[c[1]] /\ poolBlock # Gone
         /\ occupied[c] /\ home[c] = c[1] /\ refcount[c] = Cardinality(owners[c])
         /\ \A t \in Thread : c \notin InHand(t)
         /\ \A b \in Block : c \notin Stacked(b)
<1>1. c[1] \in Linked /\ c[2] <= capacity[c[1]]
  BY DEF IInv, PlaceInv, InUse
<1>2. poolBlock # Gone
  BY <1>1, LinkedIsBlock DEF IInv, PlaceInv, Alive
<1>3. occupied[c] /\ home[c] = c[1] /\ refcount[c] = Cardinality(owners[c])
  BY DEF IInv, HeaderTrue
<1>4. (\A t \in Thread : c \notin InHand(t)) /\ \A b \in Block : c \notin Stacked(b)
  BY DEF IInv, Exclusive
<1> QED BY <1>1, <1>2, <1>3, <1>4

(* The only user of a chunk enters pfree, by a call of its own or by the   *)
(* unref that reaches 0.                                                   *)
LEMMA LastUserKeeps ==
  ASSUME IInv, NEW t \in Thread, NEW c \in Chunk,
         pc[t] = "idle", owners[c] = {t},
         owners' = [owners EXCEPT ![c] = {}],
         mem' = [mem EXCEPT ![t] = c],
         pc' = [pc EXCEPT ![t] = "pfree"],
         refcount' \in [Chunk -> Nat],
         \A d \in Chunk \ {c} : refcount'[d] = refcount[d],
         UNCHANGED <<poolVars, home, occupied, blk, last, busy, casVars>>
  PROVE  IInv'
<1> USE DEF poolVars, casVars
<1>0. /\ TypeOK /\ PoolSafe /\ BusyOwned /\ Exclusive /\ HeaderTrue
      /\ Walks(t) /\ Holds(t) /\ ReadsMax(t)
  BY AboutT DEF IInv
<1>1. /\ c[1] \in Linked /\ c[2] <= capacity[c[1]] /\ poolBlock # Gone
      /\ occupied[c] /\ home[c] = c[1]
      /\ (\A u \in Thread : c \notin InHand(u)) /\ \A b \in Block : c \notin Stacked(b)
  BY InUseIs
<1>2. TypeOK'
  BY <1>0 DEF TypeOK
<1>3. /\ Others(t) /\ pc'[t] = "pfree" /\ mem'[t] = c /\ owners'[c] = {}
      /\ \A d \in Chunk \ {c} : owners'[d] = owners[d]
  BY <1>0 DEF TypeOK, Others
<1>4. Linked' = Linked
  BY <1>3, LinkedStays DEF Others
<1>5. PlaceInv' /\ OneRing' /\ MaxInv'
  <2>1. Walks(t)' /\ ReadsMax(t)'
    BY <1>0, <1>3 DEF Walks, ReadsMax, Walking, Pushing
  <2>2. Holds(t)'
    BY <1>1, <1>3, <1>4 DEF Holds, Holding, Pushing
  <2>3. \A d \in Chunk : InUse(d)'
    BY <1>3, <1>4 DEF IInv, PlaceInv, InUse
  <2>4. \A a \in Block : sp'[a] <= capacity[a]
    BY DEF IInv, PlaceInv
  <2>5. ASSUME NEW u \in Thread \ {t}, pc[u] \in {"link", "double", "publish"}
        PROVE  refcount'[mem[u]] = refcount[mem[u]]
    <3>1. mem[u] \in InHand(u)
      BY <1>0, <2>5, InHandIs DEF Holding
    <3>2. mem[u] # c /\ mem[u] \in Chunk
      BY <1>1, <3>1, HeldIsChunk
    <3> QED BY <3>2
  <2> HIDE DEF Others
  <2> QED BY <1>1, <1>3, <2>1, <2>2, <2>3, <2>4, <2>5, RingStays
<1>6. PoolSafe'
  BY <1>0 DEF PoolSafe, Mapped
<1>7. BusyOwned'
  <2>1. \A u \in Thread : Claiming(u)' <=> Claiming(u)
    BY <1>3 DEF Claiming, Others
  <2> QED BY <1>0, <2>1 DEF BusyOwned
<1>8. \A u \in Thread : InHand(u)' = IF u = t THEN {c} ELSE InHand(u)
  <2>1. InHand(t)' = {c}
    BY <1>2, <1>3, InHandIsNext DEF Holding
  <2>2. ASSUME NEW u \in Thread, u # t PROVE InHand(u)' = InHand(u)
    <3>1. pc'[u] = pc[u] /\ mem'[u] = mem[u]
      BY <1>3, <2>2 DEF Others
    <3> QED BY <1>0, <1>2, <3>1, InHandIs, InHandIsNext
  <2> QED BY <2>1, <2>2
<1>9. Exclusive'
  <2>1. \A b \in Block : Stacked(b)' = Stacked(b)
    BY DEF Stacked
  <2>2. ASSUME NEW u \in Thread, NEW d \in InHand(u)'
        PROVE  /\ owners'[d] = {}
               /\ \A v \in Thread \ {u} : d \notin InHand(v)'
               /\ \A b \in Block : d \notin Stacked(b)'
    <3>1. CASE u = t
      BY <1>1, <1>3, <1>8, <2>1, <2>2, <3>1
    <3>2. CASE u # t
      <4>1. d \in InHand(u) /\ d # c
        BY <1>1, <1>8, <2>2, <3>2
      <4>2. d \in Chunk
        BY <4>1, HeldIsChunk
      <4>3. owners'[d] = {}
        BY <1>0, <1>3, <4>1, <4>2 DEF Exclusive
      <4> QED BY <1>0, <1>8, <2>1, <4>1, <4>3 DEF Exclusive
    <3> QED BY <3>1, <3>2
  <2>3. \A d \in Chunk : owners'[d] # {} => \A b \in Block : d \notin Stacked(b)'
    BY <1>0, <1>3, <2>1 DEF Exclusive
  <2>4. \A b \in Block : \A i, j \in 1 .. sp'[b] : slot'[b][i] = slot'[b][j] => i = j
    BY <1>0 DEF Exclusive
  <2> QED BY <2>2, <2>3, <2>4 DEF Exclusive
<1>10. HeaderTrue'
  <2> SUFFICES ASSUME NEW d \in Chunk
               PROVE  /\ owners'[d] # {} => refcount'[d] = Cardinality(owners'[d])
                      /\ owners'[d] # {} \/ (\E u \in Thread : pc'[u] = "pfree" /\ mem'[u] = d)
                         => occupied[d] /\ home[d] = d[1] /\ d[2] <= capacity[d[1]]
    BY DEF HeaderTrue
  <2>1. CASE d = c
    BY <1>1, <1>3, <2>1
  <2>2. CASE d # c
    <3>1. \A u \in Thread : pc'[u] = "pfree" /\ mem'[u] = d => pc[u] = "pfree" /\ mem[u] = d
      BY <1>3, <2>2 DEF Others
    <3>2. owners'[d] = owners[d] /\ refcount'[d] = refcount[d]
      BY <1>3, <2>2
    <3> QED BY <1>0, <3>1, <3>2 DEF HeaderTrue
  <2> QED BY <2>1, <2>2
<1> QED BY <1>2, <1>5, <1>6, <1>7, <1>9, <1>10 DEF IInv

(* The references move while every chunk in use stays in use.              *)
LEMMA CountMoves ==
  ASSUME IInv, NEW t \in Thread, NEW c \in Chunk, pc[t] = "idle", owners[c] # {},
         owners' \in [Chunk -> SUBSET Thread], refcount' \in [Chunk -> Nat],
         refcount'[c] = Cardinality(owners'[c]),
         \A d \in Chunk \ {c} : owners'[d] = owners[d] /\ refcount'[d] = refcount[d],
         UNCHANGED <<poolVars, home, occupied, pc, localVars, busy, casVars>>
  PROVE  IInv'
<1> USE DEF poolVars, casVars, localVars
<1>0. /\ TypeOK /\ PoolSafe /\ BusyOwned /\ Exclusive /\ HeaderTrue
      /\ Walks(t) /\ Holds(t) /\ ReadsMax(t)
  BY AboutT DEF IInv
<1>1. /\ c[1] \in Linked /\ c[2] <= capacity[c[1]] /\ poolBlock # Gone
      /\ occupied[c] /\ home[c] = c[1]
      /\ (\A u \in Thread : c \notin InHand(u)) /\ \A b \in Block : c \notin Stacked(b)
  BY InUseIs
<1>2. TypeOK'
  BY <1>0 DEF TypeOK
<1>3. Others(t)
  BY DEF Others
<1>4. Linked' = Linked
  BY LinkedStays
<1>5. PlaceInv' /\ OneRing' /\ MaxInv'
  <2>1. Walks(t)' /\ ReadsMax(t)'
    BY <1>0, <1>4 DEF Walks, ReadsMax, Walking, Pushing
  <2>2. Holds(t)'
    BY DEF Holds, Holding, Pushing
  <2>3. \A d \in Chunk : InUse(d)'
    BY <1>1, <1>4 DEF IInv, PlaceInv, InUse
  <2>4. \A a \in Block : sp'[a] <= capacity[a]
    BY DEF IInv, PlaceInv
  <2>5. ASSUME NEW u \in Thread \ {t}, pc[u] \in {"link", "double", "publish"}
        PROVE  refcount'[mem[u]] = refcount[mem[u]]
    <3>1. mem[u] \in InHand(u)
      BY <1>0, <2>5, InHandIs DEF Holding
    <3>2. mem[u] # c /\ mem[u] \in Chunk
      BY <1>1, <3>1, HeldIsChunk
    <3> QED BY <3>2
  <2> QED BY <1>1, <1>3, <2>1, <2>2, <2>3, <2>4, <2>5, RingStays
<1>6. PoolSafe'
  BY <1>0 DEF PoolSafe, Mapped
<1>7. BusyOwned'
  BY <1>0 DEF BusyOwned, Claiming
<1>8. \A u \in Thread : InHand(u)' = InHand(u)
  BY <1>0, <1>2, InHandIs, InHandIsNext
<1>9. Exclusive'
  <2>1. \A b \in Block : Stacked(b)' = Stacked(b)
    BY DEF Stacked
  <2>2. ASSUME NEW u \in Thread, NEW d \in InHand(u)
        PROVE  owners'[d] = {}
    <3>1. d \in Chunk /\ d # c
      BY <1>1, <2>2, HeldIsChunk
    <3> QED BY <1>0, <2>2, <3>1 DEF Exclusive
  <2>3. \A d \in Chunk : owners'[d] # {} => \A b \in Block : d \notin Stacked(b)'
    BY <1>0, <1>1, <2>1 DEF Exclusive
  <2>4. \A b \in Block : \A i, j \in 1 .. sp'[b] : slot'[b][i] = slot'[b][j] => i = j
    BY <1>0 DEF Exclusive
  <2> QED BY <1>0, <1>8, <2>1, <2>2, <2>3, <2>4 DEF Exclusive
<1>10. HeaderTrue'
  <2> SUFFICES ASSUME NEW d \in Chunk
               PROVE  /\ owners'[d] # {} => refcount'[d] = Cardinality(owners'[d])
                      /\ owners'[d] # {} \/ (\E u \in Thread : pc[u] = "pfree" /\ mem[u] = d)
                         => occupied[d] /\ home[d] = d[1] /\ d[2] <= capacity[d[1]]
    BY DEF HeaderTrue
  <2>1. CASE d = c
    BY <1>1, <2>1
  <2>2. CASE d # c
    <3>1. owners'[d] = owners[d] /\ refcount'[d] = refcount[d]
      BY <2>2
    <3> QED BY <1>0, <3>1 DEF HeaderTrue
  <2> QED BY <2>1, <2>2
<1> QED BY <1>2, <1>5, <1>6, <1>7, <1>9, <1>10 DEF IInv

(* frl_slab_ref: one more user, one more reference.                        *)
LEMMA SlabRefKeeps ==
  ASSUME IInv, NEW t \in Thread, NEW u \in Thread, NEW c \in Chunk,
         SlabRef(t, u, c), UNCHANGED <<busy, casVars>>
  PROVE  IInv'
<1>0. TypeOK
  BY DEF IInv
<1>1. /\ owners[c] \subseteq Thread /\ owners[c] # {} /\ u \notin owners[c]
      /\ owners' = [owners EXCEPT ![c] = owners[c] \cup {u}]
      /\ refcount' = [refcount EXCEPT ![c] = refcount[c] + 1]
      /\ refcount[c] = Cardinality(owners[c]) /\ pc[t] = "idle"
  BY <1>0 DEF SlabRef, TypeOK, IInv, HeaderTrue
<1>2. IsFiniteSet(owners[c])
  BY <1>1, FS_Subset
<1>3. Cardinality(owners[c] \cup {u}) = refcount[c] + 1
  BY <1>1, <1>2, FS_AddElement
<1>4. /\ owners' \in [Chunk -> SUBSET Thread] /\ refcount' \in [Chunk -> Nat]
      /\ owners'[c] = owners[c] \cup {u} /\ refcount'[c] = refcount[c] + 1
      /\ \A d \in Chunk \ {c} : owners'[d] = owners[d] /\ refcount'[d] = refcount[d]
  BY <1>0, <1>1 DEF TypeOK
<1>5. UNCHANGED <<poolVars, home, occupied, pc, localVars>>
  BY DEF SlabRef
<1> QED BY <1>1, <1>3, <1>4, <1>5, CountMoves

(* frl_slab_unref: the reference that goes is the user's, and 0 means that *)
(* no user is left.                                                        *)
LEMMA SlabUnrefKeeps ==
  ASSUME IInv, NEW t \in Thread, NEW c \in Chunk,
         SlabUnref(t, c), UNCHANGED <<busy, casVars>>
  PROVE  IInv'
<1>0. TypeOK
  BY DEF IInv
<1>1. /\ owners[c] \subseteq Thread /\ t \in owners[c] /\ pc[t] = "idle"
      /\ refcount[c] \in Nat /\ refcount[c] = Cardinality(owners[c])
      /\ refcount' = [refcount EXCEPT ![c] = refcount[c] - 1]
      /\ owners' = [owners EXCEPT ![c] = owners[c] \ {t}]
  BY <1>0 DEF SlabUnref, TypeOK, IInv, HeaderTrue
<1>2. IsFiniteSet(owners[c]) /\ IsFiniteSet(owners[c] \ {t})
  BY <1>1, FS_Subset, FS_RemoveElement
<1>3. Cardinality(owners[c] \ {t}) = refcount[c] - 1 /\ refcount[c] - 1 \in Nat
  <2>1. Cardinality(owners[c] \ {t}) = refcount[c] - 1
    BY <1>1, <1>2, FS_RemoveElement
  <2> QED BY <1>2, <2>1, FS_CardinalityType
<1>4. /\ owners' \in [Chunk -> SUBSET Thread] /\ refcount' \in [Chunk -> Nat]
      /\ owners'[c] = owners[c] \ {t} /\ refcount'[c] = refcount[c] - 1
      /\ \A d \in Chunk \ {c} : owners'[d] = owners[d] /\ refcount'[d] = refcount[d]
  BY <1>0, <1>1, <1>3 DEF TypeOK
<1>5. UNCHANGED <<poolVars, home, occupied, blk, last>>
  BY DEF SlabUnref
<1>6. CASE refcount[c] = 1
  <2>1. owners[c] \ {t} = {}
    BY <1>1, <1>2, <1>3, <1>6, FS_EmptySet
  <2>2. owners[c] = {t} /\ owners' = [owners EXCEPT ![c] = {}]
    BY <1>1, <2>1
  <2>3. mem' = [mem EXCEPT ![t] = c] /\ pc' = [pc EXCEPT ![t] = "pfree"]
    BY <1>6 DEF SlabUnref, DropsLast
  <2> QED BY <1>1, <1>4, <1>5, <2>2, <2>3, LastUserKeeps
<1>7. CASE refcount[c] # 1
  <2>1. UNCHANGED <<mem, pc>>
    BY <1>7 DEF SlabUnref, DropsLast
  <2> QED BY <1>1, <1>3, <1>4, <1>5, <2>1, CountMoves DEF localVars
<1> QED BY <1>6, <1>7

LEMMA CallPfreeKeeps ==
  ASSUME IInv, NEW t \in Thread, NEW c \in Chunk,
         CallPfree(t, c), UNCHANGED <<busy, casVars>>
  PROVE  IInv'
<1>1. refcount \in [Chunk -> Nat]
  BY DEF IInv, TypeOK
<1> QED BY <1>1, LastUserKeeps DEF CallPfree, headerVars

-----------------------------------------------------------------------------
(* A new block: created, linked in or destroyed.                           *)

(* max_capacity doubles unless somebody else has doubled it.               *)
LEMMA PallocDoubleKeeps ==
  ASSUME IInv, NEW t \in Thread, PallocDouble(t)
  PROVE  IInv'
<1> USE DEF headerVars, localVars, casVars
<1>0. /\ TypeOK /\ PoolSafe /\ PlaceInv /\ OneRing /\ MaxInv /\ BusyOwned /\ Exclusive
      /\ HeaderTrue /\ Walks(t) /\ Holds(t) /\ ReadsMax(t)
  BY AboutT DEF IInv
<1>1. /\ pc[t] = "double" /\ pc' = [pc EXCEPT ![t] = "publish"] /\ poolBlock # Gone
      /\ UNCHANGED <<capacity, next, slot, sp, poolBlock, headerVars, owners, localVars,
                     busy, casVars>>
      /\ blk[t] \in Linked /\ blk[t] \in Block
  BY InsideAlive, StandsOnLinked DEF PallocDouble, Goto, Walking
<1>2. pc'[t] = "publish" /\ Others(t)
  BY <1>0, <1>1 DEF TypeOK, Others
<1>3. PICK r \in Nat : r = readMax[t] /\ r # 0 /\ capacity[blk[t]] = 2 * r
  BY <1>0, <1>1 DEF ReadsMax, TypeOK
<1>4. PICK m \in Nat : m = maxCapacity
  BY <1>0 DEF TypeOK
<1>5. PICK k \in Nat : /\ k = maxCapacity'
                       /\ k = (IF m = r THEN 2 * r ELSE m)
                       /\ m <= k /\ 2 * r <= k
  BY <1>0, <1>1, <1>3, <1>4 DEF PallocDouble, DoubledMax, ReadsMax
<1>6. Linked' = Linked /\ Mapped' = Mapped
  BY <1>1, <1>2, LinkedStays DEF Others
<1>7. TypeOK'
  <2>1. 2 * r <= MaxCapacity
    BY <1>0, <1>1, <1>3 DEF TypeOK
  <2>2. maxCapacity' \in Capacity .. MaxCapacity
    BY <1>0, <1>3, <1>4, <1>5, <2>1 DEF TypeOK
  <2> QED BY <1>0, <1>1, <2>2 DEF TypeOK
<1>8. PlaceInv'
  <2>1. \A u \in Thread : Walks(u)' /\ Holds(u)'
    <3>1. Walks(t)' /\ Holds(t)'
      <4>1. Walks(t)'
        BY <1>0, <1>1, <1>2, <1>6 DEF Walks, Walking, Pushing
      <4>2. Holds(t)'
        BY <1>0, <1>1, <1>2, <1>6 DEF Holds, Holding, Pushing
      <4> QED BY <4>1, <4>2
    <3>2. ASSUME NEW u \in Thread, u # t PROVE Walks(u)' /\ Holds(u)'
      <4>0. pc'[u] = pc[u]
        BY <1>2, <3>2 DEF Others
      <4>1. Walks(u) /\ Holds(u)
        BY <1>0 DEF PlaceInv
      <4>2. pc[u] = "link" => blk[u] \in Mapped
        BY <4>1 DEF Walks
      <4>3. Walks(u)'
        BY <1>1, <1>6, <4>0, <4>1, <4>2, WalksStays
      <4>4. Holds(u)'
        BY <1>1, <1>6, <4>0, <4>1, HoldsStays
      <4> QED BY <4>3, <4>4
    <3> QED BY <3>1, <3>2
  <2>2. Alive' /\ \A c \in Chunk : InUse(c)'
    BY <1>0, <1>1, <1>6 DEF PlaceInv, Alive, InUse
  <2>3. \A u, v \in Thread : pc'[u] = "link" /\ pc'[v] = "link" /\ blk'[u] = blk'[v] => u = v
    BY <1>0, <1>1, <1>2 DEF PlaceInv, Others
  <2>4. (\A b \in Block : sp'[b] <= capacity'[b]) /\ (\A b \in Linked' : next'[b] \in Linked')
    BY <1>0, <1>1, <1>6 DEF PlaceInv
  <2> QED BY <2>1, <2>2, <2>3, <2>4 DEF PlaceInv
<1>9. OneRing'
  BY <1>0, <1>1, <1>6 DEF OneRing
<1>10. MaxInv'
  <2>1. ASSUME NEW u \in Thread PROVE ReadsMax(u)'
    <3>1. CASE u = t
      BY <1>2, <3>1 DEF ReadsMax
    <3>2. CASE u # t
      <4>1. ReadsMax(u) /\ pc'[u] = pc[u] /\ readMax[u] \in Nat
        BY <1>0, <1>2, <3>2 DEF MaxInv, Others, TypeOK
      <4>2. readMax[u] = m \/ 2 * readMax[u] <= m => readMax[u] = k \/ 2 * readMax[u] <= k
        BY <1>5, <4>1
      <4> QED BY <1>1, <1>4, <1>5, <4>1, <4>2 DEF ReadsMax
    <3> QED BY <3>1, <3>2
  <2>2. ASSUME NEW b \in Linked
        PROVE  \/ capacity[b] <= k
               \/ \E u \in Thread : pc'[u] = "double" /\ blk[u] = b
    <3>1. capacity[b] \in Nat
      BY <1>0, LinkedIsBlock DEF TypeOK
    <3>2. CASE capacity[b] <= m
      BY <1>5, <3>1, <3>2
    <3>3. CASE \E u \in Thread : pc[u] = "double" /\ blk[u] = b
      <4>1. PICK u \in Thread : pc[u] = "double" /\ blk[u] = b
        BY <3>3
      <4>2. CASE u = t
        BY <1>3, <1>5, <4>1, <4>2
      <4>3. CASE u # t
        BY <1>2, <4>1, <4>3 DEF Others
      <4> QED BY <4>2, <4>3
    <3> QED BY <1>0, <1>4, <3>2, <3>3 DEF MaxInv
  <2>3. \E b \in Linked : capacity[b] = k
    <3>1. CASE m = r
      BY <1>1, <1>3, <1>5, <3>1
    <3>2. CASE m # r
      BY <1>0, <1>1, <1>4, <1>5, <3>2 DEF MaxInv
    <3> QED BY <3>1, <3>2
  <2> QED BY <1>1, <1>5, <1>6, <2>1, <2>2, <2>3 DEF MaxInv
<1>11. BusyOwned'
  <2>1. \A u \in Thread : Claiming(u)' <=> Claiming(u)
    BY <1>1, <1>2 DEF Claiming, Others
  <2> QED BY <1>0, <1>1, <2>1 DEF BusyOwned
<1>12. Exclusive'
  <2>1. \A u \in Thread : InHand(u)' = InHand(u)
    <3>1. \A u \in Thread : pc'[u] \in Holding <=> pc[u] \in Holding
      BY <1>1, <1>2 DEF Others, Holding
    <3> QED BY <1>0, <1>1, <1>7, <3>1, InHandIs, InHandIsNext
  <2> QED BY <1>0, <1>1, <2>1, ExclusiveStays
<1>13. PoolSafe'
  BY <1>0, <1>1, <1>6 DEF PoolSafe
<1>14. HeaderTrue'
  <2>1. \A u \in Thread : pc'[u] = "pfree" => pc[u] = "pfree"
    BY <1>2 DEF Others
  <2> QED BY <1>0, <1>1, <2>1 DEF HeaderTrue
<1> QED BY <1>7, <1>8, <1>9, <1>10, <1>11, <1>12, <1>13, <1>14 DEF IInv

(* The new block closes the ring.                                          *)
LEMMA PallocLinkKeeps ==
  ASSUME IInv, NEW t \in Thread, PallocLink(t)
  PROVE  IInv'
<1> USE DEF headerVars, localVars, casVars
<1>0. /\ TypeOK /\ PoolSafe /\ PlaceInv /\ OneRing /\ MaxInv /\ BusyOwned /\ Exclusive
      /\ HeaderTrue /\ Walks(t) /\ Holds(t) /\ ReadsMax(t) /\ pc[t] = "link"
  BY AboutT DEF IInv, PallocLink
<1>1. PICK b \in Block : b = blk[t]
  BY <1>0 DEF TypeOK
<1>2. PICK l \in Block : l = last[t]
  BY <1>0 DEF TypeOK
<1>3. PICK s \in Block : s = seen[t]
  BY <1>0 DEF TypeOK
<1>4. /\ b \in Mapped /\ b \notin Linked /\ l \in Linked /\ s \in Linked
      /\ next[b] = s /\ next[l] = s /\ l # b /\ s # b /\ poolBlock # Gone
  BY <1>0, <1>1, <1>2, <1>3, InsideAlive DEF Walks, Linked, PallocLink
<1>5. /\ next' = [next EXCEPT ![l] = b] /\ pc' = [pc EXCEPT ![t] = "double"]
      /\ UNCHANGED <<capacity, slot, sp, poolBlock, maxCapacity, headerVars, owners,
                     localVars, busy, casVars>>
  BY <1>1, <1>2 DEF PallocLink, Goto
<1>6. /\ pc'[t] = "double" /\ Others(t) /\ next'[l] = b
      /\ \A a \in Block : a # l => next'[a] = next[a]
  BY <1>0, <1>5 DEF TypeOK, Others
<1>7. Linked' = Linked \cup {b} /\ Mapped' = Mapped
  <2>1. Mapped' = Mapped
    BY <1>5 DEF Mapped
  <2>2. \A u \in Thread \ {t} : pc[u] = "link" => blk[u] # b
    BY <1>0, <1>1 DEF PlaceInv
  <2> QED BY <1>0, <1>1, <1>4, <1>5, <1>6, <2>1, <2>2 DEF Linked, Others
<1>8. TypeOK'
  BY <1>0, <1>5 DEF TypeOK
<1>9. PlaceInv'
  <2>1. \A u \in Thread : Walks(u)' /\ Holds(u)'
    <3>1. Walks(t)' /\ Holds(t)'
      <4>1. Walks(t)'
        BY <1>0, <1>1, <1>5, <1>6, <1>7 DEF Walks, Walking, Pushing
      <4>2. Holds(t)'
        BY <1>0, <1>5, <1>6 DEF Holds, Holding, Pushing
      <4> QED BY <4>1, <4>2
    <3>2. ASSUME NEW u \in Thread, u # t PROVE Walks(u)' /\ Holds(u)'
      <4>0. pc'[u] = pc[u]
        BY <1>6, <3>2 DEF Others
      <4>1. Walks(u) /\ Holds(u)
        BY <1>0 DEF PlaceInv
      <4>2. pc[u] = "link" => blk[u] \in Mapped /\ next'[blk[u]] = next[blk[u]]
        <5>1. pc[u] = "link" => blk[u] \in Mapped /\ blk[u] # l /\ blk[u] \in Block
          BY <1>4, <4>1, LinkedIsBlock DEF Walks, Linked
        <5> QED BY <1>6, <5>1
      <4>3. Walks(u)'
        BY <1>5, <1>7, <4>0, <4>1, <4>2, WalksStays
      <4>4. Holds(u)'
        BY <1>5, <1>7, <4>0, <4>1, HoldsStays
      <4> QED BY <4>3, <4>4
    <3> QED BY <3>1, <3>2
  <2>2. Alive' /\ \A c \in Chunk : InUse(c)'
    BY <1>0, <1>4, <1>5, <1>7 DEF PlaceInv, Alive, InUse
  <2>3. \A u, v \in Thread : pc'[u] = "link" /\ pc'[v] = "link" /\ blk'[u] = blk'[v] => u = v
    BY <1>0, <1>5, <1>6 DEF PlaceInv, Others
  <2>4. \A a \in Linked' : next'[a] \in Linked'
    <3>1. \A a \in Linked : next[a] \in Linked /\ a \in Block
      BY <1>0, LinkedIsBlock DEF PlaceInv
    <3> QED BY <1>4, <1>6, <1>7, <3>1
  <2>5. \A a \in Block : sp'[a] <= capacity'[a]
    BY <1>0, <1>5 DEF PlaceInv
  <2> QED BY <2>1, <2>2, <2>3, <2>4, <2>5 DEF PlaceInv
<1>10. OneRing'
  <2> SUFFICES ASSUME NEW S \in SUBSET Linked', S # {}, \A a \in S : next'[a] \in S
               PROVE  S = Linked'
    BY DEF OneRing
  <2>1. PICK R \in SUBSET Linked : R = S \ {b}
    BY <1>7
  <2>2. \A a \in Linked : next[a] \in Linked /\ a \in Block
    BY <1>0, LinkedIsBlock DEF PlaceInv
  <2>3. next'[b] = s
    BY <1>4, <1>6
  <2>4. R # {}
    BY <1>4, <2>1, <2>3
  <2>5. ASSUME NEW a \in R PROVE next[a] \in R
    <3>1. next[a] \in Linked /\ a \in S /\ a \in Block
      BY <2>1, <2>2
    <3>2. CASE a = l
      BY <1>4, <1>6, <2>1, <2>3, <3>1, <3>2
    <3>3. CASE a # l
      BY <1>4, <1>6, <2>1, <3>1, <3>3
    <3> QED BY <3>2, <3>3
  <2>6. R = Linked
    BY <1>0, <1>4, <2>4, <2>5 DEF OneRing
  <2>7. b \in S
    BY <1>4, <1>6, <2>1, <2>6
  <2> QED BY <1>7, <2>1, <2>6, <2>7
<1>11. MaxInv'
  <2>1. ASSUME NEW u \in Thread PROVE ReadsMax(u)'
    <3>1. ReadsMax(u) /\ (pc'[u] = pc[u] \/ pc[u] = "link")
      BY <1>0, <1>6 DEF MaxInv, Others
    <3> QED BY <1>5, <3>1 DEF ReadsMax
  <2>2. ASSUME NEW a \in Linked'
        PROVE  \/ capacity[a] <= maxCapacity
               \/ \E u \in Thread : pc'[u] = "double" /\ blk[u] = a
    <3>1. CASE a = b
      BY <1>1, <1>6, <3>1
    <3>2. CASE a # b
      <4>1. a \in Linked
        BY <1>7, <3>2
      <4>2. \A u \in Thread : pc[u] = "double" => pc'[u] = "double"
        BY <1>6 DEF Others
      <4> QED BY <1>0, <4>1, <4>2 DEF MaxInv
    <3> QED BY <3>1, <3>2
  <2>3. \E a \in Linked' : capacity[a] = maxCapacity
    BY <1>0, <1>4, <1>7 DEF MaxInv
  <2> QED BY <1>5, <2>1, <2>2, <2>3 DEF MaxInv
<1>12. BusyOwned'
  <2>1. \A u \in Thread : Claiming(u)' <=> Claiming(u)
    BY <1>0, <1>6 DEF Claiming, Others
  <2> QED BY <1>0, <1>5, <2>1 DEF BusyOwned
<1>13. Exclusive'
  <2>1. \A u \in Thread : InHand(u)' = InHand(u)
    <3>1. \A u \in Thread : pc'[u] \in Holding <=> pc[u] \in Holding
      BY <1>0, <1>6 DEF Others, Holding
    <3> QED BY <1>0, <1>5, <1>8, <3>1, InHandIs, InHandIsNext
  <2> QED BY <1>0, <1>5, <2>1, ExclusiveStays
<1>14. PoolSafe'
  BY <1>0, <1>5, <1>7 DEF PoolSafe
<1>15. HeaderTrue'
  <2>1. \A u \in Thread : pc'[u] = "pfree" => pc[u] = "pfree"
    BY <1>6 DEF Others
  <2> QED BY <1>0, <1>5, <2>1 DEF HeaderTrue
<1> QED BY <1>8, <1>9, <1>10, <1>11, <1>12, <1>13, <1>14, <1>15 DEF IInv

(* A block that is not allocated: nobody knows it.                         *)
LEMMA NobodyKnows ==
  ASSUME IInv, NEW b \in Block, b \notin Linked,
         NEW t \in Thread, \A u \in Thread \ {t} : pc[u] = "link" => blk[u] # b
  PROVE  /\ \A u \in Thread \ {t} : \A c \in InHand(u) : c \in Chunk /\ c[1] # b
         /\ \A c \in Chunk : owners[c] # {} => c[1] # b
         /\ \A u \in Thread : Claiming(u) => blk[u] # b
         /\ \A u \in Thread : pc[u] = "pfree" => mem[u][1] # b
<1>1. ASSUME NEW u \in Thread \ {t}, NEW c \in InHand(u)
      PROVE  c \in Chunk /\ c[1] # b
  <2>1. c = mem[u] /\ c \in Chunk /\ pc[u] \in Holding /\ Walks(u) /\ Holds(u)
    BY <1>1, HeldIsChunk, AboutT
  <2>2. CASE pc[u] = "link"
    BY <2>1, <2>2 DEF Holds, Holding
  <2>3. CASE pc[u] \in {"header", "double", "publish"}
    BY <2>1, <2>3 DEF Holds, Walks, Holding, Walking, Pushing
  <2>4. CASE pc[u] \in {"pfree"} \cup Pushing
    BY <2>1, <2>4 DEF Holds
  <2> QED BY <2>1, <2>2, <2>3, <2>4 DEF Holding
<1>2. \A c \in Chunk : owners[c] # {} => c[1] # b
  BY InUseIs
<1>3. \A u \in Thread : Claiming(u) => blk[u] # b
  BY StandsOnLinked DEF Claiming, Walking, Pushing
<1>4. \A u \in Thread : pc[u] = "pfree" => mem[u][1] # b
  BY AboutT DEF Holds
<1> QED BY <1>1, <1>2, <1>3, <1>4

(* A new block, known to this thread only.                                 *)
LEMMA PallocCreateKeeps ==
  ASSUME IInv, NEW t \in Thread, NEW b \in Block, PallocCreate(t, b)
  PROVE  IInv'
<1> USE DEF casVars
<1>0. /\ TypeOK /\ PoolSafe /\ PlaceInv /\ OneRing /\ MaxInv /\ BusyOwned /\ Exclusive
      /\ HeaderTrue /\ Walks(t) /\ Holds(t) /\ ReadsMax(t) /\ pc[t] = "create"
  BY AboutT DEF IInv, PallocCreate
<1>1. PICK r \in Nat : r = readMax[t] /\ r # 0
  BY <1>0 DEF ReadsMax, TypeOK
<1>2. PICK n \in Slot : n = 2 * r
  <2>1. 2 * r <= MaxCapacity /\ 2 * r \in Nat /\ 2 * r # 0
    BY <1>1 DEF PallocCreate, MallocGives
  <2> QED BY <2>1 DEF Slot
<1>3. PICK c \in Chunk : c = <<b, n>> /\ c[1] = b /\ c[2] = n
  BY ChunkPair
<1>4. /\ capacity[b] = 0 /\ b \notin Mapped /\ b \notin Linked /\ poolBlock # Gone
      /\ seen[t] \in Linked /\ last[t] \in Linked
  BY <1>0, InsideAlive DEF PallocCreate, MallocGives, Mapped, Linked, Walks, Walking
<1>5. /\ capacity' = [capacity EXCEPT ![b] = n]
      /\ slot' = [slot EXCEPT ![b] = FreshSlots(b)]
      /\ sp' = [sp EXCEPT ![b] = n - 1]
      /\ home' = [home EXCEPT ![c] = b]
      /\ occupied' = [occupied EXCEPT ![c] = TRUE]
      /\ refcount' = [refcount EXCEPT ![c] = 1]
      /\ next' = [next EXCEPT ![b] = seen[t]]
      /\ blk' = [blk EXCEPT ![t] = b]
      /\ mem' = [mem EXCEPT ![t] = c]
      /\ pc' = [pc EXCEPT ![t] = "link"]
      /\ UNCHANGED <<poolBlock, maxCapacity, owners, last, busy, casVars>>
  BY <1>1, <1>2, <1>3 DEF PallocCreate, TakeFromNewBlock, WriteHeader, Goto
<1>6. TypeOK'
  <2>1. n \in 0 .. MaxCapacity /\ n - 1 \in 0 .. MaxCapacity /\ FreshSlots(b) \in [Slot -> Chunk]
    BY ChunkPair DEF Slot, FreshSlots
  <2>2. /\ capacity' \in [Block -> 0 .. MaxCapacity] /\ sp' \in [Block -> 0 .. MaxCapacity]
        /\ slot' \in [Block -> [Slot -> Chunk]] /\ next' \in [Block -> Block]
    BY <1>0, <1>5, <2>1 DEF TypeOK
  <2>3. /\ home' \in [Chunk -> Block] /\ occupied' \in [Chunk -> BOOLEAN]
        /\ refcount' \in [Chunk -> Nat]
    BY <1>0, <1>5 DEF TypeOK
  <2> QED BY <1>0, <1>5, <2>2, <2>3 DEF TypeOK
<1>7. /\ pc'[t] = "link" /\ blk'[t] = b /\ mem'[t] = c
      /\ capacity'[b] = n /\ slot'[b] = FreshSlots(b) /\ sp'[b] = n - 1 /\ next'[b] = seen[t]
      /\ home'[c] = b /\ occupied'[c] /\ refcount'[c] = 1
      /\ \A a \in Block \ {b} : /\ capacity'[a] = capacity[a] /\ slot'[a] = slot[a]
                                /\ sp'[a] = sp[a] /\ next'[a] = next[a]
      /\ \A d \in Chunk \ {c} : /\ home'[d] = home[d] /\ occupied'[d] = occupied[d]
                                /\ refcount'[d] = refcount[d]
  BY <1>0, <1>5 DEF TypeOK
<1>8. Others(t)
  BY <1>0, <1>5 DEF TypeOK, Others
<1>9. n \in Nat /\ n # 0
  BY DEF Slot
<1>10. \A u \in Thread \ {t} : pc[u] = "link" => blk[u] # b /\ blk[u] \in Mapped
  BY <1>0, <1>4 DEF PlaceInv, Walks
<1>11. Linked' = Linked /\ Mapped' = Mapped \cup {b}
  <2>1. Mapped' = Mapped \cup {b}
    BY <1>7, <1>9 DEF Mapped
  <2> QED BY <1>0, <1>4, <1>7, <1>8, <2>1 DEF Linked, Others
<1>12. /\ \A u \in Thread \ {t} : \A d \in InHand(u) : d \in Chunk /\ d[1] # b
       /\ \A d \in Chunk : owners[d] # {} => d[1] # b
       /\ \A u \in Thread : Claiming(u) => blk[u] # b
       /\ \A u \in Thread : pc[u] = "pfree" => mem[u][1] # b
  BY <1>4, <1>10, NobodyKnows
<1>13. \A a \in Linked : a \in Block \ {b} /\ capacity'[a] = capacity[a] /\ next'[a] = next[a]
  BY <1>4, <1>7, LinkedIsBlock
<1>14. PlaceInv'
  <2>1. Walks(t)' /\ Holds(t)'
    <3>1. Walks(t)'
      BY <1>4, <1>5, <1>7, <1>11 DEF Walks, Walking, Pushing
    <3>2. Holds(t)'
      BY <1>3, <1>7, <1>9 DEF Holds, Holding, Pushing
    <3> QED BY <3>1, <3>2
  <2>2. ASSUME NEW u \in Thread, u # t PROVE Walks(u)' /\ Holds(u)'
    <3>0. /\ pc'[u] = pc[u] /\ blk'[u] = blk[u] /\ last'[u] = last[u] /\ seen'[u] = seen[u]
          /\ mem'[u] = mem[u] /\ attempt'[u] = attempt[u]
      BY <1>8, <2>2 DEF Others
    <3>1. Walks(u) /\ Holds(u) /\ blk[u] \in Block
      BY <1>0 DEF PlaceInv, TypeOK
    <3>2. pc[u] = "link" => /\ blk[u] \in Mapped' /\ next'[blk[u]] = next[blk[u]]
                            /\ capacity'[blk[u]] = capacity[blk[u]]
      BY <1>7, <1>10, <1>11, <2>2, <3>1
    <3>3. Walks(u)'
      BY <1>11, <1>13, <3>0, <3>1, <3>2, WalksStays
    <3>4. pc[u] = "store" => slot'[blk[u]] = slot[blk[u]]
      BY <1>7, <1>12, <3>1 DEF Claiming
    <3>5. pc[u] \in {"link", "double", "publish"} =>
            /\ home'[mem[u]] = home[mem[u]]
            /\ occupied'[mem[u]] = occupied[mem[u]]
            /\ refcount'[mem[u]] = refcount[mem[u]]
      <4>1. pc[u] \in {"link", "double", "publish"} => mem[u] \in Chunk /\ mem[u][1] # b
        BY <1>0, <1>12, <2>2, InHandIs DEF Holding
      <4> QED BY <1>3, <1>7, <4>1
    <3>6. Holds(u)'
      BY <1>11, <1>13, <3>0, <3>1, <3>2, <3>4, <3>5, HoldsStays
    <3> QED BY <3>3, <3>6
  <2>3. Alive'
    BY <1>0, <1>4, <1>5, <1>11 DEF PlaceInv, Alive
  <2>4. \A d \in Chunk : InUse(d)'
    BY <1>0, <1>5, <1>11, <1>13 DEF PlaceInv, InUse
  <2>5. ASSUME NEW u \in Thread, NEW v \in Thread,
               pc'[u] = "link", pc'[v] = "link", blk'[u] = blk'[v]
        PROVE  u = v
    <3>1. \A w \in Thread \ {t} : pc'[w] = "link" => pc[w] = "link" /\ blk'[w] = blk[w] /\ blk[w] # b
      BY <1>8, <1>10 DEF Others
    <3> QED BY <1>0, <1>7, <2>5, <3>1 DEF PlaceInv
  <2>6. \A a \in Linked' : next'[a] \in Linked'
    BY <1>0, <1>11, <1>13 DEF PlaceInv
  <2>7. \A a \in Block : sp'[a] <= capacity'[a]
    BY <1>0, <1>7, <1>9 DEF PlaceInv
  <2> QED BY <2>1, <2>2, <2>3, <2>4, <2>5, <2>6, <2>7 DEF PlaceInv
<1>15. OneRing'
  <2> SUFFICES ASSUME NEW S \in SUBSET Linked, S # {}, \A a \in S : next'[a] \in S
               PROVE  S = Linked
    BY <1>11 DEF OneRing
  <2>1. \A a \in S : next[a] \in S
    BY <1>13
  <2> QED BY <1>0, <1>4, <2>1 DEF OneRing
<1>16. MaxInv'
  <2>1. ASSUME NEW u \in Thread PROVE ReadsMax(u)'
    <3>1. CASE u = t
      BY <1>0, <1>1, <1>2, <1>5, <1>7, <3>1 DEF ReadsMax
    <3>2. CASE u # t
      <4>1. ReadsMax(u) /\ Walks(u) /\ blk[u] \in Block
        BY <1>0 DEF MaxInv, PlaceInv, TypeOK
      <4>2. pc'[u] = pc[u] /\ blk'[u] = blk[u] /\ readMax'[u] = readMax[u]
        BY <1>8, <3>2 DEF Others
      <4>3. pc[u] = "link" => capacity'[blk[u]] = capacity[blk[u]]
        BY <1>7, <1>10, <3>2, <4>1
      <4> QED BY <1>5, <1>13, <4>1, <4>2, <4>3, ReadsMaxStays
    <3> QED BY <3>1, <3>2
  <2>2. \A u \in Thread : pc[u] = "double" => pc'[u] = "double" /\ blk'[u] = blk[u]
    BY <1>0, <1>8 DEF Others
  <2>3. \A a \in Linked : \/ capacity[a] <= maxCapacity
                          \/ \E u \in Thread : pc'[u] = "double" /\ blk'[u] = a
    BY <1>0, <2>2 DEF MaxInv
  <2>4. \E a \in Linked : capacity[a] = maxCapacity
    BY <1>0, <1>4 DEF MaxInv
  <2> QED BY <1>5, <1>11, <1>13, <2>1, <2>3, <2>4 DEF MaxInv
<1>17. BusyOwned'
  <2>1. \A u \in Thread : /\ Claiming(u)' <=> Claiming(u)
                          /\ Claiming(u) => blk'[u] = blk[u] /\ sp'[blk[u]] = sp[blk[u]]
    BY <1>0, <1>7, <1>8, <1>12 DEF Claiming, Others, TypeOK
  <2> QED BY <1>0, <1>5, <2>1 DEF BusyOwned
<1>18. PoolSafe'
  <2> SUFFICES ASSUME NEW a \in Mapped', NEW i \in 1 .. capacity'[a]
               PROVE  slot'[a][i] \in {a} \X (1 .. capacity'[a])
    BY DEF PoolSafe
  <2>1. CASE a = b
    <3>1. i \in 1 .. n /\ i \in Slot
      BY <1>7, <2>1 DEF Slot
    <3> QED BY <1>7, <2>1, <3>1 DEF FreshSlots
  <2>2. CASE a # b
    BY <1>0, <1>7, <1>11, <2>2, LinkedIsBlock DEF PoolSafe
  <2> QED BY <2>1, <2>2
<1>19. \A u \in Thread : InHand(u)' = IF u = t THEN {c} ELSE InHand(u)
  <2>1. InHand(t)' = {c}
    BY <1>6, <1>7, InHandIsNext DEF Holding
  <2>2. ASSUME NEW u \in Thread, u # t PROVE InHand(u)' = InHand(u)
    <3>1. pc'[u] = pc[u] /\ mem'[u] = mem[u]
      BY <1>8, <2>2 DEF Others
    <3> QED BY <1>0, <1>6, <3>1, InHandIs, InHandIsNext
  <2> QED BY <2>1, <2>2
<1>20. Exclusive'
  <2>1. \A a \in Block \ {b} : Stacked(a)' = Stacked(a) /\ c \notin Stacked(a)
    BY <1>3, <1>7, StackedIsOwn DEF Stacked
  <2>2. \A i \in 1 .. sp'[b] : i \in Slot /\ i # n /\ slot'[b][i] = <<b, i>>
    <3>1. \A i \in 1 .. n - 1 : i \in Slot /\ i # n
      BY <1>9 DEF Slot
    <3> QED BY <1>7, <3>1 DEF FreshSlots
  <2>3. \A d \in Stacked(b)' : d[1] = b /\ d # c
    BY <1>3, <2>2 DEF Stacked
  <2>4. ASSUME NEW u \in Thread, NEW d \in InHand(u)'
        PROVE  /\ owners'[d] = {}
               /\ \A v \in Thread \ {u} : d \notin InHand(v)'
               /\ \A a \in Block : d \notin Stacked(a)'
    <3>1. CASE u = t
      <4>1. d = c /\ owners[c] = {}
        BY <1>3, <1>12, <1>19, <2>4, <3>1
      <4>2. \A v \in Thread \ {u} : c \notin InHand(v)'
        BY <1>3, <1>12, <1>19, <3>1
      <4>3. \A a \in Block : c \notin Stacked(a)'
        BY <2>1, <2>3
      <4> QED BY <1>5, <4>1, <4>2, <4>3
    <3>2. CASE u # t
      <4>1. d \in InHand(u) /\ d[1] # b /\ d # c
        BY <1>3, <1>12, <1>19, <2>4, <3>2
      <4>2. owners[d] = {} /\ \A v \in Thread \ {u} : d \notin InHand(v)'
        BY <1>0, <1>19, <4>1 DEF Exclusive
      <4>3. \A a \in Block : d \notin Stacked(a)'
        BY <1>0, <2>1, <2>3, <4>1 DEF Exclusive
      <4> QED BY <1>5, <4>2, <4>3
    <3> QED BY <3>1, <3>2
  <2>5. \A d \in Chunk : owners'[d] # {} => \A a \in Block : d \notin Stacked(a)'
    BY <1>0, <1>5, <1>12, <2>1, <2>3 DEF Exclusive
  <2>6. \A a \in Block : \A i, j \in 1 .. sp'[a] : slot'[a][i] = slot'[a][j] => i = j
    <3>1. \A i, j \in 1 .. sp'[b] : slot'[b][i] = slot'[b][j] => i = j
      BY <2>2
    <3> QED BY <1>0, <1>7, <3>1 DEF Exclusive
  <2> QED BY <2>4, <2>5, <2>6 DEF Exclusive
<1>21. HeaderTrue'
  <2> SUFFICES ASSUME NEW d \in Chunk
               PROVE  /\ owners'[d] # {} => refcount'[d] = Cardinality(owners'[d])
                      /\ owners'[d] # {} \/ (\E u \in Thread : pc'[u] = "pfree" /\ mem'[u] = d)
                         => occupied'[d] /\ home'[d] = d[1] /\ d[2] <= capacity'[d[1]]
    BY DEF HeaderTrue
  <2>1. \A u \in Thread : pc'[u] = "pfree" /\ mem'[u] = d => pc[u] = "pfree" /\ mem[u] = d
    BY <1>7, <1>8 DEF Others
  <2>2. CASE d[1] = b
    BY <1>5, <1>12, <2>1, <2>2
  <2>3. CASE d[1] # b
    <3>1. d # c /\ d[1] \in Block /\ d[1] # b
      BY <1>3, <2>3, ChunkPair
    <3>2. /\ owners'[d] = owners[d] /\ refcount'[d] = refcount[d] /\ home'[d] = home[d]
          /\ occupied'[d] = occupied[d] /\ capacity'[d[1]] = capacity[d[1]]
      BY <1>5, <1>7, <3>1
    <3> QED BY <1>0, <2>1, <3>2 DEF HeaderTrue
  <2> QED BY <2>2, <2>3
<1> QED BY <1>6, <1>14, <1>15, <1>16, <1>17, <1>18, <1>20, <1>21 DEF IInv

(* The block that could not be linked in is destroyed.                     *)
LEMMA PallocUnlinkKeeps ==
  ASSUME IInv, NEW t \in Thread, PallocUnlink(t)
  PROVE  IInv'
<1> USE DEF headerVars, casVars
<1>0. /\ TypeOK /\ PoolSafe /\ PlaceInv /\ OneRing /\ MaxInv /\ BusyOwned /\ Exclusive
      /\ HeaderTrue /\ Walks(t) /\ Holds(t) /\ ReadsMax(t) /\ pc[t] = "link"
  BY AboutT DEF IInv, PallocUnlink
<1>1. PICK b \in Block : b = blk[t]
  BY <1>0 DEF TypeOK
<1>2. b \notin Linked /\ poolBlock # Gone
  BY <1>0, <1>1, InsideAlive DEF Linked
<1>3. /\ capacity' = [capacity EXCEPT ![b] = 0]
      /\ sp' = [sp EXCEPT ![b] = 0]
      /\ mem' = [mem EXCEPT ![t] = NoChunk]
      /\ pc' = [pc EXCEPT ![t] = "palloc"]
      /\ UNCHANGED <<next, slot, poolBlock, maxCapacity, headerVars, owners, blk, last,
                     busy, casVars>>
  BY <1>1 DEF PallocUnlink, Goto
<1>4. TypeOK'
  <2>1. capacity' \in [Block -> 0 .. MaxCapacity] /\ sp' \in [Block -> 0 .. MaxCapacity]
    BY <1>0, <1>3 DEF TypeOK
  <2> QED BY <1>0, <1>3, <2>1 DEF TypeOK
<1>5. /\ pc'[t] = "palloc" /\ capacity'[b] = 0 /\ sp'[b] = 0 /\ Others(t)
      /\ \A a \in Block \ {b} : capacity'[a] = capacity[a] /\ sp'[a] = sp[a]
  BY <1>0, <1>3 DEF TypeOK, Others
<1>6. \A u \in Thread \ {t} : pc[u] = "link" => blk[u] # b /\ blk[u] \in Mapped
  BY <1>0, <1>1 DEF PlaceInv, Walks
<1>7. Linked' = Linked /\ Mapped' = Mapped \ {b}
  <2>1. Mapped' = Mapped \ {b}
    BY <1>5 DEF Mapped
  <2> QED BY <1>0, <1>1, <1>2, <1>3, <1>5, <2>1 DEF Linked, Others
<1>8. /\ \A u \in Thread \ {t} : \A d \in InHand(u) : d \in Chunk /\ d[1] # b
      /\ \A d \in Chunk : owners[d] # {} => d[1] # b
      /\ \A u \in Thread : Claiming(u) => blk[u] # b
      /\ \A u \in Thread : pc[u] = "pfree" => mem[u][1] # b
  BY <1>2, <1>6, NobodyKnows
<1>9. \A a \in Linked : a \in Block \ {b} /\ capacity'[a] = capacity[a]
  BY <1>2, <1>5, LinkedIsBlock
<1>10. PlaceInv'
  <2>1. Walks(t)' /\ Holds(t)'
    BY <1>5 DEF Walks, Walking, Holds, Holding, Pushing
  <2>2. ASSUME NEW u \in Thread, u # t PROVE Walks(u)' /\ Holds(u)'
    <3>0. /\ pc'[u] = pc[u] /\ blk'[u] = blk[u] /\ last'[u] = last[u] /\ seen'[u] = seen[u]
          /\ mem'[u] = mem[u] /\ attempt'[u] = attempt[u]
      BY <1>5, <2>2 DEF Others
    <3>1. Walks(u) /\ Holds(u) /\ blk[u] \in Block
      BY <1>0 DEF PlaceInv, TypeOK
    <3>2. pc[u] = "link" => /\ blk[u] \in Mapped' /\ next'[blk[u]] = next[blk[u]]
                            /\ capacity'[blk[u]] = capacity[blk[u]]
      BY <1>3, <1>5, <1>6, <1>7, <2>2, <3>1
    <3>3. Walks(u)'
      BY <1>7, <1>9, <3>0, <3>1, <3>2, WalksStays
    <3>4. Holds(u)'
      BY <1>3, <1>7, <1>9, <3>0, <3>1, <3>2, HoldsStays
    <3> QED BY <3>3, <3>4
  <2>3. Alive'
    BY <1>0, <1>2, <1>3, <1>7 DEF PlaceInv, Alive
  <2>4. \A d \in Chunk : InUse(d)'
    BY <1>0, <1>3, <1>7, <1>9 DEF PlaceInv, InUse
  <2>5. \A u, v \in Thread : pc'[u] = "link" /\ pc'[v] = "link" /\ blk'[u] = blk'[v] => u = v
    <3>1. \A w \in Thread : pc'[w] = "link" => pc[w] = "link" /\ blk'[w] = blk[w]
      BY <1>5 DEF Others
    <3> QED BY <1>0, <3>1 DEF PlaceInv
  <2>6. \A a \in Linked' : next'[a] \in Linked'
    BY <1>0, <1>3, <1>7 DEF PlaceInv
  <2>7. \A a \in Block : sp'[a] <= capacity'[a]
    BY <1>0, <1>5 DEF PlaceInv
  <2> QED BY <2>1, <2>2, <2>3, <2>4, <2>5, <2>6, <2>7 DEF PlaceInv
<1>11. OneRing'
  BY <1>0, <1>3, <1>7 DEF OneRing
<1>12. MaxInv'
  <2>1. ASSUME NEW u \in Thread PROVE ReadsMax(u)'
    <3>1. CASE u = t
      BY <1>5, <3>1 DEF ReadsMax
    <3>2. CASE u # t
      <4>1. ReadsMax(u) /\ Walks(u) /\ blk[u] \in Block
        BY <1>0 DEF MaxInv, PlaceInv, TypeOK
      <4>2. pc'[u] = pc[u] /\ blk'[u] = blk[u] /\ readMax'[u] = readMax[u]
        BY <1>5, <3>2 DEF Others
      <4>3. pc[u] = "link" => capacity'[blk[u]] = capacity[blk[u]]
        BY <1>5, <1>6, <3>2, <4>1
      <4> QED BY <1>3, <1>9, <4>1, <4>2, <4>3, ReadsMaxStays
    <3> QED BY <3>1, <3>2
  <2>2. \A u \in Thread : pc[u] = "double" => pc'[u] = "double" /\ blk'[u] = blk[u]
    BY <1>0, <1>5 DEF Others
  <2>3. \A a \in Linked : \/ capacity[a] <= maxCapacity
                          \/ \E u \in Thread : pc'[u] = "double" /\ blk'[u] = a
    BY <1>0, <2>2 DEF MaxInv
  <2>4. \E a \in Linked : capacity[a] = maxCapacity
    BY <1>0, <1>2 DEF MaxInv
  <2> QED BY <1>3, <1>7, <1>9, <2>1, <2>3, <2>4 DEF MaxInv
<1>13. BusyOwned'
  <2>1. \A u \in Thread : /\ Claiming(u)' <=> Claiming(u)
                          /\ Claiming(u) => blk'[u] = blk[u] /\ sp'[blk[u]] = sp[blk[u]]
    BY <1>0, <1>3, <1>5, <1>8 DEF Claiming, Others, TypeOK
  <2> QED BY <1>0, <1>3, <2>1 DEF BusyOwned
<1>14. PoolSafe'
  <2>1. \A a \in Mapped' : a \in Mapped /\ capacity'[a] = capacity[a]
    BY <1>5, <1>7, LinkedIsBlock
  <2> QED BY <1>0, <1>3, <2>1 DEF PoolSafe
<1>15. \A u \in Thread : InHand(u)' = IF u = t THEN {} ELSE InHand(u)
  <2>1. InHand(t)' = {}
    BY <1>4, <1>5, InHandIsNext DEF Holding, Pushing
  <2>2. ASSUME NEW u \in Thread, u # t PROVE InHand(u)' = InHand(u)
    <3>1. pc'[u] = pc[u] /\ mem'[u] = mem[u]
      BY <1>5, <2>2 DEF Others
    <3> QED BY <1>0, <1>4, <3>1, InHandIs, InHandIsNext
  <2> QED BY <2>1, <2>2
<1>16. Exclusive'
  <2>1. \A a \in Block : \A i \in 1 .. sp'[a] : i \in 1 .. sp[a]
    BY <1>5
  <2>2. \A a \in Block : Stacked(a)' \subseteq Stacked(a)
    BY <1>3, <2>1 DEF Stacked
  <2>3. \A a \in Block : \A i, j \in 1 .. sp'[a] : slot'[a][i] = slot'[a][j] => i = j
    BY <1>0, <1>3, <2>1 DEF Exclusive
  <2> QED BY <1>0, <1>3, <1>15, <2>2, <2>3 DEF Exclusive
<1>17. HeaderTrue'
  <2> SUFFICES ASSUME NEW d \in Chunk
               PROVE  /\ owners[d] # {} => refcount[d] = Cardinality(owners[d])
                      /\ owners[d] # {} \/ (\E u \in Thread : pc'[u] = "pfree" /\ mem'[u] = d)
                         => occupied[d] /\ home[d] = d[1] /\ d[2] <= capacity'[d[1]]
    BY <1>3 DEF HeaderTrue
  <2>1. \A u \in Thread : pc'[u] = "pfree" /\ mem'[u] = d => pc[u] = "pfree" /\ mem[u] = d
    BY <1>5 DEF Others
  <2>2. CASE d[1] = b
    BY <1>8, <2>1, <2>2
  <2>3. CASE d[1] # b
    <3>1. capacity'[d[1]] = capacity[d[1]]
      BY <1>5, <2>3, ChunkPair
    <3> QED BY <1>0, <2>1, <3>1 DEF HeaderTrue
  <2> QED BY <2>2, <2>3
<1> QED BY <1>4, <1>10, <1>11, <1>12, <1>13, <1>14, <1>16, <1>17 DEF IInv

-----------------------------------------------------------------------------
(* The owner of the pool: clear and destroy.                               *)

LEMMA RingIsLinked ==
  ASSUME IInv, poolBlock # Gone
  PROVE  Ring = Linked
<1>1. /\ poolBlock \in Linked /\ OneRing /\ Linked \in SUBSET Block
      /\ \A b \in Linked : next[b] \in Linked
  BY LinkedIsBlock DEF IInv, PlaceInv, Alive
<1>2. Ring \subseteq Linked
  BY <1>1 DEF Ring
<1>3. ASSUME NEW b \in Linked, NEW S \in SUBSET Block,
             poolBlock \in S, \A a \in S : next[a] \in S
      PROVE  b \in S
  <2> DEFINE R == S \cap Linked
  <2>1. R \in SUBSET Linked /\ R # {} /\ \A a \in R : next[a] \in R
    BY <1>1, <1>3
  <2>2. R = Linked
    BY <1>1, <1>3, <2>1 DEF OneRing
  <2> QED BY <2>2
<1> QED BY <1>1, <1>2, <1>3 DEF Ring

LEMMA IdleIsLinked ==
  ASSUME AllIdle
  PROVE  Linked = Mapped
BY DEF AllIdle, Linked

(* While every thread is idle, nothing is said of the threads' locals but  *)
(* that they are at rest.                                                  *)
LEMMA AtRest ==
  ASSUME IInv, AllIdle, UNCHANGED <<pc, localVars, casVars>>
  PROVE  /\ \A t \in Thread : Walks(t)' /\ Holds(t)' /\ ReadsMax(t)'
         /\ \A t \in Thread : ~Claiming(t) /\ ~Claiming(t)'
         /\ AllIdle'
<1> USE DEF AllIdle, localVars, casVars
<1>1. ASSUME NEW t \in Thread PROVE Walks(t)' /\ Holds(t)' /\ ReadsMax(t)'
  <2>1. Walks(t) /\ pc'[t] = "idle"
    BY AboutT
  <2> QED BY <2>1 DEF Walks, Holds, ReadsMax, Walking, Holding, Pushing
<1>2. \A t \in Thread : ~Claiming(t) /\ ~Claiming(t)'
  BY DEF Claiming
<1> QED BY <1>1, <1>2

LEMMA NothingHeldAtRest ==
  ASSUME AllIdle
  PROVE  \A t \in Thread : InHand(t) = {}
BY DEF AllIdle, InHand

LEMMA PoolClearKeeps ==
  ASSUME IInv, PoolClear, UNCHANGED <<busy, casVars>>
  PROVE  IInv'
<1> USE DEF headerVars
<1>0. /\ TypeOK /\ PoolSafe /\ PlaceInv /\ OneRing /\ MaxInv /\ BusyOwned /\ Exclusive
      /\ HeaderTrue /\ AllIdle /\ poolBlock # Gone
  BY DEF IInv, PoolClear
<1>1. Ring = Mapped /\ Linked = Mapped
  BY <1>0, RingIsLinked, IdleIsLinked
<1>2. /\ slot' = [b \in Block |-> IF b \in Mapped THEN FreshSlots(b) ELSE slot[b]]
      /\ sp' = [b \in Block |-> IF b \in Mapped THEN capacity[b] ELSE sp[b]]
      /\ owners' = [c \in Chunk |-> {}]
      /\ UNCHANGED <<capacity, next, poolBlock, maxCapacity, headerVars, pc, localVars,
                     busy, casVars>>
  BY <1>1 DEF PoolClear, FullStacks
<1>3. /\ \A t \in Thread : Walks(t)' /\ Holds(t)' /\ ReadsMax(t)'
      /\ \A t \in Thread : ~Claiming(t) /\ ~Claiming(t)'
      /\ AllIdle'
  BY <1>0, <1>2, AtRest
<1>4. Linked' = Linked /\ Mapped' = Mapped
  BY <1>2, LinkedStays DEF localVars
<1>5. TypeOK'
  <2>1. \A b \in Block : FreshSlots(b) \in [Slot -> Chunk]
    BY ChunkPair DEF FreshSlots
  <2>2. slot' \in [Block -> [Slot -> Chunk]]
    BY <1>0, <1>2, <2>1 DEF TypeOK
  <2>3. sp' \in [Block -> 0 .. MaxCapacity]
    BY <1>0, <1>2 DEF TypeOK
  <2> QED BY <1>0, <1>2, <2>2, <2>3 DEF TypeOK, localVars, casVars
<1>6. PoolSafe'
  <2> SUFFICES ASSUME NEW b \in Mapped, NEW i \in 1 .. capacity[b]
               PROVE  slot'[b][i] \in {b} \X (1 .. capacity[b])
    BY <1>2, <1>4 DEF PoolSafe
  <2>1. b \in Block /\ i \in Slot
    BY <1>0, SlotInArena DEF Mapped
  <2> QED BY <1>2, <2>1 DEF FreshSlots
<1>7. PlaceInv'
  <2>1. Alive' /\ \A c \in Chunk : InUse(c)'
    BY <1>0, <1>2, <1>4 DEF PlaceInv, Alive, InUse
  <2>2. \A t, u \in Thread : pc'[t] = "link" /\ pc'[u] = "link" /\ blk'[t] = blk'[u] => t = u
    BY <1>3 DEF AllIdle
  <2>3. \A b \in Block : sp'[b] <= capacity'[b]
    <3>1. \A b \in Block : sp[b] <= capacity[b] /\ capacity[b] <= capacity[b]
      BY <1>0 DEF PlaceInv, TypeOK
    <3> QED BY <1>2, <3>1
  <2>4. \A b \in Linked' : next'[b] \in Linked'
    BY <1>0, <1>2, <1>4 DEF PlaceInv
  <2> QED BY <1>3, <2>1, <2>2, <2>3, <2>4 DEF PlaceInv
<1>8. OneRing'
  BY <1>0, <1>2, <1>4 DEF OneRing
<1>9. MaxInv'
  <2>1. \A b \in Linked : capacity[b] <= maxCapacity
    BY <1>0 DEF MaxInv, AllIdle
  <2>2. \E b \in Linked : capacity[b] = maxCapacity
    BY <1>0 DEF MaxInv
  <2> QED BY <1>2, <1>3, <1>4, <2>1, <2>2 DEF MaxInv
<1>10. BusyOwned'
  BY <1>0, <1>2, <1>3 DEF BusyOwned
<1>11. Exclusive'
  <2>1. \A t \in Thread : InHand(t)' = {}
    BY <1>3 DEF AllIdle, InHand
  <2>2. ASSUME NEW b \in Block, NEW i \in 1 .. sp'[b], NEW j \in 1 .. sp'[b],
               slot'[b][i] = slot'[b][j]
        PROVE  i = j
    <3>1. CASE b \in Mapped
      <4>1. i \in Slot /\ j \in Slot
        BY <1>0, <1>2, <3>1, SlotInArena
      <4> QED BY <1>2, <2>2, <3>1, <4>1 DEF FreshSlots
    <3>2. CASE b \notin Mapped
      BY <1>0, <1>2, <2>2, <3>2 DEF Exclusive
    <3> QED BY <3>1, <3>2
  <2> QED BY <1>2, <2>1, <2>2 DEF Exclusive
<1>12. HeaderTrue'
  <2>1. \A c \in Chunk : owners'[c] = {}
    BY <1>2
  <2>2. \A t \in Thread : pc'[t] # "pfree"
    BY <1>3 DEF AllIdle
  <2> QED BY <2>1, <2>2 DEF HeaderTrue
<1> QED BY <1>5, <1>6, <1>7, <1>8, <1>9, <1>10, <1>11, <1>12 DEF IInv

LEMMA PoolDestroyKeeps ==
  ASSUME IInv, PoolDestroy, UNCHANGED <<busy, casVars>>
  PROVE  IInv'
<1> USE DEF headerVars
<1>0. /\ TypeOK /\ PoolSafe /\ PlaceInv /\ OneRing /\ MaxInv /\ BusyOwned /\ Exclusive
      /\ HeaderTrue /\ AllIdle /\ poolBlock # Gone
  BY DEF IInv, PoolDestroy
<1>1. Ring = Mapped /\ Linked = Mapped
  BY <1>0, RingIsLinked, IdleIsLinked
<1>2. /\ capacity' = [b \in Block |-> IF b \in Ring THEN 0 ELSE capacity[b]]
      /\ sp' = [b \in Block |-> IF b \in Ring THEN 0 ELSE sp[b]]
      /\ poolBlock' = Gone
      /\ owners' = [c \in Chunk |-> {}]
      /\ UNCHANGED <<next, slot, maxCapacity, headerVars, pc, localVars, busy, casVars>>
  BY DEF PoolDestroy
<1>3. /\ \A t \in Thread : Walks(t)' /\ Holds(t)' /\ ReadsMax(t)'
      /\ \A t \in Thread : ~Claiming(t) /\ ~Claiming(t)'
      /\ AllIdle'
  BY <1>0, <1>2, AtRest
<1>4. \A b \in Block : capacity'[b] = 0 /\ sp'[b] = 0
  <2>1. \A b \in Block : b \notin Mapped => capacity[b] = 0 /\ sp[b] = 0
    BY <1>0 DEF Mapped, PlaceInv, TypeOK
  <2> QED BY <1>1, <1>2, <2>1
<1>5. Mapped' = {} /\ Linked' = {}
  BY <1>4 DEF Linked, Mapped
<1>6. TypeOK'
  <2>1. capacity' \in [Block -> 0 .. MaxCapacity] /\ sp' \in [Block -> 0 .. MaxCapacity]
    BY <1>0, <1>2 DEF TypeOK
  <2> QED BY <1>0, <1>2, <2>1 DEF TypeOK, localVars, casVars
<1>7. PoolSafe'
  BY <1>5 DEF PoolSafe
<1>8. PlaceInv'
  <2>1. Alive' /\ \A c \in Chunk : InUse(c)'
    BY <1>2, <1>3, <1>5 DEF Alive, InUse
  <2>2. \A t, u \in Thread : pc'[t] = "link" /\ pc'[u] = "link" /\ blk'[t] = blk'[u] => t = u
    BY <1>3 DEF AllIdle
  <2>3. \A b \in Block : sp'[b] <= capacity'[b]
    BY <1>4
  <2> QED BY <1>3, <1>5, <2>1, <2>2, <2>3 DEF PlaceInv
<1>9. OneRing' /\ MaxInv'
  BY <1>2, <1>3, <1>5 DEF OneRing, MaxInv
<1>10. BusyOwned'
  BY <1>0, <1>2, <1>3 DEF BusyOwned
<1>11. Exclusive'
  <2>1. \A t \in Thread : InHand(t)' = {}
    BY <1>3 DEF AllIdle, InHand
  <2>2. \A b \in Block : 1 .. sp'[b] = {}
    BY <1>4
  <2> QED BY <1>2, <2>1, <2>2 DEF Exclusive
<1>12. HeaderTrue'
  <2>1. \A c \in Chunk : owners'[c] = {}
    BY <1>2
  <2>2. \A t \in Thread : pc'[t] # "pfree"
    BY <1>3 DEF AllIdle
  <2> QED BY <2>1, <2>2 DEF HeaderTrue
<1> QED BY <1>6, <1>7, <1>8, <1>9, <1>10, <1>11, <1>12 DEF IInv

LEMMA StutterKeeps == IInv /\ UNCHANGED vars => IInv'
<1> SUFFICES ASSUME IInv, UNCHANGED vars PROVE IInv'
  OBVIOUS
<1> USE DEF vars, slabVars, poolVars, headerVars, localVars, casVars
<1>0. /\ TypeOK /\ PoolSafe /\ PlaceInv /\ OneRing /\ MaxInv /\ BusyOwned /\ Exclusive
      /\ HeaderTrue
  BY DEF IInv
<1>1. Linked' = Linked /\ Mapped' = Mapped
  BY LinkedStays
<1>2. TypeOK' /\ PoolSafe' /\ OneRing'
  BY <1>0, <1>1 DEF TypeOK, PoolSafe, OneRing
<1>3. \A t \in Thread : Walks(t)' /\ Holds(t)' /\ ReadsMax(t)' /\ (Claiming(t)' <=> Claiming(t))
  <2>1. \A t \in Thread : Walks(t)' /\ Holds(t)'
    BY <1>0, <1>1 DEF PlaceInv, Walks, Holds
  <2>2. \A t \in Thread : ReadsMax(t)' /\ (Claiming(t)' <=> Claiming(t))
    BY <1>0 DEF MaxInv, ReadsMax, Claiming
  <2> QED BY <2>1, <2>2
<1>4. Alive' /\ \A c \in Chunk : InUse(c)'
  BY <1>0, <1>1 DEF PlaceInv, Alive, AllIdle, InUse
<1>5. PlaceInv' /\ MaxInv'
  BY <1>0, <1>1, <1>3, <1>4 DEF PlaceInv, MaxInv
<1>6. BusyOwned' /\ HeaderTrue'
  BY <1>0, <1>3 DEF BusyOwned, HeaderTrue
<1>7. Exclusive'
  BY <1>0 DEF Exclusive, Stacked, InHand
<1> QED BY <1>2, <1>5, <1>6, <1>7 DEF IInv

LEMMA NextKeeps == IInv /\ [Next]_vars => IInv'
<1> SUFFICES ASSUME IInv, [Next]_vars PROVE IInv'
  OBVIOUS
<1>1. ASSUME NEW t \in Thread, Client(t) PROVE IInv'
  <2>1. CASE CallPalloc(t) /\ UNCHANGED <<busy, casVars>>
    BY <2>1, CallPallocKeeps
  <2>2. CASE \E c \in Chunk : CallPfree(t, c) /\ UNCHANGED <<busy, casVars>>
    BY <2>2, CallPfreeKeeps
  <2>3. CASE \E u \in Thread, c \in Chunk : SlabRef(t, u, c) /\ UNCHANGED <<busy, casVars>>
    BY <2>3, SlabRefKeeps
  <2>4. CASE \E c \in Chunk : SlabUnref(t, c) /\ UNCHANGED <<busy, casVars>>
    BY <2>4, SlabUnrefKeeps
  <2> QED BY <1>1, <2>1, <2>2, <2>3, <2>4 DEF Client
<1>2. ASSUME NEW t \in Thread, PallocStep(t) PROVE IInv'
  <2>1. CASE PallocStart(t) \/ PallocRead(t) \/ PallocTake(t) \/ PallocPop(t) \/ PallocHeader(t)
    BY <2>1, PallocStartKeeps, PallocReadKeeps, ClaimKeeps, PallocPopKeeps, HandOutKeeps
  <2>2. CASE PallocNext(t) \/ PallocWalk(t) \/ PallocReadMax(t) \/ PallocFail(t)
    BY <2>2, PallocNextKeeps, PallocWalkKeeps, PallocReadMaxKeeps, PallocFailKeeps
  <2>3. CASE \E b \in Block : PallocCreate(t, b)
    BY <2>3, PallocCreateKeeps
  <2>4. CASE PallocLink(t) \/ PallocUnlink(t) \/ PallocDouble(t) \/ PallocPublish(t)
    BY <2>4, PallocLinkKeeps, PallocUnlinkKeeps, PallocDoubleKeeps, HandOutKeeps
  <2> QED BY <1>2, <2>1, <2>2, <2>3, <2>4 DEF PallocStep
<1>3. ASSUME NEW t \in Thread, PfreeStep(t) PROVE IInv'
  BY <1>3, PfreeStartKeeps, PfreePeekKeeps, PfreeCompareKeeps, ClaimKeeps,
     PfreeWriteKeeps, PfreeStoreKeeps DEF PfreeStep
<1>4. CASE Owner
  <2>1. CASE Finished /\ UNCHANGED <<busy, casVars>>
    BY <2>1, StutterKeeps DEF Finished, vars
  <2> QED BY <1>4, <2>1, PoolClearKeeps, PoolDestroyKeeps DEF Owner
<1>5. CASE UNCHANGED vars
  BY <1>5, StutterKeeps
<1> QED BY <1>1, <1>2, <1>3, <1>4, <1>5 DEF Next, Step

-----------------------------------------------------------------------------
(* The theorems.                                                           *)

(* In every reachable state the ring, the stacks, the headers and the      *)
(* locals of every thread are as IInv says, whatever the interleaving of   *)
(* their reads and compare-and-swaps.                                      *)
THEOREM Invariance == Spec => []IInv
<1>1. Init => IInv
  BY InitIInv
<1>2. IInv /\ [Next]_vars => IInv'
  BY NextKeeps
<1> QED BY <1>1, <1>2, PTL DEF Spec

(* Every variable keeps its type, the maximum never exceeds what malloc    *)
(* can give.                                                               *)
THEOREM TypeCorrect == Spec => []TypeOK
<1>1. IInv => TypeOK
  BY DEF IInv
<1> QED BY <1>1, Invariance, PTL

(* A stack that is claimed (frl_slab_pool.c:82 and :142) has one owner,    *)
(* which alone knows its height.                                           *)
THEOREM ClaimsHaveOneOwner == Spec => []BusyOwned
<1>1. IInv => BusyOwned
  BY DEF IInv
<1> QED BY <1>1, Invariance, PTL

(* frl_slab_pfree neither reads nor writes past the end of usage_stack,    *)
(* and the entries of a usage stack point into its own arena.              *)
THEOREM StacksStayInArena == Spec => [](PushInBounds /\ PoolSafe)
<1>1. IInv => PushInBounds /\ PoolSafe
  <2> SUFFICES ASSUME IInv,
                      NEW t \in Thread, pc[t] \in {"compare", "claim", "write", "store"}
               PROVE  attempt[t] < capacity[blk[t]]
    BY DEF IInv, PushInBounds
  <2> QED BY AboutT DEF Holds, Pushing
<1> QED BY <1>1, Invariance, PTL

(* No chunk is given out twice: frl_slab_palloc never returns memory that  *)
(* a client still uses or that another thread is freeing.                  *)
THEOREM NoDoubleUse == Spec => []Exclusive
<1>1. IInv => Exclusive
  BY DEF IInv
<1> QED BY <1>1, Invariance, PTL

(* The header in front of a chunk in use counts its users and names the    *)
(* block that frl_slab_pfree pushes it back on.                            *)
THEOREM HeadersTrue == Spec => []HeaderTrue
<1>1. IInv => HeaderTrue
  BY DEF IInv
<1> QED BY <1>1, Invariance, PTL

(* frl_slab_palloc destroys the block it could not link in only while no   *)
(* other thread and no link knows it.                                      *)
THEOREM DestroysOnlyPrivate == Spec => []PrivateUntilLinked
<1>1. IInv => PrivateUntilLinked
  <2> SUFFICES ASSUME IInv, NEW t \in Thread, pc[t] = "link"
               PROVE  /\ blk[t] \notin Ring
                      /\ \A u \in Thread \ {t} :
                           blk[t] \in {blk[u], last[u], seen[u]} => pc[u] \in {"idle", "palloc"}
    BY DEF PrivateUntilLinked
  <2>1. poolBlock # Gone /\ 1 \in Linked /\ blk[t] \notin Linked
    BY InsideAlive DEF Linked
  <2>2. blk[t] \notin Ring
    BY <2>1, RingIsLinked
  <2>3. ASSUME NEW u \in Thread \ {t}, pc[u] \notin {"idle", "palloc"}
        PROVE  blk[t] \notin {blk[u], last[u], seen[u]}
    <3>0. Walks(u) /\ Holds(u) /\ TypeOK
      BY AboutT
    <3>1. CASE pc[u] = "link"
      <4>1. blk[u] # blk[t]
        BY <3>1 DEF IInv, PlaceInv
      <4> QED BY <2>1, <3>0, <3>1, <4>1 DEF Walks
    <3>2. CASE pc[u] \in Walking
      BY <2>1, <3>0, <3>2 DEF Walks
    <3>3. CASE pc[u] \in Pushing
      <4>1. blk[u] \in Linked
        BY <3>3, StandsOnLinked
      <4> QED BY <2>1, <3>0, <3>3, <4>1 DEF Walks
    <3>4. CASE pc[u] = "pfree"
      BY <2>1, <3>0, <3>4 DEF Walks
    <3> QED BY <2>3, <3>0, <3>1, <3>2, <3>3, <3>4 DEF TypeOK, Walking, Pushing
  <2> QED BY <2>2, <2>3
<1> QED BY <1>1, Invariance, PTL

(* Walking next from pool->block meets every block that has been linked    *)
(* in, so that frl_slab_pool_clear and _destroy reach them all.            *)
THEOREM RingIsWhole == Spec => []RingCovers
<1>1. IInv => RingCovers
  <2> SUFFICES ASSUME IInv PROVE RingCovers
    OBVIOUS
  <2>1. CASE poolBlock = Gone
    BY <2>1 DEF RingCovers, IInv, PlaceInv, Alive
  <2>2. CASE poolBlock # Gone
    <3>1. Ring = Linked
      BY <2>2, RingIsLinked
    <3>2. Linked = Mapped \ {blk[t] : t \in {u \in Thread : pc[u] = "link"}}
      BY DEF Linked
    <3> QED BY <2>2, <3>1, <3>2 DEF RingCovers
  <2> QED BY <2>1, <2>2
<1> QED BY <1>1, Invariance, PTL

(* The compare-and-swap that doubles max_capacity loses no doubling: while *)
(* nobody is inside the pool it is the largest capacity.                   *)
THEOREM LargestIsTracked == Spec => []MaxCapacityTracks
<1>1. IInv => MaxCapacityTracks
  <2> SUFFICES ASSUME IInv, AllIdle, poolBlock # Gone
               PROVE  /\ \A b \in Mapped : capacity[b] <= maxCapacity
                      /\ \E b \in Mapped : capacity[b] = maxCapacity
    BY DEF MaxCapacityTracks
  <2>1. Linked = Mapped
    BY IdleIsLinked
  <2> QED BY <2>1 DEF IInv, MaxInv, AllIdle
<1> QED BY <1>1, Invariance, PTL

-----------------------------------------------------------------------------
(* No chunk is lost.                                                       *)

(* A chunk of an allocated block is somewhere.                             *)
Placed(c) ==
  \/ owners[c] # {}
  \/ \E t \in Thread : c \in InHand(t)
  \/ c \in Stacked(c[1])

LEMMA ConservedIs ==
  TypeOK => (Conserved <=> \A c \in Chunk : c[2] <= capacity[c[1]] => Placed(c))
<1> SUFFICES ASSUME TypeOK
             PROVE  Conserved <=> \A c \in Chunk : c[2] <= capacity[c[1]] => Placed(c)
  OBVIOUS
<1>1. ASSUME Conserved, NEW c \in Chunk, c[2] <= capacity[c[1]]
      PROVE  Placed(c)
  <2>1. c[1] \in Block /\ c[2] \in Slot /\ c = <<c[1], c[2]>>
    BY ChunkPair
  <2>2. capacity[c[1]] \in Nat
    BY <2>1 DEF TypeOK
  <2>3. c[1] \in Mapped /\ c[2] \in 1 .. capacity[c[1]]
    BY <1>1, <2>1, <2>2 DEF Mapped, Slot
  <2> QED BY <1>1, <2>1, <2>3 DEF Conserved, Placed
<1>2. ASSUME \A c \in Chunk : c[2] <= capacity[c[1]] => Placed(c),
             NEW b \in Mapped, NEW i \in 1 .. capacity[b]
      PROVE  Placed(<<b, i>>)
  <2>1. b \in Block /\ i \in Slot /\ i <= capacity[b]
    BY DEF Mapped, TypeOK, Slot
  <2>2. <<b, i>> \in Chunk /\ <<b, i>>[1] = b /\ <<b, i>>[2] = i
    BY <2>1, ChunkPair
  <2> QED BY <1>2, <2>1, <2>2
<1>3. Conserved <=> \A b \in Mapped : \A i \in 1 .. capacity[b] : Placed(<<b, i>>)
  <2>1. \A b \in Mapped : \A i \in 1 .. capacity[b] : <<b, i>>[1] = b
    OBVIOUS
  <2> QED BY <2>1 DEF Conserved, Placed
<1> QED BY <1>1, <1>2, <1>3

LEMMA ConservedIsNext ==
  TypeOK' => (Conserved' <=> \A c \in Chunk : c[2] <= capacity'[c[1]] => Placed(c)')
<1>1. (TypeOK => (Conserved <=> \A c \in Chunk : c[2] <= capacity[c[1]] => Placed(c)))'
  BY ConservedIs, PTL
<1> QED BY <1>1

(* Steps of t that take no chunk out of its place.                         *)
LEMMA StaysPlaced ==
  ASSUME IInv, IInv', Conserved, NEW t \in Thread, UNCHANGED capacity,
         \A u \in Thread \ {t} : pc'[u] = pc[u] /\ mem'[u] = mem[u],
         NEW K, \A c \in K : c \in Chunk => Placed(c)',
         \A c \in Chunk \ K : owners[c] # {} => owners'[c] # {},
         \A c \in InHand(t) : c \notin K => c \in InHand(t)',
         \A b \in Block : \A c \in Stacked(b) : c \notin K => c \in Stacked(b)'
  PROVE  Conserved'
<1>1. TypeOK /\ TypeOK'
  BY DEF IInv
<1>2. ASSUME NEW u \in Thread, u # t PROVE InHand(u)' = InHand(u)
  BY <1>1, <1>2, InHandIs, InHandIsNext
<1>3. ASSUME NEW c \in Chunk, c[2] <= capacity'[c[1]]
      PROVE  Placed(c)'
  <2>1. CASE c \in K
    BY <2>1
  <2>2. CASE c \notin K
    <3>1. Placed(c) /\ c[1] \in Block
      BY <1>1, <1>3, ConservedIs, ChunkPair
    <3> QED BY <1>2, <2>2, <3>1 DEF Placed
  <2> QED BY <2>1, <2>2
<1> QED BY <1>1, <1>3, ConservedIsNext

(* ... because they leave the stacks, the users and the hands as they are. *)
LEMMA QuietConserves ==
  ASSUME IInv, IInv', Conserved, NEW t \in Thread, UNCHANGED <<capacity, slot, sp>>,
         \A u \in Thread \ {t} : pc'[u] = pc[u] /\ mem'[u] = mem[u],
         \A c \in Chunk : owners[c] # {} => owners'[c] # {},
         pc[t] \in Holding => pc'[t] \in Holding /\ mem'[t] = mem[t]
  PROVE  Conserved'
<1>0. PICK K : K = {}
  OBVIOUS
<1>1. TypeOK /\ TypeOK'
  BY DEF IInv
<1>2. \A c \in InHand(t) : c \notin K => c \in InHand(t)'
  BY <1>1, InHandIs, InHandIsNext
<1>3. \A b \in Block : \A c \in Stacked(b) : c \notin K => c \in Stacked(b)'
  BY DEF Stacked
<1>4. \A c \in K : c \in Chunk => Placed(c)'
  BY <1>0
<1>5. \A c \in Chunk \ K : owners[c] # {} => owners'[c] # {}
  OBVIOUS
<1> QED BY <1>2, <1>3, <1>4, <1>5, StaysPlaced

LEMMA PallocQuiet ==
  ASSUME IInv, IInv', Conserved, NEW t \in Thread,
         \/ PallocStart(t) \/ PallocRead(t) \/ PallocTake(t) \/ PallocNext(t)
         \/ PallocWalk(t) \/ PallocReadMax(t) \/ PallocFail(t)
  PROVE  Conserved'
<1>1. UNCHANGED <<capacity, slot, sp, owners>> /\ pc[t] \notin Holding
  BY DEF PallocStart, PallocRead, PallocTake, PallocNext, PallocWalk, PallocReadMax,
         PallocFail, poolVars, Holding, Pushing
<1>2. \A u \in Thread \ {t} : pc'[u] = pc[u] /\ mem'[u] = mem[u]
  <2>1. TypeOK
    BY DEF IInv
  <2>2. CASE PallocFail(t)
    BY <2>1, <2>2 DEF PallocFail, ReturnFree, Return, TypeOK
  <2>3. CASE ~PallocFail(t)
    <3>1. mem' = mem /\ \E where : Goto(t, where)
      BY <2>3 DEF PallocStart, PallocRead, PallocTake, PallocNext, PallocWalk,
             PallocReadMax, localVars
    <3> QED BY <2>1, <3>1 DEF Goto, TypeOK
  <2> QED BY <2>2, <2>3
<1> QED BY <1>1, <1>2, QuietConserves

LEMMA BusyHandsConserve ==
  ASSUME IInv, IInv', Conserved, NEW t \in Thread,
         \/ PallocLink(t) \/ PallocDouble(t)
         \/ PfreeStart(t) \/ PfreePeek(t) \/ PfreeCompare(t) \/ PfreeClaim(t)
  PROVE  Conserved'
<1>0. TypeOK
  BY DEF IInv
<1>1. UNCHANGED <<capacity, slot, sp, owners, mem>>
  BY DEF PallocLink, PallocDouble, PfreeStart, PfreePeek, PfreeCompare, PfreeClaim,
         poolVars, localVars
<1>2. /\ \A u \in Thread \ {t} : pc'[u] = pc[u]
      /\ pc'[t] \in {"double", "publish", "peek", "compare", "claim", "write"}
  <2>1. \E where \in {"double", "publish", "peek", "compare", "claim", "write"} : Goto(t, where)
    <3>1. CASE PallocLink(t) \/ PallocDouble(t)
      BY <3>1 DEF PallocLink, PallocDouble
    <3>2. CASE PfreeStart(t) \/ PfreePeek(t) \/ PfreeCompare(t)
      BY <3>2 DEF PfreeStart, PfreePeek, PfreeCompare
    <3>3. CASE PfreeClaim(t)
      BY <3>3 DEF PfreeClaim
    <3> QED BY <3>1, <3>2, <3>3
  <2> QED BY <1>0, <2>1 DEF Goto, TypeOK
<1>3. pc'[t] \in Holding
  BY <1>2 DEF Holding, Pushing
<1> QED BY <1>1, <1>2, <1>3, QuietConserves

(* The popped chunk goes from the stack into the hands.                    *)
LEMMA PallocPopConserves ==
  ASSUME IInv, IInv', Conserved, NEW t \in Thread, PallocPop(t)
  PROVE  Conserved'
<1>0. TypeOK /\ TypeOK' /\ BusyOwned /\ Walks(t)
  BY AboutT DEF IInv
<1>1. PICK b \in Block : b = blk[t]
  BY <1>0 DEF TypeOK
<1>2. PICK n \in Nat : n = attempt[t] /\ n = sp[b]
  BY <1>0, <1>1 DEF PallocPop, BusyOwned, Claiming, TypeOK
<1>3. PICK c : c = slot[b][n]
  OBVIOUS
<1>4. /\ pc'[t] = "header" /\ mem'[t] = c /\ sp'[b] = n - 1
      /\ (\A a \in Block \ {b} : sp'[a] = sp[a]) /\ UNCHANGED <<capacity, slot, owners>>
      /\ \A u \in Thread \ {t} : pc'[u] = pc[u] /\ mem'[u] = mem[u]
  BY <1>0, <1>1, <1>2, <1>3 DEF PallocPop, Goto, TypeOK
<1>5. c \in InHand(t)'
  BY <1>0, <1>4, InHandIsNext DEF Holding
<1>6. InHand(t) = {}
  BY <1>0, InHandIs DEF PallocPop, Holding, Pushing
<1>7. ASSUME NEW a \in Block, NEW d \in Stacked(a), d # c
      PROVE  d \in Stacked(a)'
  <2>1. PICK i \in 1 .. sp[a] : d = slot[a][i]
    BY DEF Stacked
  <2>2. i \in 1 .. sp'[a]
    BY <1>2, <1>3, <1>4, <1>7, <2>1
  <2> QED BY <1>4, <2>1, <2>2 DEF Stacked
<1>8. PICK K : K = {c}
  OBVIOUS
<1>9. \A d \in K : d \in Chunk => Placed(d)'
  BY <1>5, <1>8 DEF Placed
<1>10. /\ \A d \in Chunk \ K : owners[d] # {} => owners'[d] # {}
       /\ \A d \in InHand(t) : d \notin K => d \in InHand(t)'
       /\ \A a \in Block : \A d \in Stacked(a) : d \notin K => d \in Stacked(a)'
  BY <1>4, <1>6, <1>7, <1>8
<1> QED BY <1>4, <1>9, <1>10, StaysPlaced

(* A chunk handed out has a user.                                          *)
LEMMA HandOutConserves ==
  ASSUME IInv, IInv', Conserved, NEW t \in Thread, PallocHeader(t) \/ PallocPublish(t)
  PROVE  Conserved'
<1>0. TypeOK /\ Holds(t)
  BY AboutT DEF IInv
<1>1. PICK c \in Chunk : c = mem[t]
  BY <1>0 DEF PallocHeader, PallocPublish, Holds, Holding
<1>2. /\ owners' = [owners EXCEPT ![c] = {t}] /\ UNCHANGED <<capacity, slot, sp>>
      /\ \A u \in Thread \ {t} : pc'[u] = pc[u] /\ mem'[u] = mem[u]
  BY <1>0, <1>1 DEF PallocHeader, PallocPublish, ReturnFree, Return, TypeOK
<1>3. owners'[c] # {} /\ \A d \in Chunk \ {c} : owners'[d] = owners[d]
  BY <1>0, <1>2 DEF TypeOK
<1>4. PICK K : K = {c}
  OBVIOUS
<1>5. \A d \in K : d \in Chunk => Placed(d)'
  BY <1>3, <1>4 DEF Placed
<1>6. \A d \in InHand(t) : d \notin K => d \in InHand(t)'
  BY <1>0, <1>1, <1>4, InHandIs
<1>7. \A b \in Block : \A d \in Stacked(b) : d \notin K => d \in Stacked(b)'
  BY <1>2 DEF Stacked
<1>8. \A d \in Chunk \ K : owners[d] # {} => owners'[d] # {}
  BY <1>3, <1>4
<1> QED BY <1>2, <1>5, <1>6, <1>7, <1>8, StaysPlaced

(* The write above the stack touches no entry of it.                       *)
LEMMA PfreeWriteConserves ==
  ASSUME IInv, IInv', Conserved, NEW t \in Thread, PfreeWrite(t)
  PROVE  Conserved'
<1>0. TypeOK /\ TypeOK' /\ pc[t] = "write"
  BY DEF IInv, PfreeWrite
<1>1. PICK b \in Block : b = blk[t]
  BY <1>0 DEF TypeOK
<1>2. PICK n \in Nat : n = attempt[t] /\ n = sp[b] /\ n + 1 \in Slot
  BY <1>0, <1>1, PushingIs DEF TypeOK
<1>3. /\ sp' = sp /\ UNCHANGED <<capacity, owners, mem>>
      /\ \A u \in Thread \ {t} : pc'[u] = pc[u]
      /\ pc'[t] \in {"store", "peek"}
  <2>1. UNCHANGED <<capacity, owners, mem>> /\ \E where \in {"store", "peek"} : Goto(t, where)
    BY DEF PfreeWrite, localVars
  <2>2. sp' = sp
    BY <1>0, <1>1, <1>2 DEF PfreeWrite, TypeOK
  <2>3. (\A u \in Thread \ {t} : pc'[u] = pc[u]) /\ pc'[t] \in {"store", "peek"}
    BY <1>0, <2>1 DEF Goto, TypeOK
  <2> QED BY <2>1, <2>2, <2>3
<1>4. \A a \in Block : \A i \in Slot : ~(a = b /\ i = n + 1) => slot'[a][i] = slot[a][i]
  <2>1. CASE EntryKept(t)
    <3>1. slot' = [slot EXCEPT ![b][n + 1] = mem[t]]
      BY <1>1, <1>2, <2>1 DEF PfreeWrite
    <3> QED BY <1>0, <1>2, <3>1 DEF TypeOK
  <2>2. CASE ~EntryKept(t)
    BY <2>2 DEF PfreeWrite
  <2> QED BY <2>1, <2>2
<1>5. ASSUME NEW a \in Block PROVE Stacked(a)' = Stacked(a)
  <2>0. sp[a] \in 0 .. MaxCapacity
    BY <1>0 DEF TypeOK
  <2>1. \A i \in 1 .. sp[a] : i \in Slot /\ ~(a = b /\ i = n + 1)
    BY <1>2, <2>0 DEF Slot
  <2>2. \A i \in 1 .. sp[a] : slot'[a][i] = slot[a][i]
    BY <1>4, <2>1
  <2> QED BY <1>3, <2>2 DEF Stacked
<1>6. \A d \in InHand(t) : d \in InHand(t)'
  BY <1>0, <1>3, InHandIs, InHandIsNext DEF Holding, Pushing
<1>7. PICK K : K = {}
  OBVIOUS
<1>8. /\ \A d \in K : d \in Chunk => Placed(d)'
      /\ \A d \in Chunk \ K : owners[d] # {} => owners'[d] # {}
      /\ \A d \in InHand(t) : d \notin K => d \in InHand(t)'
      /\ \A a \in Block : \A d \in Stacked(a) : d \notin K => d \in Stacked(a)'
  BY <1>3, <1>5, <1>6, <1>7
<1> QED BY <1>3, <1>8, StaysPlaced

(* The pushed chunk goes from the hands onto the stack.                    *)
LEMMA PfreeStoreConserves ==
  ASSUME IInv, IInv', Conserved, NEW t \in Thread, PfreeStore(t)
  PROVE  Conserved'
<1>0. TypeOK /\ TypeOK' /\ pc[t] = "store" /\ Holds(t)
  BY AboutT DEF IInv, PfreeStore
<1>1. PICK b \in Block : b = blk[t]
  BY <1>0 DEF TypeOK
<1>2. PICK n \in Nat : n = attempt[t] /\ n = sp[b]
  BY <1>0, <1>1, PushingIs DEF TypeOK
<1>3. PICK c \in Chunk : c = mem[t] /\ c[1] = b /\ c = slot[b][n + 1]
  BY <1>0, <1>1, <1>2, PushingIs DEF Holds
<1>4. /\ sp'[b] = n + 1 /\ (\A a \in Block \ {b} : sp'[a] = sp[a])
      /\ UNCHANGED <<capacity, slot, owners>>
      /\ \A u \in Thread \ {t} : pc'[u] = pc[u] /\ mem'[u] = mem[u]
  BY <1>0, <1>1, <1>2 DEF PfreeStore, ReturnFree, Return, TypeOK
<1>5. c \in Stacked(b)'
  <2>1. n + 1 \in 1 .. sp'[b]
    BY <1>4
  <2> QED BY <1>3, <1>4, <2>1 DEF Stacked
<1>6. PICK K : K = {c}
  OBVIOUS
<1>7. /\ \A d \in K : d \in Chunk => Placed(d)'
      /\ \A d \in Chunk \ K : owners[d] # {} => owners'[d] # {}
      /\ \A d \in InHand(t) : d \notin K => d \in InHand(t)'
  <2>1. \A d \in InHand(t) : d = c
    BY <1>0, <1>3, InHandIs
  <2>2. Placed(c)'
    BY <1>3, <1>5 DEF Placed
  <2> QED BY <1>4, <1>6, <2>1, <2>2
<1>8. ASSUME NEW a \in Block, NEW d \in Stacked(a) PROVE d \in Stacked(a)'
  <2>1. PICK i \in 1 .. sp[a] : d = slot[a][i]
    BY DEF Stacked
  <2>2. i \in 1 .. sp'[a]
    BY <1>2, <1>4, <2>1
  <2> QED BY <1>4, <2>1, <2>2 DEF Stacked
<1>9. \A a \in Block : \A d \in Stacked(a) : d \notin K => d \in Stacked(a)'
  BY <1>8
<1> QED BY <1>4, <1>7, <1>9, StaysPlaced

(* The last user brings the chunk back: it is in that thread's hands.      *)
LEMMA LastUserConserves ==
  ASSUME IInv, IInv', Conserved, NEW t \in Thread, NEW c \in Chunk,
         pc[t] = "idle",
         owners' = [owners EXCEPT ![c] = {}],
         mem' = [mem EXCEPT ![t] = c],
         pc' = [pc EXCEPT ![t] = "pfree"],
         UNCHANGED <<capacity, slot, sp>>
  PROVE  Conserved'
<1>0. TypeOK /\ TypeOK'
  BY DEF IInv
<1>1. /\ pc'[t] = "pfree" /\ mem'[t] = c
      /\ \A u \in Thread \ {t} : pc'[u] = pc[u] /\ mem'[u] = mem[u]
      /\ \A d \in Chunk \ {c} : owners'[d] = owners[d]
  BY <1>0 DEF TypeOK
<1>2. c \in InHand(t)' /\ InHand(t) = {}
  BY <1>0, <1>1, InHandIs, InHandIsNext DEF Holding, Pushing
<1>3. \A b \in Block : Stacked(b)' = Stacked(b)
  BY DEF Stacked
<1>4. PICK K : K = {c}
  OBVIOUS
<1>5. /\ \A d \in K : d \in Chunk => Placed(d)'
      /\ \A d \in Chunk \ K : owners[d] # {} => owners'[d] # {}
      /\ \A d \in InHand(t) : d \notin K => d \in InHand(t)'
      /\ \A a \in Block : \A d \in Stacked(a) : d \notin K => d \in Stacked(a)'
  <2>1. Placed(c)'
    BY <1>2 DEF Placed
  <2> QED BY <1>1, <1>2, <1>3, <1>4, <2>1
<1> QED BY <1>1, <1>5, StaysPlaced

LEMMA ClientConserves ==
  ASSUME IInv, IInv', Conserved, NEW t \in Thread, Client(t)
  PROVE  Conserved'
<1>0. TypeOK /\ pc[t] = "idle"
  BY DEF IInv, Client, CallPalloc, CallPfree, SlabRef, SlabUnref
<1>1. pc[t] \notin Holding
  BY <1>0 DEF Holding, Pushing
<1>2. CASE CallPalloc(t)
  <2>1. /\ UNCHANGED <<capacity, slot, sp, owners, mem>>
        /\ \A u \in Thread \ {t} : pc'[u] = pc[u]
    BY <1>0, <1>2 DEF CallPalloc, poolVars, localVars, TypeOK
  <2> QED BY <1>1, <2>1, QuietConserves
<1>3. ASSUME NEW c \in Chunk, CallPfree(t, c) PROVE Conserved'
  BY <1>0, <1>3, LastUserConserves DEF CallPfree, poolVars
<1>4. ASSUME NEW u \in Thread, NEW c \in Chunk, SlabRef(t, u, c) PROVE Conserved'
  <2>1. /\ UNCHANGED <<capacity, slot, sp, mem, pc>>
        /\ \A d \in Chunk : owners[d] # {} => owners'[d] # {}
    BY <1>0, <1>4 DEF SlabRef, poolVars, localVars, TypeOK
  <2> QED BY <1>1, <2>1, QuietConserves
<1>5. ASSUME NEW c \in Chunk, SlabUnref(t, c) PROVE Conserved'
  <2>1. /\ owners[c] \subseteq Thread /\ t \in owners[c] /\ UNCHANGED <<capacity, slot, sp>>
        /\ owners' = [owners EXCEPT ![c] = owners[c] \ {t}]
        /\ refcount[c] = Cardinality(owners[c])
    BY <1>0, <1>5 DEF SlabUnref, TypeOK, poolVars, IInv, HeaderTrue
  <2>2. IsFiniteSet(owners[c]) /\ Cardinality(owners[c] \ {t}) = refcount[c] - 1
        /\ IsFiniteSet(owners[c] \ {t}) /\ refcount[c] \in Nat
    BY <2>1, FS_Subset, FS_RemoveElement, FS_CardinalityType
  <2>3. CASE refcount[c] = 1
    <3>1. owners[c] \ {t} = {}
      BY <2>2, <2>3, FS_EmptySet
    <3>2. /\ owners' = [owners EXCEPT ![c] = {}]
          /\ mem' = [mem EXCEPT ![t] = c] /\ pc' = [pc EXCEPT ![t] = "pfree"]
      BY <1>5, <2>1, <2>3, <3>1 DEF SlabUnref, DropsLast
    <3> QED BY <1>0, <2>1, <3>2, LastUserConserves
  <2>4. CASE refcount[c] # 1
    <3>1. owners[c] \ {t} # {}
      BY <2>2, <2>4, FS_EmptySet
    <3>2. UNCHANGED <<mem, pc>> /\ \A d \in Chunk : owners[d] # {} => owners'[d] # {}
      BY <1>0, <1>5, <2>1, <2>4, <3>1 DEF SlabUnref, DropsLast, TypeOK
    <3> QED BY <1>1, <2>1, <3>2, QuietConserves
  <2> QED BY <2>3, <2>4
<1> QED BY <1>2, <1>3, <1>4, <1>5 DEF Client

(* A new block: its top chunk is in the hands, the others on its stack.    *)
LEMMA PallocCreateConserves ==
  ASSUME IInv, IInv', Conserved, NEW t \in Thread, NEW b \in Block, PallocCreate(t, b)
  PROVE  Conserved'
<1>0. TypeOK /\ TypeOK' /\ pc[t] = "create"
  BY DEF IInv, PallocCreate
<1>1. PICK n \in Int : n = 2 * readMax[t]
  BY <1>0 DEF TypeOK
<1>2. /\ pc'[t] = "link" /\ mem'[t] = <<b, n>>
      /\ capacity'[b] = n /\ slot'[b] = FreshSlots(b) /\ sp'[b] = n - 1
      /\ \A a \in Block \ {b} : /\ capacity'[a] = capacity[a] /\ slot'[a] = slot[a]
                                /\ sp'[a] = sp[a]
      /\ \A u \in Thread \ {t} : pc'[u] = pc[u] /\ mem'[u] = mem[u]
      /\ UNCHANGED owners
  BY <1>0, <1>1 DEF PallocCreate, TakeFromNewBlock, Goto, TypeOK
<1>3. InHand(t)' = {<<b, n>>} /\ InHand(t) = {}
  BY <1>0, <1>2, InHandIs, InHandIsNext DEF Holding, Pushing
<1>4. ASSUME NEW u \in Thread, u # t PROVE InHand(u)' = InHand(u)
  BY <1>0, <1>2, <1>4, InHandIs, InHandIsNext
<1>5. ASSUME NEW c \in Chunk, c[2] <= capacity'[c[1]]
      PROVE  Placed(c)'
  <2>1. c[1] \in Block /\ c[2] \in Slot /\ c = <<c[1], c[2]>> /\ c[2] \in Nat \ {0}
    BY ChunkPair DEF Slot
  <2>2. CASE c[1] = b /\ c[2] = n
    BY <1>3, <2>1, <2>2 DEF Placed
  <2>3. CASE c[1] = b /\ c[2] # n
    <3>1. c[2] \in 1 .. sp'[b] /\ slot'[b][c[2]] = c
      BY <1>2, <1>5, <2>1, <2>3 DEF FreshSlots
    <3> QED BY <2>3, <3>1 DEF Placed, Stacked
  <2>4. CASE c[1] # b
    <3>1. Placed(c) /\ Stacked(c[1])' = Stacked(c[1])
      BY <1>0, <1>2, <1>5, <2>1, <2>4, ConservedIs DEF Stacked
    <3> QED BY <1>2, <1>3, <1>4, <3>1 DEF Placed
  <2> QED BY <2>2, <2>3, <2>4
<1> QED BY <1>0, <1>5, ConservedIsNext

(* The block that goes takes its own chunks along and no other.            *)
LEMMA PallocUnlinkConserves ==
  ASSUME IInv, IInv', Conserved, NEW t \in Thread, PallocUnlink(t)
  PROVE  Conserved'
<1>0. TypeOK /\ TypeOK' /\ pc[t] = "link" /\ Holds(t)
  BY AboutT DEF IInv, PallocUnlink
<1>1. PICK b \in Block : b = blk[t]
  BY <1>0 DEF TypeOK
<1>2. /\ capacity'[b] = 0 /\ UNCHANGED <<slot, owners>>
      /\ \A a \in Block \ {b} : capacity'[a] = capacity[a] /\ sp'[a] = sp[a]
      /\ \A u \in Thread \ {t} : pc'[u] = pc[u] /\ mem'[u] = mem[u]
  BY <1>0, <1>1 DEF PallocUnlink, Goto, TypeOK
<1>3. \A c \in InHand(t) : c[1] = b
  BY <1>0, <1>1, InHandIs DEF Holds, Holding
<1>4. ASSUME NEW u \in Thread, u # t PROVE InHand(u)' = InHand(u)
  BY <1>0, <1>2, <1>4, InHandIs, InHandIsNext
<1>5. ASSUME NEW c \in Chunk, c[2] <= capacity'[c[1]]
      PROVE  Placed(c)'
  <2>1. c[1] \in Block /\ c[2] \in Nat \ {0}
    BY ChunkPair DEF Slot
  <2>2. c[1] # b
    BY <1>2, <1>5, <2>1
  <2>3. Placed(c) /\ Stacked(c[1])' = Stacked(c[1])
    BY <1>0, <1>2, <1>5, <2>1, <2>2, ConservedIs DEF Stacked
  <2> QED BY <1>2, <1>3, <1>4, <2>2, <2>3 DEF Placed
<1> QED BY <1>0, <1>5, ConservedIsNext

LEMMA OwnerConserves ==
  ASSUME IInv, IInv', Conserved, PoolClear \/ PoolDestroy
  PROVE  Conserved'
<1>0. TypeOK /\ TypeOK' /\ AllIdle /\ poolBlock # Gone
  BY DEF IInv, PoolClear, PoolDestroy
<1>1. Ring = Mapped
  BY <1>0, RingIsLinked, IdleIsLinked
<1>2. CASE PoolClear
  <2>1. /\ \A b \in Mapped : slot'[b] = FreshSlots(b) /\ sp'[b] = capacity[b]
        /\ UNCHANGED capacity
    BY <1>1, <1>2 DEF PoolClear, FullStacks, Mapped
  <2>2. ASSUME NEW c \in Chunk, c[2] <= capacity'[c[1]]
        PROVE  Placed(c)'
    <3>1. c[1] \in Block /\ c[2] \in Slot /\ c = <<c[1], c[2]>> /\ c[2] \in Nat \ {0}
      BY ChunkPair DEF Slot
    <3>2. capacity[c[1]] \in Nat
      BY <1>0, <3>1 DEF TypeOK
    <3>3. c[1] \in Mapped /\ c[2] \in 1 .. sp'[c[1]]
      BY <2>1, <2>2, <3>1, <3>2 DEF Mapped
    <3>4. FreshSlots(c[1])[c[2]] = <<c[1], c[2]>>
      BY <3>1 DEF FreshSlots
    <3>5. slot'[c[1]] = FreshSlots(c[1])
      BY <2>1, <3>3
    <3>6. slot'[c[1]][c[2]] = c
      BY <3>1, <3>4, <3>5
    <3> QED BY <3>3, <3>6 DEF Placed, Stacked
  <2> QED BY <1>0, <2>2, ConservedIsNext
<1>3. CASE PoolDestroy
  <2>1. \A b \in Block : capacity'[b] = 0
    BY <1>0, <1>1, <1>3 DEF PoolDestroy, Mapped, TypeOK
  <2>2. \A c \in Chunk : ~(c[2] <= capacity'[c[1]])
    BY <2>1, ChunkPair DEF Slot
  <2> QED BY <1>0, <2>2, ConservedIsNext
<1> QED BY <1>2, <1>3

LEMMA NextConserves == IInv /\ IInv' /\ Conserved /\ [Next]_vars => Conserved'
<1> SUFFICES ASSUME IInv, IInv', Conserved, [Next]_vars PROVE Conserved'
  OBVIOUS
<1>1. ASSUME NEW t \in Thread, PallocStep(t) PROVE Conserved'
  <2>1. CASE \E b \in Block : PallocCreate(t, b)
    BY <2>1, PallocCreateConserves
  <2> QED BY <1>1, <2>1, PallocQuiet, BusyHandsConserve, PallocPopConserves,
             HandOutConserves, PallocUnlinkConserves DEF PallocStep
<1>2. ASSUME NEW t \in Thread, PfreeStep(t) PROVE Conserved'
  BY <1>2, BusyHandsConserve, PfreeWriteConserves, PfreeStoreConserves DEF PfreeStep
<1>3. ASSUME UNCHANGED slabVars PROVE Conserved'
  <2>1. UNCHANGED <<capacity, slot, sp, owners, pc, mem>>
    BY <1>3 DEF slabVars, poolVars, localVars
  <2>2. Mapped' = Mapped
    BY <2>1 DEF Mapped
  <2>3. ASSUME NEW b \in Mapped, NEW i \in 1 .. capacity[b]
        PROVE  \/ owners'[<<b, i>>] # {}
               \/ \E t \in Thread : <<b, i>> \in InHand(t)'
               \/ <<b, i>> \in Stacked(b)'
    <3>1. \/ owners[<<b, i>>] # {}
          \/ \E t \in Thread : <<b, i>> \in InHand(t)
          \/ <<b, i>> \in Stacked(b)
      BY DEF Conserved
    <3>2. Stacked(b)' = Stacked(b)
      BY <2>1 DEF Stacked
    <3>3. \A t \in Thread : InHand(t)' = InHand(t)
      BY <2>1 DEF InHand
    <3> QED BY <2>1, <3>1, <3>2, <3>3
  <2> QED BY <2>1, <2>2, <2>3 DEF Conserved
<1>4. CASE Owner
  BY <1>3, <1>4, OwnerConserves DEF Owner, Finished
<1> QED BY <1>1, <1>2, <1>3, <1>4, ClientConserves DEF Next, Step, vars

(* No chunk of a live pool is lost, not even by a thread that grows the    *)
(* pool and finds that somebody else has linked a block in before it.      *)
THEOREM NothingLost == Spec => []Conserved
<1>1. Init => Conserved
  <2> SUFFICES ASSUME Init PROVE Conserved
    OBVIOUS
  <2>1. ASSUME NEW i \in 1 .. Capacity PROVE <<1, i>> \in Stacked(1)
    <3>1. i \in Slot /\ 1 \in Block
      BY DEF Slot, Block
    <3>2. slot[1] = FreshSlots(1) /\ sp[1] = Capacity
      BY <3>1 DEF Init, SlabInit, InitPool
    <3>3. slot[1][i] = <<1, i>>
      BY <3>1, <3>2 DEF FreshSlots
    <3> QED BY <3>2, <3>3 DEF Stacked
  <2>2. Mapped = {1} /\ capacity[1] = Capacity
    BY DEF Init, SlabInit, InitPool, Mapped, Block
  <2> QED BY <2>1, <2>2 DEF Conserved
<1>2. IInv /\ IInv' /\ Conserved /\ [Next]_vars => Conserved'
  BY NextConserves
<1> QED BY <1>1, <1>2, Invariance, PTL DEF Spec

-----------------------------------------------------------------------------
(* The pool is the pool of ChunkPool.                                      *)

(* What a client sees of thread t, in the pcs of this module.              *)
LEMMA SeenIs ==
  ASSUME TypeOK, NEW t \in Thread
  PROVE  /\ CallOf(t) = IF pc[t] = "idle" THEN "idle"
                        ELSE IF pc[t] \in Pushing \cup {"pfree"} THEN "pfree" ELSE "palloc"
         /\ BackOf(t) = IF pc[t] \in Pushing \cup {"pfree"} THEN mem[t] ELSE NoChunk
BY DEF TypeOK, CallOf, BackOf, GivingBack, Pushing

LEMMA SeenIsNext ==
  ASSUME TypeOK', NEW t \in Thread
  PROVE  /\ CallOf(t)' = IF pc'[t] = "idle" THEN "idle"
                         ELSE IF pc'[t] \in Pushing \cup {"pfree"} THEN "pfree" ELSE "palloc"
         /\ BackOf(t)' = IF pc'[t] \in Pushing \cup {"pfree"} THEN mem'[t] ELSE NoChunk
BY DEF TypeOK, CallOf, BackOf, GivingBack, Pushing

Calls == [t \in Thread |-> CallOf(t)]
Backs == [t \in Thread |-> BackOf(t)]

(* Only what is seen of t changes.                                         *)
LEMMA OnlySeen ==
  ASSUME TypeOK, TypeOK', NEW t \in Thread,
         \A u \in Thread \ {t} : pc'[u] = pc[u] /\ mem'[u] = mem[u]
  PROVE  /\ Calls' = [Calls EXCEPT ![t] = CallOf(t)']
         /\ Backs' = [Backs EXCEPT ![t] = BackOf(t)']
<1>1. \A u \in Thread \ {t} : CallOf(u)' = CallOf(u) /\ BackOf(u)' = BackOf(u)
  BY SeenIs, SeenIsNext
<1> QED BY <1>1 DEF Calls, Backs

(* Only pool->block stays, or moves to another block.                      *)
LEMMA NotGone ==
  ASSUME IInv, NEW t \in Thread, pc[t] # "idle"
  PROVE  poolBlock # Gone
BY DEF IInv, PlaceInv, Alive, AllIdle

(* palloc returns the chunk in its hands.                                  *)
LEMMA PallocTakes ==
  ASSUME IInv, IInv', NEW t \in Thread, PallocHeader(t) \/ PallocPublish(t)
  PROVE  \E c \in Chunk : Abstract!TakeChunk(t, c)
<1>1. TypeOK /\ TypeOK' /\ pc[t] \in {"header", "publish"}
  BY DEF IInv, PallocHeader, PallocPublish
<1>2. PICK c : c = mem[t]
  OBVIOUS
<1>3. c \in InHand(t) /\ c \in Chunk
  <2>1. c \in InHand(t)
    BY <1>1, <1>2, InHandIs DEF Holding
  <2> QED BY <2>1, HeldIsChunk
<1>4. owners[c] = {} /\ \A u \in Thread \ {t} : c \notin InHand(u)
  BY <1>3 DEF IInv, Exclusive
<1>5. c # NoChunk
  BY <1>3, ChunkPair DEF NoChunk, Block
<1>6. /\ pc' = [pc EXCEPT ![t] = "idle"] /\ mem' = [mem EXCEPT ![t] = NoChunk]
      /\ owners' = [owners EXCEPT ![c] = {t}] /\ poolBlock' \in {poolBlock, blk[t]}
  BY <1>2 DEF PallocHeader, PallocPublish, ReturnFree, Return
<1>7. poolBlock # Gone /\ poolBlock' # Gone
  BY <1>1, <1>6, NotGone, OneIsBlock DEF TypeOK
<1>8. pc'[t] = "idle" /\ \A u \in Thread \ {t} : pc'[u] = pc[u] /\ mem'[u] = mem[u]
  BY <1>1, <1>6 DEF TypeOK
<1>9. CallOf(t) = "palloc" /\ BackOf(t) = NoChunk /\ CallOf(t)' = "idle" /\ BackOf(t)' = NoChunk
  BY <1>1, <1>8, SeenIs, SeenIsNext DEF Pushing
<1>10. Calls' = [Calls EXCEPT ![t] = "idle"] /\ Backs' = [Backs EXCEPT ![t] = NoChunk]
  BY <1>1, <1>8, <1>9, OnlySeen
<1>11. Backs' = Backs /\ Calls[t] = "palloc"
  BY <1>9, <1>10 DEF Backs, Calls
<1>12. \A u \in Thread : BackOf(u) # c
  BY <1>1, <1>4, <1>5, <1>9, SeenIs, InHandIs DEF Holding
<1>13. c \in Abstract!Unused
  BY <1>3, <1>4, <1>12 DEF Abstract!Unused
<1>14. Abstract!TakeChunk(t, c)
  BY <1>6, <1>7, <1>10, <1>11, <1>13 DEF Abstract!TakeChunk, Calls, Backs
<1> QED BY <1>3, <1>14

(* The last user lets c go.                                                *)
LEMMA LastUserLeaves ==
  ASSUME TypeOK, TypeOK', NEW t \in Thread, NEW c \in Chunk,
         pc[t] = "idle", owners[c] = {t},
         owners' = [owners EXCEPT ![c] = {}],
         mem' = [mem EXCEPT ![t] = c],
         pc' = [pc EXCEPT ![t] = "pfree"],
         UNCHANGED poolBlock
  PROVE  Abstract!LeaveChunk(t, c)
<1>1. /\ pc'[t] = "pfree" /\ mem'[t] = c
      /\ \A u \in Thread \ {t} : pc'[u] = pc[u] /\ mem'[u] = mem[u]
  BY DEF TypeOK
<1>2. CallOf(t) = "idle" /\ CallOf(t)' = "pfree" /\ BackOf(t)' = c
  BY <1>1, SeenIs, SeenIsNext
<1>3. Calls' = [Calls EXCEPT ![t] = "pfree"] /\ Backs' = [Backs EXCEPT ![t] = c]
  BY <1>1, <1>2, OnlySeen
<1>4. Calls[t] = "idle"
  BY <1>2 DEF Calls
<1>5. owners' = [owners EXCEPT ![c] = owners[c] \ {t}]
  OBVIOUS
<1> QED BY <1>3, <1>4, <1>5 DEF Abstract!LeaveChunk, Calls, Backs

(* One of several users lets c go: the count stays above 0.                *)
LEMMA OneUserLeaves ==
  ASSUME TypeOK, NEW t \in Thread, NEW c \in Chunk,
         pc[t] = "idle", t \in owners[c], owners[c] # {t},
         owners' = [owners EXCEPT ![c] = owners[c] \ {t}],
         UNCHANGED <<pc, mem, poolBlock>>
  PROVE  Abstract!LeaveChunk(t, c)
<1>1. Calls' = Calls /\ Backs' = Backs
  BY DEF Calls, Backs, CallOf, BackOf
<1>2. Calls[t] = "idle"
  BY SeenIs DEF Calls
<1> QED BY <1>1, <1>2 DEF Abstract!LeaveChunk, Calls, Backs

LEMMA UnrefStep ==
  ASSUME IInv, IInv', NEW t \in Thread, NEW c \in Chunk, SlabUnref(t, c)
  PROVE  Abstract!LeaveChunk(t, c)
<1>0. TypeOK /\ TypeOK'
  BY DEF IInv
<1>1. /\ pc[t] = "idle" /\ t \in owners[c] /\ owners[c] \subseteq Thread
      /\ owners' = [owners EXCEPT ![c] = owners[c] \ {t}]
      /\ UNCHANGED poolBlock
      /\ refcount[c] = Cardinality(owners[c])
  BY <1>0 DEF SlabUnref, poolVars, TypeOK, IInv, HeaderTrue
<1>2. CASE owners[c] = {t}
  <2>1. refcount[c] = 1 /\ owners' = [owners EXCEPT ![c] = {}]
    BY <1>1, <1>2, FS_Singleton
  <2>2. mem' = [mem EXCEPT ![t] = c] /\ pc' = [pc EXCEPT ![t] = "pfree"]
    BY <2>1 DEF SlabUnref, DropsLast
  <2> QED BY <1>0, <1>1, <1>2, <2>1, <2>2, LastUserLeaves
<1>3. CASE owners[c] # {t}
  <2>1. refcount[c] # 1
    <3>1. IsFiniteSet(owners[c])
      BY <1>1, FS_Subset
    <3>2. SUFFICES ASSUME Cardinality(owners[c]) = 1 PROVE FALSE
      BY <1>1
    <3>3. PICK x : owners[c] = {x}
      BY <3>1, <3>2, FS_Singleton
    <3> QED BY <1>1, <1>3, <3>3
  <2>2. UNCHANGED <<pc, mem>>
    BY <2>1 DEF SlabUnref, DropsLast
  <2> QED BY <1>0, <1>1, <1>3, <2>2, OneUserLeaves
<1> QED BY <1>2, <1>3

LEMMA ClientStep ==
  ASSUME IInv, IInv', NEW t \in Thread, Client(t)
  PROVE  Abstract!Next
<1>1. TypeOK /\ TypeOK'
  BY DEF IInv
<1>2. CASE CallPalloc(t)
  <2>1. /\ pc[t] = "idle" /\ pc'[t] = "palloc" /\ poolBlock # Gone
        /\ \A u \in Thread \ {t} : pc'[u] = pc[u] /\ mem'[u] = mem[u]
        /\ UNCHANGED <<owners, poolBlock>>
    BY <1>1, <1>2 DEF CallPalloc, poolVars, localVars, TypeOK
  <2>2. /\ CallOf(t) = "idle" /\ CallOf(t)' = "palloc"
        /\ BackOf(t) = NoChunk /\ BackOf(t)' = NoChunk
    BY <1>1, <2>1, SeenIs, SeenIsNext DEF Pushing
  <2>3. Calls' = [Calls EXCEPT ![t] = "palloc"] /\ Backs' = [Backs EXCEPT ![t] = NoChunk]
    BY <1>1, <2>1, <2>2, OnlySeen
  <2>4. Calls[t] = "idle" /\ Backs' = Backs
    BY <2>2, <2>3 DEF Calls, Backs
  <2>5. Abstract!AskChunk(t)
    BY <2>1, <2>3, <2>4 DEF Abstract!AskChunk, Calls, Backs
  <2> QED BY <2>5 DEF Abstract!Next
<1>3. ASSUME NEW c \in Chunk, CallPfree(t, c) PROVE Abstract!Next
  <2>1. Abstract!LeaveChunk(t, c)
    BY <1>1, <1>3, LastUserLeaves DEF CallPfree, poolVars
  <2> QED BY <2>1 DEF Abstract!Next
<1>4. ASSUME NEW u \in Thread, NEW c \in Chunk, SlabRef(t, u, c) PROVE Abstract!Next
  <2>1. Calls' = Calls /\ Backs' = Backs /\ UNCHANGED poolBlock
    BY <1>4 DEF SlabRef, poolVars, localVars, Calls, Backs, CallOf, BackOf
  <2>2. Calls[t] = "idle" /\ Calls[u] = "idle" /\ t \in owners[c]
        /\ owners' = [owners EXCEPT ![c] = @ \cup {u}]
    BY <1>1, <1>4, SeenIs DEF SlabRef, Calls
  <2>3. Abstract!ShareChunk(t, u, c)
    BY <2>1, <2>2 DEF Abstract!ShareChunk, Calls, Backs
  <2> QED BY <2>3 DEF Abstract!Next
<1>5. ASSUME NEW c \in Chunk, SlabUnref(t, c) PROVE Abstract!Next
  BY <1>5, UnrefStep DEF Abstract!Next
<1> QED BY <1>2, <1>3, <1>4, <1>5 DEF Client

(* palloc finds no memory, or pfree has stored the stack pointer.          *)
LEMMA ReturnStep ==
  ASSUME IInv, IInv', NEW t \in Thread, PallocFail(t) \/ PfreeStore(t)
  PROVE  Abstract!RefuseChunk(t) \/ Abstract!ReturnChunk(t)
<1>1. TypeOK /\ TypeOK'
  BY DEF IInv
<1>2. /\ pc[t] \in {"create", "store"} /\ pc'[t] = "idle"
      /\ \A u \in Thread \ {t} : pc'[u] = pc[u] /\ mem'[u] = mem[u]
      /\ UNCHANGED <<owners, poolBlock>>
  BY <1>1 DEF PallocFail, PfreeStore, ReturnFree, Return, poolVars, TypeOK
<1>3. CallOf(t)' = "idle" /\ BackOf(t)' = NoChunk
  BY <1>1, <1>2, SeenIsNext DEF Pushing
<1>4. Calls' = [Calls EXCEPT ![t] = "idle"] /\ Backs' = [Backs EXCEPT ![t] = NoChunk]
  BY <1>1, <1>2, <1>3, OnlySeen
<1>5. CASE pc[t] = "create"
  <2>1. CallOf(t) = "palloc" /\ BackOf(t) = NoChunk
    BY <1>1, <1>5, SeenIs DEF Pushing
  <2>2. Calls[t] = "palloc" /\ Backs' = Backs
    BY <1>4, <2>1 DEF Calls, Backs
  <2> QED BY <1>2, <1>4, <2>2 DEF Abstract!RefuseChunk, Calls, Backs
<1>6. CASE pc[t] = "store"
  <2>1. Calls[t] = "pfree"
    BY <1>1, <1>6, SeenIs DEF Calls, Pushing
  <2> QED BY <1>2, <1>4, <2>1 DEF Abstract!ReturnChunk, Calls, Backs
<1> QED BY <1>2, <1>5, <1>6

(* Steps that no client sees: they stay in the call, palloc or pfree.      *)
LEMMA HiddenStep ==
  ASSUME IInv, IInv', NEW t \in Thread, Step(t),
         ~PallocHeader(t), ~PallocPublish(t), ~PallocFail(t), ~PfreeStore(t)
  PROVE  UNCHANGED Abstract!chunkVars
<1>1. TypeOK /\ TypeOK'
  BY DEF IInv
<1>2. /\ UNCHANGED <<owners, poolBlock>>
      /\ \A u \in Thread \ {t} : pc'[u] = pc[u] /\ mem'[u] = mem[u]
      /\ CallOf(t)' = CallOf(t) /\ BackOf(t)' = BackOf(t)
  <2>1. CASE PallocStep(t)
    <3>1. /\ UNCHANGED <<owners, poolBlock>>
          /\ \A u \in Thread \ {t} : pc'[u] = pc[u] /\ mem'[u] = mem[u]
          /\ pc[t] \in Walking \cup {"palloc", "link"}
          /\ pc'[t] \in Walking \cup {"palloc", "link"}
      <4>1. CASE PallocStart(t) \/ PallocRead(t) \/ PallocTake(t) \/ PallocPop(t)
        BY <1>1, <4>1 DEF PallocStart, PallocRead, PallocTake, PallocPop, Goto, poolVars,
                          localVars, TypeOK, Walking
      <4>2. CASE PallocNext(t) \/ PallocWalk(t) \/ PallocReadMax(t)
        BY <1>1, <4>2 DEF PallocNext, PallocWalk, PallocReadMax, Goto, poolVars,
                          localVars, TypeOK, Walking
      <4>3. CASE (\E b \in Block : PallocCreate(t, b)) \/ PallocLink(t)
        BY <1>1, <4>3 DEF PallocCreate, PallocLink, Goto, localVars, TypeOK, Walking
      <4>4. CASE PallocUnlink(t) \/ PallocDouble(t)
        BY <1>1, <4>4 DEF PallocUnlink, PallocDouble, Goto, localVars, TypeOK, Walking
      <4> QED BY <2>1, <4>1, <4>2, <4>3, <4>4 DEF PallocStep
    <3> QED BY <1>1, <3>1, SeenIs, SeenIsNext DEF Walking, Pushing
  <2>2. CASE PfreeStep(t)
    <3>1. /\ UNCHANGED <<owners, poolBlock, mem>>
          /\ \A u \in Thread \ {t} : pc'[u] = pc[u]
          /\ pc[t] \in Pushing \cup {"pfree"} /\ pc'[t] \in Pushing
      BY <1>1, <2>2 DEF PfreeStep, PfreeStart, PfreePeek, PfreeCompare, PfreeClaim,
                        PfreeWrite, Goto, poolVars, localVars, TypeOK, Pushing
    <3> QED BY <1>1, <3>1, SeenIs, SeenIsNext DEF Pushing
  <2> QED BY <2>1, <2>2 DEF Step
<1>3. Calls' = [Calls EXCEPT ![t] = CallOf(t)] /\ Backs' = [Backs EXCEPT ![t] = BackOf(t)]
  BY <1>1, <1>2, OnlySeen
<1>4. Calls' = Calls /\ Backs' = Backs
  BY <1>3 DEF Calls, Backs
<1> QED BY <1>2, <1>4 DEF Abstract!chunkVars, Calls, Backs

LEMMA OwnerStep ==
  ASSUME TypeOK, PoolClear \/ PoolDestroy
  PROVE  Abstract!DropChunks
<1>1. /\ AllIdle /\ poolBlock # Gone /\ UNCHANGED <<pc, mem>>
      /\ owners' = [c \in Chunk |-> {}]
  BY DEF PoolClear, PoolDestroy, localVars
<1>2. Calls' = Calls /\ Backs' = Backs
  BY <1>1 DEF Calls, Backs, CallOf, BackOf
<1>3. \A t \in Thread : Calls[t] = "idle"
  BY <1>1, SeenIs DEF AllIdle, Calls
<1> QED BY <1>1, <1>2, <1>3 DEF Abstract!DropChunks, Calls, Backs

LEMMA NextStep ==
  ASSUME IInv, IInv', [Next]_vars
  PROVE  [Abstract!Next]_(Abstract!chunkVars)
<1>1. ASSUME NEW t \in Thread, Client(t) PROVE Abstract!Next
  BY <1>1, ClientStep
<1>2. ASSUME NEW t \in Thread, Step(t) PROVE [Abstract!Next]_(Abstract!chunkVars)
  <2>1. CASE PallocHeader(t) \/ PallocPublish(t)
    BY <2>1, PallocTakes DEF Abstract!Next
  <2>2. CASE PallocFail(t) \/ PfreeStore(t)
    BY <2>2, ReturnStep DEF Abstract!Next
  <2> QED BY <1>2, <2>1, <2>2, HiddenStep
<1>3. ASSUME PoolClear \/ PoolDestroy PROVE Abstract!Next
  BY <1>3, OwnerStep DEF IInv, Abstract!Next
<1>4. ASSUME UNCHANGED slabVars PROVE UNCHANGED Abstract!chunkVars
  <2>1. UNCHANGED <<owners, poolBlock, pc, mem>>
    BY <1>4 DEF slabVars, poolVars, localVars
  <2>2. Calls' = Calls /\ Backs' = Backs
    BY <2>1 DEF Calls, Backs, CallOf, BackOf
  <2> QED BY <2>1, <2>2 DEF Abstract!chunkVars, Calls, Backs
<1> QED BY <1>1, <1>2, <1>3, <1>4 DEF Next, Owner, Finished, vars

(* The pool without a mutex keeps the promise of the one that has it: the  *)
(* chunk that palloc returns is nobody else's at that moment, whatever the *)
(* claims, the stale heights and the lost races on the way                 *)
(* (frl_slab_pool.c:57-152).                                               *)
THEOREM Implements == Spec => ImplementsChunkPool
<1>1. Init => Abstract!Init
  <2> SUFFICES ASSUME Init PROVE Abstract!Init
    OBVIOUS
  <2>1. \A t \in Thread : CallOf(t) = "idle" /\ BackOf(t) = NoChunk
    BY DEF Init, SlabInit, InitClient, CallOf, BackOf, GivingBack
  <2> QED BY <2>1 DEF Init, SlabInit, InitClient, InitPool, Gone, Abstract!Init
<1>2. IInv /\ IInv' /\ [Next]_vars => [Abstract!Next]_(Abstract!chunkVars)
  BY NextStep
<1> QED BY <1>1, <1>2, Invariance, PTL DEF Spec, ImplementsChunkPool, Abstract!Spec

=============================================================================
