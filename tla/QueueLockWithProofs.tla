--------------------------- MODULE QueueLockWithProofs ---------------------------
(***************************************************************************)
(* That the list of QueueLockWith loses no entry and no value, implements  *)
(* the queue of Fifo, and, as long as only push appends, loses no signal,  *)
(* for every set of threads, values and entries.                           *)
(*                                                                         *)
(* CallInv says what a thread holds at each step; ListInv that there is a  *)
(* path from head to tail through just the entries that are neither free   *)
(* nor in the hands of a push.                                             *)
(***************************************************************************)
EXTENDS QueueLockWith, Integers, FiniteSetTheorems, TLAPS

USE QueueAssumption

-----------------------------------------------------------------------------
(* Natural numbers.                                                        *)

LEMMA NatLeast ==
  ASSUME NEW T \in SUBSET Nat, T # {}
  PROVE  \E m \in T : \A k \in T : m <= k
<1> DEFINE R == OpToRel(<, Nat)
<1>1. IsWellFoundedOn(R, Nat)
  BY NatLessThanWellFounded
<1>2. \A x \in T, y \in T : <<y, x>> \in R <=> y < x
  BY DEF OpToRel
<1> HIDE DEF R
<1>3. \E x \in T : \A y \in T : ~ (<<y, x>> \in R)
  BY <1>1, WFMin, Zenon
<1>4. PICK x \in T : \A y \in T : ~ (<<y, x>> \in R)
  BY <1>3
<1>5. \A y \in T : ~(y < x)
  BY <1>2, <1>4
<1> QED BY <1>5

(* A set with 0 and, with a number, the next one, holds them all.          *)
LEMMA NatInd ==
  ASSUME NEW T, 0 \in T, \A n \in Nat : n \in T => n + 1 \in T
  PROVE  Nat \subseteq T
<1> SUFFICES ASSUME Nat \ T # {} PROVE FALSE
  OBVIOUS
<1>1. PICK m \in Nat \ T : \A k \in Nat \ T : m <= k
  BY NatLeast
<1>2. m - 1 \in Nat
  BY <1>1
<1>3. m - 1 \in T
  BY <1>1, <1>2
<1>4. (m - 1) + 1 \in T
  BY <1>2, <1>3
<1> QED BY <1>1, <1>4

-----------------------------------------------------------------------------
(* The walk along the list.                                                *)

(* f is the way along nxt from head to tail, nelts long, which meets no    *)
(* entry twice.                                                            *)
Path(f) ==
  /\ f \in [0 .. nelts -> Node]
  /\ f[0] = head /\ f[nelts] = tail /\ nxt[tail] = Null
  /\ \A i \in 0 .. nelts - 1 : nxt[f[i]] = f[i + 1]
  /\ \A i, j \in 0 .. nelts : f[i] = f[j] => i = j

(* The list is shorter than the set of entries.                            *)
LEMMA PathFits ==
  ASSUME nelts \in Nat, NEW f, Path(f)
  PROVE  nelts + 1 <= Cardinality(Node) /\ Cardinality(Node) \in Nat
<1>1. Cardinality(Node) \in Nat
  BY FS_CardinalityType
<1>2. IsFiniteSet(0 .. nelts) /\ Cardinality(0 .. nelts) = nelts + 1
  <2>1. PICK a \in Int, b \in Int : a = 0 /\ b = nelts
    OBVIOUS
  <2>2. IsFiniteSet(a .. b) /\ Cardinality(a .. b) = IF a > b THEN 0 ELSE b - a + 1
    BY FS_Interval
  <2> QED BY <2>1, <2>2
<1>3. \A i, j \in 0 .. nelts : i # j => f[i] # f[j]
  BY DEF Path
<1>4. PICK S : S = 0 .. nelts
  OBVIOUS
<1>5. f \in [S -> Node] /\ \A i, j \in S : i # j => f[i] # f[j]
  BY <1>3, <1>4 DEF Path
<1>6. ~(Cardinality(Node) < Cardinality(S))
  <2> SUFFICES ASSUME Cardinality(Node) < Cardinality(S) PROVE FALSE
    OBVIOUS
  <2>1. IsFiniteSet(Node) /\ IsFiniteSet(S)
    BY <1>2, <1>4
  <2>2. f \in [S -> Node]
    BY <1>5
  <2>3. \E x, y \in S : x # y /\ f[x] = f[y]
    BY <2>1, <2>2, FS_PigeonHole, ZenonT(30)
  <2> QED BY <1>5, <2>3
<1> QED BY <1>1, <1>2, <1>4, <1>6

LEMMA WalkIs ==
  ASSUME nelts \in Nat, NEW f, Path(f), head \in Node, tail \in Node,
         NEW N \in Nat, N = Cardinality(Node)
  PROVE  Walk = [i \in 0 .. N |-> IF i <= nelts THEN f[i] ELSE Null]
<1> DEFINE w == [i \in 0 .. N |-> IF i <= nelts THEN f[i] ELSE Null]
           Rec(g) == g = [i \in 0 .. N |->
                            IF i = 0 THEN head
                            ELSE IF g[i - 1] = Null THEN Null ELSE nxt[g[i - 1]]]
<1>1. Walk = CHOOSE g : Rec(g)
  BY DEF Walk
<1>2. f \in [0 .. nelts -> Node] /\ f[0] = head /\ f[nelts] = tail /\ nxt[tail] = Null
      /\ \A i \in 0 .. nelts - 1 : nxt[f[i]] = f[i + 1]
  BY DEF Path
<1>3. Rec(w)
  <2> DEFINE r(i) == IF i = 0 THEN head ELSE IF w[i - 1] = Null THEN Null ELSE nxt[w[i - 1]]
  <2>1. ASSUME NEW i \in 0 .. N PROVE w[i] = r(i)
    <3>1. CASE i = 0
      BY <1>2, <3>1
    <3>2. CASE i # 0 /\ i <= nelts
      <4>1. i - 1 \in 0 .. nelts - 1 /\ i - 1 \in 0 .. N /\ i - 1 <= nelts /\ (i - 1) + 1 = i
        BY <3>2
      <4>2. w[i - 1] = f[i - 1] /\ w[i] = f[i] /\ f[i - 1] \in Node
        BY <1>2, <3>2, <4>1
      <4>3. nxt[f[i - 1]] = f[i]
        BY <1>2, <4>1
      <4> HIDE DEF w
      <4> QED BY <3>2, <4>2, <4>3
    <3>3. CASE i = nelts + 1
      <4>1. i - 1 = nelts /\ i - 1 \in 0 .. N
        BY <3>3
      <4>2. w[i - 1] = tail /\ w[i] = Null
        BY <1>2, <3>3, <4>1
      <4> HIDE DEF w
      <4> QED BY <1>2, <3>3, <4>2
    <3>4. CASE i > nelts + 1
      <4>1. i - 1 \in 0 .. N /\ i - 1 > nelts
        BY <3>4
      <4>2. w[i - 1] = Null /\ w[i] = Null
        BY <3>4, <4>1
      <4> HIDE DEF w
      <4> QED BY <3>4, <4>2
    <3> QED BY <3>1, <3>2, <3>3, <3>4
  <2>2. w = [i \in 0 .. N |-> w[i]]
    OBVIOUS
  <2> HIDE DEF w
  <2>3. [i \in 0 .. N |-> w[i]] = [i \in 0 .. N |-> r(i)]
    <3> HIDE DEF r
    <3> QED BY <2>1
  <2> QED BY <2>2, <2>3
<1>4. ASSUME NEW g, NEW h, Rec(g), Rec(h) PROVE g = h
  <2> DEFINE T == {n \in Nat : n <= N => g[n] = h[n]}
  <2>1. \A i \in 0 .. N :
          /\ g[i] = IF i = 0 THEN head ELSE IF g[i - 1] = Null THEN Null ELSE nxt[g[i - 1]]
          /\ h[i] = IF i = 0 THEN head ELSE IF h[i - 1] = Null THEN Null ELSE nxt[h[i - 1]]
    BY <1>4, Zenon
  <2>2. 0 \in T
    BY <2>1
  <2>3. \A n \in Nat : n \in T => n + 1 \in T
    <3> SUFFICES ASSUME NEW n \in Nat, n \in T, n + 1 <= N PROVE g[n + 1] = h[n + 1]
      OBVIOUS
    <3>1. g[n] = h[n] /\ n + 1 \in 0 .. N /\ (n + 1) - 1 = n /\ n + 1 # 0
      OBVIOUS
    <3>2. /\ g[n + 1] = IF g[n] = Null THEN Null ELSE nxt[g[n]]
          /\ h[n + 1] = IF h[n] = Null THEN Null ELSE nxt[h[n]]
      <4>1. \A i \in 0 .. N : i # 0 =>
              /\ g[i] = IF g[i - 1] = Null THEN Null ELSE nxt[g[i - 1]]
              /\ h[i] = IF h[i - 1] = Null THEN Null ELSE nxt[h[i - 1]]
        BY <2>1
      <4>2. PICK m \in 0 .. N : m = n + 1 /\ m - 1 = n /\ m # 0
        BY <3>1
      <4> HIDE DEF T, Rec
      <4>3. /\ g[m] = IF g[m - 1] = Null THEN Null ELSE nxt[g[m - 1]]
            /\ h[m] = IF h[m - 1] = Null THEN Null ELSE nxt[h[m - 1]]
        BY <4>1, <4>2
      <4> QED BY <4>2, <4>3
    <3> HIDE DEF T, Rec
    <3> QED BY <3>1, <3>2
  <2> HIDE DEF T
  <2>4. Nat \subseteq T
    BY <2>2, <2>3, NatInd
  <2>5. \A i \in 0 .. N : g[i] = h[i]
    BY <2>4 DEF T
  <2>6. g = [i \in 0 .. N |-> g[i]] /\ h = [i \in 0 .. N |-> h[i]]
    BY <1>4
  <2> HIDE DEF Rec
  <2>7. [i \in 0 .. N |-> g[i]] = [i \in 0 .. N |-> h[i]]
    BY <2>5
  <2> QED BY <2>6, <2>7
<1> HIDE DEF w, Rec
<1>5. Rec(CHOOSE g : Rec(g))
  BY <1>3, Zenon
<1>6. (CHOOSE g : Rec(g)) = w
  BY <1>3, <1>4, <1>5, Zenon
<1> QED BY <1>1, <1>6 DEF w

(* Length finds nelts, and Contents the values along the path.             *)
LEMMA ContentsIs ==
  ASSUME nelts \in Nat, NEW f, Path(f), head \in Node, tail \in Node
  PROVE  /\ Length = nelts
         /\ \A i \in 0 .. nelts : Walk[i] = f[i]
         /\ Contents = [i \in 1 .. nelts |-> val[f[i]]]
<1>1. PICK N \in Nat : N = Cardinality(Node) /\ nelts + 1 <= N
  BY PathFits
<1>2. Walk = [i \in 0 .. N |-> IF i <= nelts THEN f[i] ELSE Null]
  BY <1>1, WalkIs
<1>3. \A i \in 0 .. nelts : Walk[i] = f[i]
  BY <1>1, <1>2
<1>4. f[nelts] = tail /\ \A i, j \in 0 .. nelts : f[i] = f[j] => i = j
  BY DEF Path
<1> DEFINE Reaches(n) == Walk[n] = tail /\ \A m \in 0 .. n - 1 : Walk[m] # tail
<1>5. nelts \in 0 .. N /\ Reaches(nelts)
  BY <1>1, <1>3, <1>4
<1>6. ASSUME NEW n \in 0 .. N, Reaches(n) PROVE n = nelts
  <2>1. ~(nelts < n)
    <3> SUFFICES ASSUME nelts < n PROVE FALSE
      OBVIOUS
    <3>1. nelts \in 0 .. n - 1
      BY <1>1
    <3>2. Walk[nelts] # tail
      BY <1>6, <3>1
    <3>3. Walk[nelts] = tail
      BY <1>5
    <3> QED BY <3>2, <3>3
  <2>2. n \in 0 .. nelts
    BY <1>1, <2>1
  <2>3. Walk[n] = f[n] /\ Walk[n] = tail
    BY <1>3, <1>6, <2>2
  <2>4. f[n] = f[nelts] /\ nelts \in 0 .. nelts
    BY <1>4, <2>3
  <2> QED BY <1>4, <2>2, <2>4
<1>7. Length = CHOOSE n \in 0 .. N : Reaches(n)
  BY <1>1 DEF Length
<1> HIDE DEF Reaches
<1>8. Length = nelts
  BY <1>5, <1>6, <1>7
<1>9. Contents = [i \in 1 .. nelts |-> val[Walk[i]]]
  BY <1>8 DEF Contents
<1>10. \A i \in 1 .. nelts : val[Walk[i]] = val[f[i]]
  BY <1>3
<1>11. [i \in 1 .. nelts |-> val[Walk[i]]] = [i \in 1 .. nelts |-> val[f[i]]]
  BY <1>10
<1> QED BY <1>3, <1>8, <1>9, <1>11

-----------------------------------------------------------------------------
(* What a thread holds.                                                    *)

(* A thread inside has the mutex, is in the function its pc belongs to,    *)
(* and, about to append, has an entry filled with its value.  Once the     *)
(* queue is destroyed only poppers that were waiting are inside.           *)
CallOK(t) ==
  /\ pc[t] = "idle" <=> op[t] = "none"
  /\ pc[t] \in {"alloc", "append"} => op[t] \in PushOps
  /\ pc[t] = "look" => op[t] \in PopOps /\ t \in Popper
  /\ pc[t] = "wait" => op[t] = "pop" /\ t \in Popper
  /\ pc[t] = "lock" => op[t] \in PushOps \/ (op[t] \in PopOps /\ t \in Popper)
  /\ pc[t] \in {"alloc", "append", "look"} => mutex = t
  /\ destroyed => pc[t] \in {"idle", "wait"} /\ t \notin waiting
  /\ t \in waiting => pc[t] = "wait"
  /\ pc[t] = "append" => elts[t] \in Node /\ nxt[elts[t]] = Null /\ val[elts[t]] = arg[t]

CallInv == \A t \in Thread : CallOK(t)

(* empty_waiters counts the pops that wait, or are on their way out of the *)
(* wait.                                                                   *)
Sleepers == {t \in Thread : pc[t] = "wait"}
CountInv == emptyWaiters = Cardinality(Sleepers)

Types == TypeOK /\ CallInv /\ CountInv

-----------------------------------------------------------------------------

LEMMA InitTypes == Init => Types
<1> SUFFICES ASSUME Init PROVE Types
  OBVIOUS
<1> USE DEF Init
<1>1. head \in Node
  OBVIOUS
<1>2. TypeOK
  BY <1>1 DEF TypeOK
<1>3. CallInv
  BY DEF CallInv, CallOK
<1>4. Sleepers = {}
  BY DEF Sleepers
<1>5. CountInv
  BY <1>4, FS_EmptySet DEF CountInv
<1> QED BY <1>2, <1>3, <1>5 DEF Types

LEMMA OpsDiffer ==
  /\ \A o \in PushOps : o \notin PopOps /\ o # "none" /\ o # "pop" /\ o # "trypop"
  /\ \A o \in PopOps : o \notin PushOps /\ o # "none"
BY DEF QueueAssumption

LEMMA CallTypes ==
  ASSUME Types, NEW t \in Thread, Call(t)
  PROVE  Types'
<1>1. PICK o \in PushOps \cup PopOps :
        /\ pc[t] = "idle" /\ ~destroyed
        /\ pc' = [pc EXCEPT ![t] = "lock"] /\ op' = [op EXCEPT ![t] = o]
        /\ o \in PopOps => t \in Popper
        /\ UNCHANGED <<listVars, condVars, mutex, elts, res>>
  BY DEF Call, CallPush, CallPop
<1>2. arg' \in [Thread -> Value \cup {Null}] /\ \A u \in Thread : u # t => arg'[u] = arg[u]
  BY DEF Call, CallPush, CallPop, Types, TypeOK
<1>3. TypeOK'
  BY <1>1, <1>2 DEF Types, TypeOK, listVars, condVars
<1>4. ASSUME NEW u \in Thread, u # t PROVE pc'[u] = pc[u] /\ op'[u] = op[u]
  BY <1>1, <1>4 DEF Types, TypeOK
<1>5. pc'[t] = "lock" /\ op'[t] = o /\ o # "none"
  BY <1>1, OpsDiffer DEF Types, TypeOK
<1>6. CallOK(t)'
  <2>1. t \notin waiting
    BY <1>1 DEF Types, CallInv, CallOK
  <2> QED BY <1>1, <1>5, <2>1 DEF CallOK, condVars
<1>7. ASSUME NEW u \in Thread, u # t PROVE CallOK(u)'
  BY <1>1, <1>2, <1>4, <1>7 DEF Types, CallInv, CallOK, listVars, condVars
<1>8. Sleepers' = Sleepers
  BY <1>1, <1>4, <1>5 DEF Sleepers
<1>9. CountInv'
  BY <1>1, <1>8 DEF Types, CountInv, condVars
<1> QED BY <1>3, <1>6, <1>7, <1>9 DEF Types, CallInv

(* What a call that ends leaves of the other calls.                        *)
LEMMA ReturnTypes ==
  ASSUME Types, NEW t \in Thread, NEW r \in Value \cup {Null}, Return(t, r)
  PROVE  /\ pc' \in [Thread -> {"idle", "lock", "alloc", "append", "look", "wait"}]
         /\ op' \in [Thread -> PushOps \cup PopOps \cup {"none"}]
         /\ arg' \in [Thread -> Value \cup {Null}] /\ elts' \in [Thread -> Node \cup {Null}]
         /\ res' \in [Thread -> Value \cup {Null}]
         /\ \A u \in Thread : u # t => /\ pc'[u] = pc[u] /\ op'[u] = op[u]
                                       /\ arg'[u] = arg[u] /\ elts'[u] = elts[u]
         /\ pc'[t] = "idle" /\ op'[t] = "none"
BY DEF Return, Types, TypeOK

(* A thread that does not hold the mutex is not inside.                    *)
LEMMA Outside ==
  ASSUME Types, NEW u \in Thread, mutex # u
  PROVE  pc[u] \notin {"alloc", "append", "look"}
BY DEF Types, CallInv, CallOK

(* A thread that is not inside is not disturbed by one that is.            *)
LEMMA OtherCall ==
  ASSUME Types, NEW u \in Thread, mutex # u, pc'[u] = pc[u], op'[u] = op[u],
         UNCHANGED destroyed, u \in waiting' => u \in waiting
  PROVE  CallOK(u)'
BY Outside DEF Types, CallInv, CallOK

LEMMA SleepersFinite == IsFiniteSet(Sleepers)
BY FS_Subset DEF Sleepers

(* Nobody begins or ends to wait.                                          *)
LEMMA SameSleepers ==
  ASSUME Types, UNCHANGED emptyWaiters,
         \A u \in Thread : pc'[u] = "wait" <=> pc[u] = "wait"
  PROVE  CountInv'
<1>1. Sleepers' = Sleepers
  BY DEF Sleepers
<1> QED BY <1>1 DEF Types, CountInv

LEMMA LockTypes ==
  ASSUME Types, NEW t \in Thread, Lock(t)
  PROVE  Types'
<1>1. /\ pc[t] = "lock" /\ mutex = NoThread /\ mutex' = t
      /\ pc' = [pc EXCEPT ![t] = IF op[t] \in PushOps THEN "alloc" ELSE "look"]
      /\ UNCHANGED <<listVars, condVars, callVars>>
  BY DEF Lock
<1>2. TypeOK'
  BY <1>1 DEF Types, TypeOK, listVars, condVars, callVars
<1>3. pc'[t] = (IF op[t] \in PushOps THEN "alloc" ELSE "look") /\ pc'[t] # "wait"
  BY <1>1 DEF Types, TypeOK
<1>4. CallOK(t)'
  BY <1>1, <1>3, OpsDiffer DEF Types, CallInv, CallOK, condVars, callVars
<1>5. \A u \in Thread : u # t => pc'[u] = pc[u]
  BY <1>1 DEF Types, TypeOK
<1>6. \A u \in Thread : u # t => CallOK(u)'
  BY <1>1, <1>5, OtherCall DEF condVars, callVars
<1>7. CountInv'
  BY <1>1, <1>3, <1>5, SameSleepers DEF condVars
<1> QED BY <1>2, <1>4, <1>6, <1>7 DEF Types, CallInv

LEMMA PopWakeTypes ==
  ASSUME Types, NEW t \in Thread, PopWake(t)
  PROVE  Types'
<1>1. /\ pc[t] = "wait" /\ t \notin waiting /\ mutex = NoThread /\ mutex' = t
      /\ emptyWaiters' = emptyWaiters - 1
      /\ UNCHANGED <<listVars, waiting, destroyed>>
      /\ \/ destroyed /\ Return(t, Null)
         \/ ~destroyed /\ pc' = [pc EXCEPT ![t] = "look"] /\ UNCHANGED callVars
  BY DEF PopWake
<1>2. CountInv' /\ emptyWaiters' \in Nat
  <2>1. Sleepers' = Sleepers \ {t} /\ t \in Sleepers
    BY <1>1 DEF Sleepers, Return, Types, TypeOK
  <2>2. IsFiniteSet(Sleepers)
    BY SleepersFinite
  <2>3. Cardinality(Sleepers \ {t}) = Cardinality(Sleepers) - 1 /\ IsFiniteSet(Sleepers \ {t})
    BY <2>1, <2>2, FS_RemoveElement
  <2>4. Cardinality(Sleepers \ {t}) \in Nat
    BY <2>3, FS_CardinalityType
  <2> QED BY <1>1, <2>1, <2>3, <2>4 DEF Types, CountInv
<1>3. TypeOK'
  <2>1. CASE Return(t, Null)
    BY <1>1, <1>2, <2>1, ReturnTypes DEF Types, TypeOK, listVars
  <2>2. CASE pc' = [pc EXCEPT ![t] = "look"] /\ UNCHANGED callVars
    BY <1>1, <1>2, <2>2 DEF Types, TypeOK, listVars, callVars
  <2> QED BY <1>1, <2>1, <2>2
<1>4. \A u \in Thread : u # t => pc'[u] = pc[u] /\ op'[u] = op[u]
  BY <1>1, ReturnTypes DEF Types, TypeOK, callVars
<1>5. \A u \in Thread : u # t => CallOK(u)'
  BY <1>1, <1>4, OtherCall
<1>6. CallOK(t)'
  <2>1. CASE destroyed /\ Return(t, Null)
    BY <1>1, <2>1, ReturnTypes DEF CallOK
  <2>2. CASE ~destroyed /\ pc' = [pc EXCEPT ![t] = "look"] /\ UNCHANGED callVars
    <3>1. pc'[t] = "look" /\ op[t] = "pop" /\ t \in Popper /\ op' = op
      BY <1>1, <2>2 DEF Types, TypeOK, CallInv, CallOK, callVars
    <3>2. "pop" \in PopOps
      BY <1>1, <3>1, OpsDiffer DEF Types, TypeOK
    <3> QED BY <1>1, <2>2, <3>1, <3>2 DEF CallOK
  <2> QED BY <1>1, <2>1, <2>2
<1> QED BY <1>2, <1>3, <1>5, <1>6 DEF Types, CallInv

LEMMA WaitTypes ==
  ASSUME Types, NEW t \in Thread, PopWait(t)
  PROVE  Types'
<1>1. /\ pc[t] = "look" /\ op[t] = "pop" /\ mutex' = NoThread
      /\ emptyWaiters' = emptyWaiters + 1
      /\ waiting' = waiting \cup {t}
      /\ pc' = [pc EXCEPT ![t] = "wait"]
      /\ UNCHANGED <<listVars, destroyed, callVars>>
      /\ mutex = t /\ t \in Popper /\ ~destroyed
  BY DEF PopWait, Types, CallInv, CallOK
<1>2. CountInv' /\ emptyWaiters' \in Nat
  <2>1. Sleepers' = Sleepers \cup {t} /\ t \notin Sleepers
    BY <1>1 DEF Sleepers, Types, TypeOK
  <2>2. IsFiniteSet(Sleepers)
    BY SleepersFinite
  <2>3. Cardinality(Sleepers \cup {t}) = Cardinality(Sleepers) + 1
    BY <2>1, <2>2, FS_AddElement
  <2> QED BY <1>1, <2>1, <2>3 DEF Types, CountInv, TypeOK
<1>3. TypeOK'
  BY <1>1, <1>2 DEF Types, TypeOK, listVars, callVars
<1>4. /\ \A u \in Thread : u # t => pc'[u] = pc[u]
      /\ pc'[t] = "wait"
  BY <1>1 DEF Types, TypeOK
<1>5. \A u \in Thread : u # t => CallOK(u)'
  BY <1>1, <1>4, OtherCall DEF callVars
<1>6. CallOK(t)'
  BY <1>1, <1>4 DEF CallOK, callVars
<1> QED BY <1>2, <1>3, <1>5, <1>6 DEF Types, CallInv

LEMMA AllocTypes ==
  ASSUME Types, NEW t \in Thread, PushAlloc(t)
  PROVE  Types'
<1>1. PICK n \in free :
        /\ free' = free \ {n}
        /\ nxt' = [nxt EXCEPT ![n] = Null]
        /\ val' = [val EXCEPT ![n] = arg[t]]
        /\ elts' = [elts EXCEPT ![t] = n]
  BY DEF PushAlloc
<1>2. /\ pc[t] = "alloc" /\ pc' = [pc EXCEPT ![t] = "append"]
      /\ UNCHANGED <<head, tail, nelts, condVars, mutex, op, arg, res>>
      /\ mutex = t /\ op[t] \in PushOps /\ ~destroyed /\ t \notin waiting
  BY DEF PushAlloc, Types, CallInv, CallOK
<1>3. TypeOK'
  BY <1>1, <1>2 DEF Types, TypeOK, condVars
<1>4. /\ \A u \in Thread : u # t => pc'[u] = pc[u]
      /\ pc'[t] = "append" /\ elts'[t] = n /\ n \in Node
      /\ nxt'[n] = Null /\ val'[n] = arg[t]
  BY <1>1, <1>2 DEF Types, TypeOK
<1>5. \A u \in Thread : u # t => CallOK(u)'
  BY <1>2, <1>4, OtherCall DEF condVars
<1>6. CallOK(t)'
  BY <1>2, <1>4, OpsDiffer DEF CallOK, condVars
<1>7. CountInv'
  BY <1>2, <1>4, SameSleepers DEF condVars
<1> QED BY <1>3, <1>5, <1>6, <1>7 DEF Types, CallInv

(* PushNoMem, PushAppend, PopTake and TryPopEmpty end a call.              *)
LEMMA EndTypes ==
  ASSUME Types, NEW t \in Thread, NEW r \in Value \cup {Null}, Return(t, r),
         pc[t] \in {"alloc", "append", "look"}, mutex' = NoThread,
         head' \in Node, tail' \in Node, nxt' \in [Node -> Node \cup {Null}], UNCHANGED val,
         free' \subseteq Node, nelts' \in Nat, waiting' \subseteq waiting,
         UNCHANGED <<emptyWaiters, destroyed>>
  PROVE  Types'
<1>1. mutex = t /\ ~destroyed /\ t \notin waiting
  BY DEF Types, CallInv, CallOK
<1>2. TypeOK'
  BY ReturnTypes DEF Types, TypeOK
<1>3. \A u \in Thread : u # t => CallOK(u)'
  BY <1>1, ReturnTypes, OtherCall
<1>4. CallOK(t)'
  BY <1>1, ReturnTypes DEF CallOK
<1>5. CountInv'
  BY ReturnTypes, SameSleepers
<1> QED BY <1>2, <1>3, <1>4, <1>5 DEF Types, CallInv

LEMMA SignalIs ==
  ASSUME NEW t \in Thread, SignalNotEmpty(t)
  PROVE  waiting' \subseteq waiting
BY DEF SignalNotEmpty

LEMMA SpuriousTypes ==
  ASSUME Types, NEW t \in Thread, SpuriousWake(t)
  PROVE  Types'
<1>1. /\ waiting' = waiting \ {t}
      /\ UNCHANGED <<listVars, emptyWaiters, destroyed, mutex, pc, callVars>>
  BY DEF SpuriousWake
<1>2. TypeOK'
  BY <1>1 DEF Types, TypeOK, listVars, callVars
<1>3. CallInv'
  BY <1>1 DEF Types, CallInv, CallOK, listVars, callVars
<1>4. CountInv'
  BY <1>1, SameSleepers
<1> QED BY <1>2, <1>3, <1>4 DEF Types

LEMMA DestroyTypes ==
  ASSUME Types, Destroy
  PROVE  Types'
<1>1. /\ \A t \in Thread : pc[t] \in {"idle", "wait"}
      /\ destroyed' = TRUE /\ waiting' = {}
      /\ UNCHANGED <<listVars, emptyWaiters, mutex, pc, callVars>>
  BY DEF Destroy
<1>2. TypeOK'
  BY <1>1 DEF Types, TypeOK, listVars, callVars
<1>3. CallInv'
  BY <1>1 DEF Types, CallInv, CallOK, listVars, callVars
<1>4. CountInv'
  BY <1>1, SameSleepers
<1> QED BY <1>2, <1>3, <1>4 DEF Types

-----------------------------------------------------------------------------
(* The list.                                                               *)

(* The entries in the hands of a push.                                     *)
Hands == {elts[t] : t \in {u \in Thread : pc[u] = "append"}}

(* Through the entries that are neither free nor in hand runs one path.    *)
Way(f) ==
  /\ Path(f)
  /\ \A n \in Node : (\E i \in 0 .. nelts : f[i] = n) <=> n \notin free \cup Hands

ListInv == (\E f : Way(f)) /\ free \cap Hands = {}

ContentsAre ==
  TypeOK => \A f : Path(f) => /\ Length = nelts
                              /\ \A i \in 0 .. nelts : Walk[i] = f[i]
                              /\ Contents = [i \in 1 .. nelts |-> val[f[i]]]

LEMMA ContentsNow == ContentsAre
BY ContentsIs DEF ContentsAre, TypeOK

LEMMA ContentsNext == ContentsAre'
BY ContentsNow, PTL

LEMMA NoHands ==
  ASSUME Types, NEW t \in Thread \cup {NoThread}, mutex = t, t \in Thread => pc[t] # "append"
  PROVE  Hands = {}
BY Outside DEF Hands

LEMMA OneHand ==
  ASSUME Types, NEW t \in Thread, pc[t] = "append"
  PROVE  Hands = {elts[t]}
BY Outside DEF Hands, Types, CallInv, CallOK

LEMMA InitList == Init => ListInv
<1> SUFFICES ASSUME Init PROVE ListInv
  OBVIOUS
<1> USE DEF Init
<1>1. Hands = {}
  BY DEF Hands
<1> DEFINE f == [i \in 0 .. 0 |-> head]
<1>2. head \in Node /\ nelts = 0
  OBVIOUS
<1>3. Path(f)
  BY <1>2 DEF Path
<1>4. \A n \in Node : (\E i \in 0 .. nelts : f[i] = n) <=> n \notin free \cup Hands
  BY <1>1, <1>2
<1> QED BY <1>1, <1>3, <1>4 DEF Way, ListInv

(* What the path is tells the values inside.                               *)
LEMMA ContentsType ==
  ASSUME TypeOK, NEW f, Path(f)
  PROVE  /\ Contents = [i \in 1 .. nelts |-> val[f[i]]]
         /\ Contents \in Seq(Value \cup {Null}) /\ Len(Contents) = nelts
<1>1. Contents = [i \in 1 .. nelts |-> val[f[i]]]
  BY ContentsNow DEF ContentsAre
<1>2. \A i \in 1 .. nelts : val[f[i]] \in Value \cup {Null}
  BY DEF Path, TypeOK
<1>3. nelts \in Nat
  BY DEF TypeOK
<1> QED BY <1>1, <1>2, <1>3

(* A step that touches neither the list nor what is in hand.               *)
LEMMA SameList ==
  ASSUME Types, TypeOK', ListInv, UNCHANGED listVars, Hands' = Hands
  PROVE  ListInv' /\ Contents' = Contents
<1>1. PICK f : Way(f)
  BY DEF ListInv
<1>2. Way(f)'
  BY <1>1 DEF Way, Path, listVars
<1>3. Contents = [i \in 1 .. nelts |-> val[f[i]]]
  BY <1>1, ContentsNow DEF ContentsAre, Types, Way
<1>4. Contents' = [i \in 1 .. nelts |-> val[f[i]]]
  BY <1>2, ContentsNext DEF ContentsAre, Way, listVars
<1>5. free' \cap Hands' = {}
  BY DEF ListInv, listVars
<1> QED BY <1>2, <1>3, <1>4, <1>5 DEF ListInv

LEMMA AllocList ==
  ASSUME Types, Types', ListInv, NEW t \in Thread, PushAlloc(t)
  PROVE  ListInv' /\ Contents' = Contents
<1>1. PICK n \in free :
        /\ free' = free \ {n}
        /\ nxt' = [nxt EXCEPT ![n] = Null]
        /\ val' = [val EXCEPT ![n] = arg[t]]
        /\ elts' = [elts EXCEPT ![t] = n]
  BY DEF PushAlloc
<1>2. /\ pc[t] = "alloc" /\ pc' = [pc EXCEPT ![t] = "append"] /\ mutex = t
      /\ UNCHANGED <<head, tail, nelts>>
  BY DEF PushAlloc, Types, CallInv, CallOK
<1>3. PICK f : Way(f)
  BY DEF ListInv
<1>4. n \in Node /\ nelts \in Nat /\ free \subseteq Node
  BY DEF Types, TypeOK
<1>5. Hands = {} /\ Hands' = {n}
  <2>1. Hands = {}
    BY <1>2, NoHands
  <2>2. \A u \in Thread : pc'[u] = "append" <=> u = t
    BY <1>2, Outside DEF Types, TypeOK
  <2>3. elts'[t] = n
    BY <1>1 DEF Types, TypeOK
  <2> QED BY <2>1, <2>2, <2>3 DEF Hands
<1>6. \A i \in 0 .. nelts : f[i] # n
  BY <1>3, <1>4 DEF Way
<1>7. f \in [0 .. nelts -> Node] /\ f[nelts] = tail
  BY <1>3 DEF Way, Path
<1>8. \A i \in 0 .. nelts : nxt'[f[i]] = nxt[f[i]] /\ val'[f[i]] = val[f[i]]
  BY <1>1, <1>6, <1>7 DEF Types, TypeOK
<1>9. Path(f)'
  <2>1. nxt'[tail] = nxt[tail]
    BY <1>4, <1>7, <1>8
  <2>2. \A i \in 0 .. nelts - 1 : nxt'[f[i]] = f[i + 1]
    <3>1. \A i \in 0 .. nelts - 1 : i \in 0 .. nelts /\ nxt[f[i]] = f[i + 1]
      BY <1>3, <1>4 DEF Way, Path
    <3> QED BY <1>8, <3>1
  <2> QED BY <1>2, <1>3, <2>1, <2>2 DEF Way, Path
<1>10. Way(f)'
  <2>1. free' \cup Hands' = free \cup Hands
    BY <1>1, <1>5
  <2> QED BY <1>2, <1>3, <1>9, <2>1 DEF Way
<1>11. free' \cap Hands' = {}
  BY <1>1, <1>5
<1>12. Contents = [i \in 1 .. nelts |-> val[f[i]]]
  BY <1>3, ContentsNow DEF ContentsAre, Types, Way
<1>13. Contents' = [i \in 1 .. nelts |-> val'[f[i]]]
  BY <1>2, <1>9, ContentsNext DEF ContentsAre, Types
<1>14. Contents' = Contents
  BY <1>8, <1>12, <1>13
<1> QED BY <1>10, <1>11, <1>14 DEF ListInv

LEMMA AppendList ==
  ASSUME Types, ListInv, NEW t \in Thread, PushAppend(t)
  PROVE  /\ Types' /\ ListInv' /\ nelts' = nelts + 1
         /\ Contents \in Seq(Value \cup {Null}) /\ Contents' = Append(Contents, arg[t])
<1>1. PICK e \in Node : e = elts[t] /\ nxt[e] = Null /\ val[e] = arg[t]
  BY DEF PushAppend, Types, CallInv, CallOK
<1>2. /\ pc[t] = "append" /\ Return(t, arg[t]) /\ SignalNotEmpty(t) /\ mutex' = NoThread
      /\ nxt' = [nxt EXCEPT ![tail] = e] /\ tail' = e /\ nelts' = nelts + 1
      /\ UNCHANGED <<head, val, free, emptyWaiters, destroyed>>
  BY <1>1 DEF PushAppend
<1>3. /\ nelts \in Nat /\ tail \in Node /\ arg[t] \in Value \cup {Null}
      /\ nxt \in [Node -> Node \cup {Null}] /\ head \in Node /\ free \subseteq Node
  BY DEF Types, TypeOK
<1>4. Types'
  BY <1>2, <1>3, SignalIs, EndTypes
<1>5. PICK f : Way(f)
  BY DEF ListInv
<1>6. /\ f \in [0 .. nelts -> Node] /\ f[0] = head /\ f[nelts] = tail /\ nxt[tail] = Null
      /\ \A i \in 0 .. nelts - 1 : nxt[f[i]] = f[i + 1]
      /\ \A i, j \in 0 .. nelts : f[i] = f[j] => i = j
      /\ \A n \in Node : (\E i \in 0 .. nelts : f[i] = n) <=> n \notin free \cup Hands
  BY <1>5 DEF Way, Path
<1>7. Hands = {e} /\ Hands' = {}
  <2>1. Hands = {e}
    BY <1>1, <1>2, OneHand
  <2>2. \A u \in Thread : pc'[u] # "append"
    <3>1. pc'[t] = "idle" /\ \A u \in Thread : u # t => pc'[u] = pc[u]
      BY <1>2, <1>3, ReturnTypes
    <3>2. mutex = t
      BY <1>2 DEF Types, CallInv, CallOK
    <3> QED BY <3>1, <3>2, Outside
  <2> QED BY <2>1, <2>2 DEF Hands
<1>8. \A i \in 0 .. nelts : f[i] # e
  BY <1>1, <1>6, <1>7
<1>0. PICK m \in Nat : m = nelts
  BY <1>3
<1> DEFINE g == [i \in 0 .. m + 1 |-> IF i <= m THEN f[i] ELSE e]
<1>9. /\ g \in [0 .. nelts + 1 -> Node]
      /\ \A i \in 0 .. nelts : g[i] = f[i] /\ g[i] # e
      /\ g[nelts + 1] = e
  BY <1>0, <1>1, <1>3, <1>6, <1>8
<1> HIDE DEF g
<1>10. Path(g)'
  <2>1. g[0] = head /\ g[nelts + 1] = e
    BY <1>3, <1>6, <1>9
  <2>2. nxt'[e] = Null
    <3>1. e # tail
      BY <1>3, <1>6, <1>8
    <3> QED BY <1>1, <1>2, <1>3, <3>1
  <2>3. ASSUME NEW i \in 0 .. nelts PROVE nxt'[g[i]] = g[i + 1]
    <3>1. CASE i = nelts
      <4>1. g[i] = tail /\ g[i + 1] = e
        BY <1>3, <1>6, <1>9, <3>1
      <4> QED BY <1>2, <1>3, <4>1
    <3>2. CASE i # nelts
      <4>1. i \in 0 .. nelts - 1 /\ i + 1 \in 0 .. nelts /\ nelts \in 0 .. nelts
        BY <1>3, <3>2
      <4>2. nxt[f[i]] = f[i + 1] /\ f[i] # tail /\ f[i] \in Node
        BY <1>6, <3>2, <4>1
      <4>3. g[i] = f[i] /\ g[i + 1] = f[i + 1]
        BY <1>9, <4>1
      <4> QED BY <1>2, <1>3, <4>2, <4>3
    <3> QED BY <3>1, <3>2
  <2>4. ASSUME NEW i \in 0 .. nelts + 1, NEW j \in 0 .. nelts + 1, g[i] = g[j] PROVE i = j
    <3>1. CASE i \in 0 .. nelts /\ j \in 0 .. nelts
      BY <1>6, <1>9, <2>4, <3>1
    <3>2. CASE i = nelts + 1 \/ j = nelts + 1
      BY <1>3, <1>9, <2>4, <3>2
    <3> QED BY <1>3, <3>1, <3>2
  <2>5. /\ nelts' = nelts + 1 /\ head' = head /\ tail' = e
        /\ 0 .. nelts' = 0 .. nelts + 1 /\ 0 .. nelts' - 1 = 0 .. nelts
    BY <1>2, <1>3
  <2>6. g \in [0 .. nelts' -> Node] /\ g[0] = head' /\ g[nelts'] = tail' /\ nxt'[tail'] = Null
    BY <1>9, <2>1, <2>2, <2>5
  <2>7. \A i \in 0 .. nelts' - 1 : nxt'[g[i]] = g[i + 1]
    BY <2>3, <2>5
  <2>8. \A i, j \in 0 .. nelts' : g[i] = g[j] => i = j
    BY <2>4, <2>5
  <2> QED BY <2>6, <2>7, <2>8 DEF Path
<1>11. Way(g)'
  <2>1. ASSUME NEW n \in Node
        PROVE  (\E i \in 0 .. nelts + 1 : g[i] = n) <=> n \notin free
    <3>1. (\E i \in 0 .. nelts + 1 : g[i] = n) <=> (\E i \in 0 .. nelts : f[i] = n) \/ n = e
      <4>1. \A i \in 0 .. nelts + 1 : i \in 0 .. nelts \/ i = nelts + 1
        BY <1>3
      <4>2. 0 .. nelts \subseteq 0 .. nelts + 1 /\ nelts + 1 \in 0 .. nelts + 1
        BY <1>3
      <4> QED BY <1>9, <4>1, <4>2
    <3>2. e \notin free
      BY <1>7 DEF ListInv
    <3> QED BY <1>6, <1>7, <3>1, <3>2
  <2>2. 0 .. nelts' = 0 .. nelts + 1 /\ free' \cup Hands' = free
    BY <1>2, <1>7
  <2> QED BY <1>10, <2>1, <2>2 DEF Way
<1>12. Contents \in Seq(Value \cup {Null}) /\ Len(Contents) = nelts
       /\ Contents = [i \in 1 .. nelts |-> val[f[i]]]
  BY <1>5, ContentsType DEF Types, Way
<1>13. Contents' = [i \in 1 .. nelts + 1 |-> val[g[i]]]
  <2>1. Contents' = [i \in 1 .. nelts' |-> val'[g[i]]]
    BY <1>4, <1>10, ContentsNext DEF ContentsAre, Types
  <2> QED BY <1>2, <2>1
<1>14. Contents' = Append(Contents, arg[t])
  <2>1. Append(Contents, arg[t]) =
          [i \in 1 .. nelts + 1 |-> IF i <= nelts THEN Contents[i] ELSE arg[t]]
    BY <1>3, <1>12
  <2>2. ASSUME NEW i \in 1 .. nelts + 1
        PROVE  val[g[i]] = IF i <= nelts THEN Contents[i] ELSE arg[t]
    <3>1. CASE i <= nelts
      BY <1>9, <1>12, <3>1
    <3>2. CASE i = nelts + 1
      BY <1>1, <1>3, <1>9, <3>2
    <3> QED BY <1>3, <3>1, <3>2
  <2> QED BY <1>13, <2>1, <2>2
<1>15. free' \cap Hands' = {}
  BY <1>7
<1> QED BY <1>2, <1>4, <1>11, <1>12, <1>14, <1>15 DEF ListInv

LEMMA TakeList ==
  ASSUME Types, ListInv, NEW t \in Thread, PopTake(t)
  PROVE  /\ Types' /\ ListInv' /\ nelts > 0 /\ nelts' = nelts - 1
         /\ Contents # <<>> /\ Contents' = Tail(Contents) /\ FirstValue = Head(Contents)
<1>1. /\ pc[t] = "look" /\ head # tail /\ Return(t, FirstValue) /\ mutex' = NoThread
      /\ head' = nxt[head] /\ free' = free \cup {head} /\ nelts' = nelts - 1
      /\ UNCHANGED <<tail, nxt, val, condVars>>
      /\ mutex = t
  BY DEF PopTake, Unlink, Types, CallInv, CallOK
<1>2. /\ nelts \in Nat /\ tail \in Node /\ head \in Node /\ free \subseteq Node
      /\ nxt \in [Node -> Node \cup {Null}] /\ val \in [Node -> Value \cup {Null}]
  BY DEF Types, TypeOK
<1>3. PICK f : Way(f)
  BY DEF ListInv
<1>4. /\ f \in [0 .. nelts -> Node] /\ f[0] = head /\ f[nelts] = tail /\ nxt[tail] = Null
      /\ \A i \in 0 .. nelts - 1 : nxt[f[i]] = f[i + 1]
      /\ \A i, j \in 0 .. nelts : f[i] = f[j] => i = j
      /\ \A n \in Node : (\E i \in 0 .. nelts : f[i] = n) <=> n \notin free \cup Hands
  BY <1>3 DEF Way, Path
<1>5. nelts # 0
  BY <1>1, <1>4
<1>6. PICK n \in Nat : n = nelts - 1 /\ nelts = n + 1
  BY <1>2, <1>5
<1>7. nxt[head] = f[1] /\ f[1] \in Node /\ 0 + 1 = 1
  BY <1>4, <1>6
<1>8. FirstValue = val[f[1]] /\ FirstValue \in Value \cup {Null}
  BY <1>2, <1>7 DEF FirstValue
<1>9. Types'
  BY <1>1, <1>2, <1>6, <1>7, <1>8, EndTypes DEF condVars
<1>10. Hands = {} /\ Hands' = {}
  <2>1. Hands = {}
    BY <1>1, NoHands
  <2>2. \A u \in Thread : pc'[u] # "append"
    <3>1. pc'[t] = "idle" /\ \A u \in Thread : u # t => pc'[u] = pc[u]
      BY <1>1, <1>8, ReturnTypes
    <3> QED BY <1>1, <3>1, Outside
  <2> QED BY <2>1, <2>2 DEF Hands
<1> DEFINE g == [i \in 0 .. n |-> f[i + 1]]
<1>11. /\ g \in [0 .. n -> Node]
       /\ \A i \in 0 .. n : g[i] = f[i + 1] /\ i + 1 \in 0 .. nelts
  BY <1>4, <1>6
<1> HIDE DEF g
<1>12. 0 .. nelts' = 0 .. n /\ 0 .. nelts' - 1 = 0 .. n - 1 /\ nelts' = n
  BY <1>1, <1>6
<1>13. Path(g)'
  <2>1. g[0] = f[1] /\ g[n] = tail
    BY <1>4, <1>6, <1>7, <1>11
  <2>2. ASSUME NEW i \in 0 .. n - 1 PROVE nxt[g[i]] = g[i + 1]
    <3>1. i \in 0 .. n /\ i + 1 \in 0 .. n /\ i + 1 \in 0 .. nelts - 1
      BY <1>6
    <3> QED BY <1>4, <1>11, <3>1
  <2>3. ASSUME NEW i \in 0 .. n, NEW j \in 0 .. n, g[i] = g[j] PROVE i = j
    <3>1. i + 1 \in 0 .. nelts /\ j + 1 \in 0 .. nelts /\ f[i + 1] = f[j + 1]
      BY <1>11, <2>3
    <3>2. i + 1 = j + 1
      BY <1>4, <3>1
    <3> QED BY <3>2
  <2>4. g[0] = head' /\ g[nelts'] = tail' /\ nxt'[tail'] = Null
    BY <1>1, <1>4, <1>7, <1>12, <2>1
  <2>5. g \in [0 .. nelts' -> Node]
    BY <1>11, <1>12
  <2>6. \A i \in 0 .. nelts' - 1 : nxt'[g[i]] = g[i + 1]
    BY <1>1, <1>12, <2>2
  <2>7. \A i, j \in 0 .. nelts' : g[i] = g[j] => i = j
    BY <1>12, <2>3
  <2> QED BY <2>4, <2>5, <2>6, <2>7 DEF Path
<1>14. Way(g)'
  <2>1. ASSUME NEW m \in Node
        PROVE  (\E i \in 0 .. n : g[i] = m) <=> m \notin free \cup {head}
    <3>1. ASSUME NEW i \in 0 .. n, g[i] = m PROVE m \notin free \cup {head}
      <4>1. i + 1 \in 0 .. nelts /\ f[i + 1] = m /\ i + 1 # 0 /\ 0 \in 0 .. nelts
        BY <1>2, <1>11, <3>1
      <4> QED BY <1>4, <4>1
    <3>2. ASSUME m \notin free \cup {head} PROVE \E i \in 0 .. n : g[i] = m
      <4>1. PICK j \in 0 .. nelts : f[j] = m
        BY <1>4, <1>10, <3>2
      <4>2. j # 0
        BY <1>4, <3>2, <4>1
      <4>3. j - 1 \in 0 .. n /\ (j - 1) + 1 = j
        BY <1>6, <4>2
      <4> QED BY <1>11, <4>1, <4>3
    <3> QED BY <3>1, <3>2
  <2>2. free' \cup Hands' = free \cup {head}
    BY <1>1, <1>10
  <2> QED BY <1>12, <1>13, <2>1, <2>2 DEF Way
<1>15. Contents \in Seq(Value \cup {Null}) /\ Len(Contents) = nelts
       /\ Contents = [i \in 1 .. nelts |-> val[f[i]]]
  BY <1>3, ContentsType DEF Types, Way
<1>16. Contents' = [i \in 1 .. n |-> val[g[i]]]
  <2>1. Contents' = [i \in 1 .. nelts' |-> val'[g[i]]]
    BY <1>9, <1>13, ContentsNext DEF ContentsAre, Types
  <2> QED BY <1>1, <1>12, <2>1
<1>17. Contents # <<>>
  BY <1>2, <1>5, <1>15
<1>18. Contents' = Tail(Contents)
  <2>1. Tail(Contents) = [i \in 1 .. n |-> Contents[i + 1]]
    BY <1>6, <1>15, <1>17
  <2>2. ASSUME NEW i \in 1 .. n PROVE val[g[i]] = Contents[i + 1]
    <3>1. i \in 0 .. n /\ i + 1 \in 1 .. nelts
      BY <1>6
    <3> QED BY <1>11, <1>15, <3>1
  <2> QED BY <1>16, <2>1, <2>2
<1>19. FirstValue = Head(Contents)
  <2>1. Head(Contents) = Contents[1] /\ 1 \in 1 .. nelts
    BY <1>6, <1>15, <1>17
  <2> QED BY <1>8, <1>15, <2>1
<1>20. free' \cap Hands' = {}
  BY <1>10
<1> QED BY <1>1, <1>2, <1>5, <1>9, <1>14, <1>17, <1>18, <1>19, <1>20 DEF ListInv

(* An empty queue is one whose head is its tail.                           *)
LEMMA EmptyIs ==
  ASSUME Types, ListInv
  PROVE  head = tail <=> nelts = 0 /\ Contents = <<>>
<1>1. PICK f : Path(f)
  BY DEF ListInv, Way
<1>2. Contents \in Seq(Value \cup {Null}) /\ Len(Contents) = nelts /\ nelts \in Nat
  BY <1>1, ContentsType DEF Types, TypeOK
<1>3. head = tail <=> nelts = 0
  <2>1. 0 \in 0 .. nelts /\ nelts \in 0 .. nelts
    BY <1>2
  <2> QED BY <1>1, <2>1 DEF Path
<1>4. nelts = 0 <=> Contents = <<>>
  BY <1>2
<1> QED BY <1>3, <1>4

-----------------------------------------------------------------------------
(* Every step keeps the invariant and is a step of Fifo, or none.          *)

QInv == Types /\ ListInv

LEMMA SameHands ==
  ASSUME \A u \in Thread : pc'[u] = "append" <=> pc[u] = "append",
         \A u \in Thread : pc[u] = "append" => elts'[u] = elts[u]
  PROVE  Hands' = Hands
BY DEF Hands

LEMMA CallStep ==
  ASSUME QInv, NEW t \in Thread, Call(t)
  PROVE  QInv' /\ Abstract!Call(t)
<1>1. Types'
  BY CallTypes DEF QInv
<1>2. /\ pc[t] = "idle" /\ ~destroyed /\ pc' = [pc EXCEPT ![t] = "lock"]
      /\ UNCHANGED <<listVars, condVars, mutex, elts, res>>
  BY DEF Call, CallPush, CallPop
<1>3. Hands' = Hands
  <2>1. \A u \in Thread : pc'[u] = "append" <=> pc[u] = "append"
    BY <1>2 DEF QInv, Types, TypeOK
  <2> QED BY <1>2, <2>1, SameHands
<1>4. ListInv' /\ Contents' = Contents
  BY <1>1, <1>2, <1>3, SameList DEF QInv, Types
<1>5. op[t] = "none" /\ UNCHANGED <<Contents, res, destroyed>>
  BY <1>2, <1>4 DEF QInv, Types, CallInv, CallOK, condVars
<1>6. \/ \E o \in Abstract!Pushes, v \in Value :
           op' = [op EXCEPT ![t] = o] /\ arg' = [arg EXCEPT ![t] = v]
      \/ \E o \in Abstract!Pops : op' = [op EXCEPT ![t] = o] /\ UNCHANGED arg
  <2>1. CASE CallPush(t)
    BY <2>1 DEF CallPush, Abstract!Pushes
  <2>2. CASE CallPop(t)
    BY <2>2 DEF CallPop, Abstract!Pops
  <2> QED BY <2>1, <2>2 DEF Call
<1>7. Abstract!Call(t)
  BY <1>2, <1>5, <1>6 DEF Abstract!Call
<1> QED BY <1>1, <1>4, <1>7 DEF QInv

(* Steps that the clients do not see.                                      *)
LEMMA HiddenStep ==
  ASSUME QInv, NEW t \in Thread,
         \/ Lock(t) \/ PushAlloc(t) \/ PopWait(t) \/ SpuriousWake(t)
         \/ PopWake(t) /\ ~destroyed
  PROVE  QInv' /\ UNCHANGED <<Contents, op, arg, res, destroyed>>
<1>1. Types'
  BY LockTypes, AllocTypes, WaitTypes, SpuriousTypes, PopWakeTypes DEF QInv
<1>2. UNCHANGED <<op, arg, res, destroyed>>
  BY DEF Lock, PushAlloc, PopWait, SpuriousWake, PopWake, callVars, condVars
<1>3. CASE PushAlloc(t)
  BY <1>1, <1>2, <1>3, AllocList DEF QInv
<1>4. CASE ~PushAlloc(t)
  <2>1. UNCHANGED listVars /\ UNCHANGED elts
    BY <1>4 DEF Lock, PopWait, SpuriousWake, PopWake, callVars
  <2>2. \A u \in Thread : pc'[u] = "append" <=> pc[u] = "append"
    BY <1>4 DEF Lock, PopWait, SpuriousWake, PopWake, QInv, Types, TypeOK
  <2>3. Hands' = Hands
    BY <2>1, <2>2, SameHands
  <2> QED BY <1>1, <1>2, <2>1, <2>3, SameList DEF QInv, Types
<1> QED BY <1>3, <1>4

(* A call that fails, or finds nothing.                                    *)
LEMMA FailStep ==
  ASSUME QInv, NEW t \in Thread,
         PushNoMem(t) \/ TryPopEmpty(t) \/ (PopWake(t) /\ destroyed)
  PROVE  QInv' /\ (Abstract!Refuse(t) \/ Abstract!FindEmpty(t) \/ Abstract!GiveUp(t))
<1>1. /\ Return(t, Null) /\ UNCHANGED <<listVars, destroyed>> /\ pc[t] # "append"
  BY DEF PushNoMem, TryPopEmpty, PopWake, condVars
<1>2. Types'
  <2>1. CASE PopWake(t)
    BY <2>1, PopWakeTypes DEF QInv
  <2>2. CASE PushNoMem(t) \/ TryPopEmpty(t)
    <3>1. /\ pc[t] \in {"alloc", "append", "look"} /\ mutex' = NoThread
          /\ UNCHANGED <<listVars, condVars>>
      BY <2>2 DEF PushNoMem, TryPopEmpty
    <3>2. TypeOK
      BY DEF QInv, Types
    <3> QED BY <1>1, <3>1, <3>2, EndTypes DEF QInv, TypeOK, listVars, condVars
  <2> QED BY <2>1, <2>2
<1>3. /\ pc'[t] = "idle"
      /\ \A u \in Thread : u # t => pc'[u] = pc[u] /\ elts'[u] = elts[u]
  BY <1>1, ReturnTypes DEF QInv
<1>4. Hands' = Hands
  BY <1>1, <1>3, SameHands
<1>5. ListInv' /\ Contents' = Contents
  BY <1>1, <1>2, <1>4, SameList DEF QInv, Types
<1>6. Abstract!Finish(t, Null)
  BY <1>1 DEF Abstract!Finish, Return
<1>7. CASE PushNoMem(t)
  <2>1. op[t] \in Abstract!Pushes
    BY <1>7 DEF PushNoMem, QInv, Types, CallInv, CallOK, Abstract!Pushes
  <2> QED BY <1>2, <1>5, <1>6, <2>1 DEF QInv, Abstract!Refuse
<1>8. CASE TryPopEmpty(t)
  <2>1. op[t] = "trypop" /\ Contents = <<>>
    BY <1>8, EmptyIs DEF TryPopEmpty, QInv
  <2> QED BY <1>2, <1>5, <1>6, <2>1 DEF QInv, Abstract!FindEmpty
<1>9. CASE PopWake(t) /\ destroyed
  <2>1. op[t] = "pop"
    BY <1>9 DEF PopWake, QInv, Types, CallInv, CallOK
  <2> QED BY <1>2, <1>5, <1>6, <1>9, <2>1 DEF QInv, Abstract!GiveUp
<1> QED BY <1>7, <1>8, <1>9

LEMMA AppendStep ==
  ASSUME QInv, NEW t \in Thread, PushAppend(t)
  PROVE  QInv' /\ Abstract!Enqueue(t)
<1>1. Types' /\ ListInv' /\ Contents' = Append(Contents, arg[t])
  BY AppendList DEF QInv
<1>2. op[t] \in Abstract!Pushes
  BY DEF PushAppend, QInv, Types, CallInv, CallOK, Abstract!Pushes
<1>3. Abstract!Finish(t, arg[t])
  BY DEF PushAppend, Return, Abstract!Finish
<1> QED BY <1>1, <1>2, <1>3 DEF QInv, Abstract!Enqueue

LEMMA TakeStep ==
  ASSUME QInv, NEW t \in Thread, PopTake(t)
  PROVE  QInv' /\ Abstract!Dequeue(t)
<1>1. /\ Types' /\ ListInv' /\ Contents # <<>> /\ Contents' = Tail(Contents)
      /\ FirstValue = Head(Contents)
  BY TakeList DEF QInv
<1>2. op[t] \in Abstract!Pops
  BY DEF PopTake, QInv, Types, CallInv, CallOK, Abstract!Pops
<1>3. Abstract!Finish(t, FirstValue)
  BY DEF PopTake, Return, Abstract!Finish, condVars
<1> QED BY <1>1, <1>2, <1>3 DEF QInv, Abstract!Dequeue

LEMMA DestroyStep ==
  ASSUME QInv, Destroy
  PROVE  QInv' /\ Abstract!Close
<1>1. Types'
  BY DestroyTypes DEF QInv
<1>2. Hands' = Hands /\ UNCHANGED <<listVars, op, arg, res>> /\ destroyed' = TRUE
  BY DEF Destroy, callVars, Hands
<1>3. ListInv' /\ Contents' = Contents
  BY <1>1, <1>2, SameList DEF QInv, Types
<1> QED BY <1>1, <1>2, <1>3 DEF QInv, Abstract!Close

LEMMA NextStep == QInv /\ [Next]_vars => QInv' /\ [Abstract!Next]_(Abstract!fifoVars)
<1> SUFFICES ASSUME QInv, [Next]_vars
             PROVE  QInv' /\ [Abstract!Next]_(Abstract!fifoVars)
  OBVIOUS
<1>1. ASSUME NEW t \in Thread, Call(t) PROVE QInv' /\ [Abstract!Next]_(Abstract!fifoVars)
  BY <1>1, CallStep DEF Abstract!Next
<1>2. ASSUME NEW t \in Thread, Acquire(t) \/ Step(t) \/ SpuriousWake(t)
      PROVE  QInv' /\ [Abstract!Next]_(Abstract!fifoVars)
  <2>1. CASE Lock(t) \/ PushAlloc(t) \/ PopWait(t) \/ SpuriousWake(t) \/ (PopWake(t) /\ ~destroyed)
    BY <2>1, HiddenStep DEF Abstract!fifoVars
  <2>2. CASE PushNoMem(t) \/ TryPopEmpty(t) \/ (PopWake(t) /\ destroyed)
    BY <2>2, FailStep DEF Abstract!Next
  <2>3. CASE PushAppend(t)
    BY <2>3, AppendStep DEF Abstract!Next
  <2>4. CASE PopTake(t)
    BY <2>4, TakeStep DEF Abstract!Next
  <2> QED BY <1>2, <2>1, <2>2, <2>3, <2>4 DEF Acquire, Step
<1>3. ASSUME Destroy PROVE QInv' /\ [Abstract!Next]_(Abstract!fifoVars)
  BY <1>3, DestroyStep DEF Abstract!Next
<1>4. ASSUME UNCHANGED vars PROVE QInv' /\ [Abstract!Next]_(Abstract!fifoVars)
  <2>1. UNCHANGED <<listVars, condVars, mutex, pc, op, arg, elts, res>>
    BY <1>4 DEF vars, callVars
  <2>2. Types'
    BY <2>1 DEF QInv, Types, TypeOK, CallInv, CallOK, CountInv, Sleepers, listVars, condVars
  <2>3. Hands' = Hands
    BY <2>1 DEF Hands
  <2>4. ListInv' /\ Contents' = Contents
    BY <2>1, <2>2, <2>3, SameList DEF QInv, Types
  <2> QED BY <2>1, <2>2, <2>4 DEF QInv, Abstract!fifoVars, condVars
<1> QED BY <1>1, <1>2, <1>3, <1>4 DEF Next

LEMMA InitStep == Init => QInv /\ Abstract!Init
<1> SUFFICES ASSUME Init PROVE QInv /\ Abstract!Init
  OBVIOUS
<1>1. QInv
  BY InitTypes, InitList DEF QInv
<1>2. head = tail
  BY DEF Init
<1>3. Contents = <<>>
  BY <1>1, <1>2, EmptyIs DEF QInv
<1> QED BY <1>1, <1>3 DEF Init, Abstract!Init

LEMMA QueueInvariant == Spec => []QInv
BY InitStep, NextStep, PTL DEF Spec

(* The list behaves as the queue of Fifo: every push and every pop of      *)
(* frl_queue takes effect at once, in the order in which the mutex is had, *)
(* and values leave in the order in which they came.                       *)
THEOREM Implements == Spec => ImplementsFifo
BY InitStep, NextStep, PTL DEF Spec, ImplementsFifo, Abstract!Spec

(* No entry of the pool is lost and none is in two places: palloc of push  *)
(* and pfree of pop are paired, and nelts counts the list.                 *)
THEOREM EntriesAccounted == Spec => []NodesAccounted
<1>1. QInv => NodesAccounted
  <2> SUFFICES ASSUME QInv PROVE NodesAccounted
    OBVIOUS
  <2>1. TypeOK /\ Types /\ ListInv
    BY DEF QInv, Types
  <2>2. PICK f : Way(f)
    BY <2>1 DEF ListInv
  <2>3. nelts \in Nat /\ f \in [0 .. nelts -> Node] /\ free \subseteq Node
    BY <2>1, <2>2 DEF TypeOK, Way, Path
  <2>4. Length = nelts /\ \A i \in 0 .. nelts : Walk[i] = f[i]
    BY <2>1, <2>2, ContentsNow DEF ContentsAre, Way
  <2>5. PICK L : L = {Walk[i] : i \in 0 .. Length}
    OBVIOUS
  <2>6. L = {f[i] : i \in 0 .. nelts}
    BY <2>4, <2>5
  <2>7. Hands \subseteq Node
    BY <2>1 DEF Hands, Types, CallInv, CallOK
  <2>8. L \subseteq Node /\ \A n \in Node : n \in L <=> n \notin free \cup Hands
    BY <2>2, <2>3, <2>6 DEF Way
  <2>9. PICK H : H = Hands
    OBVIOUS
  <2>10. /\ free \cup L \cup H = Node /\ free \cap L = {} /\ (free \cup L) \cap H = {}
    BY <2>1, <2>3, <2>7, <2>8, <2>9 DEF ListInv
  <2>11. IsFiniteSet(free) /\ IsFiniteSet(L) /\ IsFiniteSet(H)
    <3>1. IsFiniteSet(Node)
      OBVIOUS
    <3> QED BY <2>3, <2>7, <2>8, <2>9, <3>1, FS_Subset
  <2>12. Cardinality(free) + Cardinality(L) + Cardinality(H) = Cardinality(Node)
    <3>1. /\ IsFiniteSet(free \cup L)
          /\ Cardinality(free \cup L)
               = Cardinality(free) + Cardinality(L) - Cardinality(free \cap L)
      BY <2>11, FS_Union
    <3>2. Cardinality((free \cup L) \cup H)
            = Cardinality(free \cup L) + Cardinality(H) - Cardinality((free \cup L) \cap H)
      BY <2>11, <3>1, FS_Union
    <3>3. Cardinality({}) = 0
      BY FS_EmptySet
    <3>4. /\ Cardinality(free) \in Nat /\ Cardinality(L) \in Nat /\ Cardinality(H) \in Nat
          /\ Cardinality(free \cup L) \in Nat
      BY <2>11, <3>1, FS_CardinalityType
    <3>5. /\ Cardinality(free \cap L) = 0 /\ Cardinality((free \cup L) \cap H) = 0
          /\ Cardinality((free \cup L) \cup H) = Cardinality(Node)
      BY <2>10, <3>3
    <3> QED BY <3>1, <3>2, <3>4, <3>5
  <2>13. Hands = {elts[t] : t \in {u \in Thread : pc[u] = "append"}}
    BY DEF Hands
  <2> QED BY <2>1, <2>4, <2>5, <2>9, <2>10, <2>12, <2>13 DEF NodesAccounted
<1> QED BY <1>1, QueueInvariant, PTL

-----------------------------------------------------------------------------
(* Signals.                                                                *)

LEMMA AwakeFinite == IsFiniteSet(Awake) /\ Cardinality(Awake) \in Nat
<1>1. Awake \subseteq Thread
  BY DEF Awake, Thread
<1>2. IsFiniteSet(Awake)
  BY <1>1, FS_Subset
<1> QED BY <1>2, FS_CardinalityType

LEMMA AwakeFiniteNext == (IsFiniteSet(Awake) /\ Cardinality(Awake) \in Nat)'
BY AwakeFinite, PTL

(* Nothing comes, and nobody goes.                                         *)
LEMMA NobodyLeaves ==
  ASSUME NoLostWakeup, nelts \in Nat, UNCHANGED nelts, waiting' \subseteq waiting, Awake \subseteq Awake'
  PROVE  NoLostWakeup'
<1>1. Cardinality(Awake) <= Cardinality(Awake')
  BY AwakeFiniteNext, FS_Subset
<1>2. waiting' # {} => nelts <= Cardinality(Awake)
  BY DEF NoLostWakeup
<1> QED BY <1>1, <1>2, AwakeFinite, AwakeFiniteNext DEF NoLostWakeup

(* A pop takes one value and is gone.                                      *)
LEMMA TakerLeaves ==
  ASSUME QInv, NoLostWakeup, NEW t \in Thread, PopTake(t)
  PROVE  NoLostWakeup'
<1>1. /\ pc[t] = "look" /\ nelts' = nelts - 1 /\ waiting' = waiting /\ Return(t, FirstValue)
  BY DEF PopTake, condVars
<1>2. t \in Awake
  BY <1>1 DEF QInv, Types, CallInv, CallOK, Awake
<1>3. \A u \in Thread : op'[u] = IF u = t THEN "none" ELSE op[u]
  BY <1>1 DEF Return, QInv, Types, TypeOK
<1>4. Awake' = Awake \ {t}
  BY <1>1, <1>3, OpsDiffer DEF Awake, Thread
<1>5. Cardinality(Awake \ {t}) = Cardinality(Awake) - 1
  BY <1>2, AwakeFinite, FS_RemoveElement
<1>6. nelts \in Nat
  BY DEF QInv, Types, TypeOK
<1>7. waiting' # {} => nelts <= Cardinality(Awake)
  BY <1>1 DEF NoLostWakeup
<1> QED BY <1>1, <1>4, <1>5, <1>6, <1>7, AwakeFinite DEF NoLostWakeup

(* A push that sees a waiter wakes one, which will find the value.         *)
LEMMA PushWakes ==
  ASSUME QInv, NoLostWakeup, NEW t \in Thread, PushAppend(t), op[t] = "push"
  PROVE  NoLostWakeup'
<1>1. /\ pc[t] = "append" /\ nelts' = nelts + 1 /\ Return(t, arg[t]) /\ SignalNotEmpty(t)
      /\ op[t] \in PushOps
  BY DEF PushAppend, QInv, Types, CallInv, CallOK
<1>2. \A u \in Thread : op'[u] = IF u = t THEN "none" ELSE op[u]
  BY <1>1 DEF Return, QInv, Types, TypeOK
<1>3. CASE waiting = {}
  BY <1>1, <1>3, SignalIs DEF NoLostWakeup
<1>4. CASE waiting # {}
  <2>1. emptyWaiters > 0
    <3>1. PICK w \in waiting : w \in Sleepers
      BY <1>4 DEF QInv, Types, TypeOK, CallInv, CallOK, Sleepers, Thread
    <3>2. Cardinality(Sleepers) # 0 /\ Cardinality(Sleepers) \in Nat
      BY <3>1, SleepersFinite, FS_EmptySet, FS_CardinalityType
    <3> QED BY <3>2 DEF QInv, Types, CountInv
  <2>2. PICK w \in waiting : waiting' = waiting \ {w}
    BY <1>1, <1>4, <2>1 DEF SignalNotEmpty
  <2>3. w \in Popper /\ w \in Thread /\ op[w] = "pop" /\ w # t /\ w \notin Awake
    BY <1>1, <2>2 DEF QInv, Types, TypeOK, CallInv, CallOK, Awake, Thread
  <2>4. op[w] \in PopOps
    BY <2>3, OpsDiffer DEF QInv, Types, TypeOK
  <2>5. Awake' = Awake \cup {w}
    BY <1>1, <1>2, <2>2, <2>3, <2>4, OpsDiffer DEF Awake, Thread
  <2>6. Cardinality(Awake \cup {w}) = Cardinality(Awake) + 1
    BY <2>3, AwakeFinite, FS_AddElement
  <2>7. nelts <= Cardinality(Awake) /\ nelts \in Nat
    BY <1>4 DEF NoLostWakeup, QInv, Types, TypeOK
  <2> QED BY <1>1, <2>5, <2>6, <2>7, AwakeFinite DEF NoLostWakeup
<1> QED BY <1>3, <1>4

LEMMA StepWakes ==
  ASSUME QInv, NoLostWakeup, [Next]_vars, PushOps \subseteq {"push"}
  PROVE  NoLostWakeup'
<1>0. nelts \in Nat /\ op \in [Thread -> PushOps \cup PopOps \cup {"none"}] /\ Popper \subseteq Thread
  BY DEF QInv, Types, TypeOK, Thread
<1>1. ASSUME NEW t \in Thread, PopWait(t) \/ TryPopEmpty(t) PROVE NoLostWakeup'
  <2>1. head = tail /\ nelts' = nelts
    BY <1>1 DEF PopWait, TryPopEmpty, listVars
  <2>2. nelts = 0
    BY <2>1, EmptyIs DEF QInv
  <2> QED BY <2>1, <2>2, AwakeFiniteNext DEF NoLostWakeup
<1>2. ASSUME NEW t \in Thread, PopWake(t), destroyed PROVE NoLostWakeup'
  <2>1. waiting' = waiting
    BY <1>2 DEF PopWake
  <2>2. waiting = {}
    BY <1>2 DEF QInv, Types, TypeOK, CallInv, CallOK, Thread
  <2> QED BY <2>1, <2>2 DEF NoLostWakeup
<1>3. ASSUME NEW t \in Thread, PushAppend(t) PROVE NoLostWakeup'
  <2>1. op[t] = "push"
    BY <1>3 DEF PushAppend, QInv, Types, CallInv, CallOK
  <2> QED BY <1>3, <2>1, PushWakes
<1>4. ASSUME \/ \E t \in Thread : Call(t) \/ Lock(t) \/ PushAlloc(t) \/ PushNoMem(t)
             \/ \E t \in Thread : SpuriousWake(t) \/ (PopWake(t) /\ ~destroyed)
             \/ Destroy \/ UNCHANGED vars
      PROVE  NoLostWakeup'
  <2>1. UNCHANGED nelts /\ waiting' \subseteq waiting
    BY <1>4 DEF Call, CallPush, CallPop, Lock, PushAlloc, PushNoMem, SpuriousWake, PopWake,
                Destroy, vars, listVars, condVars
  <2>2. ASSUME NEW u \in Popper, op[u] \in PopOps PROVE op'[u] = op[u]
    <3>1. pc[u] \notin {"idle", "alloc"} /\ u \in Thread
      BY <1>0, <2>2, OpsDiffer DEF QInv, Types, CallInv, CallOK
    <3>2. CASE UNCHANGED op
      BY <3>2
    <3>3. CASE \E t \in Thread : Call(t) \/ PushNoMem(t)
      <4>1. PICK t \in Thread : Call(t) \/ PushNoMem(t)
        BY <3>3
      <4>2. pc[t] \in {"idle", "alloc"} /\ \E o : op' = [op EXCEPT ![t] = o]
        BY <4>1 DEF Call, CallPush, CallPop, PushNoMem, Return
      <4> QED BY <1>0, <3>1, <4>2
    <3> QED BY <1>4, <3>2, <3>3 DEF Lock, PushAlloc, SpuriousWake, PopWake, Destroy, vars, callVars
  <2>3. Awake \subseteq Awake'
    BY <2>1, <2>2 DEF Awake
  <2> QED BY <1>0, <2>1, <2>3, NobodyLeaves
<1> QED BY <1>1, <1>2, <1>3, <1>4, TakerLeaves DEF Next, Acquire, Step

(* While a pop sleeps, every value in the queue has a pop awake to take    *)
(* it, if all values come by push: the signal under the mutex misses no    *)
(* waiter.  trypush signals nobody.                                        *)
THEOREM NoSignalLost ==
  ASSUME PushOps \subseteq {"push"}
  PROVE  Spec => []NoLostWakeup
<1>1. Init => NoLostWakeup
  BY DEF Init, NoLostWakeup
<1>2. QInv /\ NoLostWakeup /\ [Next]_vars => NoLostWakeup'
  BY StepWakes
<1> QED BY <1>1, <1>2, QueueInvariant, PTL DEF Spec
====
