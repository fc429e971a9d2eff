-------------------------- MODULE QueueLockFreeProofs --------------------------
(***************************************************************************)
(* That the list of QueueLockFree loses no entry, keeps its tail, and      *)
(* implements the queue of Fifo, for every set of threads, values and      *)
(* entries and any number of threads on each side, until an entry is       *)
(* pushed again under a pointer to it; and that this takes two threads on  *)
(* one side and one on the other.                                          *)
(*                                                                         *)
(* CallInv says what a thread holds at each step, ListInv that the entries *)
(* that are neither free nor in the hands of a thread lie on a path from   *)
(* head, and what the pointers that threads hold are worth.                *)
(***************************************************************************)
EXTENDS QueueLockFree, FiniteSetTheorems, TLAPS

USE QueueAssumption

-----------------------------------------------------------------------------
(* What a thread holds.                                                    *)

Pushing == {"alloc", "tail", "link", "help", "swing", "count", "look", "signal"}
Reading == {"readtail", "readnext", "helptail", "claim"}
Popping == {"read", "load", "release", "wait", "sleep", "asleep"} \cup Reading
Linking == {"tail", "link", "help"}
Retiring == {"load", "release"}

Types ==
  /\ head \in Node \cup {Null} /\ tail \in Node
  /\ nxt \in [Node -> Node \cup {Null}] /\ val \in [Node -> Value \cup {Null}]
  /\ free \subseteq Node
  /\ nelts \in Int
  /\ waiting \subseteq Thread /\ crew \in Crews
  /\ destroyed \in BOOLEAN /\ reused \in BOOLEAN
  /\ pc \in [Thread -> {"idle"} \cup Pushing \cup Popping]
  /\ op \in [Thread -> PushOps \cup PopOps \cup {"none"}]
  /\ arg \in [Thread -> Value \cup {Null}] /\ res \in [Thread -> Value \cup {Null}]
  /\ elts \in [Thread -> Node \cup {Null}] /\ hd \in [Thread -> Node \cup {Null}]
  /\ tl \in [Thread -> Node \cup {Null}] /\ nx \in [Thread -> Node \cup {Null}]

(* A thread is in the function its pc belongs to, and has a right to be;   *)
(* what it is going to follow or to store is an entry.                     *)
CallOK(t) ==
  /\ pc[t] = "idle" <=> op[t] = "none"
  /\ pc[t] \in Pushing => op[t] \in PushOps /\ t \in crew.push /\ arg[t] \in Value
  /\ pc[t] \in Popping => op[t] \in PopOps /\ t \in crew.pop
  /\ pc[t] \in {"wait", "sleep", "asleep"} => op[t] = "pop"
  /\ t \in waiting => pc[t] = "asleep"
  /\ pc[t] \in {"tail", "link", "help", "swing"} => elts[t] \in Node
  /\ pc[t] \in {"link", "help", "swing"} => tl[t] \in Node
  /\ pc[t] \in {"help", "helptail"} => nx[t] \in Node
  /\ pc[t] \in {"helptail", "claim", "load", "release"} => hd[t] \in Node

CallInv == \A t \in Thread : CallOK(t)

(* empty_waiters counts the pops that are about to wait, wait, or have     *)
(* been woken.                                                             *)
Sleepers == {t \in Thread : pc[t] \in {"sleep", "asleep"}}
CountInv == emptyWaiters = Cardinality(Sleepers)

-----------------------------------------------------------------------------
(* The list.                                                               *)

(* f is the way along nxt from head to the last entry, m links long, which *)
(* meets no entry twice.                                                   *)
Path(m, f) ==
  /\ f \in [0 .. m -> Node]
  /\ f[0] = head /\ nxt[f[m]] = Null
  /\ \A i \in 0 .. m - 1 : nxt[f[i]] = f[i + 1]
  /\ \A i, j \in 0 .. m : f[i] = f[j] => i = j

(* t has n in its hands: it is about to link it, or has unlinked it.       *)
Hand(t, n) ==
  \/ pc[t] \in Linking /\ elts[t] = n
  \/ pc[t] \in Retiring /\ hd[t] = n

(* Each entry is in one place.                                             *)
Placed(L) ==
  /\ free \cap L = {}
  /\ \A t \in Thread, n \in Node : Hand(t, n) => n \notin free \cup L
  /\ \A t, u \in Thread, n \in Node : Hand(t, n) /\ Hand(u, n) => t = u
  /\ \A n \in Node : n \in free \cup L \/ \E t \in Thread : Hand(t, n)

TailOK(L) == tail \in L /\ (nxt[tail] # Null => nxt[nxt[tail]] = Null)

(* What the pointers of a push are worth: its own entry is untouched; the  *)
(* tail it has read stays in the list unless somebody pops; if nothing is  *)
(* behind it, it is the tail still.                                        *)
PushHolds(t, L) ==
  /\ pc[t] \in Linking => elts[t] \in Node /\ nxt[elts[t]] = Null /\ val[elts[t]] = arg[t]
  /\ pc[t] \in {"link", "help", "swing"} =>
       tl[t] \in Node /\ (crew.pop = {} => tl[t] \in L)
  /\ pc[t] = "link" /\ nxt[tl[t]] = Null => tl[t] = tail
  /\ pc[t] = "help" => nx[t] = nxt[tl[t]] /\ nx[t] # Null
  /\ pc[t] = "swing" => elts[t] = nxt[tl[t]] /\ elts[t] # Null

(* Another thread may have claimed the head that a pop has read.           *)
Rivalled == crew.push = {} \/ ~Fits(crew)

(* Those of a pop: the head it has read is the head, or has left the list  *)
(* for good; the tail has passed it before it is claimed.                  *)
PopHolds(t, L) ==
  /\ pc[t] \in Reading =>
       /\ hd[t] \in Node
       /\ hd[t] = head \/ (Rivalled /\ hd[t] \notin L /\ nxt[hd[t]] # Null)
  /\ pc[t] = "readnext" /\ hd[t] = head /\ hd[t] # tl[t] => tail # head
  /\ pc[t] = "helptail" => tl[t] = hd[t] /\ nx[t] = nxt[hd[t]] /\ nx[t] # Null
  /\ pc[t] = "claim" => nx[t] = nxt[hd[t]] /\ nx[t] # Null /\ (hd[t] = head => tail # head)
  /\ pc[t] \in Retiring => hd[t] \in Node
  /\ pc[t] = "load" => nx[t] \in Node /\ (nx[t] = head \/ Rivalled)

Holds(L) == \A t \in Thread : PushHolds(t, L) /\ PopHolds(t, L)

OnPath(m, f) == {f[i] : i \in 0 .. m}

(* The list is m links long; f goes along it, through the entries L.       *)
Lists(m, f, L) ==
  L = OnPath(m, f) /\ Path(m, f) /\ Placed(L) /\ TailOK(L) /\ Holds(L)

ListInv == \E m \in Nat : \E f, L : Lists(m, f, L)

IInv == Types /\ CallInv /\ CountInv /\ (reused \/ ListInv)

-----------------------------------------------------------------------------
(* Natural numbers.                                                        *)

LEMMA NatLeast ==
  ASSUME NEW T \in SUBSET Nat, T # {}
  PROVE  \E m \in T : \A k \in T : m <= k
<1> DEFINE R == OpToRel(<, Nat)
<1>1. IsWellFoundedOn(R, Nat)
  BY NatLessThanWellFounded
<1>2. \A x \in T, y \in T : <<y, x>> \in R <=> y < x
  BY DEF OpToRel
<1> HIDE DEF R
<1>3. \E x \in T : \A y \in T : ~ (<<y, x>> \in R)
  BY <1>1, WFMin, Zenon
<1>4. PICK x \in T : \A y \in T : ~ (<<y, x>> \in R)
  BY <1>3
<1>5. \A y \in T : ~(y < x)
  BY <1>2, <1>4
<1> QED BY <1>5

(* A set with 0 and, with a number, the next one, holds them all.          *)
LEMMA NatInd ==
  ASSUME NEW T, 0 \in T, \A n \in Nat : n \in T => n + 1 \in T
  PROVE  Nat \subseteq T
<1> SUFFICES ASSUME Nat \ T # {} PROVE FALSE
  OBVIOUS
<1>1. PICK m \in Nat \ T : \A k \in Nat \ T : m <= k
  BY NatLeast
<1>2. m - 1 \in Nat
  BY <1>1
<1>3. m - 1 \in T
  BY <1>1, <1>2
<1>4. (m - 1) + 1 \in T
  BY <1>2, <1>3
<1> QED BY <1>1, <1>4

-----------------------------------------------------------------------------
(* The walk along the list.                                                *)

LEMMA UpTo ==
  ASSUME NEW m \in Nat
  PROVE  IsFiniteSet(0 .. m) /\ Cardinality(0 .. m) = m + 1
<1>1. PICK a \in Int, b \in Int : a = 0 /\ b = m
  OBVIOUS
<1>2. IsFiniteSet(a .. b) /\ Cardinality(a .. b) = IF a > b THEN 0 ELSE b - a + 1
  BY FS_Interval
<1> QED BY <1>1, <1>2

(* A path has as many entries as its numbers say, and no more than there   *)
(* are.                                                                    *)
LEMMA PathFits ==
  ASSUME NEW m \in Nat, NEW f, Path(m, f)
  PROVE  /\ Cardinality(OnPath(m, f)) = m + 1
         /\ m + 1 <= Cardinality(Node) /\ Cardinality(Node) \in Nat
<1>1. Cardinality(Node) \in Nat
  BY FS_CardinalityType
<1>2. PICK S : S = 0 .. m
  OBVIOUS
<1>3. IsFiniteSet(S) /\ Cardinality(S) = m + 1
  BY <1>2, UpTo
<1>4. PICK L : L = OnPath(m, f)
  OBVIOUS
<1>5. f \in [S -> Node] /\ L = {f[i] : i \in S} /\ \A i, j \in S : f[i] = f[j] => i = j
  BY <1>2, <1>4 DEF Path, OnPath
<1>6. L \subseteq Node
  BY <1>5
<1>7. f \in Bijection(S, L)
  BY <1>5 DEF Bijection, Injection, Surjection, IsInjective
<1>8. ExistsBijection(S, L)
  BY <1>7 DEF ExistsBijection
<1>9. Cardinality(L) = m + 1
  BY <1>3, <1>8, FS_Bijection
<1>10. Cardinality(L) <= Cardinality(Node)
  BY <1>6, FS_Subset
<1> QED BY <1>1, <1>4, <1>9, <1>10

LEMMA WalkIs ==
  ASSUME NEW m \in Nat, NEW f, Path(m, f), NEW N \in Nat, N = Cardinality(Node)
  PROVE  Walk = [i \in 0 .. N |-> IF i <= m THEN f[i] ELSE Null]
<1> DEFINE w == [i \in 0 .. N |-> IF i <= m THEN f[i] ELSE Null]
           Rec(g) == g = [i \in 0 .. N |->
                            IF i = 0 THEN head
                            ELSE IF g[i - 1] = Null THEN Null ELSE nxt[g[i - 1]]]
<1>1. Walk = CHOOSE g : Rec(g)
  BY DEF Walk
<1>2. f \in [0 .. m -> Node] /\ f[0] = head /\ nxt[f[m]] = Null /\ f[m] # Null
      /\ \A i \in 0 .. m - 1 : nxt[f[i]] = f[i + 1]
  BY DEF Path
<1>3. Rec(w)
  <2> DEFINE r(i) == IF i = 0 THEN head ELSE IF w[i - 1] = Null THEN Null ELSE nxt[w[i - 1]]
  <2>1. ASSUME NEW i \in 0 .. N PROVE w[i] = r(i)
    <3>1. CASE i = 0
      BY <1>2, <3>1
    <3>2. CASE i # 0 /\ i <= m
      <4>1. i - 1 \in 0 .. m - 1 /\ i - 1 \in 0 .. N /\ i - 1 <= m /\ (i - 1) + 1 = i
        BY <3>2
      <4>2. w[i - 1] = f[i - 1] /\ w[i] = f[i] /\ f[i - 1] \in Node
        BY <1>2, <3>2, <4>1
      <4>3. nxt[f[i - 1]] = f[i]
        BY <1>2, <4>1
      <4> HIDE DEF w
      <4> QED BY <3>2, <4>2, <4>3
    <3>3. CASE i = m + 1
      <4>1. i - 1 = m /\ i - 1 \in 0 .. N
        BY <3>3
      <4>2. w[i - 1] = f[m] /\ w[i] = Null
        BY <1>2, <3>3, <4>1
      <4> HIDE DEF w
      <4> QED BY <1>2, <3>3, <4>2
    <3>4. CASE i > m + 1
      <4>1. i - 1 \in 0 .. N /\ i - 1 > m
        BY <3>4
      <4>2. w[i - 1] = Null /\ w[i] = Null
        BY <3>4, <4>1
      <4> HIDE DEF w
      <4> QED BY <3>4, <4>2
    <3> QED BY <3>1, <3>2, <3>3, <3>4
  <2>2. w = [i \in 0 .. N |-> w[i]]
    OBVIOUS
  <2> HIDE DEF w
  <2>3. [i \in 0 .. N |-> w[i]] = [i \in 0 .. N |-> r(i)]
    <3> HIDE DEF r
    <3> QED BY <2>1
  <2> QED BY <2>2, <2>3
<1>4. ASSUME NEW g, NEW h, Rec(g), Rec(h) PROVE g = h
  <2> DEFINE T == {n \in Nat : n <= N => g[n] = h[n]}
  <2>1. \A i \in 0 .. N :
          /\ g[i] = IF i = 0 THEN head ELSE IF g[i - 1] = Null THEN Null ELSE nxt[g[i - 1]]
          /\ h[i] = IF i = 0 THEN head ELSE IF h[i - 1] = Null THEN Null ELSE nxt[h[i - 1]]
    BY <1>4, Zenon
  <2>2. 0 \in T
    BY <2>1
  <2>3. \A n \in Nat : n \in T => n + 1 \in T
    <3> SUFFICES ASSUME NEW n \in Nat, n \in T, n + 1 <= N PROVE g[n + 1] = h[n + 1]
      OBVIOUS
    <3>1. g[n] = h[n] /\ n + 1 \in 0 .. N /\ (n + 1) - 1 = n /\ n + 1 # 0
      OBVIOUS
    <3>2. /\ g[n + 1] = IF g[n] = Null THEN Null ELSE nxt[g[n]]
          /\ h[n + 1] = IF h[n] = Null THEN Null ELSE nxt[h[n]]
      <4>1. \A i \in 0 .. N : i # 0 =>
              /\ g[i] = IF g[i - 1] = Null THEN Null ELSE nxt[g[i - 1]]
              /\ h[i] = IF h[i - 1] = Null THEN Null ELSE nxt[h[i - 1]]
        BY <2>1
      <4>2. PICK k \in 0 .. N : k = n + 1 /\ k - 1 = n /\ k # 0
        BY <3>1
      <4> HIDE DEF T, Rec
      <4>3. /\ g[k] = IF g[k - 1] = Null THEN Null ELSE nxt[g[k - 1]]
            /\ h[k] = IF h[k - 1] = Null THEN Null ELSE nxt[h[k - 1]]
        BY <4>1, <4>2
      <4> QED BY <4>2, <4>3
    <3> HIDE DEF T, Rec
    <3> QED BY <3>1, <3>2
  <2> HIDE DEF T
  <2>4. Nat \subseteq T
    BY <2>2, <2>3, NatInd
  <2>5. \A i \in 0 .. N : g[i] = h[i]
    BY <2>4 DEF T
  <2>6. g = [i \in 0 .. N |-> g[i]] /\ h = [i \in 0 .. N |-> h[i]]
    BY <1>4
  <2> HIDE DEF Rec
  <2>7. [i \in 0 .. N |-> g[i]] = [i \in 0 .. N |-> h[i]]
    BY <2>5
  <2> QED BY <2>6, <2>7
<1> HIDE DEF w, Rec
<1>5. Rec(CHOOSE g : Rec(g))
  BY <1>3, Zenon
<1>6. (CHOOSE g : Rec(g)) = w
  BY <1>3, <1>4, <1>5, Zenon
<1> QED BY <1>1, <1>6 DEF w

(* What Listed and Contents find.                                          *)
ContentsAre ==
  \A m \in Nat : \A f : Path(m, f) =>
    /\ Listed = OnPath(m, f) /\ Cardinality(Listed) = m + 1
    /\ Contents = [i \in 1 .. m |-> val[f[i]]]

LEMMA ContentsNow == ContentsAre
<1> SUFFICES ASSUME NEW m \in Nat, NEW f, Path(m, f)
             PROVE  /\ Listed = OnPath(m, f) /\ Cardinality(Listed) = m + 1
                    /\ Contents = [i \in 1 .. m |-> val[f[i]]]
  BY DEF ContentsAre
<1>1. PICK N \in Nat : N = Cardinality(Node) /\ m + 1 <= N
  BY PathFits
<1>2. Walk = [i \in 0 .. N |-> IF i <= m THEN f[i] ELSE Null]
  BY <1>1, WalkIs
<1>3. f \in [0 .. m -> Node]
  BY DEF Path
<1>4. \A i \in 0 .. m : Walk[i] = f[i] /\ i \in 0 .. N
  BY <1>1, <1>2
<1>5. \A i \in 0 .. N : Walk[i] # Null => i \in 0 .. m
  BY <1>1, <1>2
<1>6. Listed = {Walk[i] : i \in 0 .. N} \ {Null}
  BY <1>1 DEF Listed
<1>7. Listed = OnPath(m, f)
  BY <1>3, <1>4, <1>5, <1>6 DEF OnPath
<1>8. Cardinality(Listed) = m + 1
  BY <1>7, PathFits
<1>9. Contents = [i \in 1 .. m |-> val[Walk[i]]]
  BY <1>8 DEF Contents
<1>10. \A i \in 1 .. m : val[Walk[i]] = val[f[i]]
  BY <1>4
<1>11. [i \in 1 .. m |-> val[Walk[i]]] = [i \in 1 .. m |-> val[f[i]]]
  BY <1>10
<1> QED BY <1>7, <1>8, <1>9, <1>11

LEMMA ContentsNext == ContentsAre'
BY ContentsNow, PTL

-----------------------------------------------------------------------------
(* What a thread holds.                                                    *)

LEMMA OpsDiffer ==
  /\ \A o \in PushOps : o \notin PopOps /\ o # "none"
  /\ \A o \in PopOps : o # "none"
BY DEF QueueAssumption

(* A step of t leaves what u holds.                                        *)
Keeps(u) ==
  /\ pc'[u] = pc[u] /\ op'[u] = op[u] /\ arg'[u] = arg[u] /\ res'[u] = res[u]
  /\ elts'[u] = elts[u] /\ hd'[u] = hd[u] /\ tl'[u] = tl[u] /\ nx'[u] = nx[u]

LEMMA ReturnKeeps ==
  ASSUME Types, NEW t \in Thread, NEW r, Return(t, r), NEW u \in Thread, u # t
  PROVE  Keeps(u)
BY DEF Types, Return, Goto, Keeps

LEMMA OthersKeep ==
  ASSUME Types, NEW t \in Thread, Push(t) \/ Pop(t), NEW u \in Thread, u # t
  PROVE  Keeps(u)
<1> USE DEF Types, Goto, Keeps, callVars, readVars
<1>1. CASE CallPush(t) \/ CallPop(t)
  BY <1>1 DEF CallPush, CallPop
<1>2. CASE PushAlloc(t) \/ PushReadTail(t) \/ PushLink(t) \/ PushBehind(t) \/ PushHelp(t) \/ PushSwing(t)
  BY <1>2 DEF PushAlloc, PushReadTail, PushLink, PushBehind, PushHelp, PushSwing
<1>3. CASE \/ PopReadHead(t) \/ PopReadTail(t) \/ PopReadNext(t) \/ PopHelp(t)
           \/ PopLoad(t) \/ PopCountWaiter(t) \/ PopSleep(t) \/ SpuriousWake(t)
  BY <1>3 DEF PopReadHead, PopReadTail, PopReadNext, PopHelp, PopLoad, PopCountWaiter,
              PopSleep, SpuriousWake
<1>4. CASE PopClaim(t)
  BY <1>4 DEF PopClaim
<1>5. CASE PushNoMem(t) \/ PushSignal(t) \/ TryPopEmpty(t) \/ PopRelease(t)
  BY <1>5, ReturnKeeps DEF PushNoMem, PushSignal, TryPopEmpty, PopRelease
<1>6. CASE PopWake(t)
  BY <1>6, ReturnKeeps DEF PopWake
<1>7. CASE PushCount(t) \/ PushLook(t)
  BY <1>7, ReturnKeeps DEF PushCount, PushLook
<1> QED BY <1>1, <1>2, <1>3, <1>4, <1>5, <1>6, <1>7 DEF Push, Pop

(* What reused records is not forgotten.                                   *)
LEMMA ReusedStays ==
  ASSUME Next \/ UNCHANGED vars
  PROVE  reused => reused'
BY DEF Next, Push, Pop, CallPush, PushAlloc, PushNoMem, PushReadTail, PushLink, PushBehind, PushHelp,
       PushSwing, PushCount, PushLook, PushSignal, CallPop, PopReadHead, PopReadTail, PopReadNext,
       TryPopEmpty, PopHelp, PopClaim, PopLoad, PopRelease, PopCountWaiter, PopSleep, PopWake,
       SpuriousWake, Destroy, Regroup, vars

(* What is left of the call of t when it returns.                          *)
LEMMA ReturnTypes ==
  ASSUME Types, NEW t \in Thread, NEW r \in Value \cup {Null}, Return(t, r)
  PROVE  /\ pc' \in [Thread -> {"idle"} \cup Pushing \cup Popping]
         /\ op' \in [Thread -> PushOps \cup PopOps \cup {"none"}]
         /\ arg' \in [Thread -> Value \cup {Null}] /\ res' \in [Thread -> Value \cup {Null}]
         /\ elts' \in [Thread -> Node \cup {Null}] /\ hd' \in [Thread -> Node \cup {Null}]
         /\ tl' \in [Thread -> Node \cup {Null}] /\ nx' \in [Thread -> Node \cup {Null}]
         /\ pc'[t] = "idle" /\ op'[t] = "none"
BY DEF Types, Return, Goto

LEMMA StepTypes ==
  ASSUME Types, CallInv, NEW t \in Thread, Push(t) \/ Pop(t)
  PROVE  Types'
<1> USE DEF Types, Goto, listVars, condVars, callVars, readVars, Pushing, Popping, Reading
<1>1. CallOK(t)
  BY DEF CallInv
<1>2. CASE CallPush(t) \/ CallPop(t)
  BY <1>2 DEF CallPush, CallPop
<1>3. CASE PushAlloc(t)
  BY <1>3 DEF PushAlloc
<1>4. CASE PushReadTail(t) \/ PushLink(t) \/ PushBehind(t)
  <2>1. pc[t] = "link" => tl[t] \in Node
    BY <1>1 DEF CallOK
  <2> QED BY <1>4, <2>1 DEF PushReadTail, PushLink, PushBehind
<1>5. CASE PushHelp(t) \/ PushSwing(t) \/ PopHelp(t)
  BY <1>1, <1>5 DEF PushHelp, PushSwing, PopHelp, TailSwapped, CallOK
<1>6. CASE PopReadHead(t) \/ PopReadTail(t) \/ PopCountWaiter(t) \/ PopSleep(t) \/ SpuriousWake(t)
  BY <1>6 DEF PopReadHead, PopReadTail, PopCountWaiter, PopSleep, SpuriousWake
<1>7. CASE PopReadNext(t)
  <2>1. hd[t] \in Node
    BY <1>7 DEF PopReadNext
  <2> QED BY <1>7, <2>1 DEF PopReadNext, PopNext
<1>8. CASE PopClaim(t)
  BY <1>8 DEF PopClaim
<1>9. CASE PopLoad(t)
  <2>1. nx[t] \in Node
    BY <1>9 DEF PopLoad
  <2> QED BY <1>9, <2>1 DEF PopLoad, Loaded
<1>10. CASE PushNoMem(t) \/ TryPopEmpty(t)
  BY <1>10, ReturnTypes DEF PushNoMem, TryPopEmpty
<1>11. CASE PushCount(t) \/ PushLook(t) \/ PushSignal(t)
  <2>1. arg[t] \in Value \cup {Null} /\ waiting' \subseteq waiting
    BY <1>11 DEF PushCount, PushLook, PushSignal
  <2>2. CASE Return(t, arg[t])
    BY <1>11, <2>1, <2>2, ReturnTypes DEF PushCount, PushLook, PushSignal
  <2>3. CASE ~Return(t, arg[t])
    BY <1>11, <2>3 DEF PushCount, PushLook, PushSignal
  <2> QED BY <2>2, <2>3
<1>12. CASE PopRelease(t)
  <2>1. hd[t] \in Node /\ Return(t, res[t]) /\ res[t] \in Value \cup {Null}
    BY <1>1, <1>12 DEF CallOK, PopRelease
  <2> QED BY <1>12, <2>1, ReturnTypes DEF PopRelease, Retired
<1>13. CASE PopWake(t)
  BY <1>13, ReturnTypes DEF PopWake
<1> QED BY <1>2, <1>3, <1>4, <1>5, <1>6, <1>7, <1>8, <1>9, <1>10, <1>11, <1>12, <1>13 DEF Push, Pop

LEMMA StepCalls ==
  ASSUME Types, CallInv, NEW t \in Thread, Push(t) \/ Pop(t)
  PROVE  CallInv'
<1> USE DEF CallOK, Goto, listVars, condVars, callVars, readVars, Pushing, Popping, Reading
<1>1. CallOK(t)
  BY DEF CallInv
<1>2. ASSUME NEW u \in Thread, u # t PROVE CallOK(u)'
  <2>1. Keeps(u) /\ CallOK(u)
    BY <1>2, OthersKeep DEF CallInv
  <2>2. crew' = crew /\ (u \in waiting' => u \in waiting)
    BY <1>2 DEF Push, Pop, CallPush, PushAlloc, PushNoMem, PushReadTail, PushLink, PushBehind,
                PushHelp, PushSwing, PushCount, PushLook, PushSignal, CallPop, PopReadHead,
                PopReadTail, PopReadNext,
                TryPopEmpty, PopHelp, PopClaim, PopLoad, PopRelease, PopCountWaiter, PopSleep,
                PopWake, SpuriousWake
  <2> QED BY <2>1, <2>2 DEF Keeps
<1>3. CallOK(t)'
  <2> USE <1>1, OpsDiffer DEF Types
  <2>1. CASE CallPush(t) \/ CallPop(t)
    BY <2>1 DEF CallPush, CallPop
  <2>2. CASE PushAlloc(t) \/ PushReadTail(t) \/ PushLink(t) \/ PushBehind(t) \/ PushHelp(t) \/ PushSwing(t)
    BY <2>2 DEF PushAlloc, PushReadTail, PushLink, PushBehind, PushHelp, PushSwing
  <2>3. CASE PopReadHead(t) \/ PopReadTail(t) \/ PopHelp(t) \/ PopLoad(t) \/ PopClaim(t)
    BY <2>3 DEF PopReadHead, PopReadTail, PopHelp, PopLoad, PopClaim
  <2>4. CASE PopReadNext(t)
    BY <2>4 DEF PopReadNext, PopNext
  <2>5. CASE PopCountWaiter(t) \/ PopSleep(t) \/ SpuriousWake(t)
    BY <2>5 DEF PopCountWaiter, PopSleep, SpuriousWake
  <2>6. CASE \E r : Return(t, r)
    <3>1. pc'[t] = "idle" /\ op'[t] = "none"
      BY <2>6 DEF Return
    <3>2. pc[t] # "idle" /\ (pc[t] = "asleep" => t \notin waiting) /\ waiting' \subseteq waiting
      BY <2>6 DEF Push, Pop, Return, CallPush, PushAlloc, PushNoMem, PushReadTail, PushLink, PushBehind,
                  PushHelp, PushSwing, PushCount, PushLook, PushSignal, CallPop, PopReadHead,
                PopReadTail, PopReadNext,
                  TryPopEmpty, PopHelp, PopClaim, PopLoad, PopRelease, PopCountWaiter, PopSleep,
                  PopWake, SpuriousWake
    <3>3. t \notin waiting'
      BY <3>2
    <3> QED BY <3>1, <3>3
  <2>7. CASE PopWake(t) /\ ~destroyed
    BY <2>7 DEF PopWake
  <2>8. CASE (PushCount(t) \/ PushLook(t)) /\ ~Return(t, arg[t])
    BY <2>8 DEF PushCount, PushLook
  <2> QED BY <2>1, <2>2, <2>3, <2>4, <2>5, <2>6, <2>7, <2>8
          DEF Push, Pop, PushNoMem, PushCount, PushLook, PushSignal, TryPopEmpty, PopRelease, PopWake
<1> QED BY <1>2, <1>3 DEF CallInv

LEMMA SleepersFinite == IsFiniteSet(Sleepers) /\ Cardinality(Sleepers) \in Nat
<1>1. IsFiniteSet(Sleepers)
  BY FS_Subset DEF Sleepers
<1> QED BY <1>1, FS_CardinalityType

LEMMA StepCounts ==
  ASSUME Types, CountInv, NEW t \in Thread, Push(t) \/ Pop(t)
  PROVE  CountInv'
<1>1. \A u \in Thread : u # t => pc'[u] = pc[u]
  BY OthersKeep DEF Keeps
<1>2. pc \in [Thread -> {"idle"} \cup Pushing \cup Popping]
  BY DEF Types
<1>3. CASE PopCountWaiter(t)
  <2>1. pc[t] = "wait" /\ pc'[t] = "sleep" /\ emptyWaiters' = emptyWaiters + 1
    BY <1>2, <1>3 DEF PopCountWaiter, Goto
  <2>2. Sleepers' = Sleepers \cup {t} /\ t \notin Sleepers
    BY <1>1, <2>1 DEF Sleepers
  <2>3. Cardinality(Sleepers \cup {t}) = Cardinality(Sleepers) + 1
    BY <2>2, SleepersFinite, FS_AddElement
  <2> QED BY <2>1, <2>2, <2>3 DEF CountInv
<1>4. CASE PopWake(t)
  <2>1. pc[t] = "asleep" /\ pc'[t] \in {"idle", "read"} /\ emptyWaiters' = emptyWaiters - 1
    BY <1>2, <1>4 DEF PopWake, Goto, Return
  <2>2. Sleepers' = Sleepers \ {t} /\ t \in Sleepers
    BY <1>1, <2>1 DEF Sleepers
  <2>3. Cardinality(Sleepers \ {t}) = Cardinality(Sleepers) - 1
    BY <2>2, SleepersFinite, FS_RemoveElement
  <2> QED BY <2>1, <2>2, <2>3 DEF CountInv
<1>5. CASE UNCHANGED emptyWaiters /\ (pc'[t] \in {"sleep", "asleep"} <=> pc[t] \in {"sleep", "asleep"})
  <2>1. Sleepers' = Sleepers
    BY <1>1, <1>5 DEF Sleepers
  <2> QED BY <1>5, <2>1 DEF CountInv
<1> USE <1>2 DEF Goto, condVars
<1>6. CASE PopReadNext(t)
  BY <1>5, <1>6 DEF PopReadNext, PopNext
<1>7. CASE TryPopEmpty(t) \/ PopHelp(t) \/ PopLoad(t) \/ PopRelease(t)
  BY <1>5, <1>7 DEF TryPopEmpty, PopHelp, PopLoad, PopRelease, Return
<1>8. CASE PopClaim(t) \/ PopSleep(t)
  BY <1>5, <1>8 DEF PopClaim, PopSleep
<1>9. CASE Push(t) \/ SpuriousWake(t) \/ CallPop(t) \/ PopReadHead(t) \/ PopReadTail(t)
  <2>1. CASE Push(t)
    BY <1>5, <2>1 DEF Push, CallPush, PushAlloc, PushNoMem, PushReadTail, PushLink, PushBehind,
                PushHelp, PushSwing, PushCount, PushLook, PushSignal, Return
  <2>2. CASE SpuriousWake(t) \/ CallPop(t) \/ PopReadHead(t) \/ PopReadTail(t)
    BY <1>5, <2>2 DEF SpuriousWake, CallPop, PopReadHead, PopReadTail
  <2> QED BY <1>9, <2>1, <2>2
<1> QED BY <1>3, <1>4, <1>6, <1>7, <1>8, <1>9 DEF Pop

-----------------------------------------------------------------------------
(* The list.                                                               *)

(* If another thread pops as well, the head that it has read may go.       *)
LEMMA TwoPop ==
  ASSUME NEW t \in crew.pop, NEW u \in crew.pop, t # u
  PROVE  Rivalled
BY DEF Rivalled, Fits

LEMMA PathEnds ==
  ASSUME NEW m \in Nat, NEW f, NEW L, Lists(m, f, L)
  PROVE  /\ head \in L /\ L \subseteq Node
         /\ \A n \in L : nxt[n] # Null => nxt[n] \in L /\ nxt[n] # head
         /\ \A n \in L : nxt[n] = Null => n = f[m]
         /\ m = 0 <=> nxt[head] = Null
<1>1. /\ f \in [0 .. m -> Node]
      /\ f[0] = head /\ nxt[f[m]] = Null
      /\ \A i \in 0 .. m - 1 : nxt[f[i]] = f[i + 1]
      /\ \A i, j \in 0 .. m : f[i] = f[j] => i = j
      /\ L = {f[i] : i \in 0 .. m}
  BY DEF Lists, Path, OnPath
<1>2. head \in L /\ L \subseteq Node
  BY <1>1
<1>3. ASSUME NEW n \in L
      PROVE  /\ nxt[n] # Null => nxt[n] \in L /\ nxt[n] # head
             /\ nxt[n] = Null => n = f[m]
  <2>1. PICK i \in 0 .. m : n = f[i]
    BY <1>1
  <2>2. CASE i = m
    BY <1>1, <2>1, <2>2
  <2>3. CASE i # m
    <3>1. i \in 0 .. m - 1 /\ i + 1 \in 0 .. m /\ i + 1 # 0
      BY <2>3
    <3>2. nxt[n] = f[i + 1] /\ f[i + 1] \in Node /\ f[i + 1] # f[0] /\ f[i + 1] \in L
      BY <1>1, <2>1, <3>1
    <3> QED BY <1>1, <3>2
  <2> QED BY <2>2, <2>3
<1>4. m = 0 <=> nxt[head] = Null
  <2>1. CASE m = 0
    BY <1>1, <2>1
  <2>2. CASE m # 0
    <3>1. 0 \in 0 .. m - 1 /\ 1 \in 0 .. m
      BY <2>2
    <3>2. nxt[f[0]] = f[0 + 1]
      BY <1>1, <3>1
    <3> QED BY <1>1, <2>2, <3>1, <3>2
  <2> QED BY <2>1, <2>2
<1> QED BY <1>2, <1>3, <1>4

(* What stays as it was while t takes a step.                              *)
LEMMA OthersHold ==
  ASSUME NEW t \in Thread, NEW u \in Thread, Keeps(u), NEW L, PushHolds(u, L), PopHolds(u, L),
         UNCHANGED <<head, tail, nxt, val, crew>>
  PROVE  PushHolds(u, L)' /\ PopHolds(u, L)'
BY DEF Keeps, PushHolds, PopHolds, Rivalled

LEMMA SamePlaces ==
  ASSUME Types, NEW t \in Thread, Push(t) \/ Pop(t), NEW L, Placed(L), UNCHANGED free,
         \A n \in Node : Hand(t, n)' <=> Hand(t, n)
  PROVE  Placed(L)'
<1>1. \A u \in Thread, n \in Node : Hand(u, n)' <=> Hand(u, n)
  BY OthersKeep DEF Keeps, Hand
<1> QED BY <1>1 DEF Placed

(* A step on the locals of t.                                              *)
LEMMA LocalStep ==
  ASSUME Types, NEW t \in Thread, Push(t) \/ Pop(t), NEW m \in Nat, NEW f, NEW L, Lists(m, f, L),
         UNCHANGED <<head, tail, nxt, val, free, crew>>,
         \A n \in Node : Hand(t, n)' <=> Hand(t, n),
         PushHolds(t, L)', PopHolds(t, L)'
  PROVE  Lists(m, f, L)'
<1>1. Path(m, f)' /\ TailOK(L)'
  BY DEF Lists, Path, TailOK
<1>2. Placed(L)'
  BY SamePlaces DEF Lists
<1>3. \A u \in Thread : PushHolds(u, L)' /\ PopHolds(u, L)'
  BY OthersKeep, OthersHold DEF Lists, Holds
<1> QED BY <1>1, <1>2, <1>3 DEF Lists, Holds, OnPath

(* A thread whose call is over holds nothing.                              *)
LEMMA IdleHolds ==
  ASSUME NEW t \in Thread,
         pc'[t] \in {"idle", "read", "alloc", "wait", "sleep", "asleep", "count", "look", "signal"},
         NEW L
  PROVE  PushHolds(t, L)' /\ PopHolds(t, L)' /\ \A n \in Node : ~Hand(t, n)'
BY DEF PushHolds, PopHolds, Hand, Linking, Retiring, Reading

LEMMA QuietSteps ==
  ASSUME Types, CallInv, NEW m \in Nat, NEW f, NEW L, Lists(m, f, L), NEW t \in Thread,
         \/ CallPush(t) \/ PushNoMem(t) \/ PushCount(t) \/ PushLook(t) \/ PushSignal(t)
         \/ CallPop(t) \/ TryPopEmpty(t) \/ PopCountWaiter(t) \/ PopSleep(t) \/ PopWake(t)
         \/ SpuriousWake(t) \/ (PopClaim(t) /\ head # hd[t])
  PROVE  Lists(m, f, L)'
<1>1. pc[t] \notin Linking \cup Retiring
      /\ pc'[t] \in {"idle", "read", "alloc", "wait", "sleep", "asleep", "count", "look", "signal"}
  BY DEF CallPush, PushNoMem, PushCount, PushLook, PushSignal, CallPop, TryPopEmpty,
         PopCountWaiter, PopSleep, PopWake, SpuriousWake, PopClaim, Return, Goto, Types, CallInv,
         CallOK, Linking, Retiring
<1>2. UNCHANGED <<head, tail, nxt, val, free, crew>>
  BY DEF CallPush, PushNoMem, PushCount, PushLook, PushSignal, CallPop, TryPopEmpty,
         PopCountWaiter, PopSleep, PopWake, SpuriousWake, PopClaim, listVars, condVars
<1>3. \A n \in Node : Hand(t, n)' <=> Hand(t, n)
  BY <1>1, IdleHolds DEF Hand
<1> QED BY <1>1, <1>2, <1>3, IdleHolds, LocalStep DEF Push, Pop

LEMMA PushReads ==
  ASSUME Types, CallInv, NEW m \in Nat, NEW f, NEW L, Lists(m, f, L), NEW t \in Thread,
         PushReadTail(t) \/ PushBehind(t)
  PROVE  Lists(m, f, L)'
<1> USE DEF Types, Goto, listVars, condVars, callVars, Linking, Retiring, Reading
<1>1. PushHolds(t, L) /\ tail \in L
  BY DEF Lists, Holds, TailOK
<1>2. CASE PushReadTail(t)
  <2>1. pc[t] = "tail" /\ pc'[t] = "link" /\ tl'[t] = tail
        /\ UNCHANGED <<elts, arg, hd, head, tail, nxt, val, free, crew>>
    BY <1>2 DEF PushReadTail
  <2>2. \A n \in Node : Hand(t, n)' <=> Hand(t, n)
    BY <2>1 DEF Hand
  <2>3. PushHolds(t, L)'
    BY <1>1, <2>1 DEF PushHolds
  <2>4. PopHolds(t, L)'
    BY <2>1 DEF PopHolds
  <2> QED BY <1>2, <2>1, <2>2, <2>3, <2>4, LocalStep DEF Push
<1>3. CASE PushBehind(t)
  <2>1. pc[t] = "link" /\ pc'[t] = "help" /\ nx' = [nx EXCEPT ![t] = nxt[tl[t]]] /\ nxt[tl[t]] # Null
        /\ UNCHANGED <<elts, arg, hd, tl, head, tail, nxt, val, free, crew>>
    BY <1>3 DEF PushBehind
  <2>2. \A n \in Node : Hand(t, n)' <=> Hand(t, n)
    BY <2>1 DEF Hand
  <2>3. PushHolds(t, L)'
    BY <1>1, <2>1 DEF PushHolds
  <2>4. PopHolds(t, L)'
    BY <2>1 DEF PopHolds
  <2> QED BY <1>3, <2>1, <2>2, <2>3, <2>4, LocalStep DEF Push
<1> QED BY <1>2, <1>3

LEMMA PopReads ==
  ASSUME Types, CallInv, NEW m \in Nat, NEW f, NEW L, Lists(m, f, L), NEW t \in Thread,
         PopReadHead(t) \/ PopReadTail(t) \/ PopReadNext(t) \/ PopLoad(t)
  PROVE  Lists(m, f, L)'
<1> USE DEF Types, Goto, listVars, condVars, callVars, Linking, Retiring, Reading
<1>1. PopHolds(t, L)
  BY DEF Lists, Holds
<1>2. ASSUME pc[t] \in Retiring <=> pc'[t] \in Retiring, UNCHANGED hd,
             pc[t] \notin Linking, pc'[t] \notin Linking
      PROVE  \A n \in Node : Hand(t, n)' <=> Hand(t, n)
  BY <1>2 DEF Hand
<1>3. CASE PopReadHead(t)
  <2>1. pc[t] = "read" /\ pc'[t] = "readtail" /\ hd'[t] = head
        /\ UNCHANGED <<head, tail, nxt, val, free, crew>>
    BY <1>3 DEF PopReadHead
  <2>2. \A n \in Node : Hand(t, n)' <=> Hand(t, n)
    BY <2>1 DEF Hand
  <2>3. PushHolds(t, L)'
    BY <2>1 DEF PushHolds
  <2>4. PopHolds(t, L)'
    <3>1. head \in Node
      BY PathEnds
    <3> QED BY <2>1, <3>1 DEF PopHolds, Rivalled
  <2> QED BY <1>3, <2>1, <2>2, <2>3, <2>4, LocalStep DEF Pop
<1>4. CASE PopReadTail(t)
  <2>1. pc[t] = "readtail" /\ pc'[t] = "readnext" /\ tl'[t] = tail
        /\ UNCHANGED <<hd, head, tail, nxt, val, free, crew>>
    BY <1>4 DEF PopReadTail
  <2>2. \A n \in Node : Hand(t, n)' <=> Hand(t, n)
    BY <1>2, <2>1
  <2>3. PushHolds(t, L)'
    BY <2>1 DEF PushHolds
  <2>4. PopHolds(t, L)'
    BY <1>1, <2>1 DEF PopHolds, Rivalled
  <2> QED BY <1>4, <2>1, <2>2, <2>3, <2>4, LocalStep DEF Pop
<1>5. CASE PopReadNext(t)
  <2>1. pc[t] = "readnext" /\ pc'[t] = PopNext(t) /\ nx' = [nx EXCEPT ![t] = nxt[hd[t]]]
        /\ UNCHANGED <<hd, tl, head, tail, nxt, val, free, crew>>
    BY <1>5 DEF PopReadNext
  <2>2. pc'[t] \in {"wait", "helptail", "read", "claim"}
    BY <2>1 DEF PopNext
  <2>3. \A n \in Node : Hand(t, n)' <=> Hand(t, n)
    BY <1>2, <2>1, <2>2
  <2>4. PushHolds(t, L)'
    BY <2>2 DEF PushHolds
  <2>5. nx'[t] = nxt[hd[t]]
    BY <2>1
  <2>6. PopHolds(t, L)'
    <3>1. CASE pc'[t] \in {"wait", "read"}
      BY <3>1 DEF PopHolds
    <3>2. CASE pc'[t] = "helptail"
      <4>1. hd[t] = tl[t] /\ nxt[hd[t]] # Null
        BY <2>1, <3>2 DEF PopNext
      <4> QED BY <1>1, <2>1, <2>5, <3>2, <4>1 DEF PopHolds, Rivalled
    <3>3. CASE pc'[t] = "claim"
      <4>1. hd[t] # tl[t]
        BY <2>1, <3>3 DEF PopNext
      <4>2. hd[t] = head => tail # head
        BY <1>1, <2>1, <4>1 DEF PopHolds
      <4>3. tail # head => nxt[head] # Null
        <5>1. tail \in L
          BY DEF Lists, TailOK
        <5>2. ASSUME nxt[head] = Null PROVE tail = head
          <6>1. m = 0 /\ L = {f[i] : i \in 0 .. m} /\ f[0] = head
            BY <5>2, PathEnds DEF Lists, OnPath, Path
          <6> QED BY <5>1, <6>1
        <5> QED BY <5>2
      <4>4. nxt[hd[t]] # Null
        BY <1>1, <2>1, <4>2, <4>3 DEF PopHolds
      <4> QED BY <1>1, <2>1, <2>5, <3>3, <4>2, <4>4 DEF PopHolds, Rivalled
    <3> QED BY <2>2, <3>1, <3>2, <3>3
  <2> QED BY <1>5, <2>1, <2>3, <2>4, <2>6, LocalStep DEF Pop
<1>6. CASE PopLoad(t)
  <2>1. pc[t] = "load" /\ pc'[t] = "release" /\ UNCHANGED <<hd, head, tail, nxt, val, free, crew>>
    BY <1>6 DEF PopLoad, readVars
  <2>2. \A n \in Node : Hand(t, n)' <=> Hand(t, n)
    BY <1>2, <2>1
  <2>3. PushHolds(t, L)'
    BY <2>1 DEF PushHolds
  <2>4. PopHolds(t, L)'
    BY <1>1, <2>1 DEF PopHolds
  <2> QED BY <1>6, <2>1, <2>2, <2>3, <2>4, LocalStep DEF Pop
<1> QED BY <1>3, <1>4, <1>5, <1>6

(* tail goes on by one entry, or stays.                                    *)
LEMMA TailSteps ==
  ASSUME Types, CallInv, NEW m \in Nat, NEW f, NEW L, Lists(m, f, L), NEW t \in Thread,
         PushHelp(t) \/ PushSwing(t) \/ PopHelp(t)
  PROVE  Lists(m, f, L)'
<1>1. PushHolds(t, L) /\ PopHolds(t, L) /\ TailOK(L)
  BY DEF Lists, Holds
<1>2. UNCHANGED <<head, nxt, val, free, crew, arg, elts, hd, tl, nx>>
  BY DEF PushHelp, PushSwing, PopHelp, condVars, callVars, readVars
<1>3. tail' = tail \/ (tail' = nxt[tail] /\ nxt[tail] # Null)
  BY <1>1 DEF PushHelp, PushSwing, PopHelp, TailSwapped, PushHolds, PopHolds
<1>4. tail' \in L /\ (tail' # tail => tail' # head)
  BY <1>1, <1>3, PathEnds DEF TailOK
<1>5. Path(m, f)' /\ TailOK(L)'
  <2>1. nxt[tail'] # Null => nxt[nxt[tail']] = Null
    BY <1>1, <1>3 DEF TailOK
  <2> QED BY <1>2, <1>4, <2>1 DEF Lists, Path, TailOK
<1>6. \/ pc[t] = "help" /\ pc'[t] = "tail"
      \/ pc[t] = "swing" /\ pc'[t] = "count"
      \/ pc[t] = "helptail" /\ pc'[t] = "read"
  BY DEF PushHelp, PushSwing, PopHelp, Goto, Types
<1>7. \A n \in Node : Hand(t, n)' <=> Hand(t, n)
  BY <1>2, <1>6 DEF Hand, Linking, Retiring
<1>8. Placed(L)'
  BY <1>2, <1>7, SamePlaces DEF Lists, Push, Pop
<1>9. PushHolds(t, L)' /\ PopHolds(t, L)'
  BY <1>1, <1>2, <1>6 DEF PushHolds, PopHolds, Linking, Retiring, Reading
<1>10. ASSUME NEW u \in Thread, u # t PROVE PushHolds(u, L)' /\ PopHolds(u, L)'
  <2>1. Keeps(u) /\ PushHolds(u, L) /\ PopHolds(u, L)
    BY <1>10, OthersKeep DEF Lists, Holds, Push, Pop
  <2>2. PushHolds(u, L)'
    <3>1. pc[u] = "link" /\ nxt[tl[u]] = Null => tl[u] = tail'
      BY <1>3, <2>1 DEF PushHolds
    <3> QED BY <1>2, <2>1, <3>1 DEF Keeps, PushHolds
  <2>3. PopHolds(u, L)'
    <3>1. tail # head => tail' # head
      BY <1>4
    <3> QED BY <1>2, <2>1, <3>1 DEF Keeps, PopHolds, Rivalled
  <2> QED BY <2>2, <2>3
<1> QED BY <1>5, <1>8, <1>9, <1>10 DEF Lists, Holds, OnPath

(* An entry leaves the pool: it is in no list and in nobody's hands, and   *)
(* no pointer that still counts leads to it.                               *)
LEMMA AllocStep ==
  ASSUME ~reused', Types, CallInv, NEW m \in Nat, NEW f, NEW L, Lists(m, f, L), NEW t \in Thread,
         PushAlloc(t)
  PROVE  Lists(m, f, L)' /\ \A n \in L : val'[n] = val[n]
<1>1. PICK n \in free :
        /\ pc[t] = "alloc" /\ pc'[t] = "tail"
        /\ free' = free \ {n}
        /\ nxt' = [nxt EXCEPT ![n] = Null]
        /\ val' = [val EXCEPT ![n] = arg[t]]
        /\ elts' = [elts EXCEPT ![t] = n]
        /\ UNCHANGED <<head, tail, crew, op, arg, res, hd, tl, nx>>
        /\ \A u \in Thread : n \notin Refs(u)
  BY DEF PushAlloc, Goto, condVars, readVars, Types
<1>2. n \in Node /\ n \notin L /\ \A u \in Thread : ~Hand(u, n)
  BY <1>1 DEF Lists, Placed, Types
<1>3. \A k \in Node : k # n => nxt'[k] = nxt[k] /\ val'[k] = val[k]
  BY <1>1 DEF Types
<1>4. nxt'[n] = Null /\ val'[n] = arg[t] /\ elts'[t] = n
  BY <1>1, <1>2 DEF Types
<1>5. L \subseteq Node /\ head \in L /\ tail \in L /\ \A k \in L : k # n /\ nxt'[k] = nxt[k]
  BY <1>2, <1>3, PathEnds DEF Lists, TailOK
<1>6. Path(m, f)'
  <2>1. \A i \in 0 .. m : f[i] \in L
    BY DEF Lists, OnPath
  <2>2. \A i \in 0 .. m : nxt'[f[i]] = nxt[f[i]]
    BY <1>5, <2>1
  <2> QED BY <1>1, <2>2 DEF Lists, Path
<1>7. TailOK(L)'
  <2>1. nxt[tail] # Null => nxt[tail] \in L
    BY <1>5, PathEnds
  <2> QED BY <1>1, <1>5, <2>1 DEF Lists, TailOK
<1>8. \A u \in Thread : u # t => Keeps(u)
  BY OthersKeep DEF Push
<1>9. Placed(L)'
  <2>1. \A u \in Thread, k \in Node : u # t => (Hand(u, k)' <=> Hand(u, k))
    BY <1>8 DEF Keeps, Hand
  <2>2. \A k \in Node : (Hand(t, k)' <=> k = n) /\ ~Hand(t, k)
    BY <1>1, <1>4 DEF Hand, Linking, Retiring
  <2>3. free' \cap L = {} /\ n \notin free'
    BY <1>1, <1>2 DEF Lists, Placed
  <2>4. \A u \in Thread, k \in Node : Hand(u, k)' => k \notin free' \cup L
    BY <1>1, <1>2, <2>1, <2>2, <2>3 DEF Lists, Placed
  <2>5. \A u, v \in Thread, k \in Node : Hand(u, k)' /\ Hand(v, k)' => u = v
    BY <1>2, <2>1, <2>2 DEF Lists, Placed
  <2>6. \A k \in Node : k \in free' \cup L \/ \E u \in Thread : Hand(u, k)'
    BY <1>1, <2>1, <2>2 DEF Lists, Placed
  <2> QED BY <2>3, <2>4, <2>5, <2>6 DEF Placed
<1>10. PushHolds(t, L)' /\ PopHolds(t, L)'
  BY <1>1, <1>2, <1>4 DEF PushHolds, PopHolds, Linking, Retiring, Reading
<1>11. ASSUME NEW u \in Thread, u # t PROVE PushHolds(u, L)' /\ PopHolds(u, L)'
  <2>1. Keeps(u) /\ PushHolds(u, L) /\ PopHolds(u, L) /\ n \notin Refs(u)
    BY <1>1, <1>8, <1>11 DEF Lists, Holds
  <2>2. PushHolds(u, L)'
    <3>1. pc[u] \in Linking => elts[u] # n
      BY <1>2 DEF Hand
    <3>2. pc[u] \in {"link", "help", "swing"} => nxt'[tl[u]] = nxt[tl[u]]
      BY <1>3, <2>1 DEF PushHolds, Refs
    <3> QED BY <1>1, <1>3, <2>1, <3>1, <3>2 DEF Keeps, PushHolds
  <2>3. PopHolds(u, L)'
    <3>1. pc[u] \in Reading => nxt'[hd[u]] = nxt[hd[u]]
      BY <1>3, <2>1 DEF PopHolds, Reading, Refs
    <3> QED BY <1>1, <2>1, <3>1 DEF Keeps, PopHolds, Rivalled, Reading
  <2> QED BY <2>2, <2>3
<1>12. Holds(L)'
  BY <1>10, <1>11 DEF Holds
<1> QED BY <1>3, <1>5, <1>6, <1>7, <1>9, <1>12 DEF Lists, OnPath

(* The old dummy goes back to the pool.                                    *)
LEMMA ReleaseStep ==
  ASSUME Types, CallInv, NEW m \in Nat, NEW f, NEW L, Lists(m, f, L), NEW t \in Thread,
         PopRelease(t)
  PROVE  Lists(m, f, L)'
<1>1. /\ pc[t] = "release" /\ pc'[t] = "idle" /\ free' = free \cup {hd[t]}
      /\ UNCHANGED <<head, tail, nxt, val, crew>>
  BY DEF PopRelease, Retired, Return, Goto, condVars, Types
<1>2. hd[t] \in Node /\ Hand(t, hd[t]) /\ \A k \in Node : Hand(t, k) => k = hd[t]
  BY <1>1 DEF Lists, Holds, PopHolds, Hand, Linking, Retiring
<1>3. \A u \in Thread : u # t => Keeps(u)
  BY OthersKeep DEF Pop
<1>4. Placed(L)'
  <2>1. \A u \in Thread, k \in Node : u # t => (Hand(u, k)' <=> Hand(u, k))
    BY <1>3 DEF Keeps, Hand
  <2>2. \A k \in Node : ~Hand(t, k)'
    BY <1>1, IdleHolds
  <2>3. \A k \in Node : k = hd[t] => k \notin L /\ \A u \in Thread : u # t => ~Hand(u, k)
    BY <1>2 DEF Lists, Placed
  <2>4. free' \cap L = {}
    BY <1>1, <1>2, <2>3 DEF Lists, Placed
  <2>5. \A u \in Thread, k \in Node : Hand(u, k)' => k \notin free' \cup L
    BY <1>1, <2>1, <2>2, <2>3 DEF Lists, Placed
  <2>6. \A u, v \in Thread, k \in Node : Hand(u, k)' /\ Hand(v, k)' => u = v
    BY <2>1, <2>2 DEF Lists, Placed
  <2>7. \A k \in Node : k \in free' \cup L \/ \E u \in Thread : Hand(u, k)'
    BY <1>1, <1>2, <2>1 DEF Lists, Placed
  <2> QED BY <2>4, <2>5, <2>6, <2>7 DEF Placed
<1>5. Path(m, f)' /\ TailOK(L)'
  BY <1>1 DEF Lists, Path, TailOK
<1>6. \A u \in Thread : PushHolds(u, L)' /\ PopHolds(u, L)'
  BY <1>1, <1>3, IdleHolds, OthersHold DEF Lists, Holds
<1> QED BY <1>4, <1>5, <1>6 DEF Lists, Holds, OnPath

(* An entry is linked behind the last one, which is the tail.              *)
LEMMA LinkStep ==
  ASSUME Types, CallInv, NEW m \in Nat, NEW f, NEW L, Lists(m, f, L), NEW t \in Thread,
         PushLink(t), NEW g, g = [i \in 0 .. m + 1 |-> IF i <= m THEN f[i] ELSE elts[t]]
  PROVE  Lists(m + 1, g, L \cup {elts[t]})'
<1>0. PICK n : n = elts[t]
  OBVIOUS
<1>1. /\ pc[t] = "link" /\ pc'[t] = "swing"
      /\ nxt' = [nxt EXCEPT ![tl[t]] = n]
      /\ UNCHANGED <<head, tail, val, free, crew, op, arg, elts, res, hd, tl, nx>>
  BY <1>0 DEF PushLink, Goto, condVars, callVars, readVars, Types
<1>2. nxt[tail] = Null /\ tl[t] = tail /\ n \in Node /\ nxt[n] = Null
  BY <1>0 DEF PushLink, Lists, Holds, PushHolds, Linking
<1>3. Hand(t, n) /\ n \notin L /\ n \notin free
  BY <1>0, <1>1, <1>2 DEF Hand, Linking, Lists, Placed
<1>4. tail = f[m] /\ tail \in L /\ head \in L /\ L \subseteq Node
  BY <1>2, PathEnds DEF Lists, TailOK
<1>5. nxt'[tail] = n /\ n # tail /\ \A k \in Node : k # tail => nxt'[k] = nxt[k]
  BY <1>1, <1>2, <1>3, <1>4 DEF Types
<1>6. nxt'[n] = Null /\ n # Null
  BY <1>2, <1>5
<1>7. \A u \in Thread : u # t => Keeps(u)
  BY OthersKeep DEF Push
<1>8. PICK M : M = L \cup {n}
  OBVIOUS
<1>9. /\ f \in [0 .. m -> Node] /\ f[0] = head
      /\ \A i \in 0 .. m - 1 : nxt[f[i]] = f[i + 1]
      /\ \A i, j \in 0 .. m : f[i] = f[j] => i = j
      /\ L = {f[i] : i \in 0 .. m}
  BY DEF Lists, Path, OnPath
<1>10. m + 1 \in Nat /\ (\A i \in 0 .. m : g[i] = f[i]) /\ g[m + 1] = n
  BY <1>0
<1>11. M = OnPath(m + 1, g)
  <2>1. \A i \in 0 .. m + 1 : i \in 0 .. m \/ i = m + 1
    OBVIOUS
  <2>2. \A i \in 0 .. m : i \in 0 .. m + 1
    OBVIOUS
  <2>3. OnPath(m + 1, g) \subseteq M
    BY <1>8, <1>9, <1>10, <2>1 DEF OnPath
  <2>4. M \subseteq OnPath(m + 1, g)
    <3>1. m + 1 \in 0 .. m + 1
      OBVIOUS
    <3> QED BY <1>8, <1>9, <1>10, <2>2, <3>1 DEF OnPath
  <2> QED BY <2>3, <2>4
<1>12. Path(m + 1, g)'
  <2>1. g \in [0 .. m + 1 -> Node] /\ g[0] = head
    BY <1>0, <1>2, <1>9, <1>10
  <2>2. ASSUME NEW i \in 0 .. m PROVE nxt'[g[i]] = g[i + 1]
    <3>1. CASE i = m
      BY <1>4, <1>5, <1>10, <3>1
    <3>2. CASE i # m
      <4>1. i \in 0 .. m - 1 /\ i + 1 \in 0 .. m /\ m \in 0 .. m
        BY <3>2
      <4>2. f[i] # f[m] /\ nxt[f[i]] = f[i + 1] /\ f[i] \in Node
        BY <1>9, <3>2, <4>1
      <4>3. g[i] = f[i] /\ g[i + 1] = f[i + 1]
        BY <1>10, <4>1
      <4> QED BY <1>4, <1>5, <4>2, <4>3
    <3> QED BY <3>1, <3>2
  <2>3. ASSUME NEW i \in 0 .. m + 1, NEW j \in 0 .. m + 1, g[i] = g[j] PROVE i = j
    <3>1. \A k \in 0 .. m : g[k] # n
      BY <1>3, <1>9, <1>10
    <3>2. (i \in 0 .. m \/ i = m + 1) /\ (j \in 0 .. m \/ j = m + 1)
      OBVIOUS
    <3>3. CASE i \in 0 .. m /\ j \in 0 .. m
      BY <1>9, <1>10, <2>3, <3>3
    <3>4. CASE i = m + 1 \/ j = m + 1
      BY <1>10, <2>3, <3>1, <3>2, <3>4
    <3> QED BY <3>2, <3>3, <3>4
  <2>4. (m + 1) - 1 = m
    OBVIOUS
  <2> QED BY <1>1, <1>6, <1>10, <2>1, <2>2, <2>3, <2>4 DEF Path
<1>13. Placed(M)'
  <2>1. \A u \in Thread, k \in Node : u # t => (Hand(u, k)' <=> Hand(u, k))
    BY <1>7 DEF Keeps, Hand
  <2>2. \A k \in Node : ~Hand(t, k)' /\ (Hand(t, k) => k = n)
    BY <1>0, <1>1 DEF Hand, Linking, Retiring
  <2>3. free' \cap M = {}
    BY <1>1, <1>3, <1>8 DEF Lists, Placed
  <2>4. \A u \in Thread : u # t => ~Hand(u, n)
    BY <1>2, <1>3 DEF Lists, Placed
  <2>5. \A u \in Thread, k \in Node : Hand(u, k)' => k \notin free' \cup M
    BY <1>1, <1>8, <2>1, <2>2, <2>4 DEF Lists, Placed
  <2>6. \A u, v \in Thread, k \in Node : Hand(u, k)' /\ Hand(v, k)' => u = v
    BY <2>1, <2>2 DEF Lists, Placed
  <2>7. \A k \in Node : k \in free' \cup M \/ \E u \in Thread : Hand(u, k)'
    BY <1>1, <1>8, <2>1, <2>2 DEF Lists, Placed
  <2> QED BY <2>3, <2>5, <2>6, <2>7 DEF Placed
<1>14. TailOK(M)'
  BY <1>1, <1>4, <1>5, <1>6, <1>8 DEF TailOK
<1>16. PushHolds(t, M)' /\ PopHolds(t, M)'
  BY <1>0, <1>1, <1>2, <1>4, <1>5, <1>6, <1>8 DEF PushHolds, PopHolds, Linking, Retiring, Reading
<1>17. ASSUME NEW u \in Thread, u # t PROVE PushHolds(u, M)' /\ PopHolds(u, M)'
  <2>1. Keeps(u) /\ PushHolds(u, L) /\ PopHolds(u, L)
    BY <1>7, <1>17 DEF Lists, Holds
  <2>2. PushHolds(u, M)'
    <3>1. pc[u] \in Linking => elts[u] \in Node /\ elts[u] # tail
      <4>1. pc[u] \in Linking => elts[u] \in Node /\ Hand(u, elts[u])
        BY <2>1 DEF PushHolds, Hand
      <4> QED BY <1>4, <4>1 DEF Lists, Placed
    <3>2. pc[u] \in {"link", "help", "swing"} =>
            /\ tl[u] \in Node
            /\ tl[u] # tail => nxt'[tl[u]] = nxt[tl[u]]
            /\ crew.pop = {} => tl[u] \in M
      BY <1>5, <1>8, <2>1 DEF PushHolds
    <3>3. nxt'[tail] # Null
      BY <1>5, <1>6
    <3>4. pc[u] \in Linking => nxt'[elts[u]] = Null /\ val'[elts[u]] = arg[u]
      BY <1>1, <1>5, <2>1, <3>1 DEF PushHolds
    <3>5. pc[u] = "link" /\ nxt'[tl[u]] = Null => tl[u] = tail
      BY <2>1, <3>2 DEF PushHolds
    <3>6. pc[u] = "help" => nx[u] = nxt'[tl[u]] /\ nx[u] # Null
      BY <1>2, <2>1, <3>2 DEF PushHolds
    <3>7. pc[u] = "swing" => elts[u] = nxt'[tl[u]] /\ elts[u] # Null
      BY <1>2, <2>1, <3>2 DEF PushHolds
    <3> QED BY <1>1, <2>1, <3>1, <3>2, <3>4, <3>5, <3>6, <3>7 DEF Keeps, PushHolds
  <2>3. PopHolds(u, M)'
    <3>1. pc[u] \in Reading =>
            /\ hd[u] \in Node /\ (hd[u] # tail => nxt'[hd[u]] = nxt[hd[u]])
            /\ hd[u] = head \/ (Rivalled /\ hd[u] \notin M /\ nxt'[hd[u]] # Null)
      BY <1>2, <1>4, <1>5, <1>8, <2>1 DEF PopHolds
    <3>2. pc[u] = "helptail" \/ pc[u] = "claim" => nx[u] = nxt'[hd[u]]
      <4>1. pc[u] = "helptail" \/ pc[u] = "claim" => hd[u] # tail
        BY <1>2, <2>1 DEF PopHolds
      <4> QED BY <1>5, <2>1, <3>1, <4>1 DEF PopHolds, Reading
    <3> QED BY <1>1, <2>1, <3>1, <3>2 DEF Keeps, PopHolds, Rivalled
  <2> QED BY <2>2, <2>3
<1>18. Holds(M)'
  BY <1>16, <1>17 DEF Holds
<1>19. Lists(m + 1, g, M)'
  BY <1>11, <1>12, <1>13, <1>14, <1>18 DEF Lists, OnPath
<1>20. (L \cup {elts[t]})' = M
  BY <1>0, <1>1, <1>8
<1> QED BY <1>19, <1>20

(* The dummy leaves the list; the entry behind it becomes the dummy.       *)
LEMMA ClaimStep ==
  ASSUME Types, CallInv, NEW m \in Nat, NEW f, NEW L, Lists(m, f, L), NEW t \in Thread,
         PopClaim(t), head = hd[t], NEW g, g = [i \in 0 .. m - 1 |-> f[i + 1]],
         NEW M, M = L \ {head}
  PROVE  m - 1 \in Nat /\ nx[t] = f[1] /\ Lists(m - 1, g, M)'
<1>1. /\ pc[t] = "claim" /\ pc'[t] = "load" /\ head' = nx[t]
      /\ UNCHANGED <<tail, nxt, val, free, crew, op, arg, elts, res, hd, tl, nx>>
  BY DEF PopClaim, Goto, condVars, callVars, readVars, Types
<1>2. nx[t] = nxt[head] /\ nx[t] # Null /\ tail # head
  BY <1>1 DEF Lists, Holds, PopHolds
<1>3. /\ head \in L /\ L \subseteq Node /\ tail \in L
      /\ nx[t] \in L /\ nx[t] # head
  BY <1>2, PathEnds DEF Lists, TailOK
<1>4. \A u \in Thread : u # t => Keeps(u)
  BY OthersKeep DEF Pop
<1>5. /\ f \in [0 .. m -> Node] /\ f[0] = head /\ nxt[f[m]] = Null
      /\ \A i \in 0 .. m - 1 : nxt[f[i]] = f[i + 1]
      /\ \A i, j \in 0 .. m : f[i] = f[j] => i = j
      /\ L = {f[i] : i \in 0 .. m}
  BY DEF Lists, Path, OnPath
<1>6. m # 0 /\ m - 1 \in Nat
  BY <1>2, PathEnds
<1>7. nx[t] = f[1]
  <2>1. 0 \in 0 .. m - 1 /\ 0 + 1 = 1
    BY <1>6
  <2> QED BY <1>2, <1>5, <2>1
<1>8. \A i \in 0 .. m - 1 : g[i] = f[i + 1] /\ i + 1 \in 0 .. m /\ i + 1 # 0
  OBVIOUS
<1>9. M = OnPath(m - 1, g)
  <2>1. \A i \in 0 .. m : f[i] # head => i - 1 \in 0 .. m - 1 /\ (i - 1) + 1 = i
    BY <1>5
  <2>2. ASSUME NEW i \in 0 .. m, f[i] # head PROVE f[i] \in {g[j] : j \in 0 .. m - 1}
    <3>1. g[i - 1] = f[i] /\ i - 1 \in 0 .. m - 1
      BY <1>8, <2>1, <2>2
    <3> QED BY <3>1
  <2>3. M \subseteq {g[j] : j \in 0 .. m - 1}
    BY <1>5, <2>2
  <2>4. ASSUME NEW j \in 0 .. m - 1 PROVE g[j] \in M
    <3>1. PICK i \in 0 .. m : i = j + 1 /\ i # 0
      BY <1>8
    <3>2. g[j] = f[i] /\ f[i] \in L
      BY <1>5, <1>8, <3>1
    <3>3. f[i] # f[0] /\ 0 \in 0 .. m
      BY <1>5, <3>1
    <3> QED BY <1>5, <3>2, <3>3
  <2>5. {g[j] : j \in 0 .. m - 1} \subseteq M
    BY <2>4
  <2> QED BY <2>3, <2>5 DEF OnPath
<1>10. Path(m - 1, g)'
  <2>1. g \in [0 .. m - 1 -> Node]
    BY <1>5, <1>8
  <2>2. g[0] = nx[t] /\ g[m - 1] = f[m]
    <3>1. 0 \in 0 .. m - 1 /\ m - 1 \in 0 .. m - 1 /\ (m - 1) + 1 = m /\ 0 + 1 = 1
      BY <1>6
    <3>2. g[0] = f[0 + 1] /\ g[m - 1] = f[(m - 1) + 1]
      BY <1>8, <3>1
    <3> QED BY <1>7, <3>1, <3>2
  <2>3. ASSUME NEW i \in 0 .. (m - 1) - 1 PROVE nxt[g[i]] = g[i + 1]
    <3>1. PICK k \in 0 .. m - 1 : k = i + 1
      OBVIOUS
    <3>2. i \in 0 .. m - 1
      OBVIOUS
    <3>3. g[i] = f[k] /\ g[k] = f[k + 1]
      BY <1>8, <3>1, <3>2
    <3> QED BY <1>5, <3>1, <3>3
  <2>4. ASSUME NEW i \in 0 .. m - 1, NEW j \in 0 .. m - 1, g[i] = g[j] PROVE i = j
    <3>1. f[i + 1] = f[j + 1] /\ i + 1 \in 0 .. m /\ j + 1 \in 0 .. m
      BY <1>8, <2>4
    <3>2. i + 1 = j + 1
      BY <1>5, <3>1
    <3> QED BY <3>2
  <2> QED BY <1>1, <1>5, <2>1, <2>2, <2>3, <2>4 DEF Path
<1>11. Placed(M)'
  <2>1. \A u \in Thread, k \in Node : u # t => (Hand(u, k)' <=> Hand(u, k))
    BY <1>4 DEF Keeps, Hand
  <2>2. \A k \in Node : (Hand(t, k)' <=> k = head) /\ ~Hand(t, k)
    BY <1>1 DEF Hand, Linking, Retiring
  <2>3. head \notin free /\ \A u \in Thread : ~Hand(u, head)
    BY <1>3 DEF Lists, Placed
  <2>4. free' \cap M = {}
    BY <1>1 DEF Lists, Placed
  <2>5. \A u \in Thread, k \in Node : Hand(u, k)' => k \notin free' \cup M
    BY <1>1, <2>1, <2>2, <2>3 DEF Lists, Placed
  <2>6. \A u, v \in Thread, k \in Node : Hand(u, k)' /\ Hand(v, k)' => u = v
    BY <2>1, <2>2, <2>3 DEF Lists, Placed
  <2>7. \A k \in Node : k \in free' \cup M \/ \E u \in Thread : Hand(u, k)'
    BY <1>1, <2>1, <2>2 DEF Lists, Placed
  <2> QED BY <2>4, <2>5, <2>6, <2>7 DEF Placed
<1>12. TailOK(M)'
  BY <1>1, <1>2, <1>3 DEF Lists, TailOK
<1>13. PushHolds(t, M)' /\ PopHolds(t, M)'
  BY <1>1, <1>3 DEF PushHolds, PopHolds, Linking, Retiring, Reading
<1>14. ASSUME NEW u \in Thread, u # t PROVE PushHolds(u, M)' /\ PopHolds(u, M)'
  <2>1. Keeps(u) /\ PushHolds(u, L) /\ PopHolds(u, L) /\ CallOK(u)
    BY <1>4, <1>14 DEF Lists, Holds, CallInv
  <2>2. t \in crew.pop
    BY <1>1 DEF CallInv, CallOK, Popping, Reading
  <2>3. PushHolds(u, M)'
    BY <1>1, <2>1, <2>2 DEF Keeps, PushHolds
  <2>4. PopHolds(u, M)'
    <3>1. pc[u] \in Popping => Rivalled
      BY <1>14, <2>1, <2>2, TwoPop DEF CallOK
    <3>2. pc[u] \in Reading =>
            Rivalled /\ hd[u] \in Node /\ hd[u] \notin M /\ nxt[hd[u]] # Null
      BY <1>2, <2>1, <3>1 DEF PopHolds, Popping
    <3>3. pc[u] \in Reading => hd[u] # head'
      BY <1>1, <1>3, <3>2
    <3>4. pc[u] = "load" => Rivalled
      BY <3>1 DEF Popping
    <3> QED BY <1>1, <2>1, <3>2, <3>3, <3>4 DEF Keeps, PopHolds, Rivalled, Reading
  <2> QED BY <2>3, <2>4
<1>15. Holds(M)'
  BY <1>13, <1>14 DEF Holds
<1> QED BY <1>6, <1>7, <1>9, <1>10, <1>11, <1>12, <1>15 DEF Lists, OnPath

(* What the other steps do to the list: nothing.                           *)
LEMMA OtherSteps ==
  ASSUME ~reused', Types, CallInv, NEW m \in Nat, NEW f, NEW L, Lists(m, f, L), NEW t \in Thread,
         Push(t) \/ Pop(t), ~PushLink(t), ~(PopClaim(t) /\ head = hd[t])
  PROVE  Lists(m, f, L)'
BY QuietSteps, PushReads, PopReads, TailSteps, AllocStep, ReleaseStep DEF Push, Pop

(* The value in an entry changes when it is taken from the pool.           *)
LEMMA SameValues ==
  ASSUME Types, NEW t \in Thread, Push(t) \/ Pop(t), NEW n \in Node,
         n \notin free \/ (~reused' /\ \E u \in Thread : n \in Refs(u))
  PROVE  val'[n] = val[n]
<1>1. CASE PushAlloc(t)
  <2>1. PICK k \in free :
          val' = [val EXCEPT ![k] = arg[t]] /\ (~reused' => \A u \in Thread : k \notin Refs(u))
    BY <1>1 DEF PushAlloc
  <2>2. k # n
    BY <2>1
  <2> QED BY <2>1, <2>2 DEF Types
<1>2. CASE ~PushAlloc(t)
  BY <1>2 DEF Push, Pop, CallPush, PushNoMem, PushReadTail, PushLink, PushBehind,
              PushHelp, PushSwing, PushCount, PushLook, PushSignal, CallPop, PopReadHead,
              PopReadTail, PopReadNext, TryPopEmpty, PopHelp, PopClaim, PopLoad, PopRelease,
              PopCountWaiter, PopSleep, PopWake, SpuriousWake, listVars
<1> QED BY <1>1, <1>2

(* While no entry is reused, the list is in order before the step as well. *)
LEMMA ListNow ==
  ASSUME IInv, ~reused', NEW t \in Thread, Push(t) \/ Pop(t)
  PROVE  ListInv
BY ReusedStays DEF IInv, Next

LEMMA StepInv ==
  ASSUME IInv, NEW t \in Thread, Push(t) \/ Pop(t)
  PROVE  IInv'
<1>1. Types /\ CallInv /\ CountInv
  BY DEF IInv
<1>2. Types' /\ CallInv' /\ CountInv'
  BY <1>1, StepTypes, StepCalls, StepCounts
<1>3. ASSUME ~reused' PROVE ListInv'
  <2>1. PICK m \in Nat : \E f, L : Lists(m, f, L)
    BY <1>3, ListNow DEF ListInv
  <2>2. PICK f, L : Lists(m, f, L)
    BY <2>1
  <2>3. CASE PushLink(t)
    <3>1. PICK g : g = [i \in 0 .. m + 1 |-> IF i <= m THEN f[i] ELSE elts[t]]
      OBVIOUS
    <3>2. Lists(m + 1, g, L \cup {elts[t]})' /\ m + 1 \in Nat
      BY <1>1, <2>2, <2>3, <3>1, LinkStep
    <3> QED BY <3>2 DEF ListInv
  <2>4. CASE PopClaim(t) /\ head = hd[t]
    <3>1. PICK g : g = [i \in 0 .. m - 1 |-> f[i + 1]]
      OBVIOUS
    <3>2. PICK M : M = L \ {head}
      OBVIOUS
    <3>3. Lists(m - 1, g, M)' /\ m - 1 \in Nat
      BY <1>1, <2>2, <2>4, <3>1, <3>2, ClaimStep
    <3> QED BY <3>3 DEF ListInv
  <2>5. CASE ~PushLink(t) /\ ~(PopClaim(t) /\ head = hd[t])
    <3>1. Lists(m, f, L)'
      BY <1>1, <1>3, <2>2, <2>5, OtherSteps
    <3> QED BY <3>1 DEF ListInv
  <2> QED BY <2>3, <2>4, <2>5
<1> QED BY <1>2, <1>3 DEF IInv

(* The queue is destroyed, or handed over, or nothing happens.             *)
LEMMA RestInv ==
  ASSUME IInv, Destroy \/ Regroup \/ UNCHANGED vars
  PROVE  IInv' /\ UNCHANGED listVars
<1>0. Types /\ CallInv /\ CountInv /\ (reused \/ ListInv)
  BY DEF IInv
<1>1. UNCHANGED <<listVars, emptyWaiters, pc, callVars, readVars, reused>>
  BY DEF Destroy, Regroup, vars, condVars
<1>2. /\ waiting' \subseteq waiting /\ crew' \in Crews /\ destroyed' \in BOOLEAN
      /\ crew' = crew \/ \A t \in Thread : pc[t] = "idle"
  BY <1>0 DEF Destroy, Regroup, vars, condVars, Types
<1>3. Types' /\ CountInv'
  BY <1>0, <1>1, <1>2 DEF Types, CountInv, Sleepers, listVars, callVars, readVars
<1>4. CallInv'
  BY <1>0, <1>1, <1>2 DEF CallInv, CallOK, Pushing, Popping, Reading, listVars, callVars, readVars
<1>5. ASSUME ListInv PROVE ListInv'
  <2>1. PICK m \in Nat : \E f, L : Lists(m, f, L)
    BY <1>5 DEF ListInv
  <2>2. PICK f, L : Lists(m, f, L)
    BY <2>1
  <2>3. Path(m, f)' /\ Placed(L)' /\ TailOK(L)'
    BY <1>1, <2>2 DEF Lists, Path, Placed, Hand, TailOK, listVars, callVars, readVars
  <2>4. ASSUME NEW t \in Thread PROVE PushHolds(t, L)' /\ PopHolds(t, L)'
    <3>1. PushHolds(t, L) /\ PopHolds(t, L)
      BY <2>2 DEF Lists, Holds
    <3>2. CASE pc[t] = "idle"
      BY <1>1, <3>2, IdleHolds
    <3>3. CASE crew' = crew
      BY <1>1, <3>1, <3>3 DEF PushHolds, PopHolds, Rivalled, listVars, callVars, readVars
    <3> QED BY <1>2, <3>2, <3>3
  <2>5. Lists(m, f, L)'
    BY <2>2, <2>3, <2>4 DEF Lists, Holds, OnPath
  <2> QED BY <2>5 DEF ListInv
<1> QED BY <1>0, <1>1, <1>3, <1>4, <1>5 DEF IInv

LEMMA InitInv ==
  ASSUME Init
  PROVE  IInv /\ Contents = <<>>
<1> USE DEF Init
<1>1. Types
  <2>1. head \in Node /\ free \subseteq Node /\ Null \in Node \cup {Null}
    OBVIOUS
  <2>2. /\ nxt \in [Node -> Node \cup {Null}] /\ val \in [Node -> Value \cup {Null}]
        /\ pc \in [Thread -> {"idle"} \cup Pushing \cup Popping]
        /\ op \in [Thread -> PushOps \cup PopOps \cup {"none"}]
    OBVIOUS
  <2>3. /\ arg \in [Thread -> Value \cup {Null}] /\ res \in [Thread -> Value \cup {Null}]
        /\ elts \in [Thread -> Node \cup {Null}] /\ hd \in [Thread -> Node \cup {Null}]
        /\ tl \in [Thread -> Node \cup {Null}] /\ nx \in [Thread -> Node \cup {Null}]
    OBVIOUS
  <2>4. tail \in Node /\ nelts \in Int /\ waiting \subseteq Thread
    OBVIOUS
  <2>5. destroyed \in BOOLEAN /\ reused \in BOOLEAN
    OBVIOUS
  <2>6. crew \in Crews
    OBVIOUS
  <2> HIDE DEF Init
  <2> QED BY <2>1, <2>2, <2>3, <2>4, <2>5, <2>6 DEF Types
<1>2. CallInv
  BY DEF CallInv, CallOK, Pushing, Popping, Reading
<1>3. Sleepers = {}
  BY DEF Sleepers
<1>4. CountInv
  BY <1>3, FS_EmptySet DEF CountInv
<1>5. PICK f : f = [i \in 0 .. 0 |-> head]
  OBVIOUS
<1>6. Path(0, f)
  BY <1>5 DEF Path
<1>7. OnPath(0, f) = {head}
  BY <1>5 DEF OnPath
<1>8. Placed({head}) /\ TailOK({head})
  BY DEF Placed, Hand, Linking, Retiring, TailOK
<1>9. Holds({head})
  BY DEF Holds, PushHolds, PopHolds, Linking, Reading, Retiring
<1>10. Lists(0, f, {head})
  BY <1>6, <1>7, <1>8, <1>9 DEF Lists
<1>11. ListInv
  BY <1>10 DEF ListInv
<1>12. Contents = [i \in 1 .. 0 |-> val[f[i]]]
  BY <1>6, ContentsNow DEF ContentsAre
<1>13. Contents = <<>>
  <2>1. 1 .. 0 = {}
    OBVIOUS
  <2> QED BY <1>12, <2>1
<1> QED BY <1>1, <1>2, <1>4, <1>11, <1>13 DEF IInv

-----------------------------------------------------------------------------
(* The queue of Fifo.                                                      *)

(* The call of t as the client sees it.                                    *)
CallOf(t) == IF Effective(t) THEN "none" ELSE op[t]
ArgOf(t) == IF Effective(t) THEN Null ELSE arg[t]
ResOf(t) == CASE pc[t] \in {"swing", "count", "look", "signal"} -> arg[t]
              [] pc[t] = "load" -> val[nx[t]]
              [] OTHER -> res[t]

(* For the client of t, nothing happens.                                   *)
Unseen(t) == CallOf(t)' = CallOf(t) /\ ArgOf(t)' = ArgOf(t) /\ ResOf(t)' = ResOf(t)

LEMMA OthersUnseen ==
  ASSUME ~reused', Types, CallInv, NEW m \in Nat, NEW f, NEW L, Lists(m, f, L), NEW t \in Thread,
         Push(t) \/ Pop(t), NEW u \in Thread, u # t
  PROVE  Unseen(u)
<1>1. Keeps(u)
  BY OthersKeep
<1>2. pc[u] = "load" => val'[nx[u]] = val[nx[u]]
  <2> SUFFICES ASSUME pc[u] = "load" PROVE val'[nx[u]] = val[nx[u]]
    OBVIOUS
  <2>1. nx[u] \in Node
    BY DEF Lists, Holds, PopHolds
  <2>2. nx[u] \in Refs(u)
    BY DEF Refs
  <2> QED BY <2>1, <2>2, SameValues
<1> QED BY <1>1, <1>2 DEF Unseen, CallOf, ArgOf, ResOf, Effective, Keeps

(* A step that shows in the variables of Fifo as a stutter.                *)
LEMMA UnseenStep ==
  ASSUME UNCHANGED <<Contents, destroyed>>, \A u \in Thread : Unseen(u)
  PROVE  UNCHANGED Abstract!fifoVars
<1>1. /\ [u \in Thread |-> CallOf(u)]' = [u \in Thread |-> CallOf(u)]
      /\ [u \in Thread |-> ArgOf(u)]' = [u \in Thread |-> ArgOf(u)]
      /\ [u \in Thread |-> ResOf(u)]' = [u \in Thread |-> ResOf(u)]
  BY DEF Unseen
<1> QED BY <1>1 DEF Abstract!fifoVars, CallOf, ArgOf, ResOf

(* The call of t takes effect with the result r.                           *)
LEMMA FinishStep ==
  ASSUME NEW t \in Thread, \A u \in Thread : u # t => Unseen(u), UNCHANGED destroyed,
         NEW r, CallOf(t)' = "none", ArgOf(t)' = Null, ResOf(t)' = r
  PROVE  Abstract!Finish(t, r)
<1>1. [u \in Thread |-> CallOf(u)]' = [[u \in Thread |-> CallOf(u)] EXCEPT ![t] = "none"]
  BY DEF Unseen
<1>2. [u \in Thread |-> ArgOf(u)]' = [[u \in Thread |-> ArgOf(u)] EXCEPT ![t] = Null]
  BY DEF Unseen
<1>3. [u \in Thread |-> ResOf(u)]' = [[u \in Thread |-> ResOf(u)] EXCEPT ![t] = r]
  BY DEF Unseen
<1> QED BY <1>1, <1>2, <1>3 DEF Abstract!Finish, CallOf, ArgOf, ResOf

LEMMA SameContents ==
  ASSUME Types, CallInv, NEW m \in Nat, NEW f, NEW L, Lists(m, f, L), NEW t \in Thread,
         Push(t) \/ Pop(t), Lists(m, f, L)'
  PROVE  Contents' = Contents
<1>1. Contents = [i \in 1 .. m |-> val[f[i]]] /\ Contents' = [i \in 1 .. m |-> val'[f[i]]]
  BY ContentsNow, ContentsNext DEF ContentsAre, Lists
<1>2. ASSUME NEW i \in 1 .. m PROVE val'[f[i]] = val[f[i]]
  <2>1. f[i] \in L /\ f[i] \in Node
    BY DEF Lists, OnPath, Path
  <2>2. f[i] \notin free
    BY <2>1 DEF Lists, Placed
  <2> QED BY <2>1, <2>2, SameValues
<1> QED BY <1>1, <1>2

(* The linked entry is the last value.                                     *)
LEMMA LinkEnqueues ==
  ASSUME IInv, ~reused', NEW t \in Thread, PushLink(t)
  PROVE  Abstract!Enqueue(t)
<1>0. Types /\ CallInv
  BY DEF IInv
<1>1. PICK m \in Nat : \E f, L : Lists(m, f, L)
  BY ListNow DEF ListInv, Push, Pop
<1>2. PICK f, L : Lists(m, f, L)
  BY <1>1
<1>3. PICK g : g = [i \in 0 .. m + 1 |-> IF i <= m THEN f[i] ELSE elts[t]]
  OBVIOUS
<1>4. Lists(m + 1, g, L \cup {elts[t]})' /\ m + 1 \in Nat
  BY <1>0, <1>2, <1>3, LinkStep
<1>5. /\ pc[t] = "link" /\ pc'[t] = "swing" /\ UNCHANGED <<val, destroyed, op, arg, elts>>
      /\ op[t] \in PushOps /\ val[elts[t]] = arg[t]
  BY <1>0, <1>2 DEF PushLink, Goto, condVars, callVars, Types, CallInv, CallOK, Pushing,
                    Lists, Holds, PushHolds, Linking
<1>6. Contents' = Append(Contents, arg[t])
  <2>1. Contents = [i \in 1 .. m |-> val[f[i]]]
    BY <1>2, ContentsNow DEF ContentsAre, Lists
  <2>2. Contents' = [i \in 1 .. m + 1 |-> val[g[i]]]
    BY <1>4, <1>5, ContentsNext DEF ContentsAre, Lists
  <2>3. (\A i \in 1 .. m : val[g[i]] = val[f[i]]) /\ val[g[m + 1]] = arg[t]
    BY <1>3, <1>5
  <2>4. \A i \in 1 .. m : val[f[i]] \in Value \cup {Null}
    BY <1>0, <1>2 DEF Lists, Path, Types
  <2>5. Contents \in Seq(Value \cup {Null}) /\ Len(Contents) = m
    BY <2>1, <2>4
  <2> QED BY <2>1, <2>2, <2>3, <2>5
<1>7. CallOf(t) = op[t] /\ ArgOf(t) = arg[t]
  BY <1>5 DEF CallOf, ArgOf, Effective
<1>8. CallOf(t)' = "none" /\ ArgOf(t)' = Null /\ ResOf(t)' = arg[t]
  BY <1>5 DEF CallOf, ArgOf, ResOf, Effective
<1>9. PICK r : r = arg[t]
  OBVIOUS
<1>10. Abstract!Finish(t, r)
  BY <1>0, <1>2, <1>5, <1>8, <1>9, OthersUnseen, FinishStep DEF Push
<1> QED BY <1>5, <1>6, <1>7, <1>9, <1>10
        DEF Abstract!Enqueue, Abstract!Pushes, Abstract!Finish, CallOf, ArgOf

(* The entry that becomes the dummy held the first value.                  *)
LEMMA ClaimDequeues ==
  ASSUME IInv, ~reused', NEW t \in Thread, PopClaim(t), head = hd[t]
  PROVE  Abstract!Dequeue(t)
<1>0. Types /\ CallInv
  BY DEF IInv
<1>1. PICK m \in Nat : \E f, L : Lists(m, f, L)
  BY ListNow DEF ListInv, Push, Pop
<1>2. PICK f, L : Lists(m, f, L)
  BY <1>1
<1>3. PICK g : g = [i \in 0 .. m - 1 |-> f[i + 1]]
  OBVIOUS
<1>4. PICK M : M = L \ {head}
  OBVIOUS
<1>5. m - 1 \in Nat /\ nx[t] = f[1] /\ Lists(m - 1, g, M)'
  BY <1>0, <1>2, <1>3, <1>4, ClaimStep
<1>6. /\ pc[t] = "claim" /\ pc'[t] = "load" /\ UNCHANGED <<val, destroyed, op, arg, nx>>
      /\ op[t] \in PopOps
  BY <1>0 DEF PopClaim, Goto, condVars, callVars, readVars, Types, CallInv, CallOK, Popping, Reading
<1>7. Contents # <<>> /\ Contents' = Tail(Contents) /\ Head(Contents) = val[nx[t]]
  <2>1. Contents = [i \in 1 .. m |-> val[f[i]]]
    BY <1>2, ContentsNow DEF ContentsAre, Lists
  <2>2. Contents' = [i \in 1 .. m - 1 |-> val[g[i]]]
    BY <1>5, <1>6, ContentsNext DEF ContentsAre, Lists
  <2>3. \A i \in 1 .. m - 1 : val[g[i]] = val[f[i + 1]]
    BY <1>3
  <2>4. \A i \in 1 .. m : val[f[i]] \in Value \cup {Null}
    BY <1>0, <1>2 DEF Lists, Path, Types
  <2>5. Contents \in Seq(Value \cup {Null}) /\ Len(Contents) = m
    BY <2>1, <2>4
  <2> QED BY <1>5, <2>1, <2>2, <2>3, <2>5
<1>8. CallOf(t) = op[t]
  BY <1>6 DEF CallOf, Effective
<1>9. CallOf(t)' = "none" /\ ArgOf(t)' = Null /\ ResOf(t)' = val[nx[t]]
  BY <1>6 DEF CallOf, ArgOf, ResOf, Effective
<1>10. PICK r : r = val[nx[t]]
  OBVIOUS
<1>11. Abstract!Finish(t, r)
  BY <1>0, <1>2, <1>6, <1>9, <1>10, OthersUnseen, FinishStep DEF Pop
<1> QED BY <1>6, <1>7, <1>8, <1>10, <1>11
        DEF Abstract!Dequeue, Abstract!Pops, Abstract!Finish, CallOf

(* What the steps that leave the list alone leave of the contents.         *)
LEMMA QuietContents ==
  ASSUME IInv, ~reused', NEW t \in Thread, Push(t) \/ Pop(t), ~PushLink(t),
         ~(PopClaim(t) /\ head = hd[t])
  PROVE  /\ Contents' = Contents
         /\ \A u \in Thread : u # t => Unseen(u)
<1>1. Types /\ CallInv
  BY DEF IInv
<1>2. PICK m \in Nat : \E f, L : Lists(m, f, L)
  BY ListNow DEF ListInv, Push, Pop
<1>3. PICK f, L : Lists(m, f, L)
  BY <1>2
<1>4. Lists(m, f, L)'
  BY <1>1, <1>3, OtherSteps
<1> QED BY <1>1, <1>3, <1>4, SameContents, OthersUnseen

LEMMA CallStep ==
  ASSUME IInv, ~reused', NEW t \in Thread, CallPush(t) \/ CallPop(t)
  PROVE  Abstract!Call(t)
<1>1. pc[t] = "idle" /\ op[t] = "none" /\ ~destroyed /\ UNCHANGED <<destroyed, res>>
  BY DEF CallPush, CallPop, IInv, CallInv, CallOK, condVars
<1>2. ~PushLink(t) /\ ~PopClaim(t)
  BY <1>1 DEF PushLink, PopClaim
<1>3. Contents' = Contents /\ \A u \in Thread : u # t => Unseen(u)
  BY <1>2, QuietContents DEF Push, Pop
<1>4. PICK o \in PushOps \cup PopOps, v \in Value :
        /\ op'[t] = o /\ pc'[t] \in {"alloc", "read"}
        /\ (o \in PushOps /\ arg'[t] = v) \/ (o \in PopOps /\ arg'[t] = arg[t])
  BY DEF CallPush, CallPop, Goto, IInv, Types
<1>5. CallOf(t) = "none" /\ ArgOf(t) = arg[t] /\ ResOf(t)' = ResOf(t)
      /\ CallOf(t)' = o /\ ArgOf(t)' = arg'[t]
  BY <1>1, <1>4 DEF CallOf, ArgOf, ResOf, Effective
<1>6. /\ [u \in Thread |-> CallOf(u)]' = [[u \in Thread |-> CallOf(u)] EXCEPT ![t] = o]
      /\ [u \in Thread |-> ResOf(u)]' = [u \in Thread |-> ResOf(u)]
      /\ [u \in Thread |-> CallOf(u)][t] = "none"
  BY <1>3, <1>5 DEF Unseen
<1>7. \/ /\ o \in Abstract!Pushes
         /\ [u \in Thread |-> ArgOf(u)]' = [[u \in Thread |-> ArgOf(u)] EXCEPT ![t] = v]
      \/ /\ o \in Abstract!Pops
         /\ [u \in Thread |-> ArgOf(u)]' = [u \in Thread |-> ArgOf(u)]
  BY <1>3, <1>4, <1>5 DEF Unseen, Abstract!Pushes, Abstract!Pops
<1> QED BY <1>1, <1>3, <1>6, <1>7 DEF Abstract!Call, CallOf, ArgOf, ResOf

(* A push without memory, a trypop on an empty list, and a pop that is     *)
(* woken because the queue goes away, return nothing.                      *)
LEMMA FailStep ==
  ASSUME IInv, ~reused', NEW t \in Thread,
         PushNoMem(t) \/ TryPopEmpty(t) \/ (PopWake(t) /\ destroyed)
  PROVE  Abstract!Refuse(t) \/ Abstract!FindEmpty(t) \/ Abstract!GiveUp(t)
<1>0. Types /\ CallInv
  BY DEF IInv
<1>1. /\ pc[t] \in {"alloc", "readnext", "asleep"} /\ pc'[t] = "idle" /\ op'[t] = "none"
      /\ arg'[t] = Null /\ res'[t] = Null /\ UNCHANGED destroyed
  BY <1>0 DEF PushNoMem, TryPopEmpty, PopWake, Return, Goto, Types, condVars
<1>2. ~PushLink(t) /\ ~PopClaim(t)
  BY <1>1 DEF PushLink, PopClaim
<1>3. Contents' = Contents /\ \A u \in Thread : u # t => Unseen(u)
  BY <1>2, QuietContents DEF Push, Pop
<1>4. CallOf(t) = op[t] /\ CallOf(t)' = "none" /\ ArgOf(t)' = Null /\ ResOf(t)' = Null
  BY <1>1 DEF CallOf, ArgOf, ResOf, Effective
<1>5. Abstract!Finish(t, Null)
  BY <1>1, <1>3, <1>4, FinishStep
<1>6. CASE PushNoMem(t)
  <2>1. op[t] \in Abstract!Pushes
    BY <1>0, <1>6 DEF PushNoMem, CallInv, CallOK, Pushing, Abstract!Pushes
  <2> QED BY <1>3, <1>4, <1>5, <2>1 DEF Abstract!Refuse, CallOf
<1>7. CASE TryPopEmpty(t)
  <2>1. PICK m \in Nat : \E f, L : Lists(m, f, L)
    BY ListNow DEF ListInv, Push, Pop
  <2>2. PICK f, L : Lists(m, f, L)
    BY <2>1
  <2>3. pc[t] = "readnext" /\ op[t] = "trypop" /\ nxt[hd[t]] = Null
    BY <1>7 DEF TryPopEmpty, PopNext
  <2>4. nxt[head] = Null
    BY <2>2, <2>3 DEF Lists, Holds, PopHolds, Reading
  <2>5. m = 0
    BY <2>2, <2>4, PathEnds
  <2>6. Contents = [i \in 1 .. 0 |-> val[f[i]]]
    BY <2>2, <2>5, ContentsNow DEF ContentsAre, Lists
  <2>7. Contents = <<>>
    <3>1. 1 .. 0 = {}
      OBVIOUS
    <3> QED BY <2>6, <3>1
  <2> QED BY <1>3, <1>4, <1>5, <2>3, <2>7 DEF Abstract!FindEmpty, CallOf
<1>8. CASE PopWake(t) /\ destroyed
  <2>1. op[t] = "pop" /\ destroyed
    BY <1>0, <1>8 DEF PopWake, CallInv, CallOK
  <2> QED BY <1>3, <1>4, <1>5, <2>1 DEF Abstract!GiveUp, CallOf
<1> QED BY <1>6, <1>7, <1>8

LEMMA HiddenStep ==
  ASSUME IInv, ~reused', NEW t \in Thread,
         \/ PushAlloc(t) \/ PushReadTail(t) \/ PushBehind(t) \/ PushHelp(t) \/ PushSwing(t)
         \/ PushCount(t) \/ PushLook(t) \/ PushSignal(t)
         \/ PopReadHead(t) \/ PopReadTail(t) \/ PopReadNext(t) \/ PopHelp(t)
         \/ (PopClaim(t) /\ head # hd[t]) \/ PopLoad(t) \/ PopRelease(t) \/ PopCountWaiter(t)
         \/ PopSleep(t) \/ (PopWake(t) /\ ~destroyed) \/ SpuriousWake(t)
  PROVE  UNCHANGED Abstract!fifoVars
<1>0. Types /\ CallInv
  BY DEF IInv
<1>1. ~(PopClaim(t) /\ head = hd[t]) /\ ~PushLink(t)
  BY <1>0 DEF PushLink, PushAlloc, PushReadTail, PushBehind, PushHelp, PushSwing,
         PushCount, PushLook, PushSignal, PopReadHead, PopReadTail, PopReadNext, PopHelp,
         PopClaim, PopLoad, PopRelease, PopCountWaiter, PopSleep, PopWake, SpuriousWake, CallInv, CallOK
<1>2. Contents' = Contents /\ \A u \in Thread : u # t => Unseen(u)
  BY <1>1, QuietContents DEF Push, Pop
<1>3. UNCHANGED destroyed
  BY DEF PushAlloc, PushReadTail, PushBehind, PushHelp, PushSwing,
         PushCount, PushLook, PushSignal, PopReadHead, PopReadTail, PopReadNext, PopHelp,
         PopClaim, PopLoad, PopRelease, PopCountWaiter, PopSleep, PopWake, SpuriousWake, condVars
<1>4. Unseen(t)
  <2> USE <1>0 DEF Unseen, CallOf, ArgOf, ResOf, Effective, Types, Goto, callVars
  <2>1. CASE PushAlloc(t) \/ PushReadTail(t) \/ PushBehind(t) \/ PushHelp(t) \/ PushSwing(t)
    BY <2>1 DEF PushAlloc, PushReadTail, PushBehind, PushHelp, PushSwing
  <2>2. CASE PopReadHead(t) \/ PopReadTail(t) \/ PopReadNext(t) \/ PopHelp(t)
    BY <2>2 DEF PopReadHead, PopReadTail, PopReadNext, PopNext, PopHelp
  <2>3. CASE \/ (PopClaim(t) /\ head # hd[t]) \/ PopCountWaiter(t) \/ PopSleep(t)
             \/ (PopWake(t) /\ ~destroyed)
    BY <2>3 DEF PopClaim, PopCountWaiter, PopSleep, PopWake
  <2>4. CASE SpuriousWake(t)
    <3>1. pc[t] = "asleep"
      BY <2>4 DEF SpuriousWake, CallInv, CallOK
    <3> QED BY <2>4, <3>1 DEF SpuriousWake
  <2>5. CASE PushCount(t) \/ PushLook(t) \/ PushSignal(t)
    BY <2>5 DEF PushCount, PushLook, PushSignal, Return
  <2>6. CASE PopRelease(t)
    BY <2>6 DEF PopRelease, Return
  <2>7. CASE PopLoad(t)
    BY <2>7 DEF PopLoad, Loaded
  <2> QED BY <2>1, <2>2, <2>3, <2>4, <2>5, <2>6, <2>7
<1> QED BY <1>2, <1>3, <1>4, UnseenStep

LEMMA NextStep ==
  ASSUME IInv, [Next]_vars
  PROVE  IInv' /\ [reused' \/ Abstract!Next]_(Abstract!fifoVars)
<1>1. ASSUME NEW t \in Thread, Push(t) \/ Pop(t)
      PROVE  IInv' /\ [reused' \/ Abstract!Next]_(Abstract!fifoVars)
  <2>1. IInv'
    BY <1>1, StepInv
  <2>0. CASE reused'
    BY <2>0, <2>1
  <2> SUFFICES ASSUME ~reused'
               PROVE  [Abstract!Next]_(Abstract!fifoVars)
    BY <2>0, <2>1
  <2>2. CASE CallPush(t) \/ CallPop(t)
    BY <2>1, <2>2, CallStep DEF Abstract!Next
  <2>3. CASE PushNoMem(t) \/ TryPopEmpty(t) \/ (PopWake(t) /\ destroyed)
    BY <2>1, <2>3, FailStep DEF Abstract!Next
  <2>4. CASE PushLink(t)
    BY <2>1, <2>4, LinkEnqueues DEF Abstract!Next
  <2>5. CASE PopClaim(t) /\ head = hd[t]
    BY <2>1, <2>5, ClaimDequeues DEF Abstract!Next
  <2> QED BY <1>1, <2>1, <2>2, <2>3, <2>4, <2>5, HiddenStep DEF Push, Pop
<1>2. ASSUME Destroy \/ Regroup \/ UNCHANGED vars
      PROVE  IInv' /\ [reused' \/ Abstract!Next]_(Abstract!fifoVars)
  <2>1. IInv' /\ UNCHANGED listVars
    BY <1>2, RestInv
  <2>2. UNCHANGED <<head, nxt, val, pc, op, arg, res, nx>>
    BY <1>2, <2>1 DEF Destroy, Regroup, vars, listVars, callVars, readVars
  <2>3. Contents' = Contents
    BY <2>2 DEF Contents, Listed, Walk
  <2>4. CASE Destroy
    BY <2>1, <2>2, <2>3, <2>4 DEF Destroy, Abstract!Next, Abstract!Close, Effective
  <2>5. CASE Regroup \/ UNCHANGED vars
    BY <2>1, <2>2, <2>3, <2>5 DEF Regroup, vars, condVars, Abstract!fifoVars, Effective
  <2> QED BY <1>2, <2>4, <2>5
<1> QED BY <1>1, <1>2 DEF Next

LEMMA InitStep ==
  ASSUME Init
  PROVE  IInv /\ Abstract!Init
<1>1. Contents = <<>> /\ IInv
  BY InitInv
<1>2. \A t \in Thread : CallOf(t) = "none" /\ ArgOf(t) = Null /\ ResOf(t) = Null
  BY DEF Init, CallOf, ArgOf, ResOf, Effective
<1>3. destroyed = FALSE
  BY DEF Init
<1> QED BY <1>1, <1>2, <1>3 DEF Abstract!Init, CallOf, ArgOf, ResOf

-----------------------------------------------------------------------------

(* The invariant that the theorems below rest on.                          *)
THEOREM Invariance == Spec => []IInv
<1>1. Init => IInv
  BY InitStep
<1>2. IInv /\ [Next]_vars => IInv'
  BY NextStep
<1> QED BY <1>1, <1>2, PTL DEF Spec

(* The list behaves as the queue of Fifo until an entry is reused under a  *)
(* pointer: the compare-and-swap on entry->next is the push, the one on    *)
(* head is the pop, and values leave in the order in which they came.      *)
THEOREM Implements == Spec => ImplementsFifo
<1>1. Init => IInv /\ Abstract!Init
  BY InitStep
<1>2. IInv /\ [Next]_vars => IInv' /\ [reused' \/ Abstract!Next]_(Abstract!fifoVars)
  BY NextStep
<1> QED BY <1>1, <1>2, PTL DEF Spec, ImplementsFifo

LEMMA ReuseStep ==
  ASSUME IInv, ~reused, NEW t \in Thread, PushAlloc(t), reused'
  PROVE  ~Fits(crew)
<1> SUFFICES ASSUME Fits(crew) PROVE FALSE
  OBVIOUS
<1>1. PICK m \in Nat : \E f, L : Lists(m, f, L)
  BY DEF IInv, ListInv
<1>2. PICK f, L : Lists(m, f, L)
  BY <1>1
<1>3. PICK n \in free, u \in Thread : n \in Refs(u)
  BY DEF PushAlloc
<1>4. n \notin L /\ head \in L /\ CallOK(u) /\ PushHolds(u, L) /\ PopHolds(u, L)
  BY <1>2, PathEnds DEF Lists, Placed, Holds, IInv, CallInv
<1>5. pc[t] = "alloc" /\ t \in crew.push
  BY DEF PushAlloc, IInv, CallInv, CallOK, Pushing
<1>6. ~Rivalled
  BY <1>5 DEF Rivalled
<1>7. CASE pc[u] \in {"link", "help", "swing"}
  <2>1. n = tl[u] /\ u \in crew.push /\ u # t
    BY <1>3, <1>4, <1>5, <1>7 DEF Refs, CallOK, Pushing
  <2>2. crew.pop = {}
    BY <1>5, <2>1 DEF Fits
  <2> QED BY <1>4, <1>7, <2>1, <2>2 DEF PushHolds
<1>8. CASE pc[u] \in Reading
  BY <1>3, <1>4, <1>6, <1>8 DEF Refs, Reading, PopHolds
<1>9. CASE pc[u] = "load"
  BY <1>3, <1>4, <1>6, <1>9 DEF Refs, PopHolds
<1> QED BY <1>3, <1>7, <1>8, <1>9 DEF Refs, Reading

(* No entry is reused under a pointer while one side of the queue is in    *)
(* use, or one thread pushes and one pops: then the theorems here hold     *)
(* throughout.                                                             *)
THEOREM ReuseNeedsThree == Spec => ReusedOnlyCrowded
<1>1. ASSUME IInv, [Next]_vars PROVE [~reused /\ reused' => ~Fits(crew)]_vars
  <2>1. CASE \E t \in Thread : PushAlloc(t)
    BY <1>1, <2>1, ReuseStep
  <2>2. CASE ~\E t \in Thread : PushAlloc(t)
    <3>1. reused' = reused
      BY <1>1, <2>2
         DEF Next, Push, Pop, CallPush, PushNoMem, PushReadTail, PushLink, PushBehind, PushHelp,
             PushSwing, PushCount, PushLook, PushSignal, CallPop, PopReadHead, PopReadTail,
             PopReadNext, TryPopEmpty, PopHelp, PopClaim, PopLoad, PopRelease, PopCountWaiter,
             PopSleep, PopWake, SpuriousWake, Destroy, Regroup, vars
    <3> QED BY <3>1
  <2> QED BY <2>1, <2>2
<1>2. IInv /\ [Next]_vars => [~reused /\ reused' => ~Fits(crew)]_vars
  BY <1>1
<1> QED BY <1>2, Invariance, PTL DEF Spec, ReusedOnlyCrowded

(* Until an entry is reused, tail never leaves the list and is at most one *)
(* entry behind its end.                                                   *)
THEOREM TailInList == Spec => []TailListed
<1>1. ASSUME IInv, ~reused
      PROVE  tail \in Listed /\ (nxt[tail] # Null => nxt[nxt[tail]] = Null)
  <2>1. PICK m \in Nat : \E f, L : Lists(m, f, L)
    BY <1>1 DEF IInv, ListInv
  <2>2. PICK f, L : Lists(m, f, L)
    BY <2>1
  <2>3. Listed = L
    BY <2>2, ContentsNow DEF ContentsAre, Lists
  <2> QED BY <2>2, <2>3 DEF Lists, TailOK
<1>2. IInv => TailListed
  BY <1>1 DEF TailListed
<1> QED BY <1>2, Invariance, PTL

(* The threads with an entry in their hands, and those entries.            *)
Linkers == {t \in Thread : pc[t] \in Linking}
Retirers == {t \in Thread : pc[t] \in Retiring}
InHand == {elts[t] : t \in Linkers} \cup {hd[t] : t \in Retirers}

(* As many entries are in the hands of threads as threads have one.        *)
LEMMA HandsCount ==
  ASSUME Types, NEW L, Placed(L), Holds(L), NEW A, A = Linkers, NEW B, B = Retirers, NEW H, H = InHand
  PROVE  /\ H \subseteq Node /\ \A n \in Node : n \in H <=> \E t \in Thread : Hand(t, n)
         /\ IsFiniteSet(H) /\ Cardinality(H) = Cardinality(A) + Cardinality(B)
<1>1. \A t \in A : elts[t] \in Node /\ Hand(t, elts[t])
  BY DEF Holds, PushHolds, Hand, Linkers
<1>2. \A t \in B : hd[t] \in Node /\ Hand(t, hd[t])
  BY DEF Holds, PopHolds, Hand, Retirers
<1>3. H \subseteq Node /\ \A n \in Node : n \in H <=> \E t \in Thread : Hand(t, n)
  BY <1>1, <1>2 DEF Hand, Linkers, Retirers, InHand
<1>4. A \cap B = {} /\ A \subseteq Thread /\ B \subseteq Thread
  BY DEF Linkers, Retirers, Linking, Retiring
<1>5. IsFiniteSet(Thread) /\ IsFiniteSet(Node)
  OBVIOUS
<1>6. IsFiniteSet(A) /\ IsFiniteSet(B) /\ IsFiniteSet(H)
  BY <1>3, <1>4, <1>5, FS_Subset
<1>7. IsFiniteSet(A \cup B) /\ Cardinality(A \cup B) = Cardinality(A) + Cardinality(B)
  <2>1. /\ IsFiniteSet(A \cup B)
        /\ Cardinality(A \cup B) = Cardinality(A) + Cardinality(B) - Cardinality(A \cap B)
    BY <1>6, FS_Union
  <2>2. Cardinality(A \cap B) = 0
    BY <1>4, FS_EmptySet
  <2>3. Cardinality(A) \in Nat /\ Cardinality(B) \in Nat
    BY <1>6, FS_CardinalityType
  <2> QED BY <2>1, <2>2, <2>3
<1>8. PICK K : K = A \cup B
  OBVIOUS
<1>9. PICK h : h = [t \in K |-> IF t \in A THEN elts[t] ELSE hd[t]]
  OBVIOUS
<1>10. \A t \in K : h[t] \in H /\ h[t] \in Node /\ Hand(t, h[t])
  BY <1>1, <1>2, <1>8, <1>9 DEF InHand
<1>11. h \in [K -> H]
  BY <1>9, <1>10
<1>12. \A t, u \in K : h[t] = h[u] => t = u
  BY <1>4, <1>8, <1>10 DEF Placed
<1>13. \A n \in H : \E t \in K : h[t] = n
  BY <1>4, <1>8, <1>9 DEF InHand
<1>14. h \in Bijection(K, H)
  BY <1>11, <1>12, <1>13 DEF Bijection, Injection, Surjection, IsInjective
<1>15. ExistsBijection(K, H)
  BY <1>14 DEF ExistsBijection
<1>16. Cardinality(H) = Cardinality(K)
  BY <1>7, <1>8, <1>15, FS_Bijection
<1> QED BY <1>3, <1>6, <1>7, <1>8, <1>16

(* Until an entry is reused under a pointer, none is lost and none is in   *)
(* two places, although entries are freed while threads hold pointers to   *)
(* them; and every variable keeps its type for good.                       *)
THEOREM EntriesAccounted == Spec => []NodesAccounted
<1>1. ASSUME IInv, ~reused PROVE EachEntryOnce
  <2>1. PICK m \in Nat : \E f, L : Lists(m, f, L)
    BY <1>1 DEF IInv, ListInv
  <2>2. PICK f, L : Lists(m, f, L)
    BY <2>1
  <2>3. Types /\ CountInv /\ Placed(L) /\ Holds(L)
    BY <1>1, <2>2 DEF IInv, Lists
  <2>5. Listed = L /\ L \subseteq Node
    BY <2>2, ContentsNow, PathEnds DEF ContentsAre, Lists
  <2>6. PICK A : A = Linkers
    OBVIOUS
  <2>7. PICK B : B = Retirers
    OBVIOUS
  <2>8. PICK H : H = InHand
    OBVIOUS
  <2>9. /\ H \subseteq Node /\ \A n \in Node : n \in H <=> \E t \in Thread : Hand(t, n)
        /\ IsFiniteSet(H) /\ Cardinality(H) = Cardinality(A) + Cardinality(B)
    BY <2>3, <2>6, <2>7, <2>8, HandsCount
  <2>10. free \subseteq Node
    BY <2>3 DEF Types
  <2>11. (free \cup L) \cup H = Node /\ free \cap L = {} /\ (free \cup L) \cap H = {}
    BY <2>3, <2>5, <2>9, <2>10 DEF Placed
  <2>12. IsFiniteSet(free) /\ IsFiniteSet(L)
    <3>1. IsFiniteSet(Node)
      OBVIOUS
    <3> QED BY <2>5, <2>10, <3>1, FS_Subset
  <2>13. Cardinality(free) + Cardinality(L) + Cardinality(H) = Cardinality(Node)
    <3>1. /\ IsFiniteSet(free \cup L)
          /\ Cardinality(free \cup L)
               = Cardinality(free) + Cardinality(L) - Cardinality(free \cap L)
      BY <2>12, FS_Union
    <3>2. Cardinality((free \cup L) \cup H)
            = Cardinality(free \cup L) + Cardinality(H) - Cardinality((free \cup L) \cap H)
      BY <2>9, <3>1, FS_Union
    <3>3. Cardinality({}) = 0
      BY FS_EmptySet
    <3>4. /\ Cardinality(free) \in Nat /\ Cardinality(L) \in Nat /\ Cardinality(H) \in Nat
          /\ Cardinality(free \cup L) \in Nat
      BY <2>9, <2>12, <3>1, FS_CardinalityType
    <3>5. /\ Cardinality(free \cap L) = 0 /\ Cardinality((free \cup L) \cap H) = 0
          /\ Cardinality((free \cup L) \cup H) = Cardinality(Node)
      BY <2>11, <3>3
    <3> QED BY <3>1, <3>2, <3>4, <3>5
  <2>14. IsFiniteSet(A) /\ IsFiniteSet(B)
    <3>1. IsFiniteSet(Thread) /\ A \subseteq Thread /\ B \subseteq Thread
      BY <2>6, <2>7 DEF Linkers, Retirers
    <3> QED BY <3>1, FS_Subset
  <2>15. /\ Cardinality(A) \in Nat /\ Cardinality(B) \in Nat
         /\ Cardinality(free) \in Nat /\ Cardinality(L) \in Nat
    BY <2>12, <2>14, FS_CardinalityType
  <2>16. Cardinality(free) + Cardinality(L) + Cardinality(A) + Cardinality(B) = Cardinality(Node)
    BY <2>9, <2>13, <2>15
  <2> QED BY <2>5, <2>6, <2>7, <2>8, <2>11, <2>16
          DEF EachEntryOnce, InHand, Linkers, Retirers, Linking, Retiring
<1>2. IInv => TypeOK
  BY SleepersFinite DEF IInv, Types, CountInv, TypeOK
<1>3. IInv => NodesAccounted
  BY <1>1, <1>2 DEF NodesAccounted
<1> QED BY <1>3, Invariance, PTL

=============================================================================
