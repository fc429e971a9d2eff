---------------------------- MODULE RadixTreeProofs ----------------------------
(***************************************************************************)
(* That add and remove of RadixTree keep the shape of the tree, that get   *)
(* finds just the keys that are in it, and that the tree implements the    *)
(* table of KeyTable, for every key size, alphabet and number of entries.  *)
(*                                                                         *)
(* The inductive invariant, TreeInv, speaks of neighbours in the tree and  *)
(* of no path: what a path meets follows from it (PathComesTo,             *)
(* PathReaches).                                                           *)
(***************************************************************************)
EXTENDS RadixTree, FiniteSetTheorems, TLAPS

USE RadixAssumption

-----------------------------------------------------------------------------
(* Natural numbers.                                                        *)

LEMMA NatLeast ==
  ASSUME NEW T \in SUBSET Nat, T # {}
  PROVE  \E m \in T : \A k \in T : m <= k
<1> DEFINE R == OpToRel(<, Nat)
<1>1. IsWellFoundedOn(R, Nat)
  BY NatLessThanWellFounded
<1>2. \A x \in T, y \in T : <<y, x>> \in R <=> y < x
  BY DEF OpToRel
<1> HIDE DEF R
<1>3. \E x \in T : \A y \in T : ~ (<<y, x>> \in R)
  BY <1>1, WFMin, Zenon
<1>4. PICK x \in T : \A y \in T : ~ (<<y, x>> \in R)
  BY <1>3
<1>5. \A y \in T : ~(y < x)
  BY <1>2, <1>4
<1> QED BY <1>5

(* A set with 0 and, with a number, the next one, holds them all.          *)
LEMMA NatInd ==
  ASSUME NEW T, 0 \in T, \A n \in Nat : n \in T => n + 1 \in T
  PROVE  Nat \subseteq T
<1> SUFFICES ASSUME Nat \ T # {} PROVE FALSE
  OBVIOUS
<1>1. PICK m \in Nat \ T : \A k \in Nat \ T : m <= k
  BY NatLeast
<1>2. m - 1 \in Nat
  BY <1>1
<1>3. m - 1 \in T
  BY <1>1, <1>2
<1>4. (m - 1) + 1 \in T
  BY <1>2, <1>3
<1> QED BY <1>1, <1>4

-----------------------------------------------------------------------------
(* The invariant.                                                          *)

(* e is a child of its parent, one byte deeper, and agrees with it in the  *)
(* bytes that lead there.                                                  *)
Placed(e) ==
  /\ pointer[e] \in Pointer
  /\ parent[e] \in Used \cup {Root}
  /\ children[parent[e]][key[e][depth[e] + 1]] = e
  /\ parent[e] = Root => depth[e] = 0
  /\ parent[e] # Root => /\ depth[e] = depth[parent[e]] + 1
                         /\ \A n \in 1 .. depth[e] : key[parent[e]][n] = key[e][n]

(* A child is in use, knows its parent, and is where its key says.         *)
Hangs(e, b) ==
  LET c == children[e][b]
  IN  c \in Used /\ parent[c] = e /\ key[c][depth[c] + 1] = b

Directions(e) == {b \in Byte : children[e][b] # Null}

TreeInv ==
  /\ TypeOK
  /\ \A e \in Used : Placed(e)
  /\ \A e \in Used \cup {Root} : \A b \in Directions(e) : Hangs(e, b)
  /\ \A e \in Used \cup {Root} : nelts[e] = Cardinality(Directions(e))

-----------------------------------------------------------------------------
(* Paths.                                                                  *)

(* A walk of KeySize steps that stays inside S.                            *)
Walk(w, S, start, step) ==
  /\ w = [i \in 0 .. KeySize |-> w[i]] /\ \A i \in 0 .. KeySize : w[i] \in S
  /\ w[0] = start /\ \A i \in 1 .. KeySize : w[i] = step[i][w[i - 1]]

(* There is one, if the steps stay inside.                                 *)
LEMMA Walks ==
  ASSUME NEW S, NEW start \in S, NEW step,
         \A i \in 1 .. KeySize : \A x \in S : step[i][x] \in S
  PROVE  \E w : Walk(w, S, start, step)
<1> DEFINE Upto(g, n) == g \in [0 .. n -> S] /\ g[0] = start /\ \A i \in 1 .. n : g[i] = step[i][g[i - 1]]
           T == {n \in Nat : n <= KeySize => \E g : Upto(g, n)}
<1>1. 0 \in T
  <2>1. Upto([i \in 0 .. 0 |-> start], 0)
    OBVIOUS
  <2> QED BY <2>1
<1>2. ASSUME NEW n \in Nat, n \in T PROVE n + 1 \in T
  <2> SUFFICES ASSUME n + 1 <= KeySize PROVE \E g : Upto(g, n + 1)
    OBVIOUS
  <2>1. PICK g : Upto(g, n)
    BY <1>2
  <2> DEFINE h == [i \in 0 .. n + 1 |-> IF i = n + 1 THEN step[n + 1][g[n]] ELSE g[i]]
  <2>2. n + 1 \in 1 .. KeySize /\ g[n] \in S
    BY <2>1
  <2>3. step[n + 1][g[n]] \in S
    BY <2>2
  <2>4. \A i \in 0 .. n + 1 : i # n + 1 => i \in 0 .. n
    OBVIOUS
  <2>5. h \in [0 .. n + 1 -> S]
    BY <2>1, <2>3, <2>4
  <2>6. h[0] = start
    BY <2>1
  <2>7. ASSUME NEW i \in 1 .. n + 1 PROVE h[i] = step[i][h[i - 1]]
    <3>1. i - 1 \in 0 .. n + 1 /\ i - 1 # n + 1 /\ i \in 0 .. n + 1
      OBVIOUS
    <3>2. h[i - 1] = g[i - 1]
      BY <3>1
    <3>3. CASE i = n + 1
      <4>1. h[i] = step[n + 1][g[n]] /\ i - 1 = n
        BY <3>1, <3>3
      <4> QED BY <3>2, <3>3, <4>1
    <3>4. CASE i # n + 1
      <4>1. i \in 1 .. n /\ h[i] = g[i]
        BY <3>1, <3>4
      <4>2. g[i] = step[i][g[i - 1]]
        BY <2>1, <4>1
      <4> QED BY <3>2, <4>1, <4>2
    <3> QED BY <3>3, <3>4
  <2> HIDE DEF h
  <2>8. Upto(h, n + 1)
    BY <2>5, <2>6, <2>7
  <2> QED BY <2>8
<1> HIDE DEF T
<1>3. Nat \subseteq T
  BY <1>1, <1>2, NatInd
<1>4. KeySize \in T
  BY <1>3
<1>5. PICK g : Upto(g, KeySize)
  BY <1>4 DEF T
<1>6. Walk(g, S, start, step)
  BY <1>5 DEF Walk
<1> QED BY <1>6

(* Where a path that stands on e goes with byte b.                         *)
Onward(e, b) == IF e = Null THEN Null ELSE children[e][b]

(* Path is the function its definition describes.                          *)
LEMMA PathIs ==
  ASSUME TreeInv, NEW k \in Key
  PROVE  /\ Path(k)[0] = Root
         /\ \A i \in 1 .. KeySize : Path(k)[i] = Onward(Path(k)[i - 1], k[i])
<1> DEFINE Rec(g) == g = [i \in 0 .. KeySize |-> IF i = 0 THEN Root ELSE Onward(g[i - 1], k[i])]
           S == Used \cup {Root, Null}
           step == [i \in 1 .. KeySize |-> [e \in S |-> Onward(e, k[i])]]
<1>1. Path(k) = CHOOSE g : Rec(g)
  BY DEF Path, Onward
<1>2. ASSUME NEW i \in 1 .. KeySize, NEW e \in S PROVE Onward(e, k[i]) \in S
  <2>1. k[i] \in Byte
    BY DEF Key
  <2> QED BY <2>1 DEF TreeInv, Directions, Hangs, Onward
<1>3. Root \in S /\ \A i \in 1 .. KeySize : \A e \in S : step[i][e] \in S
  BY <1>2
<1>4. \A i \in 1 .. KeySize : \A e \in S : step[i][e] = Onward(e, k[i])
  OBVIOUS
<1> HIDE DEF step, S
<1>5. PICK w : Walk(w, S, Root, step)
  BY <1>3, Walks
<1>6. Rec(w)
  <2>1. ASSUME NEW i \in 0 .. KeySize
        PROVE  w[i] = IF i = 0 THEN Root ELSE Onward(w[i - 1], k[i])
    <3>1. CASE i = 0
      BY <1>5, <3>1 DEF Walk
    <3>2. CASE i # 0
      <4>1. i \in 1 .. KeySize /\ i - 1 \in 0 .. KeySize
        <5> HIDE DEF Rec
        <5> QED BY <3>2
      <4>2. w[i] = step[i][w[i - 1]] /\ w[i - 1] \in S
        BY <1>5, <4>1 DEF Walk
      <4> QED BY <1>4, <3>2, <4>1, <4>2
    <3> QED BY <3>1, <3>2
  <2>2. w = [i \in 0 .. KeySize |-> w[i]]
    BY <1>5 DEF Walk
  <2>3. [i \in 0 .. KeySize |-> w[i]]
          = [i \in 0 .. KeySize |-> IF i = 0 THEN Root ELSE Onward(w[i - 1], k[i])]
    BY <2>1
  <2> QED BY <2>2, <2>3
<1> HIDE DEF Rec
<1>7. Rec(CHOOSE f : Rec(f))
  BY <1>6, Zenon
<1>8. PICK f : f = Path(k) /\ Rec(f)
  BY <1>1, <1>7
<1>9. f = [i \in 0 .. KeySize |-> IF i = 0 THEN Root ELSE Onward(f[i - 1], k[i])]
  BY <1>8 DEF Rec
<1>10. \A i \in 0 .. KeySize : f[i] = IF i = 0 THEN Root ELSE Onward(f[i - 1], k[i])
  BY <1>9, Zenon
<1>11. f[0] = Root
  BY <1>10
<1>12. ASSUME NEW i \in 1 .. KeySize PROVE f[i] = Onward(f[i - 1], k[i])
  <2>1. i \in 0 .. KeySize /\ i # 0
    OBVIOUS
  <2> QED BY <1>10, <2>1
<1> QED BY <1>8, <1>11, <1>12

(* An entry that is met after i bytes of k is in use, at that depth, and   *)
(* has a key that begins with these bytes.                                 *)
Meets(k, i, e) ==
  e \in Used /\ depth[e] = i - 1 /\ \A n \in 1 .. i : key[e][n] = k[n]

(* What a path comes to.                                                   *)
LEMMA PathComesTo ==
  ASSUME TreeInv, NEW k \in Key
  PROVE  \A i \in 1 .. KeySize : Path(k)[i] # Null => Meets(k, i, Path(k)[i])
<1> DEFINE p == Path(k)
           T == {n \in Nat : n + 1 <= KeySize => (p[n + 1] # Null => Meets(k, n + 1, p[n + 1]))}
<1>1. p[0] = Root /\ \A i \in 1 .. KeySize : p[i] = Onward(p[i - 1], k[i])
  BY PathIs
<1> HIDE DEF p
<1>2. \A i \in 1 .. KeySize : k[i] \in Byte
  BY DEF Key
<1>3. Root \notin Used /\ Null \notin Used \cup {Root}
  BY DEF Used
<1>4. 0 \in T
  <2> SUFFICES ASSUME 1 <= KeySize, p[1] # Null PROVE Meets(k, 1, p[1])
    OBVIOUS
  <2>1. p[1] = children[Root][k[1]] /\ k[1] \in Byte
    BY <1>1, <1>2, <1>3 DEF Onward
  <2>2. Hangs(Root, k[1])
    BY <2>1 DEF TreeInv, Directions
  <2>3. p[1] \in Used /\ parent[p[1]] = Root /\ key[p[1]][depth[p[1]] + 1] = k[1]
    BY <2>1, <2>2 DEF Hangs
  <2>4. depth[p[1]] = 0
    BY <2>3 DEF TreeInv, Placed
  <2> QED BY <2>3, <2>4 DEF Meets
<1>5. ASSUME NEW n \in Nat, n \in T PROVE n + 1 \in T
  <2> SUFFICES ASSUME (n + 1) + 1 <= KeySize, p[(n + 1) + 1] # Null
               PROVE  Meets(k, (n + 1) + 1, p[(n + 1) + 1])
    OBVIOUS
  <2>1. PICK i \in 1 .. KeySize : i = n + 2 /\ i - 1 = n + 1 /\ i - 1 \in 1 .. KeySize /\ i = (n + 1) + 1
    OBVIOUS
  <2>2. p[i] = Onward(p[i - 1], k[i]) /\ k[i] \in Byte /\ p[i] # Null
    BY <1>1, <1>2, <2>1
  <2>3. p[i - 1] # Null /\ p[i] = children[p[i - 1]][k[i]]
    BY <2>2 DEF Onward
  <2>4. Meets(k, i - 1, p[i - 1])
    BY <1>5, <2>1, <2>3
  <2> HIDE DEF T
  <2>5. p[i - 1] \in Used /\ depth[p[i - 1]] = (i - 1) - 1
        /\ \A m \in 1 .. i - 1 : key[p[i - 1]][m] = k[m]
    BY <2>4 DEF Meets
  <2>6. Hangs(p[i - 1], k[i])
    BY <2>2, <2>3, <2>5 DEF TreeInv, Directions
  <2>7. p[i] \in Used /\ parent[p[i]] = p[i - 1] /\ key[p[i]][depth[p[i]] + 1] = k[i]
    BY <2>3, <2>6 DEF Hangs
  <2>8. depth[p[i]] = depth[p[i - 1]] + 1
        /\ \A m \in 1 .. depth[p[i]] : key[p[i - 1]][m] = key[p[i]][m]
    BY <1>3, <2>5, <2>7 DEF TreeInv, Placed
  <2>9. depth[p[i]] = i - 1
    BY <2>1, <2>5, <2>8
  <2>10. ASSUME NEW m \in 1 .. i PROVE key[p[i]][m] = k[m]
    <3>1. CASE m = i
      <4>1. depth[p[i]] + 1 = i
        BY <2>1, <2>9
      <4> QED BY <2>7, <3>1, <4>1
    <3>2. CASE m # i
      <4>1. m \in 1 .. i - 1
        BY <2>1, <3>2
      <4> QED BY <2>5, <2>8, <2>9, <4>1
    <3> QED BY <3>1, <3>2
  <2>11. Meets(k, i, p[i])
    BY <2>7, <2>9, <2>10 DEF Meets
  <2> QED BY <2>1, <2>11
<1>6. Nat \subseteq T
  <2> HIDE DEF T
  <2> QED BY <1>4, <1>5, NatInd
<1>7. ASSUME NEW i \in 1 .. KeySize, p[i] # Null PROVE Meets(k, i, p[i])
  <2>1. i - 1 \in T /\ (i - 1) + 1 = i
    BY <1>6
  <2> QED BY <1>7, <2>1
<1> QED BY <1>7 DEF p

(* An entry is met by every key that begins with the bytes that lead to it.*)
LEMMA PathReaches ==
  ASSUME TreeInv, NEW k \in Key, NEW e \in Used,
         \A n \in 1 .. depth[e] + 1 : key[e][n] = k[n]
  PROVE  Path(k)[depth[e] + 1] = e /\ Path(k)[depth[e]] = parent[e]
<1> DEFINE p == Path(k)
           Leads(d) == \A n \in 1 .. depth[d] + 1 : key[d][n] = k[n]
           Good(d) == p[depth[d] + 1] = d /\ p[depth[d]] = parent[d]
           T == {n \in Nat : \A d \in Used : depth[d] = n /\ Leads(d) => Good(d)}
<1>1. p[0] = Root /\ \A i \in 1 .. KeySize : p[i] = Onward(p[i - 1], k[i])
  BY PathIs
<1> HIDE DEF p
<1>2. Root \notin Used /\ Null \notin Used \cup {Root}
  BY DEF Used
<1>3. \A d \in Used : depth[d] \in 0 .. KeySize - 1
  BY DEF TreeInv, TypeOK, Used
(* The last step of a path.                                                *)
<1>4. ASSUME NEW d \in Used, Leads(d), p[depth[d]] = parent[d]
      PROVE  Good(d)
  <2>1. PICK i \in 1 .. KeySize : i = depth[d] + 1 /\ i - 1 = depth[d] /\ i \in 1 .. depth[d] + 1
    <3>1. depth[d] \in 0 .. KeySize - 1 /\ KeySize \in Nat
      BY <1>3
    <3> HIDE DEF T, Leads, Good
    <3>2. depth[d] + 1 \in 1 .. KeySize /\ (depth[d] + 1) - 1 = depth[d]
          /\ depth[d] + 1 \in 1 .. depth[d] + 1
      BY <3>1
    <3> QED BY <3>2
  <2>2. p[i] = Onward(p[i - 1], k[i]) /\ key[d][i] = k[i]
    BY <1>1, <1>4, <2>1
  <2>3. p[i - 1] = parent[d] /\ parent[d] # Null /\ children[parent[d]][key[d][i]] = d
    BY <1>2, <1>4, <2>1 DEF TreeInv, Placed
  <2>4. p[i] = d
    BY <2>2, <2>3 DEF Onward
  <2> QED BY <1>4, <2>1, <2>4
<1>5. 0 \in T
  <2> SUFFICES ASSUME NEW d \in Used, depth[d] = 0, Leads(d) PROVE Good(d)
    OBVIOUS
  <2>1. parent[d] = Root
    <3> SUFFICES ASSUME parent[d] # Root PROVE FALSE
      OBVIOUS
    <3>1. parent[d] \in Used /\ depth[d] = depth[parent[d]] + 1
      BY DEF TreeInv, Placed
    <3>2. depth[parent[d]] \in 0 .. KeySize - 1
      BY <1>3, <3>1
    <3> QED BY <3>1, <3>2
  <2>2. p[depth[d]] = parent[d]
    BY <1>1, <2>1
  <2> HIDE DEF Good
  <2> QED BY <1>4, <2>2
<1>6. ASSUME NEW n \in Nat, n \in T PROVE n + 1 \in T
  <2> SUFFICES ASSUME NEW d \in Used, depth[d] = n + 1, Leads(d) PROVE Good(d)
    OBVIOUS
  <2>1. parent[d] \in Used /\ depth[d] = depth[parent[d]] + 1
        /\ \A m \in 1 .. depth[d] : key[parent[d]][m] = key[d][m]
    BY DEF TreeInv, Placed
  <2>2. depth[parent[d]] = n
    <3>1. depth[parent[d]] \in 0 .. KeySize - 1
      BY <1>3, <2>1
    <3> QED BY <2>1, <3>1
  <2>3. Leads(parent[d])
    <3>1. ASSUME NEW m \in 1 .. depth[parent[d]] + 1 PROVE key[parent[d]][m] = k[m]
      <4>1. m \in 1 .. depth[d] /\ m \in 1 .. depth[d] + 1
        BY <2>2
      <4> QED BY <2>1, <4>1
    <3> QED BY <3>1
  <2>4. Good(parent[d])
    <3> HIDE DEF Good, Leads
    <3> QED BY <1>6, <2>1, <2>2, <2>3
  <2>5. p[depth[d]] = parent[d]
    BY <2>1, <2>4
  <2> HIDE DEF Good, Leads
  <2> QED BY <1>4, <2>5
<1> HIDE DEF T
<1>7. Nat \subseteq T
  BY <1>5, <1>6, NatInd
<1>8. depth[e] \in T
  BY <1>3, <1>7
<1>9. Leads(e)
  OBVIOUS
<1> HIDE DEF Leads, Good
<1>10. Good(e)
  BY <1>8, <1>9 DEF T
<1> QED BY <1>10 DEF Good, p

LEMMA KeysAgree ==
  ASSUME NEW j \in Key, NEW k \in Key, \A n \in 1 .. KeySize : j[n] = k[n]
  PROVE  j = k
<1>1. j = [n \in 1 .. KeySize |-> j[n]] /\ k = [n \in 1 .. KeySize |-> k[n]]
  BY DEF Key
<1>2. [n \in 1 .. KeySize |-> j[n]] = [n \in 1 .. KeySize |-> k[n]]
  OBVIOUS
<1> QED BY <1>1, <1>2

(* get stops at an entry with the key it looks for.                        *)
LEMMA MatchIsFind ==
  ASSUME TreeInv, NEW k \in Key, NEW i \in 1 .. KeySize, Matches(k, i)
  PROVE  Path(k)[i] \in Used /\ key[Path(k)[i]] = k
<1>1. Meets(k, i, Path(k)[i])
  BY PathComesTo DEF Matches
<1>2. PICK e : e = Path(k)[i]
  OBVIOUS
<1>3. e \in Used /\ \A n \in 1 .. i : key[e][n] = k[n]
  BY <1>1, <1>2 DEF Meets
<1>4. \A n \in i + 1 .. KeySize : key[e][n] = k[n]
  BY <1>2 DEF Matches, AgreeBehind
<1>5. \A n \in 1 .. KeySize : key[e][n] = k[n]
  <2> SUFFICES ASSUME NEW n \in 1 .. KeySize PROVE key[e][n] = k[n]
    OBVIOUS
  <2>1. n \in 1 .. i \/ n \in i + 1 .. KeySize
    OBVIOUS
  <2> QED BY <1>3, <1>4, <2>1
<1>6. key[e] \in Key
  BY <1>3 DEF TreeInv, TypeOK, Used
<1> QED BY <1>2, <1>3, <1>5, <1>6, KeysAgree

(* Get is the entry at the first match.                                    *)
LEMMA GetIs ==
  ASSUME TreeInv, NEW k \in Key
  PROVE  /\ Get(k) # Null => Get(k) \in Used /\ key[Get(k)] = k
         /\ (\E e \in Used : key[e] = k) => Get(k) # Null
<1> DEFINE M == {i \in 1 .. KeySize : Matches(k, i)}
           First(i) == Matches(k, i) /\ \A j \in 1 .. i - 1 : ~Matches(k, j)
<1>1. CASE M = {}
  <2>1. Get(k) = Null
    BY <1>1 DEF Get
  <2>2. ASSUME NEW e \in Used, key[e] = k PROVE FALSE
    <3>1. depth[e] \in 0 .. KeySize - 1
      BY DEF TreeInv, TypeOK, Used
    <3>2. Path(k)[depth[e] + 1] = e
      BY <2>2, PathReaches
    <3>3. AgreeBehind(key[e], k, depth[e] + 1) /\ e # Null
      BY <2>2 DEF AgreeBehind, Used
    <3>4. depth[e] + 1 \in M
      BY <3>1, <3>2, <3>3 DEF Matches
    <3> QED BY <1>1, <3>4
  <2> QED BY <2>1, <2>2
<1>2. CASE M # {}
  <2>1. PICK m \in M : \A i \in M : m <= i
    <3>1. M \in SUBSET Nat
      OBVIOUS
    <3> HIDE DEF M
    <3> QED BY <1>2, <3>1, NatLeast
  <2>2. m \in 1 .. KeySize /\ First(m)
    BY <2>1
  <2> HIDE DEF First
  <2>3. PICK i \in 1 .. KeySize : i = (CHOOSE j \in 1 .. KeySize : First(j)) /\ First(i)
    BY <2>2, Zenon
  <2>4. Get(k) = Path(k)[CHOOSE j \in 1 .. KeySize : First(j)]
    BY <2>2 DEF Get, First
  <2>5. Get(k) = Path(k)[i]
    BY <2>3, <2>4
  <2>6. Path(k)[i] \in Used /\ key[Path(k)[i]] = k
    BY <2>3, MatchIsFind DEF First
  <2>7. Null \notin Used
    BY DEF Used
  <2> QED BY <2>5, <2>6, <2>7
<1> QED BY <1>1, <1>2

LEMMA InvShape == TreeInv => TreeShape
<1> SUFFICES ASSUME TreeInv PROVE TreeShape
  OBVIOUS
<1>1. ASSUME NEW e \in Used
      PROVE  Path(key[e])[depth[e] + 1] = e /\ parent[e] = Path(key[e])[depth[e]]
  <2>1. key[e] \in Key
    BY DEF TreeInv, TypeOK, Used
  <2> QED BY <2>1, PathReaches
<1>2. ASSUME NEW e \in Used \cup {Root}, NEW b \in Byte
      PROVE  children[e][b] \in Used \cup {Null}
  BY DEF TreeInv, Directions, Hangs
<1>3. \A e \in Used \cup {Root} : nelts[e] = Cardinality({b \in Byte : children[e][b] # Null})
  BY DEF TreeInv, Directions
<1> QED BY <1>1, <1>2, <1>3 DEF TreeInv, TreeShape

LEMMA InvFinds == TreeInv => GetFinds
BY GetIs DEF GetFinds

-----------------------------------------------------------------------------
(* The leaf that remove takes.                                             *)

LEMMA NoDirections ==
  ASSUME TreeInv, NEW e \in Used \cup {Root}
  PROVE  nelts[e] = 0 <=> Directions(e) = {}
<1>1. IsFiniteSet(Directions(e))
  BY FS_Subset DEF Directions
<1>2. nelts[e] = Cardinality(Directions(e))
  BY DEF TreeInv
<1> QED BY <1>1, <1>2, FS_EmptySet

(* Below names a child.                                                    *)
LEMMA BelowIs ==
  ASSUME TreeInv, NEW e \in Used, nelts[e] # 0
  PROVE  Below(e) \in Used /\ parent[Below(e)] = e
<1> DEFINE ends == {b \in Directions(e) : nelts[children[e][b]] = 0}
           from == IF ends # {} THEN ends ELSE Directions(e)
           Least(b) == \A c \in from : b <= c
<1>1. Directions(e) # {} /\ Directions(e) \subseteq Byte
  BY NoDirections DEF Directions
<1>2. from # {} /\ from \subseteq Directions(e) /\ from \in SUBSET Nat
  BY <1>1
<1>3. Below(e) = children[e][CHOOSE b \in from : Least(b)]
  BY DEF Below, Directions
<1> HIDE DEF from
<1>4. \E b \in from : Least(b)
  BY <1>2, NatLeast
<1> HIDE DEF Least
<1>5. PICK b \in from : b = CHOOSE c \in from : Least(c)
  BY <1>4, Zenon
<1>6. b \in Directions(e) /\ Below(e) = children[e][b]
  BY <1>2, <1>3, <1>5
<1>7. Hangs(e, b)
  BY <1>6 DEF TreeInv
<1> QED BY <1>6, <1>7 DEF Hangs

(* d is at e or below it, n steps at least unless it is a leaf.            *)
Under(d, e, n) ==
  /\ d \in Used /\ depth[e] <= depth[d]
  /\ nelts[d] # 0 => depth[e] + n <= depth[d]
  /\ \A m \in 1 .. depth[e] + 1 : key[d][m] = key[e][m]

OneDown(d) == IF nelts[d] = 0 THEN d ELSE Below(d)

LEMMA DownStays ==
  ASSUME TreeInv, NEW e \in Used, NEW d, NEW n \in Nat, Under(d, e, n)
  PROVE  Under(OneDown(d), e, n + 1)
<1>1. d \in Used /\ depth[d] \in Nat /\ depth[e] \in Nat
  BY DEF Under, TreeInv, TypeOK, Used
<1>2. CASE nelts[d] = 0
  <2>1. OneDown(d) = d
    BY <1>2 DEF OneDown
  <2> QED BY <1>2, <2>1 DEF Under
<1>3. CASE nelts[d] # 0
  <2>1. PICK c : c = OneDown(d) /\ c \in Used /\ parent[c] = d
    BY <1>1, <1>3, BelowIs DEF OneDown
  <2>2. d # Root
    BY <1>1 DEF Used
  <2>3. depth[c] = depth[d] + 1 /\ \A m \in 1 .. depth[c] : key[d][m] = key[c][m]
    BY <2>1, <2>2 DEF TreeInv, Placed
  <2>4. depth[e] + n <= depth[d] /\ depth[e] <= depth[d]
        /\ \A m \in 1 .. depth[e] + 1 : key[d][m] = key[e][m]
    BY <1>3 DEF Under
  <2>5. ASSUME NEW m \in 1 .. depth[e] + 1 PROVE key[c][m] = key[e][m]
    <3>1. m \in 1 .. depth[c]
      BY <1>1, <2>3, <2>4
    <3> QED BY <2>3, <2>4, <3>1
  <2>6. depth[e] <= depth[c] /\ depth[e] + (n + 1) <= depth[c]
    BY <1>1, <2>3, <2>4
  <2>7. Under(c, e, n + 1)
    BY <2>1, <2>5, <2>6 DEF Under
  <2> QED BY <2>1, <2>7
<1> QED BY <1>2, <1>3

(* LeafOf ends at an entry without children: a path is not longer than a   *)
(* key.                                                                    *)
LEMMA LeafOfIs ==
  ASSUME TreeInv, NEW e \in Used
  PROVE  Under(LeafOf(e), e, 0) /\ nelts[LeafOf(e)] = 0
<1> DEFINE Rec(g) == g = [i \in 0 .. KeySize |-> IF i = 0 THEN e ELSE OneDown(g[i - 1])]
           step == [i \in 1 .. KeySize |-> [d \in Used |-> OneDown(d)]]
<1>1. LeafOf(e) = (CHOOSE g : Rec(g))[KeySize]
  BY DEF LeafOf, OneDown
<1>2. ASSUME NEW d \in Used PROVE OneDown(d) \in Used
  BY BelowIs DEF OneDown
<1>3. \A i \in 1 .. KeySize : \A d \in Used : step[i][d] \in Used
  BY <1>2
<1>4. \A i \in 1 .. KeySize : \A d \in Used : step[i][d] = OneDown(d)
  OBVIOUS
<1> HIDE DEF step
<1>5. PICK w : Walk(w, Used, e, step)
  BY <1>3, Walks
<1>6. Rec(w)
  <2>1. ASSUME NEW i \in 0 .. KeySize
        PROVE  w[i] = IF i = 0 THEN e ELSE OneDown(w[i - 1])
    <3>1. CASE i = 0
      BY <1>5, <3>1 DEF Walk
    <3>2. CASE i # 0
      <4>1. i \in 1 .. KeySize /\ i - 1 \in 0 .. KeySize
        <5> HIDE DEF Rec
        <5> QED BY <3>2
      <4>2. w[i] = step[i][w[i - 1]] /\ w[i - 1] \in Used
        BY <1>5, <4>1 DEF Walk
      <4> QED BY <1>4, <3>2, <4>1, <4>2
    <3> QED BY <3>1, <3>2
  <2>2. w = [i \in 0 .. KeySize |-> w[i]]
    BY <1>5 DEF Walk
  <2>3. [i \in 0 .. KeySize |-> w[i]]
          = [i \in 0 .. KeySize |-> IF i = 0 THEN e ELSE OneDown(w[i - 1])]
    BY <2>1
  <2> QED BY <2>2, <2>3
<1> HIDE DEF Rec
<1>7. Rec(CHOOSE f : Rec(f))
  BY <1>6, Zenon
<1>8. PICK f : LeafOf(e) = f[KeySize] /\ Rec(f)
  BY <1>1, <1>7
<1>9. f = [i \in 0 .. KeySize |-> IF i = 0 THEN e ELSE OneDown(f[i - 1])]
  BY <1>8 DEF Rec
<1>10. \A i \in 0 .. KeySize : f[i] = IF i = 0 THEN e ELSE OneDown(f[i - 1])
  BY <1>9, Zenon
<1> DEFINE T == {n \in Nat : n <= KeySize => Under(f[n], e, n)}
<1>11. depth[e] \in Nat
  BY DEF TreeInv, TypeOK, Used
<1>12. 0 \in T
  <2>1. f[0] = e
    BY <1>10
  <2>2. Under(e, e, 0)
    BY <1>11 DEF Under
  <2> QED BY <2>1, <2>2
<1>13. ASSUME NEW n \in Nat, n \in T PROVE n + 1 \in T
  <2> SUFFICES ASSUME n + 1 <= KeySize PROVE Under(f[n + 1], e, n + 1)
    OBVIOUS
  <2>1. n + 1 \in 0 .. KeySize /\ n + 1 # 0 /\ (n + 1) - 1 = n /\ n <= KeySize
    OBVIOUS
  <2>2. Under(f[n], e, n)
    BY <1>13, <2>1
  <2> HIDE DEF T
  <2>3. f[n + 1] = OneDown(f[n])
    <3>1. PICK m \in 0 .. KeySize : m = n + 1 /\ m # 0 /\ m - 1 = n
      BY <2>1
    <3>2. f[m] = OneDown(f[m - 1])
      BY <1>10, <3>1
    <3> QED BY <3>1, <3>2
  <2> QED BY <2>2, <2>3, DownStays
<1> HIDE DEF T
<1>14. Nat \subseteq T
  BY <1>12, <1>13, NatInd
<1>15. Under(f[KeySize], e, KeySize)
  BY <1>14 DEF T
<1>16. PICK d : d = f[KeySize] /\ d = LeafOf(e)
  BY <1>8
<1>17. d \in Used /\ depth[d] \in 0 .. KeySize - 1
  BY <1>15, <1>16 DEF Under, TreeInv, TypeOK, Used
<1>18. nelts[d] = 0
  BY <1>11, <1>15, <1>16, <1>17 DEF Under
<1> QED BY <1>15, <1>16, <1>18 DEF Under

-----------------------------------------------------------------------------
(* add and remove keep the invariant.                                      *)

LEMMA InitTree == Init => TreeInv
<1> SUFFICES ASSUME Init PROVE TreeInv
  OBVIOUS
<1> USE DEF Init
<1>1. Used = {}
  BY DEF Used
<1>2. Cardinality(Entry) \in Nat
  BY FS_CardinalityType
<1>3. TypeOK
  BY <1>2 DEF TypeOK
<1>4. Directions(Root) = {}
  BY DEF Directions
<1>5. nelts[Root] = Cardinality(Directions(Root))
  BY <1>4, FS_EmptySet
<1> QED BY <1>1, <1>3, <1>4, <1>5 DEF TreeInv

LEMMA InjectionFits ==
  ASSUME NEW D \in SUBSET Byte, NEW f \in [D -> Entry],
         \A b, c \in D : f[b] = f[c] => b = c
  PROVE  Cardinality(D) \in 0 .. Cardinality(Entry)
<1>1. IsFiniteSet(D) /\ Cardinality(D) \in Nat /\ Cardinality(Entry) \in Nat
  BY FS_Subset, FS_CardinalityType
<1>2. ~(Cardinality(Entry) < Cardinality(D))
  <2> SUFFICES ASSUME Cardinality(Entry) < Cardinality(D) PROVE FALSE
    OBVIOUS
  <2>1. \E x, y \in D : x # y /\ f[x] = f[y]
    BY <1>1, FS_PigeonHole, ZenonT(30)
  <2> QED BY <2>1
<1> QED BY <1>1, <1>2

(* Children in different directions are different: there are no more of    *)
(* them than entries.                                                      *)
LEMMA ChildrenFit ==
  ASSUME NEW D \in SUBSET Byte, NEW child,
         \A b \in D : child[b] \in Entry,
         \A b, c \in D : child[b] = child[c] => b = c
  PROVE  Cardinality(D) \in 0 .. Cardinality(Entry)
<1> DEFINE f == [b \in D |-> child[b]]
<1>1. f \in [D -> Entry] /\ \A b, c \in D : f[b] = f[c] => b = c
  OBVIOUS
<1> HIDE DEF f
<1> QED BY <1>1, InjectionFits

LEMMA AddKeeps ==
  ASSUME TreeInv, NEW k \in Key, NEW p \in Pointer, AddLeaf(k, p)
  PROVE  TreeInv'
<1>0. PICK i \in 0 .. KeySize - 1, leaf \in free :
        /\ AddsBelow(k, i)
        /\ children' = [children EXCEPT ![leaf] = [b \in Byte |-> Null],
                                        ![Path(k)[i]][k[i + 1]] = leaf]
        /\ parent' = [parent EXCEPT ![leaf] = Path(k)[i]]
        /\ depth' = [depth EXCEPT ![leaf] = LeafDepth(i)]
        /\ key' = [key EXCEPT ![leaf] = k]
        /\ pointer' = [pointer EXCEPT ![leaf] = p]
        /\ nelts' = [nelts EXCEPT ![leaf] = 0, ![Path(k)[i]] = @ + 1]
        /\ free' = free \ {leaf}
  BY DEF AddLeaf
<1>1. PICK a :
        /\ a = Path(k)[i] /\ AddsBelow(k, i)
        /\ children' = [children EXCEPT ![leaf] = [b \in Byte |-> Null], ![a][k[i + 1]] = leaf]
        /\ parent' = [parent EXCEPT ![leaf] = a]
        /\ depth' = [depth EXCEPT ![leaf] = LeafDepth(i)]
        /\ key' = [key EXCEPT ![leaf] = k]
        /\ pointer' = [pointer EXCEPT ![leaf] = p]
        /\ nelts' = [nelts EXCEPT ![leaf] = 0, ![a] = @ + 1]
        /\ free' = free \ {leaf}
  BY <1>0
<1>2. leaf \in Entry /\ leaf \notin Used /\ leaf # Root /\ leaf # Null /\ Used \subseteq Entry
      /\ Root \notin Used /\ Null \notin Used
  BY DEF TreeInv, TypeOK, Used
<1>3. Used' = Used \cup {leaf}
  BY <1>1, <1>2 DEF Used
<1>4. i + 1 \in 1 .. KeySize /\ (i + 1) - 1 = i /\ k[i + 1] \in Byte
  BY DEF Key
<1>5. a # Null /\ children[a][k[i + 1]] = Null
  <2>1. a # Null /\ Path(k)[i + 1] = Null
    BY <1>1 DEF AddsBelow
  <2>2. Path(k)[i + 1] = Onward(a, k[i + 1])
    BY <1>1, <1>4, PathIs
  <2> QED BY <2>1, <2>2 DEF Onward
<1>6. /\ a \in Used \cup {Root}
      /\ a = Root => i = 0
      /\ a # Root => depth[a] = i - 1 /\ \A n \in 1 .. i : key[a][n] = k[n]
  <2>1. CASE i = 0
    BY <1>1, <2>1, PathIs
  <2>2. CASE i # 0
    <3>1. i \in 1 .. KeySize
      BY <2>2
    <3>2. Meets(k, i, a)
      BY <1>1, <1>5, <3>1, PathComesTo
    <3> QED BY <1>2, <3>2 DEF Meets
  <2> QED BY <2>1, <2>2
<1>7. a # leaf /\ LeafDepth(i) = i
  BY <1>2, <1>6 DEF LeafDepth
(* The entries that are there keep what they have, the leaf gets its own.  *)
<1>8. /\ children' \in [Entry \cup {Root} -> [Byte -> Entry \cup {Null}]]
      /\ \A b \in Byte : children'[leaf][b] = Null
      /\ children'[a][k[i + 1]] = leaf
      /\ \A e \in Used \cup {Root}, b \in Byte :
           e # a \/ b # k[i + 1] => children'[e][b] = children[e][b]
  <2> DEFINE none == [b \in Byte |-> Null]
             C1 == [children EXCEPT ![leaf] = none]
             C2 == [C1[a] EXCEPT ![k[i + 1]] = leaf]
  <2>1. children \in [Entry \cup {Root} -> [Byte -> Entry \cup {Null}]] /\ a \in Entry \cup {Root}
    BY <1>2, <1>6 DEF TreeInv, TypeOK
  <2>2. none \in [Byte -> Entry \cup {Null}]
    OBVIOUS
  <2>3. children' = [C1 EXCEPT ![a] = C2]
    BY <1>1
  <2>4. \A b \in Byte : none[b] = Null
    OBVIOUS
  <2> HIDE DEF none
  <2>5. /\ C1 \in [Entry \cup {Root} -> [Byte -> Entry \cup {Null}]] /\ C1[leaf] = none
        /\ \A e \in Used \cup {Root} : C1[e] = children[e]
    BY <1>2, <2>1, <2>2
  <2> HIDE DEF C1
  <2>6. /\ C2 \in [Byte -> Entry \cup {Null}] /\ C2[k[i + 1]] = leaf
        /\ \A b \in Byte : b # k[i + 1] => C2[b] = children[a][b]
    BY <1>2, <1>4, <1>6, <2>1, <2>5
  <2> HIDE DEF C2
  <2>7. /\ children'[a] = C2 /\ children'[leaf] = none
        /\ \A e \in Used \cup {Root} : e # a => children'[e] = children[e]
    BY <1>2, <1>7, <2>1, <2>3, <2>5
  <2>8. children' \in [Entry \cup {Root} -> [Byte -> Entry \cup {Null}]]
    BY <2>3, <2>5, <2>6
  <2> QED BY <1>6, <2>4, <2>6, <2>7, <2>8
<1>9. /\ parent'[leaf] = a /\ depth'[leaf] = i /\ key'[leaf] = k /\ pointer'[leaf] = p
      /\ nelts'[leaf] = 0 /\ nelts'[a] = nelts[a] + 1
      /\ \A e \in Used : /\ parent'[e] = parent[e] /\ depth'[e] = depth[e]
                         /\ key'[e] = key[e] /\ pointer'[e] = pointer[e]
      /\ \A e \in Used \cup {Root} : e # a => nelts'[e] = nelts[e]
  BY <1>1, <1>2, <1>6, <1>7 DEF TreeInv, TypeOK
<1>10. \A e \in Used : /\ depth[e] \in 0 .. KeySize - 1 /\ depth[e] + 1 \in 1 .. KeySize
                       /\ key[e][depth[e] + 1] \in Byte
  <2> SUFFICES ASSUME NEW e \in Used
               PROVE  /\ depth[e] \in 0 .. KeySize - 1 /\ depth[e] + 1 \in 1 .. KeySize
                      /\ key[e][depth[e] + 1] \in Byte
    OBVIOUS
  <2>1. depth[e] \in 0 .. KeySize - 1 /\ key[e] \in Key
    BY <1>2 DEF TreeInv, TypeOK
  <2>2. depth[e] + 1 \in 1 .. KeySize
    BY <2>1
  <2> QED BY <2>1, <2>2 DEF Key
<1>11. ASSUME NEW e \in Used' PROVE Placed(e)'
  <2>1. CASE e = leaf
    <3>1. pointer'[e] \in Pointer /\ parent'[e] \in Used' \cup {Root}
      BY <1>3, <1>6, <1>9, <2>1
    <3>2. children'[parent'[e]][key'[e][depth'[e] + 1]] = e
      BY <1>8, <1>9, <2>1
    <3>3. parent'[e] = Root => depth'[e] = 0
      BY <1>6, <1>9, <2>1
    <3>4. ASSUME parent'[e] # Root
          PROVE  /\ depth'[e] = depth'[parent'[e]] + 1
                 /\ \A n \in 1 .. depth'[e] : key'[parent'[e]][n] = key'[e][n]
      <4>1. parent'[e] = a /\ a \in Used /\ depth'[a] = i - 1 /\ key'[a] = key[a]
            /\ depth'[e] = i /\ key'[e] = k
        BY <1>6, <1>9, <2>1, <3>4
      <4> QED BY <1>6, <3>4, <4>1
    <3> QED BY <3>1, <3>2, <3>3, <3>4 DEF Placed
  <2>2. CASE e # leaf
    <3>1. e \in Used /\ Placed(e)
      BY <1>3, <2>2 DEF TreeInv
    <3>2. parent'[e] = parent[e] /\ depth'[e] = depth[e] /\ key'[e] = key[e] /\ pointer'[e] = pointer[e]
      BY <1>9, <3>1
    <3>3. parent[e] \in Used \cup {Root} /\ children[parent[e]][key[e][depth[e] + 1]] = e
      BY <3>1 DEF Placed
    <3>4. children'[parent[e]][key[e][depth[e] + 1]] = e
      <4>1. parent[e] # a \/ key[e][depth[e] + 1] # k[i + 1]
        BY <1>2, <1>5, <3>1, <3>3
      <4> QED BY <1>8, <1>10, <3>1, <3>3, <4>1
    <3>5. parent[e] # Root => depth'[parent[e]] = depth[parent[e]] /\ key'[parent[e]] = key[parent[e]]
      BY <1>9, <3>3
    <3> QED BY <1>3, <3>1, <3>2, <3>3, <3>4, <3>5 DEF Placed
  <2> QED BY <2>1, <2>2
<1>12. ASSUME NEW e \in Used' \cup {Root}, NEW b \in Directions(e)' PROVE Hangs(e, b)'
  <2>1. b \in Byte /\ children'[e][b] # Null
    BY DEF Directions
  <2>2. e # leaf
    BY <1>8, <2>1
  <2>3. e \in Used \cup {Root}
    BY <1>3, <2>2
  <2>4. CASE e = a /\ b = k[i + 1]
    <3>1. children'[e][b] = leaf /\ parent'[leaf] = e /\ key'[leaf][depth'[leaf] + 1] = b
      BY <1>8, <1>9, <2>4
    <3> QED BY <1>3, <3>1 DEF Hangs
  <2>5. CASE e # a \/ b # k[i + 1]
    <3>1. PICK c : c = children'[e][b] /\ c = children[e][b]
      BY <1>8, <2>1, <2>3, <2>5
    <3>2. b \in Directions(e)
      BY <2>1, <3>1 DEF Directions
    <3>3. c \in Used /\ parent[c] = e /\ key[c][depth[c] + 1] = b
      BY <2>3, <3>1, <3>2 DEF TreeInv, Hangs
    <3>4. c \in Used' /\ parent'[c] = e /\ key'[c][depth'[c] + 1] = b
      BY <1>3, <1>9, <3>3
    <3> QED BY <3>1, <3>4 DEF Hangs
  <2> QED BY <2>4, <2>5
<1>13. ASSUME NEW e \in Used' \cup {Root} PROVE nelts'[e] = Cardinality(Directions(e)')
  <2>1. CASE e = leaf
    <3>1. Directions(e)' = {}
      BY <1>8, <2>1 DEF Directions
    <3> QED BY <1>9, <2>1, <3>1, FS_EmptySet
  <2>2. CASE e = a
    <3>1. Directions(e)' = Directions(e) \cup {k[i + 1]} /\ k[i + 1] \notin Directions(e)
      <4>1. \A b \in Byte : IF b = k[i + 1] THEN children[a][b] = Null /\ children'[a][b] # Null
                                           ELSE children'[a][b] = children[a][b]
        BY <1>2, <1>5, <1>6, <1>8
      <4> QED BY <1>4, <2>2, <4>1 DEF Directions
    <3>2. IsFiniteSet(Directions(e))
      BY FS_Subset DEF Directions
    <3>3. Cardinality(Directions(e)') = Cardinality(Directions(e)) + 1
      BY <3>1, <3>2, FS_AddElement
    <3>4. nelts[e] = Cardinality(Directions(e))
      BY <1>6, <2>2 DEF TreeInv
    <3> QED BY <1>9, <2>2, <3>3, <3>4
  <2>3. CASE e # leaf /\ e # a
    <3>1. e \in Used \cup {Root}
      BY <1>3, <2>3
    <3>2. Directions(e)' = Directions(e)
      BY <1>8, <2>3, <3>1 DEF Directions
    <3>3. nelts[e] = Cardinality(Directions(e))
      BY <3>1 DEF TreeInv
    <3> QED BY <1>9, <2>3, <3>1, <3>2, <3>3
  <2> QED BY <2>1, <2>2, <2>3
<1>14. TypeOK'
  <2>1. nelts'[a] \in 0 .. Cardinality(Entry)
    <3>1. \A b \in Directions(a)' : Hangs(a, b)'
      BY <1>3, <1>6, <1>12
    <3>2. Used' \in SUBSET Entry
      BY <1>2, <1>3
    <3>3. PICK D, h : D = Directions(a)' /\ h = children'[a]
      OBVIOUS
    <3>4. D \in SUBSET Byte
      BY <3>3 DEF Directions
    <3>5. \A b \in D : h[b] \in Entry /\ key'[h[b]][depth'[h[b]] + 1] = b
      BY <3>1, <3>2, <3>3 DEF Hangs
    <3>6. Cardinality(D) \in 0 .. Cardinality(Entry)
      <4>1. \A b, c \in D : h[b] = h[c] => b = c
        BY <3>5
      <4> QED BY <3>4, <3>5, <4>1, ChildrenFit
    <3>7. nelts'[a] = Cardinality(D)
      BY <1>3, <1>6, <1>13, <3>3
    <3> QED BY <3>6, <3>7
  <2>2. nelts' \in [Entry \cup {Root} -> 0 .. Cardinality(Entry)]
    <3>1. Cardinality(Entry) \in Nat
      BY FS_CardinalityType
    <3>2. nelts \in [Entry \cup {Root} -> 0 .. Cardinality(Entry)] /\ 0 \in 0 .. Cardinality(Entry)
      BY <3>1 DEF TreeInv, TypeOK
    <3>3. nelts' = [[nelts EXCEPT ![leaf] = 0] EXCEPT ![a] = nelts'[a]]
      <4>1. a \in Entry \cup {Root} /\ a # leaf
        BY <1>2, <1>6, <1>7
      <4> QED BY <1>1, <3>2, <4>1
    <3> QED BY <2>1, <3>2, <3>3
  <2>3. /\ parent' \in [Entry -> Entry \cup {Root, Null}]
        /\ depth' \in [Entry -> 0 .. KeySize - 1]
        /\ key' \in [Entry \cup {Root} -> Key]
        /\ pointer' \in [Entry -> Pointer \cup {Null}]
        /\ free' \subseteq Entry
    BY <1>1, <1>2, <1>6, <1>7 DEF TreeInv, TypeOK
  <2> QED BY <1>8, <2>2, <2>3 DEF TypeOK
<1> QED BY <1>11, <1>12, <1>13, <1>14 DEF TreeInv

(* What remove does, in terms of the entry e found, of the leaf and of the *)
(* place of the leaf: in direction b of a.                                 *)
Cuts(k, e, leaf, a, b) ==
  /\ e = Get(k) /\ e \in Used /\ key[e] = k /\ leaf = LeafOf(e)
  /\ Under(leaf, e, 0) /\ Directions(leaf) = {}
  /\ a = parent[leaf] /\ a \in Used \cup {Root} /\ a # leaf
  /\ b = key[leaf][depth[leaf] + 1] /\ b \in Byte /\ children[a][b] = leaf
  /\ children' = [children EXCEPT ![a][b] = Null]
  /\ nelts' = [nelts EXCEPT ![a] = @ - 1]
  /\ key' = [key EXCEPT ![e] = key[leaf]]
  /\ pointer' = [pointer EXCEPT ![e] = pointer[leaf]]
  /\ free' = free \cup {leaf}
  /\ UNCHANGED <<parent, depth>>

LEMMA RemoveCuts ==
  ASSUME TreeInv, NEW k \in Key, Remove(k)
  PROVE  \E e, leaf, a, b : Cuts(k, e, leaf, a, b)
<1>1. PICK e : e = Get(k)
  OBVIOUS
<1>2. PICK leaf : leaf = LeafOf(e)
  OBVIOUS
<1>3. e \in Used /\ key[e] = k
  BY <1>1, GetIs DEF Remove
<1>4. Under(leaf, e, 0) /\ nelts[leaf] = 0
  BY <1>2, <1>3, LeafOfIs
<1>5. leaf \in Used /\ Used \subseteq Entry
  BY <1>4 DEF Under, Used
<1>6. Directions(leaf) = {}
  BY <1>4, <1>5, NoDirections
<1>7. PICK a, b : a = parent[leaf] /\ b = key[leaf][depth[leaf] + 1]
  OBVIOUS
<1>8. a \in Used \cup {Root} /\ children[a][b] = leaf
  BY <1>5, <1>7 DEF TreeInv, Placed
<1>9. b \in Byte
  <2>1. depth[leaf] \in 0 .. KeySize - 1 /\ key[leaf] \in Key
    BY <1>5 DEF TreeInv, TypeOK
  <2>2. depth[leaf] + 1 \in 1 .. KeySize
    BY <2>1
  <2> QED BY <1>7, <2>1, <2>2 DEF Key
<1>10. a # leaf
  BY <1>5, <1>6, <1>8, <1>9 DEF Directions, Used
<1>11. /\ children' = [children EXCEPT ![a][b] = Null]
       /\ nelts' = [nelts EXCEPT ![a] = @ - 1]
       /\ key' = [key EXCEPT ![e] = key[leaf]]
       /\ pointer' = [pointer EXCEPT ![e] = pointer[leaf]]
       /\ free' = free \cup {leaf}
       /\ UNCHANGED <<parent, depth>>
  BY <1>1, <1>2, <1>7 DEF Remove, Moved
<1> QED BY <1>1, <1>2, <1>3, <1>4, <1>6, <1>7, <1>8, <1>9, <1>10, <1>11 DEF Cuts

LEMMA RemoveKeeps ==
  ASSUME TreeInv, NEW k \in Key, Remove(k)
  PROVE  TreeInv'
<1>1. PICK e, leaf, a, b : Cuts(k, e, leaf, a, b)
  BY RemoveCuts
<1> USE DEF Cuts
<1>2. /\ leaf \in Used /\ leaf \in Entry /\ Used \subseteq Entry /\ e \in Entry
      /\ Null \notin Used /\ Root \notin Used /\ free \subseteq Entry
  BY <1>1 DEF Under, Used, TreeInv, TypeOK
<1>3. Used' = Used \ {leaf}
  BY <1>1 DEF Used
<1>4. \A u \in Used : depth[u] \in 0 .. KeySize - 1 /\ key[u] \in Key /\ pointer[u] \in Pointer
  BY <1>2 DEF TreeInv, TypeOK, Placed
(* What has moved begins with the same bytes.                              *)
<1>5. ASSUME NEW u \in Used, NEW n \in 1 .. depth[u] + 1 PROVE key'[u][n] = key[u][n]
  <2>1. CASE u = e
    <3>1. key'[u] = key[leaf]
      BY <1>1, <1>2, <2>1 DEF TreeInv, TypeOK
    <3> QED BY <1>1, <2>1, <3>1 DEF Under
  <2>2. CASE u # e
    BY <1>1, <2>2 DEF TreeInv, TypeOK
  <2> QED BY <2>1, <2>2
<1>6. /\ children' \in [Entry \cup {Root} -> [Byte -> Entry \cup {Null}]]
      /\ \A x \in Used \cup {Root}, c \in Byte :
           children'[x][c] = IF x = a /\ c = b THEN Null ELSE children[x][c]
  BY <1>1, <1>2 DEF TreeInv, TypeOK
<1>7. \A u \in Used : pointer'[u] \in Pointer
  BY <1>1, <1>2, <1>4 DEF TreeInv, TypeOK
<1>8. ASSUME NEW u \in Used' PROVE Placed(u)'
  <2>1. u \in Used /\ u # leaf /\ Placed(u) /\ parent'[u] = parent[u] /\ depth'[u] = depth[u]
    BY <1>1, <1>3 DEF TreeInv
  <2>2. PICK d : d = depth[u] + 1 /\ d \in 1 .. depth[u] + 1 /\ d \in 1 .. KeySize
    <3>1. depth[u] \in 0 .. KeySize - 1
      BY <1>4, <2>1
    <3> QED BY <3>1
  <2>3. key[u][d] \in Byte /\ key'[u][d] = key[u][d]
    BY <1>4, <1>5, <2>1, <2>2 DEF Key
  <2>4. parent[u] \in Used \cup {Root} /\ children[parent[u]][key[u][d]] = u
    BY <2>1, <2>2 DEF Placed
  <2>5. parent[u] # leaf
    <3>1. u # Null
      BY <1>2, <2>1
    <3> QED BY <1>1, <2>3, <2>4, <3>1 DEF Directions
  <2>6. children'[parent[u]][key'[u][d]] = u
    BY <1>1, <1>6, <2>1, <2>3, <2>4
  <2>7. ASSUME parent[u] # Root
        PROVE  /\ depth'[u] = depth'[parent[u]] + 1
               /\ \A n \in 1 .. depth'[u] : key'[parent[u]][n] = key'[u][n]
    <3>1. parent[u] \in Used /\ depth[u] = depth[parent[u]] + 1
          /\ \A n \in 1 .. depth[u] : key[parent[u]][n] = key[u][n]
      BY <2>1, <2>4, <2>7 DEF Placed
    <3>2. ASSUME NEW n \in 1 .. depth[u] PROVE key'[parent[u]][n] = key'[u][n]
      <4>1. n \in 1 .. depth[u] + 1 /\ n \in 1 .. depth[parent[u]] + 1
        BY <1>4, <2>1, <3>1
      <4>2. key'[u][n] = key[u][n]
        BY <1>5, <2>1, <4>1
      <4>3. key'[parent[u]][n] = key[parent[u]][n]
        BY <1>5, <3>1, <4>1
      <4> QED BY <3>1, <4>2, <4>3
    <3> QED BY <1>1, <3>1, <3>2
  <2>8. parent[u] = Root => depth[u] = 0
    BY <2>1 DEF Placed
  <2> QED BY <1>3, <1>7, <2>1, <2>2, <2>4, <2>5, <2>6, <2>7, <2>8 DEF Placed
<1>9. ASSUME NEW x \in Used' \cup {Root}, NEW c \in Directions(x)' PROVE Hangs(x, c)'
  <2>1. x \in Used \cup {Root} /\ c \in Byte /\ children'[x][c] # Null
    BY <1>3 DEF Directions
  <2>2. PICK u : u = children[x][c] /\ u = children'[x][c] /\ ~(x = a /\ c = b)
    BY <1>6, <2>1
  <2>3. u \in Used /\ parent[u] = x /\ key[u][depth[u] + 1] = c
    <3>1. c \in Directions(x)
      BY <2>1, <2>2 DEF Directions
    <3>2. Hangs(x, c)
      BY <2>1, <3>1 DEF TreeInv
    <3> QED BY <2>2, <3>2 DEF Hangs
  <2>4. u # leaf
    BY <1>1, <2>2, <2>3
  <2>5. depth[u] + 1 \in 1 .. depth[u] + 1
    BY <1>4, <2>3
  <2>6. key'[u][depth[u] + 1] = c
    BY <1>5, <2>3, <2>5
  <2>7. u \in Used' /\ parent'[u] = x /\ key'[u][depth'[u] + 1] = c
    BY <1>1, <1>3, <2>3, <2>4, <2>6
  <2> HIDE DEF Cuts
  <2> QED BY <2>2, <2>7 DEF Hangs
<1>10. nelts[a] = Cardinality(Directions(a)) /\ IsFiniteSet(Directions(a)) /\ b \in Directions(a)
  <2>1. IsFiniteSet(Directions(a))
    BY FS_Subset DEF Directions
  <2>2. b \in Directions(a)
    BY <1>1, <1>2 DEF Directions
  <2> QED BY <1>1, <2>1, <2>2 DEF TreeInv
<1>11. nelts[a] \in 1 .. Cardinality(Entry) /\ Cardinality(Entry) \in Nat
  <2>1. nelts[a] # 0 /\ nelts[a] \in 0 .. Cardinality(Entry) /\ Cardinality(Entry) \in Nat
    BY <1>1, <1>2, <1>10, FS_EmptySet, FS_CardinalityType DEF TreeInv, TypeOK
  <2> QED BY <2>1
<1>12. /\ nelts' \in [Entry \cup {Root} -> 0 .. Cardinality(Entry)]
       /\ nelts'[a] = nelts[a] - 1
       /\ \A x \in Used \cup {Root} : x # a => nelts'[x] = nelts[x]
  <2>1. nelts \in [Entry \cup {Root} -> 0 .. Cardinality(Entry)] /\ a \in Entry \cup {Root}
    BY <1>1, <1>2 DEF TreeInv, TypeOK
  <2>2. nelts[a] - 1 \in 0 .. Cardinality(Entry)
    BY <1>11
  <2> QED BY <1>1, <1>2, <2>1, <2>2
<1>13. ASSUME NEW x \in Used' \cup {Root} PROVE nelts'[x] = Cardinality(Directions(x)')
  <2>1. x \in Used \cup {Root}
    BY <1>3
  <2>2. CASE x = a
    <3>1. Directions(x)' = Directions(x) \ {b}
      <4>1. \A c \in Byte : IF c = b THEN children'[a][c] = Null ELSE children'[a][c] = children[a][c]
        BY <1>6, <2>1, <2>2
      <4> QED BY <2>2, <4>1 DEF Directions
    <3>2. Cardinality(Directions(x)') = Cardinality(Directions(x)) - 1
      BY <1>10, <2>2, <3>1, FS_RemoveElement
    <3> QED BY <1>10, <1>12, <2>2, <3>2
  <2>3. CASE x # a
    <3>1. Directions(x)' = Directions(x)
      BY <1>6, <2>1, <2>3 DEF Directions
    <3>2. nelts[x] = Cardinality(Directions(x))
      BY <2>1 DEF TreeInv
    <3> QED BY <1>12, <2>1, <2>3, <3>1, <3>2
  <2> QED BY <2>2, <2>3
<1>14. TypeOK'
  <2>1. /\ key' \in [Entry \cup {Root} -> Key]
        /\ pointer' \in [Entry -> Pointer \cup {Null}]
        /\ free' \subseteq Entry
    BY <1>1, <1>2 DEF TreeInv, TypeOK
  <2> QED BY <1>1, <1>6, <1>12, <2>1 DEF TreeInv, TypeOK
<1> QED BY <1>8, <1>9, <1>13, <1>14 DEF TreeInv

LEMMA NextTree == TreeInv /\ [Next]_vars => TreeInv'
<1> SUFFICES ASSUME TreeInv, [Next]_vars PROVE TreeInv'
  OBVIOUS
<1>1. ASSUME NEW k \in Key, NEW p \in Pointer, AddLeaf(k, p) PROVE TreeInv'
  BY <1>1, AddKeeps
<1>2. ASSUME NEW k \in Key, Remove(k) PROVE TreeInv'
  BY <1>2, RemoveKeeps
<1>3. ASSUME UNCHANGED treeVars PROVE TreeInv'
  BY <1>3 DEF treeVars, TreeInv, TypeOK, Placed, Hangs, Directions, Used
<1> QED BY <1>1, <1>2, <1>3 DEF Next, AddRefused, vars

(* The shape of the tree, neighbour by neighbour, is kept by every add and *)
(* remove (frl_radix_tree.c, lines 68-155).                                *)
THEOREM Invariance == Spec => []TreeInv
BY InitTree, NextTree, PTL DEF Spec

(* Each entry is where its key says, as its parent's child, and nelts      *)
(* counts the children, whichever leaves remove has moved (lines 114-155). *)
THEOREM KeepsShape == Spec => []TreeShape
BY Invariance, InvShape, PTL

(* frl_radix_tree_get finds every key in the tree and no other (lines      *)
(* 36-66).                                                                 *)
THEOREM FindsKeys == Spec => []GetFinds
BY Invariance, InvFinds, PTL

-----------------------------------------------------------------------------
(* The tree implements the table.                                          *)

Pair(e) == <<key[e], pointer[e]>>
Holders(x) == {e \in Used : Pair(e) = x}
Count(x) == Cardinality(Holders(x))
Pairs == {Pair(e) : e \in Used}

LEMMA TableIs == Table = [x \in Pairs |-> Count(x)]
BY DEF Table, Pairs, Count, Holders, Pair

LEMMA HoldersCount ==
  \A x : /\ IsFiniteSet(Holders(x)) /\ Count(x) \in Nat
         /\ x \in Pairs <=> Holders(x) # {}
         /\ x \in Pairs <=> Count(x) # 0
<1> SUFFICES ASSUME NEW x
             PROVE  /\ IsFiniteSet(Holders(x)) /\ Count(x) \in Nat
                    /\ x \in Pairs <=> Holders(x) # {}
                    /\ x \in Pairs <=> Count(x) # 0
  OBVIOUS
<1>1. Holders(x) \in SUBSET Entry
  BY DEF Holders, Used
<1>2. IsFiniteSet(Holders(x))
  BY <1>1, FS_Subset
<1>3. Count(x) \in Nat
  BY <1>2, FS_CardinalityType DEF Count
<1>4. x \in Pairs <=> Holders(x) # {}
  BY DEF Pairs, Holders
<1>5. Count(x) = 0 <=> Holders(x) = {}
  BY <1>2, FS_EmptySet DEF Count
<1> QED BY <1>2, <1>3, <1>4, <1>5

LEMMA CountIs == \A x : Count(x) \in Nat /\ (x \in Pairs <=> Count(x) # 0)
BY HoldersCount

LEMMA TableIsNext == Table' = [x \in Pairs' |-> Count(x)']
BY DEF Table, Pairs, Count, Holders, Pair

(* The table grows by x0.                                                  *)
LEMMA Grown ==
  ASSUME NEW x0, \A x : Count(x)' = IF x = x0 THEN Count(x) + 1 ELSE Count(x),
         Pairs' = Pairs \cup {x0}
  PROVE  Table' = [x \in DOMAIN Table \cup DOMAIN [e \in {x0} |-> 1] |->
                     (IF x \in DOMAIN Table THEN Table[x] ELSE 0)
                     + (IF x \in DOMAIN [e \in {x0} |-> 1] THEN [e \in {x0} |-> 1][x] ELSE 0)]
<1> DEFINE grown(x) == (IF x \in DOMAIN Table THEN Table[x] ELSE 0)
                       + (IF x \in DOMAIN [e \in {x0} |-> 1] THEN [e \in {x0} |-> 1][x] ELSE 0)
<1>1. DOMAIN Table = Pairs /\ \A x \in Pairs : Table[x] = Count(x)
  BY TableIs
<1>2. ASSUME NEW x \in Pairs' PROVE Count(x)' = grown(x)
  BY <1>1, HoldersCount
<1>3. Pairs' = DOMAIN Table \cup DOMAIN [e \in {x0} |-> 1]
  BY <1>1
<1>4. Table' = [x \in Pairs' |-> grown(x)]
  <2> HIDE DEF grown
  <2> QED BY <1>2, TableIsNext
<1> QED BY <1>3, <1>4

(* The table loses x0 once.                                                *)
LEMMA Shrunk ==
  ASSUME NEW x0 \in Pairs,
         \A x : Count(x)' = IF x = x0 THEN Count(x) - 1 ELSE Count(x)
  PROVE  LET B == [x \in DOMAIN Table |-> IF x \in DOMAIN [e \in {x0} |-> 1]
                                          THEN Table[x] - [e \in {x0} |-> 1][x] ELSE Table[x]]
         IN  Table' = [x \in {d \in DOMAIN B : B[d] > 0} |-> B[x]]
<1> DEFINE B == [x \in DOMAIN Table |-> IF x \in DOMAIN [e \in {x0} |-> 1]
                                        THEN Table[x] - [e \in {x0} |-> 1][x] ELSE Table[x]]
<1>1. DOMAIN Table = Pairs /\ \A x \in Pairs : Table[x] = Count(x)
  BY TableIs
<1>2. DOMAIN B = Pairs /\ \A x \in Pairs : B[x] = Count(x)'
  BY <1>1
<1> HIDE DEF B
<1>3. \A x : Count(x) \in Nat /\ (x \in Pairs <=> Count(x) # 0)
  BY CountIs
<1>4. \A x : Count(x)' \in Nat /\ (x \in Pairs' <=> Count(x)' # 0)
  <2>1. (\A x : Count(x) \in Nat /\ (x \in Pairs <=> Count(x) # 0))'
    BY CountIs, PTL
  <2> QED BY <2>1
<1>5. Pairs' = {d \in DOMAIN B : B[d] > 0}
  BY <1>2, <1>3, <1>4
<1>6. [x \in Pairs' |-> Count(x)'] = [x \in Pairs' |-> B[x]]
  BY <1>2, <1>5
<1>7. Table' = [x \in {d \in DOMAIN B : B[d] > 0} |-> B[x]]
  BY <1>5, <1>6, TableIsNext
<1> QED BY <1>7 DEF B

(* A new entry.                                                            *)
LEMMA AddInserts ==
  ASSUME TreeInv, NEW k \in Key, NEW p \in Pointer, AddLeaf(k, p)
  PROVE  Abstract!Insert(k, p)
<1>1. PICK leaf \in free :
        /\ key' = [key EXCEPT ![leaf] = k] /\ pointer' = [pointer EXCEPT ![leaf] = p]
        /\ free' = free \ {leaf} /\ call' = [op |-> "add", key |-> k]
  BY DEF AddLeaf
<1>2. leaf \in Entry /\ leaf \notin Used /\ Used' = Used \cup {leaf} /\ Used \subseteq Entry
  BY <1>1 DEF TreeInv, TypeOK, Used
<1>3. Pair(leaf)' = <<k, p>> /\ \A e \in Used : Pair(e)' = Pair(e)
  BY <1>1, <1>2 DEF Pair, TreeInv, TypeOK
<1>4. ASSUME NEW x PROVE Count(x)' = IF x = <<k, p>> THEN Count(x) + 1 ELSE Count(x)
  <2>1. IsFiniteSet(Holders(x)) /\ leaf \notin Holders(x)
    BY <1>2, HoldersCount DEF Holders
  <2>2. CASE x = <<k, p>>
    <3>1. Holders(x)' = Holders(x) \cup {leaf}
      BY <1>2, <1>3, <2>2 DEF Holders
    <3> QED BY <2>1, <2>2, <3>1, FS_AddElement DEF Count
  <2>3. CASE x # <<k, p>>
    <3>1. Holders(x)' = Holders(x)
      BY <1>2, <1>3, <2>3 DEF Holders
    <3> QED BY <2>3, <3>1 DEF Count
  <2> QED BY <2>2, <2>3
<1>5. Pairs' = Pairs \cup {<<k, p>>}
  <2>1. Pairs' = {Pair(e)' : e \in Used'}
    BY DEF Pairs
  <2>2. {Pair(e)' : e \in Used'} = {Pair(e)' : e \in Used} \cup {Pair(leaf)'}
    BY <1>2
  <2>3. {Pair(e)' : e \in Used} = Pairs
    BY <1>3 DEF Pairs
  <2> QED BY <1>3, <2>1, <2>2, <2>3
<1>6. key'[Root] = key[Root]
  BY <1>1, <1>2, RadixAssumption DEF TreeInv, TypeOK
<1> QED BY <1>1, <1>4, <1>5, <1>6, Grown
        DEF Abstract!Insert, Abstract!SetToBag, Abstract!(+)

(* One pair goes, though it may be another entry that leaves the tree.     *)
LEMMA RemoveDeletes ==
  ASSUME TreeInv, NEW k \in Key, Remove(k)
  PROVE  \E p \in Pointer : Abstract!Delete(k, p)
<1>1. PICK e, leaf, a, b : Cuts(k, e, leaf, a, b)
  BY RemoveCuts
<1>2. PICK p : p = pointer[e]
  OBVIOUS
<1>3. /\ e \in Used /\ leaf \in Used /\ Used \subseteq Entry /\ p \in Pointer
      /\ Pair(e) = <<k, p>>
  BY <1>1, <1>2 DEF Cuts, Under, Used, TreeInv, Placed, Pair
<1>4. Used' = Used \ {leaf}
  BY <1>1 DEF Cuts, Used
<1>5. Pair(e)' = Pair(leaf) /\ \A u \in Used : u # e => Pair(u)' = Pair(u)
  BY <1>1, <1>3 DEF Cuts, Pair, TreeInv, TypeOK
<1>6. ASSUME NEW x PROVE Count(x)' = IF x = <<k, p>> THEN Count(x) - 1 ELSE Count(x)
  <2>1. IsFiniteSet(Holders(x)) /\ Count(x) = Cardinality(Holders(x)) /\ Count(x) \in Nat
    BY HoldersCount DEF Count
  <2>2. Count(x)' = Cardinality(Holders(x)')
    BY DEF Count
  <2>3. CASE Pair(leaf) = <<k, p>>
    <3>1. CASE x = <<k, p>>
      <4>1. Holders(x)' = Holders(x) \ {leaf} /\ leaf \in Holders(x)
        BY <1>3, <1>4, <1>5, <2>3, <3>1 DEF Holders
      <4> QED BY <2>1, <2>2, <3>1, <4>1, FS_RemoveElement
    <3>2. CASE x # <<k, p>>
      <4>1. Holders(x)' = Holders(x)
        BY <1>3, <1>4, <1>5, <2>3, <3>2 DEF Holders
      <4> QED BY <2>1, <2>2, <3>2, <4>1
    <3> QED BY <3>1, <3>2
  <2>4. CASE Pair(leaf) # <<k, p>>
    <3>1. e # leaf
      BY <1>3, <2>4
    <3>2. CASE x = <<k, p>>
      <4>1. Holders(x)' = Holders(x) \ {e} /\ e \in Holders(x)
        BY <1>3, <1>4, <1>5, <2>4, <3>2 DEF Holders
      <4> QED BY <2>1, <2>2, <3>2, <4>1, FS_RemoveElement
    <3>3. CASE x = Pair(leaf)
      <4>1. /\ Holders(x)' = (Holders(x) \ {leaf}) \cup {e}
            /\ leaf \in Holders(x) /\ e \notin Holders(x)
        BY <1>3, <1>4, <1>5, <2>4, <3>1, <3>3 DEF Holders
      <4>2. IsFiniteSet(Holders(x) \ {leaf}) /\ Cardinality(Holders(x) \ {leaf}) = Count(x) - 1
        BY <2>1, <4>1, FS_RemoveElement
      <4>3. Cardinality((Holders(x) \ {leaf}) \cup {e}) = (Count(x) - 1) + 1
        BY <4>1, <4>2, FS_AddElement
      <4> QED BY <2>1, <2>2, <2>4, <3>3, <4>1, <4>3
    <3>4. CASE x # <<k, p>> /\ x # Pair(leaf)
      <4>1. Holders(x)' = Holders(x)
        BY <1>3, <1>4, <1>5, <3>4 DEF Holders
      <4> QED BY <2>1, <2>2, <3>4, <4>1
    <3> QED BY <3>2, <3>3, <3>4
  <2> QED BY <2>3, <2>4
<1>7. <<k, p>> \in Pairs /\ DOMAIN Table = Pairs
  BY <1>3, TableIs DEF Pairs
<1>8. call' = [op |-> "remove", key |-> k]
  BY DEF Remove
<1>9. key'[Root] = key[Root]
  BY <1>1, <1>3, RadixAssumption DEF Cuts, TreeInv, TypeOK
<1>10. Abstract!Delete(k, p)
  BY <1>6, <1>7, <1>8, <1>9, Shrunk
     DEF Abstract!Delete, Abstract!BagToSet, Abstract!SetToBag, Abstract!(-)
<1> QED BY <1>3, <1>10

(* The entries that a walk has come to begin with the bytes it went along; *)
(* add skips the next byte, so that a key it refuses is like one that is   *)
(* there.                                                                  *)
LEMMA RefusedIsLike ==
  ASSUME TreeInv, NEW k \in Key, NEW i \in 0 .. KeySize - 1,
         Path(k)[i] # Null, BreaksOff(k, i)
  PROVE  /\ Path(k)[i] \in Used \cup {Root}
         /\ Abstract!Alike(key[Path(k)[i]], k)
<1>1. Path(k)[i] \in Used \cup {Root} /\ \A n \in 1 .. i : key[Path(k)[i]][n] = k[n]
  <2>1. CASE i = 0
    BY <2>1, PathIs
  <2>2. CASE i # 0
    BY <2>2, PathComesTo DEF Meets
  <2> QED BY <2>1, <2>2
<1>2. \A n \in i + 2 .. KeySize : key[Path(k)[i]][n] = k[n]
  BY DEF BreaksOff, AgreeBehind
<1>3. DOMAIN k = 1 .. KeySize /\ i + 1 \in DOMAIN k
  <2>1. DOMAIN k = 1 .. KeySize
    BY DEF Key
  <2>2. i + 1 \in 1 .. KeySize
    BY RadixAssumption
  <2> QED BY <2>1, <2>2
<1>4. \A n \in DOMAIN k \ {i + 1} : key[Path(k)[i]][n] = k[n]
  BY <1>1, <1>2, <1>3
<1> QED BY <1>1, <1>3, <1>4 DEF Abstract!Alike

(* add that finds no place has met an entry on the way, at which it breaks *)
(* off; at the last byte at the latest.                                    *)
LEMMA RefusedBreaksOff ==
  ASSUME TreeInv, NEW k \in Key, AddRefused(k)
  PROVE  \E i \in 0 .. KeySize - 1 : Path(k)[i] # Null /\ BreaksOff(k, i)
<1> SUFFICES ASSUME \A i \in 0 .. KeySize - 1 : Path(k)[i] # Null => ~BreaksOff(k, i)
             PROVE  FALSE
  OBVIOUS
<1> DEFINE T == {n \in Nat : n <= KeySize - 1 => \A j \in 0 .. n : Path(k)[j] # Null}
<1>1. 0 \in T
  BY PathIs, RadixAssumption DEF TreeInv
<1>2. ASSUME NEW n \in Nat, n \in T PROVE n + 1 \in T
  <2> SUFFICES ASSUME n + 1 <= KeySize - 1 PROVE \A j \in 0 .. n + 1 : Path(k)[j] # Null
    OBVIOUS
  <2>1. n \in 0 .. KeySize - 1 /\ \A j \in 0 .. n : Path(k)[j] # Null
    BY <1>2, RadixAssumption
  <2>2. \A j \in 0 .. n : j \in 0 .. KeySize - 1 /\ ~BreaksOff(k, j)
    BY <2>1, RadixAssumption
  <2>3. ~AddsBelow(k, n)
    BY <2>1 DEF AddRefused
  <2>4. \A j \in 0 .. n - 1 : ~BreaksOff(k, j)
    BY <2>2
  <2>5. n \in 0 .. n /\ Path(k)[n] # Null
    BY <2>1
  <2>6. Path(k)[n + 1] # Null
    BY <2>3, <2>4, <2>5 DEF AddsBelow
  <2>7. \A j \in 0 .. n + 1 : j \in 0 .. n \/ j = n + 1
    OBVIOUS
  <2> QED BY <2>1, <2>6, <2>7
<1> HIDE DEF T
<1>3. Nat \subseteq T
  BY <1>1, <1>2, NatInd
<1>4. KeySize - 1 \in 0 .. KeySize - 1 /\ Path(k)[KeySize - 1] # Null
  BY <1>3, RadixAssumption DEF T
<1>5. BreaksOff(k, KeySize - 1)
  BY RadixAssumption DEF BreaksOff, AgreeBehind
<1> QED BY <1>4, <1>5

LEMMA AddRefuses ==
  ASSUME TreeInv, NEW k \in Key, AddRefused(k)
  PROVE  Abstract!Refuse(k)
<1>1. PICK i \in 0 .. KeySize - 1 : Path(k)[i] # Null /\ BreaksOff(k, i)
  BY RefusedBreaksOff
<1>2. PICK e : e = Path(k)[i]
  OBVIOUS
<1>3. e \in Used \cup {Root} /\ Abstract!Alike(key[e], k)
  BY <1>1, <1>2, RefusedIsLike
<1>4. UNCHANGED <<Table, key[Root]>> /\ call' = [op |-> "add", key |-> k]
  BY DEF AddRefused, treeVars, Table, Used
<1>5. ASSUME e \in Used
      PROVE  \E pair \in Abstract!BagToSet(Table) : Abstract!Alike(pair[1], k)
  <2>1. Pair(e) \in Pairs /\ Pair(e)[1] = key[e]
    BY <1>5 DEF Pairs, Pair
  <2>2. Abstract!BagToSet(Table) = Pairs
    BY TableIs DEF Abstract!BagToSet
  <2> QED BY <1>3, <2>1, <2>2
<1> QED BY <1>3, <1>4, <1>5 DEF Abstract!Refuse

LEMMA InitMaps == Init => Abstract!Init
<1> SUFFICES ASSUME Init PROVE Abstract!Init
  OBVIOUS
<1>1. Pairs = {} /\ call = [op |-> "none"]
  BY DEF Init, Pairs, Used
<1>2. Table = [x \in {} |-> 1]
  BY <1>1, TableIs
<1>3. key[Root] \in Key
  BY DEF Init
<1> QED BY <1>1, <1>2, <1>3 DEF Abstract!Init, Abstract!EmptyBag, Abstract!SetToBag

LEMMA NextMaps == TreeInv /\ [Next]_vars => [Abstract!Next]_(Abstract!tableVars)
<1> SUFFICES ASSUME TreeInv, [Next]_vars PROVE Abstract!Next \/ UNCHANGED Abstract!tableVars
  OBVIOUS
<1>1. ASSUME NEW k \in Key, NEW p \in Pointer, AddLeaf(k, p) PROVE Abstract!Next
  BY <1>1, AddInserts DEF Abstract!Next
<1>2. ASSUME NEW k \in Key, AddRefused(k) PROVE Abstract!Next
  BY <1>2, AddRefuses DEF Abstract!Next
<1>3. ASSUME NEW k \in Key, Remove(k) PROVE Abstract!Next
  BY <1>3, RemoveDeletes DEF Abstract!Next
<1>4. CASE UNCHANGED vars
  BY <1>4 DEF vars, treeVars, Table, Used, Abstract!tableVars
<1> QED BY <1>1, <1>2, <1>3, <1>4 DEF Next

(* frl_radix_tree is a table: add puts one pair in, or refuses a key that  *)
(* differs in one byte at most from a key that is there or from the root's *)
(* (line 97), and remove takes out one pair of the key it is called for    *)
(* and no other (lines 68-155).                                            *)
THEOREM Implements == Spec => ImplementsTable
<1>1. Init => Abstract!Init
  BY InitMaps
<1>2. TreeInv /\ [Next]_vars => [Abstract!Next]_(Abstract!tableVars)
  BY NextMaps
<1> QED BY <1>1, <1>2, Invariance, PTL DEF Spec, ImplementsTable, Abstract!Spec

=============================================================================
