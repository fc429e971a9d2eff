------------------------------ MODULE RadixTree ------------------------------
(***************************************************************************)
(* frl_radix_tree: entries in a tree, each with a whole key, placed along  *)
(* the path its key spells as deep as was needed when it was added.  The   *)
(* variant under tree->rwlock, the only one there is: add and remove hold  *)
(* the lock exclusively and are one step each, and get changes nothing.    *)
(* An entry is removed by the caller that has just got it.                 *)
(***************************************************************************)
EXTENDS Integers, FiniteSets

CONSTANTS
  Byte,       (* the values of one byte of a key                           *)
  KeySize,    (* tree->key_size                                            *)
  Entry,      (* the entries the pool can provide, besides the root        *)
  Root,       (* tree->root                                                *)
  Pointer,    (* what is stored under the keys                             *)
  Null

ASSUME RadixAssumption ==
  /\ Byte \subseteq Nat /\ IsFiniteSet(Byte)
  /\ KeySize \in 1 .. 32
  /\ IsFiniteSet(Entry) /\ Root \notin Entry /\ Null \notin Entry \cup {Root}

Key == [1 .. KeySize -> Byte]

VARIABLES
  children,   (* entry->children                                           *)
  parent,     (* entry->parent                                             *)
  depth,      (* entry->depth                                              *)
  key,        (* entry->key                                                *)
  pointer,    (* entry->pointer                                            *)
  nelts,      (* entry->nelts                                              *)
  free,       (* the entries in the pool                                   *)
  call        (* the last call and its key                                 *)

treeVars == <<children, parent, depth, key, pointer, nelts, free>>
vars == <<treeVars, call>>

(* The key of the root is never written.                                   *)
Init ==
  /\ children = [e \in Entry \cup {Root} |-> [b \in Byte |-> Null]]
  /\ parent = [e \in Entry |-> Null]
  /\ depth = [e \in Entry |-> 0]
  /\ \E k \in Key : key = [e \in Entry \cup {Root} |-> k]
  /\ pointer = [e \in Entry |-> Null]
  /\ nelts = [e \in Entry \cup {Root} |-> 0]
  /\ free = Entry
  /\ call = [op |-> "none"]

-----------------------------------------------------------------------------

(* The entries that key k leads to: Path(k)[i] after i bytes.              *)
Path(k) ==
  LET Child(e, b) == IF e = Null THEN Null ELSE children[e][b]
      path[i \in 0 .. KeySize] == IF i = 0 THEN Root ELSE Child(path[i - 1], k[i])
  IN  path

(* keycmp: keys j and k agree behind their first i bytes.                  *)
AgreeBehind(j, k, i) == \A n \in i + 1 .. KeySize : j[n] = k[n]

(* Mutant: agrees with an entry on another path as well.                   *)
Matches_Deep(k, i) == Path(k)[i] # Null /\ AgreeBehind(key[Path(k)[i]], k, i + 1)

(* Whether get stops after i bytes of k.                                   *)
Matches(k, i) == Path(k)[i] # Null /\ AgreeBehind(key[Path(k)[i]], k, i)

(* frl_radix_tree_get.                                                     *)
Get(k) ==
  IF \E i \in 1 .. KeySize : Matches(k, i)
  THEN Path(k)[CHOOSE i \in 1 .. KeySize : Matches(k, i) /\ \A j \in 1 .. i - 1 : ~Matches(k, j)]
  ELSE Null

(* Mutant: skips one byte more.                                            *)
BreaksOff_Early(k, i) == AgreeBehind(key[Path(k)[i]], k, i + 2)

(* Whether add breaks off at the entry after i bytes, which has a child in *)
(* the direction of k: it compares k with that entry, not with the child,  *)
(* and skips the byte that tells them apart.                               *)
BreaksOff(k, i) == AgreeBehind(key[Path(k)[i]], k, i + 1)

(* add puts k below the entry that i bytes of k lead to.                   *)
AddsBelow(k, i) ==
  /\ Path(k)[i] # Null /\ Path(k)[i + 1] = Null
  /\ \A j \in 0 .. i - 1 : ~BreaksOff(k, j)

LeafDepth(i) == i

AddLeaf(k, p) ==
  \E i \in 0 .. KeySize - 1, leaf \in free :
    LET above == Path(k)[i]
    IN  /\ AddsBelow(k, i)
        /\ children' = [children EXCEPT ![leaf] = [b \in Byte |-> Null],
                                        ![above][k[i + 1]] = leaf]
        /\ parent' = [parent EXCEPT ![leaf] = above]
        /\ depth' = [depth EXCEPT ![leaf] = LeafDepth(i)]
        /\ key' = [key EXCEPT ![leaf] = k]
        /\ pointer' = [pointer EXCEPT ![leaf] = p]
        /\ nelts' = [nelts EXCEPT ![leaf] = 0, ![above] = @ + 1]
        /\ free' = free \ {leaf}
        /\ call' = [op |-> "add", key |-> k]

AddRefused(k) ==
  /\ \A i \in 0 .. KeySize - 1 : ~AddsBelow(k, i)
  /\ call' = [op |-> "add", key |-> k]
  /\ UNCHANGED treeVars

(* The child remove goes on to: the first that has no children, or else    *)
(* the first.                                                              *)
Below(e) ==
  LET there == {b \in Byte : children[e][b] # Null}
      ends == {b \in there : nelts[children[e][b]] = 0}
      from == IF ends # {} THEN ends ELSE there
  IN  children[e][CHOOSE b \in from : \A c \in from : b <= c]

(* Mutant: the first child, whether it has children or not.                *)
LeafOf_OneDown(e) == IF nelts[e] = 0 THEN e ELSE Below(e)

(* An entry without children at e or below it.                             *)
LeafOf(e) ==
  LET OneDown(d) == IF nelts[d] = 0 THEN d ELSE Below(d)
      down[i \in 0 .. KeySize] == IF i = 0 THEN e ELSE OneDown(down[i - 1])
  IN  down[KeySize]

(* What the leaf holds replaces what e holds.                              *)
Moved(e, leaf) ==
  /\ key' = [key EXCEPT ![e] = key[leaf]]
  /\ pointer' = [pointer EXCEPT ![e] = pointer[leaf]]

(* A leaf at the entry found, or below it, leaves the tree.                *)
Remove(k) ==
  LET e == Get(k)
      leaf == LeafOf(e)
  IN  /\ e # Null
      /\ children' = [children EXCEPT ![parent[leaf]][key[leaf][depth[leaf] + 1]] = Null]
      /\ nelts' = [nelts EXCEPT ![parent[leaf]] = @ - 1]
      /\ Moved(e, leaf)
      /\ free' = free \cup {leaf}
      /\ call' = [op |-> "remove", key |-> k]
      /\ UNCHANGED <<parent, depth>>

Next == \E k \in Key :
  \/ \E p \in Pointer : AddLeaf(k, p)
  \/ AddRefused(k)
  \/ Remove(k)

Spec == Init /\ [][Next]_vars

-----------------------------------------------------------------------------

Used == Entry \ free

(* Every variable keeps its type.                                          *)
TypeOK ==
  /\ children \in [Entry \cup {Root} -> [Byte -> Entry \cup {Null}]]
  /\ parent \in [Entry -> Entry \cup {Root, Null}]
  /\ depth \in [Entry -> 0 .. KeySize - 1]
  /\ key \in [Entry \cup {Root} -> Key]
  /\ pointer \in [Entry -> Pointer \cup {Null}]
  /\ nelts \in [Entry \cup {Root} -> 0 .. Cardinality(Entry)]
  /\ free \subseteq Entry

(* Every variable keeps its type.  Each entry is the child of its parent,  *)
(* at the place its key and its depth name, on the path its key spells,    *)
(* and each child is in use; nelts counts the children.  remove relies on  *)
(* it to find and to cut the leaf.                                         *)
TreeShape ==
  /\ TypeOK
  /\ \A e \in Used :
       /\ Path(key[e])[depth[e] + 1] = e
       /\ parent[e] = Path(key[e])[depth[e]]
  /\ \A e \in Used \cup {Root} :
       /\ \A b \in Byte : children[e][b] \in Used \cup {Null}
       /\ nelts[e] = Cardinality({b \in Byte : children[e][b] # Null})

(* get finds a key that is in the tree, and finds no other.                *)
GetFinds ==
  \A k \in Key :
    /\ Get(k) # Null => key[Get(k)] = k
    /\ (\E e \in Used : key[e] = k) => Get(k) # Null

(* The pairs of a key and a pointer in the tree, as a bag.                 *)
Table ==
  LET Pair(e) == <<key[e], pointer[e]>>
  IN  [x \in {Pair(e) : e \in Used} |-> Cardinality({e \in Used : Pair(e) = x})]

(* The tree is a table: add puts one pair in, or refuses a key that        *)
(* differs in one byte at most from one that is there or from the root's,  *)
(* and remove takes one pair out, whichever entry it moves on the way.     *)
Abstract == INSTANCE KeyTable WITH table <- Table, unwritten <- key[Root]
ImplementsTable == Abstract!Spec

=============================================================================
