------------------------------- MODULE KeyTable -------------------------------
(***************************************************************************)
(* What frl_radix_tree promises: a table of pointers under keys.  It is a  *)
(* bag, because add does not always notice that a key is there already.    *)
(* add may also take a key for one that is there although they differ in a *)
(* byte.  What it puts into the table stays until remove is called for its *)
(* key, and remove takes one pair with that key and no other.              *)
(***************************************************************************)
EXTENDS Integers, Bags

CONSTANTS Key, Pointer

VARIABLES
  table,      (* a bag of pairs of a key and a pointer                     *)
  unwritten,  (* the key of the root, which nobody has put there           *)
  call        (* the last call                                             *)

tableVars == <<table, unwritten, call>>

Init == table = EmptyBag /\ unwritten \in Key /\ call = [op |-> "none"]

(* Keys j and k differ in one byte at most.                                *)
Alike(j, k) == \E n \in DOMAIN k : \A i \in DOMAIN k \ {n} : j[i] = k[i]

Insert(k, p) ==
  /\ call' = [op |-> "add", key |-> k]
  /\ table' = table (+) SetToBag({<<k, p>>})
  /\ UNCHANGED unwritten

Refuse(k) ==
  /\ \/ Alike(unwritten, k)
     \/ \E pair \in BagToSet(table) : Alike(pair[1], k)
  /\ call' = [op |-> "add", key |-> k]
  /\ UNCHANGED <<table, unwritten>>

Delete(k, p) ==
  /\ <<k, p>> \in BagToSet(table)
  /\ call' = [op |-> "remove", key |-> k]
  /\ table' = table (-) SetToBag({<<k, p>>})
  /\ UNCHANGED unwritten

Next == \E k \in Key : Refuse(k) \/ \E p \in Pointer : Insert(k, p) \/ Delete(k, p)

Spec == Init /\ [][Next]_tableVars

=============================================================================
