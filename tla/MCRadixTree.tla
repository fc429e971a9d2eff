----------------------------- MODULE MCRadixTree -----------------------------
(* RadixTree on small instances.                                           *)
EXTENDS RadixTree, TLC

(* The tree as it looks from the root, whatever the names of its entries,  *)
(* and without what nothing reads: entries in the pool and the last call.  *)
LiveView ==
  <<key[Root], nelts[Root], Cardinality(Used),
    [k \in Key |-> [i \in 1 .. KeySize |->
       LET e == Path(k)[i]
       IN  IF e = Null THEN <<>>
           ELSE <<key[e], pointer[e], depth[e], nelts[e], parent[e] = Path(k)[i - 1]>>]]>>

=============================================================================
