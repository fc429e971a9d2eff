------------------------- MODULE MCSlabPoolLockFree -------------------------
(***************************************************************************)
(* SlabPoolLockFree for TLC: threads are interchangeable.                  *)
(***************************************************************************)
EXTENDS SlabPoolLockFree, TLC

Symmetry == Permutations(Thread)

(* The state without what nothing reads: the reference count a chunk keeps *)
(* while it is free, which palloc overwrites.                              *)
LiveView ==
  <<poolVars, home, occupied,
    [c \in Chunk |-> IF owners[c] = {} THEN 0 ELSE refcount[c]],
    owners, pc, localVars, busy, casVars>>

=============================================================================
