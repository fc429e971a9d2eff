------------------------- MODULE MCSlabPoolLockWith -------------------------
(***************************************************************************)
(* SlabPoolLockWith for TLC: threads are interchangeable.                  *)
(***************************************************************************)
EXTENDS SlabPoolLockWith, TLC

Symmetry == Permutations(Thread)

(* A header that is going to be read: palloc writes it anew otherwise.     *)
LiveHeader(c) ==
  owners[c] # {} \/ \E t \in Thread : pc[t] = "pfree" /\ mem[t] = c

(* The state without what nothing reads: the headers of free chunks, and   *)
(* what is left in a usage stack above its stack pointer, which pfree      *)
(* overwrites.                                                             *)
LiveView ==
  <<capacity, next, sp, poolBlock, maxCapacity,
    [b \in Block |-> [i \in 1 .. sp[b] |-> slot[b][i]]],
    [c \in Chunk |-> IF LiveHeader(c) THEN <<home[c], occupied[c], refcount[c]>> ELSE <<>>],
    owners, pc, localVars, mutex>>

=============================================================================
