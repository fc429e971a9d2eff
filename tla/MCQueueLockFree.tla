--------------------------- MODULE MCQueueLockFree ---------------------------
(* QueueLockFree on small instances.                                       *)
EXTENDS QueueLockFree, TLC

(* One thread does each; two push, or two pop; and two push beside one     *)
(* that pops, or two pop beside one that pushes.                           *)
PairCrews ==
  {[push |-> {t}, pop |-> {u}] : t \in Thread, u \in Thread} \cup
  {[push |-> Thread \ {t}, pop |-> {}] : t \in Thread} \cup
  {[push |-> {}, pop |-> Thread \ {t}] : t \in Thread}
MixedCrews ==
  {[push |-> Thread \ {t}, pop |-> {t}] : t \in Thread} \cup
  {[push |-> {t}, pop |-> Thread \ {t}] : t \in Thread}
AllCrews == PairCrews \cup MixedCrews

(* The states before an entry is pushed again under a pointer to it, where *)
(* the properties end.                                                     *)
BeforeReuse == ~reused

(* The locals of t that it is still going to read.                         *)
LiveLocals(t) ==
  CASE pc[t] = "tail" -> <<elts[t]>>
    [] pc[t] \in {"link", "swing"} -> <<elts[t], tl[t]>>
    [] pc[t] = "help" -> <<elts[t], tl[t], nx[t]>>
    [] pc[t] = "readtail" -> <<hd[t]>>
    [] pc[t] = "readnext" -> <<hd[t], tl[t]>>
    [] pc[t] = "helptail" -> <<hd[t], tl[t], nx[t]>>
    [] pc[t] \in {"claim", "load"} -> <<hd[t], nx[t]>>
    [] pc[t] = "release" -> <<hd[t], nx[t], res[t]>>
    [] OTHER -> <<>>

(* The state without what nothing reads: a push fills an entry from the    *)
(* pool anew, unless a thread still refers to it, and nobody looks at what *)
(* the last call of a thread returned, or at the value of the dummy once   *)
(* it is read.                                                             *)
LiveView ==
  <<head, tail, free, nelts, condVars, pc, op, arg, reused,
    [t \in Thread |-> LiveLocals(t)],
    [n \in Node |-> IF n \in free /\ \A t \in Thread : n \notin Refs(t) THEN Null ELSE nxt[n]],
    [n \in Node |-> IF n \in free \cup {head} /\ \A t \in Thread : nx[t] # n THEN Null ELSE val[n]]>>

(* Threads, values and entries are interchangeable.                        *)
Symmetry == Permutations(Thread) \cup Permutations(Value) \cup Permutations(Node)

=============================================================================
