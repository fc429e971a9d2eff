--------------------------------- MODULE Fifo ---------------------------------
(***************************************************************************)
(* What frl_queue promises its clients: every push and every pop takes     *)
(* effect at one instant between its call and its return, values leave in  *)
(* the order in which they came, and a blocking pop returns without a      *)
(* value only once the queue is destroyed.                                 *)
(***************************************************************************)
EXTENDS Sequences

CONSTANTS
  Thread,   (* the clients                                                 *)
  Value,    (* what they push                                              *)
  Null      (* what an unsuccessful pop returns                            *)

VARIABLES
  q,        (* the values inside                                           *)
  op,       (* the call each client waits for; "none" once it took effect  *)
  arg,      (* the value it pushes                                         *)
  res,      (* the result of its last call                                 *)
  closed    (* the queue is destroyed                                      *)

fifoVars == <<q, op, arg, res, closed>>

Pushes == {"push", "trypush"}
Pops == {"pop", "trypop"}

Init ==
  /\ q = <<>>
  /\ op = [t \in Thread |-> "none"]
  /\ arg = [t \in Thread |-> Null]
  /\ res = [t \in Thread |-> Null]
  /\ closed = FALSE

Call(t) ==
  /\ op[t] = "none" /\ ~closed
  /\ \/ \E o \in Pushes, v \in Value :
          op' = [op EXCEPT ![t] = o] /\ arg' = [arg EXCEPT ![t] = v]
     \/ \E o \in Pops : op' = [op EXCEPT ![t] = o] /\ UNCHANGED arg
  /\ UNCHANGED <<q, res, closed>>

Finish(t, r) ==
  /\ op' = [op EXCEPT ![t] = "none"]
  /\ arg' = [arg EXCEPT ![t] = Null]
  /\ res' = [res EXCEPT ![t] = r]
  /\ UNCHANGED closed

Enqueue(t) == op[t] \in Pushes /\ q' = Append(q, arg[t]) /\ Finish(t, arg[t])

(* A push that finds no memory.                                            *)
Refuse(t) == op[t] \in Pushes /\ UNCHANGED q /\ Finish(t, Null)

Dequeue(t) == op[t] \in Pops /\ q # <<>> /\ q' = Tail(q) /\ Finish(t, Head(q))

FindEmpty(t) == op[t] = "trypop" /\ q = <<>> /\ UNCHANGED q /\ Finish(t, Null)

GiveUp(t) == op[t] = "pop" /\ closed /\ UNCHANGED q /\ Finish(t, Null)

Close == closed' = TRUE /\ UNCHANGED <<q, op, arg, res>>

Next ==
  \/ \E t \in Thread :
       Call(t) \/ Enqueue(t) \/ Refuse(t) \/ Dequeue(t) \/ FindEmpty(t) \/ GiveUp(t)
  \/ Close

Spec == Init /\ [][Next]_fifoVars

=============================================================================
