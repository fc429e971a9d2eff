------------------------------- MODULE ChunkPool -------------------------------
(***************************************************************************)
(* What frl_slab_pool promises its clients, whichever its locking: palloc  *)
(* gives a chunk that nobody uses and that nobody is giving back, a chunk  *)
(* comes back when its last user lets it go, and clear takes them all      *)
(* away.  Each call takes effect at one instant before it returns.         *)
(***************************************************************************)
CONSTANTS
  Thread,   (* the clients                                                 *)
  Chunk,    (* the chunks of memory there may ever be                      *)
  NoChunk

VARIABLES
  users,    (* the threads that may use each chunk                         *)
  call,     (* the call each thread is in, or "idle"                       *)
  back,     (* the chunk that each thread is giving back                   *)
  gone      (* the pool is destroyed                                       *)

chunkVars == <<users, call, back, gone>>

Init ==
  /\ users = [c \in Chunk |-> {}]
  /\ call = [t \in Thread |-> "idle"]
  /\ back = [t \in Thread |-> NoChunk]
  /\ gone = FALSE

Unused == {c \in Chunk : users[c] = {} /\ \A t \in Thread : back[t] # c}

AskChunk(t) ==
  /\ call[t] = "idle" /\ ~gone
  /\ call' = [call EXCEPT ![t] = "palloc"]
  /\ UNCHANGED <<users, back, gone>>

TakeChunk(t, c) ==
  /\ call[t] = "palloc" /\ c \in Unused
  /\ users' = [users EXCEPT ![c] = {t}]
  /\ call' = [call EXCEPT ![t] = "idle"]
  /\ UNCHANGED <<back, gone>>

(* malloc gives no memory.                                                 *)
RefuseChunk(t) ==
  /\ call[t] = "palloc"
  /\ call' = [call EXCEPT ![t] = "idle"]
  /\ UNCHANGED <<users, back, gone>>

ShareChunk(t, u, c) ==
  /\ call[t] = "idle" /\ call[u] = "idle"
  /\ t \in users[c]
  /\ users' = [users EXCEPT ![c] = @ \cup {u}]
  /\ UNCHANGED <<call, back, gone>>

(* t lets c go; the last user gives it back.                               *)
LeaveChunk(t, c) ==
  /\ call[t] = "idle" /\ t \in users[c]
  /\ users' = [users EXCEPT ![c] = @ \ {t}]
  /\ IF users[c] = {t}
     THEN call' = [call EXCEPT ![t] = "pfree"] /\ back' = [back EXCEPT ![t] = c]
     ELSE UNCHANGED <<call, back>>
  /\ UNCHANGED gone

(* A chunk given back can be taken from now on.                            *)
ReturnChunk(t) ==
  /\ call[t] = "pfree"
  /\ call' = [call EXCEPT ![t] = "idle"]
  /\ back' = [back EXCEPT ![t] = NoChunk]
  /\ UNCHANGED <<users, gone>>

(* frl_slab_pool_clear, or frl_slab_pool_destroy.                          *)
DropChunks ==
  /\ \A t \in Thread : call[t] = "idle"
  /\ users' = [c \in Chunk |-> {}]
  /\ ~gone /\ gone' \in BOOLEAN
  /\ UNCHANGED <<call, back>>

Next ==
  \/ \E t \in Thread :
       \/ AskChunk(t) \/ RefuseChunk(t) \/ ReturnChunk(t)
       \/ \E c \in Chunk : TakeChunk(t, c) \/ LeaveChunk(t, c)
       \/ \E u \in Thread, c \in Chunk : ShareChunk(t, u, c)
  \/ DropChunks

Spec == Init /\ [][Next]_chunkVars

=============================================================================
