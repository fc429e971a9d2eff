------------------------------ MODULE MultiSock ------------------------------
(***************************************************************************)
(* frl_multi_sock: the accept thread gives each connection to an idle      *)
(* reader thread, which it takes from a queue; a reader that is done with  *)
(* its connection goes back into the queue, even one whose proc failed.    *)
(* The mutex of a task makes each of its critical sections one step.       *)
(***************************************************************************)
EXTENDS Naturals, Sequences

CONSTANTS
  N,          (* the readers that spawn starts                             *)
  Socket,     (* the connections that are ever made                        *)
  NoSocket    (* no connection                                             *)

ASSUME MultiSockAssumption == N \in Nat \ {0} /\ NoSocket \notin Socket

Reader == 1 .. N
NoReader == 0

VARIABLES
  readerQueue,  (* _reader_queue, an apr_queue with room for every reader  *)
  socket,       (* task.socket of each reader                              *)
  status,       (* task.status                                             *)
  waiting,      (* the readers blocked on task.cond                        *)
  pc,           (* where each reader stands                                *)
  quit,         (* its quit_signal                                         *)
  readSock,     (* local read_sock of the accept thread                    *)
  idleReader,   (* its local idle_reader                                   *)
  pending,      (* the connections not accepted yet                        *)
  finished      (* the connections a reader is done with                   *)

taskVars == <<socket, status, waiting>>
acceptVars == <<readSock, idleReader, pending>>
multiSockVars == <<readerQueue, taskVars, pc, quit, acceptVars, finished>>

(* spawn pushes every reader before it starts the accept thread.           *)
MultiSockInit ==
  /\ readerQueue = [i \in 1 .. N |-> i]
  /\ socket = [r \in Reader |-> NoSocket]
  /\ status = [r \in Reader |-> FALSE]
  /\ waiting = {}
  /\ pc = [r \in Reader |-> "test"]
  /\ quit = [r \in Reader |-> FALSE]
  /\ readSock = NoSocket /\ idleReader = NoReader
  /\ pending = Socket /\ finished = {}

-----------------------------------------------------------------------------
(* The accept thread.                                                      *)

AcceptSocket ==
  /\ readSock = NoSocket
  /\ \E c \in pending : readSock' = c /\ pending' = pending \ {c}
  /\ UNCHANGED <<readerQueue, taskVars, pc, quit, idleReader, finished>>

(* apr_queue_pop, which blocks while no reader is idle.                    *)
PopReader ==
  /\ readSock # NoSocket /\ idleReader = NoReader /\ readerQueue # <<>>
  /\ idleReader' = Head(readerQueue)
  /\ readerQueue' = Tail(readerQueue)
  /\ UNCHANGED <<taskVars, pc, quit, readSock, pending, finished>>

(* The reader is told of its connection.                                   *)
Hand ==
  /\ idleReader # NoReader
  /\ socket' = [socket EXCEPT ![idleReader] = readSock]
  /\ status' = [status EXCEPT ![idleReader] = TRUE]
  /\ waiting' = waiting \ {idleReader}
  /\ readSock' = NoSocket /\ idleReader' = NoReader
  /\ UNCHANGED <<readerQueue, pc, quit, pending, finished>>

-----------------------------------------------------------------------------
(* A reader.                                                               *)

(* Mutant: waits without looking at status.                                *)
Sleep_NoTest(r) ==
  /\ pc[r] = "test"
  /\ waiting' = waiting \cup {r}
  /\ pc' = [pc EXCEPT ![r] = "asleep"]
  /\ UNCHANGED <<readerQueue, socket, status, quit, acceptVars, finished>>

(* No connection yet: the reader waits on task.cond.                       *)
Sleep(r) ==
  /\ pc[r] = "test" /\ ~status[r]
  /\ waiting' = waiting \cup {r}
  /\ pc' = [pc EXCEPT ![r] = "asleep"]
  /\ UNCHANGED <<readerQueue, socket, status, quit, acceptVars, finished>>

(* Back from the wait it looks again.                                      *)
Wake(r) ==
  /\ pc[r] = "asleep" /\ r \notin waiting
  /\ pc' = [pc EXCEPT ![r] = "test"]
  /\ UNCHANGED <<readerQueue, taskVars, quit, acceptVars, finished>>

(* A condition variable may let a thread go without a signal.              *)
SpuriousWake(r) ==
  /\ r \in waiting
  /\ waiting' = waiting \ {r}
  /\ UNCHANGED <<readerQueue, socket, status, pc, quit, acceptVars, finished>>

(* Mutant: the reader counts as idle while it works.                       *)
Take_StaysIdle(r) ==
  /\ pc[r] = "test" /\ status[r]
  /\ status' = [status EXCEPT ![r] = FALSE]
  /\ pc' = [pc EXCEPT ![r] = "proc"]
  /\ readerQueue' = Append(readerQueue, r)
  /\ UNCHANGED <<socket, waiting, quit, acceptVars, finished>>

(* It takes the connection.                                                *)
Take(r) ==
  /\ pc[r] = "test" /\ status[r]
  /\ status' = [status EXCEPT ![r] = FALSE]
  /\ pc' = [pc EXCEPT ![r] = "proc"]
  /\ UNCHANGED <<readerQueue, socket, waiting, quit, acceptVars, finished>>

(* proc ends, and the reader shall quit if it failed.                      *)
Proc(r) ==
  /\ pc[r] = "proc"
  /\ \E crashed \in BOOLEAN : quit' = [quit EXCEPT ![r] = crashed]
  /\ pc' = [pc EXCEPT ![r] = "close"]
  /\ UNCHANGED <<readerQueue, taskVars, acceptVars, finished>>

(* It closes the connection, and ends at once if that fails.               *)
CloseSocket(r) ==
  /\ pc[r] = "close"
  /\ finished' = finished \cup {socket[r]}
  /\ \E next \in {"push", "gone"} : pc' = [pc EXCEPT ![r] = next]
  /\ UNCHANGED <<readerQueue, taskVars, quit, acceptVars>>

(* It goes back into the queue, and ends then if it shall quit.            *)
PushBack(r) ==
  /\ pc[r] = "push"
  /\ readerQueue' = Append(readerQueue, r)
  /\ pc' = [pc EXCEPT ![r] = IF quit[r] THEN "gone" ELSE "test"]
  /\ UNCHANGED <<taskVars, quit, acceptVars, finished>>

-----------------------------------------------------------------------------

Accepter == AcceptSocket \/ PopReader \/ Hand
Read(r) == Sleep(r) \/ Wake(r) \/ Take(r) \/ Proc(r) \/ CloseSocket(r) \/ PushBack(r)

MultiSockNext == Accepter \/ \E r \in Reader : Read(r) \/ SpuriousWake(r)

MultiSockSpec == MultiSockInit /\ [][MultiSockNext]_multiSockVars

(* Each thread goes on when it can, and proc ends.                         *)
Fairness == WF_multiSockVars(Accepter) /\ \A r \in Reader : WF_multiSockVars(Read(r))
FairSpec == MultiSockSpec /\ Fairness

-----------------------------------------------------------------------------

(* Reader r has connection c to serve, or is serving it.                   *)
InTask(r, c) == socket[r] = c /\ (status[r] \/ pc[r] \in {"proc", "close"})

(* Every connection is in one place: not accepted, with the accept thread, *)
(* with one reader, or finished.  In particular no reader is given a       *)
(* connection while it has one, although it reads task.socket without the  *)
(* mutex (lines 93 and 105).                                               *)
EachConnectionOnce ==
  /\ \A c \in Socket : \/ c \in pending \/ readSock = c \/ c \in finished
                        \/ \E r \in Reader : InTask(r, c)
  /\ readSock \notin pending \cup finished /\ pending \cap finished = {}
  /\ \A r \in Reader, c \in Socket :
       InTask(r, c) => /\ c \notin pending \cup finished \cup {readSock}
                       /\ \A s \in Reader : InTask(s, c) => s = r
  /\ \A r \in Reader : status[r] => pc[r] \notin {"proc", "close", "push"}

Gone(r) == pc[r] = "gone"

(* An accepted connection is served, unless it waits for a reader that has *)
(* ended, or all of them have.                                             *)
AcceptedServed == \A c \in Socket :
  readSock = c ~> \/ c \in finished
                  \/ \E r \in Reader : Gone(r) /\ InTask(r, c)
                  \/ \A r \in Reader : Gone(r)

=============================================================================
