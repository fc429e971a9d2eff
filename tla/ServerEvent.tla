----------------------------- MODULE ServerEvent -----------------------------
(***************************************************************************)
(* frl_server_event once spawn has returned: a listener deals connections  *)
(* out to handler threads by how many each is thought to have (balance),   *)
(* and a handler runs the callbacks of the application as its connections  *)
(* become readable or writable.  The listener and a handler change the     *)
(* same balance without a lock.                                            *)
(*                                                                         *)
(* What peers do is left open: a connection is readable or writable, fails *)
(* or is slow at any time.                                                 *)
(***************************************************************************)
EXTENDS Integers, FiniteSets

CONSTANTS
  Conn,       (* the connections that are ever made                        *)
  Info,       (* the frl_eventinfo_t that eventpool gives                  *)
  Min, Max,   (* handlers that spawn starts, and most that there can be    *)
  Width,      (* balance counts modulo Width (2^32 in the code)            *)
  Null

ASSUME ServerAssumption ==
  /\ Min \in Nat \ {0} /\ Max \in Nat /\ Min <= Max
  /\ Width \in Nat \ {0} /\ Cardinality(Conn) < Width
  /\ Cardinality(Info) >= Cardinality(Conn)
  /\ Null \notin Conn \cup Info \cup Nat

Handler == 1 .. Max

VARIABLES
  open,      (* how many handlers run                                      *)
  balance,   (* event->balance                                             *)
  lpc,       (* where the listener stands                                  *)
  sock,      (* its local accept_sock                                      *)
  i,         (* its loop variable                                          *)
  min,       (* the handler whose balance its local min points to          *)
  select,    (* the handler whose pollset its local select is              *)
  count,     (* the balance it has read and is to increment                *)
  pollset,   (* the connections in each pollset                            *)
  events,    (* reqevents of each connection                               *)
  state,     (* eventinfo->state of each connection, or what it is else    *)
  room,      (* eventinfo->offset < eventinfo->size                        *)
  info,      (* the eventinfo of each connection                           *)
  complete,  (* notify.state of each eventinfo is FRL_PROGRESS_COMLETE     *)
  waiters,   (* <<connection, eventinfo>> the application has yet to signal*)
  drop,      (* the balance each handler has read for balance--            *)
  strays,    (* history: what sets a balance apart from its pollset,       *)
             (* modulo Width                                              *)
  struck,    (* history: connections hit by the signal for another one     *)
  early      (* history: connections answered before their signal          *)

listenerVars == <<open, lpc, sock, i, min, select, count>>
connVars == <<pollset, events, state, room, info>>
appVars == <<complete, waiters, struck, early>>
vars == <<listenerVars, balance, connVars, appVars, drop, strays>>

Init ==
  /\ open = Min
  /\ balance = [h \in Handler |-> 0]
  /\ lpc = "accept" /\ sock = Null /\ i = 0 /\ min = 1 /\ select = 1 /\ count = 0
  /\ pollset = [h \in Handler |-> {}]
  /\ events = [c \in Conn |-> "none"]
  /\ state = [c \in Conn |-> "new"]
  /\ room = [c \in Conn |-> FALSE]
  /\ info = [c \in Conn |-> Null]
  /\ complete \in [Info -> BOOLEAN]
  /\ waiters = {}
  /\ drop = [h \in Handler |-> Null]
  /\ strays = [h \in Handler |-> 0]
  /\ struck = {} /\ early = {}

-----------------------------------------------------------------------------
(* The listener.                                                           *)

Accept ==
  /\ lpc = "accept"
  /\ \E c \in Conn : state[c] = "new" /\ sock' = c /\ state' = [state EXCEPT ![c] = "accepted"]
  /\ min' = 1 /\ select' = 1 /\ i' = 2 /\ lpc' = "look"
  /\ UNCHANGED <<open, count, balance, pollset, events, room, info, appVars, drop, strays>>

(* One round of the loop over the balances.                                *)
Look ==
  /\ lpc = "look" /\ i <= open
  /\ IF balance[i] < balance[min] THEN min' = i /\ select' = i ELSE UNCHANGED <<min, select>>
  /\ i' = i + 1
  /\ UNCHANGED <<open, lpc, sock, count, balance, connVars, appVars, drop, strays>>

(* Every handler has something to do: one more is started and counted on,  *)
(* but select stays what it was.                                           *)
OpenHandler ==
  /\ lpc = "look" /\ i > open
  /\ IF balance[min] > 0 /\ open < Max
     THEN /\ open' = open + 1
          /\ min' = open + 1
          /\ balance' = [balance EXCEPT ![open + 1] = 0]
     ELSE UNCHANGED <<open, min, balance>>
  /\ lpc' = "read"
  /\ UNCHANGED <<sock, i, select, count, connVars, appVars, drop, strays>>

ReadBalance ==
  /\ lpc = "read"
  /\ count' = balance[min]
  /\ lpc' = "write"
  /\ UNCHANGED <<open, sock, i, min, select, balance, connVars, appVars, drop, strays>>

(* What was written after the balance was read is lost.                    *)
WriteBalance ==
  /\ lpc = "write"
  /\ balance' = [balance EXCEPT ![min] = (count + 1) % Width]
  /\ strays' = [strays EXCEPT ![min] = (@ + count - balance[min]) % Width]
  /\ count' = 0 /\ lpc' = "register"
  /\ UNCHANGED <<open, sock, i, min, select, connVars, appVars, drop>>

UsedInfo == {info[c] : c \in Conn} \ {Null}

(* The connection gets an eventinfo, whose notify is what it was, and      *)
(* enters the selected pollset.                                            *)
Register ==
  /\ lpc = "register"
  /\ \E e \in Info \ UsedInfo : info' = [info EXCEPT ![sock] = e]
  /\ state' = [state EXCEPT ![sock] = "DISABLED"]
  /\ events' = [events EXCEPT ![sock] = "POLLIN"]
  /\ pollset' = [pollset EXCEPT ![select] = @ \cup {sock}]
  /\ strays' = [h \in Handler |->
       (strays[h] + (IF h = min THEN 1 ELSE 0) - (IF h = select THEN 1 ELSE 0)) % Width]
  /\ sock' = Null /\ i' = 0 /\ min' = 1 /\ select' = 1 /\ lpc' = "accept"
  /\ UNCHANGED <<open, count, balance, room, appVars, drop>>

Listener == Accept \/ Look \/ OpenHandler \/ ReadBalance \/ WriteBalance \/ Register

-----------------------------------------------------------------------------
(* A handler closes a connection.                                          *)

Remove(h, c) ==
  /\ pollset' = [pollset EXCEPT ![h] = @ \ {c}]
  /\ events' = [events EXCEPT ![c] = "none"]
  /\ state' = [state EXCEPT ![c] = "closed"]
  /\ room' = [room EXCEPT ![c] = FALSE]
  /\ info' = [info EXCEPT ![c] = Null]

(* Mutant: the balance is left alone.                                      *)
Close_Uncounted(h, c) == Remove(h, c) /\ UNCHANGED <<drop, strays>>

(* ... and is going to decrement the balance it has read.                  *)
Close(h, c) ==
  /\ Remove(h, c)
  /\ drop' = [drop EXCEPT ![h] = balance[h]]
  /\ UNCHANGED strays

(* FRL_PROGRESS_INTERRUPT of recv_send and send_after: no balance--.       *)
CloseInterrupted(h, c) ==
  /\ Remove(h, c)
  /\ strays' = [strays EXCEPT ![h] = (@ + 1) % Width]
  /\ UNCHANGED drop

(* What was written after the balance was read is lost.                    *)
WriteDrop(h) ==
  /\ drop[h] # Null
  /\ balance' = [balance EXCEPT ![h] = (drop[h] - 1) % Width]
  /\ drop' = [drop EXCEPT ![h] = Null]
  /\ strays' = [strays EXCEPT ![h] = (@ + drop[h] - balance[h]) % Width]
  /\ UNCHANGED <<listenerVars, connVars, appVars>>

-----------------------------------------------------------------------------
(* A handler and a connection of its pollset that is ready.                *)

Ready(h, c, event) == h <= open /\ drop[h] = Null /\ c \in pollset[h] /\ events[c] = event

(* The connection stays in the pollset, in state s with events e.          *)
Become(c, s, e, r) ==
  /\ state' = [state EXCEPT ![c] = s]
  /\ events' = [events EXCEPT ![c] = e]
  /\ room' = [room EXCEPT ![c] = r]
  /\ UNCHANGED <<pollset, info, drop, strays>>

(* recv_before interrupts a new request.                                   *)
RefuseRequest(h, c) ==
  /\ Ready(h, c, "POLLIN") /\ state[c] = "DISABLED"
  /\ Close(h, c)
  /\ UNCHANGED <<listenerVars, balance, appVars>>

(* The end of the stream, an error, or a buffer that is full already.      *)
ReceiveFails(h, c) ==
  /\ Ready(h, c, "POLLIN")
  /\ Close(h, c)
  /\ UNCHANGED <<listenerVars, balance, appVars>>

(* Mutant: goes on polling for input.                                      *)
Answered_Reading(c) == \E r \in BOOLEAN : Become(c, "SEND_START", "POLLIN", r)

(* recv_send has made the response.                                        *)
Answered(c) == Become(c, "SEND_START", "POLLOUT", TRUE)

(* Some input: recv_send asks for more of it, asks for it anew, has the    *)
(* response, refuses, or will signal when it has the response.             *)
Receive(h, c) ==
  /\ Ready(h, c, "POLLIN")
  /\ state[c] = "READ_START" => room[c]
  /\ \E r \in BOOLEAN :
       \/ Become(c, "READ_START", "POLLIN", r) /\ UNCHANGED <<complete, waiters>>
       \/ Answered(c) /\ UNCHANGED <<complete, waiters>>
       \/ CloseInterrupted(h, c) /\ UNCHANGED <<complete, waiters>>
       \/ /\ Become(c, "WAIT_RESPONSE", "POLLOUT", r)
          /\ complete' = [complete EXCEPT ![info[c]] = FALSE]
          /\ waiters' = waiters \cup {<<c, info[c]>>}
  /\ UNCHANGED <<listenerVars, balance, struck, early>>

(* notify.timeout is over.                                                 *)
Timeout(h, c) ==
  /\ Ready(h, c, "POLLOUT")
  /\ Close(h, c)
  /\ UNCHANGED <<listenerVars, balance, appVars>>

(* Mutant: does not look at notify.state.                                  *)
Responds_Always(c) == state[c] = "WAIT_RESPONSE"

(* The application has the response.                                       *)
Responds(c) == state[c] = "WAIT_RESPONSE" /\ complete[info[c]]

(* The state in which the handler goes on to send.                         *)
Sending(c) == IF Responds(c) THEN "SEND_START" ELSE state[c]
ToSend(c) == Responds(c) \/ room[c]

(* What is answered before the application has signalled.                  *)
NoteEarly(c) ==
  early' = IF Responds(c) /\ <<c, info[c]>> \in waiters THEN early \cup {c} ELSE early

(* Part of the response, or, while the response is still awaited, of what  *)
(* lies behind the request in the buffer.                                  *)
SendSome(h, c) ==
  /\ Ready(h, c, "POLLOUT") /\ ToSend(c)
  /\ Become(c, Sending(c), "POLLOUT", TRUE)
  /\ NoteEarly(c)
  /\ UNCHANGED <<listenerVars, balance, complete, waiters, struck>>

(* All of it, or EAGAIN, which counts as all of it.  While the response is *)
(* awaited nothing follows; else send_after is done with the request,      *)
(* refuses, has more to send, or is called once more.                      *)
SendAll(h, c) ==
  /\ Ready(h, c, "POLLOUT")
  /\ IF Sending(c) = "WAIT_RESPONSE"
     THEN Become(c, "WAIT_RESPONSE", "POLLOUT", FALSE)
     ELSE \/ Become(c, "DISABLED", "POLLIN", FALSE)
          \/ CloseInterrupted(h, c)
          \/ Become(c, "SEND_START", "POLLOUT", TRUE)
          \/ Become(c, "SEND_COMPLETE", "POLLOUT", FALSE)
  /\ NoteEarly(c)
  /\ UNCHANGED <<listenerVars, balance, complete, waiters, struck>>

SendFails(h, c) ==
  /\ Ready(h, c, "POLLOUT") /\ ToSend(c)
  /\ Close(h, c)
  /\ NoteEarly(c)
  /\ UNCHANGED <<listenerVars, balance, complete, waiters, struck>>

(* Neither POLLIN nor POLLOUT.                                             *)
OtherEvent(h, c) ==
  /\ h <= open /\ drop[h] = Null /\ c \in pollset[h]
  /\ Close(h, c)
  /\ UNCHANGED <<listenerVars, balance, appVars>>

Handle(h, c) ==
  \/ RefuseRequest(h, c) \/ ReceiveFails(h, c) \/ Receive(h, c)
  \/ Timeout(h, c) \/ SendSome(h, c) \/ SendAll(h, c) \/ SendFails(h, c)
  \/ OtherEvent(h, c)

(* The application signals through the pointer that recv_send gave it; the *)
(* connection may be closed by now and its eventinfo serve another one.    *)
Signal(c, e) ==
  /\ <<c, e>> \in waiters
  /\ waiters' = waiters \ {<<c, e>>}
  /\ complete' = [complete EXCEPT ![e] = TRUE]
  /\ struck' = struck \cup {d \in Conn \ {c} : info[d] = e}
  /\ UNCHANGED <<listenerVars, balance, connVars, early, drop, strays>>

-----------------------------------------------------------------------------

Next ==
  \/ Listener
  \/ \E h \in Handler : WriteDrop(h) \/ \E c \in Conn : Handle(h, c)
  \/ \E c \in Conn, e \in Info : Signal(c, e)

Spec == Init /\ [][Next]_vars

-----------------------------------------------------------------------------

Live == {c \in Conn : state[c] \notin {"new", "accepted", "closed"}}

(* Every connection that is not closed is in one pollset, that of a        *)
(* running handler, is polled for what its state needs, and has an         *)
(* eventinfo of its own: none is forgotten, and none is served twice.      *)
Registered ==
  /\ \A c \in Conn : Cardinality({h \in 1 .. open : c \in pollset[h]}) = IF c \in Live THEN 1 ELSE 0
  /\ \A h \in Handler : h > open => pollset[h] = {}
  /\ \A c \in Live : events[c] = IF state[c] \in {"DISABLED", "READ_START"} THEN "POLLIN" ELSE "POLLOUT"
  /\ \A c, d \in Live : info[c] = info[d] => c = d

(* Between two changes, the balance of a handler is the number of its      *)
(* connections, but for those it was never told of or told of in place of  *)
(* another handler, those that a callback interrupted, and changes that    *)
(* another thread wrote over.                                              *)
Unchanging(h) == drop[h] = Null /\ ~(lpc \in {"write", "register"} /\ min = h)
BalanceAccounts == \A h \in 1 .. open :
  Unchanging(h) => balance[h] = (Cardinality(pollset[h]) + strays[h]) % Width

(* A connection is answered before the application signals only if a       *)
(* signal meant for a connection that is gone has struck it.               *)
EarlyOnlyIfStruck == early \subseteq struck

=============================================================================
