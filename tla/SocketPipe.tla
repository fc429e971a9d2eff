----------------------------- MODULE SocketPipe -----------------------------
(***************************************************************************)
(* frl_socket_pipe: a sender thread takes packets from send_queue, cuts    *)
(* them into blocks and sends each over one of its connections; a receiver *)
(* thread puts them together, checks the fingerprints, hands them on and   *)
(* reports back.  Either end closes a connection that fails, and the       *)
(* sender then queues the packet again.                                    *)
(*                                                                         *)
(* What travels are units: the header of packet p is <<p, 0>>, the header  *)
(* of its k-th block <<p, -k>> and the content of that block <<p, k>>.     *)
(* Garbage is memory nobody has written.                                   *)
(***************************************************************************)
EXTENDS Integers, Sequences, FiniteSets

CONSTANTS
  Blocks,        (* Blocks[p] blocks make up packet p                      *)
  MaxSocket,     (* bound: the sockets the sender may open                 *)
  Replicate,     (* the sender keeps Replicate + 1 connections             *)
  MaxBreaks,     (* bound: connections the network resets                  *)
  MaxInterrupts, (* bound: callbacks that return FRL_PROGRESS_INTERRUPT    *)
  MaxSpurious,   (* bound: calls that report EAGAIN on a ready socket ...  *)
  SpuriousAt,    (* ... in some of "send", "recv" and "answer"             *)
  MaxBlind       (* bound: such calls when the sender reads a reply        *)

ASSUME SocketPipeAssumption ==
  /\ Blocks \in Seq(Nat \ {0})
  /\ MaxSocket \in Nat /\ Replicate \in Nat
  /\ MaxBreaks \in Nat /\ MaxInterrupts \in Nat /\ MaxSpurious \in Nat /\ MaxBlind \in Nat
  /\ SpuriousAt \subseteq {"send", "recv", "answer"}

Packet == DOMAIN Blocks
Conn == 1 .. MaxSocket

Garbage == <<0, 0>>
Whole(p) == [k \in 1 .. Blocks[p] |-> <<p, k>>]

(* The contents a header fingerprints and measures; <<>> if the unit was   *)
(* never a header.  Different contents have different fingerprints.        *)
Digest(u) ==
  IF u = Garbage \/ u[2] > 0 THEN <<>>
  ELSE IF u[2] = 0 THEN Whole(u[1]) ELSE << <<u[1], -u[2]>> >>

VARIABLES
  queue,       (* send_queue                                               *)
  submitted,   (* the packets given to send()                              *)
  snd,         (* the sender's pipestate of each socket                    *)
  rcv,         (* the receiver's pipestate of each connection              *)
  up, down,    (* the units on their way to the receiver and back          *)
  link,        (* "up", or "reset": the next call on it fails              *)
  successConn, (* local success_conn of the sender                         *)
  writeAvail,  (* local write_available of the sender                      *)
  popping,     (* the socket for which the sender waits in frl_queue_pop   *)
  received,    (* <<connection, data>> for each call of recv_after         *)
  confirmed,   (* the packets given to send_after                          *)
  faults       (* how often each kind of fault has happened                *)

appVars == <<submitted, received, confirmed>>
senderVars == <<queue, snd, successConn, writeAvail, popping>>
netVars == <<up, down, link>>
vars == <<appVars, senderVars, rcv, netVars, faults>>

NoSender(st) == [st |-> st, pkt |-> 0, blk |-> 0, off |-> 0]
NoReceiver(st) ==
  [st |-> st, hdr |-> Garbage, size |-> 0, buf |-> <<Garbage, Garbage>>, off |-> 0, data |-> <<>>]

Init ==
  /\ queue = <<>> /\ submitted = {}
  /\ snd = [c \in Conn |-> NoSender("NONE")]
  /\ rcv = [c \in Conn |-> NoReceiver("NONE")]
  /\ up = [c \in Conn |-> <<>>] /\ down = [c \in Conn |-> <<>>]
  /\ link = [c \in Conn |-> "up"]
  /\ successConn = 0 /\ writeAvail = 0 /\ popping = 0
  /\ received = {} /\ confirmed = {}
  /\ faults = [break |-> 0, interrupt |-> 0, spurious |-> 0, blind |-> 0]

(* One more fault of a kind, after those that f counts.                    *)
Fault(f, kind, max) == f[kind] < max /\ faults' = [f EXCEPT ![kind] = @ + 1]
Interrupt(f) == Fault(f, "interrupt", MaxInterrupts)
Spurious(where) == where \in SpuriousAt /\ Fault(faults, "spurious", MaxSpurious)

Minimum(a, b) == IF a < b THEN a ELSE b
Unused == {c \in Conn : snd[c].st = "NONE"}
Open == {c \in Conn : snd[c].st \notin {"NONE", "CLOSED"}}

(* What is under way on a connection that is reset is gone.                *)
Reset(c) ==
  /\ link' = [link EXCEPT ![c] = "reset"]
  /\ up' = [up EXCEPT ![c] = <<>>]
  /\ down' = [down EXCEPT ![c] = <<>>]

-----------------------------------------------------------------------------
(* The sender.                                                             *)

(* send() of the application.                                              *)
Submit(p) ==
  /\ p \notin submitted
  /\ submitted' = submitted \cup {p}
  /\ queue' = Append(queue, p)
  /\ UNCHANGED <<received, confirmed, snd, successConn, writeAvail, popping, rcv, netVars, faults>>

(* The sender opens the connections it misses; those it cannot establish   *)
(* it tries again the next time round.                                     *)
Connect ==
  /\ popping = 0
  /\ \E n \in 1 .. Replicate + 1 - successConn :
       LET first == CHOOSE c \in Unused : \A d \in Unused : c <= d
           new == first .. first + n - 1
       IN  /\ n <= Cardinality(Unused)
           /\ snd' = [c \in Conn |-> IF c \in new THEN NoSender("DISABLED") ELSE snd[c]]
           /\ successConn' = successConn + n
           /\ writeAvail' = writeAvail + n
  /\ UNCHANGED <<appVars, queue, popping, rcv, netVars, faults>>

(* An idle connection while as many are thought to be idle as there are:   *)
(* the sender waits for a packet.  Otherwise it only tries to get one.     *)
WaitForPacket(c) ==
  /\ popping = 0 /\ snd[c].st = "DISABLED"
  /\ queue = <<>> /\ writeAvail >= successConn
  /\ popping' = c
  /\ UNCHANGED <<appVars, queue, snd, successConn, writeAvail, rcv, netVars, faults>>

(* success_conn when a connection has been closed.                         *)
Closed(n) == IF n > 0 THEN n - 1 ELSE n

(* Mutant: the packet is gone with its connection.                         *)
Requeue_Lost(c, p, q) ==
  /\ snd' = [snd EXCEPT ![c] = NoSender("CLOSED")]
  /\ queue' = q
  /\ successConn' = Closed(successConn)

(* The sender queues p again, behind q, and closes the connection.         *)
Requeue(c, p, q) ==
  /\ snd' = [snd EXCEPT ![c] = NoSender("CLOSED")]
  /\ queue' = Append(q, p)
  /\ successConn' = Closed(successConn)

Message(w) ==
  IF w.st = "SEND_HEADER" THEN << <<w.pkt, 0>> >> ELSE << <<w.pkt, -w.blk>>, <<w.pkt, w.blk>> >>

(* The state after a whole message: the next block, or wait for the reply. *)
AfterMessage(w) ==
  IF w.st = "SEND_HEADER" THEN [w EXCEPT !.st = "SEND_BLOCK", !.blk = 1, !.off = 0]
  ELSE IF w.blk < Blocks[w.pkt] THEN [w EXCEPT !.blk = @ + 1, !.off = 0]
  ELSE [w EXCEPT !.st = "READ_HEADER", !.off = 0]

(* The second half of the POLLOUT handler: it sends what it can of the     *)
(* message of w.  A connection the receiver has closed takes one more      *)
(* message before it fails.                                                *)
Transmit(c, w, q) ==
  LET msg == Message(w)
  IN  \/ /\ link[c] = "up"
         /\ \E n \in w.off + 1 .. Len(msg) :
              /\ snd' = [snd EXCEPT ![c] = IF n = Len(msg) THEN AfterMessage(w) ELSE [w EXCEPT !.off = n]]
              /\ IF rcv[c].st = "CLOSED"
                 THEN Reset(c)
                 ELSE up' = [up EXCEPT ![c] = @ \o SubSeq(msg, w.off + 1, n)] /\ UNCHANGED <<down, link>>
         /\ queue' = q
         /\ UNCHANGED <<successConn, faults>>
      \/ /\ link[c] = "up" /\ Spurious("send")
         /\ snd' = [snd EXCEPT ![c] = AfterMessage(w)]
         /\ queue' = q
         /\ UNCHANGED <<successConn, netVars>>
      \/ /\ link[c] = "reset"
         /\ Requeue(c, w.pkt, q)
         /\ UNCHANGED <<netVars, faults>>

(* An idle connection gets the next packet and its header is sent.         *)
SendFirst(c) ==
  /\ popping \in {0, c} /\ snd[c].st = "DISABLED" /\ queue # <<>>
  /\ popping' = 0
  /\ writeAvail' = IF writeAvail > 0 THEN writeAvail - 1 ELSE 0
  /\ Transmit(c, [st |-> "SEND_HEADER", pkt |-> Head(queue), blk |-> 0, off |-> 0], Tail(queue))
  /\ UNCHANGED <<appVars, rcv>>

(* The rest of a header, or a block.                                       *)
SendMore(c) ==
  /\ popping = 0 /\ snd[c].st \in {"SEND_HEADER", "SEND_BLOCK"}
  /\ Transmit(c, snd[c], queue)
  /\ UNCHANGED <<appVars, writeAvail, popping, rcv>>

(* The sender compares the fingerprint in the reply u with its own.        *)
Respond(c, u) ==
  LET p == snd[c].pkt
  IN  IF Digest(u) = Whole(p)
      THEN /\ confirmed' = confirmed \cup {p}
           /\ \/ /\ snd' = [snd EXCEPT ![c] = NoSender("DISABLED")]
                 /\ UNCHANGED <<successConn, faults>>
              \/ /\ Interrupt(faults)
                 /\ snd' = [snd EXCEPT ![c] = NoSender("CLOSED")]
                 /\ successConn' = Closed(successConn)
           /\ UNCHANGED queue
      ELSE Requeue(c, p, queue) /\ UNCHANGED <<confirmed, faults>>

(* The reply has come.                                                     *)
ReadReply(c) ==
  /\ popping = 0 /\ snd[c].st = "READ_HEADER" /\ link[c] = "up" /\ down[c] # <<>>
  /\ Respond(c, Head(down[c]))
  /\ down' = [down EXCEPT ![c] = Tail(@)]
  /\ UNCHANGED <<submitted, received, writeAvail, popping, rcv, up, link>>

(* EAGAIN counts as a whole reply; the buffer still holds the header that  *)
(* was sent.                                                               *)
ReadNoReply(c) ==
  /\ popping = 0 /\ snd[c].st = "READ_HEADER" /\ link[c] = "up" /\ down[c] = <<>>
  /\ Fault(faults, "blind", MaxBlind)
  /\ snd' = [snd EXCEPT ![c] = NoSender("DISABLED")]
  /\ confirmed' = confirmed \cup {snd[c].pkt}
  /\ UNCHANGED <<submitted, received, queue, successConn, writeAvail, popping, rcv, netVars>>

(* Mutant: the end of the stream counts as a reply.                        *)
ReplyFails_Confirms(c) ==
  /\ popping = 0 /\ snd[c].st = "READ_HEADER"
  /\ link[c] = "reset" \/ (rcv[c].st = "CLOSED" /\ down[c] = <<>>)
  /\ snd' = [snd EXCEPT ![c] = NoSender("DISABLED")]
  /\ confirmed' = confirmed \cup {snd[c].pkt}
  /\ UNCHANGED <<submitted, received, queue, successConn, writeAvail, popping, rcv, netVars, faults>>

(* The receiver has closed the connection, or it is broken.                *)
ReplyFails(c) ==
  /\ popping = 0 /\ snd[c].st = "READ_HEADER"
  /\ link[c] = "reset" \/ (rcv[c].st = "CLOSED" /\ down[c] = <<>>)
  /\ Requeue(c, snd[c].pkt, queue)
  /\ UNCHANGED <<appVars, writeAvail, popping, rcv, netVars, faults>>

(* An error event with neither POLLIN nor POLLOUT: the sender connects a   *)
(* new socket and takes it whether or not that succeeds.                   *)
Reconnect(c) ==
  /\ popping = 0 /\ c \in Open /\ link[c] = "reset"
  /\ queue' = IF snd[c].st = "DISABLED" THEN queue ELSE Append(queue, snd[c].pkt)
  /\ \E d \in Unused :
       /\ \A e \in Unused : d <= e
       /\ snd' = [snd EXCEPT ![c] = NoSender("CLOSED"), ![d] = NoSender("DISABLED")]
       /\ \E l \in {"up", "reset"} : link' = [link EXCEPT ![d] = l]
  /\ writeAvail' = writeAvail + 1
  /\ UNCHANGED <<appVars, successConn, popping, rcv, up, down, faults>>

-----------------------------------------------------------------------------
(* The receiver.                                                           *)

(* A connection of the sender is accepted.                                 *)
Accept(c) ==
  /\ snd[c].st # "NONE" /\ rcv[c].st = "NONE" /\ link[c] = "up"
  /\ rcv' = [rcv EXCEPT ![c] = NoReceiver("READ_HEADER")]
  /\ UNCHANGED <<appVars, senderVars, netVars, faults>>

(* Closing a connection with unread data resets it.                        *)
CloseReceiver(c, rest) ==
  /\ rcv' = [rcv EXCEPT ![c] = NoReceiver("CLOSED")]
  /\ IF rest # <<>> THEN Reset(c) ELSE up' = [up EXCEPT ![c] = <<>>] /\ UNCHANGED <<down, link>>

(* The size in a header nobody has written can be anything (bounded here). *)
Sizes(u) == IF Digest(u) = <<>> THEN 1 .. 2 ELSE {Len(Digest(u))}

(* A header is complete: recv_before may refuse the packet.  f counts the  *)
(* faults so far, here and below.                                          *)
HeaderRead(c, r, rest, f) ==
  \/ /\ \E n \in Sizes(r.hdr) :
          rcv' = [rcv EXCEPT ![c] = [r EXCEPT !.st = "READ_BLOCK", !.size = n, !.off = 0]]
     /\ up' = [up EXCEPT ![c] = rest]
     /\ faults' = f
     /\ UNCHANGED <<received, down, link>>
  \/ Interrupt(f) /\ CloseReceiver(c, rest) /\ UNCHANGED received

(* recv_after gets the data; unless it refuses them a reply is due.        *)
HandOver(c, r, rest, f) ==
  /\ received' = received \cup {<<c, r.data>>}
  /\ \/ /\ rcv' = [rcv EXCEPT ![c] = [NoReceiver("SEND_HEADER") EXCEPT !.hdr = r.hdr]]
        /\ up' = [up EXCEPT ![c] = rest]
        /\ faults' = f
        /\ UNCHANGED <<down, link>>
     \/ Interrupt(f) /\ CloseReceiver(c, rest)

(* Mutant: the fingerprint of the whole is not compared.                   *)
WholeRead_NoCheck(c, r, rest, f) == HandOver(c, r, rest, f)

(* The last block is complete: the fingerprint of the whole.               *)
WholeRead(c, r, rest, f) ==
  IF r.data = Digest(r.hdr)
  THEN HandOver(c, r, rest, f)
  ELSE CloseReceiver(c, rest) /\ faults' = f /\ UNCHANGED received

(* A block is complete: its fingerprint, then the next block or the end.   *)
BlockRead(c, r, rest, f) ==
  LET more == [r EXCEPT !.data = Append(@, r.buf[2]), !.off = 0]
  IN  IF Digest(r.buf[1]) # <<r.buf[2]>>
      THEN CloseReceiver(c, rest) /\ faults' = f /\ UNCHANGED received
      ELSE IF Len(more.data) < r.size
      THEN /\ rcv' = [rcv EXCEPT ![c] = more]
           /\ up' = [up EXCEPT ![c] = rest]
           /\ faults' = f
           /\ UNCHANGED <<received, down, link>>
      ELSE WholeRead(c, more, rest, f)

Reading(c) == rcv[c].st \in {"READ_HEADER", "READ_BLOCK"}
MessageRead(c, r, rest, f) ==
  IF r.st = "READ_HEADER" THEN HeaderRead(c, r, rest, f) ELSE BlockRead(c, r, rest, f)

(* The receiver reads what has come of the message it waits for.           *)
Receive(c) ==
  /\ Reading(c) /\ link[c] = "up" /\ up[c] # <<>>
  /\ LET r == rcv[c]
         whole == IF r.st = "READ_HEADER" THEN 1 ELSE 2
         n == Minimum(whole - r.off, Len(up[c]))
         rest == SubSeq(up[c], n + 1, Len(up[c]))
         filled == IF r.st = "READ_HEADER" THEN [r EXCEPT !.hdr = up[c][1]]
                   ELSE [r EXCEPT !.buf = [i \in 1 .. 2 |->
                           IF i \in r.off + 1 .. r.off + n THEN up[c][i - r.off] ELSE @[i]]]
     IN  IF r.off + n = whole
         THEN MessageRead(c, filled, rest, faults)
         ELSE /\ rcv' = [rcv EXCEPT ![c] = [filled EXCEPT !.off = @ + n]]
              /\ up' = [up EXCEPT ![c] = rest]
              /\ UNCHANGED <<received, down, link, faults>>
  /\ UNCHANGED <<submitted, confirmed, senderVars>>

(* EAGAIN counts as a whole message: the rest is what the memory held.     *)
ReceiveNothing(c) ==
  /\ Reading(c) /\ link[c] = "up" /\ up[c] = <<>>
  /\ "recv" \in SpuriousAt /\ faults.spurious < MaxSpurious
  /\ MessageRead(c, rcv[c], up[c], [faults EXCEPT !.spurious = @ + 1])
  /\ UNCHANGED <<submitted, confirmed, senderVars>>

(* End of file, an error, or an error event: the receiver gives up.        *)
ReceiverFails(c) ==
  /\ \/ Reading(c) /\ snd[c].st = "CLOSED" /\ up[c] = <<>>
     \/ rcv[c].st \notin {"NONE", "CLOSED"} /\ link[c] = "reset"
  /\ rcv' = [rcv EXCEPT ![c] = NoReceiver("CLOSED")]
  /\ UNCHANGED <<appVars, senderVars, netVars, faults>>

(* The header goes back as the reply, and the connection is put into a     *)
(* state in which its input is polled; EAGAIN counts as sent.              *)
Answer(c) ==
  /\ rcv[c].st = "SEND_HEADER" /\ link[c] = "up"
  /\ \/ down' = [down EXCEPT ![c] = Append(@, rcv[c].hdr)] /\ UNCHANGED faults
     \/ Spurious("answer") /\ UNCHANGED down
  /\ rcv' = [rcv EXCEPT ![c] = NoReceiver("DISABLED")]
  /\ UNCHANGED <<appVars, senderVars, up, link>>

(* Input on such a connection: it reads 0 bytes, and DISABLED | 1 is       *)
(* WAIT_RESPONSE, for which the handler does nothing, now or later.        *)
Ignore(c) ==
  /\ rcv[c].st = "DISABLED"
  /\ up[c] # <<>> \/ snd[c].st = "CLOSED" \/ link[c] = "reset"
  /\ rcv' = [rcv EXCEPT ![c].st = "WAIT_RESPONSE"]
  /\ UNCHANGED <<appVars, senderVars, netVars, faults>>

-----------------------------------------------------------------------------

(* The network gives up a connection.                                      *)
Break(c) ==
  /\ c \in Open /\ link[c] = "up"
  /\ Fault(faults, "break", MaxBreaks)
  /\ Reset(c)
  /\ UNCHANGED <<appVars, senderVars, rcv>>

SenderStep(c) ==
  \/ WaitForPacket(c) \/ SendFirst(c) \/ SendMore(c)
  \/ ReadReply(c) \/ ReadNoReply(c) \/ ReplyFails(c) \/ Reconnect(c)
ReceiverStep(c) ==
  \/ Accept(c) \/ Receive(c) \/ ReceiveNothing(c) \/ ReceiverFails(c)
  \/ Answer(c) \/ Ignore(c)

Next ==
  \/ \E p \in Packet : Submit(p)
  \/ Connect
  \/ \E c \in Conn : SenderStep(c) \/ ReceiverStep(c) \/ Break(c)

Spec == Init /\ [][Next]_vars

-----------------------------------------------------------------------------

Carriers(p) == {c \in Open : snd[c].st # "DISABLED" /\ snd[c].pkt = p}
Queued(p) == {i \in DOMAIN queue : queue[i] = p}

(* Every packet given to send() is in one place: in the queue, on one      *)
(* connection, or confirmed.  No failure loses it, and none makes the      *)
(* sender send it twice at the same time.                                  *)
Accounted == \A p \in Packet :
  Cardinality(Queued(p)) + Cardinality(Carriers(p)) + (IF p \in confirmed THEN 1 ELSE 0)
    = IF p \in submitted THEN 1 ELSE 0

(* recv_after gets packets as they were sent, whatever part of a message   *)
(* was lost or taken for complete too early.                               *)
Intact == \A x \in received : \E p \in submitted : x[2] = Whole(p)

Arrived(p) == \E c \in Conn : <<c, Whole(p)>> \in received

(* send_after is called for packets that recv_after has seen, except for   *)
(* one packet each time the sender takes EAGAIN for a reply.               *)
ConfirmedArrived == Cardinality({p \in confirmed : ~Arrived(p)}) <= faults.blind

=============================================================================
