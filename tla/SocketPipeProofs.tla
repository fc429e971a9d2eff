--------------------------- MODULE SocketPipeProofs ---------------------------
(***************************************************************************)
(* That SocketPipe loses no packet and never has one under way twice, that *)
(* recv_after gets packets as they were sent, and that a packet reported   *)
(* as sent has arrived unless EAGAIN was taken for its reply, for every    *)
(* number and size of packets, every number of connections and every       *)
(* number of faults.                                                       *)
(*                                                                         *)
(* The inductive invariant IInv says where each packet is (PacketInv) and, *)
(* of each connection, that what it has brought and will bring belongs to  *)
(* packets that were submitted, with no header of a block twice            *)
(* (IntakeInv): a block cannot pass for a packet.                          *)
(***************************************************************************)
EXTENDS SocketPipe, FiniteSetTheorems, TLAPS

USE SocketPipeAssumption

Unit == Packet \X Int
Memory == Unit \cup {Garbage}

SenderState ==
  [st : {"NONE", "DISABLED", "CLOSED", "SEND_HEADER", "SEND_BLOCK", "READ_HEADER"},
   pkt : Nat, blk : Nat, off : 0 .. 1]
ReceiverState ==
  [st : {"NONE", "READ_HEADER", "READ_BLOCK", "SEND_HEADER", "DISABLED", "WAIT_RESPONSE",
         "CLOSED"},
   hdr : Memory, size : Nat, buf : [1 .. 2 -> Memory], off : 0 .. 1, data : Seq(Memory)]
FaultCount == [break : Nat, interrupt : Nat, spurious : Nat, blind : Nat]

SenderTypes ==
  /\ queue \in Seq(Packet) /\ submitted \subseteq Packet /\ confirmed \subseteq Packet
  /\ snd \in [Conn -> SenderState]
NetTypes ==
  /\ rcv \in [Conn -> ReceiverState]
  /\ up \in [Conn -> Seq(Unit)] /\ down \in [Conn -> Seq(Memory)]
  /\ link \in [Conn -> {"up", "reset"}]
  /\ faults \in FaultCount

(* Sockets are taken in order.                                             *)
Opened == \E k \in 0 .. MaxSocket : \A c \in Conn : snd[c].st = "NONE" <=> c > k

Has(q, p) == \E i \in 1 .. Len(q) : q[i] = p
Distinct(q) == \A i, j \in 1 .. Len(q) : q[i] = q[j] => i = j
Active(c) == snd[c].st \in {"SEND_HEADER", "SEND_BLOCK", "READ_HEADER"}
Carries(c, p) == Active(c) /\ snd[c].pkt = p

(* Where a packet is: in the queue, on one connection, or confirmed.       *)
PacketInv ==
  /\ Distinct(queue)
  /\ \A p \in Packet : Has(queue, p) => p \in submitted \ confirmed
  /\ \A c \in Conn : Active(c) => snd[c].pkt \in submitted \ confirmed /\ ~Has(queue, snd[c].pkt)
  /\ \A c, d \in Conn : Active(c) /\ Active(d) /\ snd[c].pkt = snd[d].pkt => c = d
  /\ confirmed \subseteq submitted
  /\ \A p \in submitted \ confirmed : Has(queue, p) \/ \E c \in Conn : Carries(c, p)

(* The block that is being sent is one of the packet.                      *)
BlockInv == \A c \in Conn : snd[c].st = "SEND_BLOCK" => snd[c].blk \in 1 .. Blocks[snd[c].pkt]

(* The sender has passed the header u of a block on connection c and will  *)
(* not send it there again.                                                *)
Beyond(w, k) == w.st = "READ_HEADER" \/ (w.st = "SEND_BLOCK" /\ k < w.blk + w.off)
Past(c, u) ==
  \/ snd[c].st = "CLOSED" \/ u[1] \in confirmed
  \/ Carries(c, u[1]) /\ Beyond(snd[c], -u[2])

(* What receiver r has heard and s will bring: of packets that were        *)
(* submitted, and no header of a block twice.                              *)
Heard(r, s) == {s[i] : i \in 1 .. Len(s)} \cup {r.hdr, r.buf[1]}
Once(r, s) ==
  /\ \A i \in 1 .. Len(s) : s[i][2] < 0 => s[i] # r.hdr /\ s[i] # r.buf[1]
  /\ \A i, j \in 1 .. Len(s) : s[i] = s[j] /\ s[i][2] < 0 => i = j
  /\ r.hdr[2] < 0 => r.hdr # r.buf[1]
  /\ r.st = "READ_HEADER" => r.buf[1] = Garbage /\ r.off = 0
Known(c, u) == u[1] \in submitted /\ (u[2] < 0 => Past(c, u))
Intake(c, r, s) == Once(r, s) /\ \A u \in Heard(r, s) \ {Garbage} : Known(c, u)
IntakeInv == \A c \in Conn : Intake(c, rcv[c], up[c])

(* A reply is for data that were handed over.                              *)
ReplyInv == \A c \in Conn :
  /\ rcv[c].st = "SEND_HEADER" => <<c, Digest(rcv[c].hdr)>> \in received
  /\ \A i \in 1 .. Len(down[c]) : <<c, Digest(down[c][i])>> \in received

PlaceInv == Opened /\ PacketInv /\ BlockInv
IInv == SenderTypes /\ NetTypes /\ PlaceInv /\ IntakeInv /\ ReplyInv /\ Intact

-----------------------------------------------------------------------------
(* Packets, units and records.                                             *)

LEMMA PacketIs ==
  /\ Packet = 1 .. Len(Blocks) /\ Len(Blocks) \in Nat
  /\ \A p \in Packet : Blocks[p] \in Nat \ {0}
BY DEF Packet

LEMMA UnitIs ==
  /\ Garbage \notin Unit
  /\ \A u \in Memory : u[2] \in Int
  /\ \A u \in Unit : u[1] \in Packet /\ u = <<u[1], u[2]>>
  /\ \A p \in Packet, k \in Int : <<p, k>> \in Unit /\ <<p, k>>[1] = p /\ <<p, k>>[2] = k
BY PacketIs DEF Unit, Memory, Garbage

LEMMA DigestIs ==
  /\ Digest(Garbage) = <<>>
  /\ \A u \in Unit : /\ u[2] > 0 => Digest(u) = <<>>
                     /\ u[2] = 0 => Digest(u) = Whole(u[1])
                     /\ u[2] < 0 => Digest(u) = << <<u[1], -u[2]>> >>
<1>1. Digest(Garbage) = <<>>
  BY DEF Digest
<1> SUFFICES ASSUME NEW u \in Unit
             PROVE  /\ u[2] > 0 => Digest(u) = <<>>
                    /\ u[2] = 0 => Digest(u) = Whole(u[1])
                    /\ u[2] < 0 => Digest(u) = << <<u[1], -u[2]>> >>
  BY <1>1
<1>2. u # Garbage /\ u[2] \in Int
  BY UnitIs DEF Memory
<1>3. Digest(u) = IF u[2] > 0 THEN <<>>
                  ELSE IF u[2] = 0 THEN Whole(u[1]) ELSE << <<u[1], -u[2]>> >>
  BY <1>2, Zenon DEF Digest
<1> QED BY <1>2, <1>3

LEMMA WholeLength == \A p \in Packet : Len(Whole(p)) = Blocks[p]
BY PacketIs DEF Whole

LEMMA SizeIs == \A u \in Memory : Sizes(u) \subseteq Nat
<1> SUFFICES ASSUME NEW u \in Memory PROVE Sizes(u) \subseteq Nat
  OBVIOUS
<1>1. CASE Digest(u) = <<>>
  BY <1>1 DEF Sizes
<1>2. CASE Digest(u) # <<>>
  <2>1. u \in Unit /\ u[2] \in Int /\ ~(u[2] > 0)
    BY <1>2, DigestIs, UnitIs DEF Memory
  <2>2. CASE u[2] = 0
    BY <1>2, <2>1, <2>2, DigestIs, WholeLength, PacketIs, UnitIs DEF Sizes
  <2>3. CASE u[2] < 0
    BY <1>2, <2>1, <2>3, DigestIs DEF Sizes
  <2> QED BY <2>1, <2>2, <2>3
<1> QED BY <1>1, <1>2

LEMMA NoSenderIs ==
  \A st \in {"NONE", "DISABLED", "CLOSED"} :
    NoSender(st) \in SenderState /\ NoSender(st).st = st
BY DEF NoSender, SenderState

LEMMA NoReceiverIs ==
  \A st \in {"NONE", "READ_HEADER", "SEND_HEADER", "DISABLED", "CLOSED"} :
    /\ NoReceiver(st) \in ReceiverState
    /\ NoReceiver(st).st = st /\ NoReceiver(st).hdr = Garbage
    /\ NoReceiver(st).buf[1] = Garbage /\ NoReceiver(st).off = 0
<1>1. <<Garbage, Garbage>> \in [1 .. 2 -> Memory] /\ <<>> \in Seq(Memory)
  BY DEF Memory
<1>2. Garbage \in Memory
  BY DEF Memory
<1> QED BY <1>1, <1>2 DEF NoReceiver, ReceiverState

(* A piece of a sequence.                                                  *)
LEMMA Slice ==
  ASSUME NEW m \in Seq(Unit), NEW a \in Nat, NEW n \in Nat, a < n, n <= Len(m)
  PROVE  /\ SubSeq(m, a + 1, n) \in Seq(Unit) /\ Len(SubSeq(m, a + 1, n)) = n - a
         /\ \A i \in 1 .. n - a : SubSeq(m, a + 1, n)[i] = m[i + a] /\ i + a \in 1 .. n
<1> DEFINE t == SubSeq(m, a + 1, n)
<1>1. Len(m) \in Nat /\ \A i \in 1 .. Len(m) : m[i] \in Unit
  OBVIOUS
<1>2. t = [i \in 1 .. n - a |-> m[i + a]]
  BY <1>1
<1>3. \A i \in 1 .. n - a : i + a \in 1 .. n /\ i + a \in 1 .. Len(m)
  BY <1>1
<1>4. t \in Seq(Unit) /\ Len(t) = n - a
  BY <1>1, <1>2, <1>3
<1> QED BY <1>2, <1>3, <1>4

(* A fault of another kind leaves faults.blind alone.                      *)
LEMMA FaultIs ==
  ASSUME NEW f \in FaultCount, NEW kind \in {"break", "interrupt", "spurious"}
  PROVE  /\ [f EXCEPT ![kind] = @ + 1] \in FaultCount
         /\ [f EXCEPT ![kind] = @ + 1].blind = f.blind
         /\ \A max : Fault(f, kind, max) => faults' \in FaultCount /\ faults'.blind = f.blind
<1>1. CASE kind = "break"
  BY <1>1 DEF FaultCount, Fault
<1>2. CASE kind = "interrupt"
  BY <1>2 DEF FaultCount, Fault
<1>3. CASE kind = "spurious"
  BY <1>3 DEF FaultCount, Fault
<1> QED BY <1>1, <1>2, <1>3

(* The queue at its two ends.                                              *)
LEMMA AppendHas ==
  ASSUME NEW q \in Seq(Packet), NEW p \in Packet, Distinct(q), ~Has(q, p)
  PROVE  /\ Append(q, p) \in Seq(Packet) /\ Distinct(Append(q, p))
         /\ \A x : Has(Append(q, p), x) <=> Has(q, x) \/ x = p
<1>1. /\ Append(q, p) \in Seq(Packet) /\ Len(Append(q, p)) = Len(q) + 1 /\ Len(q) \in Nat
      /\ \A i \in 1 .. Len(q) : Append(q, p)[i] = q[i]
      /\ Append(q, p)[Len(q) + 1] = p
  OBVIOUS
<1>2. Distinct(Append(q, p))
  BY <1>1 DEF Distinct, Has
<1>3. ASSUME NEW x PROVE Has(Append(q, p), x) <=> Has(q, x) \/ x = p
  BY <1>1 DEF Has
<1> QED BY <1>1, <1>2, <1>3

LEMMA TailHas ==
  ASSUME NEW q \in Seq(Packet), q # <<>>, Distinct(q)
  PROVE  /\ Tail(q) \in Seq(Packet) /\ Distinct(Tail(q))
         /\ Head(q) \in Packet /\ Has(q, Head(q))
         /\ \A x : Has(Tail(q), x) <=> Has(q, x) /\ x # Head(q)
<1>1. /\ Len(q) \in Nat /\ Len(q) >= 1 /\ Len(Tail(q)) = Len(q) - 1
      /\ Tail(q) \in Seq(Packet) /\ Head(q) = q[1] /\ Head(q) \in Packet
      /\ \A i \in 1 .. Len(q) - 1 : Tail(q)[i] = q[i + 1]
  OBVIOUS
<1>2. Distinct(Tail(q))
  BY <1>1 DEF Distinct
<1>3. Has(q, Head(q))
  BY <1>1 DEF Has
<1>4. ASSUME NEW x PROVE Has(Tail(q), x) <=> Has(q, x) /\ x # Head(q)
  <2>1. ASSUME NEW i \in 1 .. Len(q), q[i] = x, x # Head(q) PROVE Has(Tail(q), x)
    <3>1. i - 1 \in 1 .. Len(q) - 1
      BY <1>1, <2>1
    <3>2. Tail(q)[i - 1] = q[i]
      BY <1>1, <3>1
    <3> QED BY <1>1, <2>1, <3>1, <3>2 DEF Has
  <2>2. ASSUME NEW i \in 1 .. Len(Tail(q)), Tail(q)[i] = x PROVE Has(q, x) /\ x # Head(q)
    <3>1. i + 1 \in 1 .. Len(q) /\ 1 \in 1 .. Len(q) /\ q[i + 1] = x
      BY <1>1, <2>2
    <3> QED BY <1>1, <3>1 DEF Has, Distinct
  <2> QED BY <2>1, <2>2 DEF Has
<1> QED BY <1>1, <1>2, <1>3, <1>4

-----------------------------------------------------------------------------
(* The sender's steps move a packet from one place to another.             *)

Working == {"SEND_HEADER", "SEND_BLOCK", "READ_HEADER"}

(* What becomes of the connections when the state of c becomes w.          *)
LEMMA SetIs ==
  ASSUME SenderTypes, NEW c \in Conn, NEW w \in SenderState, snd' = [snd EXCEPT ![c] = w]
  PROVE  /\ snd' \in [Conn -> SenderState] /\ snd'[c] = w
         /\ Active(c)' <=> w.st \in Working
         /\ \A d \in Conn \ {c} : snd'[d] = snd[d] /\ (Active(d)' <=> Active(d))
         /\ \A d \in Conn : \A p : Carries(d, p)' <=> Active(d)' /\ snd'[d].pkt = p
BY DEF SenderTypes, Active, Carries, Working

(* The connections of D neither get nor lose a packet.                     *)
Steady(D) ==
  \A d \in D : (Active(d)' <=> Active(d)) /\ (Active(d) => snd'[d].pkt = snd[d].pkt)

(* Each packet stays where it is.                                          *)
LEMMA StayPut ==
  ASSUME PacketInv, Steady(Conn), UNCHANGED <<queue, submitted, confirmed>>
  PROVE  PacketInv'
<1>1. \A d \in Conn : \A p : Carries(d, p)' <=> Carries(d, p)
  BY DEF Carries, Steady
<1> QED BY <1>1 DEF PacketInv, Steady

(* The first packet of the queue goes onto a connection.                   *)
LEMMA TakePacket ==
  ASSUME SenderTypes, PacketInv, NEW c \in Conn, NEW w \in SenderState, ~Active(c),
         queue # <<>>, w.st \in Working, w.pkt = Head(queue), snd' = [snd EXCEPT ![c] = w],
         queue' = Tail(queue), UNCHANGED <<submitted, confirmed>>
  PROVE  PacketInv'
<1>1. /\ Active(c)' /\ snd'[c].pkt = Head(queue)
      /\ \A d \in Conn \ {c} : (Active(d)' <=> Active(d)) /\ snd'[d].pkt = snd[d].pkt
      /\ \A d \in Conn : \A p : Carries(d, p)' <=> Active(d)' /\ snd'[d].pkt = p
  BY SetIs
<1>2. /\ queue' \in Seq(Packet) /\ Distinct(queue)' /\ Head(queue) \in Packet
      /\ Has(queue, Head(queue))
      /\ \A x : Has(queue', x) <=> Has(queue, x) /\ x # Head(queue)
  BY TailHas DEF SenderTypes, PacketInv
<1>3. Head(queue) \in submitted \ confirmed
  BY <1>2 DEF PacketInv
<1>4. ASSUME NEW d \in Conn, Active(d)'
      PROVE  snd'[d].pkt \in submitted \ confirmed /\ ~Has(queue', snd'[d].pkt)
  BY <1>1, <1>2, <1>3, <1>4 DEF PacketInv
<1>5. ASSUME NEW d \in Conn, NEW e \in Conn, Active(d)', Active(e)', snd'[d].pkt = snd'[e].pkt
      PROVE  d = e
  BY <1>1, <1>2, <1>5 DEF PacketInv
<1>6. ASSUME NEW p \in submitted \ confirmed
      PROVE  Has(queue', p) \/ \E d \in Conn : Carries(d, p)'
  <2>1. CASE p = Head(queue)
    BY <1>1, <2>1
  <2>2. CASE Has(queue, p) /\ p # Head(queue)
    BY <1>2, <2>2
  <2>3. ASSUME NEW d \in Conn, Carries(d, p) PROVE Carries(d, p)'
    BY <1>1, <2>3 DEF Carries
  <2> QED BY <1>6, <2>1, <2>2, <2>3 DEF PacketInv
<1> QED BY <1>2, <1>4, <1>5, <1>6 DEF PacketInv

(* A connection fails and its packet is queued again.                      *)
LEMMA PutBack ==
  ASSUME SenderTypes, PacketInv, NEW c \in Conn, Active(c), ~Active(c)', Steady(Conn \ {c}),
         queue' = Append(queue, snd[c].pkt), UNCHANGED <<submitted, confirmed>>
  PROVE  PacketInv' /\ queue' \in Seq(Packet)
<1>1. /\ ~Active(c)'
      /\ \A d \in Conn \ {c} : (Active(d)' <=> Active(d)) /\ (Active(d) => snd'[d].pkt = snd[d].pkt)
      /\ \A d \in Conn : \A p : Carries(d, p)' <=> Active(d)' /\ snd'[d].pkt = p
  BY DEF Steady, Carries
<1>2. snd[c].pkt \in submitted \ confirmed /\ snd[c].pkt \in Packet /\ ~Has(queue, snd[c].pkt)
  BY DEF PacketInv, SenderTypes
<1>3. /\ queue' \in Seq(Packet) /\ Distinct(queue)'
      /\ \A x : Has(queue', x) <=> Has(queue, x) \/ x = snd[c].pkt
  BY <1>2, AppendHas DEF SenderTypes, PacketInv
<1>4. ASSUME NEW d \in Conn, Active(d)'
      PROVE  snd'[d].pkt \in submitted \ confirmed /\ ~Has(queue', snd'[d].pkt)
  <2>1. d # c /\ Active(d) /\ snd'[d].pkt = snd[d].pkt
    BY <1>1, <1>4
  <2>2. snd[d].pkt # snd[c].pkt /\ snd[d].pkt \in submitted \ confirmed /\ ~Has(queue, snd[d].pkt)
    BY <2>1 DEF PacketInv
  <2> QED BY <1>3, <2>1, <2>2
<1>5. ASSUME NEW d \in Conn, NEW e \in Conn, Active(d)', Active(e)', snd'[d].pkt = snd'[e].pkt
      PROVE  d = e
  BY <1>1, <1>5 DEF PacketInv
<1>6. ASSUME NEW p \in submitted \ confirmed
      PROVE  Has(queue', p) \/ \E d \in Conn : Carries(d, p)'
  <2>1. ASSUME NEW d \in Conn, Carries(d, p), d # c PROVE Carries(d, p)'
    BY <1>1, <2>1 DEF Carries
  <2>2. Carries(c, p) => Has(queue', p)
    BY <1>3 DEF Carries
  <2>3. Has(queue, p) => Has(queue', p)
    BY <1>3
  <2> QED BY <1>6, <2>1, <2>2, <2>3 DEF PacketInv
<1> QED BY <1>2, <1>3, <1>4, <1>5, <1>6 DEF PacketInv

(* The first packet of the queue goes to its end, while a connection that  *)
(* has no packet fails.                                                    *)
LEMMA PutLast ==
  ASSUME SenderTypes, PacketInv, NEW c \in Conn, NEW w \in SenderState, ~Active(c),
         queue # <<>>, w.st \notin Working, snd' = [snd EXCEPT ![c] = w],
         queue' = Append(Tail(queue), Head(queue)), UNCHANGED <<submitted, confirmed>>
  PROVE  PacketInv' /\ queue' \in Seq(Packet)
<1>1. \A d \in Conn : /\ Active(d)' <=> Active(d)
                      /\ Active(d) => snd'[d].pkt = snd[d].pkt
                      /\ \A p : Carries(d, p)' <=> Carries(d, p)
  <2> SUFFICES ASSUME NEW d \in Conn
               PROVE  /\ Active(d)' <=> Active(d)
                      /\ Active(d) => snd'[d].pkt = snd[d].pkt
                      /\ \A p : Carries(d, p)' <=> Carries(d, p)
    OBVIOUS
  <2>1. (Active(d)' <=> Active(d)) /\ (Active(d) => snd'[d].pkt = snd[d].pkt)
    BY SetIs
  <2> QED BY <2>1 DEF Carries
<1>2. /\ Tail(queue) \in Seq(Packet) /\ Distinct(Tail(queue))
      /\ Head(queue) \in Packet /\ Has(queue, Head(queue))
      /\ \A x : Has(Tail(queue), x) <=> Has(queue, x) /\ x # Head(queue)
  BY TailHas DEF SenderTypes, PacketInv
<1>3. ~Has(Tail(queue), Head(queue))
  BY <1>2
<1>4. /\ queue' \in Seq(Packet) /\ Distinct(queue)'
      /\ \A x : Has(queue', x) <=> Has(Tail(queue), x) \/ x = Head(queue)
  BY <1>2, <1>3, AppendHas
<1>5. \A x : Has(queue', x) <=> Has(queue, x)
  BY <1>2, <1>4
<1> QED BY <1>1, <1>4, <1>5 DEF PacketInv

(* A packet is confirmed and its connection has none any more.             *)
LEMMA Confirm ==
  ASSUME SenderTypes, PacketInv, NEW c \in Conn, NEW w \in SenderState, Active(c),
         w.st \notin Working, snd' = [snd EXCEPT ![c] = w],
         confirmed' = confirmed \cup {snd[c].pkt}, UNCHANGED <<queue, submitted>>
  PROVE  PacketInv' /\ confirmed' \subseteq Packet
<1>1. /\ ~Active(c)'
      /\ \A d \in Conn \ {c} : (Active(d)' <=> Active(d)) /\ snd'[d].pkt = snd[d].pkt
      /\ \A d \in Conn : \A p : Carries(d, p)' <=> Active(d)' /\ snd'[d].pkt = p
  BY SetIs
<1>2. snd[c].pkt \in submitted \ confirmed /\ snd[c].pkt \in Packet /\ ~Has(queue, snd[c].pkt)
  BY DEF PacketInv, SenderTypes
<1>3. \A p \in Packet : Has(queue, p) => p \in submitted \ confirmed'
  BY <1>2 DEF PacketInv
<1>4. ASSUME NEW d \in Conn, Active(d)'
      PROVE  snd'[d].pkt \in submitted \ confirmed' /\ ~Has(queue, snd'[d].pkt)
  <2>1. d # c /\ Active(d) /\ snd'[d].pkt = snd[d].pkt
    BY <1>1, <1>4
  <2> QED BY <2>1 DEF PacketInv
<1>5. ASSUME NEW d \in Conn, NEW e \in Conn, Active(d)', Active(e)', snd'[d].pkt = snd'[e].pkt
      PROVE  d = e
  BY <1>1, <1>5 DEF PacketInv
<1>6. ASSUME NEW p \in submitted \ confirmed'
      PROVE  Has(queue, p) \/ \E d \in Conn : Carries(d, p)'
  <2>1. ASSUME NEW d \in Conn, Carries(d, p) PROVE Carries(d, p)'
    BY <1>1, <1>6, <2>1 DEF Carries
  <2> QED BY <1>6, <2>1 DEF PacketInv
<1>7. confirmed' \subseteq submitted /\ confirmed' \subseteq Packet
  BY <1>2 DEF PacketInv, SenderTypes
<1> QED BY <1>3, <1>4, <1>5, <1>6, <1>7 DEF PacketInv

-----------------------------------------------------------------------------
(* What comes in on a connection.                                          *)

(* Units are added behind those under way.                                 *)
LEMMA ExtendOnce ==
  ASSUME NEW r \in ReceiverState, NEW s \in Seq(Unit), NEW t \in Seq(Unit), Once(r, s),
         \A i \in 1 .. Len(t) : t[i][2] < 0 => i = 1 /\ t[i] \notin Heard(r, s)
  PROVE  /\ s \o t \in Seq(Unit) /\ Once(r, s \o t)
         /\ \A u \in Heard(r, s \o t) : u \in Heard(r, s) \/ \E i \in 1 .. Len(t) : u = t[i]
<1>1. /\ s \o t \in Seq(Unit) /\ Len(s \o t) = Len(s) + Len(t)
      /\ Len(s) \in Nat /\ Len(t) \in Nat
      /\ \A i \in 1 .. Len(s) : (s \o t)[i] = s[i]
      /\ \A i \in Len(s) + 1 .. Len(s) + Len(t) : (s \o t)[i] = t[i - Len(s)]
  OBVIOUS
<1> DEFINE z == s \o t
<1>2. ASSUME NEW i \in 1 .. Len(z)
      PROVE  \/ i \in 1 .. Len(s) /\ z[i] = s[i]
             \/ i - Len(s) \in 1 .. Len(t) /\ z[i] = t[i - Len(s)]
  <2>1. i \in 1 .. Len(s) \/ (i \in Len(s) + 1 .. Len(s) + Len(t) /\ i - Len(s) \in 1 .. Len(t))
    BY <1>1
  <2> QED BY <1>1, <2>1
<1>3. \A i \in 1 .. Len(s) : s[i] \in Heard(r, s)
  BY DEF Heard
<1>4. r.hdr \in Heard(r, s) /\ r.buf[1] \in Heard(r, s)
  BY DEF Heard
<1> HIDE DEF z
<1>5. ASSUME NEW i \in 1 .. Len(z), z[i][2] < 0 PROVE z[i] # r.hdr /\ z[i] # r.buf[1]
  <2>1. CASE i \in 1 .. Len(s) /\ z[i] = s[i]
    BY <1>5, <2>1 DEF Once
  <2>2. CASE i - Len(s) \in 1 .. Len(t) /\ z[i] = t[i - Len(s)]
    BY <1>4, <1>5, <2>2
  <2> QED BY <1>2, <2>1, <2>2
<1>6. ASSUME NEW i \in 1 .. Len(z), NEW j \in 1 .. Len(z), z[i] = z[j], z[i][2] < 0 PROVE i = j
  <2>1. CASE i \in 1 .. Len(s) /\ z[i] = s[i] /\ j \in 1 .. Len(s) /\ z[j] = s[j]
    BY <1>6, <2>1 DEF Once
  <2>2. CASE /\ i - Len(s) \in 1 .. Len(t) /\ z[i] = t[i - Len(s)]
             /\ j - Len(s) \in 1 .. Len(t) /\ z[j] = t[j - Len(s)]
    <3>1. i - Len(s) = 1 /\ j - Len(s) = 1
      BY <1>6, <2>2
    <3> QED BY <1>1, <3>1
  <2>3. CASE i \in 1 .. Len(s) /\ z[i] = s[i] /\ j - Len(s) \in 1 .. Len(t) /\ z[j] = t[j - Len(s)]
    BY <1>3, <1>6, <2>3
  <2>4. CASE j \in 1 .. Len(s) /\ z[j] = s[j] /\ i - Len(s) \in 1 .. Len(t) /\ z[i] = t[i - Len(s)]
    BY <1>3, <1>6, <2>4
  <2> QED BY <1>2, <2>1, <2>2, <2>3, <2>4
<1>7. Once(r, z)
  <2>1. r.hdr[2] < 0 => r.hdr # r.buf[1]
    BY DEF Once
  <2>2. r.st = "READ_HEADER" => r.buf[1] = Garbage /\ r.off = 0
    BY DEF Once
  <2> QED BY <1>5, <1>6, <2>1, <2>2 DEF Once
<1>8. \A u \in Heard(r, z) : u \in Heard(r, s) \/ \E i \in 1 .. Len(t) : u = t[i]
  <2> SUFFICES ASSUME NEW u \in Heard(r, z)
               PROVE  u \in Heard(r, s) \/ \E i \in 1 .. Len(t) : u = t[i]
    OBVIOUS
  <2>1. (\E i \in 1 .. Len(z) : u = z[i]) \/ u = r.hdr \/ u = r.buf[1]
    BY DEF Heard
  <2>2. ASSUME NEW i \in 1 .. Len(z), u = z[i]
        PROVE  u \in Heard(r, s) \/ \E j \in 1 .. Len(t) : u = t[j]
    <3>1. CASE i \in 1 .. Len(s) /\ z[i] = s[i]
      BY <1>3, <2>2, <3>1
    <3>2. CASE i - Len(s) \in 1 .. Len(t) /\ z[i] = t[i - Len(s)]
      BY <2>2, <3>2
    <3> QED BY <1>2, <3>1, <3>2
  <2> QED BY <1>4, <2>1, <2>2
<1> QED BY <1>1, <1>7, <1>8 DEF z

(* Nothing has come and nothing will, unless something is under way.       *)
LEMMA Silent ==
  ASSUME NEW st \in {"NONE", "READ_HEADER", "SEND_HEADER", "DISABLED", "CLOSED"}
  PROVE  Once(NoReceiver(st), <<>>) /\ Heard(NoReceiver(st), <<>>) = {Garbage}
<1>1. /\ NoReceiver(st).hdr = Garbage /\ NoReceiver(st).buf[1] = Garbage
      /\ NoReceiver(st).off = 0
  BY NoReceiverIs
<1>2. Garbage[2] = 0
  BY DEF Garbage
<1>3. Len(<<>>) = 0 /\ 1 .. 0 = {}
  OBVIOUS
<1> QED BY <1>1, <1>2, <1>3 DEF Once, Heard

(* A receiver that forgets what it has heard.                              *)
LEMMA Forgets ==
  ASSUME NEW r \in ReceiverState, NEW s \in Seq(Unit), Once(r, s),
         NEW st \in {"NONE", "READ_HEADER", "SEND_HEADER", "DISABLED", "CLOSED"}
  PROVE  /\ Once(NoReceiver(st), s)
         /\ Heard(NoReceiver(st), s) \subseteq Heard(r, s) \cup {Garbage}
<1>1. /\ NoReceiver(st).hdr = Garbage /\ NoReceiver(st).buf[1] = Garbage
      /\ NoReceiver(st).off = 0
  BY NoReceiverIs
<1>2. Garbage[2] = 0 /\ \A i \in 1 .. Len(s) : s[i] # Garbage
  <2>1. Garbage[2] = 0
    BY DEF Garbage
  <2>2. \A i \in 1 .. Len(s) : s[i] \in Unit
    OBVIOUS
  <2> QED BY <2>1, <2>2, UnitIs
<1> QED BY <1>1, <1>2 DEF Once, Heard

(* The sender moves on, and what it knows of the past it keeps.            *)
Keeps(d) == \A u \in Unit : Past(d, u) => Past(d, u)'

LEMMA PastKept ==
  ASSUME SenderTypes, NEW c \in Conn, NEW w \in SenderState, snd' = [snd EXCEPT ![c] = w],
         confirmed \subseteq confirmed',
         \/ w.st = "CLOSED"
         \/ snd[c].st \in {"NONE", "DISABLED"}
         \/ Active(c) /\ snd[c].pkt \in confirmed'
         \/ /\ Active(c) /\ w.st \in Working /\ w.pkt = snd[c].pkt
            /\ \A k \in Int : Beyond(snd[c], k) => Beyond(w, k)
  PROVE  \A d \in Conn : Keeps(d)
<1> SUFFICES ASSUME NEW d \in Conn, NEW u \in Unit, Past(d, u) PROVE Past(d, u)'
  BY DEF Keeps
<1>1. /\ snd'[c] = w /\ (Active(c)' <=> w.st \in Working)
      /\ \A e \in Conn \ {c} : snd'[e] = snd[e] /\ (Active(e)' <=> Active(e))
  BY SetIs
<1>2. -u[2] \in Int
  BY UnitIs DEF Memory
<1>3. CASE d # c
  BY <1>1, <1>3 DEF Past, Carries
<1>4. CASE d = c
  <2>1. snd[c].st = "CLOSED" => w.st = "CLOSED" \/ u[1] \in confirmed'
    BY DEF Active
  <2>2. CASE Carries(c, u[1]) /\ Beyond(snd[c], -u[2])
    BY <1>1, <1>2, <1>4, <2>2 DEF Past, Carries, Active
  <2> QED BY <1>1, <1>4, <2>1, <2>2 DEF Past
<1> QED BY <1>3, <1>4

(* A connection on which nothing new is sent.                              *)
LEMMA IntakeKept ==
  ASSUME NEW d \in Conn, Intake(d, rcv[d], up[d]), NetTypes, Keeps(d),
         submitted \subseteq submitted', rcv'[d] = rcv[d], up'[d] = up[d] \/ up'[d] = <<>>
  PROVE  Intake(d, rcv[d], up[d])'
<1>1. up[d] \in Seq(Unit) /\ rcv[d] \in ReceiverState
  BY DEF NetTypes
<1>2. Once(rcv[d], up'[d]) /\ Heard(rcv[d], up'[d]) \subseteq Heard(rcv[d], up[d])
  <2>1. Len(<<>>) = 0 /\ 1 .. 0 = {}
    OBVIOUS
  <2> QED BY <2>1 DEF Intake, Once, Heard
<1>3. Heard(rcv[d], up[d]) \subseteq Memory
  BY <1>1 DEF Heard, ReceiverState, Memory
<1>4. ASSUME NEW u \in Heard(rcv[d], up'[d]) \ {Garbage} PROVE Known(d, u)'
  <2>1. u \in Unit /\ Known(d, u)
    BY <1>2, <1>3, <1>4 DEF Intake, Memory
  <2> QED BY <2>1 DEF Known, Keeps
<1> QED BY <1>2, <1>4 DEF Intake

-----------------------------------------------------------------------------
(* One POLLOUT event.                                                      *)

(* The sender goes on from w to v with the same packet.                    *)
Onward(w, v) ==
  /\ v.st \in Working /\ v.pkt = w.pkt
  /\ v.st = "SEND_BLOCK" => v.blk \in 1 .. Blocks[v.pkt]
  /\ \A k \in Int : Beyond(w, k) => Beyond(v, k)

(* t is what it sends meanwhile: nothing it has sent before.               *)
News(w, v, t) ==
  /\ t \in Seq(Unit)
  /\ \A i \in 1 .. Len(t) :
       /\ t[i][1] = w.pkt
       /\ t[i][2] < 0 => i = 1 /\ ~Beyond(w, -t[i][2]) /\ Beyond(v, -t[i][2])

Sending(w) ==
  /\ w \in SenderState /\ w.st \in {"SEND_HEADER", "SEND_BLOCK"} /\ w.pkt \in Packet
  /\ w.st = "SEND_BLOCK" => w.blk \in 1 .. Blocks[w.pkt]

LEMMA MessageIs ==
  ASSUME NEW w, Sending(w)
  PROVE  /\ Message(w) \in Seq(Unit)
         /\ w.st = "SEND_HEADER" => Message(w) = << <<w.pkt, 0>> >>
         /\ w.st = "SEND_BLOCK" => Message(w) = << <<w.pkt, -w.blk>>, <<w.pkt, w.blk>> >>
<1>1. w.blk \in Int /\ -w.blk \in Int /\ w.pkt \in Packet
  BY DEF Sending, SenderState
<1>2. <<w.pkt, 0>> \in Unit /\ <<w.pkt, -w.blk>> \in Unit /\ <<w.pkt, w.blk>> \in Unit
  BY <1>1, UnitIs
<1> QED BY <1>2 DEF Message, Sending

LEMMA SetState ==
  ASSUME NEW w \in SenderState, NEW st \in {"SEND_BLOCK", "READ_HEADER"},
         NEW v, v = [w EXCEPT !.st = st]
  PROVE  v \in SenderState /\ v.st = st /\ v.pkt = w.pkt
BY DEF SenderState

LEMMA SetBlock ==
  ASSUME NEW w \in SenderState, NEW b \in Nat, NEW v, v = [w EXCEPT !.blk = b]
  PROVE  v \in SenderState /\ v.st = w.st /\ v.pkt = w.pkt /\ v.blk = b
BY DEF SenderState

LEMMA SetOffset ==
  ASSUME NEW w \in SenderState, NEW o \in 0 .. 1, NEW v, v = [w EXCEPT !.off = o]
  PROVE  /\ v \in SenderState /\ v.st = w.st
         /\ v.pkt = w.pkt /\ v.blk = w.blk /\ v.off = o
BY DEF SenderState

LEMMA AfterIs ==
  ASSUME NEW w, Sending(w)
  PROVE  /\ AfterMessage(w) \in SenderState /\ Onward(w, AfterMessage(w))
         /\ w.st = "SEND_BLOCK" => Beyond(AfterMessage(w), w.blk)
<1> DEFINE v == AfterMessage(w)
<1>1. w \in SenderState /\ w.pkt \in Packet /\ Blocks[w.pkt] \in Nat \ {0}
      /\ w.blk \in Nat /\ w.off \in 0 .. 1
  BY PacketIs DEF Sending, SenderState
<1>2. CASE w.st = "SEND_HEADER"
  <2>1. v = [w EXCEPT !.st = "SEND_BLOCK", !.blk = 1, !.off = 0]
    BY <1>2 DEF AfterMessage
  <2>2. v \in SenderState /\ v.st = "SEND_BLOCK" /\ v.pkt = w.pkt /\ v.blk = 1
    <3>1. PICK x : x = [w EXCEPT !.st = "SEND_BLOCK"]
      OBVIOUS
    <3>2. PICK y : y = [x EXCEPT !.blk = 1]
      OBVIOUS
    <3>3. v = [y EXCEPT !.off = 0]
      BY <2>1, <3>1, <3>2
    <3>4. x \in SenderState /\ x.st = "SEND_BLOCK" /\ x.pkt = w.pkt
      BY <1>1, <3>1, SetState
    <3>5. 1 \in Nat /\ 0 \in 0 .. 1
      OBVIOUS
    <3>6. y \in SenderState /\ y.st = "SEND_BLOCK" /\ y.pkt = w.pkt /\ y.blk = 1
      BY <3>2, <3>4 DEF SenderState
    <3> QED BY <3>3, <3>5, <3>6, SetOffset
  <2> QED BY <1>1, <1>2, <2>2 DEF Onward, Beyond, Working
<1>3. CASE w.st = "SEND_BLOCK" /\ w.blk < Blocks[w.pkt]
  <2>1. v = [w EXCEPT !.blk = @ + 1, !.off = 0]
    BY <1>3 DEF AfterMessage
  <2>2. /\ v \in SenderState /\ v.st = "SEND_BLOCK" /\ v.pkt = w.pkt
        /\ v.blk = w.blk + 1 /\ v.off = 0
    <3>1. PICK x : x = [w EXCEPT !.blk = w.blk + 1]
      OBVIOUS
    <3>2. v = [x EXCEPT !.off = 0]
      BY <2>1, <3>1
    <3>3. w.blk + 1 \in Nat /\ 0 \in 0 .. 1
      BY <1>1
    <3>4. x \in SenderState /\ x.st = "SEND_BLOCK" /\ x.pkt = w.pkt /\ x.blk = w.blk + 1
      BY <1>1, <1>3, <3>1, <3>3, SetBlock
    <3> QED BY <3>2, <3>3, <3>4, SetOffset
  <2>3. \A k \in Int : Beyond(w, k) => Beyond(v, k)
    BY <1>1, <1>3, <2>2 DEF Beyond
  <2>4. v.blk \in 1 .. Blocks[v.pkt]
    BY <1>1, <1>3, <2>2
  <2>5. Beyond(v, w.blk)
    BY <1>1, <2>2, <1>3 DEF Beyond
  <2> QED BY <2>2, <2>3, <2>4, <2>5 DEF Onward, Working
<1>4. CASE w.st = "SEND_BLOCK" /\ ~(w.blk < Blocks[w.pkt])
  <2>1. v = [w EXCEPT !.st = "READ_HEADER", !.off = 0]
    BY <1>4 DEF AfterMessage
  <2>2. v \in SenderState /\ v.st = "READ_HEADER" /\ v.pkt = w.pkt
    <3>1. PICK x : x = [w EXCEPT !.st = "READ_HEADER"]
      OBVIOUS
    <3>2. v = [x EXCEPT !.off = 0]
      BY <2>1, <3>1
    <3>3. x \in SenderState /\ x.st = "READ_HEADER" /\ x.pkt = w.pkt
      BY <1>1, <3>1, SetState
    <3>4. 0 \in 0 .. 1
      OBVIOUS
    <3> QED BY <3>2, <3>3, <3>4, SetOffset
  <2> QED BY <2>2 DEF Onward, Beyond, Working
<1> QED BY <1>2, <1>3, <1>4 DEF Sending

(* The units from w.off + 1 to n of its message are new.                   *)
LEMMA SentIs ==
  ASSUME NEW w, Sending(w), NEW n \in w.off + 1 .. Len(Message(w)),
         NEW v, v = IF n = Len(Message(w)) THEN AfterMessage(w) ELSE [w EXCEPT !.off = n]
  PROVE  /\ v \in SenderState /\ Onward(w, v)
         /\ News(w, v, SubSeq(Message(w), w.off + 1, n))
<1> DEFINE m == Message(w)
           t == SubSeq(m, w.off + 1, n)
<1>1. w \in SenderState /\ w.pkt \in Packet /\ w.blk \in Nat /\ w.off \in 0 .. 1
  BY DEF Sending, SenderState
<1>2. /\ m \in Seq(Unit) /\ Len(m) \in Nat /\ n \in Nat /\ n <= Len(m)
  BY <1>1, MessageIs
<1>3. /\ t \in Seq(Unit) /\ Len(t) = n - w.off
      /\ \A i \in 1 .. Len(t) : t[i] = m[i + w.off] /\ i + w.off \in 1 .. n
  <2>1. w.off \in Nat /\ w.off < n /\ n <= Len(m)
    BY <1>1, <1>2
  <2> HIDE DEF m
  <2>2. /\ t \in Seq(Unit) /\ Len(t) = n - w.off
        /\ \A i \in 1 .. n - w.off : t[i] = m[i + w.off] /\ i + w.off \in 1 .. n
    BY <1>2, <2>1, Slice
  <2> QED BY <2>2
<1> HIDE DEF t
<1>4. CASE w.st = "SEND_HEADER"
  <2>1. Len(m) = 1 /\ m[1] = <<w.pkt, 0>>
    BY <1>4, MessageIs
  <2>2. n = 1 /\ w.off = 0 /\ v = AfterMessage(w)
    BY <1>1, <1>2, <2>1
  <2>3. \A i \in 1 .. Len(t) : t[i] = <<w.pkt, 0>>
    BY <1>3, <2>1, <2>2
  <2>4. News(w, v, t)
    BY <1>3, <2>3 DEF News
  <2> QED BY <2>2, <2>4, AfterIs DEF t
<1>5. CASE w.st = "SEND_BLOCK"
  <2>1. Len(m) = 2 /\ m[1] = <<w.pkt, -w.blk>> /\ m[2] = <<w.pkt, w.blk>>
    BY <1>5, MessageIs
  <2>2. v \in SenderState /\ Onward(w, v) /\ Beyond(v, w.blk)
    <3>1. CASE n = 2
      <4>1. v = AfterMessage(w)
        BY <2>1, <3>1
      <4> QED BY <1>5, <4>1, AfterIs
    <3>2. CASE n # 2
      <4>1. n = 1 /\ w.off = 0
        BY <1>1, <1>2, <2>1, <3>2
      <4>2. v = [w EXCEPT !.off = 1]
        BY <2>1, <4>1
      <4>3. /\ v \in SenderState /\ v.st = "SEND_BLOCK" /\ v.pkt = w.pkt
            /\ v.blk = w.blk /\ v.off = 1
        BY <1>1, <1>5, <4>2, SetOffset
      <4>4. w.blk \in 1 .. Blocks[w.pkt]
        BY <1>5 DEF Sending
      <4>5. \A k \in Int : Beyond(w, k) => k < w.blk
        BY <1>1, <1>5, <4>1 DEF Beyond
      <4>6. \A k \in Int : k <= w.blk => Beyond(v, k)
        BY <1>1, <4>3 DEF Beyond
      <4>7. Beyond(v, w.blk) /\ \A k \in Int : Beyond(w, k) => Beyond(v, k)
        <5>1. w.blk \in Int /\ w.blk <= w.blk
          BY <1>1
        <5>2. \A k \in Int : k < w.blk => k <= w.blk
          BY <5>1
        <5> QED BY <4>5, <4>6, <5>1, <5>2, Zenon
      <4> QED BY <4>3, <4>4, <4>7 DEF Onward, Working
    <3> QED BY <3>1, <3>2
  <2>3. ASSUME NEW i \in 1 .. Len(t)
        PROVE  /\ t[i][1] = w.pkt
               /\ t[i][2] < 0 => i = 1 /\ ~Beyond(w, -t[i][2]) /\ Beyond(v, -t[i][2])
    <3>1. i + w.off \in {1, 2} /\ t[i] = m[i + w.off]
      <4>1. i + w.off \in 1 .. n /\ n <= 2
        BY <1>2, <1>3, <2>1
      <4>2. n \in {0, 1, 2}
        BY <1>2, <4>1
      <4>3. 1 .. n \subseteq {1, 2}
        BY <4>2
      <4> QED BY <1>3, <4>1, <4>3
    <3>2. CASE i + w.off = 2
      <4>1. t[i][1] = w.pkt /\ t[i][2] = w.blk
        BY <2>1, <3>1, <3>2
      <4> QED BY <1>1, <4>1
    <3>3. CASE i + w.off = 1
      <4>1. i = 1 /\ w.off = 0
        BY <1>1, <3>3
      <4>2. t[i][1] = w.pkt /\ t[i][2] = -w.blk /\ -t[i][2] = w.blk
        <5>1. t[i] = <<w.pkt, -w.blk>>
          BY <2>1, <3>1, <3>3
        <5> QED BY <1>1, <5>1
      <4>3. ~Beyond(w, w.blk)
        BY <1>1, <1>5, <4>1 DEF Beyond
      <4> QED BY <2>2, <4>1, <4>2, <4>3
    <3> QED BY <3>1, <3>2, <3>3
  <2>4. News(w, v, t)
    BY <1>3, <2>3 DEF News
  <2> QED BY <2>2, <2>4 DEF t
<1> QED BY <1>4, <1>5 DEF Sending

(* What one call of Transmit comes to.                                     *)
LEMMA TransmitIs ==
  ASSUME SenderTypes, NetTypes, NEW c \in Conn, NEW w, Sending(w), NEW q, Transmit(c, w, q)
  PROVE  /\ faults' \in FaultCount /\ faults'.blind = faults.blind
         /\ \/ /\ snd' = [snd EXCEPT ![c] = NoSender("CLOSED")]
               /\ queue' = Append(q, w.pkt)
               /\ UNCHANGED netVars
            \/ \E v \in SenderState :
                 /\ Onward(w, v) /\ snd' = [snd EXCEPT ![c] = v]
                 /\ queue' = q
                 /\ \/ UNCHANGED netVars
                    \/ Reset(c)
                    \/ /\ \E t : News(w, v, t) /\ up' = [up EXCEPT ![c] = @ \o t]
                       /\ UNCHANGED <<down, link>>
<1>1. CASE /\ link[c] = "up"
           /\ \E n \in w.off + 1 .. Len(Message(w)) :
                /\ snd' = [snd EXCEPT ![c] = IF n = Len(Message(w)) THEN AfterMessage(w)
                                             ELSE [w EXCEPT !.off = n]]
                /\ IF rcv[c].st = "CLOSED"
                   THEN Reset(c)
                   ELSE /\ up' = [up EXCEPT ![c] = @ \o SubSeq(Message(w), w.off + 1, n)]
                        /\ UNCHANGED <<down, link>>
           /\ queue' = q
           /\ UNCHANGED <<successConn, faults>>
  <2>1. PICK n \in w.off + 1 .. Len(Message(w)) :
                /\ snd' = [snd EXCEPT ![c] = IF n = Len(Message(w)) THEN AfterMessage(w)
                                             ELSE [w EXCEPT !.off = n]]
                /\ IF rcv[c].st = "CLOSED"
                   THEN Reset(c)
                   ELSE /\ up' = [up EXCEPT ![c] = @ \o SubSeq(Message(w), w.off + 1, n)]
                        /\ UNCHANGED <<down, link>>
    BY <1>1
  <2>2. PICK v : v = IF n = Len(Message(w)) THEN AfterMessage(w) ELSE [w EXCEPT !.off = n]
    OBVIOUS
  <2>3. v \in SenderState /\ Onward(w, v) /\ News(w, v, SubSeq(Message(w), w.off + 1, n))
    BY <2>2, SentIs
  <2>4. faults' \in FaultCount /\ faults'.blind = faults.blind
    BY <1>1 DEF NetTypes
  <2>5. snd' = [snd EXCEPT ![c] = v]
    BY <2>1, <2>2
  <2>6. CASE rcv[c].st = "CLOSED"
    BY <1>1, <2>1, <2>3, <2>4, <2>5, <2>6
  <2>7. CASE rcv[c].st # "CLOSED"
    <3>1. PICK t : t = SubSeq(Message(w), w.off + 1, n)
      OBVIOUS
    <3>2. News(w, v, t) /\ up' = [up EXCEPT ![c] = @ \o t] /\ UNCHANGED <<down, link>>
      BY <2>1, <2>3, <2>7, <3>1
    <3> QED BY <1>1, <2>3, <2>4, <2>5, <3>2
  <2> QED BY <2>6, <2>7
<1>2. CASE /\ link[c] = "up" /\ Spurious("send")
           /\ snd' = [snd EXCEPT ![c] = AfterMessage(w)]
           /\ queue' = q
           /\ UNCHANGED <<successConn, netVars>>
  <2>1. faults' \in FaultCount /\ faults'.blind = faults.blind
    BY <1>2, FaultIs DEF Spurious, NetTypes
  <2>2. AfterMessage(w) \in SenderState /\ Onward(w, AfterMessage(w))
    BY AfterIs
  <2> QED BY <1>2, <2>1, <2>2
<1>3. CASE /\ link[c] = "reset"
           /\ Requeue(c, w.pkt, q)
           /\ UNCHANGED <<netVars, faults>>
  BY <1>3 DEF Requeue, NetTypes
<1> QED BY <1>1, <1>2, <1>3 DEF Transmit

-----------------------------------------------------------------------------
(* What a step of the sender leaves of the network's part of IInv.         *)

LEMMA UnitsSubmitted ==
  ASSUME NetTypes, NEW d \in Conn
  PROVE  /\ rcv[d] \in ReceiverState /\ up[d] \in Seq(Unit) /\ down[d] \in Seq(Memory)
         /\ Heard(rcv[d], up[d]) \subseteq Memory
         /\ rcv[d].hdr \in Memory /\ rcv[d].buf \in [1 .. 2 -> Memory]
BY DEF NetTypes, ReceiverState, Heard, Memory

LEMMA ResetIs ==
  ASSUME NetTypes, NEW c \in Conn, Reset(c)
  PROVE  /\ up' \in [Conn -> Seq(Unit)] /\ down' \in [Conn -> Seq(Memory)]
         /\ link' \in [Conn -> {"up", "reset"}]
         /\ up'[c] = <<>> /\ down'[c] = <<>>
         /\ \A d \in Conn \ {c} : up'[d] = up[d] /\ down'[d] = down[d]
<1>1. <<>> \in Seq(Unit) /\ <<>> \in Seq(Memory)
  OBVIOUS
<1> QED BY <1>1 DEF Reset, NetTypes

(* Nobody hands anything over and no reply is added.                       *)
LEMMA ReplyKept ==
  ASSUME ReplyInv, Intact, NetTypes, UNCHANGED <<rcv, received>>, submitted \subseteq submitted',
         \A d \in Conn : \/ down'[d] = down[d] \/ down'[d] = <<>>
                         \/ down[d] # <<>> /\ down'[d] = Tail(down[d])
  PROVE  ReplyInv' /\ Intact'
<1>1. Intact'
  BY DEF Intact
<1>2. ASSUME NEW d \in Conn, NEW i \in 1 .. Len(down'[d])
      PROVE  <<d, Digest(down'[d][i])>> \in received
  <2>1. CASE down'[d] = down[d]
    BY <2>1, <1>2 DEF ReplyInv
  <2>2. CASE down'[d] = <<>>
    BY <2>2, <1>2
  <2>3. CASE down[d] # <<>> /\ down'[d] = Tail(down[d])
    <3>1. down[d] \in Seq(Memory)
      BY DEF NetTypes
    <3>2. i + 1 \in 1 .. Len(down[d]) /\ down'[d][i] = down[d][i + 1]
      BY <1>2, <2>3, <3>1
    <3> QED BY <3>2 DEF ReplyInv
  <2> QED BY <2>1, <2>2, <2>3
<1> QED BY <1>1, <1>2 DEF ReplyInv

LEMMA SendKeepsNet ==
  ASSUME NetTypes, SenderTypes, IntakeInv, ReplyInv, Intact, NEW c \in Conn, NEW w, Sending(w),
         NEW v \in SenderState, Onward(w, v), snd' = [snd EXCEPT ![c] = v],
         (snd[c] = w /\ Active(c)) \/ snd[c].st = "DISABLED",
         w.pkt \in submitted \ confirmed, faults' \in FaultCount,
         UNCHANGED <<submitted, confirmed, received, rcv>>,
         \/ UNCHANGED netVars
         \/ Reset(c)
         \/ /\ \E t : News(w, v, t) /\ up' = [up EXCEPT ![c] = @ \o t]
            /\ UNCHANGED <<down, link>>
  PROVE  NetTypes' /\ IntakeInv' /\ ReplyInv' /\ Intact'
<1>1. \A d \in Conn : Keeps(d)
  <2>1. snd[c] = w => /\ v.st \in Working /\ v.pkt = snd[c].pkt
                      /\ \A k \in Int : Beyond(snd[c], k) => Beyond(v, k)
    BY DEF Onward
  <2> QED BY <2>1, PastKept
<1>2. CASE UNCHANGED netVars \/ Reset(c)
  <2>1. /\ up' \in [Conn -> Seq(Unit)] /\ down' \in [Conn -> Seq(Memory)]
        /\ link' \in [Conn -> {"up", "reset"}]
        /\ \A d \in Conn : up'[d] \in {up[d], <<>>} /\ down'[d] \in {down[d], <<>>}
    <3>1. CASE UNCHANGED netVars
      BY <3>1 DEF netVars, NetTypes
    <3>2. CASE Reset(c)
      BY <3>2, ResetIs
    <3> QED BY <1>2, <3>1, <3>2
  <2>2. NetTypes'
    BY <2>1 DEF NetTypes
  <2>3. IntakeInv'
    <3> SUFFICES ASSUME NEW d \in Conn PROVE Intake(d, rcv[d], up[d])'
      BY DEF IntakeInv
    <3> QED BY <1>1, <2>1, IntakeKept DEF IntakeInv
  <2> QED BY <2>1, <2>2, <2>3, ReplyKept
<1>3. ASSUME NEW t, News(w, v, t), up' = [up EXCEPT ![c] = @ \o t], UNCHANGED <<down, link>>
      PROVE  NetTypes' /\ IntakeInv' /\ ReplyInv' /\ Intact'
  <2>1. /\ rcv[c] \in ReceiverState /\ up[c] \in Seq(Unit)
        /\ Heard(rcv[c], up[c]) \subseteq Memory
        /\ t \in Seq(Unit) /\ up'[c] = up[c] \o t
        /\ \A d \in Conn \ {c} : up'[d] = up[d]
    BY <1>3, UnitsSubmitted DEF News, NetTypes
  <2>2. ASSUME NEW i \in 1 .. Len(t), t[i][2] < 0
        PROVE  i = 1 /\ t[i] \notin Heard(rcv[c], up[c])
    <3>1. t[i] \in Unit /\ t[i][1] = w.pkt /\ i = 1 /\ ~Beyond(w, -t[i][2])
      BY <1>3, <2>1, <2>2 DEF News
    <3>2. ASSUME t[i] \in Heard(rcv[c], up[c]) PROVE FALSE
      <4>1. Past(c, t[i])
        BY <2>2, <3>1, <3>2, UnitIs DEF IntakeInv, Intake, Known
      <4>2. Carries(c, t[i][1]) /\ Beyond(snd[c], -t[i][2])
        BY <3>1, <4>1 DEF Past, Active
      <4> QED BY <3>1, <4>2 DEF Carries, Active
    <3> QED BY <3>1, <3>2
  <2>3. /\ up[c] \o t \in Seq(Unit) /\ Once(rcv[c], up[c] \o t)
        /\ \A u \in Heard(rcv[c], up[c] \o t) :
             u \in Heard(rcv[c], up[c]) \/ \E i \in 1 .. Len(t) : u = t[i]
    <3>1. Once(rcv[c], up[c])
      BY DEF IntakeInv, Intake
    <3>2. PICK r \in ReceiverState : r = rcv[c]
      BY <2>1
    <3>3. PICK s \in Seq(Unit) : s = up[c]
      BY <2>1
    <3>4. Once(r, s) /\ \A i \in 1 .. Len(t) : t[i][2] < 0 => i = 1 /\ t[i] \notin Heard(r, s)
      BY <2>2, <3>1, <3>2, <3>3
    <3>5. /\ s \o t \in Seq(Unit) /\ Once(r, s \o t)
          /\ \A u \in Heard(r, s \o t) : u \in Heard(r, s) \/ \E i \in 1 .. Len(t) : u = t[i]
      BY <2>1, <3>4, ExtendOnce
    <3> QED BY <3>2, <3>3, <3>5
  <2>4. ASSUME NEW u \in Heard(rcv[c], up[c] \o t) \ {Garbage} PROVE Known(c, u)'
    <3>1. CASE u \in Heard(rcv[c], up[c])
      <4>1. Known(c, u) /\ u \in Unit
        BY <2>1, <2>4, <3>1 DEF IntakeInv, Intake, Memory
      <4> QED BY <1>1, <4>1 DEF Known, Keeps
    <3>2. ASSUME NEW i \in 1 .. Len(t), u = t[i] PROVE Known(c, u)'
      <4>1. u[1] = w.pkt /\ (u[2] < 0 => Beyond(v, -u[2]))
        BY <1>3, <3>2 DEF News
      <4>2. Carries(c, w.pkt)' /\ snd'[c] = v
        BY SetIs DEF Onward
      <4> QED BY <4>1, <4>2 DEF Known, Past
    <3> QED BY <2>3, <2>4, <3>1, <3>2
  <2>5. IntakeInv'
    <3>1. Intake(c, rcv[c], up[c])'
      BY <2>1, <2>3, <2>4 DEF Intake
    <3>2. ASSUME NEW d \in Conn \ {c} PROVE Intake(d, rcv[d], up[d])'
      BY <1>1, <2>1, IntakeKept DEF IntakeInv
    <3> QED BY <3>1, <3>2 DEF IntakeInv
  <2>6. NetTypes'
    BY <1>3, <2>1, <2>3 DEF NetTypes
  <2> QED BY <1>3, <2>5, <2>6, ReplyKept
<1> QED BY <1>2, <1>3

-----------------------------------------------------------------------------
(* The steps of the sender.                                                *)

LEMMA SetSteady ==
  ASSUME SenderTypes, NEW c \in Conn, NEW w \in SenderState, snd' = [snd EXCEPT ![c] = w]
  PROVE  Steady(Conn \ {c})
BY SetIs DEF Steady

LEMMA OpenedKept ==
  ASSUME SenderTypes, Opened, BlockInv, NEW c \in Conn, NEW w \in SenderState,
         snd' = [snd EXCEPT ![c] = w], snd[c].st # "NONE", w.st # "NONE",
         w.st = "SEND_BLOCK" => w.blk \in 1 .. Blocks[w.pkt]
  PROVE  Opened' /\ BlockInv'
<1>1. snd'[c] = w /\ \A d \in Conn \ {c} : snd'[d] = snd[d]
  BY SetIs
<1>2. Opened'
  <2>1. \A d \in Conn : snd'[d].st = "NONE" <=> snd[d].st = "NONE"
    BY <1>1
  <2> QED BY <2>1 DEF Opened
<1> QED BY <1>1, <1>2 DEF BlockInv

LEMMA SubmitKeeps ==
  ASSUME IInv, NEW p \in Packet, Submit(p)
  PROVE  IInv'
<1> USE DEF IInv
<1>1. /\ p \notin submitted /\ submitted' = submitted \cup {p} /\ queue' = Append(queue, p)
      /\ UNCHANGED <<received, confirmed, snd, rcv, up, down, link, faults>>
  BY DEF Submit, netVars
<1>2. ~Has(queue, p)
  BY <1>1 DEF PacketInv, PlaceInv
<1>3. /\ queue' \in Seq(Packet) /\ Distinct(queue)'
      /\ \A x : Has(queue', x) <=> Has(queue, x) \/ x = p
  BY <1>1, <1>2, AppendHas DEF SenderTypes, PacketInv, PlaceInv
<1>4. SenderTypes'
  BY <1>1, <1>3 DEF SenderTypes
<1>5. PlaceInv'
  <2>1. \A d \in Conn : (Active(d)' <=> Active(d)) /\ \A x : Carries(d, x)' <=> Carries(d, x)
    BY <1>1 DEF Active, Carries
  <2>2. PacketInv
    BY DEF PlaceInv
  <2>3. confirmed \subseteq submitted'
    BY <1>1, <2>2 DEF PacketInv
  <2>4. \A x \in Packet : Has(queue', x) => x \in submitted' \ confirmed
    BY <1>1, <1>3, <2>2 DEF PacketInv
  <2>5. ASSUME NEW d \in Conn, Active(d)
        PROVE  snd[d].pkt \in submitted' \ confirmed /\ ~Has(queue', snd[d].pkt)
    BY <1>1, <1>3, <2>2, <2>5 DEF PacketInv
  <2>6. \A x \in submitted' \ confirmed : Has(queue', x) \/ \E d \in Conn : Carries(d, x)
    BY <1>1, <1>3, <2>2 DEF PacketInv
  <2>7. \A d, e \in Conn : Active(d) /\ Active(e) /\ snd[d].pkt = snd[e].pkt => d = e
    BY <2>2 DEF PacketInv
  <2>8. PacketInv'
    BY <1>1, <1>3, <2>1, <2>3, <2>4, <2>5, <2>6, <2>7 DEF PacketInv
  <2> QED BY <1>1, <2>8 DEF PlaceInv, Opened, BlockInv
<1>6. NetTypes'
  BY <1>1 DEF NetTypes
<1>7. \A d \in Conn : Keeps(d)
  BY <1>1 DEF Keeps, Past, Carries, Active
<1>8. IntakeInv'
  <2> SUFFICES ASSUME NEW d \in Conn PROVE Intake(d, rcv[d], up[d])'
    BY DEF IntakeInv
  <2> QED BY <1>1, <1>7, IntakeKept DEF IntakeInv
<1> QED BY <1>1, <1>4, <1>5, <1>6, <1>8, ReplyKept

LEMMA ConnectKeeps ==
  ASSUME IInv, Connect
  PROVE  IInv'
<1> USE DEF IInv
<1>1. UNCHANGED <<submitted, received, confirmed, queue, rcv, up, down, link, faults>>
  BY DEF Connect, appVars, netVars
<1>2. PICK k \in 0 .. MaxSocket : \A c \in Conn : snd[c].st = "NONE" <=> c > k
  BY DEF PlaceInv, Opened
<1>3. PICK n \in 1 .. Replicate + 1 - successConn :
        LET first == CHOOSE c \in Unused : \A d \in Unused : c <= d
            new == first .. first + n - 1
        IN  /\ n <= Cardinality(Unused)
            /\ snd' = [c \in Conn |-> IF c \in new THEN NoSender("DISABLED") ELSE snd[c]]
  BY DEF Connect
<1>4. Unused = k + 1 .. MaxSocket /\ k \in Nat /\ n \in Nat \ {0}
  BY <1>2 DEF Unused, Conn
<1>5. Cardinality(Unused) = MaxSocket - k
  <2>1. k + 1 \in Int /\ MaxSocket \in Int
    BY <1>4
  <2>2. Cardinality(k + 1 .. MaxSocket) = IF k + 1 > MaxSocket THEN 0 ELSE MaxSocket - (k + 1) + 1
    BY <2>1, FS_Interval, Zenon
  <2> QED BY <1>2, <1>4, <2>2
<1>6. k + n <= MaxSocket
  BY <1>3, <1>4, <1>5
<1>7. (CHOOSE c \in Unused : \A d \in Unused : c <= d) = k + 1
  <2>1. k + 1 \in Unused /\ \A d \in Unused : k + 1 <= d
    BY <1>4, <1>6
  <2>2. ASSUME NEW c \in Unused, \A d \in Unused : c <= d PROVE c = k + 1
    BY <1>4, <2>1, <2>2
  <2> QED BY <2>1, <2>2
<1>8. snd' = [c \in Conn |-> IF c \in k + 1 .. k + n THEN NoSender("DISABLED") ELSE snd[c]]
  <2>1. k + 1 + n - 1 = k + n
    BY <1>4
  <2> QED BY <1>3, <1>7, <2>1
<1>9. \A c \in Conn : \/ c \in k + 1 .. k + n /\ snd'[c] = NoSender("DISABLED")
                         /\ snd[c].st = "NONE"
                      \/ c \notin k + 1 .. k + n /\ snd'[c] = snd[c]
  BY <1>2, <1>4, <1>8 DEF Conn
<1>10. NoSender("DISABLED") \in SenderState /\ NoSender("DISABLED").st = "DISABLED"
  BY NoSenderIs
<1>11. SenderTypes'
  BY <1>1, <1>8, <1>10 DEF SenderTypes
<1>12. PlaceInv'
  <2>1. Steady(Conn)
    BY <1>9, <1>10 DEF Steady, Active
  <2>2. PacketInv'
    BY <1>1, <2>1, StayPut DEF PlaceInv
  <2>3. k + n \in 0 .. MaxSocket /\ \A c \in Conn : snd'[c].st = "NONE" <=> c > k + n
    BY <1>2, <1>4, <1>6, <1>9, <1>10 DEF Conn
  <2>4. BlockInv'
    BY <1>9, <1>10 DEF PlaceInv, BlockInv
  <2> QED BY <2>2, <2>3, <2>4 DEF PlaceInv, Opened
<1>13. NetTypes'
  BY <1>1 DEF NetTypes
<1>14. \A d \in Conn : Keeps(d)
  BY <1>1, <1>9 DEF Keeps, Past, Carries, Active
<1>15. IntakeInv'
  <2> SUFFICES ASSUME NEW d \in Conn PROVE Intake(d, rcv[d], up[d])'
    BY DEF IntakeInv
  <2> QED BY <1>1, <1>14, IntakeKept DEF IntakeInv
<1> QED BY <1>1, <1>11, <1>12, <1>13, <1>15, ReplyKept

(* Connection c has no packet any more, and w is its new state.            *)
LEMMA DoneKeeps ==
  ASSUME IInv, NEW c \in Conn, NEW w \in SenderState, snd' = [snd EXCEPT ![c] = w],
         w.st \in {"CLOSED", "DISABLED"}, snd[c].st # "NONE",
         w.st = "DISABLED" => Active(c) /\ snd[c].pkt \in confirmed',
         PacketInv', queue' \in Seq(Packet), confirmed \subseteq confirmed',
         confirmed' \subseteq Packet, faults' \in FaultCount,
         UNCHANGED <<submitted, received, rcv, up, link>>,
         down' \in [Conn -> Seq(Memory)],
         \A d \in Conn : down'[d] = down[d] \/ (down[d] # <<>> /\ down'[d] = Tail(down[d]))
  PROVE  IInv'
<1> USE DEF IInv
<1>1. SenderTypes'
  BY SetIs DEF SenderTypes
<1>2. PlaceInv'
  BY OpenedKept DEF PlaceInv
<1>3. NetTypes'
  BY DEF NetTypes
<1>4. \A d \in Conn : Keeps(d)
  BY PastKept
<1>5. IntakeInv'
  <2> SUFFICES ASSUME NEW d \in Conn PROVE Intake(d, rcv[d], up[d])'
    BY DEF IntakeInv
  <2> QED BY <1>4, IntakeKept DEF IntakeInv
<1> QED BY <1>1, <1>2, <1>3, <1>5, ReplyKept

LEMMA SendMoreKeeps ==
  ASSUME IInv, NEW c \in Conn, SendMore(c)
  PROVE  IInv'
<1> USE DEF IInv
<1>1. /\ snd[c].st \in {"SEND_HEADER", "SEND_BLOCK"} /\ Transmit(c, snd[c], queue)
      /\ UNCHANGED <<submitted, received, confirmed, rcv>>
  BY DEF SendMore, appVars
<1>2. Active(c) /\ snd[c].pkt \in submitted \ confirmed /\ snd[c].pkt \in Packet
  BY <1>1 DEF Active, PlaceInv, PacketInv, SenderTypes
<1>3. Sending(snd[c])
  BY <1>1, <1>2 DEF Sending, PlaceInv, BlockInv, SenderTypes
<1>4. faults' \in FaultCount
  BY <1>1, <1>3, TransmitIs
<1>5. CASE /\ snd' = [snd EXCEPT ![c] = NoSender("CLOSED")]
           /\ queue' = Append(queue, snd[c].pkt)
           /\ UNCHANGED netVars
  <2>1. NoSender("CLOSED") \in SenderState /\ NoSender("CLOSED").st = "CLOSED"
    BY NoSenderIs
  <2>2. Steady(Conn \ {c}) /\ ~Active(c)'
    BY <1>5, <2>1, SetSteady, SetIs DEF Working
  <2>3. PacketInv' /\ queue' \in Seq(Packet)
    BY <1>1, <1>2, <1>5, <2>2, PutBack DEF PlaceInv
  <2>4. confirmed' \subseteq Packet /\ down' \in [Conn -> Seq(Memory)]
    BY <1>1, <1>5 DEF SenderTypes, NetTypes, netVars
  <2> HIDE DEF IInv
  <2> QED BY <1>1, <1>2, <1>4, <1>5, <2>1, <2>3, <2>4, DoneKeeps DEF netVars, Active
<1>6. ASSUME NEW v \in SenderState, Onward(snd[c], v), snd' = [snd EXCEPT ![c] = v],
             queue' = queue,
             \/ UNCHANGED netVars
             \/ Reset(c)
             \/ /\ \E t : News(snd[c], v, t) /\ up' = [up EXCEPT ![c] = @ \o t]
                /\ UNCHANGED <<down, link>>
      PROVE  IInv'
  <2>1. SenderTypes'
    BY <1>1, <1>6, SetIs DEF SenderTypes
  <2>2. v.st \in Working /\ v.pkt = snd[c].pkt /\ v.st # "NONE"
        /\ (v.st = "SEND_BLOCK" => v.blk \in 1 .. Blocks[v.pkt])
    BY <1>6 DEF Onward, Working
  <2>3. Steady(Conn)
    BY <1>2, <1>6, <2>2, SetIs DEF Steady
  <2>4. PacketInv'
    BY <1>1, <1>6, <2>3, StayPut DEF PlaceInv
  <2>5. PlaceInv'
    BY <1>1, <1>6, <2>2, <2>4, OpenedKept DEF PlaceInv
  <2>6. PICK w : w = snd[c]
    OBVIOUS
  <2>7. NetTypes' /\ IntakeInv' /\ ReplyInv' /\ Intact'
    BY <1>1, <1>2, <1>3, <1>4, <1>6, <2>6, SendKeepsNet
  <2> QED BY <2>1, <2>5, <2>7
<1> QED BY <1>1, <1>3, <1>5, <1>6, TransmitIs

LEMMA SendFirstKeeps ==
  ASSUME IInv, NEW c \in Conn, SendFirst(c)
  PROVE  IInv'
<1> USE DEF IInv
<1>1. PICK w : w = [st |-> "SEND_HEADER", pkt |-> Head(queue), blk |-> 0, off |-> 0]
  OBVIOUS
<1>2. /\ snd[c].st = "DISABLED" /\ queue # <<>> /\ Transmit(c, w, Tail(queue))
      /\ UNCHANGED <<submitted, received, confirmed, rcv>>
  BY <1>1 DEF SendFirst, appVars
<1>3. /\ Tail(queue) \in Seq(Packet) /\ Head(queue) \in Packet
      /\ Head(queue) \in submitted \ confirmed
  BY <1>2, TailHas DEF SenderTypes, PlaceInv, PacketInv
<1>4. Sending(w) /\ w.pkt = Head(queue) /\ ~Active(c)
  BY <1>1, <1>2, <1>3, PacketIs DEF Sending, SenderState, Active
<1>5. faults' \in FaultCount
  BY <1>2, <1>4, TransmitIs
<1>6. CASE /\ snd' = [snd EXCEPT ![c] = NoSender("CLOSED")]
           /\ queue' = Append(Tail(queue), w.pkt)
           /\ UNCHANGED netVars
  <2>1. NoSender("CLOSED") \in SenderState /\ NoSender("CLOSED").st = "CLOSED"
    BY NoSenderIs
  <2>2. NoSender("CLOSED").st \notin Working
    BY <2>1 DEF Working
  <2>3. PacketInv' /\ queue' \in Seq(Packet)
    BY <1>2, <1>4, <1>6, <2>1, <2>2, PutLast DEF PlaceInv
  <2>4. confirmed' \subseteq Packet /\ down' \in [Conn -> Seq(Memory)]
    BY <1>2, <1>6 DEF SenderTypes, NetTypes, netVars
  <2> HIDE DEF IInv
  <2> QED BY <1>2, <1>5, <1>6, <2>1, <2>3, <2>4, DoneKeeps DEF netVars
<1>7. ASSUME NEW v \in SenderState, Onward(w, v), snd' = [snd EXCEPT ![c] = v],
             queue' = Tail(queue),
             \/ UNCHANGED netVars
             \/ Reset(c)
             \/ /\ \E t : News(w, v, t) /\ up' = [up EXCEPT ![c] = @ \o t]
                /\ UNCHANGED <<down, link>>
      PROVE  IInv'
  <2>1. SenderTypes'
    BY <1>2, <1>3, <1>7, SetIs DEF SenderTypes
  <2>2. v.st \in Working /\ v.pkt = w.pkt /\ v.st # "NONE"
        /\ (v.st = "SEND_BLOCK" => v.blk \in 1 .. Blocks[v.pkt])
    BY <1>7 DEF Onward, Working
  <2>3. PacketInv'
    BY <1>2, <1>4, <1>7, <2>2, TakePacket DEF PlaceInv
  <2>4. PlaceInv'
    BY <1>2, <1>7, <2>2, <2>3, OpenedKept DEF PlaceInv
  <2>5. NetTypes' /\ IntakeInv' /\ ReplyInv' /\ Intact'
    BY <1>2, <1>3, <1>4, <1>5, <1>7, SendKeepsNet
  <2> QED BY <2>1, <2>4, <2>5
<1> QED BY <1>2, <1>4, <1>6, <1>7, TransmitIs

(* The three ways in which waiting for a reply ends.                       *)
LEMMA RequeueKeeps ==
  ASSUME IInv, NEW c \in Conn, Active(c), Requeue(c, snd[c].pkt, queue),
         UNCHANGED <<submitted, confirmed, received, rcv, up, link, faults>>,
         down' \in [Conn -> Seq(Memory)],
         \A d \in Conn : down'[d] = down[d] \/ (down[d] # <<>> /\ down'[d] = Tail(down[d]))
  PROVE  IInv'
<1>1. /\ snd' = [snd EXCEPT ![c] = NoSender("CLOSED")]
      /\ queue' = Append(queue, snd[c].pkt)
  BY DEF Requeue
<1>2. NoSender("CLOSED") \in SenderState /\ NoSender("CLOSED").st = "CLOSED"
  BY NoSenderIs
<1>3. Steady(Conn \ {c}) /\ ~Active(c)'
  BY <1>1, <1>2, SetSteady, SetIs DEF Working, IInv
<1>4. PacketInv' /\ queue' \in Seq(Packet)
  BY <1>1, <1>3, PutBack DEF PlaceInv, IInv
<1>5. confirmed' \subseteq Packet /\ faults' \in FaultCount /\ snd[c].st # "NONE"
  BY DEF SenderTypes, NetTypes, IInv, Active
<1> QED BY <1>1, <1>2, <1>4, <1>5, DoneKeeps

LEMMA ConfirmKeeps ==
  ASSUME IInv, NEW c \in Conn, Active(c), NEW st \in {"DISABLED", "CLOSED"},
         snd' = [snd EXCEPT ![c] = NoSender(st)], confirmed' = confirmed \cup {snd[c].pkt},
         faults' \in FaultCount, UNCHANGED <<submitted, queue, received, rcv, up, link>>,
         down' \in [Conn -> Seq(Memory)],
         \A d \in Conn : down'[d] = down[d] \/ (down[d] # <<>> /\ down'[d] = Tail(down[d]))
  PROVE  IInv'
<1>1. NoSender(st) \in SenderState /\ NoSender(st).st = st /\ st \notin Working
  BY NoSenderIs DEF Working
<1>2. PacketInv' /\ confirmed' \subseteq Packet
  BY <1>1, Confirm DEF PlaceInv, IInv
<1>3. queue' \in Seq(Packet) /\ snd[c].st # "NONE" /\ snd[c].pkt \in confirmed'
  BY DEF SenderTypes, IInv, Active
<1> QED BY <1>1, <1>2, <1>3, DoneKeeps

LEMMA ReadReplyKeeps ==
  ASSUME IInv, NEW c \in Conn, ReadReply(c)
  PROVE  IInv'
<1>1. /\ snd[c].st = "READ_HEADER" /\ down[c] # <<>>
      /\ Respond(c, Head(down[c])) /\ down' = [down EXCEPT ![c] = Tail(@)]
      /\ UNCHANGED <<submitted, received, rcv, up, link>>
  BY DEF ReadReply
<1>2. Active(c)
  BY <1>1 DEF Active
<1>3. /\ down' \in [Conn -> Seq(Memory)]
      /\ \A d \in Conn : down'[d] = down[d] \/ (down[d] # <<>> /\ down'[d] = Tail(down[d]))
  <2>1. down \in [Conn -> Seq(Memory)] /\ Tail(down[c]) \in Seq(Memory)
    BY <1>1 DEF IInv, NetTypes
  <2> QED BY <1>1, <2>1
<1>4. faults \in FaultCount
  BY DEF IInv, NetTypes
<1>5. CASE Digest(Head(down[c])) = Whole(snd[c].pkt)
  <2>1. confirmed' = confirmed \cup {snd[c].pkt} /\ UNCHANGED queue
    BY <1>1, <1>5 DEF Respond
  <2>2. \/ snd' = [snd EXCEPT ![c] = NoSender("DISABLED")] /\ faults' = faults
        \/ snd' = [snd EXCEPT ![c] = NoSender("CLOSED")] /\ Interrupt(faults)
    BY <1>1, <1>5 DEF Respond
  <2>3. faults' \in FaultCount
    BY <1>4, <2>2, FaultIs DEF Interrupt
  <2> QED BY <1>1, <1>2, <1>3, <2>1, <2>2, <2>3, ConfirmKeeps
<1>6. CASE Digest(Head(down[c])) # Whole(snd[c].pkt)
  <2>1. Requeue(c, snd[c].pkt, queue) /\ UNCHANGED <<confirmed, faults>>
    BY <1>1, <1>6 DEF Respond
  <2> QED BY <1>1, <1>2, <1>3, <2>1, RequeueKeeps
<1> QED BY <1>5, <1>6

LEMMA ReadNoReplyKeeps ==
  ASSUME IInv, NEW c \in Conn, ReadNoReply(c)
  PROVE  IInv' /\ faults'.blind = faults.blind + 1
<1>1. /\ snd[c].st = "READ_HEADER" /\ snd' = [snd EXCEPT ![c] = NoSender("DISABLED")]
      /\ confirmed' = confirmed \cup {snd[c].pkt} /\ Fault(faults, "blind", MaxBlind)
      /\ UNCHANGED <<submitted, received, queue, rcv, up, down, link>>
  BY DEF ReadNoReply, netVars
<1>2. Active(c)
  BY <1>1 DEF Active
<1>3. faults' \in FaultCount /\ faults'.blind = faults.blind + 1
  <2>1. faults \in FaultCount
    BY DEF IInv, NetTypes
  <2>2. faults' = [faults EXCEPT !["blind"] = @ + 1]
    BY <1>1 DEF Fault
  <2> QED BY <2>1, <2>2 DEF FaultCount
<1>4. down' \in [Conn -> Seq(Memory)] /\ \A d \in Conn : down'[d] = down[d]
  BY <1>1 DEF IInv, NetTypes
<1> QED BY <1>1, <1>2, <1>3, <1>4, ConfirmKeeps

LEMMA ReplyFailsKeeps ==
  ASSUME IInv, NEW c \in Conn, ReplyFails(c)
  PROVE  IInv'
<1>1. /\ snd[c].st = "READ_HEADER" /\ Requeue(c, snd[c].pkt, queue)
      /\ UNCHANGED <<submitted, confirmed, received, rcv, up, down, link, faults>>
  BY DEF ReplyFails, appVars, netVars
<1>2. down' \in [Conn -> Seq(Memory)] /\ \A d \in Conn : down'[d] = down[d]
  BY <1>1 DEF IInv, NetTypes
<1>3. Active(c)
  BY <1>1 DEF Active
<1> QED BY <1>1, <1>2, <1>3, RequeueKeeps

LEMMA ReconnectKeeps ==
  ASSUME IInv, NEW c \in Conn, Reconnect(c)
  PROVE  IInv'
<1> USE DEF IInv
<1>1. /\ snd[c].st \notin {"NONE", "CLOSED"}
      /\ queue' = IF snd[c].st = "DISABLED" THEN queue ELSE Append(queue, snd[c].pkt)
      /\ UNCHANGED <<submitted, received, confirmed, rcv, up, down, faults>>
  BY DEF Reconnect, appVars, Open
<1>2. PICK d \in Unused :
        /\ \A e \in Unused : d <= e
        /\ snd' = [snd EXCEPT ![c] = NoSender("CLOSED"), ![d] = NoSender("DISABLED")]
        /\ \E l \in {"up", "reset"} : link' = [link EXCEPT ![d] = l]
  BY DEF Reconnect
<1>3. PICK k \in 0 .. MaxSocket : \A e \in Conn : snd[e].st = "NONE" <=> e > k
  BY DEF PlaceInv, Opened
<1>4. d \in Conn /\ snd[d].st = "NONE" /\ d # c
  BY <1>1, <1>2 DEF Unused
<1>5. d = k + 1 /\ k + 1 \in 0 .. MaxSocket
  <2>1. d \in Nat /\ d > k /\ d <= MaxSocket /\ k \in Nat
    BY <1>3, <1>4 DEF Conn
  <2>2. k + 1 \in Conn
    BY <2>1 DEF Conn
  <2>3. k + 1 \in Unused
    BY <1>3, <2>1, <2>2 DEF Unused
  <2>4. d <= k + 1
    BY <1>2, <2>3
  <2> QED BY <2>1, <2>4
<1>6. /\ NoSender("CLOSED") \in SenderState /\ NoSender("CLOSED").st = "CLOSED"
      /\ NoSender("DISABLED") \in SenderState /\ NoSender("DISABLED").st = "DISABLED"
  BY NoSenderIs
<1>7. /\ snd' \in [Conn -> SenderState]
      /\ snd'[c] = NoSender("CLOSED") /\ snd'[d] = NoSender("DISABLED")
      /\ \A e \in Conn \ {c, d} : snd'[e] = snd[e]
  BY <1>2, <1>4, <1>6 DEF SenderTypes
<1>8. ~Active(c)' /\ Steady(Conn \ {c})
  BY <1>4, <1>6, <1>7 DEF Active, Steady
<1>9. PacketInv' /\ queue' \in Seq(Packet)
  <2>1. CASE snd[c].st = "DISABLED"
    <3>1. Steady(Conn) /\ queue' = queue
      BY <1>1, <1>8, <2>1 DEF Active, Steady
    <3> QED BY <1>1, <3>1, StayPut DEF PlaceInv, SenderTypes
  <2>2. CASE snd[c].st # "DISABLED"
    <3>1. snd[c].st \in {"NONE", "DISABLED", "CLOSED", "SEND_HEADER", "SEND_BLOCK", "READ_HEADER"}
      BY DEF SenderTypes, SenderState
    <3>2. Active(c) /\ queue' = Append(queue, snd[c].pkt)
      BY <1>1, <2>2, <3>1 DEF Active
    <3> QED BY <1>1, <1>8, <3>2, PutBack DEF PlaceInv
  <2> QED BY <2>1, <2>2
<1>10. PlaceInv'
  <2>1. \A e \in Conn : snd'[e].st = "NONE" <=> e > k + 1
    <3> SUFFICES ASSUME NEW e \in Conn PROVE snd'[e].st = "NONE" <=> e > k + 1
      OBVIOUS
    <3>1. CASE e = c
      BY <1>1, <1>3, <1>6, <1>7, <3>1 DEF Conn
    <3>2. CASE e = d
      BY <1>3, <1>5, <1>6, <1>7, <3>2 DEF Conn
    <3>3. CASE e \notin {c, d}
      BY <1>3, <1>5, <1>7, <3>3 DEF Conn
    <3> QED BY <3>1, <3>2, <3>3
  <2>2. Opened'
    BY <1>5, <2>1 DEF Opened
  <2>3. BlockInv'
    BY <1>6, <1>7 DEF PlaceInv, BlockInv
  <2> QED BY <1>9, <2>2, <2>3 DEF PlaceInv
<1>11. SenderTypes'
  BY <1>1, <1>7, <1>9 DEF SenderTypes
<1>12. NetTypes'
  BY <1>1, <1>2 DEF NetTypes
<1>13. \A e \in Conn : Keeps(e)
  <2> SUFFICES ASSUME NEW e \in Conn, NEW u \in Unit, Past(e, u) PROVE Past(e, u)'
    BY DEF Keeps
  <2>1. CASE e = c
    BY <1>6, <1>7, <2>1 DEF Past
  <2>2. CASE e = d
    BY <1>1, <1>4, <2>2 DEF Past, Carries, Active
  <2>3. CASE e \notin {c, d}
    <3>1. snd'[e] = snd[e]
      BY <1>7, <2>3
    <3> QED BY <1>1, <3>1 DEF Past, Carries, Active
  <2> QED BY <2>1, <2>2, <2>3
<1>14. IntakeInv'
  <2> SUFFICES ASSUME NEW e \in Conn PROVE Intake(e, rcv[e], up[e])'
    BY DEF IntakeInv
  <2> QED BY <1>1, <1>13, IntakeKept DEF IntakeInv
<1> QED BY <1>1, <1>10, <1>11, <1>12, <1>14, ReplyKept

-----------------------------------------------------------------------------
(* The steps of the receiver.                                              *)

(* A receiver hears what it heard before, or less.                         *)
LEMMA ReceiverKeeps ==
  ASSUME IInv, NEW c \in Conn, NEW r \in ReceiverState, NEW s \in Seq(Unit),
         rcv' = [rcv EXCEPT ![c] = r], up' = [up EXCEPT ![c] = s], Once(r, s),
         Heard(r, s) \subseteq Heard(rcv[c], up[c]) \cup {Garbage},
         UNCHANGED <<submitted, confirmed, snd, queue>>,
         faults' \in FaultCount, down' \in [Conn -> Seq(Memory)],
         link' \in [Conn -> {"up", "reset"}]
  PROVE  SenderTypes' /\ PlaceInv' /\ NetTypes' /\ IntakeInv'
<1> USE DEF IInv
<1>1. SenderTypes'
  BY DEF SenderTypes
<1>2. PlaceInv'
  <2>1. Steady(Conn)
    BY DEF Steady, Active
  <2>2. PacketInv'
    BY <2>1, StayPut DEF PlaceInv
  <2> QED BY <2>2 DEF PlaceInv, Opened, BlockInv
<1>3. /\ rcv' \in [Conn -> ReceiverState] /\ up' \in [Conn -> Seq(Unit)]
      /\ rcv'[c] = r /\ up'[c] = s
      /\ \A d \in Conn \ {c} : rcv'[d] = rcv[d] /\ up'[d] = up[d]
  BY DEF NetTypes
<1>4. NetTypes'
  BY <1>3 DEF NetTypes
<1>5. \A d \in Conn : Keeps(d) /\ \A u : Known(d, u)' <=> Known(d, u)
  BY DEF Keeps, Past, Carries, Active, Known
<1>6. IntakeInv'
  <2>1. Intake(c, rcv[c], up[c])'
    <3>1. \A u \in Heard(r, s) \ {Garbage} : Known(c, u)
      BY DEF IntakeInv, Intake
    <3>2. \A u \in Heard(r, s) \ {Garbage} : Known(c, u)'
      BY <1>5, <3>1
    <3> QED BY <1>3, <3>2 DEF Intake
  <2>2. ASSUME NEW d \in Conn \ {c} PROVE Intake(d, rcv[d], up[d])'
    BY <1>3, <1>5, IntakeKept DEF IntakeInv
  <2> QED BY <2>1, <2>2 DEF IntakeInv
<1> QED BY <1>1, <1>2, <1>4, <1>6

(* A reply becomes due, or goes out, for what has been handed over.        *)
LEMMA ReplyStep ==
  ASSUME ReplyInv, received \subseteq received',
         \A d \in Conn : rcv'[d].st = "SEND_HEADER" =>
           rcv'[d] = rcv[d] \/ <<d, Digest(rcv'[d].hdr)>> \in received',
         \A d \in Conn :
           \/ down'[d] = down[d] \/ down'[d] = <<>>
           \/ \A i \in 1 .. Len(down'[d]) : <<d, Digest(down'[d][i])>> \in received'
  PROVE  ReplyInv'
<1>1. ASSUME NEW d \in Conn, rcv'[d].st = "SEND_HEADER"
      PROVE  <<d, Digest(rcv'[d].hdr)>> \in received'
  <2>1. CASE rcv'[d] = rcv[d]
    <3>1. <<d, Digest(rcv[d].hdr)>> \in received
      BY <1>1, <2>1 DEF ReplyInv
    <3> QED BY <2>1, <3>1
  <2> QED BY <1>1, <2>1
<1>2. ASSUME NEW d \in Conn, NEW i \in 1 .. Len(down'[d])
      PROVE  <<d, Digest(down'[d][i])>> \in received'
  <2>1. CASE down'[d] = down[d]
    <3>1. <<d, Digest(down[d][i])>> \in received
      BY <1>2, <2>1 DEF ReplyInv
    <3> QED BY <2>1, <3>1
  <2>2. CASE down'[d] = <<>>
    BY <1>2, <2>2
  <2> QED BY <1>2, <2>1, <2>2
<1> QED BY <1>1, <1>2 DEF ReplyInv

LEMMA AcceptKeeps ==
  ASSUME IInv, NEW c \in Conn, Accept(c)
  PROVE  IInv'
<1>1. /\ rcv' = [rcv EXCEPT ![c] = NoReceiver("READ_HEADER")]
      /\ UNCHANGED <<submitted, confirmed, received, snd, queue, up, down, link, faults>>
  BY DEF Accept, appVars, senderVars, netVars
<1>2. /\ NoReceiver("READ_HEADER") \in ReceiverState
      /\ NoReceiver("READ_HEADER").st = "READ_HEADER"
  BY NoReceiverIs
<1>3. rcv[c] \in ReceiverState /\ up[c] \in Seq(Unit) /\ Once(rcv[c], up[c])
  BY UnitsSubmitted DEF IInv, IntakeInv, Intake
<1>4. /\ Once(NoReceiver("READ_HEADER"), up[c])
      /\ Heard(NoReceiver("READ_HEADER"), up[c]) \subseteq Heard(rcv[c], up[c]) \cup {Garbage}
  BY <1>3, Forgets
<1>5. /\ faults' \in FaultCount /\ down' \in [Conn -> Seq(Memory)]
      /\ link' \in [Conn -> {"up", "reset"}] /\ up' = [up EXCEPT ![c] = up[c]]
  BY <1>1 DEF IInv, NetTypes
<1>6. SenderTypes' /\ PlaceInv' /\ NetTypes' /\ IntakeInv'
  BY <1>1, <1>2, <1>3, <1>4, <1>5, ReceiverKeeps
<1>7. ReplyInv' /\ Intact'
  <2>1. \A d \in Conn : rcv'[d].st = "SEND_HEADER" => rcv'[d] = rcv[d]
    BY <1>1, <1>2 DEF IInv, NetTypes
  <2>2. ReplyInv'
    BY <1>1, <2>1, ReplyStep DEF IInv
  <2> QED BY <1>1, <2>2 DEF IInv, Intact
<1> QED BY <1>6, <1>7 DEF IInv

LEMMA CloseIs ==
  ASSUME NetTypes, NEW c \in Conn, NEW s, CloseReceiver(c, s)
  PROVE  /\ rcv' = [rcv EXCEPT ![c] = NoReceiver("CLOSED")]
         /\ up' = [up EXCEPT ![c] = <<>>]
         /\ down' \in [Conn -> Seq(Memory)] /\ link' \in [Conn -> {"up", "reset"}]
         /\ \A d \in Conn : down'[d] = down[d] \/ down'[d] = <<>>
<1>1. CASE s # <<>>
  <2>1. rcv' = [rcv EXCEPT ![c] = NoReceiver("CLOSED")] /\ Reset(c)
    BY <1>1 DEF CloseReceiver
  <2>2. up' = [up EXCEPT ![c] = <<>>]
    BY <2>1 DEF Reset
  <2> QED BY <2>1, <2>2, ResetIs
<1>2. CASE s = <<>>
  BY <1>2 DEF CloseReceiver, NetTypes
<1> QED BY <1>1, <1>2

(* The receiver waits for the next block of the packet.                    *)
Continues(r, next) ==
  /\ next \in ReceiverState /\ next.st = "READ_BLOCK"
  /\ next.hdr = r.hdr /\ next.buf = r.buf

(* Blocks that agree with their headers and, together, with the header of  *)
(* the packet.                                                             *)
Verified(r) ==
  \E d \in Seq(Memory) :
    Digest(r.hdr) = Append(d, r.buf[2]) /\ Digest(r.buf[1]) = <<r.buf[2]>>

Delivered(c, r) == Verified(r) /\ received' = received \cup {<<c, Digest(r.hdr)>>}

LEMMA ReceiverFields ==
  ASSUME NEW r \in ReceiverState
  PROVE  /\ r.hdr \in Memory /\ r.buf \in [1 .. 2 -> Memory] /\ r.data \in Seq(Memory)
         /\ r.off \in 0 .. 1 /\ r.size \in Nat
         /\ r = [st |-> r.st, hdr |-> r.hdr, size |-> r.size, buf |-> r.buf, off |-> r.off,
                 data |-> r.data]
BY DEF ReceiverState

LEMMA SetReceived ==
  ASSUME NEW r \in ReceiverState, NEW o \in 0 .. 1, NEW next, next = [r EXCEPT !.off = o]
  PROVE  /\ next \in ReceiverState /\ next.st = r.st /\ next.hdr = r.hdr
         /\ next.buf = r.buf /\ next.data = r.data /\ next.off = o
BY DEF ReceiverState

LEMMA HeaderReadIs ==
  ASSUME NetTypes, NEW c \in Conn, NEW r \in ReceiverState, NEW s \in Seq(Unit),
         NEW f \in FaultCount, HeaderRead(c, r, s, f)
  PROVE  /\ faults' \in FaultCount /\ faults'.blind = f.blind /\ UNCHANGED received
         /\ \/ /\ \E next : Continues(r, next) /\ rcv' = [rcv EXCEPT ![c] = next]
               /\ up' = [up EXCEPT ![c] = s] /\ UNCHANGED <<down, link>>
            \/ CloseReceiver(c, s)
<1>1. CASE /\ \E n \in Sizes(r.hdr) :
                rcv' = [rcv EXCEPT ![c] = [r EXCEPT !.st = "READ_BLOCK", !.size = n, !.off = 0]]
           /\ up' = [up EXCEPT ![c] = s]
           /\ faults' = f
           /\ UNCHANGED <<received, down, link>>
  <2>1. PICK n \in Sizes(r.hdr) :
          rcv' = [rcv EXCEPT ![c] = [r EXCEPT !.st = "READ_BLOCK", !.size = n, !.off = 0]]
    BY <1>1
  <2>2. PICK next : next = [r EXCEPT !.st = "READ_BLOCK", !.size = n, !.off = 0]
    OBVIOUS
  <2>3. n \in Nat
    BY <2>1, SizeIs, ReceiverFields
  <2>4. PICK x : x = [r EXCEPT !.st = "READ_BLOCK"]
    OBVIOUS
  <2>5. PICK y : y = [x EXCEPT !.size = n]
    OBVIOUS
  <2>6. next = [y EXCEPT !.off = 0]
    BY <2>2, <2>4, <2>5
  <2>7. x \in ReceiverState /\ x.st = "READ_BLOCK" /\ x.hdr = r.hdr /\ x.buf = r.buf
    BY <2>4 DEF ReceiverState
  <2>8. y \in ReceiverState /\ y.st = "READ_BLOCK" /\ y.hdr = r.hdr /\ y.buf = r.buf
    BY <2>3, <2>5, <2>7 DEF ReceiverState
  <2>9. next \in ReceiverState /\ next.st = "READ_BLOCK" /\ next.hdr = r.hdr /\ next.buf = r.buf
    <3>1. 0 \in 0 .. 1
      OBVIOUS
    <3> QED BY <2>6, <2>8, <3>1, SetReceived
  <2>10. Continues(r, next) /\ rcv' = [rcv EXCEPT ![c] = next]
    BY <2>1, <2>2, <2>9 DEF Continues
  <2> QED BY <1>1, <2>10
<1>2. CASE Interrupt(f) /\ CloseReceiver(c, s) /\ UNCHANGED received
  <2>1. faults' \in FaultCount /\ faults'.blind = f.blind
    BY <1>2, FaultIs DEF Interrupt
  <2> QED BY <1>2, <2>1
<1> QED BY <1>1, <1>2 DEF HeaderRead

LEMMA BlockReadIs ==
  ASSUME NetTypes, NEW c \in Conn, NEW r \in ReceiverState, NEW s \in Seq(Unit),
         r.st = "READ_BLOCK", NEW f \in FaultCount, BlockRead(c, r, s, f)
  PROVE  /\ faults' \in FaultCount /\ faults'.blind = f.blind
         /\ \/ /\ \E next : Continues(r, next) /\ rcv' = [rcv EXCEPT ![c] = next]
               /\ up' = [up EXCEPT ![c] = s] /\ UNCHANGED <<down, link, received>>
            \/ /\ Delivered(c, r)
               /\ rcv' = [rcv EXCEPT ![c] = [NoReceiver("SEND_HEADER") EXCEPT !.hdr = r.hdr]]
               /\ up' = [up EXCEPT ![c] = s] /\ UNCHANGED <<down, link>>
            \/ CloseReceiver(c, s) /\ (UNCHANGED received \/ Delivered(c, r))
<1> DEFINE more == [r EXCEPT !.data = Append(@, r.buf[2]), !.off = 0]
<1>1. PICK x : x = [r EXCEPT !.data = Append(@, r.buf[2])]
  OBVIOUS
<1>2. more = [x EXCEPT !.off = 0]
  BY <1>1
<1>3. Append(r.data, r.buf[2]) \in Seq(Memory)
  <2>1. r.data \in Seq(Memory) /\ r.buf[2] \in Memory
    BY ReceiverFields
  <2> QED BY <2>1
<1>4. /\ x \in ReceiverState /\ x.st = "READ_BLOCK" /\ x.hdr = r.hdr /\ x.buf = r.buf
      /\ x.data = Append(r.data, r.buf[2])
  BY <1>1, <1>3 DEF ReceiverState
<1>5. /\ more \in ReceiverState /\ more.st = "READ_BLOCK"
      /\ more.hdr = r.hdr /\ more.buf = r.buf /\ more.data = Append(r.data, r.buf[2])
  <2>1. PICK y : y = [x EXCEPT !.off = 0]
    OBVIOUS
  <2>2. /\ y \in ReceiverState /\ y.st = "READ_BLOCK"
        /\ y.hdr = r.hdr /\ y.buf = r.buf /\ y.data = Append(r.data, r.buf[2])
    <3>1. 0 \in 0 .. 1
      OBVIOUS
    <3> QED BY <1>4, <2>1, <3>1, SetReceived
  <2> QED BY <1>2, <2>1, <2>2
<1>6. Continues(r, more)
  BY <1>5 DEF Continues
<1> HIDE DEF more
<1>7. CASE /\ Digest(r.buf[1]) # <<r.buf[2]>>
           /\ CloseReceiver(c, s) /\ faults' = f /\ UNCHANGED received
  BY <1>7
<1>8. CASE /\ rcv' = [rcv EXCEPT ![c] = more]
           /\ up' = [up EXCEPT ![c] = s]
           /\ faults' = f
           /\ UNCHANGED <<received, down, link>>
  BY <1>6, <1>8
<1>9. CASE Digest(r.buf[1]) = <<r.buf[2]>> /\ WholeRead(c, more, s, f)
  <2>1. CASE more.data = Digest(r.hdr) /\ HandOver(c, more, s, f)
    <3>1. Delivered(c, r)
      <4>1. Digest(r.hdr) = Append(r.data, r.buf[2]) /\ r.data \in Seq(Memory)
        BY <1>5, <2>1, ReceiverFields
      <4>2. Verified(r)
        BY <1>9, <4>1 DEF Verified
      <4>3. received' = received \cup {<<c, Digest(r.hdr)>>}
        BY <2>1 DEF HandOver
      <4> QED BY <4>2, <4>3 DEF Delivered
    <3>2. CASE /\ rcv' = [rcv EXCEPT ![c] = [NoReceiver("SEND_HEADER") EXCEPT !.hdr = more.hdr]]
               /\ up' = [up EXCEPT ![c] = s]
               /\ faults' = f
               /\ UNCHANGED <<down, link>>
      BY <1>5, <3>1, <3>2
    <3>3. CASE Interrupt(f) /\ CloseReceiver(c, s)
      <4>1. faults' \in FaultCount /\ faults'.blind = f.blind
        BY <3>3, FaultIs DEF Interrupt
      <4> QED BY <3>1, <3>3, <4>1
    <3> QED BY <2>1, <3>2, <3>3 DEF HandOver
  <2>2. CASE CloseReceiver(c, s) /\ faults' = f /\ UNCHANGED received
    BY <2>2
  <2> QED BY <1>5, <1>9, <2>1, <2>2 DEF WholeRead
<1> QED BY <1>7, <1>8, <1>9 DEF BlockRead, more

(* What passes the two tests is a packet: a block would need its header    *)
(* twice, once for the packet's.                                           *)
LEMMA VerifiedIsWhole ==
  ASSUME NEW c \in Conn, NEW r \in ReceiverState, NEW s \in Seq(Unit), Intake(c, r, s), Verified(r)
  PROVE  \E p \in submitted : Digest(r.hdr) = Whole(p)
<1>1. /\ r.hdr \in Memory /\ r.buf[1] \in Memory /\ r.buf[2] \in Memory
      /\ r.hdr \in Heard(r, s) /\ r.buf[1] \in Heard(r, s)
  BY ReceiverFields DEF Heard
<1>2. PICK d \in Seq(Memory) :
        Digest(r.hdr) = Append(d, r.buf[2]) /\ Digest(r.buf[1]) = <<r.buf[2]>>
  BY DEF Verified
<1>3. Digest(r.hdr) # <<>> /\ Digest(r.buf[1]) # <<>>
  <2>1. Len(Append(d, r.buf[2])) = Len(d) + 1 /\ Len(d) \in Nat
    BY <1>1
  <2>2. Append(d, r.buf[2]) # <<>>
    <3>1. Len(<<>>) = 0
      OBVIOUS
    <3>2. Len(Append(d, r.buf[2])) # 0
      BY <2>1
    <3> QED BY <3>1, <3>2, Zenon
  <2>3. <<r.buf[2]>> # <<>>
    OBVIOUS
  <2> QED BY <1>2, <2>2, <2>3, Zenon
<1>4. /\ r.hdr \in Unit /\ r.buf[1] \in Unit /\ r.hdr # Garbage /\ r.buf[1] # Garbage
      /\ r.hdr[2] \in Int /\ r.buf[1][2] \in Int
      /\ ~(r.hdr[2] > 0) /\ ~(r.buf[1][2] > 0)
  BY <1>1, <1>3, DigestIs, UnitIs DEF Memory
<1>5. r.hdr[1] \in submitted /\ r.buf[1][1] \in submitted
  BY <1>1, <1>4 DEF Intake, Known
<1>6. CASE r.hdr[2] = 0
  BY <1>4, <1>5, <1>6, DigestIs
<1>7. CASE r.hdr[2] < 0
  <2>1. Digest(r.hdr) = << <<r.hdr[1], -r.hdr[2]>> >>
    BY <1>4, <1>7, DigestIs
  <2>2. r.buf[2] = <<r.hdr[1], -r.hdr[2]>>
    <3>1. Len(Append(d, r.buf[2])) = Len(d) + 1 /\ Append(d, r.buf[2])[Len(d) + 1] = r.buf[2]
          /\ Len(d) \in Nat
      BY <1>1
    <3>2. PICK x : x = <<r.hdr[1], -r.hdr[2]>>
      OBVIOUS
    <3>3. Append(d, r.buf[2]) = <<x>>
      BY <1>2, <2>1, <3>2
    <3>4. Len(<<x>>) = 1 /\ <<x>>[1] = x
      OBVIOUS
    <3>5. Len(d) = 0
      BY <3>1, <3>3, <3>4
    <3> QED BY <3>1, <3>2, <3>3, <3>4, <3>5
  <2>3. Digest(r.buf[1]) = Digest(r.hdr)
    BY <1>2, <2>1, <2>2
  <2>4. CASE r.buf[1][2] = 0
    BY <1>4, <1>5, <2>3, <2>4, DigestIs
  <2>5. CASE r.buf[1][2] < 0
    <3>1. Digest(r.buf[1]) = << <<r.buf[1][1], -r.buf[1][2]>> >>
      BY <1>4, <2>5, DigestIs
    <3>2. << <<r.buf[1][1], -r.buf[1][2]>> >> = << <<r.hdr[1], -r.hdr[2]>> >>
      BY <2>1, <2>3, <3>1
    <3>3. r.buf[1][1] = r.hdr[1] /\ -r.buf[1][2] = -r.hdr[2]
      BY <3>2
    <3>4. r.buf[1] = <<r.buf[1][1], r.buf[1][2]>> /\ r.hdr = <<r.hdr[1], r.hdr[2]>>
      BY <1>4, UnitIs
    <3>5. r.buf[1][2] = r.hdr[2]
      BY <1>4, <3>3
    <3>6. r.buf[1] = r.hdr
      BY <3>3, <3>4, <3>5
    <3> QED BY <1>7, <3>6 DEF Intake, Once
  <2> QED BY <1>4, <2>4, <2>5
<1> QED BY <1>4, <1>6, <1>7

(* What the receiver does with a message r that is complete, s being what  *)
(* comes behind it.                                                        *)
LEMMA MessageKeeps ==
  ASSUME IInv, NEW c \in Conn, NEW r \in ReceiverState, NEW s \in Seq(Unit), Once(r, s),
         Heard(r, s) \subseteq Heard(rcv[c], up[c]), NEW f \in FaultCount,
         r.st \in {"READ_HEADER", "READ_BLOCK"}, MessageRead(c, r, s, f),
         UNCHANGED <<submitted, confirmed, senderVars>>
  PROVE  IInv' /\ faults'.blind = f.blind /\ received \subseteq received'
<1> USE DEF IInv
<1>1. UNCHANGED <<submitted, confirmed, snd, queue>> /\ rcv \in [Conn -> ReceiverState]
  BY DEF senderVars, NetTypes
<1>2. /\ faults' \in FaultCount /\ faults'.blind = f.blind
      /\ UNCHANGED received \/ Delivered(c, r)
      /\ \/ /\ \E next : Continues(r, next) /\ rcv' = [rcv EXCEPT ![c] = next]
            /\ up' = [up EXCEPT ![c] = s] /\ UNCHANGED <<down, link>>
         \/ /\ Delivered(c, r)
            /\ rcv' = [rcv EXCEPT ![c] = [NoReceiver("SEND_HEADER") EXCEPT !.hdr = r.hdr]]
            /\ up' = [up EXCEPT ![c] = s] /\ UNCHANGED <<down, link>>
         \/ CloseReceiver(c, s)
  <2>1. CASE r.st = "READ_HEADER"
    <3>1. HeaderRead(c, r, s, f)
      BY <2>1 DEF MessageRead
    <3> QED BY <3>1, HeaderReadIs
  <2>2. CASE r.st = "READ_BLOCK"
    <3>1. BlockRead(c, r, s, f)
      BY <2>2 DEF MessageRead
    <3> QED BY <2>2, <3>1, BlockReadIs
  <2> QED BY <2>1, <2>2
<1>3. \A u \in Heard(r, s) \ {Garbage} : Known(c, u)
  BY DEF IntakeInv, Intake
<1>4. received \subseteq received' /\ Intact'
  <2>1. CASE UNCHANGED received
    BY <1>1, <2>1 DEF Intact
  <2>2. CASE Delivered(c, r)
    <3>1. Intake(c, r, s)
      BY <1>3 DEF Intake
    <3>2. PICK p \in submitted : Digest(r.hdr) = Whole(p)
      BY <2>2, <3>1, VerifiedIsWhole DEF Delivered
    <3>3. received' = received \cup {<<c, Digest(r.hdr)>>}
      BY <2>2 DEF Delivered
    <3>4. ASSUME NEW x \in received' PROVE \E q \in submitted : x[2] = Whole(q)
      <4>1. CASE x \in received
        BY <4>1 DEF Intact
      <4>2. CASE x = <<c, Digest(r.hdr)>>
        BY <3>2, <4>2
      <4> QED BY <3>3, <3>4, <4>1, <4>2
    <3>5. \A x \in received' : \E q \in submitted' : x[2] = Whole(q)
      BY <1>1, <3>4
    <3> QED BY <3>3, <3>5 DEF Intact
  <2> QED BY <1>2, <2>1, <2>2
<1>5. ASSUME NEW next, Continues(r, next), rcv' = [rcv EXCEPT ![c] = next],
             up' = [up EXCEPT ![c] = s], UNCHANGED <<down, link>>
      PROVE  IInv'
  <2>1. /\ next \in ReceiverState /\ next.st = "READ_BLOCK"
        /\ next.hdr = r.hdr /\ next.buf = r.buf
    BY <1>5 DEF Continues
  <2>2. Once(next, s) /\ Heard(next, s) = Heard(r, s)
    BY <2>1 DEF Once, Heard
  <2>3. down' \in [Conn -> Seq(Memory)] /\ link' \in [Conn -> {"up", "reset"}]
    BY <1>5 DEF NetTypes
  <2>4. SenderTypes' /\ PlaceInv' /\ NetTypes' /\ IntakeInv'
    BY <1>1, <1>2, <1>5, <2>1, <2>2, <2>3, ReceiverKeeps
  <2>5. \A d \in Conn : rcv'[d].st = "SEND_HEADER" => rcv'[d] = rcv[d]
    BY <1>1, <1>5, <2>1
  <2>6. ReplyInv'
    BY <1>4, <1>5, <2>5, ReplyStep
  <2> QED BY <1>4, <2>4, <2>6
<1>6. CASE /\ Delivered(c, r)
           /\ rcv' = [rcv EXCEPT ![c] = [NoReceiver("SEND_HEADER") EXCEPT !.hdr = r.hdr]]
           /\ up' = [up EXCEPT ![c] = s] /\ UNCHANGED <<down, link>>
  <2>1. PICK next : next = [NoReceiver("SEND_HEADER") EXCEPT !.hdr = r.hdr]
    OBVIOUS
  <2>2. r.hdr \in Memory
    BY ReceiverFields
  <2>3. /\ NoReceiver("SEND_HEADER") \in ReceiverState
        /\ NoReceiver("SEND_HEADER").st = "SEND_HEADER"
        /\ NoReceiver("SEND_HEADER").buf[1] = Garbage
    BY NoReceiverIs
  <2>4. /\ next \in ReceiverState /\ next.st = "SEND_HEADER"
        /\ next.hdr = r.hdr /\ next.buf[1] = Garbage
    <3>1. PICK x : x = NoReceiver("SEND_HEADER")
      OBVIOUS
    <3>2. next = [x EXCEPT !.hdr = r.hdr]
      BY <2>1, <3>1
    <3>3. x \in ReceiverState /\ x.st = "SEND_HEADER" /\ x.buf[1] = Garbage
      BY <2>3, <3>1
    <3> QED BY <2>2, <3>2, <3>3 DEF ReceiverState
  <2>5. Once(next, s)
    <3>1. \A i \in 1 .. Len(s) : s[i] # Garbage
      <4>1. \A i \in 1 .. Len(s) : s[i] \in Unit
        OBVIOUS
      <4> QED BY <4>1, UnitIs
    <3>2. \A i \in 1 .. Len(s) : s[i][2] < 0 => s[i] # r.hdr
      BY DEF Once
    <3>3. \A i, j \in 1 .. Len(s) : s[i] = s[j] /\ s[i][2] < 0 => i = j
      BY DEF Once
    <3>4. r.hdr[2] < 0 => r.hdr # Garbage
      BY DEF Garbage
    <3> QED BY <2>4, <3>1, <3>2, <3>3, <3>4 DEF Once
  <2>6. Heard(next, s) \subseteq Heard(rcv[c], up[c]) \cup {Garbage}
    <3>1. Heard(next, s) \subseteq Heard(r, s) \cup {Garbage}
      BY <2>4 DEF Heard
    <3> QED BY <3>1
  <2>7. down' \in [Conn -> Seq(Memory)] /\ link' \in [Conn -> {"up", "reset"}]
    BY <1>6 DEF NetTypes
  <2>8. rcv' = [rcv EXCEPT ![c] = next]
    BY <1>6, <2>1
  <2>9. SenderTypes' /\ PlaceInv' /\ NetTypes' /\ IntakeInv'
    BY <1>1, <1>2, <1>6, <2>4, <2>5, <2>6, <2>7, <2>8, ReceiverKeeps
  <2>10. <<c, Digest(next.hdr)>> \in received'
    BY <1>6, <2>4 DEF Delivered
  <2>11. \A d \in Conn : rcv'[d].st = "SEND_HEADER" =>
           rcv'[d] = rcv[d] \/ <<d, Digest(rcv'[d].hdr)>> \in received'
    <3> SUFFICES ASSUME NEW d \in Conn
                 PROVE  rcv'[d] = rcv[d] \/ <<d, Digest(rcv'[d].hdr)>> \in received'
      OBVIOUS
    <3>1. CASE d = c
      <4>1. rcv'[d] = next
        BY <1>1, <2>8, <3>1
      <4> QED BY <2>10, <3>1, <4>1
    <3>2. CASE d # c
      BY <1>1, <2>8, <3>2
    <3> QED BY <3>1, <3>2
  <2>12. ReplyInv'
    BY <1>4, <1>6, <2>11, ReplyStep
  <2> QED BY <1>2, <1>4, <2>9, <2>12
<1>7. CASE CloseReceiver(c, s)
  <2>1. /\ rcv' = [rcv EXCEPT ![c] = NoReceiver("CLOSED")]
        /\ up' = [up EXCEPT ![c] = <<>>]
        /\ down' \in [Conn -> Seq(Memory)] /\ link' \in [Conn -> {"up", "reset"}]
        /\ \A d \in Conn : down'[d] = down[d] \/ down'[d] = <<>>
    BY <1>7, CloseIs
  <2>2. NoReceiver("CLOSED") \in ReceiverState /\ NoReceiver("CLOSED").st = "CLOSED"
    BY NoReceiverIs
  <2>3. <<>> \in Seq(Unit) /\ Once(NoReceiver("CLOSED"), <<>>)
        /\ Heard(NoReceiver("CLOSED"), <<>>) \subseteq Heard(rcv[c], up[c]) \cup {Garbage}
    BY Silent
  <2>4. SenderTypes' /\ PlaceInv' /\ NetTypes' /\ IntakeInv'
    BY <1>1, <1>2, <2>1, <2>2, <2>3, ReceiverKeeps
  <2>5. \A d \in Conn : rcv'[d].st = "SEND_HEADER" => rcv'[d] = rcv[d]
    BY <1>1, <2>1, <2>2
  <2>6. ReplyInv'
    BY <1>4, <2>1, <2>5, ReplyStep
  <2> QED BY <1>2, <1>4, <2>4, <2>6
<1> QED BY <1>2, <1>4, <1>5, <1>6, <1>7


(* What is behind the first n units.                                       *)
Rest(s, n) == SubSeq(s, n + 1, Len(s))

LEMMA Behind ==
  ASSUME NEW r \in ReceiverState, NEW s \in Seq(Unit), Once(r, s), NEW n \in 1 .. Len(s),
         NEW t, t = Rest(s, n)
  PROVE  /\ t \in Seq(Unit)
         /\ \A i \in 1 .. Len(t) : \E j \in 2 .. Len(s) : t[i] = s[j]
         /\ \A i \in 1 .. Len(t) : t[i][2] < 0 => t[i] # s[1]
         /\ \A i, j \in 1 .. Len(t) : t[i] = t[j] /\ t[i][2] < 0 => i = j
<1>1. Len(s) \in Nat /\ n \in Nat /\ \A i \in 1 .. Len(s) : s[i] \in Unit
  OBVIOUS
<1>2. CASE n = Len(s)
  <2>1. t = <<>>
    BY <1>1, <1>2 DEF Rest
  <2>2. Len(<<>>) = 0 /\ 1 .. 0 = {} /\ <<>> \in Seq(Unit)
    OBVIOUS
  <2> QED BY <2>1, <2>2
<1>3. CASE n < Len(s)
  <2>1. /\ t \in Seq(Unit) /\ Len(t) = Len(s) - n
        /\ \A i \in 1 .. Len(s) - n : t[i] = s[i + n] /\ i + n \in 1 .. Len(s)
    BY <1>1, <1>3, Slice DEF Rest
  <2>2. \A i \in 1 .. Len(t) : t[i] = s[i + n] /\ i + n \in 2 .. Len(s)
    BY <1>1, <2>1
  <2>3. \A i \in 1 .. Len(t) : \E j \in 2 .. Len(s) : t[i] = s[j]
    BY <2>2
  <2>4. \A i, j \in 1 .. Len(s) : s[i] = s[j] /\ s[i][2] < 0 => i = j
    BY DEF Once
  <2>5. ASSUME NEW i \in 1 .. Len(t), t[i][2] < 0 PROVE t[i] # s[1]
    <3>1. t[i] = s[i + n] /\ i + n \in 1 .. Len(s) /\ i + n # 1 /\ 1 \in 1 .. Len(s)
      BY <1>1, <2>2
    <3> QED BY <2>4, <2>5, <3>1
  <2>6. ASSUME NEW i \in 1 .. Len(t), NEW j \in 1 .. Len(t), t[i] = t[j], t[i][2] < 0
        PROVE  i = j
    <3>1. /\ t[i] = s[i + n] /\ i + n \in 1 .. Len(s)
          /\ t[j] = s[j + n] /\ j + n \in 1 .. Len(s)
      BY <1>1, <2>2
    <3>2. i + n = j + n
      BY <2>4, <2>6, <3>1
    <3> QED BY <1>1, <3>2
  <2> QED BY <2>1, <2>3, <2>5, <2>6
<1>4. n = Len(s) \/ n < Len(s)
  BY <1>1
<1> QED BY <1>2, <1>3, <1>4

(* The first units of s have become the message q.                         *)
LEMMA FilledOnce ==
  ASSUME NEW r \in ReceiverState, NEW s \in Seq(Unit), Once(r, s), NEW n \in 1 .. Len(s),
         NEW t, t = Rest(s, n), NEW q, q.st = r.st,
         \/ r.st = "READ_HEADER" /\ q.hdr = s[1] /\ q.buf[1] = r.buf[1] /\ q.off = r.off
         \/ r.st = "READ_BLOCK" /\ q.hdr = r.hdr /\ q.buf[1] \in {r.buf[1], s[1]}
  PROVE  Once(q, t) /\ Heard(q, t) \subseteq Heard(r, s)
<1>1. /\ \A i \in 1 .. Len(t) : \E j \in 2 .. Len(s) : t[i] = s[j]
      /\ \A i \in 1 .. Len(t) : t[i][2] < 0 => t[i] # s[1]
      /\ \A i, j \in 1 .. Len(t) : t[i] = t[j] /\ t[i][2] < 0 => i = j
  BY Behind
<1>2. Len(s) \in Nat /\ 1 \in 1 .. Len(s) /\ s[1] \in Unit /\ \A j \in 2 .. Len(s) : j \in 1 .. Len(s)
  OBVIOUS
<1>3. \A j \in 1 .. Len(s) : s[j][2] < 0 => s[j] # r.hdr /\ s[j] # r.buf[1]
  BY DEF Once
<1>4. \A i \in 1 .. Len(t) : t[i][2] < 0 => t[i] # r.hdr /\ t[i] # r.buf[1]
  BY <1>1, <1>2, <1>3
<1>5. q.hdr \in {r.hdr, s[1]} /\ q.buf[1] \in {r.buf[1], s[1]}
  OBVIOUS
<1>6. \A i \in 1 .. Len(t) : t[i][2] < 0 => t[i] # q.hdr /\ t[i] # q.buf[1]
  BY <1>1, <1>4, <1>5
<1>7. q.hdr[2] < 0 => q.hdr # q.buf[1]
  <2>1. CASE r.st = "READ_HEADER" /\ q.hdr = s[1] /\ q.buf[1] = r.buf[1]
    BY <1>2, <1>3, <2>1
  <2>2. CASE q.hdr = r.hdr /\ q.buf[1] = r.buf[1]
    BY <2>2 DEF Once
  <2>3. CASE q.hdr = r.hdr /\ q.buf[1] = s[1]
    BY <1>2, <1>3, <2>3
  <2> QED BY <2>1, <2>2, <2>3
<1>8. q.st = "READ_HEADER" => q.buf[1] = Garbage /\ q.off = 0
  <2>1. r.st = "READ_HEADER" => r.buf[1] = Garbage /\ r.off = 0
    BY DEF Once
  <2> QED BY <2>1
<1>9. Once(q, t)
  BY <1>1, <1>6, <1>7, <1>8 DEF Once
<1>10. Heard(q, t) \subseteq Heard(r, s)
  <2>1. r.hdr \in Heard(r, s) /\ r.buf[1] \in Heard(r, s) /\ \A j \in 1 .. Len(s) : s[j] \in Heard(r, s)
    BY DEF Heard
  <2>2. \A i \in 1 .. Len(t) : t[i] \in Heard(r, s)
    BY <1>1, <1>2, <2>1
  <2>3. q.hdr \in Heard(r, s) /\ q.buf[1] \in Heard(r, s)
    BY <1>2, <1>5, <2>1
  <2> QED BY <2>2, <2>3 DEF Heard
<1> QED BY <1>9, <1>10

(* The receiver reads a part of a message, or a whole one.                 *)
LEMMA ReceiveKeeps ==
  ASSUME IInv, NEW c \in Conn, Receive(c)
  PROVE  IInv' /\ faults'.blind = faults.blind /\ received \subseteq received'
<1>1. PICK r : r = rcv[c]
  OBVIOUS
<1>2. PICK s : s = up[c]
  OBVIOUS
<1>3. /\ r \in ReceiverState /\ s \in Seq(Unit) /\ Once(r, s) /\ faults \in FaultCount
      /\ Heard(r, s) = Heard(rcv[c], up[c])
  BY <1>1, <1>2, UnitsSubmitted DEF IInv, IntakeInv, Intake, NetTypes
<1>4. PICK whole : whole = IF r.st = "READ_HEADER" THEN 1 ELSE 2
  OBVIOUS
<1>5. PICK n : n = Minimum(whole - r.off, Len(s))
  OBVIOUS
<1>6. PICK t : t = Rest(s, n)
  OBVIOUS
<1>7. PICK q : q = IF r.st = "READ_HEADER" THEN [r EXCEPT !.hdr = s[1]]
                   ELSE [r EXCEPT !.buf = [i \in 1 .. 2 |->
                           IF i \in r.off + 1 .. r.off + n THEN s[i - r.off] ELSE @[i]]]
  OBVIOUS
<1>8. /\ r.st \in {"READ_HEADER", "READ_BLOCK"} /\ s # <<>>
      /\ IF r.off + n = whole
         THEN MessageRead(c, q, t, faults)
         ELSE /\ rcv' = [rcv EXCEPT ![c] = [q EXCEPT !.off = @ + n]]
              /\ up' = [up EXCEPT ![c] = t]
              /\ UNCHANGED <<received, down, link, faults>>
      /\ UNCHANGED <<submitted, confirmed, senderVars>>
  BY <1>1, <1>2, <1>4, <1>5, <1>6, <1>7 DEF Receive, Reading, Rest
<1>9. r.off \in 0 .. 1 /\ (r.st = "READ_HEADER" => r.off = 0)
  BY <1>3, ReceiverFields DEF Once
<1>10. Len(s) \in Nat \ {0} /\ \A i \in 1 .. Len(s) : s[i] \in Unit /\ s[i] \in Memory
  BY <1>3, <1>8 DEF Memory
<1>11. /\ whole - r.off \in 1 .. 2 /\ n \in 1 .. Len(s) /\ r.off + n <= whole
       /\ whole \in 1 .. 2
  <2>1. whole \in 1 .. 2 /\ whole - r.off \in 1 .. 2 /\ r.off \in Nat
    <3>1. CASE r.st = "READ_HEADER"
      BY <1>4, <1>9, <3>1
    <3>2. CASE r.st # "READ_HEADER"
      BY <1>4, <1>9, <3>2
    <3> QED BY <3>1, <3>2
  <2>2. PICK l : l = Len(s)
    OBVIOUS
  <2>3. PICK m : m = whole - r.off
    OBVIOUS
  <2>4. n = (IF m < l THEN m ELSE l) /\ l \in Nat \ {0} /\ m \in 1 .. 2
    BY <1>5, <1>10, <2>1, <2>2, <2>3 DEF Minimum
  <2>5. n \in 1 .. l /\ n <= m
    BY <2>4
  <2> QED BY <2>1, <2>2, <2>3, <2>4, <2>5
<1>12. /\ q \in ReceiverState /\ q.st = r.st /\ q.off = r.off
       /\ \/ r.st = "READ_HEADER" /\ q.hdr = s[1] /\ q.buf[1] = r.buf[1]
          \/ r.st = "READ_BLOCK" /\ q.hdr = r.hdr /\ q.buf[1] \in {r.buf[1], s[1]}
  <2>1. CASE r.st = "READ_HEADER"
    <3>1. q = [r EXCEPT !.hdr = s[1]] /\ s[1] \in Memory
      BY <1>7, <1>10, <2>1
    <3> QED BY <1>3, <2>1, <3>1 DEF ReceiverState
  <2>2. CASE r.st = "READ_BLOCK"
    <3>1. PICK b : b = [i \in 1 .. 2 |->
                         IF i \in r.off + 1 .. r.off + n THEN s[i - r.off] ELSE r.buf[i]]
      OBVIOUS
    <3>2. q = [r EXCEPT !.buf = b]
      BY <1>7, <2>2, <3>1
    <3>3. \A i \in 1 .. 2 : b[i] \in Memory
      <4> SUFFICES ASSUME NEW i \in 1 .. 2 PROVE b[i] \in Memory
        OBVIOUS
      <4>1. CASE i \in r.off + 1 .. r.off + n
        <5>1. i - r.off \in 1 .. Len(s)
          BY <1>9, <1>11, <4>1
        <5> QED BY <1>10, <3>1, <4>1, <5>1
      <4>2. CASE i \notin r.off + 1 .. r.off + n
        <5>1. r.buf[i] \in Memory
          BY <1>3 DEF ReceiverState
        <5> QED BY <3>1, <4>2, <5>1
      <4> QED BY <4>1, <4>2
    <3>4. b \in [1 .. 2 -> Memory]
      BY <3>1, <3>3
    <3>5. b[1] \in {r.buf[1], s[1]}
      <4>1. CASE r.off = 0
        <5>1. b[1] = s[1]
          BY <1>10, <1>11, <3>1, <4>1
        <5> QED BY <5>1
      <4>2. CASE r.off = 1
        <5>1. b[1] = r.buf[1]
          BY <1>10, <1>11, <3>1, <4>2
        <5> QED BY <5>1
      <4> QED BY <1>9, <4>1, <4>2
    <3> QED BY <1>3, <2>2, <3>2, <3>4, <3>5 DEF ReceiverState
  <2> QED BY <1>8, <2>1, <2>2
<1>13. t \in Seq(Unit) /\ Once(q, t) /\ Heard(q, t) \subseteq Heard(r, s)
  <2>1. t \in Seq(Unit)
    BY <1>3, <1>6, <1>11, Behind
  <2> QED BY <1>3, <1>6, <1>11, <1>12, <2>1, FilledOnce
<1>14. CASE r.off + n = whole
  <2>1. MessageRead(c, q, t, faults) /\ UNCHANGED <<submitted, confirmed, senderVars>>
    BY <1>8, <1>14
  <2>2. Heard(q, t) \subseteq Heard(rcv[c], up[c])
    BY <1>3, <1>13
  <2> QED BY <1>3, <1>8, <1>12, <1>13, <2>1, <2>2, MessageKeeps
<1>15. CASE r.off + n # whole
  <2>1. PICK next : next = [q EXCEPT !.off = @ + n]
    OBVIOUS
  <2>2. /\ rcv' = [rcv EXCEPT ![c] = next] /\ up' = [up EXCEPT ![c] = t]
        /\ UNCHANGED <<received, down, link, faults, submitted, confirmed, snd, queue>>
    BY <1>8, <1>15, <2>1 DEF senderVars
  <2>3. q.off + n \in 0 .. 1 /\ r.st = "READ_BLOCK"
    BY <1>4, <1>8, <1>9, <1>10, <1>11, <1>12, <1>15
  <2>4. PICK o \in 0 .. 1 : o = q.off + n
    BY <2>3
  <2>5. next = [q EXCEPT !.off = o]
    BY <2>1, <2>4
  <2>6. /\ next \in ReceiverState /\ next.st = "READ_BLOCK" /\ next.hdr = q.hdr
        /\ next.buf = q.buf
    BY <1>12, <2>3, <2>5, SetReceived
  <2>7. Once(next, t) /\ Heard(next, t) = Heard(q, t)
    BY <1>13, <2>6 DEF Once, Heard
  <2>8. Heard(next, t) \subseteq Heard(rcv[c], up[c]) \cup {Garbage}
    BY <1>3, <1>13, <2>7
  <2>9. /\ faults' \in FaultCount /\ down' \in [Conn -> Seq(Memory)]
        /\ link' \in [Conn -> {"up", "reset"}] /\ rcv \in [Conn -> ReceiverState]
    BY <2>2 DEF IInv, NetTypes
  <2>10. SenderTypes' /\ PlaceInv' /\ NetTypes' /\ IntakeInv'
    BY <1>13, <2>2, <2>6, <2>7, <2>8, <2>9, ReceiverKeeps
  <2>11. \A d \in Conn : rcv'[d].st = "SEND_HEADER" => rcv'[d] = rcv[d]
    BY <2>2, <2>6, <2>9
  <2>12. received \subseteq received' /\ \A d \in Conn : down'[d] = down[d]
    BY <2>2
  <2>13. ReplyInv' /\ Intact'
    <3>1. ReplyInv'
      BY <2>11, <2>12, ReplyStep DEF IInv
    <3> QED BY <2>2, <3>1 DEF IInv, Intact
  <2> QED BY <2>2, <2>10, <2>13 DEF IInv
<1> QED BY <1>14, <1>15


(* EAGAIN is taken for a whole message.                                    *)
LEMMA ReceiveNothingKeeps ==
  ASSUME IInv, NEW c \in Conn, ReceiveNothing(c)
  PROVE  IInv' /\ faults'.blind = faults.blind /\ received \subseteq received'
<1>1. PICK f : f = [faults EXCEPT !.spurious = @ + 1]
  OBVIOUS
<1>2. /\ rcv[c].st \in {"READ_HEADER", "READ_BLOCK"} /\ MessageRead(c, rcv[c], up[c], f)
      /\ UNCHANGED <<submitted, confirmed, senderVars>>
  BY <1>1 DEF ReceiveNothing, Reading
<1>3. f \in FaultCount /\ f.blind = faults.blind
  <2>1. faults \in FaultCount
    BY DEF IInv, NetTypes
  <2> QED BY <1>1, <2>1, FaultIs
<1>4. rcv[c] \in ReceiverState /\ up[c] \in Seq(Unit) /\ Once(rcv[c], up[c])
  BY UnitsSubmitted DEF IInv, IntakeInv, Intake
<1> QED BY <1>2, <1>3, <1>4, MessageKeeps

(* A receiver that starts again, gives up or has answered.                 *)
LEMMA ForgetsKeeps ==
  ASSUME IInv, NEW c \in Conn, NEW st \in {"NONE", "READ_HEADER", "DISABLED", "CLOSED"},
         rcv' = [rcv EXCEPT ![c] = NoReceiver(st)],
         UNCHANGED <<submitted, confirmed, received, snd, queue, up, link>>,
         faults' \in FaultCount, down' \in [Conn -> Seq(Memory)],
         \A d \in Conn :
           \/ down'[d] = down[d]
           \/ \A i \in 1 .. Len(down'[d]) : <<d, Digest(down'[d][i])>> \in received
  PROVE  IInv'
<1>1. NoReceiver(st) \in ReceiverState /\ NoReceiver(st).st = st
  BY NoReceiverIs
<1>2. rcv[c] \in ReceiverState /\ up[c] \in Seq(Unit) /\ Once(rcv[c], up[c])
  BY UnitsSubmitted DEF IInv, IntakeInv, Intake
<1>3. /\ Once(NoReceiver(st), up[c])
      /\ Heard(NoReceiver(st), up[c]) \subseteq Heard(rcv[c], up[c]) \cup {Garbage}
  BY <1>2, Forgets
<1>4. link' \in [Conn -> {"up", "reset"}] /\ up' = [up EXCEPT ![c] = up[c]]
  BY DEF IInv, NetTypes
<1>5. SenderTypes' /\ PlaceInv' /\ NetTypes' /\ IntakeInv'
  BY <1>1, <1>2, <1>3, <1>4, ReceiverKeeps
<1>6. ReplyInv' /\ Intact'
  <2>1. \A d \in Conn : rcv'[d].st = "SEND_HEADER" => rcv'[d] = rcv[d]
    BY <1>1 DEF IInv, NetTypes
  <2>2. ReplyInv'
    BY <2>1, ReplyStep DEF IInv
  <2> QED BY <2>2 DEF IInv, Intact
<1> QED BY <1>5, <1>6 DEF IInv

LEMMA ReceiverFailsKeeps ==
  ASSUME IInv, NEW c \in Conn, ReceiverFails(c)
  PROVE  IInv'
<1>1. /\ rcv' = [rcv EXCEPT ![c] = NoReceiver("CLOSED")]
      /\ UNCHANGED <<submitted, confirmed, received, snd, queue, up, down, link, faults>>
  BY DEF ReceiverFails, appVars, senderVars, netVars
<1>2. faults' \in FaultCount /\ down' \in [Conn -> Seq(Memory)]
  BY <1>1 DEF IInv, NetTypes
<1> QED BY <1>1, <1>2, ForgetsKeeps

LEMMA AnswerKeeps ==
  ASSUME IInv, NEW c \in Conn, Answer(c)
  PROVE  IInv' /\ faults'.blind = faults.blind
<1>1. /\ rcv[c].st = "SEND_HEADER" /\ rcv' = [rcv EXCEPT ![c] = NoReceiver("DISABLED")]
      /\ UNCHANGED <<submitted, confirmed, received, snd, queue, up, link>>
  BY DEF Answer, appVars, senderVars
<1>2. PICK u : u = rcv[c].hdr
  OBVIOUS
<1>3. /\ faults \in FaultCount /\ down \in [Conn -> Seq(Memory)] /\ u \in Memory
      /\ <<c, Digest(u)>> \in received
      /\ \A i \in 1 .. Len(down[c]) : <<c, Digest(down[c][i])>> \in received
  <2>1. faults \in FaultCount /\ down \in [Conn -> Seq(Memory)]
    BY DEF IInv, NetTypes
  <2>2. u \in Memory
    BY <1>2, UnitsSubmitted DEF IInv
  <2>3. /\ <<c, Digest(u)>> \in received
        /\ \A i \in 1 .. Len(down[c]) : <<c, Digest(down[c][i])>> \in received
    BY <1>1, <1>2 DEF IInv, ReplyInv
  <2> QED BY <2>1, <2>2, <2>3
<1>4. CASE down' = [down EXCEPT ![c] = Append(@, rcv[c].hdr)] /\ UNCHANGED faults
  <2>1. PICK z : z = Append(down[c], u)
    OBVIOUS
  <2>2. /\ z \in Seq(Memory) /\ Len(z) = Len(down[c]) + 1 /\ Len(down[c]) \in Nat
        /\ \A i \in 1 .. Len(down[c]) : z[i] = down[c][i]
        /\ z[Len(down[c]) + 1] = u
    BY <1>3, <2>1
  <2>3. \A i \in 1 .. Len(z) : <<c, Digest(z[i])>> \in received
    <3> SUFFICES ASSUME NEW i \in 1 .. Len(z) PROVE <<c, Digest(z[i])>> \in received
      OBVIOUS
    <3>1. CASE i \in 1 .. Len(down[c])
      BY <1>3, <2>2, <3>1
    <3>2. CASE i = Len(down[c]) + 1
      BY <1>3, <2>2, <3>2
    <3> QED BY <2>2, <3>1, <3>2
  <2>4. down' = [down EXCEPT ![c] = z]
    BY <1>2, <1>4, <2>1
  <2>5. /\ down' \in [Conn -> Seq(Memory)] /\ down'[c] = z
        /\ \A d \in Conn \ {c} : down'[d] = down[d]
    BY <1>3, <2>2, <2>4
  <2>6. \A d \in Conn :
          \/ down'[d] = down[d]
          \/ \A i \in 1 .. Len(down'[d]) : <<d, Digest(down'[d][i])>> \in received
    BY <2>3, <2>5
  <2>7. faults' \in FaultCount /\ faults'.blind = faults.blind
    BY <1>3, <1>4
  <2> QED BY <1>1, <2>5, <2>6, <2>7, ForgetsKeeps
<1>5. CASE Spurious("answer") /\ UNCHANGED down
  <2>1. faults' \in FaultCount /\ faults'.blind = faults.blind
    BY <1>3, <1>5, FaultIs DEF Spurious
  <2>2. down' \in [Conn -> Seq(Memory)] /\ \A d \in Conn : down'[d] = down[d]
    BY <1>3, <1>5
  <2> QED BY <1>1, <2>1, <2>2, ForgetsKeeps
<1> QED BY <1>4, <1>5 DEF Answer

LEMMA IgnoreKeeps ==
  ASSUME IInv, NEW c \in Conn, Ignore(c)
  PROVE  IInv'
<1>1. PICK r : r = rcv[c]
  OBVIOUS
<1>2. PICK next : next = [r EXCEPT !.st = "WAIT_RESPONSE"]
  OBVIOUS
<1>3. /\ r.st = "DISABLED" /\ rcv' = [rcv EXCEPT ![c] = next]
      /\ UNCHANGED <<submitted, confirmed, received, snd, queue, up, down, link, faults>>
  BY <1>1, <1>2 DEF Ignore, appVars, senderVars, netVars
<1>4. r \in ReceiverState /\ up[c] \in Seq(Unit) /\ Once(r, up[c])
  BY <1>1, UnitsSubmitted DEF IInv, IntakeInv, Intake
<1>5. /\ next \in ReceiverState /\ next.st = "WAIT_RESPONSE" /\ next.hdr = r.hdr
      /\ next.buf = r.buf
  BY <1>2, <1>4 DEF ReceiverState
<1>6. Once(next, up[c]) /\ Heard(next, up[c]) \subseteq Heard(rcv[c], up[c]) \cup {Garbage}
  BY <1>1, <1>4, <1>5 DEF Once, Heard
<1>7. /\ faults' \in FaultCount /\ down' \in [Conn -> Seq(Memory)]
      /\ link' \in [Conn -> {"up", "reset"}] /\ up' = [up EXCEPT ![c] = up[c]]
  BY <1>3 DEF IInv, NetTypes
<1>8. SenderTypes' /\ PlaceInv' /\ NetTypes' /\ IntakeInv'
  BY <1>3, <1>4, <1>5, <1>6, <1>7, ReceiverKeeps
<1>9. ReplyInv' /\ Intact'
  <2>1. \A d \in Conn : rcv'[d].st = "SEND_HEADER" => rcv'[d] = rcv[d]
    BY <1>3, <1>5 DEF IInv, NetTypes
  <2>2. ReplyInv'
    BY <1>3, <2>1, ReplyStep DEF IInv
  <2> QED BY <1>3, <2>2 DEF IInv, Intact
<1> QED BY <1>8, <1>9 DEF IInv


-----------------------------------------------------------------------------
(* The network, and every step.                                            *)

LEMMA BreakKeeps ==
  ASSUME IInv, NEW c \in Conn, Break(c)
  PROVE  IInv' /\ faults'.blind = faults.blind
<1> USE DEF IInv
<1>1. /\ Reset(c) /\ Fault(faults, "break", MaxBreaks)
      /\ UNCHANGED <<submitted, confirmed, received, snd, queue, rcv>>
  BY DEF Break, appVars, senderVars
<1>2. faults' \in FaultCount /\ faults'.blind = faults.blind
  <2>1. faults \in FaultCount
    BY DEF NetTypes
  <2> QED BY <1>1, <2>1, FaultIs
<1>3. /\ up' \in [Conn -> Seq(Unit)] /\ down' \in [Conn -> Seq(Memory)]
      /\ link' \in [Conn -> {"up", "reset"}]
      /\ \A d \in Conn : /\ up'[d] = up[d] \/ up'[d] = <<>>
                         /\ down'[d] = down[d] \/ down'[d] = <<>>
  BY <1>1, ResetIs
<1>4. SenderTypes' /\ NetTypes'
  BY <1>1, <1>2, <1>3 DEF SenderTypes, NetTypes
<1>5. PlaceInv'
  <2>1. Steady(Conn)
    BY <1>1 DEF Steady, Active
  <2>2. PacketInv'
    BY <1>1, <2>1, StayPut DEF PlaceInv
  <2>3. Opened' /\ BlockInv'
    BY <1>1 DEF PlaceInv, Opened, BlockInv
  <2> QED BY <2>2, <2>3 DEF PlaceInv
<1>6. IntakeInv'
  <2>1. ASSUME NEW d \in Conn PROVE Intake(d, rcv[d], up[d])'
    <3>1. Keeps(d)
      BY <1>1 DEF Keeps, Past, Carries, Active
    <3>2. Intake(d, rcv[d], up[d])
      BY DEF IntakeInv
    <3>3. rcv'[d] = rcv[d] /\ (up'[d] = up[d] \/ up'[d] = <<>>) /\ submitted \subseteq submitted'
      BY <1>1, <1>3
    <3> QED BY <3>1, <3>2, <3>3, IntakeKept
  <2> QED BY <2>1 DEF IntakeInv
<1>7. ReplyInv' /\ Intact'
  BY <1>1, <1>3, ReplyKept
<1> QED BY <1>2, <1>4, <1>5, <1>6, <1>7

LEMMA IdleKeeps ==
  ASSUME IInv, UNCHANGED <<submitted, confirmed, received, snd, queue, rcv, up, down, link, faults>>
  PROVE  IInv'
<1> USE DEF IInv
<1>1. SenderTypes' /\ NetTypes'
  BY DEF SenderTypes, NetTypes
<1>2. PlaceInv'
  <2>1. Steady(Conn)
    BY DEF Steady, Active
  <2>2. PacketInv'
    BY <2>1, StayPut DEF PlaceInv
  <2>3. Opened' /\ BlockInv'
    BY DEF PlaceInv, Opened, BlockInv
  <2> QED BY <2>2, <2>3 DEF PlaceInv
<1>3. IntakeInv'
  <2>1. ASSUME NEW d \in Conn PROVE Intake(d, rcv[d], up[d])'
    <3>1. Keeps(d)
      BY DEF Keeps, Past, Carries, Active
    <3>2. Intake(d, rcv[d], up[d])
      BY DEF IntakeInv
    <3> QED BY <3>1, <3>2, IntakeKept
  <2> QED BY <2>1 DEF IntakeInv
<1>4. ReplyInv' /\ Intact'
  BY ReplyKept
<1> QED BY <1>1, <1>2, <1>3, <1>4


LEMMA InitIInv ==
  ASSUME Init
  PROVE  IInv
<1> USE DEF Init
<1>1. /\ NoSender("NONE") \in SenderState /\ NoSender("NONE").st = "NONE"
      /\ NoReceiver("NONE") \in ReceiverState /\ NoReceiver("NONE").st = "NONE"
  BY NoSenderIs, NoReceiverIs
<1>2. \A c \in Conn : snd[c].st = "NONE" /\ ~Active(c)
  BY <1>1 DEF Active
<1>3. Len(<<>>) = 0 /\ 1 .. 0 = {}
  OBVIOUS
<1>4. SenderTypes
  <2>1. <<>> \in Seq(Packet)
    OBVIOUS
  <2> QED BY <1>1, <2>1 DEF SenderTypes
<1>5. NetTypes
  <2>1. <<>> \in Seq(Unit) /\ <<>> \in Seq(Memory)
    OBVIOUS
  <2>2. faults \in FaultCount
    BY DEF FaultCount
  <2> QED BY <1>1, <2>1, <2>2 DEF NetTypes
<1>6. PlaceInv
  <2>1. Opened
    <3>1. 0 \in 0 .. MaxSocket /\ \A c \in Conn : c > 0
      BY DEF Conn
    <3> QED BY <1>2, <3>1 DEF Opened
  <2>2. PacketInv
    <3>1. Distinct(queue) /\ \A p : ~Has(queue, p)
      BY <1>3 DEF Distinct, Has
    <3> QED BY <1>2, <3>1 DEF PacketInv
  <2>3. BlockInv
    BY <1>2 DEF BlockInv
  <2> QED BY <2>1, <2>2, <2>3 DEF PlaceInv
<1>7. IntakeInv
  <2>1. Once(NoReceiver("NONE"), <<>>) /\ Heard(NoReceiver("NONE"), <<>>) = {Garbage}
    BY Silent
  <2>2. \A c \in Conn : rcv[c] = NoReceiver("NONE") /\ up[c] = <<>>
    OBVIOUS
  <2> QED BY <2>1, <2>2 DEF IntakeInv, Intake
<1>8. ReplyInv
  BY <1>1, <1>3 DEF ReplyInv
<1>9. Intact
  BY DEF Intact
<1> QED BY <1>4, <1>5, <1>6, <1>7, <1>8, <1>9 DEF IInv

LEMMA NextKeeps == IInv /\ [Next]_vars => IInv'
<1> SUFFICES ASSUME IInv, [Next]_vars PROVE IInv'
  OBVIOUS
<1>1. ASSUME NEW p \in Packet, Submit(p) PROVE IInv'
  BY <1>1, SubmitKeeps
<1>2. CASE Connect
  BY <1>2, ConnectKeeps
<1>3. ASSUME NEW c \in Conn, SenderStep(c) PROVE IInv'
  <2>1. CASE WaitForPacket(c)
    <3>1. UNCHANGED <<submitted, confirmed, received, snd, queue, rcv, up, down, link, faults>>
      BY <2>1 DEF WaitForPacket, appVars, netVars
    <3> QED BY <3>1, IdleKeeps
  <2>2. CASE SendFirst(c)
    BY <2>2, SendFirstKeeps
  <2>3. CASE SendMore(c)
    BY <2>3, SendMoreKeeps
  <2>4. CASE ReadReply(c)
    BY <2>4, ReadReplyKeeps
  <2>5. CASE ReadNoReply(c)
    BY <2>5, ReadNoReplyKeeps
  <2>6. CASE ReplyFails(c)
    BY <2>6, ReplyFailsKeeps
  <2>7. CASE Reconnect(c)
    BY <2>7, ReconnectKeeps
  <2> QED BY <1>3, <2>1, <2>2, <2>3, <2>4, <2>5, <2>6, <2>7 DEF SenderStep
<1>4. ASSUME NEW c \in Conn, ReceiverStep(c) PROVE IInv'
  <2>1. CASE Accept(c)
    BY <2>1, AcceptKeeps
  <2>2. CASE Receive(c)
    BY <2>2, ReceiveKeeps
  <2>3. CASE ReceiveNothing(c)
    BY <2>3, ReceiveNothingKeeps
  <2>4. CASE ReceiverFails(c)
    BY <2>4, ReceiverFailsKeeps
  <2>5. CASE Answer(c)
    BY <2>5, AnswerKeeps
  <2>6. CASE Ignore(c)
    BY <2>6, IgnoreKeeps
  <2> QED BY <1>4, <2>1, <2>2, <2>3, <2>4, <2>5, <2>6 DEF ReceiverStep
<1>5. ASSUME NEW c \in Conn, Break(c) PROVE IInv'
  BY <1>5, BreakKeeps
<1>6. CASE UNCHANGED vars
  <2>1. UNCHANGED <<submitted, confirmed, received, snd, queue, rcv, up, down, link, faults>>
    BY <1>6 DEF vars, appVars, senderVars, netVars
  <2> QED BY <2>1, IdleKeeps
<1> QED BY <1>1, <1>2, <1>3, <1>4, <1>5, <1>6 DEF Next

(* What both ends hold of each packet and each connection, whatever the    *)
(* network does (IInv), for thread_socket_pipe_receiver (lines 9-218) and  *)
(* thread_socket_pipe_sender (lines 220-455).                              *)
THEOREM Invariance == Spec => []IInv
BY InitIInv, NextKeeps, PTL DEF Spec

-----------------------------------------------------------------------------
(* What follows.                                                           *)

(* A set with at most one element.                                         *)
LEMMA OneAtMost ==
  ASSUME NEW S, \A x, y \in S : x = y
  PROVE  Cardinality(S) = IF S = {} THEN 0 ELSE 1
<1>1. CASE S = {}
  BY <1>1, FS_EmptySet
<1>2. CASE S # {}
  <2>1. PICK x \in S : S = {x}
    BY <1>2
  <2> QED BY <1>2, <2>1, FS_Singleton
<1> QED BY <1>1, <1>2

(* A packet given to send() is in the queue, on one connection or reported *)
(* as sent, in one place only, whatever fails (thread_socket_pipe_sender,  *)
(* lines 220-455 of frl_util_socket_pipe.cpp).                             *)
THEOREM LosesNoPacket == Spec => []Accounted
<1>1. IInv => Accounted
  <2> SUFFICES ASSUME IInv, NEW p \in Packet
               PROVE  Cardinality(Queued(p)) + Cardinality(Carriers(p))
                        + (IF p \in confirmed THEN 1 ELSE 0)
                        = IF p \in submitted THEN 1 ELSE 0
    BY DEF Accounted
  <2>1. PacketInv /\ SenderTypes
    BY DEF IInv, PlaceInv
  <2>2. \A c \in Conn : c \in Carriers(p) <=> Carries(c, p)
    BY <2>1 DEF Carriers, Carries, Open, Active, SenderTypes, SenderState
  <2>3. Carriers(p) \subseteq Conn
    BY DEF Carriers, Open
  <2>4. (Queued(p) # {}) <=> Has(queue, p)
    BY <2>1 DEF Queued, Has, SenderTypes
  <2>5. Cardinality(Queued(p)) = IF Has(queue, p) THEN 1 ELSE 0
    <3>1. \A i, j \in Queued(p) : i = j
      BY <2>1 DEF Queued, PacketInv, Distinct, SenderTypes
    <3> QED BY <2>4, <3>1, OneAtMost
  <2>6. Cardinality(Carriers(p)) = IF Carriers(p) = {} THEN 0 ELSE 1
    <3>1. \A c, d \in Carriers(p) : c = d
      BY <2>1, <2>2, <2>3 DEF PacketInv, Carries
    <3> QED BY <3>1, OneAtMost
  <2>7. Carriers(p) # {} => p \in submitted \ confirmed /\ ~Has(queue, p)
    BY <2>1, <2>2, <2>3 DEF PacketInv, Carries
  <2>8. p \in submitted \ confirmed => Has(queue, p) \/ Carriers(p) # {}
    BY <2>1, <2>2 DEF PacketInv
  <2>9. Has(queue, p) => p \in submitted \ confirmed
    BY <2>1 DEF PacketInv
  <2>10. confirmed \subseteq submitted
    BY <2>1 DEF PacketInv
  <2> QED BY <2>5, <2>6, <2>7, <2>8, <2>9, <2>10
<1> QED BY <1>1, Invariance, PTL

(* recv_after gets packets as they were given to send(): the two           *)
(* fingerprints hold off what was lost or taken for complete too early     *)
(* (lines 107-136).                                                        *)
THEOREM HandsOnWhatWasSent == Spec => []Intact
<1>1. IInv => Intact
  BY DEF IInv
<1> QED BY <1>1, Invariance, PTL


(* A step confirms one packet at most: one that has arrived, or one for    *)
(* whose reply EAGAIN is taken.                                            *)
LEMMA ConfirmedStep ==
  ASSUME IInv, [Next]_vars
  PROVE  /\ received \subseteq received'
         /\ \/ confirmed' = confirmed /\ faults'.blind = faults.blind
            \/ \E p : /\ confirmed' = confirmed \cup {p}
                      /\ \/ Arrived(p) /\ faults'.blind = faults.blind
                         \/ faults'.blind = faults.blind + 1
<1> DEFINE Nothing == UNCHANGED <<received, confirmed>> /\ faults'.blind = faults.blind
<1>1. ASSUME NEW p \in Packet, Submit(p) PROVE Nothing
  BY <1>1 DEF Submit
<1>2. ASSUME Connect PROVE Nothing
  BY <1>2 DEF Connect, appVars
<1>3. ASSUME NEW c \in Conn, SenderStep(c), ~ReadReply(c), ~ReadNoReply(c) PROVE Nothing
  <2>1. CASE WaitForPacket(c)
    BY <2>1 DEF WaitForPacket, appVars
  <2>2. CASE SendFirst(c)
    <3>1. PICK w : w = [st |-> "SEND_HEADER", pkt |-> Head(queue), blk |-> 0, off |-> 0]
      OBVIOUS
    <3>2. Transmit(c, w, Tail(queue)) /\ UNCHANGED <<received, confirmed>> /\ queue # <<>>
      BY <2>2, <3>1 DEF SendFirst, appVars
    <3>3. Head(queue) \in Packet
      BY <3>2 DEF IInv, SenderTypes
    <3>4. Sending(w)
      BY <3>1, <3>3, PacketIs DEF Sending, SenderState
    <3> QED BY <3>2, <3>4, TransmitIs DEF IInv
  <2>3. CASE SendMore(c)
    <3>1. /\ snd[c].st \in {"SEND_HEADER", "SEND_BLOCK"} /\ Transmit(c, snd[c], queue)
          /\ UNCHANGED <<received, confirmed>>
      BY <2>3 DEF SendMore, appVars
    <3>2. Active(c) /\ snd[c].pkt \in Packet
      BY <3>1 DEF Active, IInv, PlaceInv, PacketInv, SenderTypes
    <3>3. Sending(snd[c])
      BY <3>1, <3>2 DEF Sending, IInv, PlaceInv, BlockInv, SenderTypes
    <3> QED BY <3>1, <3>3, TransmitIs DEF IInv
  <2>4. CASE ReplyFails(c)
    BY <2>4 DEF ReplyFails, appVars
  <2>5. CASE Reconnect(c)
    BY <2>5 DEF Reconnect, appVars
  <2> QED BY <1>3, <2>1, <2>2, <2>3, <2>4, <2>5 DEF SenderStep
<1>4. ASSUME NEW c \in Conn, ReadReply(c)
      PROVE  \/ Nothing
             \/ \E p : /\ confirmed' = confirmed \cup {p} /\ UNCHANGED received
                       /\ Arrived(p) /\ faults'.blind = faults.blind
  <2>1. down[c] # <<>> /\ Respond(c, Head(down[c])) /\ UNCHANGED received
    BY <1>4 DEF ReadReply
  <2>2. CASE Digest(Head(down[c])) = Whole(snd[c].pkt)
    <3>1. confirmed' = confirmed \cup {snd[c].pkt} /\ (UNCHANGED faults \/ Interrupt(faults))
      BY <2>1, <2>2 DEF Respond
    <3>2. faults'.blind = faults.blind
      BY <3>1, FaultIs DEF Interrupt, IInv, NetTypes
    <3>3. <<c, Digest(Head(down[c]))>> \in received
      <4>1. down[c] \in Seq(Memory) /\ \A i \in 1 .. Len(down[c]) : <<c, Digest(down[c][i])>> \in received
        BY DEF IInv, NetTypes, ReplyInv
      <4>2. 1 \in 1 .. Len(down[c]) /\ Head(down[c]) = down[c][1]
        BY <2>1, <4>1
      <4> QED BY <4>1, <4>2
    <3>4. Arrived(snd[c].pkt)
      BY <2>2, <3>3 DEF Arrived
    <3> QED BY <2>1, <3>1, <3>2, <3>4
  <2>3. CASE Digest(Head(down[c])) # Whole(snd[c].pkt)
    BY <2>1, <2>3 DEF Respond
  <2> QED BY <2>2, <2>3
<1>5. ASSUME NEW c \in Conn, ReadNoReply(c)
      PROVE  /\ confirmed' = confirmed \cup {snd[c].pkt} /\ UNCHANGED received
             /\ faults'.blind = faults.blind + 1
  <2>1. confirmed' = confirmed \cup {snd[c].pkt} /\ UNCHANGED received
    BY <1>5 DEF ReadNoReply
  <2> QED BY <1>5, <2>1, ReadNoReplyKeeps
<1>6. ASSUME NEW c \in Conn, ReceiverStep(c)
      PROVE  received \subseteq received' /\ UNCHANGED confirmed /\ faults'.blind = faults.blind
  <2>1. CASE Accept(c)
    BY <2>1 DEF Accept, appVars
  <2>2. CASE Receive(c)
    BY <2>2, ReceiveKeeps DEF Receive
  <2>3. CASE ReceiveNothing(c)
    BY <2>3, ReceiveNothingKeeps DEF ReceiveNothing
  <2>4. CASE ReceiverFails(c)
    BY <2>4 DEF ReceiverFails, appVars
  <2>5. CASE Answer(c)
    <3>1. UNCHANGED <<received, confirmed>>
      BY <2>5 DEF Answer, appVars
    <3> QED BY <2>5, <3>1, AnswerKeeps
  <2>6. CASE Ignore(c)
    BY <2>6 DEF Ignore, appVars
  <2> QED BY <1>6, <2>1, <2>2, <2>3, <2>4, <2>5, <2>6 DEF ReceiverStep
<1>7. ASSUME NEW c \in Conn, Break(c) PROVE Nothing
  <2>1. UNCHANGED <<received, confirmed>>
    BY <1>7 DEF Break, appVars
  <2> QED BY <1>7, <2>1, BreakKeeps
<1>8. ASSUME UNCHANGED vars PROVE Nothing
  BY <1>8 DEF vars, appVars
<1>9. \/ received \subseteq received' /\ UNCHANGED confirmed /\ faults'.blind = faults.blind
      \/ \E c \in Conn : ReadReply(c)
      \/ \E c \in Conn : ReadNoReply(c)
  <2>1. CASE Next
    <3>1. CASE \E c \in Conn : SenderStep(c)
      BY <1>3, <3>1
    <3>2. CASE \E c \in Conn : ReceiverStep(c) \/ Break(c)
      BY <1>6, <1>7, <3>2
    <3>3. CASE Connect \/ \E p \in Packet : Submit(p)
      BY <1>1, <1>2, <3>3
    <3> QED BY <2>1, <3>1, <3>2, <3>3 DEF Next
  <2>2. CASE UNCHANGED vars
    BY <1>8, <2>2
  <2> QED BY <2>1, <2>2
<1> QED BY <1>4, <1>5, <1>9

LEMMA Monotone == ASSUME NEW p, received \subseteq received', Arrived(p) PROVE Arrived(p)'
BY DEF Arrived

(* A packet given to send_after has arrived, unless EAGAIN stood for its   *)
(* reply: one packet for each such call (line 370).                   *)
THEOREM ConfirmsWhatArrived == Spec => []ConfirmedArrived
<1>1. Init => ConfirmedArrived
  <2> SUFFICES ASSUME Init PROVE ConfirmedArrived
    OBVIOUS
  <2>1. PICK S : S = {p \in confirmed : ~Arrived(p)}
    OBVIOUS
  <2>2. S = {} /\ faults.blind = 0
    BY <2>1 DEF Init
  <2>3. Cardinality(S) = 0
    BY <2>2, FS_EmptySet
  <2> QED BY <2>1, <2>2, <2>3 DEF ConfirmedArrived
<1>2. IInv /\ IInv' /\ ConfirmedArrived /\ [Next]_vars => ConfirmedArrived'
  <2> SUFFICES ASSUME IInv, IInv', ConfirmedArrived, [Next]_vars PROVE ConfirmedArrived'
    OBVIOUS
  <2>1. PICK S : S = {p \in confirmed : ~Arrived(p)}
    OBVIOUS
  <2>2. PICK T : T = {p \in confirmed' : ~Arrived(p)'}
    OBVIOUS
  <2>3. PICK n : n = faults.blind
    OBVIOUS
  <2>4. IsFiniteSet(S) /\ Cardinality(S) \in Nat /\ n \in Nat /\ Cardinality(S) <= n
    <3>1. IsFiniteSet(Packet) /\ S \subseteq Packet
      <4>1. PICK l \in Int : l = Len(Blocks)
        BY PacketIs
      <4>2. 1 \in Int /\ Packet = 1 .. l
        BY <4>1, PacketIs
      <4>3. IsFiniteSet(Packet)
        BY <4>1, <4>2, FS_Interval
      <4> QED BY <2>1, <4>3 DEF IInv, SenderTypes
    <3>2. IsFiniteSet(S)
      BY <3>1, FS_Subset
    <3>3. n \in Nat
      BY <2>3 DEF IInv, NetTypes, FaultCount
    <3> QED BY <2>1, <2>3, <3>2, <3>3, FS_CardinalityType DEF ConfirmedArrived
  <2>5. received \subseteq received' /\ \A p : Arrived(p) => Arrived(p)'
    BY ConfirmedStep, Monotone
  <2>6. \/ T \subseteq S /\ faults'.blind = n
        \/ \E p : T \subseteq S \cup {p} /\ faults'.blind = n + 1
    <3>1. CASE confirmed' = confirmed /\ faults'.blind = faults.blind
      BY <2>1, <2>2, <2>3, <2>5, <3>1
    <3>2. ASSUME NEW p, confirmed' = confirmed \cup {p}, Arrived(p), faults'.blind = faults.blind
          PROVE  T \subseteq S /\ faults'.blind = n
      BY <2>1, <2>2, <2>3, <2>5, <3>2
    <3>3. ASSUME NEW p, confirmed' = confirmed \cup {p}, faults'.blind = faults.blind + 1
          PROVE  T \subseteq S \cup {p} /\ faults'.blind = n + 1
      BY <2>1, <2>2, <2>3, <2>5, <3>3
    <3> QED BY <3>1, <3>2, <3>3, ConfirmedStep
  <2>7. Cardinality(T) <= faults'.blind
    <3>1. CASE T \subseteq S /\ faults'.blind = n
      <4>1. Cardinality(T) <= Cardinality(S) /\ IsFiniteSet(T)
        BY <2>4, <3>1, FS_Subset
      <4>2. Cardinality(T) \in Nat
        BY <4>1, FS_CardinalityType
      <4> QED BY <2>4, <3>1, <4>1, <4>2
    <3>2. ASSUME NEW p, T \subseteq S \cup {p}, faults'.blind = n + 1
          PROVE  Cardinality(T) <= faults'.blind
      <4>1. /\ IsFiniteSet(S \cup {p})
            /\ Cardinality(S \cup {p}) \in {Cardinality(S), Cardinality(S) + 1}
        BY <2>4, FS_AddElement
      <4>2. Cardinality(T) <= Cardinality(S \cup {p}) /\ IsFiniteSet(T)
        BY <3>2, <4>1, FS_Subset
      <4>3. Cardinality(T) \in Nat
        BY <4>2, FS_CardinalityType
      <4> QED BY <2>4, <3>2, <4>1, <4>2, <4>3
    <3> QED BY <2>6, <3>1, <3>2
  <2>8. ConfirmedArrived' <=> Cardinality(T) <= faults'.blind
    BY <2>2 DEF ConfirmedArrived
  <2> QED BY <2>7, <2>8
<1> QED BY <1>1, <1>2, Invariance, PTL DEF Spec

=============================================================================
