----------------------------- MODULE ServerProofs -----------------------------
(***************************************************************************)
(* What the two servers keep.                                              *)
(*                                                                         *)
(* MultiSock loses no connection and gives none to two readers, nor a      *)
(* second one to a reader that has one, for every number of readers and    *)
(* connections.                                                            *)
(*                                                                         *)
(* ServerEvent forgets no connection and serves none twice, a balance is   *)
(* off by no more than what strays records, and no connection is answered  *)
(* early unless a stray signal struck it, for every set of connections,    *)
(* every number of handlers and every width of the counters.  RegInv says  *)
(* where a connection can be; BalanceInv says what a balance is while a    *)
(* change to it is half done; EarlyInv says why a response that the        *)
(* application has not signalled can look complete.                        *)
(***************************************************************************)
EXTENDS ServerEvent, MultiSock, FiniteSetTheorems, TLAPS

-----------------------------------------------------------------------------
(* Arithmetic modulo W.                                                    *)

LEMMA DivMod ==
  ASSUME NEW W \in Nat \ {0}, NEW a \in Int
  PROVE  /\ a % W \in 0 .. W - 1 /\ a \div W \in Int
         /\ a = W * (a \div W) + (a % W)
OBVIOUS

LEMMA AtLeastOnce ==
  ASSUME NEW W \in Nat \ {0}, NEW k \in Int, k >= 1
  PROVE  W * k >= W
OBVIOUS

(* The only multiple of W between -W and W is 0.                           *)
LEMMA SmallMultiple ==
  ASSUME NEW W \in Nat \ {0}, NEW k \in Int, W * k < W, W * k > -W
  PROVE  k = 0
<1>1. CASE k >= 1
  BY <1>1, AtLeastOnce
<1>2. CASE k <= -1
  <2>1. W * (-k) >= W
    BY <1>2, AtLeastOnce
  <2>2. W * (-k) = -(W * k)
    OBVIOUS
  <2> QED BY <2>1, <2>2
<1> QED BY <1>1, <1>2

(* a and b differ by a multiple of W.                                      *)
Same(W, a, b) == \E k \in Int : a = b + W * k

LEMMA SameResidue ==
  ASSUME NEW W \in Nat \ {0}, NEW a \in Int, NEW b \in Int, Same(W, a, b)
  PROVE  a % W = b % W
<1>1. PICK q \in Int : a = b + W * q
  BY DEF Same
<1>2. PICK m \in Int, r \in 0 .. W - 1 : a = W * m + r /\ a % W = r
  BY DivMod
<1>3. PICK n \in Int, s \in 0 .. W - 1 : b = W * n + s /\ b % W = s
  BY DivMod
<1>4. PICK k \in Int : k = m - n - q
  OBVIOUS
<1>5. W * k = W * m - W * n - W * q
  BY <1>4
<1>6. W * k \in Int /\ W * m \in Int /\ W * n \in Int /\ W * q \in Int
  OBVIOUS
<1>7. W * k = s - r
  BY <1>1, <1>2, <1>3, <1>5, <1>6
<1>8. k = 0
  BY <1>7, SmallMultiple
<1> QED BY <1>2, <1>3, <1>7, <1>8

LEMMA SameMod ==
  ASSUME NEW W \in Nat \ {0}, NEW a \in Int
  PROVE  Same(W, a % W, a)
<1>1. PICK q \in Int, r \in 0 .. W - 1 : a = W * q + r /\ a % W = r
  BY DivMod
<1>2. -q \in Int /\ W * q \in Int /\ W * (-q) = -(W * q)
  OBVIOUS
<1>3. r = a + W * (-q)
  BY <1>1, <1>2
<1> QED BY <1>1, <1>2, <1>3 DEF Same

LEMMA SameSum ==
  ASSUME NEW W \in Nat \ {0}, NEW a \in Int, NEW b \in Int, NEW c \in Int, NEW d \in Int,
         Same(W, a, b), Same(W, c, d)
  PROVE  Same(W, a + c, b + d) /\ Same(W, a - c, b - d)
<1>1. PICK j \in Int : a = b + W * j
  BY DEF Same
<1>2. PICK k \in Int : c = d + W * k
  BY DEF Same
<1>3. /\ W * j \in Int /\ W * k \in Int /\ j + k \in Int /\ j - k \in Int
      /\ W * (j + k) = W * j + W * k /\ W * (j - k) = W * j - W * k
  OBVIOUS
<1>4. a + c = b + d + W * (j + k) /\ a - c = b - d + W * (j - k)
  BY <1>1, <1>2, <1>3
<1> QED BY <1>3, <1>4 DEF Same

LEMMA SameSelf ==
  ASSUME NEW W \in Nat \ {0}, NEW a \in Int
  PROVE  Same(W, a, a)
<1>1. a = a + W * 0
  OBVIOUS
<1> QED BY <1>1 DEF Same

-----------------------------------------------------------------------------

(* The width of the counters, and the handlers.                            *)
LEMMA Sizes ==
  /\ Width \in Nat \ {0} /\ 1 \in Handler
  /\ \A h \in Handler : h \in Nat \ {0}
BY ServerAssumption DEF Handler

USE ServerAssumption

(* Every variable keeps its type, and a handler that does not run has no   *)
(* balance and no connection.                                              *)
Types ==
  /\ open \in Min .. Max
  /\ balance \in [Handler -> 0 .. Width - 1]
  /\ lpc \in {"accept", "look", "read", "write", "register"}
  /\ sock \in Conn \cup {Null}
  /\ i \in Nat
  /\ min \in 1 .. open /\ select \in 1 .. open
  /\ count \in Nat
  /\ pollset \in [Handler -> SUBSET Conn]
  /\ events \in [Conn -> {"none", "POLLIN", "POLLOUT"}]
  /\ state \in [Conn -> {"new", "accepted", "DISABLED", "READ_START", "WAIT_RESPONSE",
                         "SEND_START", "SEND_COMPLETE", "closed"}]
  /\ room \in [Conn -> BOOLEAN]
  /\ info \in [Conn -> Info \cup {Null}]
  /\ complete \in [Info -> BOOLEAN]
  /\ waiters \subseteq Conn \X Info
  /\ drop \in [Handler -> Nat \cup {Null}]
  /\ strays \in [Handler -> 0 .. Width - 1]
  /\ struck \subseteq Conn /\ early \subseteq Conn

Idle(h) == balance[h] = 0 /\ pollset[h] = {} /\ drop[h] = Null /\ strays[h] = 0

Wanted(s) == IF s \in {"DISABLED", "READ_START"} THEN "POLLIN" ELSE "POLLOUT"

(* A connection is in one pollset exactly while it is live; it then has an *)
(* eventinfo that no other connection has.  The listener holds one that it *)
(* has accepted and not registered.                                        *)
PlaceInv ==
  /\ \A h \in Handler : h > open => Idle(h)
  /\ \A h \in Handler, c \in Conn : c \in pollset[h] => c \in Live
  /\ \A c \in Live : \E h \in Handler : c \in pollset[h]
  /\ \A c \in Conn : \A g, h \in Handler : c \in pollset[g] /\ c \in pollset[h] => g = h
  /\ lpc # "accept" => sock \in Conn /\ state[sock] = "accepted"
  /\ lpc = "look" => i # 0

InfoInv ==
  /\ \A c \in Live : events[c] = Wanted(state[c])
  /\ \A c \in Conn : info[c] # Null <=> c \in Live
  /\ \A c, d \in Live : info[c] = info[d] => c = d

RegInv == Types /\ PlaceInv /\ InfoInv

LEMMA InitRegInv == Init => RegInv
<1> SUFFICES ASSUME Init PROVE RegInv
  OBVIOUS
<1> USE DEF Init
<1>1. Types
  BY Sizes DEF Types
<1>2. Live = {}
  BY DEF Live
<1>3. PlaceInv
  BY <1>2 DEF PlaceInv, Idle
<1>4. InfoInv
  BY <1>2 DEF InfoInv
<1> QED BY <1>1, <1>3, <1>4 DEF RegInv

-----------------------------------------------------------------------------
(* A handler does one of two things with a connection of its pollset.      *)

(* The connection leaves: either the balance is going to follow, or it     *)
(* goes astray.                                                            *)
Leaves(h, c) ==
  /\ Remove(h, c)
  /\ \/ drop' = [drop EXCEPT ![h] = balance[h]] /\ UNCHANGED strays
     \/ strays' = [strays EXCEPT ![h] = (@ + 1) % Width] /\ UNCHANGED drop

(* It stays, in a state and polled for what that state needs.              *)
Stays(h, c) ==
  \E s \in {"DISABLED", "READ_START", "WAIT_RESPONSE", "SEND_START", "SEND_COMPLETE"},
     r \in BOOLEAN : Become(c, s, Wanted(s), r)

LEMMA HandleIs ==
  ASSUME RegInv, NEW h \in Handler, NEW c \in Conn, Handle(h, c)
  PROVE  /\ h <= open /\ drop[h] = Null /\ c \in pollset[h] /\ c \in Live
         /\ UNCHANGED <<listenerVars, balance>>
         /\ Leaves(h, c) \/ Stays(h, c)
<1>1. h <= open /\ drop[h] = Null /\ c \in pollset[h] /\ UNCHANGED <<listenerVars, balance>>
  BY DEF Handle, RefuseRequest, ReceiveFails, Receive, Timeout, SendSome, SendAll, SendFails,
         OtherEvent, Ready
<1>2. c \in Live
  BY <1>1 DEF RegInv, PlaceInv
<1>3. ASSUME RefuseRequest(h, c) \/ ReceiveFails(h, c) \/ Timeout(h, c) \/ SendFails(h, c)
             \/ OtherEvent(h, c)
      PROVE  Leaves(h, c)
  BY <1>3 DEF RefuseRequest, ReceiveFails, Timeout, SendFails, OtherEvent, Close, Leaves
<1>4. CloseInterrupted(h, c) => Leaves(h, c)
  BY DEF CloseInterrupted, Leaves
<1>5. /\ \A r \in BOOLEAN : Become(c, "READ_START", "POLLIN", r) => Stays(h, c)
      /\ \A r \in BOOLEAN : Become(c, "DISABLED", "POLLIN", r) => Stays(h, c)
      /\ \A s \in {"WAIT_RESPONSE", "SEND_START", "SEND_COMPLETE"}, r \in BOOLEAN :
           Become(c, s, "POLLOUT", r) => Stays(h, c)
  <2>1. /\ Wanted("READ_START") = "POLLIN" /\ Wanted("DISABLED") = "POLLIN"
        /\ \A s \in {"WAIT_RESPONSE", "SEND_START", "SEND_COMPLETE"} : Wanted(s) = "POLLOUT"
    BY DEF Wanted
  <2> HIDE DEF Wanted
  <2> QED BY <2>1 DEF Stays
<1>6. ASSUME Receive(h, c) PROVE Leaves(h, c) \/ Stays(h, c)
  BY <1>4, <1>5, <1>6 DEF Receive, Answered
<1>7. ASSUME Ready(h, c, "POLLOUT")
      PROVE  Sending(c) \in {"WAIT_RESPONSE", "SEND_START", "SEND_COMPLETE"}
  <2>1. state[c] \in {"WAIT_RESPONSE", "SEND_START", "SEND_COMPLETE"}
    BY <1>2, <1>7 DEF Ready, RegInv, Types, InfoInv, Wanted, Live
  <2> QED BY <2>1 DEF Sending
<1>8. ASSUME SendSome(h, c) PROVE Stays(h, c)
  BY <1>5, <1>7, <1>8 DEF SendSome
<1>9. ASSUME SendAll(h, c) PROVE Leaves(h, c) \/ Stays(h, c)
  BY <1>4, <1>5, <1>9 DEF SendAll
<1>10. Leaves(h, c) \/ Stays(h, c)
  BY <1>3, <1>6, <1>8, <1>9 DEF Handle
<1> QED BY <1>1, <1>2, <1>10

(* What the listener does to what RegInv relates, but for Register.        *)
LEMMA ListenerKeeps ==
  ASSUME RegInv, Accept \/ Look \/ OpenHandler \/ ReadBalance \/ WriteBalance
  PROVE  RegInv'
<1>1. Types'
  <2>1. CASE Accept
    BY <2>1, Sizes DEF Accept, RegInv, Types, appVars
  <2>2. CASE Look
    <3>1. /\ i \in Nat \ {0} /\ i <= open
          /\ \/ min' = i /\ select' = i
             \/ UNCHANGED <<min, select>>
      BY <2>2 DEF Look, RegInv, Types, PlaceInv
    <3>2. min' \in 1 .. open /\ select' \in 1 .. open /\ open \in Nat
      BY <3>1 DEF RegInv, Types
    <3>3. /\ UNCHANGED <<open, lpc, sock, count, balance, connVars, appVars, drop, strays>>
          /\ i' = i + 1
      BY <2>2 DEF Look
    <3> QED BY <3>1, <3>2, <3>3 DEF RegInv, Types, connVars, appVars
  <2>3. CASE OpenHandler
    <3>1. /\ UNCHANGED <<sock, i, select, count, connVars, appVars, drop, strays>>
          /\ lpc' = "read"
          /\ \/ /\ open < Max /\ open' = open + 1 /\ min' = open + 1
                /\ balance' = [balance EXCEPT ![open + 1] = 0]
             \/ UNCHANGED <<open, min, balance>>
      BY <2>3 DEF OpenHandler
    <3>2. /\ open \in Min .. Max /\ min \in 1 .. open /\ select \in 1 .. open
          /\ balance \in [Handler -> 0 .. Width - 1]
      BY DEF RegInv, Types
    <3>3. 0 \in 0 .. Width - 1
      BY Sizes
    <3>4. /\ open' \in Min .. Max /\ min' \in 1 .. open' /\ select \in 1 .. open'
          /\ balance' \in [Handler -> 0 .. Width - 1]
      <4>1. CASE UNCHANGED <<open, min, balance>>
        BY <3>2, <4>1
      <4>2. CASE /\ open < Max /\ open' = open + 1 /\ min' = open + 1
                 /\ balance' = [balance EXCEPT ![open + 1] = 0]
        <5>1. open + 1 \in Min .. Max /\ open + 1 \in 1 .. open + 1 /\ select \in 1 .. open + 1
          BY <3>2, <4>2
        <5>2. balance' \in [Handler -> 0 .. Width - 1]
          BY <3>2, <3>3, <4>2
        <5> QED BY <4>2, <5>1, <5>2
      <4> QED BY <3>1, <4>1, <4>2
    <3> QED BY <3>1, <3>4 DEF RegInv, Types, connVars, appVars
  <2>4. CASE ReadBalance
    <3>1. balance[min] \in Nat
      BY DEF RegInv, Types, Handler
    <3> QED BY <2>4, <3>1 DEF ReadBalance, RegInv, Types, connVars, appVars
  <2>5. CASE WriteBalance
    <3>1. \A a \in Int : a % Width \in 0 .. Width - 1
      BY Sizes, DivMod
    <3>2. min \in Handler
      BY DEF RegInv, Types, Handler
    <3>3. /\ (count + 1) % Width \in 0 .. Width - 1
          /\ (strays[min] + count - balance[min]) % Width \in 0 .. Width - 1
      <4>1. count \in Int /\ strays[min] \in Int /\ balance[min] \in Int
        BY <3>2 DEF RegInv, Types
      <4>2. PICK a \in Int : a = count + 1
        BY <4>1
      <4>3. PICK b \in Int : b = strays[min] + count - balance[min]
        BY <4>1
      <4>4. a % Width \in 0 .. Width - 1 /\ b % Width \in 0 .. Width - 1
        BY <3>1
      <4> QED BY <4>2, <4>3, <4>4
    <3> QED BY <2>5, <3>2, <3>3 DEF WriteBalance, RegInv, Types, connVars, appVars
  <2> QED BY <2>1, <2>2, <2>3, <2>4, <2>5
<1>2. CASE Accept
  <2>1. PICK c \in Conn : /\ state[c] = "new" /\ sock' = c
                          /\ state' = [state EXCEPT ![c] = "accepted"]
    BY <1>2 DEF Accept
  <2>2. /\ UNCHANGED <<open, balance, pollset, events, info, drop, strays>>
        /\ lpc' = "look" /\ i' = 2
    BY <1>2 DEF Accept
  <2>3. /\ state'[c] = "accepted"
        /\ \A d \in Conn : d # c => state'[d] = state[d]
    BY <2>1 DEF RegInv, Types
  <2>4. Live' = Live
    BY <2>1, <2>3 DEF Live
  <2>5. c \notin Live /\ \A d \in Live : state'[d] = state[d]
    BY <2>1, <2>3 DEF Live
  <2>6. PlaceInv'
    BY <2>1, <2>2, <2>3, <2>4 DEF RegInv, PlaceInv, Idle
  <2>7. InfoInv'
    BY <2>2, <2>4, <2>5 DEF RegInv, InfoInv, Wanted
  <2> QED BY <1>1, <2>6, <2>7 DEF RegInv
<1>3. ASSUME Look \/ OpenHandler \/ ReadBalance \/ WriteBalance
      PROVE  PlaceInv' /\ InfoInv'
  <2>1. /\ UNCHANGED <<pollset, events, state, info, drop, sock>>
        /\ lpc # "accept" /\ (lpc' = "look" => i' # 0) /\ open' >= open
    BY <1>3 DEF Look, OpenHandler, ReadBalance, WriteBalance, connVars, RegInv, Types, PlaceInv
  <2>2. ASSUME NEW h \in Handler, h > open' PROVE Idle(h)'
    <3>1. h \in Nat /\ open \in Nat /\ open' \in Nat
      BY <1>1 DEF RegInv, Types, Handler
    <3>2. Idle(h) /\ h > open
      BY <2>1, <2>2, <3>1 DEF RegInv, PlaceInv
    <3>3. h # min /\ (open' = open + 1 => h # open + 1)
      BY <2>2, <3>1, <3>2 DEF RegInv, Types
    <3>4. balance'[h] = balance[h]
      BY <1>3, <3>3 DEF Look, OpenHandler, ReadBalance, WriteBalance, RegInv, Types
    <3>5. strays'[h] = strays[h]
      BY <1>3, <3>3 DEF Look, OpenHandler, ReadBalance, WriteBalance, RegInv, Types
    <3> QED BY <2>1, <3>2, <3>4, <3>5 DEF Idle
  <2>3. Live' = Live
    BY <2>1 DEF Live
  <2>4. PlaceInv'
    BY <2>1, <2>2, <2>3 DEF RegInv, PlaceInv
  <2>5. InfoInv'
    BY <2>1, <2>3 DEF RegInv, InfoInv
  <2> QED BY <2>4, <2>5
<1> QED BY <1>1, <1>2, <1>3 DEF RegInv

LEMMA RegisterKeeps ==
  ASSUME RegInv, Register
  PROVE  RegInv'
<1>1. /\ sock \in Conn /\ state[sock] = "accepted" /\ sock \notin Live
      /\ select \in Handler /\ select <= open /\ info[sock] = Null
  BY DEF Register, RegInv, PlaceInv, Live, Types, Handler, InfoInv
<1>2. PICK e \in Info \ UsedInfo : info' = [info EXCEPT ![sock] = e]
  BY DEF Register
<1>3. PICK c \in Conn, g \in Handler : c = sock /\ g = select
  BY <1>1
<1>4. /\ state' = [state EXCEPT ![c] = "DISABLED"]
      /\ events' = [events EXCEPT ![c] = "POLLIN"]
      /\ pollset' = [pollset EXCEPT ![g] = @ \cup {c}]
      /\ info' = [info EXCEPT ![c] = e]
      /\ lpc' = "accept" /\ UNCHANGED <<open, balance, drop>>
  BY <1>2, <1>3 DEF Register
<1>5. \A h \in Handler : strays'[h] \in 0 .. Width - 1 /\ (h > open => strays'[h] = strays[h])
  <2> SUFFICES ASSUME NEW h \in Handler
               PROVE  strays'[h] \in 0 .. Width - 1 /\ (h > open => strays'[h] = strays[h])
    OBVIOUS
  <2>1. PICK a \in {0, 1}, b \in {0, 1} : /\ strays'[h] = (strays[h] + a - b) % Width
                                          /\ h > open => a = 0 /\ b = 0
    <3>1. /\ strays'[h] = (strays[h] + (IF h = min THEN 1 ELSE 0)
                                     - (IF h = select THEN 1 ELSE 0)) % Width
          /\ h > open => h # min /\ h # select
      BY DEF Register, RegInv, Types, Handler
    <3> QED BY <3>1
  <2>2. strays[h] \in 0 .. Width - 1
    BY DEF RegInv, Types
  <2>3. (strays[h] + a - b) % Width \in 0 .. Width - 1
    <3>1. PICK x \in Int : x = strays[h] + a - b
      BY <2>2
    <3> QED BY <3>1, Sizes, DivMod
  <2>4. h > open => strays[h] = 0
    BY DEF RegInv, PlaceInv, Idle
  <2>5. (0 + 0 - 0) % Width = 0
    BY Sizes
  <2> QED BY <2>1, <2>3, <2>4, <2>5
<1>6. strays' \in [Handler -> 0 .. Width - 1]
  BY <1>5 DEF Register
<1>7. Types'
  <2>1. open \in Min .. Max /\ 1 <= open
    BY DEF RegInv, Types
  <2>2. /\ sock' = Null /\ i' = 0 /\ min' = 1 /\ select' = 1
        /\ UNCHANGED <<count, room, appVars>>
    BY DEF Register
  <2>3. state' \in [Conn -> {"new", "accepted", "DISABLED", "READ_START", "WAIT_RESPONSE",
                             "SEND_START", "SEND_COMPLETE", "closed"}]
    BY <1>4 DEF RegInv, Types
  <2>4. pollset' \in [Handler -> SUBSET Conn] /\ events' \in [Conn -> {"none", "POLLIN", "POLLOUT"}]
    BY <1>4 DEF RegInv, Types
  <2>5. info' \in [Conn -> Info \cup {Null}]
    BY <1>4 DEF RegInv, Types
  <2>6. 0 \in Nat /\ 1 \in 1 .. open
    BY <2>1
  <2> QED BY <1>4, <1>6, <2>2, <2>3, <2>4, <2>5, <2>6 DEF RegInv, Types, appVars
<1>8. /\ \A d \in Conn : d # c => /\ state'[d] = state[d] /\ events'[d] = events[d]
                                  /\ info'[d] = info[d]
      /\ state'[c] = "DISABLED" /\ events'[c] = "POLLIN" /\ info'[c] = e
      /\ \A h \in Handler : pollset'[h] = IF h = g THEN pollset[h] \cup {c} ELSE pollset[h]
  BY <1>4 DEF RegInv, Types
<1>9. Live' = Live \cup {c} /\ c \notin Live
  BY <1>1, <1>3, <1>8 DEF Live
<1>10. \A h \in Handler : c \notin pollset[h]
  BY <1>9 DEF RegInv, PlaceInv
<1>11. PlaceInv'
  <2>1. \A h \in Handler : h > open' => Idle(h)'
    BY <1>1, <1>3, <1>4, <1>5, <1>8 DEF RegInv, PlaceInv, Idle, Types, Handler
  <2>2. \A h \in Handler, d \in Conn : d \in pollset'[h] => d \in Live'
    BY <1>8, <1>9 DEF RegInv, PlaceInv
  <2>3. \A d \in Live' : \E h \in Handler : d \in pollset'[h]
    <3>1. \A h \in Handler : pollset[h] \subseteq pollset'[h]
      BY <1>8
    <3>2. c \in pollset'[g]
      BY <1>8
    <3>3. \A d \in Live : \E h \in Handler : d \in pollset[h]
      BY DEF RegInv, PlaceInv
    <3> QED BY <1>9, <3>1, <3>2, <3>3
  <2>4. \A d \in Conn : \A h, k \in Handler : d \in pollset'[h] /\ d \in pollset'[k] => h = k
    <3> SUFFICES ASSUME NEW d \in Conn, NEW h \in Handler, NEW k \in Handler,
                        d \in pollset'[h], d \in pollset'[k]
                 PROVE  h = k
      OBVIOUS
    <3>1. CASE d = c
      BY <1>8, <1>10, <3>1
    <3>2. CASE d # c
      <4>1. /\ pollset'[h] = pollset[h] \/ pollset'[h] = pollset[h] \cup {c}
            /\ pollset'[k] = pollset[k] \/ pollset'[k] = pollset[k] \cup {c}
        BY <1>8
      <4>2. d \in pollset[h] /\ d \in pollset[k]
        BY <3>2, <4>1
      <4> QED BY <4>2 DEF RegInv, PlaceInv
    <3> QED BY <3>1, <3>2
  <2> QED BY <1>4, <2>1, <2>2, <2>3, <2>4 DEF PlaceInv
<1>12. InfoInv'
  <2>1. e \in Info /\ e # Null /\ \A d \in Conn : info[d] # e
    BY <1>2 DEF UsedInfo
  <2>2. \A d \in Live' : events'[d] = Wanted(state'[d])
    <3> SUFFICES ASSUME NEW d \in Live' PROVE events'[d] = Wanted(state'[d])
      OBVIOUS
    <3>1. CASE d = c
      BY <1>8, <3>1 DEF Wanted
    <3>2. CASE d # c
      <4>1. d \in Live /\ d \in Conn
        BY <1>9, <3>2 DEF Live
      <4> QED BY <1>8, <3>2, <4>1 DEF RegInv, InfoInv
    <3> QED BY <3>1, <3>2
  <2>3. \A d \in Conn : info'[d] # Null <=> d \in Live'
    BY <1>8, <1>9, <2>1 DEF RegInv, InfoInv
  <2>4. \A d, x \in Live' : info'[d] = info'[x] => d = x
    <3>1. Live \subseteq Conn
      BY DEF Live
    <3> QED BY <1>8, <1>9, <2>1, <3>1 DEF RegInv, InfoInv
  <2> QED BY <2>2, <2>3, <2>4 DEF InfoInv
<1> QED BY <1>7, <1>11, <1>12 DEF RegInv

(* What a handler tells the application and what is noted of it.           *)
LEMMA HandleTypes ==
  ASSUME RegInv, NEW h \in Handler, NEW c \in Conn, Handle(h, c)
  PROVE  /\ complete' \in [Info -> BOOLEAN] /\ waiters' \subseteq Conn \X Info
         /\ struck' = struck /\ early' \subseteq Conn
<1>1. c \in Live /\ info[c] \in Info
  <2>1. c \in Live
    BY HandleIs
  <2> QED BY <2>1 DEF RegInv, InfoInv, Types
<1>2. ASSUME Receive(h, c)
      PROVE  /\ struck' = struck /\ early' = early
             /\ \/ UNCHANGED <<complete, waiters>>
                \/ /\ complete' = [complete EXCEPT ![info[c]] = FALSE]
                   /\ waiters' = waiters \cup {<<c, info[c]>>}
  BY <1>2 DEF Receive
<1>3. ASSUME NoteEarly(c) PROVE early' \subseteq Conn
  BY <1>3 DEF NoteEarly, RegInv, Types
<1>4. \/ UNCHANGED appVars
      \/ NoteEarly(c) /\ UNCHANGED <<complete, waiters, struck>>
      \/ Receive(h, c)
  BY DEF Handle, RefuseRequest, ReceiveFails, Timeout, SendSome, SendAll, SendFails, OtherEvent
<1>5. /\ complete \in [Info -> BOOLEAN] /\ waiters \subseteq Conn \X Info
      /\ early \subseteq Conn
  BY DEF RegInv, Types
<1>6. CASE UNCHANGED appVars
  BY <1>5, <1>6 DEF appVars
<1>7. CASE NoteEarly(c) /\ UNCHANGED <<complete, waiters, struck>>
  BY <1>3, <1>5, <1>7
<1>8. CASE Receive(h, c)
  <2>1. <<c, info[c]>> \in Conn \X Info
    BY <1>1
  <2>2. [complete EXCEPT ![info[c]] = FALSE] \in [Info -> BOOLEAN]
    BY <1>5
  <2>3. waiters \cup {<<c, info[c]>>} \subseteq Conn \X Info
    BY <1>5, <2>1
  <2> QED BY <1>2, <1>5, <1>8, <2>2, <2>3
<1> QED BY <1>4, <1>6, <1>7, <1>8

LEMMA LeavesKeeps ==
  ASSUME RegInv, NEW h \in Handler, NEW c \in Conn, Handle(h, c), Leaves(h, c)
  PROVE  RegInv'
<1>1. /\ h <= open /\ drop[h] = Null /\ c \in pollset[h] /\ c \in Live
      /\ UNCHANGED <<open, lpc, sock, i, min, select, count, balance>>
  BY HandleIs DEF listenerVars
<1>2. /\ pollset' = [pollset EXCEPT ![h] = @ \ {c}]
      /\ events' = [events EXCEPT ![c] = "none"]
      /\ state' = [state EXCEPT ![c] = "closed"]
      /\ room' = [room EXCEPT ![c] = FALSE]
      /\ info' = [info EXCEPT ![c] = Null]
  BY DEF Leaves, Remove
<1>3. /\ drop' \in [Handler -> Nat \cup {Null}] /\ strays' \in [Handler -> 0 .. Width - 1]
      /\ \A g \in Handler : g # h => drop'[g] = drop[g] /\ strays'[g] = strays[g]
  <2>1. balance[h] \in Nat
    BY Sizes DEF RegInv, Types
  <2>2. (strays[h] + 1) % Width \in 0 .. Width - 1
    <3>1. PICK x \in Int : x = strays[h] + 1
      BY DEF RegInv, Types
    <3> QED BY <3>1, Sizes, DivMod
  <2> QED BY <2>1, <2>2 DEF Leaves, RegInv, Types
<1>4. Types'
  <2>1. /\ pollset' \in [Handler -> SUBSET Conn]
        /\ events' \in [Conn -> {"none", "POLLIN", "POLLOUT"}]
        /\ state' \in [Conn -> {"new", "accepted", "DISABLED", "READ_START", "WAIT_RESPONSE",
                                "SEND_START", "SEND_COMPLETE", "closed"}]
        /\ room' \in [Conn -> BOOLEAN] /\ info' \in [Conn -> Info \cup {Null}]
    BY <1>2 DEF RegInv, Types
  <2> QED BY <1>1, <1>3, <2>1, HandleTypes DEF RegInv, Types
<1>5. /\ \A d \in Conn : d # c => /\ state'[d] = state[d] /\ events'[d] = events[d]
                                  /\ info'[d] = info[d]
      /\ state'[c] = "closed" /\ info'[c] = Null
      /\ \A g \in Handler : g # h => pollset'[g] = pollset[g]
      /\ pollset'[h] = pollset[h] \ {c}
  BY <1>2 DEF RegInv, Types
<1>6. Live' = Live \ {c}
  BY <1>5 DEF Live
<1>7. PlaceInv'
  <2>1. \A g \in Handler : g > open' => Idle(g)'
    BY <1>1, <1>3, <1>5 DEF RegInv, PlaceInv, Idle
  <2>2. \A g \in Handler, d \in Conn : d \in pollset'[g] => d \in pollset[g] /\ d # c
    BY <1>1, <1>5 DEF RegInv, PlaceInv
  <2>3. \A d \in Live' : \E g \in Handler : d \in pollset'[g]
    BY <1>5, <1>6 DEF RegInv, PlaceInv
  <2>4. lpc' # "accept" => state'[sock'] = "accepted"
    BY <1>1, <1>5 DEF RegInv, PlaceInv, Live
  <2> QED BY <1>1, <1>6, <2>1, <2>2, <2>3, <2>4 DEF RegInv, PlaceInv
<1>8. InfoInv'
  BY <1>5, <1>6 DEF RegInv, InfoInv, Live
<1> QED BY <1>4, <1>7, <1>8 DEF RegInv

LEMMA StaysKeeps ==
  ASSUME RegInv, NEW h \in Handler, NEW c \in Conn, Handle(h, c), Stays(h, c)
  PROVE  RegInv'
<1>1. /\ h <= open /\ c \in Live
      /\ UNCHANGED <<open, lpc, sock, i, min, select, count, balance>>
  BY HandleIs DEF listenerVars
<1>2. PICK s \in {"DISABLED", "READ_START", "WAIT_RESPONSE", "SEND_START", "SEND_COMPLETE"},
           r \in BOOLEAN : Become(c, s, Wanted(s), r)
  BY DEF Stays
<1>3. /\ state' = [state EXCEPT ![c] = s]
      /\ events' = [events EXCEPT ![c] = Wanted(s)]
      /\ room' = [room EXCEPT ![c] = r]
      /\ UNCHANGED <<pollset, info, drop, strays>>
  BY <1>2 DEF Become
<1>4. Types'
  <2>1. Wanted(s) \in {"POLLIN", "POLLOUT"}
    BY DEF Wanted
  <2>2. /\ events' \in [Conn -> {"none", "POLLIN", "POLLOUT"}]
        /\ state' \in [Conn -> {"new", "accepted", "DISABLED", "READ_START", "WAIT_RESPONSE",
                                "SEND_START", "SEND_COMPLETE", "closed"}]
        /\ room' \in [Conn -> BOOLEAN]
    BY <1>3, <2>1 DEF RegInv, Types
  <2> QED BY <1>1, <1>3, <2>2, HandleTypes DEF RegInv, Types
<1>5. /\ \A d \in Conn : d # c => state'[d] = state[d] /\ events'[d] = events[d]
      /\ state'[c] = s /\ events'[c] = Wanted(s)
  BY <1>3 DEF RegInv, Types
<1>6. Live' = Live
  BY <1>1, <1>5 DEF Live
<1>7. PlaceInv'
  <2>1. \A g \in Handler : Idle(g)' <=> Idle(g)
    BY <1>1, <1>3 DEF Idle
  <2>2. lpc' # "accept" => state'[sock'] = "accepted"
    BY <1>1, <1>5 DEF RegInv, PlaceInv, Live
  <2> QED BY <1>1, <1>3, <1>6, <2>1, <2>2 DEF RegInv, PlaceInv
<1>8. InfoInv'
  <2>1. \A d \in Live' : events'[d] = Wanted(state'[d])
    <3> SUFFICES ASSUME NEW d \in Live PROVE events'[d] = Wanted(state'[d])
      BY <1>6
    <3>1. d \in Conn
      BY DEF Live
    <3>2. CASE d = c
      BY <1>5, <3>2
    <3>3. CASE d # c
      BY <1>5, <3>1, <3>3 DEF RegInv, InfoInv
    <3> QED BY <3>2, <3>3
  <2> QED BY <1>3, <1>6, <2>1 DEF RegInv, InfoInv
<1> QED BY <1>4, <1>7, <1>8 DEF RegInv

LEMMA AsideKeeps ==
  ASSUME RegInv,
         \/ \E h \in Handler : WriteDrop(h)
         \/ \E c \in Conn, e \in Info : Signal(c, e)
         \/ UNCHANGED vars
  PROVE  RegInv'
<1>1. UNCHANGED <<open, lpc, sock, i, min, select, count, pollset, events, state, room, info>>
  BY DEF WriteDrop, Signal, vars, listenerVars, connVars
<1>2. Live' = Live
  BY <1>1 DEF Live
<1>3. InfoInv'
  BY <1>1, <1>2 DEF RegInv, InfoInv
<1>4. ASSUME NEW h \in Handler, WriteDrop(h) PROVE Types' /\ PlaceInv'
  <2>1. h <= open
    <3>1. h \in Nat /\ open \in Nat
      BY DEF RegInv, Types, Handler
    <3> QED BY <1>4, <3>1 DEF WriteDrop, RegInv, PlaceInv, Idle
  <2>2. /\ (drop[h] - 1) % Width \in 0 .. Width - 1
        /\ (strays[h] + drop[h] - balance[h]) % Width \in 0 .. Width - 1
    <3>1. drop[h] \in Nat /\ strays[h] \in Int /\ balance[h] \in Int
      BY <1>4 DEF WriteDrop, RegInv, Types
    <3>2. PICK a \in Int : a = drop[h] - 1
      BY <3>1
    <3>3. PICK b \in Int : b = strays[h] + drop[h] - balance[h]
      BY <3>1
    <3> QED BY <3>2, <3>3, Sizes, DivMod
  <2>3. /\ balance' = [balance EXCEPT ![h] = (drop[h] - 1) % Width]
        /\ drop' = [drop EXCEPT ![h] = Null]
        /\ strays' = [strays EXCEPT ![h] = (strays[h] + drop[h] - balance[h]) % Width]
        /\ UNCHANGED appVars
    BY <1>4 DEF WriteDrop
  <2>4. Types'
    BY <1>1, <2>2, <2>3 DEF RegInv, Types, appVars
  <2>5. \A g \in Handler : g > open => Idle(g)'
    BY <1>1, <2>1, <2>3 DEF RegInv, PlaceInv, Idle, Types, Handler
  <2> QED BY <1>1, <1>2, <2>4, <2>5 DEF RegInv, PlaceInv
<1>5. ASSUME NEW c \in Conn, NEW e \in Info, Signal(c, e) PROVE Types' /\ PlaceInv'
  <2>1. UNCHANGED <<balance, drop, strays>>
    BY <1>5 DEF Signal
  <2>2. Types'
    BY <1>1, <1>5, <2>1 DEF Signal, RegInv, Types
  <2>3. \A g \in Handler : Idle(g)' <=> Idle(g)
    BY <1>1, <2>1 DEF Idle
  <2> QED BY <1>1, <1>2, <2>2, <2>3 DEF RegInv, PlaceInv
<1>6. ASSUME UNCHANGED vars PROVE Types' /\ PlaceInv'
  <2>1. UNCHANGED <<balance, drop, strays, appVars>>
    BY <1>6 DEF vars
  <2>2. \A g \in Handler : Idle(g)' <=> Idle(g)
    BY <1>1, <2>1 DEF Idle
  <2>3. Types'
    BY <1>1, <2>1 DEF RegInv, Types, appVars
  <2> QED BY <1>1, <1>2, <2>2, <2>3 DEF RegInv, PlaceInv
<1> QED BY <1>3, <1>4, <1>5, <1>6 DEF RegInv

LEMMA NextKeepsReg == RegInv /\ [Next]_vars => RegInv'
<1> SUFFICES ASSUME RegInv, [Next]_vars PROVE RegInv'
  OBVIOUS
<1>1. ASSUME Listener PROVE RegInv'
  BY <1>1, ListenerKeeps, RegisterKeeps DEF Listener
<1>2. ASSUME NEW h \in Handler, NEW c \in Conn, Handle(h, c) PROVE RegInv'
  BY <1>2, HandleIs, LeavesKeeps, StaysKeeps
<1> QED BY <1>1, <1>2, AsideKeeps DEF Next

LEMMA RegInvariant == Spec => []RegInv
BY InitRegInv, NextKeepsReg, PTL DEF Spec

(* Every connection that is not closed is in one pollset, that of a        *)
(* running handler, is polled for what its state needs, and has an         *)
(* eventinfo of its own: thread_server_event_listener and the handlers     *)
(* keep pollset, reqevents and eventinfo in step.                          *)
THEOREM EachRegisteredOnce == Spec => []Registered
<1>1. RegInv => Registered
  <2> SUFFICES ASSUME RegInv PROVE Registered
    OBVIOUS
  <2>1. open \in Nat /\ open <= Max
    BY DEF RegInv, Types
  <2>2. \A h \in Handler : h > open => pollset[h] = {}
    BY DEF RegInv, PlaceInv, Idle
  <2>3. \A c \in Live : events[c] = IF state[c] \in {"DISABLED", "READ_START"}
                                    THEN "POLLIN" ELSE "POLLOUT"
    BY DEF RegInv, InfoInv, Wanted
  <2>4. \A c, d \in Live : info[c] = info[d] => c = d
    BY DEF RegInv, InfoInv
  <2>5. ASSUME NEW c \in Conn
        PROVE  Cardinality({h \in 1 .. open : c \in pollset[h]}) = IF c \in Live THEN 1 ELSE 0
    <3>1. CASE c \in Live
      <4>1. PICK h \in Handler : c \in pollset[h]
        BY <3>1 DEF RegInv, PlaceInv
      <4>2. h \in 1 .. open
        BY <2>1, <2>2, <4>1 DEF Handler
      <4>3. \A g \in 1 .. open : c \in pollset[g] => g = h
        BY <2>1, <4>1 DEF RegInv, PlaceInv, Handler
      <4>4. {g \in 1 .. open : c \in pollset[g]} = {h}
        BY <4>1, <4>2, <4>3
      <4>5. Cardinality({h}) = 1
        BY FS_Singleton
      <4> QED BY <3>1, <4>4, <4>5
    <3>2. CASE c \notin Live
      <4>1. {h \in 1 .. open : c \in pollset[h]} = {}
        BY <2>1, <3>2 DEF RegInv, PlaceInv, Handler
      <4> QED BY <3>2, <4>1, FS_EmptySet
    <3> QED BY <3>1, <3>2
  <2> QED BY <2>2, <2>3, <2>4, <2>5 DEF Registered
<1> QED BY <1>1, RegInvariant, PTL

-----------------------------------------------------------------------------
(* The balances.                                                           *)

(* How many changes of a balance are half done: a handler is about to      *)
(* write that a connection is gone, the listener has written that one has  *)
(* come and has not registered it.                                         *)
Dropping(h) == IF drop[h] # Null THEN 1 ELSE 0
Coming(h) == IF lpc = "register" /\ min = h THEN 1 ELSE 0

Told(h) == Cardinality(pollset[h]) + strays[h] + Dropping(h) + Coming(h)

BalanceInv ==
  \A h \in Handler : IsFiniteSet(pollset[h]) /\ Same(Width, balance[h], Told(h))

(* What has been read in order to be written back is a count.              *)
LEMMA Counts ==
  ASSUME RegInv, BalanceInv, NEW h \in Handler
  PROVE  /\ Cardinality(pollset[h]) \in Nat /\ strays[h] \in Nat /\ balance[h] \in Nat
         /\ Dropping(h) \in {0, 1} /\ Coming(h) \in {0, 1} /\ Told(h) \in Nat
<1>1. Cardinality(pollset[h]) \in Nat
  BY FS_CardinalityType DEF BalanceInv
<1>2. /\ strays[h] \in Nat /\ balance[h] \in Nat
      /\ Dropping(h) \in {0, 1} /\ Coming(h) \in {0, 1}
  BY Sizes DEF RegInv, Types, Dropping, Coming
<1> QED BY <1>1, <1>2 DEF Told

(* A pollset loses or gains one connection.                                *)
LEMMA OneFewer ==
  ASSUME NEW S, IsFiniteSet(S), NEW x \in S
  PROVE  /\ IsFiniteSet(S \ {x}) /\ Cardinality(S \ {x}) = Cardinality(S) - 1
         /\ Cardinality(S) \in Nat
BY FS_RemoveElement, FS_CardinalityType

LEMMA OneMore ==
  ASSUME NEW S, IsFiniteSet(S), NEW x, x \notin S
  PROVE  /\ IsFiniteSet(S \cup {x}) /\ Cardinality(S \cup {x}) = Cardinality(S) + 1
         /\ Cardinality(S) \in Nat
BY FS_AddElement, FS_CardinalityType

(* What is written over a balance b, being p more than the d read, is p    *)
(* more than what is told once the strays s have taken up the difference.  *)
LEMMA Overwrite ==
  ASSUME NEW n \in Int, NEW s \in Int, NEW b \in Int, NEW d \in Int, NEW p \in Int,
         NEW k \in Int, Same(Width, b, n + s + k)
  PROVE  Same(Width, (d + p) % Width, n + ((s + d - b) % Width) + k + p)
<1> DEFINE x == s + d - b
<1>1. x \in Int /\ x % Width \in Int /\ d + p \in Int /\ (d + p) % Width \in Int
  <2>1. PICK y \in Int : y = d + p
    OBVIOUS
  <2>2. PICK z \in Int : z = x
    OBVIOUS
  <2> QED BY <2>1, <2>2, Sizes, DivMod
<1>2. Same(Width, x % Width, x) /\ Same(Width, (d + p) % Width, d + p)
  BY <1>1, Sizes, SameMod
<1>3. PICK j \in Int : x % Width = x + Width * j
  BY <1>2 DEF Same
<1>4. PICK m \in Int : (d + p) % Width = d + p + Width * m
  BY <1>2 DEF Same
<1>5. PICK q \in Int : b = n + s + k + Width * q
  BY DEF Same
<1>6. /\ m - j + q \in Int
      /\ Width * (m - j + q) = Width * m - Width * j + Width * q
      /\ Width * m \in Int /\ Width * j \in Int /\ Width * q \in Int
  BY Sizes
<1> HIDE DEF x
<1>7. x = s + d - b
  BY DEF x
<1>8. PICK u \in Int, v \in Int : u = x % Width /\ v = (d + p) % Width
  BY <1>1
<1>9. v = n + u + k + p + Width * (m - j + q)
  BY <1>1, <1>3, <1>4, <1>5, <1>6, <1>7, <1>8
<1> QED BY <1>6, <1>7, <1>8, <1>9 DEF Same, x

LEMMA InitBalance == Init => BalanceInv
<1> SUFFICES ASSUME Init, NEW h \in Handler
             PROVE  IsFiniteSet(pollset[h]) /\ Same(Width, balance[h], Told(h))
  BY DEF BalanceInv
<1>1. /\ pollset[h] = {} /\ balance[h] = 0 /\ strays[h] = 0
      /\ Dropping(h) = 0 /\ Coming(h) = 0
  BY DEF Init, Dropping, Coming
<1>2. IsFiniteSet({}) /\ Cardinality({}) = 0
  BY FS_EmptySet
<1>3. Told(h) = 0
  BY <1>1, <1>2 DEF Told
<1>4. Same(Width, 0, 0)
  BY Sizes, SameSelf
<1> QED BY <1>1, <1>2, <1>3, <1>4

(* A handler about which nothing that BalanceInv looks at changes.         *)
LEMMA Untouched ==
  ASSUME BalanceInv, NEW h \in Handler,
         pollset'[h] = pollset[h], balance'[h] = balance[h], strays'[h] = strays[h],
         drop'[h] = drop[h], Coming(h)' = Coming(h)
  PROVE  IsFiniteSet(pollset'[h]) /\ Same(Width, balance'[h], Told(h)')
BY DEF BalanceInv, Told, Dropping

LEMMA ListenerBalance ==
  ASSUME RegInv, BalanceInv, Listener
  PROVE  BalanceInv'
<1> SUFFICES ASSUME NEW h \in Handler
             PROVE  IsFiniteSet(pollset'[h]) /\ Same(Width, balance'[h], Told(h)')
  BY DEF BalanceInv
<1>1. CASE Accept \/ Look \/ ReadBalance
  <2>1. UNCHANGED <<pollset, balance, strays, drop>> /\ lpc # "register" /\ lpc' # "register"
    BY <1>1 DEF Accept, Look, ReadBalance, connVars
  <2>2. Coming(h)' = Coming(h)
    BY <2>1 DEF Coming
  <2> QED BY <2>1, <2>2, Untouched
<1>2. CASE OpenHandler
  <2>1. /\ UNCHANGED <<pollset, strays, drop>> /\ lpc # "register" /\ lpc' # "register"
        /\ balance' = balance \/ balance' = [balance EXCEPT ![open + 1] = 0]
    BY <1>2 DEF OpenHandler, connVars
  <2>2. Coming(h)' = Coming(h)
    BY <2>1 DEF Coming
  <2>3. balance'[h] = balance[h]
    <3>1. CASE h = open + 1
      <4>1. balance[h] = 0
        BY <3>1 DEF RegInv, PlaceInv, Idle, Types
      <4> QED BY <2>1, <3>1, <4>1 DEF RegInv, Types
    <3>2. CASE h # open + 1
      BY <2>1, <3>2 DEF RegInv, Types
    <3> QED BY <3>1, <3>2
  <2> QED BY <2>1, <2>2, <2>3, Untouched
<1>3. CASE WriteBalance
  <2>1. /\ lpc = "write" /\ lpc' = "register" /\ UNCHANGED <<min, pollset, drop>>
        /\ balance' = [balance EXCEPT ![min] = (count + 1) % Width]
        /\ strays' = [strays EXCEPT ![min] = (strays[min] + count - balance[min]) % Width]
    BY <1>3 DEF WriteBalance, connVars
  <2>2. CASE h # min
    <3>1. Coming(h)' = Coming(h)
      BY <2>1, <2>2 DEF Coming
    <3>2. balance'[h] = balance[h] /\ strays'[h] = strays[h]
      BY <2>1, <2>2 DEF RegInv, Types
    <3> QED BY <2>1, <3>1, <3>2, Untouched
  <2>3. CASE h = min
    <3>1. /\ balance'[h] = (count + 1) % Width
          /\ strays'[h] = (strays[h] + count - balance[h]) % Width
      BY <2>1, <2>3 DEF RegInv, Types
    <3>2. PICK n \in Nat, s \in Nat, b \in Nat, k \in {0, 1} :
            /\ n = Cardinality(pollset[h]) /\ s = strays[h] /\ b = balance[h] /\ k = Dropping(h)
      BY Counts
    <3>3. Coming(h) = 0 /\ Coming(h)' = 1 /\ Dropping(h)' = k /\ count \in Int
      BY <2>1, <2>3, <3>2 DEF Coming, Dropping, RegInv, Types
    <3>4. Same(Width, b, n + s + k)
      <4>1. Told(h) = n + s + k
        BY <3>2, <3>3 DEF Told
      <4> QED BY <3>2, <4>1 DEF BalanceInv
    <3>5. Same(Width, (count + 1) % Width, n + ((s + count - b) % Width) + k + 1)
      <4>1. n \in Int /\ s \in Int /\ b \in Int /\ k \in Int /\ 1 \in Int
        OBVIOUS
      <4> QED BY <3>3, <3>4, <4>1, Overwrite, Zenon
    <3>6. Told(h)' = n + ((s + count - b) % Width) + k + 1
      BY <2>1, <3>1, <3>2, <3>3 DEF Told
    <3> QED BY <2>1, <3>1, <3>5, <3>6 DEF BalanceInv
  <2> QED BY <2>2, <2>3
<1>4. CASE Register
  <2>1. /\ lpc = "register" /\ lpc' = "accept" /\ UNCHANGED <<balance, drop>>
        /\ pollset' = [pollset EXCEPT ![select] = @ \cup {sock}]
        /\ \A g \in Handler : strays'[g] =
             (strays[g] + (IF g = min THEN 1 ELSE 0) - (IF g = select THEN 1 ELSE 0)) % Width
    BY <1>4 DEF Register
  <2>2. sock \notin pollset[h]
    BY <2>1 DEF RegInv, PlaceInv, Live
  <2>3. PICK m \in {0, 1}, p \in {0, 1} : /\ m = (IF h = min THEN 1 ELSE 0)
                                          /\ p = (IF h = select THEN 1 ELSE 0)
    OBVIOUS
  <2>4. PICK n \in Nat, s \in Nat, b \in Nat, k \in {0, 1} :
          /\ n = Cardinality(pollset[h]) /\ s = strays[h] /\ b = balance[h] /\ k = Dropping(h)
    BY Counts
  <2>5. Coming(h) = m /\ Coming(h)' = 0 /\ Dropping(h)' = k
    BY <2>1, <2>3, <2>4 DEF Coming, Dropping
  <2>6. IsFiniteSet(pollset'[h]) /\ Cardinality(pollset'[h]) = n + p
    <3>1. CASE h = select
      <4>1. pollset'[h] = pollset[h] \cup {sock}
        BY <2>1, <3>1 DEF RegInv, Types
      <4> QED BY <2>2, <2>3, <2>4, <3>1, <4>1, OneMore DEF BalanceInv
    <3>2. CASE h # select
      <4>1. pollset'[h] = pollset[h]
        BY <2>1, <3>2 DEF RegInv, Types
      <4> QED BY <2>3, <2>4, <3>2, <4>1 DEF BalanceInv
    <3> QED BY <3>1, <3>2
  <2>7. PICK x \in Int : x = s + m - p
    OBVIOUS
  <2>8. strays'[h] = x % Width /\ x % Width \in Nat
    <3>1. strays'[h] = x % Width
      BY <2>1, <2>3, <2>4, <2>7
    <3>2. x % Width \in 0 .. Width - 1
      BY Sizes, DivMod, Zenon
    <3> QED BY <3>1, <3>2, Sizes
  <2>9. Same(Width, b, n + s + k + m)
    <3>1. Told(h) = n + s + k + m
      BY <2>4, <2>5 DEF Told
    <3> QED BY <2>4, <3>1 DEF BalanceInv
  <2>10. Told(h)' = n + p + (x % Width) + k
    BY <2>5, <2>6, <2>8 DEF Told
  <2>11. Same(Width, b, n + p + (x % Width) + k)
    <3>1. PICK j \in Int : x % Width = x + Width * j
      BY <2>7, Sizes, SameMod DEF Same
    <3>2. PICK q \in Int : b = n + s + k + m + Width * q
      BY <2>9 DEF Same
    <3>3. /\ q - j \in Int /\ Width * (q - j) = Width * q - Width * j
          /\ Width * q \in Int /\ Width * j \in Int
      BY Sizes
    <3>4. PICK u \in Int : u = x % Width
      BY <2>8
    <3>5. b = n + p + u + k + Width * (q - j)
      BY <2>7, <3>1, <3>2, <3>3, <3>4
    <3> QED BY <3>3, <3>4, <3>5 DEF Same
  <2>12. balance'[h] = b
    BY <2>1, <2>4
  <2> QED BY <2>6, <2>10, <2>11, <2>12
<1> QED BY <1>1, <1>2, <1>3, <1>4 DEF Listener

LEMMA WriteDropBalance ==
  ASSUME RegInv, BalanceInv, NEW g \in Handler, WriteDrop(g)
  PROVE  BalanceInv'
<1> SUFFICES ASSUME NEW h \in Handler
             PROVE  IsFiniteSet(pollset'[h]) /\ Same(Width, balance'[h], Told(h)')
  BY DEF BalanceInv
<1>1. /\ drop[g] # Null
      /\ balance' = [balance EXCEPT ![g] = (drop[g] - 1) % Width]
      /\ drop' = [drop EXCEPT ![g] = Null]
      /\ strays' = [strays EXCEPT ![g] = (strays[g] + drop[g] - balance[g]) % Width]
      /\ UNCHANGED <<pollset, lpc, min>>
  BY DEF WriteDrop, connVars, listenerVars
<1>2. Coming(h)' = Coming(h)
  BY <1>1 DEF Coming
<1>3. CASE h # g
  BY <1>1, <1>2, <1>3, Untouched DEF RegInv, Types
<1>4. CASE h = g
  <2>1. PICK d \in Nat : d = drop[h]
    BY <1>1, <1>4 DEF RegInv, Types
  <2>2. /\ balance'[h] = (d - 1) % Width
        /\ strays'[h] = (strays[h] + d - balance[h]) % Width
        /\ drop'[h] = Null
    BY <1>1, <1>4, <2>1 DEF RegInv, Types
  <2>3. PICK n \in Nat, s \in Nat, b \in Nat, k \in {0, 1} :
          /\ n = Cardinality(pollset[h]) /\ s = strays[h] /\ b = balance[h] /\ k = Coming(h)
    BY Counts
  <2>4. Dropping(h) = 1 /\ Dropping(h)' = 0
    BY <1>1, <1>4, <2>2 DEF Dropping
  <2>5. PICK j \in Int : j = 1 + k
    OBVIOUS
  <2>6. Same(Width, b, n + s + j)
    <3>1. Told(h) = n + s + j
      BY <2>3, <2>4, <2>5 DEF Told
    <3> QED BY <2>3, <3>1 DEF BalanceInv
  <2>7. -1 \in Int /\ d + (-1) = d - 1
    OBVIOUS
  <2>8. Same(Width, (d - 1) % Width, n + ((s + d - b) % Width) + j + (-1))
    <3>1. Same(Width, (d + (-1)) % Width, n + ((s + d - b) % Width) + j + (-1))
      <4>1. n \in Int /\ s \in Int /\ b \in Int /\ d \in Int
        OBVIOUS
      <4> QED BY <2>6, <2>7, <4>1, Overwrite, Zenon
    <3> QED BY <2>7, <3>1
  <2>9. PICK u \in Nat : u = (s + d - b) % Width
    <3>1. PICK z \in Int : z = s + d - b
      OBVIOUS
    <3>2. z % Width \in 0 .. Width - 1
      BY Sizes, DivMod, Zenon
    <3> QED BY <3>1, <3>2, Sizes
  <2>10. Told(h)' = n + u + 0 + k
    BY <1>1, <1>2, <2>2, <2>3, <2>4, <2>9 DEF Told
  <2>11. n + u + 0 + k = n + u + j + (-1)
    BY <2>5
  <2> QED BY <1>1, <2>2, <2>8, <2>9, <2>10, <2>11 DEF BalanceInv
<1> QED BY <1>3, <1>4

LEMMA HandleBalance ==
  ASSUME RegInv, BalanceInv, NEW g \in Handler, NEW c \in Conn, Handle(g, c)
  PROVE  BalanceInv'
<1> SUFFICES ASSUME NEW h \in Handler
             PROVE  IsFiniteSet(pollset'[h]) /\ Same(Width, balance'[h], Told(h)')
  BY DEF BalanceInv
<1>1. /\ drop[g] = Null /\ c \in pollset[g] /\ UNCHANGED <<lpc, min, balance>>
      /\ Leaves(g, c) \/ Stays(g, c)
  BY HandleIs DEF listenerVars
<1>2. Coming(h)' = Coming(h)
  BY <1>1 DEF Coming
<1>3. CASE Stays(g, c)
  <2>1. UNCHANGED <<pollset, drop, strays>>
    BY <1>3 DEF Stays, Become
  <2> QED BY <1>1, <1>2, <2>1, Untouched
<1>4. CASE Leaves(g, c) /\ h # g
  <2>1. pollset'[h] = pollset[h] /\ drop'[h] = drop[h] /\ strays'[h] = strays[h]
    BY <1>4 DEF Leaves, Remove, RegInv, Types
  <2> QED BY <1>1, <1>2, <2>1, Untouched
<1>5. CASE Leaves(g, c) /\ h = g
  <2>1. PICK n \in Nat, s \in Nat, b \in Nat, k \in {0, 1} :
          /\ n = Cardinality(pollset[h]) /\ s = strays[h] /\ b = balance[h] /\ k = Coming(h)
    BY Counts
  <2>2. pollset'[h] = pollset[h] \ {c}
    BY <1>5 DEF Leaves, Remove, RegInv, Types
  <2>3. /\ IsFiniteSet(pollset'[h]) /\ Cardinality(pollset'[h]) = n - 1
    BY <1>1, <1>5, <2>1, <2>2, OneFewer DEF BalanceInv
  <2>4. Dropping(h) = 0
    BY <1>1, <1>5 DEF Dropping
  <2>5. Same(Width, b, n + s + k)
    <3>1. Told(h) = n + s + k
      BY <2>1, <2>4 DEF Told
    <3> QED BY <2>1, <3>1 DEF BalanceInv
  <2>6. CASE drop' = [drop EXCEPT ![g] = balance[g]] /\ UNCHANGED strays
    <3>1. drop'[h] = b /\ strays'[h] = s /\ b # Null
      BY <1>5, <2>1, <2>6 DEF RegInv, Types
    <3>2. Dropping(h)' = 1
      BY <3>1 DEF Dropping
    <3>3. Told(h)' = n - 1 + s + 1 + k
      BY <1>2, <2>1, <2>3, <3>1, <3>2 DEF Told
    <3>4. n - 1 + s + 1 + k = n + s + k
      OBVIOUS
    <3> QED BY <1>1, <2>1, <2>3, <2>5, <3>3, <3>4
  <2>7. CASE strays' = [strays EXCEPT ![g] = (@ + 1) % Width] /\ UNCHANGED drop
    <3>1. PICK x \in Nat : x = s + 1
      OBVIOUS
    <3>2. strays'[h] = x % Width /\ x % Width \in Nat
      <4>1. strays'[h] = x % Width
        BY <1>5, <2>1, <2>7, <3>1 DEF RegInv, Types
      <4>2. x \in Int
        OBVIOUS
      <4>3. x % Width \in 0 .. Width - 1
        BY <4>2, Sizes, DivMod, Zenon
      <4> QED BY <4>1, <4>3, Sizes
    <3>3. Dropping(h)' = 0
      BY <1>1, <1>5, <2>7 DEF Dropping
    <3>4. Told(h)' = n - 1 + (x % Width) + 0 + k
      BY <1>2, <2>1, <2>3, <3>2, <3>3 DEF Told
    <3>5. Same(Width, b, n - 1 + (x % Width) + 0 + k)
      <4>1. PICK j \in Int : x % Width = x + Width * j
        <5>1. x \in Int
          OBVIOUS
        <5>2. Same(Width, x % Width, x)
          BY <5>1, Sizes, SameMod, Zenon
        <5> QED BY <5>2 DEF Same
      <4>2. PICK q \in Int : b = n + s + k + Width * q
        BY <2>5 DEF Same
      <4>3. /\ q - j \in Int /\ Width * (q - j) = Width * q - Width * j
            /\ Width * q \in Int /\ Width * j \in Int
        BY Sizes
      <4>4. PICK u \in Int : u = x % Width
        BY <3>2
      <4>5. b = n - 1 + u + 0 + k + Width * (q - j)
        BY <3>1, <4>1, <4>2, <4>3, <4>4
      <4> QED BY <4>3, <4>4, <4>5 DEF Same
    <3> QED BY <1>1, <2>1, <2>3, <3>4, <3>5
  <2> QED BY <1>5, <2>6, <2>7 DEF Leaves
<1> QED BY <1>1, <1>3, <1>4, <1>5

LEMMA NextKeepsBalance == RegInv /\ BalanceInv /\ [Next]_vars => BalanceInv'
<1> SUFFICES ASSUME RegInv, BalanceInv, [Next]_vars PROVE BalanceInv'
  OBVIOUS
<1>1. ASSUME NEW c \in Conn, NEW e \in Info, Signal(c, e) PROVE BalanceInv'
  <2>1. UNCHANGED <<pollset, balance, strays, drop, lpc, min>>
    BY <1>1 DEF Signal, listenerVars, connVars
  <2>2. \A h \in Handler : Coming(h)' = Coming(h)
    BY <2>1 DEF Coming
  <2> QED BY <2>1, <2>2, Untouched DEF BalanceInv
<1>2. CASE UNCHANGED vars
  <2>1. UNCHANGED <<pollset, balance, strays, drop, lpc, min>>
    BY <1>2 DEF vars, listenerVars, connVars
  <2>2. \A h \in Handler : Coming(h)' = Coming(h)
    BY <2>1 DEF Coming
  <2> QED BY <2>1, <2>2, Untouched DEF BalanceInv
<1> QED BY <1>1, <1>2, ListenerBalance, WriteDropBalance, HandleBalance DEF Next

(* Between two changes, the balance of a handler is the number of its      *)
(* connections, but for what strays records: the unlocked balance++ and    *)
(* balance-- and the callbacks that interrupt without one account for all  *)
(* of the difference.                                                      *)
THEOREM BalancesAccounted == Spec => []BalanceAccounts
<1>1. RegInv /\ BalanceInv => BalanceAccounts
  <2> SUFFICES ASSUME RegInv, BalanceInv, NEW h \in 1 .. open, Unchanging(h)
               PROVE  balance[h] = (Cardinality(pollset[h]) + strays[h]) % Width
    BY DEF BalanceAccounts
  <2>1. h \in Handler
    BY DEF RegInv, Types, Handler
  <2>2. PICK n \in Nat, s \in Nat : n = Cardinality(pollset[h]) /\ s = strays[h]
    BY <2>1, Counts
  <2>3. Dropping(h) = 0 /\ Coming(h) = 0
    BY DEF Unchanging, Dropping, Coming
  <2>4. PICK x \in Nat : x = n + s
    OBVIOUS
  <2>5. Told(h) = x
    BY <2>2, <2>3, <2>4 DEF Told
  <2>6. balance[h] \in 0 .. Width - 1
    BY <2>1 DEF RegInv, Types
  <2>7. balance[h] % Width = x % Width
    <3>1. Same(Width, balance[h], x)
      BY <2>1, <2>5 DEF BalanceInv
    <3>2. balance[h] \in Int /\ x \in Int
      BY <2>6
    <3> QED BY <3>1, <3>2, Sizes, SameResidue, Zenon
  <2>8. balance[h] % Width = balance[h]
    <3>1. PICK b \in 0 .. Width - 1 : b = balance[h]
      BY <2>6
    <3>2. b % Width = b
      BY Sizes
    <3> QED BY <3>1, <3>2
  <2> QED BY <2>2, <2>4, <2>7, <2>8
<1>2. RegInv /\ BalanceInv /\ [Next]_vars => RegInv' /\ BalanceInv'
  BY NextKeepsReg, NextKeepsBalance
<1> QED BY <1>1, <1>2, InitRegInv, InitBalance, PTL DEF Spec

-----------------------------------------------------------------------------
(* Early answers.                                                          *)

(* A connection that waits for a signal and would be answered without it   *)
(* has been struck.                                                        *)
Misled(c) == Responds(c) /\ <<c, info[c]>> \in waiters

EarlyInv == EarlyOnlyIfStruck /\ \A c \in Conn : Misled(c) => c \in struck

LEMMA HandleEarly ==
  ASSUME RegInv, EarlyInv, NEW h \in Handler, NEW c \in Conn, Handle(h, c)
  PROVE  EarlyInv'
<1>1. c \in Live /\ info[c] \in Info /\ struck' = struck
  <2>1. c \in Live
    BY HandleIs
  <2> QED BY <2>1, HandleTypes DEF RegInv, InfoInv, Types
<1>2. early' = early \/ NoteEarly(c)
  BY DEF Handle, RefuseRequest, ReceiveFails, Receive, Timeout, SendSome, SendAll, SendFails,
         OtherEvent, appVars
<1>3. early' \subseteq struck
  BY <1>2 DEF NoteEarly, EarlyInv, EarlyOnlyIfStruck, Misled
<1>4. \/ UNCHANGED <<complete, waiters>>
      \/ /\ complete' = [complete EXCEPT ![info[c]] = FALSE]
         /\ waiters' = waiters \cup {<<c, info[c]>>}
         /\ UNCHANGED info
  BY DEF Handle, RefuseRequest, ReceiveFails, Receive, Timeout, SendSome, SendAll, SendFails,
         OtherEvent, appVars, Become
<1>5. ASSUME NEW d \in Conn, d # c PROVE state'[d] = state[d] /\ info'[d] = info[d]
  <2>1. Leaves(h, c) \/ Stays(h, c)
    BY HandleIs
  <2> QED BY <1>5, <2>1 DEF Leaves, Remove, Stays, Become, RegInv, Types
<1>6. ASSUME NEW d \in Conn, d # c, Misled(d)' PROVE d \in struck
  <2>1. state[d] = "WAIT_RESPONSE" /\ complete'[info[d]] /\ <<d, info[d]>> \in waiters'
    BY <1>5, <1>6 DEF Misled, Responds
  <2>2. info[d] \in Info
    BY <2>1 DEF RegInv, InfoInv, Types, Live
  <2>3. complete[info[d]] /\ <<d, info[d]>> \in waiters
    BY <1>1, <1>4, <1>6, <2>1, <2>2 DEF RegInv, Types
  <2> QED BY <2>1, <2>3 DEF EarlyInv, Misled, Responds
<1>7. ASSUME Misled(c)' PROVE c \in struck
  <2>1. state'[c] = "WAIT_RESPONSE" /\ complete'[info'[c]] /\ <<c, info'[c]>> \in waiters'
    BY <1>7 DEF Misled, Responds
  <2>2. ~Leaves(h, c)
    BY <2>1 DEF Leaves, Remove, RegInv, Types
  <2>3. info' = info
    BY <2>2, HandleIs DEF Stays, Become
  <2>4. UNCHANGED <<complete, waiters>>
    BY <1>1, <1>4, <2>1, <2>3 DEF RegInv, Types
  <2>5. ASSUME NEW s, NEW e, NEW r, Become(c, s, e, r) PROVE state'[c] = s
    BY <2>5 DEF Become, RegInv, Types
  <2>6. CASE SendSome(h, c) \/ SendAll(h, c)
    <3>1. state'[c] = Sending(c)
      BY <2>1, <2>2, <2>5, <2>6 DEF SendSome, SendAll, CloseInterrupted, Leaves
    <3>2. Sending(c) = "WAIT_RESPONSE" => state[c] = "WAIT_RESPONSE"
      BY DEF Sending
    <3> QED BY <2>1, <2>3, <2>4, <3>1, <3>2 DEF EarlyInv, Misled, Responds
  <2>7. CASE Receive(h, c)
    <3>1. complete' = [complete EXCEPT ![info[c]] = FALSE]
      BY <2>1, <2>2, <2>5, <2>7 DEF Receive, Answered, CloseInterrupted, Leaves
    <3> QED BY <1>1, <2>1, <2>3, <3>1 DEF RegInv, Types
  <2>8. CASE ~(SendSome(h, c) \/ SendAll(h, c) \/ Receive(h, c))
    BY <2>2, <2>8 DEF Handle, RefuseRequest, ReceiveFails, Timeout, SendFails, OtherEvent, Close,
                      Leaves
  <2> QED BY <2>6, <2>7, <2>8
<1> QED BY <1>1, <1>3, <1>6, <1>7 DEF EarlyInv, EarlyOnlyIfStruck

LEMMA NextKeepsEarly == RegInv /\ EarlyInv /\ [Next]_vars => EarlyInv'
<1> SUFFICES ASSUME RegInv, EarlyInv, [Next]_vars PROVE EarlyInv'
  OBVIOUS
<1>1. ASSUME Listener PROVE EarlyInv'
  <2>1. UNCHANGED appVars
    BY <1>1 DEF Listener, Accept, Look, OpenHandler, ReadBalance, WriteBalance, Register
  <2>2. ASSUME NEW c \in Conn, state'[c] = "WAIT_RESPONSE"
        PROVE  state[c] = "WAIT_RESPONSE" /\ info'[c] = info[c]
    <3>1. CASE Register
      <4>1. PICK e : /\ info' = [info EXCEPT ![sock] = e]
                     /\ state' = [state EXCEPT ![sock] = "DISABLED"]
        BY <3>1 DEF Register
      <4> QED BY <2>2, <4>1 DEF RegInv, Types
    <3>2. CASE Accept
      <4>1. PICK d : state' = [state EXCEPT ![d] = "accepted"] /\ info' = info
        BY <3>2 DEF Accept
      <4> QED BY <2>2, <4>1 DEF RegInv, Types
    <3>3. CASE Look \/ OpenHandler \/ ReadBalance \/ WriteBalance
      BY <2>2, <3>3 DEF Look, OpenHandler, ReadBalance, WriteBalance, connVars
    <3> QED BY <1>1, <3>1, <3>2, <3>3 DEF Listener
  <2> QED BY <2>1, <2>2 DEF appVars, EarlyInv, EarlyOnlyIfStruck, Misled, Responds
<1>2. ASSUME NEW c \in Conn, NEW e \in Info, Signal(c, e) PROVE EarlyInv'
  <2>1. /\ waiters' = waiters \ {<<c, e>>}
        /\ complete' = [complete EXCEPT ![e] = TRUE]
        /\ struck' = struck \cup {d \in Conn \ {c} : info[d] = e}
        /\ UNCHANGED <<state, info, early>>
    BY <1>2 DEF Signal, connVars
  <2>2. ASSUME NEW d \in Conn, Misled(d)' PROVE d \in struck'
    <3>1. state[d] = "WAIT_RESPONSE" /\ complete'[info[d]] /\ <<d, info[d]>> \in waiters
      BY <2>1, <2>2 DEF Misled, Responds
    <3>2. CASE info[d] = e
      <4>1. d # c
        BY <2>1, <2>2, <3>2 DEF Misled
      <4> QED BY <2>1, <3>2, <4>1
    <3>3. CASE info[d] # e
      <4>1. info[d] \in Info
        BY <3>1 DEF RegInv, Types
      <4>2. complete[info[d]]
        BY <2>1, <3>1, <3>3, <4>1 DEF RegInv, Types
      <4> QED BY <2>1, <3>1, <4>2 DEF EarlyInv, Misled, Responds
    <3> QED BY <3>2, <3>3
  <2> QED BY <2>1, <2>2 DEF EarlyInv, EarlyOnlyIfStruck
<1>3. ASSUME (\E h \in Handler : WriteDrop(h)) \/ UNCHANGED vars PROVE EarlyInv'
  <2>1. UNCHANGED <<state, info, complete, waiters, struck, early>>
    BY <1>3 DEF WriteDrop, vars, connVars, appVars
  <2> QED BY <2>1 DEF EarlyInv, EarlyOnlyIfStruck, Misled, Responds
<1> QED BY <1>1, <1>2, <1>3, HandleEarly DEF Next

(* A connection is answered before the application signals only if a       *)
(* signal meant for a connection that is gone has struck it: the test of   *)
(* notify.state before a send is wrong in no other way.                    *)
THEOREM AnsweredInTime == Spec => []EarlyOnlyIfStruck
<1>1. Init => EarlyInv
  BY DEF Init, EarlyInv, EarlyOnlyIfStruck, Misled, Responds
<1>2. RegInv /\ EarlyInv /\ [Next]_vars => RegInv' /\ EarlyInv'
  BY NextKeepsReg, NextKeepsEarly
<1>3. EarlyInv => EarlyOnlyIfStruck
  BY DEF EarlyInv
<1> QED BY <1>1, <1>2, <1>3, InitRegInv, PTL DEF Spec

-----------------------------------------------------------------------------
(* MultiSock.                                                              *)

USE MultiSockAssumption

SockTypes ==
  /\ readerQueue \in Seq(Reader)
  /\ socket \in [Reader -> Socket \cup {NoSocket}]
  /\ status \in [Reader -> BOOLEAN]
  /\ pc \in [Reader -> {"test", "asleep", "proc", "close", "push", "gone"}]
  /\ readSock \in Socket \cup {NoSocket}
  /\ idleReader \in Reader \cup {NoReader}
  /\ pending \subseteq Socket /\ finished \subseteq Socket

Resting(r) == ~status[r] /\ pc[r] \in {"test", "asleep", "gone"}

(* A reader in the queue, or in the hands of the accept thread, is idle    *)
(* and there only once; any other that is told of a connection has one.    *)
IdleQueued ==
  /\ \A k \in 1 .. Len(readerQueue) :
       Resting(readerQueue[k]) /\ readerQueue[k] # idleReader
  /\ \A k, j \in 1 .. Len(readerQueue) : readerQueue[k] = readerQueue[j] => k = j
  /\ idleReader # NoReader => Resting(idleReader) /\ readSock # NoSocket
  /\ \A r \in Reader : status[r] \/ pc[r] \in {"proc", "close"} => socket[r] # NoSocket

SockInv == SockTypes /\ IdleQueued /\ EachConnectionOnce

LEMMA NoReaderIsNone == NoReader \notin Reader
BY DEF NoReader, Reader

LEMMA InitSock == MultiSockInit => SockInv
<1> SUFFICES ASSUME MultiSockInit PROVE SockInv
  OBVIOUS
<1> USE DEF MultiSockInit
<1>1. readerQueue \in Seq(Reader) /\ Len(readerQueue) = N
  BY DEF Reader
<1>2. SockTypes
  BY <1>1 DEF SockTypes
<1>3. IdleQueued
  BY <1>1, NoReaderIsNone DEF IdleQueued, Resting, Reader
<1>4. EachConnectionOnce
  BY DEF EachConnectionOnce, InTask
<1> QED BY <1>2, <1>3, <1>4 DEF SockInv

LEMMA AcceptKeeps == SockInv /\ AcceptSocket => SockInv'
<1> SUFFICES ASSUME SockInv, AcceptSocket PROVE SockInv'
  OBVIOUS
<1> USE DEF SockInv, AcceptSocket, taskVars
<1>1. SockTypes'
  BY DEF SockTypes
<1>2. IdleQueued'
  BY DEF IdleQueued, Resting, SockTypes
<1>3. EachConnectionOnce'
  BY DEF EachConnectionOnce, InTask, SockTypes
<1> QED BY <1>1, <1>2, <1>3

LEMMA PopReaderKeeps == SockInv /\ PopReader => SockInv'
<1> SUFFICES ASSUME SockInv, PopReader PROVE SockInv'
  OBVIOUS
<1> USE DEF SockInv, PopReader, taskVars
<1>1. /\ Len(readerQueue') = Len(readerQueue) - 1 /\ Len(readerQueue) \in Nat \ {0}
      /\ \A k \in 1 .. Len(readerQueue') : readerQueue'[k] = readerQueue[k + 1]
      /\ idleReader' = readerQueue[1] /\ idleReader' \in Reader /\ readerQueue' \in Seq(Reader)
  BY DEF SockTypes
<1>2. SockTypes'
  BY <1>1 DEF SockTypes
<1>3. IdleQueued'
  <2>1. \A k \in 1 .. Len(readerQueue') : k + 1 \in 1 .. Len(readerQueue) /\ k + 1 # 1
    BY <1>1
  <2>2. 1 \in 1 .. Len(readerQueue)
    BY <1>1
  <2>3. \A k \in 1 .. Len(readerQueue') :
          Resting(readerQueue[k + 1]) /\ readerQueue[k + 1] # idleReader'
    BY <1>1, <2>1, <2>2 DEF IdleQueued, Resting
  <2>4. \A k, j \in 1 .. Len(readerQueue') : readerQueue[k + 1] = readerQueue[j + 1] => k = j
    BY <1>1, <2>1 DEF IdleQueued
  <2>5. Resting(readerQueue[1]) /\ readSock' # NoSocket
    BY <1>1, <2>2 DEF IdleQueued
  <2> QED BY <1>1, <2>3, <2>4, <2>5 DEF IdleQueued, Resting
<1>4. EachConnectionOnce'
  BY DEF EachConnectionOnce, InTask
<1> QED BY <1>2, <1>3, <1>4

LEMMA HandKeeps == SockInv /\ Hand => SockInv'
<1> SUFFICES ASSUME SockInv, Hand PROVE SockInv'
  OBVIOUS
<1> USE DEF SockInv, Hand
<1>1. /\ idleReader \in Reader /\ readSock \in Socket /\ Resting(idleReader)
      /\ idleReader' = NoReader /\ readSock' = NoSocket
  BY DEF SockTypes, IdleQueued
<1>2. SockTypes'
  BY <1>1 DEF SockTypes
<1>3. \A r \in Reader : r # idleReader => status'[r] = status[r] /\ socket'[r] = socket[r]
  BY DEF SockTypes
<1>4. status'[idleReader] /\ socket'[idleReader] = readSock
  BY <1>1 DEF SockTypes
<1>5. IdleQueued'
  <2>1. \A k \in 1 .. Len(readerQueue) : readerQueue[k] \in Reader /\ readerQueue[k] # idleReader
    BY DEF SockTypes, IdleQueued
  <2> QED BY <1>1, <1>3, <1>4, <2>1, NoReaderIsNone DEF IdleQueued, Resting, SockTypes
<1>6. EachConnectionOnce'
  <2>1. \A r \in Reader, c \in Socket :
          InTask(r, c)' <=> (r = idleReader /\ c = readSock) \/ (r # idleReader /\ InTask(r, c))
    BY <1>1, <1>3, <1>4 DEF InTask, Resting
  <2>2. \A c \in Socket : ~InTask(idleReader, c)
    BY <1>1 DEF InTask, Resting
  <2>3. \A c \in Socket :
          c \in pending \/ readSock' = c \/ (\E r \in Reader : InTask(r, c)') \/ c \in finished
    BY <1>1, <2>1, <2>2 DEF EachConnectionOnce
  <2>4. \A r, s \in Reader, c \in Socket : InTask(r, c)' /\ InTask(s, c)' => s = r
    BY <1>1, <2>1 DEF EachConnectionOnce
  <2>5. \A r \in Reader, c \in Socket :
          InTask(r, c)' => c \notin pending \cup finished \cup {readSock'}
    BY <1>1, <2>1 DEF EachConnectionOnce
  <2>6. \A r \in Reader : status'[r] => pc[r] \notin {"proc", "close", "push"}
    BY <1>1, <1>3 DEF EachConnectionOnce, Resting
  <2>7. readSock' \notin pending \cup finished
    BY <1>1 DEF SockTypes
  <2> QED BY <1>1, <2>3, <2>4, <2>5, <2>6, <2>7 DEF EachConnectionOnce
<1> QED BY <1>2, <1>5, <1>6

LEMMA ReaderKeeps ==
  ASSUME SockInv, NEW r \in Reader, Read(r) \/ SpuriousWake(r)
  PROVE  SockInv'
<1> USE DEF SockInv, acceptVars
<1>1. CASE Sleep(r) \/ Wake(r) \/ SpuriousWake(r)
  <2> USE <1>1 DEF Sleep, Wake, SpuriousWake, taskVars
  <2>1. /\ pc' \in [Reader -> {"test", "asleep", "proc", "close", "push", "gone"}]
        /\ \A s \in Reader : pc'[s] = pc[s] \/ {pc[s], pc'[s]} = {"test", "asleep"}
    BY DEF SockTypes
  <2>2. SockTypes'
    BY <2>1 DEF SockTypes
  <2>3. IdleQueued'
    BY <2>1 DEF IdleQueued, Resting, SockTypes
  <2>4. EachConnectionOnce'
    BY <2>1 DEF EachConnectionOnce, InTask
  <2> QED BY <2>2, <2>3, <2>4
<1>2. CASE Take(r)
  <2> USE <1>2 DEF Take
  <2>1. SockTypes'
    BY DEF SockTypes
  <2>2. /\ \A k \in 1 .. Len(readerQueue) : readerQueue[k] \in Reader /\ readerQueue[k] # r
        /\ idleReader # NoReader => idleReader # r
    BY DEF SockTypes, IdleQueued, Resting
  <2>3. \A s \in Reader : s # r => status'[s] = status[s] /\ pc'[s] = pc[s]
    BY DEF SockTypes
  <2>4. ~status'[r] /\ pc'[r] = "proc"
    BY DEF SockTypes
  <2>5. IdleQueued'
    BY <2>2, <2>3, <2>4 DEF IdleQueued, Resting, SockTypes
  <2>6. EachConnectionOnce'
    BY <2>3, <2>4 DEF EachConnectionOnce, InTask
  <2> QED BY <2>1, <2>5, <2>6
<1>3. CASE Proc(r)
  <2> USE <1>3 DEF Proc, taskVars
  <2>1. SockTypes'
    BY DEF SockTypes
  <2>2. DOMAIN pc = Reader /\ pc' = [pc EXCEPT ![r] = "close"] /\ pc[r] = "proc"
    BY DEF SockTypes
  <2>3. IdleQueued'
    BY <2>2 DEF IdleQueued, Resting, SockTypes
  <2>4. EachConnectionOnce'
    BY <2>2 DEF EachConnectionOnce, InTask
  <2> QED BY <2>1, <2>3, <2>4
<1>4. CASE CloseSocket(r)
  <2> USE <1>4 DEF CloseSocket, taskVars
  <2>1. socket[r] \in Socket /\ InTask(r, socket[r]) /\ ~status[r]
    BY DEF SockTypes, IdleQueued, InTask, EachConnectionOnce
  <2>2. SockTypes'
    BY <2>1 DEF SockTypes
  <2>3. \A s \in Reader : s # r => pc'[s] = pc[s]
    BY DEF SockTypes
  <2>4. pc'[r] \in {"push", "gone"}
    BY DEF SockTypes
  <2>5. IdleQueued'
    <3>1. /\ \A k \in 1 .. Len(readerQueue) : readerQueue[k] \in Reader /\ readerQueue[k] # r
          /\ idleReader # NoReader => idleReader \in Reader /\ idleReader # r
      BY DEF SockTypes, IdleQueued, Resting
    <3> QED BY <2>3, <2>4, <3>1 DEF IdleQueued, Resting, SockTypes
  <2>6. EachConnectionOnce'
    <3>1. \A s \in Reader, c \in Socket : InTask(s, c)' <=> s # r /\ InTask(s, c)
      BY <2>1, <2>3, <2>4 DEF InTask
    <3>2. \A c \in Socket : InTask(r, c) => c = socket[r]
      BY DEF InTask
    <3> QED BY <2>1, <2>3, <2>4, <3>1, <3>2 DEF EachConnectionOnce
  <2> QED BY <2>2, <2>5, <2>6
<1>5. CASE PushBack(r)
  <2> USE <1>5 DEF PushBack, taskVars
  <2>1. /\ Len(readerQueue') = Len(readerQueue) + 1 /\ Len(readerQueue) \in Nat
        /\ \A k \in 1 .. Len(readerQueue) : readerQueue'[k] = readerQueue[k]
        /\ readerQueue'[Len(readerQueue) + 1] = r
        /\ readerQueue' \in Seq(Reader)
    BY DEF SockTypes
  <2>2. SockTypes'
    BY <2>1 DEF SockTypes
  <2>3. \A s \in Reader : s # r => pc'[s] = pc[s]
    BY DEF SockTypes
  <2>4. pc'[r] \in {"test", "gone"} /\ ~status[r]
    BY DEF SockTypes, EachConnectionOnce
  <2>5. /\ \A k \in 1 .. Len(readerQueue) : readerQueue[k] \in Reader /\ readerQueue[k] # r
        /\ idleReader # r
    <3>1. \A k \in 1 .. Len(readerQueue) : readerQueue[k] \in Reader
      BY DEF SockTypes
    <3>2. \A k \in 1 .. Len(readerQueue) : readerQueue[k] # r
      BY DEF IdleQueued, Resting
    <3>3. idleReader # r
      BY NoReaderIsNone DEF IdleQueued, Resting
    <3> QED BY <3>1, <3>2, <3>3
  <2>6. IdleQueued'
    <3>1. \A k \in 1 .. Len(readerQueue') :
            k \in 1 .. Len(readerQueue) \/ k = Len(readerQueue) + 1
      BY <2>1
    <3>2. \A k \in 1 .. Len(readerQueue') :
            ~status[readerQueue'[k]] /\ pc'[readerQueue'[k]] \in {"test", "asleep", "gone"}
            /\ readerQueue'[k] # idleReader'
      BY <2>1, <2>3, <2>4, <2>5, <3>1 DEF IdleQueued, Resting
    <3>3. \A k, j \in 1 .. Len(readerQueue') : readerQueue'[k] = readerQueue'[j] => k = j
      BY <2>1, <2>5, <3>1 DEF IdleQueued
    <3>4. idleReader # NoReader =>
            /\ ~status[idleReader] /\ pc'[idleReader] \in {"test", "asleep", "gone"}
            /\ readSock # NoSocket
      BY <2>3, <2>5 DEF IdleQueued, Resting, SockTypes
    <3>5. \A s \in Reader : status[s] \/ pc'[s] \in {"proc", "close"} => socket[s] # NoSocket
      BY <2>3, <2>4 DEF IdleQueued
    <3> QED BY <3>2, <3>3, <3>4, <3>5 DEF IdleQueued, Resting
  <2>7. EachConnectionOnce'
    BY <2>3, <2>4 DEF EachConnectionOnce, InTask
  <2> QED BY <2>2, <2>6, <2>7
<1> QED BY <1>1, <1>2, <1>3, <1>4, <1>5 DEF Read

(* SockInv is kept by every step.                                          *)
LEMMA NextSock == SockInv /\ [MultiSockNext]_multiSockVars => SockInv'
<1> SUFFICES ASSUME SockInv, [MultiSockNext]_multiSockVars PROVE SockInv'
  OBVIOUS
<1>1. CASE Accepter
  BY <1>1, AcceptKeeps, PopReaderKeeps, HandKeeps DEF Accepter
<1>2. CASE \E r \in Reader : Read(r) \/ SpuriousWake(r)
  BY <1>2, ReaderKeeps
<1>3. CASE UNCHANGED multiSockVars
  BY <1>3 DEF multiSockVars, taskVars, acceptVars, SockInv, SockTypes, IdleQueued, Resting,
              EachConnectionOnce, InTask
<1> QED BY <1>1, <1>2, <1>3 DEF MultiSockNext

(* No connection is lost, served twice or served by two readers, and the   *)
(* accept thread never gives a reader a connection while it has one.       *)
THEOREM ServedOnce == MultiSockSpec => []EachConnectionOnce
<1>1. SockInv => EachConnectionOnce
  BY DEF SockInv
<1> QED BY InitSock, NextSock, <1>1, PTL DEF MultiSockSpec

===============================================================================
