----------------------------- MODULE TCPSession -----------------------------
(***************************************************************************)
(* One TCP session of the tunnel server (src/src/session/TCPSession.{h,    *)
(* cpp}): the server end of a client's TCP connection, whose packets come  *)
(* out of a datagram tunnel, and the socket to the application server the  *)
(* bytes are relayed to.                                                   *)
(*                                                                         *)
(* Two threads of the Handler work on a session without a lock.  The up    *)
(* stream thread calls receiveFromClient and flushDataToServer, the down   *)
(* stream thread receiveFromServer and flushDataToClient.  Each call is    *)
(* one step here, but for receiveFromServer: trimSendBuffer reads          *)
(* sendUnacknowledged several times, so the call is cut where an           *)
(* acknowledgement handled by the other thread makes the reads differ.     *)
(*                                                                         *)
(* Byte k of a stream is represented by the number k, so a buffer slot     *)
(* says which byte it holds.  The tunnel may lose, duplicate and reorder   *)
(* packets: the session is given any packet its client could have sent.    *)
(***************************************************************************)
EXTENDS Integers, SessionMoves

CONSTANTS
  Modulus,              \* sequence numbers are unsigned int: 2^32
  ISSs,                 \* what generateSequenceNo can return
  ClientISNs,           \* initial sequence numbers of the client
  MSSs,                 \* values of the MSS option in a SYN
  Windows,              \* values of the window field in a SYN
  sendLength,           \* capacity of sendBuffer
  RECEIVE_BUFFER_SIZE,  \* capacity of receiveBuffer
  SEND_MAX_RETRIES,     \* retransmissions without an acknowledgement
  UpLen,                \* bound: bytes the client sends on a connection
  DownLen               \* bound: bytes the server sends on a connection

ASSUME SessionAssumption ==
  /\ Modulus \in Nat \ {0, 1}
  /\ ISSs \subseteq 0..(Modulus - 1)
  /\ ClientISNs \subseteq 0..(Modulus - 1)
  /\ MSSs \subseteq Nat \ {0}
  /\ Windows \subseteq Nat
  /\ sendLength \in 1..(Modulus - 1)
  /\ RECEIVE_BUFFER_SIZE \in 1..(Modulus - 1)
  /\ SEND_MAX_RETRIES \in Nat
  /\ UpLen \in Nat
  /\ DownLen \in Nat

VARIABLES
  state,         \* the session's state
  snd,           \* the fields of the client-bound stream
  rcv,           \* the fields of the server-bound stream
  opt,           \* the options of the client's SYN: mss and sendWindow
  inReceiveSet,  \* mSock is in the fd_set the down stream thread selects on
  timerExpired,  \* the time since lastSendTime is over 4 * rtt
  down,          \* where the down stream thread is inside receiveFromServer
  peer,          \* the client and the application server
  out,           \* the packets the last call wrote to the tunnel
  wrote,         \* <<position, byte>> of the bytes the last call gave mSock
  raced          \* what the up stream thread moved under receiveFromServer

Quiet == out' = {} /\ wrote' = {}

vars == <<state, snd, rcv, opt, inReceiveSet, timerExpired, down, peer,
          out, wrote, raced>>

-----------------------------------------------------------------------------
(* Values.  Definitions named X_Fault, with the fault in their name, are X   *)
(* with a fault: the checks of the project must see each of them.           *)

SeqNums == 0..(Modulus - 1)
Junk == -1               \* a slot that holds no byte of this connection

\* Unsigned arithmetic: the operands are below Modulus.
Plus(a, b) == IF a + b < Modulus THEN a + b ELSE a + b - Modulus
Minus(a, b) == IF b <= a THEN a - b ELSE a - b + Modulus
Max2(a, b) == IF a < b THEN b ELSE a
Min2(a, b) == IF a < b THEN a ELSE b

\* What is read at index i of a buffer; outside it, anything.
ReadAt(buf, i) == IF i \in DOMAIN buf THEN buf[i] ELSE Junk

\* shiftElements(buf + by, n, -by): n elements move to the front.
shiftElements(buf, by, n) ==
  [i \in DOMAIN buf |-> IF i < n THEN ReadAt(buf, i + by) ELSE buf[i]]

\* n bytes of a stream, from byte k on, are stored from offset off on.
StoreBytes(buf, off, k, n) ==
  [i \in DOMAIN buf |-> IF off <= i /\ i < off + n THEN k + (i - off)
                                                   ELSE buf[i]]

Packet(kind, seq, bytes, fin) ==
  [kind |-> kind, seq |-> seq, bytes |-> bytes, fin |-> fin]

\* A packet without data: what matters of it is its kind.
Control(kind) == {Packet(kind, 0, <<>>, FALSE)}

-----------------------------------------------------------------------------
(* The small member functions *)

getReceiveAvailable(r) ==
  Plus(Minus(RECEIVE_BUFFER_SIZE, r.receiveNext), r.receiveSequence)

getSendAvailable_OffByOne(s) ==
  Plus(Minus(sendLength, s.sendNewDataSequence), s.sendSequence) + 1
getSendAvailable(s) ==
  Plus(Minus(sendLength, s.sendNewDataSequence), s.sendSequence)

isUpStreamComplete_FinOnly(r) == r.clientReadFinished
isUpStreamComplete_NoFin(r) == r.receiveUser >= Minus(r.receiveNext, 1)
isUpStreamComplete(r) ==
  r.clientReadFinished /\ r.receiveUser >= Minus(r.receiveNext, 1)

isDownStreamComplete(s) ==
  s.serverReadFinished /\ s.sendUnacknowledged = s.sendNewDataSequence

\* closeSession when closes holds; reg: the session is in the receive set.
closeSession_LeavesFd(closes, reg) ==
  state' = (IF closes THEN "CLOSED" ELSE state) /\ inReceiveSet' = reg
closeSession(closes, reg) ==
  /\ state' = IF closes THEN "CLOSED" ELSE state
  /\ inReceiveSet' = (reg /\ ~closes)

\* Note that receiveSequence becomes receiveNext, not receiveUser.
_trimReceiveBuffer(r) ==
  IF r.receiveUser = r.receiveSequence THEN r
  ELSE [r EXCEPT
         !.receiveBuffer = shiftElements(@,
                             Minus(r.receiveUser, r.receiveSequence),
                             Minus(r.receiveNext, r.receiveUser)),
         !.receiveSequence = r.receiveNext]

trimReceiveBuffer(r) ==
  IF Minus(r.receiveUser, r.receiveSequence) < opt.mss THEN r
  ELSE _trimReceiveBuffer(r)

\* acknowledgeDelayed writes an acknowledgement; late: over ACKNOWLEDGE_DELAY
\* has passed since any session of the process (the clock is a function-local
\* static) last did.
acknowledges(r, late) ==
  /\ ~isUpStreamComplete(r)
  /\ \/ late /\ r.lastAcknowledgedSequence # r.receiveNext
     \/ Minus(r.receiveNext, r.lastAcknowledgedSequence) > opt.mss * 2

-----------------------------------------------------------------------------
(* flushDataToServer *)

\* What mSock.send can answer for amt bytes: how many it took, or an error.
WouldBlock == -1
Failed == -2
SendResults(amt) == (1..amt) \cup {WouldBlock, Failed}

Unflushed(r) ==
  Minus(Minus(r.receiveNext, r.receiveUser), IF r.clientReadFinished THEN 1 ELSE 0)

\* The effect of a flush on the session: the new fields, how many bytes went to
\* the server and which, whether that was less than asked, what went to the
\* tunnel, and whether the session or its write half closed.
Flushed(r, n, taken, short, sent, closes, shuts) ==
  [rcv |-> r, took |-> n, wrote |-> taken, short |-> short, out |-> sent,
   closed |-> closes, shutdown |-> shuts]

noFlush(r) == Flushed(r, 0, {}, FALSE, {}, FALSE, FALSE)

\* The bytes send takes when it answers n; up bytes have gone before them.
Taken_FromFront(r, n, up) ==
  {<<up + i, ReadAt(r.receiveBuffer, i)>> : i \in 0..(n - 1)}
Taken(r, n, up) ==
  {<<up + i, ReadAt(r.receiveBuffer,
                    r.receiveUser - r.receiveSequence + i)>> : i \in 0..(n - 1)}

\* When send takes n bytes.  The FIN is consumed behind the last byte.
sentToServer(r, s, n, up) ==
  LET r1 == [r EXCEPT !.receiveUser = Plus(@, n)]
      last == r.clientReadFinished /\ r1.receiveUser = Minus(r.receiveNext, 1)
      done == isDownStreamComplete(s)
  IN IF last
     THEN Flushed([r1 EXCEPT !.receiveUser = Plus(@, 1)], n, Taken(r, n, up), FALSE,
                  {}, done, ~done)
     ELSE Flushed(IF r.clientReadFinished THEN r1 ELSE trimReceiveBuffer(r1),
                  n, Taken(r, n, up), n < Unflushed(r), {}, FALSE, FALSE)

\* The outcomes of flushDataToServer on an established session.  Its first
\* branch, an all but finished up stream, is unreachable: the test before it
\* returns.
flushDataToServer(r, s, up) ==
  LET amt == Unflushed(r)
  IN IF isUpStreamComplete(r) \/ amt = 0 THEN {noFlush(r)}
     ELSE {CASE n = Failed -> Flushed(r, 0, {}, FALSE, Control("RST"), TRUE, FALSE)
             [] n = WouldBlock -> Flushed(r, 0, {}, TRUE, {}, FALSE, FALSE)
             [] OTHER -> sentToServer(r, s, n, up) : n \in SendResults(amt)}

-----------------------------------------------------------------------------
(* flushDataToClient *)

\* The end of the data: the FIN takes the last sequence number.
DataEnd_AlwaysFin(s) == s.sendNewDataSequence - 1
DataEnd(s) ==
  s.sendNewDataSequence - (IF s.serverReadFinished THEN 1 ELSE 0)

\* The segment that starts at p: mss bytes or what is left, and the FIN behind
\* the last byte once the server has finished.
Segment(s, p) ==
  LET len == Min2(DataEnd(s) - p, opt.mss)
  IN Packet("DATA", p,
            [q \in p..(p + len - 1) |-> ReadAt(s.sendBuffer, q - s.sendSequence)],
            s.serverReadFinished /\ p + len = DataEnd(s))

\* The segments sendDataStartingFrom(seq) writes; a FIN without data is the
\* one that starts at the end of the data.
sendDataStartingFrom(s, seq) ==
  {Segment(s, p) : p \in {p \in seq..(s.sendNewDataSequence - 1) :
                            /\ (p - seq) % opt.mss = 0
                            /\ p < DataEnd(s) \/ p = seq}}

\* The first branch: something is unacknowledged and the timer has run out.
timedOut_InFlightOnly(s) == s.sendUnacknowledged < s.sendNext /\ timerExpired
timedOut(s) == s.sendUnacknowledged < s.sendNewDataSequence /\ timerExpired

\* The second branch: the rest before the FIN, or more than a segment.
hasNewData(s) ==
  \/ s.serverReadFinished /\ s.sendNext < s.sendNewDataSequence
  \/ Minus(s.sendNewDataSequence, s.sendNext) > opt.mss

\* A time-out counts as a retry when part of the data was sent before.
retries_Swapped(s) == timedOut(s) /\ s.sendNext < s.sendNewDataSequence
retries(s) == timedOut(s) /\ s.sendUnacknowledged < s.sendNext

givesUp_OneMore(s) == timedOut(s) /\ s.retryCount = SEND_MAX_RETRIES + 1
givesUp(s) == timedOut(s) /\ s.retryCount = SEND_MAX_RETRIES

\* The call, the fields being s and reg telling whether the session is in the
\* receive set.
flushDataToClient(s, reg) ==
  LET sends == (timedOut(s) /\ ~givesUp(s)) \/ (~timedOut(s) /\ hasNewData(s))
      from == IF timedOut(s) THEN s.sendUnacknowledged ELSE s.sendNext
      closes == givesUp(s) \/ isUpStreamComplete(rcv)
  IN IF state # "ESTABLISHED" \/ isDownStreamComplete(s)
     THEN /\ snd' = s
          /\ out' = {}
          /\ inReceiveSet' = reg
          /\ UNCHANGED <<state, timerExpired>>
     ELSE /\ snd' = IF sends
                    THEN [s EXCEPT !.sendNext = s.sendNewDataSequence,
                                   !.retryCount = IF retries(s) THEN @ + 1 ELSE @]
                    ELSE s
          /\ out' = IF sends THEN sendDataStartingFrom(s, from) ELSE {}
          /\ timerExpired' = (timerExpired /\ ~sends)
          /\ closeSession(closes, reg)

-----------------------------------------------------------------------------
(* receiveFromClient, one action per branch; it runs in the up stream thread *)

\* What the step moves of the things receiveFromServer is in the middle of
\* using: the session itself, or sendUnacknowledged between two reads.
Interferes ==
  raced' = raced
    \cup {x \in {"state"} : down.pc # "idle" /\ state' # state}
    \cup {x \in {"ack"} : down.pc = "trim" /\
                           snd'.sendUnacknowledged # snd.sendUnacknowledged}

\* The call only answers with a packet.
Answers(kind) ==
  /\ out' = Control(kind)
  /\ wrote' = {}
  /\ UNCHANGED <<state, snd, rcv, opt, inReceiveSet, timerExpired, down,
                 peer, raced>>

sendReset == Answers("RST")
sendAck == Answers("ACK")

freshSend(n) ==
  [sendSequence |-> n, sendUnacknowledged |-> n, sendNext |-> n,
   sendNewDataSequence |-> n, sendBuffer |-> [i \in 0..(sendLength - 1) |-> Junk],
   serverReadFinished |-> FALSE, retryCount |-> 0]

freshReceive(n) ==
  [receiveSequence |-> n, receiveUser |-> n, receiveNext |-> n,
   receiveBuffer |-> [i \in 0..(RECEIVE_BUFFER_SIZE - 1) |-> Junk],
   clientReadFinished |-> FALSE, lastAcknowledgedSequence |-> 0]

\* A SYN finds the session closed and the connection to the server is made
\* or in progress: every field starts anew, whatever an earlier connection
\* left (its bytes in the buffers are junk to this one).
reEstablish(isn, iss, mss, window, upTotal, connected) ==
  /\ state = "CLOSED"
  /\ snd' = freshSend(iss)
  /\ rcv' = freshReceive(Plus(isn, 1))
  /\ opt' = [mss |-> mss, sendWindow |-> window]
  /\ timerExpired' = FALSE
  /\ peer' = [peer EXCEPT !.isn = isn, !.iss = iss, !.got = Plus(iss, 1),
                          !.upTotal = upTotal, !.up = 0, !.down = 0,
                          !.shutdown = FALSE, !.short = FALSE]
  /\ state' = IF connected THEN "SYN_ACK_SENT" ELSE "SYN_RECEIVED"
  /\ out' = IF connected THEN Control("SYN_ACK") ELSE {}
  /\ wrote' = {}
  /\ raced' = IF down.pc = "idle" THEN {} ELSE {"state"}
  /\ UNCHANGED <<inReceiveSet, down>>

\* A SYN in the handshake: the same one again is answered, another is not.
synInHandshake(isn) ==
  /\ state \in {"SYN_RECEIVED", "SYN_ACK_SENT"}
  /\ IF isn = Minus(rcv.receiveNext, 1)
     THEN /\ state' = "SYN_ACK_SENT"
          /\ out' = Control("SYN_ACK")
          /\ wrote' = {}
          /\ UNCHANGED <<snd, rcv, opt, inReceiveSet, timerExpired, down, peer>>
          /\ Interferes
     ELSE sendReset

\* A reset closes the session when it lies in the receive window.
reset(seq) ==
  /\ state # "CLOSED"
  /\ seq >= rcv.receiveNext
  /\ seq < Plus(rcv.receiveNext, getReceiveAvailable(rcv))
  /\ closeSession(TRUE, inReceiveSet)
  /\ Quiet
  /\ UNCHANGED <<snd, rcv, opt, timerExpired, down, peer>>
  /\ Interferes

\* An acknowledgement in SYN_ACK_SENT.
awaitsAck_InHandshake == state \in {"SYN_RECEIVED", "SYN_ACK_SENT"}
awaitsAck == state = "SYN_ACK_SENT"
ackOfSyn(seq, ack) ==
  /\ awaitsAck
  /\ IF seq = rcv.receiveNext /\ ack = Plus(snd.sendUnacknowledged, 1)
     THEN /\ snd' = [snd EXCEPT !.sendSequence = ack, !.sendUnacknowledged = ack,
                                !.sendNewDataSequence = ack, !.sendNext = ack]
          /\ state' = "ESTABLISHED"
          /\ inReceiveSet' = TRUE
          /\ timerExpired' = FALSE
          /\ Quiet
          /\ Interferes
          /\ UNCHANGED <<rcv, opt, down, peer>>
     ELSE sendReset

\* copyDataTo and the FIN: as much of the segment as there is room for, and
\* the FIN only behind all of it.
storeSegment(r, len, fin) ==
  LET total == Min2(len, getReceiveAvailable(r))
      stored == [r EXCEPT
                  !.receiveBuffer = StoreBytes(@, Minus(r.receiveNext, r.receiveSequence),
                                      Minus(r.receiveNext, Plus(peer.isn, 1)), total),
                  !.receiveNext = Plus(@, total)]
  IN IF fin /\ total = len
     THEN [stored EXCEPT !.receiveNext = Plus(@, 1), !.clientReadFinished = TRUE]
     ELSE stored

\* A segment of len bytes that does not fit: what the buffer holds is flushed
\* and the buffer trimmed.
makeRoom(s, len) ==
  IF len > getReceiveAvailable(rcv) /\ ~rcv.clientReadFinished
  THEN {[f EXCEPT !.rcv = _trimReceiveBuffer(@)] :
          f \in flushDataToServer(rcv, s, peer.up)}
  ELSE {noFlush(rcv)}

\* The segment is stored and flushed, unless the client has finished before;
\* f is what makeRoom did.
storeAndFlush(s, f, len, fin) ==
  LET r == storeSegment(f.rcv, len, fin)
  IN CASE rcv.clientReadFinished -> {noFlush(rcv)}
       [] ~rcv.clientReadFinished /\ f.closed -> {noFlush(r)}
       [] OTHER -> flushDataToServer(r, s, peer.up + f.took)

\* The end of the call, f1 and f2 being what the two flushes did.
finishSegment(s, f1, f2, late) ==
  LET r == f2.rcv
      closes == \/ f1.closed \/ f2.closed
                \/ isUpStreamComplete(r) /\ isDownStreamComplete(s)
      acks == ~closes /\ acknowledges(r, late)
  IN /\ snd' = s
     /\ rcv' = IF acks THEN [r EXCEPT !.lastAcknowledgedSequence = r.receiveNext]
                       ELSE r
     /\ out' = f1.out \cup f2.out \cup (IF acks THEN Control("ACK") ELSE {})
     /\ wrote' = f1.wrote \cup f2.wrote
     /\ peer' = [peer EXCEPT !.up = @ + f1.took + f2.took,
                             !.shutdown = @ \/ f2.shutdown,
                             !.short = @ \/ f1.short \/ f2.short]
     /\ closeSession(closes, inReceiveSet)
     /\ Interferes
     /\ UNCHANGED <<opt, timerExpired, down>>

\* The next expected segment on an established session.
acceptSegment(len, fin, ack, late) ==
  \E s \in {[snd EXCEPT !.sendUnacknowledged = Max2(@, ack), !.retryCount = 0]} :
  \E f1 \in makeRoom(s, len) : \E f2 \in storeAndFlush(s, f1, len, fin) :
    finishSegment(s, f1, f2, late)

-----------------------------------------------------------------------------
(* The steps of the up stream thread: the packets the client may have sent  *)

\* A SYN in every state; on a closed session the connect may also fail.
receiveSyn(isn) ==
  /\ peer.alive
  /\ \/ /\ state = "CLOSED"
        /\ \/ \E iss \in ISSs, mss \in MSSs, window \in Windows,
                 upTotal \in 0..UpLen, connected \in BOOLEAN :
                reEstablish(isn, iss, mss, window, upTotal, connected)
           \/ sendReset
     \/ synInHandshake(isn)
     \/ state = "ESTABLISHED" /\ sendAck

\* The acknowledgements of the client: nothing above what it got, and an
\* older connection's.
ClientAcks == peer.iss..peer.got

\* The sequence number of position pos of the client's stream.
ClientSeq(pos) == Plus(peer.isn, 1 + pos)

\* A segment of the client's stream, whose FIN follows byte upTotal - 1: it
\* ends the handshake, is the next one expected, or is not.
receiveSegment(pos, len, fin, ack, late) ==
  /\ peer.alive
  /\ len = 0 \/ pos + len <= peer.upTotal
  /\ fin => pos + len = peer.upTotal
  /\ \/ ackOfSyn(ClientSeq(pos), ack)
     \/ /\ state = "ESTABLISHED"
        /\ ClientSeq(pos) = rcv.receiveNext
        /\ acceptSegment(len, fin, ack, late)
     \/ /\ state = "ESTABLISHED"
        /\ ClientSeq(pos) # rcv.receiveNext
        /\ sendAck

receiveReset(pos) == peer.alive /\ reset(ClientSeq(pos))

\* A SYN with an ACK, a packet without one, or an acknowledgement that finds
\* the session CLOSED or in SYN_RECEIVED.
receiveStray == peer.alive /\ sendReset

\* The Handler's loop calls flushDataToServer on every session not closed.
flushToServer ==
  /\ state = "ESTABLISHED"
  /\ UNCHANGED <<snd, opt, timerExpired, down>>
  /\ \E f \in flushDataToServer(rcv, snd, peer.up) :
       /\ rcv' = f.rcv
       /\ out' = f.out
       /\ wrote' = f.wrote
       /\ peer' = [peer EXCEPT !.up = @ + f.took, !.shutdown = @ \/ f.shutdown,
                               !.short = @ \/ f.short]
       /\ closeSession(f.closed, inReceiveSet)
       /\ Interferes

-----------------------------------------------------------------------------
(* The steps of the down stream thread *)

\* trimSendBuffer's early return: little to gain, or still room enough.
keepsSendBuffer(s) ==
  \/ Minus(s.sendUnacknowledged, s.sendSequence) < opt.mss
  \/ getSendAvailable(s) > opt.mss * 2

\* receiveFromServer up to the first read of sendUnacknowledged.
receiveFromServer ==
  /\ down.pc = "idle"
  /\ inReceiveSet
  /\ state = "ESTABLISHED"
  /\ down' = IF keepsSendBuffer(snd) THEN [pc |-> "read", space |-> 0]
             ELSE [pc |-> "trim",
                   space |-> Minus(snd.sendUnacknowledged, snd.sendSequence)]
  /\ Quiet
  /\ UNCHANGED <<state, snd, rcv, opt, inReceiveSet, timerExpired, peer, raced>>

\* The rest of trimSendBuffer: the shift is by the space read before, while
\* its length and the new sendSequence come from reading the field again.
trimSendBuffer ==
  /\ down.pc = "trim"
  /\ snd' = [snd EXCEPT
              !.sendBuffer = shiftElements(@, down.space,
                               Minus(snd.sendNewDataSequence, snd.sendUnacknowledged)),
              !.sendSequence = snd.sendUnacknowledged]
  /\ down' = [pc |-> "read", space |-> 0]
  /\ Quiet
  /\ UNCHANGED <<state, rcv, opt, inReceiveSet, timerExpired, peer, raced>>

\* tryReceive gives n bytes of the server's stream.
received_FromUnacknowledged(s, n) ==
  [s EXCEPT !.sendBuffer = StoreBytes(@, Minus(s.sendNewDataSequence, s.sendUnacknowledged),
                                      peer.down, n),
            !.sendNewDataSequence = Plus(@, n)]
received(s, n) ==
  [s EXCEPT !.sendBuffer = StoreBytes(@, Minus(s.sendNewDataSequence, s.sendSequence),
                                      peer.down, n),
            !.sendNewDataSequence = Plus(@, n)]

\* tryReceive gives end of stream or an error: the FIN takes a number.
finished(s) ==
  [s EXCEPT !.sendNewDataSequence = IF s.serverReadFinished THEN @ ELSE Plus(@, 1),
            !.serverReadFinished = TRUE]

\* The rest of receiveFromServer.  A socket the other thread has closed
\* gives an error, which is taken for the end of the stream.
readFromServer ==
  /\ down.pc = "read"
  /\ down' = [pc |-> "idle", space |-> 0]
  /\ wrote' = {}
  /\ UNCHANGED <<rcv, opt, raced>>
  /\ \/ /\ getSendAvailable(snd) = 0
        /\ out' = {}
        /\ UNCHANGED <<state, snd, inReceiveSet, timerExpired, peer>>
     \/ /\ getSendAvailable(snd) > 0
        /\ \/ \E n \in 1..Min2(getSendAvailable(snd), DownLen - peer.down) :
                /\ state # "CLOSED"
                /\ flushDataToClient(received(snd, n), inReceiveSet)
                /\ peer' = [peer EXCEPT !.down = @ + n]
           \/ /\ state # "CLOSED"
              /\ flushDataToClient(snd, inReceiveSet)
              /\ UNCHANGED peer
           \/ /\ flushDataToClient(finished(snd), inReceiveSet /\ snd.serverReadFinished)
              /\ UNCHANGED peer

\* The Handler's loop calls flushDataToClient on every session not closed.
flushToClient ==
  /\ down.pc = "idle"
  /\ state = "ESTABLISHED"
  /\ flushDataToClient(snd, inReceiveSet)
  /\ wrote' = {}
  /\ UNCHANGED <<rcv, opt, down, peer, raced>>

-----------------------------------------------------------------------------
(* The environment *)

\* Time passes: more than 4 * rtt since lastSendTime.
tick ==
  /\ timerExpired' = TRUE
  /\ Quiet
  /\ UNCHANGED <<state, snd, rcv, opt, inReceiveSet, down, peer, raced>>

\* The client has received everything below got' (the session has sent it).
clientReceives ==
  /\ peer.alive
  /\ state = "ESTABLISHED"
  /\ \E got \in peer.got..snd.sendNext : peer' = [peer EXCEPT !.got = got]
  /\ Quiet
  /\ UNCHANGED <<state, snd, rcv, opt, inReceiveSet, timerExpired, down, raced>>

\* The client or the tunnel to it is gone: no packet arrives any more.
clientDies ==
  /\ peer.alive
  /\ peer' = [peer EXCEPT !.alive = FALSE]
  /\ Quiet
  /\ UNCHANGED <<state, snd, rcv, opt, inReceiveSet, timerExpired, down, raced>>

-----------------------------------------------------------------------------
(* The specification *)

\* The constructor: a closed session; zero is the value of every number.
Init ==
  /\ state = "CLOSED"
  /\ snd = freshSend(0)
  /\ rcv = freshReceive(0)
  /\ opt = [mss |-> 0, sendWindow |-> 0]
  /\ inReceiveSet = FALSE
  /\ timerExpired = FALSE
  /\ down = [pc |-> "idle", space |-> 0]
  /\ peer = [isn |-> 0, iss |-> 0, got |-> 0, upTotal |-> 0, up |-> 0,
             down |-> 0, shutdown |-> FALSE, short |-> FALSE, alive |-> TRUE]
  /\ out = {}
  /\ wrote = {}
  /\ raced = {}

UpStream ==
  \/ \E isn \in ClientISNs : receiveSyn(isn)
  \/ \E pos \in 0..(peer.upTotal + 1), len \in 0..UpLen, fin, late \in BOOLEAN,
        ack \in ClientAcks : receiveSegment(pos, len, fin, ack, late)
  \/ \E pos \in 0..(UpLen + 1) : receiveReset(pos)
  \/ receiveStray
  \/ flushToServer

DownStream ==
  receiveFromServer \/ trimSendBuffer \/ readFromServer \/ flushToClient

Environment == tick \/ clientReceives \/ clientDies

Next == UpStream \/ DownStream \/ Environment

\* The server's socket takes bytes, or fails.
serverTakes == flushToServer /\ (rcv' # rcv \/ state' # state)

\* The loops of the Handler keep running: each iteration finishes the call it
\* is in and calls flushDataToClient and flushDataToServer; time passes; a
\* socket that would block does not for ever.
Fairness ==
  /\ WF_vars(trimSendBuffer)
  /\ WF_vars(readFromServer)
  /\ SF_vars(flushToClient)
  /\ WF_vars(serverTakes)
  /\ WF_vars(tick)

Spec == Init /\ [][Next]_vars
FairSpec == Spec /\ Fairness

-----------------------------------------------------------------------------
(* Properties *)

SendFields ==
  [sendSequence : SeqNums, sendUnacknowledged : SeqNums, sendNext : SeqNums,
   sendNewDataSequence : SeqNums,
   sendBuffer : [0..(sendLength - 1) -> Nat \cup {Junk}],
   serverReadFinished : BOOLEAN, retryCount : 0..SEND_MAX_RETRIES]

ReceiveFields ==
  [receiveSequence : SeqNums, receiveUser : SeqNums, receiveNext : SeqNums,
   receiveBuffer : [0..(RECEIVE_BUFFER_SIZE - 1) -> Nat \cup {Junk}],
   clientReadFinished : BOOLEAN, lastAcknowledgedSequence : SeqNums]

Peers ==
  [isn : SeqNums, iss : SeqNums, got : SeqNums, upTotal : 0..UpLen, up : Nat,
   down : 0..DownLen, shutdown : BOOLEAN, short : BOOLEAN, alive : BOOLEAN]

\* Every field keeps its type, on every path through the two threads.
TypeOK ==
  /\ state \in States
  /\ snd \in SendFields
  /\ rcv \in ReceiveFields
  /\ opt \in [mss : MSSs \cup {0}, sendWindow : Windows \cup {0}]
  /\ state # "CLOSED" => opt.mss \in MSSs
  /\ inReceiveSet \in BOOLEAN
  /\ timerExpired \in BOOLEAN
  /\ down \in [pc : {"idle", "trim", "read"}, space : SeqNums]
  /\ peer \in Peers
  /\ raced \subseteq {"state", "ack"}

\* sendSequence <= sendUnacknowledged <= sendNext <= sendNewDataSequence, all
\* within the buffer's capacity: the order every subtraction of unsigned
\* sequence numbers in trimSendBuffer, receiveFromServer and
\* flushDataToClient relies on.
SendWindowOrdered ==
  raced = {} /\ state = "ESTABLISHED" =>
    /\ snd.sendSequence <= snd.sendUnacknowledged
    /\ snd.sendUnacknowledged <= snd.sendNext
    /\ snd.sendNext <= snd.sendNewDataSequence
    /\ snd.sendNewDataSequence <= snd.sendSequence + sendLength

\* A data segment carries the bytes of the server's stream at the sequence
\* numbers it says, and a FIN stands behind the last of them.
SegmentFaithful(g) ==
  /\ \A q \in DOMAIN g.bytes : g.bytes[q] = q - (peer.iss + 1)
  /\ g.fin => \A q \in g.seq..(peer.iss + peer.down) : q \in DOMAIN g.bytes

\* Every segment flushDataToClient writes is faithful, through trims,
\* retransmissions and a re-established session, as long as receiveFromClient
\* moved nothing under a receiveFromServer in progress.
DownloadFaithful ==
  raced = {} => \A g \in out : g.kind = "DATA" => SegmentFaithful(g)

\* The same when acknowledgements may arrive at any time.
DownloadFaithfulUnderAcks ==
  raced \subseteq {"ack"} => \A g \in out : g.kind = "DATA" => SegmentFaithful(g)

\* As long as every send took all it was given: what flushDataToServer hands
\* to the server are the client's bytes, in order, none twice and none left
\* out, and the write half is shut down only behind the last byte.
UploadFaithful ==
  ~peer.short => (\A w \in wrote : w[1] = w[2]) /\ (peer.shutdown => peer.up = peer.upTotal)

\* isUpStreamComplete tells the truth: every byte before the FIN has gone to
\* the server.  receiveFromClient, flushDataToServer and flushDataToClient
\* close the session or stop flushing on it.  The client's numbers stay below
\* the wrap, where the code's >= on them means what it says.
UpStreamCompleteIsTrue ==
  state = "ESTABLISHED" /\ isUpStreamComplete(rcv) => peer.up = peer.upTotal

\* The down stream thread selects on the socket exactly while there may be
\* more to read: a finished stream would always be readable, and a live one
\* left out would never be read again.
FdRegistration ==
  raced = {} => (inReceiveSet <=> state = "ESTABLISHED" /\ ~snd.serverReadFinished)

\* sendNext moves only over what the same call wrote to the tunnel: nothing
\* is skipped between two segments or before the FIN.
SentMeansWritten ==
  [][state = "ESTABLISHED" /\ state' = "ESTABLISHED" =>
       \A q \in snd.sendNext..(snd'.sendNext - 1) :
         \E g \in out' : q \in DOMAIN g.bytes
                         \/ (g.fin /\ q = snd'.sendNewDataSequence - 1)]_vars

\* Why a session may close other than by an orderly end: a reset from the
\* client, a failed write to the server (the client is reset), or
\* SEND_MAX_RETRIES retransmissions without an answer.
ClosesAbnormally ==
  \/ \E pos \in 0..(UpLen + 1) : receiveReset(pos)
  \/ \E g \in out' : g.kind = "RST"
  \/ /\ timerExpired
     /\ snd'.retryCount = SEND_MAX_RETRIES
     /\ snd'.sendUnacknowledged < snd'.sendNewDataSequence

\* In an orderly end no byte the client was told had arrived is lost: the
\* client has finished and the server has got everything.
OrderlyCloseKeepsUpload ==
  [][state = "ESTABLISHED" /\ state' = "CLOSED" /\ ~ClosesAbnormally =>
       rcv'.clientReadFinished /\ peer'.up = peer'.upTotal]_vars

\* Nor is a byte for the client: an orderly end waits until the server has ended
\* its stream and the client has acknowledged it.
OrderlyCloseKeepsDownload ==
  [][state = "ESTABLISHED" /\ state' = "CLOSED" /\ ~ClosesAbnormally =>
       isDownStreamComplete(snd')]_vars

\* The session keeps what SessionLife promises the Handler.
Life == INSTANCE SessionLife WITH state <- state
ImplementsSessionLife == Life!Spec

\* A client that falls silent with data unacknowledged does not hold the
\* session for ever: the retransmissions run out.
DeadClientReleased ==
  (~peer.alive /\ state = "ESTABLISHED"
     /\ snd.sendUnacknowledged < snd.sendNewDataSequence) ~> (state = "CLOSED")

\* Less than a segment of new data is held back only for a time.
HeldDataIsSent ==
  (state = "ESTABLISHED" /\ snd.sendNext < snd.sendNewDataSequence)
    ~> (state # "ESTABLISHED" \/ snd.sendNext = snd.sendNewDataSequence)
=============================================================================
