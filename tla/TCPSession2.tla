---------------------------- MODULE TCPSession2 ----------------------------
(***************************************************************************)
(* One session of the rewritten server (src/src/sessions2/TCPSession.h):   *)
(* as in TCPSession a TCP connection of the client is terminated and its   *)
(* bytes relayed to a socket, but in one thread, with offsets instead of   *)
(* sequence numbers and with registration in three sets for select.        *)
(*                                                                         *)
(* The client is not trusted: a packet carries any sequence number, any    *)
(* acknowledgement number and any window, so every reordering, repetition  *)
(* and loss is included.  Byte k of a stream is the number k.  Times are   *)
(* inputs: a test of a clock may go either way, unless the same call has   *)
(* just set that clock.                                                    *)
(***************************************************************************)
EXTENDS Integers, Sequences

CONSTANTS
  Modulus,      \* sequence numbers are unsigned int: 2^32
  ISSs,         \* what generateSequenceNo can return
  ClientISNs,   \* initial sequence numbers of the client
  Windows,      \* window sizes, already shifted
  BUFFER_SIZE,  \* capacity of both buffers
  mss,          \* IP_MSS
  UpLen,        \* bound: bytes the client sends on a connection
  DownLen       \* bound: bytes the server sends on a connection

ASSUME Session2Assumption ==
  /\ Modulus \in Nat \ {0, 1}
  /\ ISSs \subseteq 0..(Modulus - 1)
  /\ ClientISNs \subseteq 0..(Modulus - 1)
  /\ Windows \subseteq Nat
  /\ BUFFER_SIZE \in 1..(Modulus - 2)
  /\ mss \in Nat \ {0}
  /\ UpLen \in Nat /\ DownLen \in Nat

VARIABLES
  state,
  up,     \* the server-bound stream: receiveSent, receiveBuffer and its flags
  dn,     \* the client-bound stream: sendUnacknowledged, sendNextOffset,
          \* sendWindowRightEdge, sendBuffer and its flags
  sets,   \* the fd_sets the socket is in
  hung,   \* the thread is in sendDataStartingFrom's loop for ever
  out,    \* the data segments the last call sent back
  peer    \* history: numbers the streams started with, bytes moved

vars == <<state, up, dn, sets, hung, out, peer>>

\* Definitions named X_Fault are X with a fault the checks must see.
SeqNums == 0..(Modulus - 1)
Plus(a, b) == (a + b) % Modulus
Minus(a, b) == (a - b) % Modulus
Min2(a, b) == IF a < b THEN a ELSE b
Max2(a, b) == IF a < b THEN b ELSE a
One(flag) == IF flag THEN 1 ELSE 0

\* SmartBuffer: the last n elements move to the front.
compact_KeepsFront(buf, n) == SubSeq(buf, 1, n)
compact(buf, n) == SubSeq(buf, Len(buf) - n + 1, Len(buf))
available(buf) == BUFFER_SIZE - Len(buf)

Bytes(from, n) == [i \in 1..n |-> from + i - 1]

freshUp(isn) ==
  [receiveSent |-> Plus(isn, 1), buf |-> <<>>,
   finished |-> FALSE, flushed |-> FALSE]
freshDn(iss, window) ==
  [una |-> iss, next |-> 0, edge |-> window, buf |-> <<>>,
   ended |-> FALSE, sentFin |-> FALSE, flushed |-> FALSE]

closeSession == state' = "CLOSED" /\ sets' = {}

-----------------------------------------------------------------------------
(* flushDataToClient *)

finHere_AtWindow(d, end) == d.ended /\ end = Min2(d.edge, Len(d.buf))
finHere(d, end) == d.ended /\ end = Len(d.buf)

Segment(d, off, end) ==
  [seq |-> Plus(d.una, off), bytes |-> SubSeq(d.buf, off + 1, end),
   fin |-> finHere(d, end)]

\* Where the loop leaves off: with push at bound, else behind the last full
\* segment; the end of the stream counts as one more byte.
loopEnd(d, off, bound, push) ==
  LET limit == bound + One(d.ended)
  IN IF push THEN Max2(off, bound)
     ELSE IF off < limit THEN off + mss * ((limit - off - 1) \div mss)
     ELSE off

\* With push and the stream at its end, off = bound < bound + 1 stays true.
loopHangs(d, off, bound, push) == push /\ d.ended /\ off <= bound

sendDataStartingFrom(d, off, push) ==
  LET bound == Min2(d.edge, Len(d.buf))
      end == loopEnd(d, off, bound, push)
      hangs == loopHangs(d, off, bound, push)
      starts == {o \in off..end : (o - off) % mss = 0 /\ (o < end \/ hangs)}
      segs == {Segment(d, o, Min2(o + mss, end)) : o \in starts}
  IN [d |-> [d EXCEPT !.next = IF hangs THEN @ ELSE Max2(@, end),
                      !.sentFin = @ \/ \E s \in segs : s.fin],
      segs |-> segs, hangs |-> hangs]

Nothing(d) == [d |-> d, segs |-> {}, hangs |-> FALSE]

\* First whole segments, everything again if anything is unacknowledged; then
\* what is held back.  finNotSent is about the client's end of stream.
flushed(d, ackLate, dataLate) ==
  LET bound == Min2(d.edge, Len(d.buf))
      finNotSent == up.finished # d.sentFin
      one == IF d.next > 0 \/ (d.ended /\ ackLate)
             THEN sendDataStartingFrom(d, 0, d.ended)
             ELSE IF bound > mss THEN sendDataStartingFrom(d, 0, FALSE)
             ELSE Nothing(d)
      late == dataLate /\ one.d.next = d.next
      two == IF ~one.hangs /\ ((one.d.next # bound /\ late) \/ finNotSent)
             THEN sendDataStartingFrom(one.d, one.d.next, TRUE)
             ELSE Nothing(one.d)
  IN [d |-> two.d, segs |-> one.segs \cup two.segs,
      hangs |-> one.hangs \/ two.hangs]

FlushFrom(d, ackLate, dataLate) ==
  LET r == IF state = "ESTABLISHED" /\ ~d.flushed
           THEN flushed(d, ackLate, dataLate) ELSE Nothing(d)
  IN dn' = r.d /\ out' = r.segs /\ hung' = r.hangs

flushDataToClient ==
  /\ ~hung
  /\ state = "ESTABLISHED"
  /\ \E ackLate, dataLate \in BOOLEAN : FlushFrom(dn, ackLate, dataLate)
  /\ UNCHANGED <<state, up, sets, peer>>

\* The loop that does not end sends the same segment again and again.
sendsForEver == hung /\ UNCHANGED vars

-----------------------------------------------------------------------------
(* receiveFromServer, for a session select has found in the receive set *)

receiveFromServer ==
  /\ ~hung
  /\ state = "ESTABLISHED" /\ ~dn.ended /\ "receive" \in sets
  /\ \E n \in 0..Min2(available(dn.buf), DownLen - peer.read), ends \in BOOLEAN,
        ackLate, dataLate \in BOOLEAN :
       LET d == IF ends THEN [dn EXCEPT !.ended = TRUE]
                ELSE [dn EXCEPT !.buf = @ \o Bytes(peer.read, n)]
           stays == ~ends /\ available(d.buf) > 0
       IN /\ ends => n = 0
          /\ peer' = [peer EXCEPT !.read = @ + n]
          /\ sets' = IF stays THEN sets ELSE sets \ {"receive"}
          /\ FlushFrom(d, ackLate, dataLate)
  /\ UNCHANGED <<state, up>>

-----------------------------------------------------------------------------
(* flushDataToServer *)

\* The socket became writable, so the connection is made or has failed.
connected ==
  /\ ~hung
  /\ state = "SYN_RECEIVED"
  /\ \/ state' = "SYN_ACK_SENT" /\ sets' = sets \ {"send"}
     \/ closeSession
  /\ out' = {}
  /\ UNCHANGED <<up, dn, hung, peer>>

\* n of the bytes are taken.  receiveSent stays: receiveNext moves back.
flushDataToServer ==
  /\ ~hung
  /\ state = "ESTABLISHED" /\ ~up.flushed
  /\ \E n \in 0..Len(up.buf) :
       LET all == n = Len(up.buf)
       IN /\ IF all /\ up.finished /\ dn.flushed THEN closeSession
             ELSE /\ sets' = IF all THEN sets \ {"send"} ELSE sets
                  /\ UNCHANGED state
          /\ up' = IF all /\ up.finished
                   THEN [up EXCEPT !.flushed = ~dn.flushed]
                   ELSE [up EXCEPT !.buf = compact(@, Len(@) - n)]
          /\ peer' = IF peer.slipped THEN peer
                     ELSE [peer EXCEPT !.wrote = @ \o SubSeq(up.buf, 1, n)]
  /\ out' = {}
  /\ UNCHANGED <<dn, hung>>

\* A failed send, or onSocketError: a reset goes to the client.
socketFails ==
  /\ ~hung
  /\ state # "CLOSED"
  /\ closeSession
  /\ out' = {}
  /\ UNCHANGED <<up, dn, hung, peer>>

\* checkStatus after SYN_TIMEOUT, or too long without an acknowledgement.
timesOut ==
  /\ ~hung
  /\ state \in {"SYN_ACK_SENT", "ESTABLISHED"}
  /\ closeSession
  /\ out' = {}
  /\ UNCHANGED <<up, dn, hung, peer>>

-----------------------------------------------------------------------------
(* receiveFromClient.  Answers without data change nothing and are left out. *)

receiveSyn ==
  /\ ~hung
  /\ state = "CLOSED"
  /\ \E isn \in ClientISNs, iss \in ISSs, window \in Windows :
       /\ up' = freshUp(isn)
       /\ dn' = freshDn(iss, window)
       /\ peer' = [isn |-> isn, iss |-> iss, read |-> 0, wrote |-> <<>>,
                   slipped |-> FALSE]
  /\ \/ state' = "SYN_ACK_SENT" /\ sets' = {"error"}
     \/ state' = "SYN_RECEIVED" /\ sets' = {"error", "send"}
  /\ out' = {}
  /\ UNCHANGED hung

\* A reset counts when its number is in the receive window.
receiveReset ==
  /\ ~hung
  /\ state # "CLOSED"
  /\ \E seq \in SeqNums :
       LET off == Minus(seq, up.receiveSent)
           next == Len(up.buf) + One(up.finished)
           room == available(up.buf)
       IN IF room > 0 THEN next <= off /\ off < next + room ELSE off = next
  /\ closeSession
  /\ out' = {}
  /\ UNCHANGED <<up, dn, hung, peer>>

awaitsAck_Early == state \in {"SYN_RECEIVED", "SYN_ACK_SENT"}
awaitsAck == state = "SYN_ACK_SENT"

establish ==
  /\ ~hung
  /\ awaitsAck
  /\ \E seq, ack \in SeqNums : seq = up.receiveSent /\ ack = dn.una
  /\ dn' = [dn EXCEPT !.una = Plus(@, 1)]
  /\ sets' = sets \cup {"receive"}
  /\ state' = "ESTABLISHED"
  /\ out' = {}
  /\ UNCHANGED <<up, hung, peer>>

\* The offset an acknowledgement stands for.  ack - sendUnacknowledged is
\* cast to int and compared with unsigned: an old one is a very large one.
ackOffset(ack) == Minus(ack, dn.una)
acceptable_Any(off) == off <= Len(dn.buf) + One(dn.sentFin)
acceptable(off) == off <= dn.next + One(dn.sentFin)

acknowledged(off, window) ==
  LET ofFin == off > dn.next
      amt == IF ofFin THEN off - 1 ELSE off
  IN [dn EXCEPT !.una = Plus(@, amt), !.next = @ - amt,
                !.buf = compact(@, Len(@) - amt), !.edge = window,
                !.flushed = @ \/ ofFin]

\* The FIN is acknowledged and nothing is left for the server.
closesOnAck_Early(off) == off > dn.next
closesOnAck(off) == off > dn.next /\ up.flushed

\* The bytes of a segment that fit are kept, and its FIN if all of them did.
fits(n) == Min2(n, available(up.buf))
stored(seq, n, fin) ==
  IF up.finished THEN up
  ELSE [up EXCEPT
         !.buf = @ \o Bytes(Minus(seq, Plus(peer.isn, 1)), fits(n)),
         !.finished = fin /\ fits(n) = n]

registered_OnlyData(freed, n) ==
  sets' = sets \cup (IF n > 0 THEN {"send"} ELSE {})
registered(freed, n) ==
  sets' = sets \cup (IF freed > 0 THEN {"receive"} ELSE {})
               \cup (IF n > 0 THEN {"send"} ELSE {})

\* A segment with the next expected number.  Its n bytes are the client's.
receiveSegment ==
  /\ ~hung
  /\ state = "ESTABLISHED"
  /\ \E ack \in SeqNums, window \in Windows, n \in 0..UpLen, fin \in BOOLEAN :
       LET seq == Plus(up.receiveSent, Len(up.buf) + One(up.finished))
           off == ackOffset(ack)
           kept == IF up.finished THEN 0 ELSE fits(n)
       IN /\ Minus(seq, Plus(peer.isn, 1)) + n <= UpLen
          /\ acceptable(off)
          /\ IF closesOnAck(off)
             THEN closeSession /\ UNCHANGED <<up, dn, peer>>
             ELSE /\ dn' = acknowledged(off, window)
                  /\ up' = stored(seq, n, fin)
                  /\ registered(Len(dn.buf) - Len(dn'.buf), kept)
                  /\ peer' = [peer EXCEPT !.slipped = @ \/ (kept > 0 /\ peer.wrote # <<>>)]
                  /\ UNCHANGED state
  /\ out' = {}
  /\ UNCHANGED hung

Init ==
  /\ state = "CLOSED"
  /\ up = freshUp(Modulus - 1)
  /\ dn = freshDn(0, 0)
  /\ sets = {}
  /\ hung = FALSE
  /\ out = {}
  /\ peer = [isn |-> 0, iss |-> 0, read |-> 0, wrote |-> <<>>, slipped |-> FALSE]

Next ==
  \/ flushDataToClient \/ sendsForEver \/ receiveFromServer \/ connected
  \/ flushDataToServer \/ socketFails \/ timesOut
  \/ receiveSyn \/ receiveReset \/ establish \/ receiveSegment

Spec == Init /\ [][Next]_vars

-----------------------------------------------------------------------------
(* Properties *)

\* The numbers of a session keep their ranges: what was sent is in the
\* buffer, whatever the client acknowledges, and the buffers do not overflow.
TypeOK ==
  /\ state \in {"CLOSED", "SYN_RECEIVED", "SYN_ACK_SENT", "ESTABLISHED"}
  /\ up.receiveSent \in SeqNums /\ up.buf \in Seq(Nat)
  /\ Len(up.buf) <= BUFFER_SIZE
  /\ dn.una \in SeqNums /\ dn.buf \in Seq(Nat)
  /\ dn.next \in 0..Len(dn.buf) /\ Len(dn.buf) <= BUFFER_SIZE
  /\ sets \subseteq {"receive", "send", "error"}
  /\ hung \in BOOLEAN

\* Every segment carries the server's bytes at the sequence numbers it says,
\* none the server has not sent, and a FIN only behind its last byte, across
\* compacted buffers, repeated segments, closing windows and numbers that wrap.
SegmentsFaithful ==
  \A s \in out : \E first \in 0..peer.read :
    /\ s.seq = Plus(Plus(peer.iss, 1), first)
    /\ s.bytes = Bytes(first, Len(s.bytes))
    /\ first + Len(s.bytes) <= peer.read
    /\ s.fin => dn.ended /\ first + Len(s.bytes) = peer.read

\* What waits for the socket is registered for it: the connection being made
\* and data for the server in the send set, a stream with room for more in the
\* receive set, every open session in the error set, a closed one in none.
WaitsAreRegistered ==
  /\ state = "CLOSED" => sets = {}
  /\ state # "CLOSED" => "error" \in sets
  /\ state = "SYN_RECEIVED" => "send" \in sets
  /\ state = "ESTABLISHED" =>
       /\ up.buf # <<>> /\ ~up.flushed => "send" \in sets
       /\ ~dn.ended /\ available(dn.buf) > 0 => "receive" \in sets

\* The server gets the client's bytes in order, each once, up to the first
\* segment that is taken after bytes were flushed: flushDataToServer moves
\* receiveNext back with them, so from then on bytes are taken twice.
FirstFlushFaithful ==
  ~peer.slipped =>
    LET unsent == state = "ESTABLISHED" /\ ~up.flushed
        got == IF unsent THEN peer.wrote \o up.buf ELSE peer.wrote
    IN got = Bytes(0, Len(got))

\* A session that ends by what it receives or has flushed, not by a reset, an
\* error or a time-out, has had all of the server's stream and its FIN
\* acknowledged, and the client's stream has ended and gone to the socket.
OrderlyEnd ==
  [][(receiveSegment \/ flushDataToServer) /\ state' = "CLOSED" =>
     /\ dn.ended /\ dn.sentFin /\ (dn.flushed \/ dn.next = Len(dn.buf))
     /\ up.finished /\ (up.flushed \/ flushDataToServer)]_vars

Life == INSTANCE SessionLife2 WITH state <- state

\* The session moves through its states as SessionLife2 promises.
ImplementsSessionLife2 == Life!Spec
=============================================================================
