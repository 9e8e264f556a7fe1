--------------------------- MODULE TCPSession2_proofs ---------------------------
(***************************************************************************)
(* A session of the rewritten server for any buffer, segment and stream    *)
(* length, any packets of the client and any behaviour of the socket: its  *)
(* numbers keep their ranges, what waits is registered with select, an     *)
(* orderly end comes behind both streams, and the session implements the   *)
(* life cycle the ClientHandler is built on.                               *)
(***************************************************************************)
EXTENDS TCPSession2, SequenceTheorems, TLAPS

Up == [receiveSent : SeqNums, buf : Seq(Nat), finished : BOOLEAN, flushed : BOOLEAN]
Dn == [una : SeqNums, next : Nat, edge : Nat, buf : Seq(Nat),
       ended : BOOLEAN, sentFin : BOOLEAN, flushed : BOOLEAN]
Peer == [isn : SeqNums, iss : SeqNums, read : Nat, wrote : Seq(Nat), slipped : BOOLEAN]

\* The records behind TypeOK.
RecordInv ==
  /\ up \in Up /\ dn \in Dn /\ peer \in Peer
  /\ Len(up.buf) <= BUFFER_SIZE /\ Len(dn.buf) <= BUFFER_SIZE

\* What was sent is still buffered, and behind a FIN there is nothing left to
\* send.
Sent(d) == d.next <= Len(d.buf)
FinLast(d) == d.sentFin => d.ended /\ d.next = Len(d.buf)

\* The ends of the streams follow each other: the client acknowledges only a
\* FIN that was sent, and the server's write half is shut down behind the
\* client's.
EndsInv ==
  /\ Sent(dn)
  /\ ~hung => FinLast(dn)
  /\ dn.flushed => dn.sentFin
  /\ up.flushed => up.finished

\* No byte is taken from the client before the connection is established.
HandshakeInv == state \in {"SYN_RECEIVED", "SYN_ACK_SENT"} => up.buf = <<>>

StateInv ==
  /\ state \in {"CLOSED", "SYN_RECEIVED", "SYN_ACK_SENT", "ESTABLISHED"}
  /\ sets \subseteq {"receive", "send", "error"}
  /\ hung \in BOOLEAN

Inv == StateInv /\ RecordInv /\ EndsInv /\ HandshakeInv /\ WaitsAreRegistered

-----------------------------------------------------------------------------
(* Numbers and buffers *)

LEMMA RoomBound ==
  ASSUME NEW n \in Nat, NEW size \in Nat, NEW len \in Nat, len <= size
  PROVE  /\ Min2(n, size - len) \in Nat
         /\ len + Min2(n, size - len) <= size
BY DEF Min2

LEMMA DivBound ==
  ASSUME NEW a \in Nat, NEW m \in Nat \ {0}
  PROVE  m * (a \div m) \in Nat /\ m * (a \div m) <= a
<1>1. a \div m \in Nat
  OBVIOUS
<1>2. a = m * (a \div m) + (a % m) /\ a % m \in 0..(m - 1)
  OBVIOUS
<1> QED
  BY <1>1, <1>2

LEMMA SeqNumbers ==
  ASSUME NEW a \in Int, NEW b \in Int
  PROVE  Plus(a, b) \in SeqNums /\ Minus(a, b) \in SeqNums
BY Session2Assumption DEF Plus, Minus, SeqNums

\* The last n elements of a buffer.
LEMMA CompactResult ==
  ASSUME NEW buf \in Seq(Nat), NEW n \in 0..Len(buf)
  PROVE  compact(buf, n) \in Seq(Nat) /\ Len(compact(buf, n)) = n
BY DEF compact

LEMMA AppendResult ==
  ASSUME NEW s \in Seq(Nat), NEW t \in Seq(Nat)
  PROVE  s \o t \in Seq(Nat) /\ Len(s \o t) = Len(s) + Len(t)
OBVIOUS

LEMMA BytesResult ==
  ASSUME NEW from \in Nat, NEW n \in Nat
  PROVE  Bytes(from, n) \in Seq(Nat) /\ Len(Bytes(from, n)) = n
BY DEF Bytes

\* Where the segmentation loop leaves off is within the buffer.
LEMMA LoopEndBound ==
  ASSUME NEW d \in Dn, NEW off \in 0..Len(d.buf), NEW push \in BOOLEAN,
         NEW bound \in 0..Len(d.buf)
  PROVE  loopEnd(d, off, bound, push) \in 0..Len(d.buf)
<1> DEFINE limit == bound + One(d.ended)
<1>1. limit \in Nat /\ limit - 1 <= bound
  BY DEF One, Dn
<1>2. CASE push
  BY <1>2 DEF loopEnd, Max2
<1>3. CASE ~push /\ off < limit
  <2>1. limit - off - 1 \in Nat /\ mss \in Nat \ {0}
    BY <1>1, <1>3, Session2Assumption
  <2>2. /\ mss * ((limit - off - 1) \div mss) \in Nat
        /\ mss * ((limit - off - 1) \div mss) <= limit - off - 1
    BY <2>1, DivBound
  <2>3. loopEnd(d, off, bound, push) = off + mss * ((limit - off - 1) \div mss)
    BY <1>3 DEF loopEnd
  <2> HIDE DEF limit
  <2> QED
    BY <1>1, <2>1, <2>2, <2>3
<1>4. CASE ~push /\ ~(off < limit)
  BY <1>4 DEF loopEnd
<1> QED
  BY <1>2, <1>3, <1>4

-----------------------------------------------------------------------------
(* What flushDataToClient does to the client-bound stream *)

\* Only next and sentFin move, next only forward, and a FIN is new only when
\* the stream has ended.
SendsOnly(d, e) ==
  /\ e \in Dn
  /\ e.buf = d.buf /\ e.ended = d.ended /\ e.flushed = d.flushed
  /\ e.una = d.una /\ e.edge = d.edge
  /\ Sent(e)
  /\ d.sentFin => e.sentFin

\* One round of segmentation: when it returns, a FIN it has sent is behind the
\* whole buffer.
LEMMA SendResult ==
  ASSUME NEW d \in Dn, Sent(d), NEW off \in 0..Len(d.buf), NEW push \in BOOLEAN
  PROVE  LET r == sendDataStartingFrom(d, off, push)
         IN /\ SendsOnly(d, r.d) /\ r.hangs \in BOOLEAN
            /\ ~r.hangs /\ FinLast(d) => FinLast(r.d)
<1> DEFINE bound == Min2(d.edge, Len(d.buf))
           end == loopEnd(d, off, bound, push)
           hangs == loopHangs(d, off, bound, push)
           starts == {o \in off..end : (o - off) % mss = 0 /\ (o < end \/ hangs)}
           segs == {Segment(d, o, Min2(o + mss, end)) : o \in starts}
           next == IF hangs THEN d.next ELSE Max2(d.next, end)
           fin == d.sentFin \/ \E s \in segs : s.fin
           e == [d EXCEPT !.next = next, !.sentFin = fin]
           r == sendDataStartingFrom(d, off, push)
<1>1. r.d = e /\ r.hangs = hangs
  BY DEF sendDataStartingFrom
<1>2. bound \in 0..Len(d.buf)
  BY DEF Min2, Dn
<1>3. end \in 0..Len(d.buf)
  BY <1>2, LoopEndBound
<1>4. hangs \in BOOLEAN
  BY DEF loopHangs, Dn
<1>5. \A o \in starts : Segment(d, o, Min2(o + mss, end)).fin
        => d.ended /\ Min2(o + mss, end) = Len(d.buf)
  BY DEF Segment, finHere
<1>6. \A o \in starts : Min2(o + mss, end) <= end
  BY <1>3, Session2Assumption DEF Min2
<1>7. (\E s \in segs : s.fin) => d.ended /\ end = Len(d.buf)
  <2> SUFFICES ASSUME NEW s \in segs, s.fin
               PROVE  d.ended /\ end = Len(d.buf)
    OBVIOUS
  <2>1. PICK o \in starts : s = Segment(d, o, Min2(o + mss, end))
    OBVIOUS
  <2> HIDE DEF starts, segs, end
  <2> QED
    BY <1>3, <1>5, <1>6, <2>1
<1> HIDE DEF starts, end, bound, hangs
<1>8. fin \in BOOLEAN
  OBVIOUS
<1>9. next \in 0..Len(d.buf)
  BY <1>3 DEF Max2, Dn, Sent
<1>10. d.sentFin => fin
  OBVIOUS
<1>11. ~hangs /\ FinLast(d) /\ fin => d.ended /\ next = Len(d.buf)
  <2> SUFFICES ASSUME ~hangs, FinLast(d), fin
               PROVE  d.ended /\ next = Len(d.buf)
    OBVIOUS
  <2>1. next = Max2(d.next, end)
    OBVIOUS
  <2> HIDE DEF next
  <2>2. CASE d.sentFin
    BY <1>3, <2>1, <2>2 DEF FinLast, Max2, Dn
  <2>3. CASE \E s \in segs : s.fin
    BY <1>3, <1>7, <2>1, <2>3 DEF Max2, Dn, Sent
  <2> QED
    BY <2>2, <2>3
<1> HIDE DEF segs, next, fin
<1>12. /\ e.next = next /\ e.sentFin = fin
       /\ e.buf = d.buf /\ e.ended = d.ended /\ e.flushed = d.flushed
       /\ e.una = d.una /\ e.edge = d.edge
  BY DEF Dn
<1>13. e \in Dn
  <2>1. next \in Nat
    BY <1>9
  <2> QED
    BY <1>8, <2>1, Zenon DEF Dn
<1> HIDE DEF e
<1>14. SendsOnly(d, e)
  BY <1>9, <1>10, <1>12, <1>13 DEF SendsOnly, Sent
<1>15. ~hangs /\ FinLast(d) => FinLast(e)
  BY <1>11, <1>12 DEF FinLast
<1> QED
  BY <1>1, <1>4, <1>14, <1>15

LEMMA NothingSent ==
  ASSUME NEW d \in Dn, Sent(d)
  PROVE  SendsOnly(d, Nothing(d).d) /\ ~Nothing(d).hangs /\ Nothing(d).d = d
BY DEF Nothing, SendsOnly

\* Both rounds.
LEMMA FlushedResult ==
  ASSUME NEW d \in Dn, Sent(d), NEW ackLate \in BOOLEAN, NEW dataLate \in BOOLEAN
  PROVE  LET r == flushed(d, ackLate, dataLate)
         IN /\ SendsOnly(d, r.d) /\ r.hangs \in BOOLEAN
            /\ ~r.hangs /\ FinLast(d) => FinLast(r.d)
<1> DEFINE bound == Min2(d.edge, Len(d.buf))
           finNotSent == up.finished # d.sentFin
           one == IF d.next > 0 \/ (d.ended /\ ackLate)
                  THEN sendDataStartingFrom(d, 0, d.ended)
                  ELSE IF bound > mss THEN sendDataStartingFrom(d, 0, FALSE)
                  ELSE Nothing(d)
           late == dataLate /\ one.d.next = d.next
           again == ~one.hangs /\ ((one.d.next # bound /\ late) \/ finNotSent)
           two == IF again
                  THEN sendDataStartingFrom(one.d, one.d.next, TRUE)
                  ELSE Nothing(one.d)
           r == flushed(d, ackLate, dataLate)
<1>1. r.d = two.d /\ r.hangs = (one.hangs \/ two.hangs)
  BY DEF flushed
<1>2. d.ended \in BOOLEAN /\ 0 \in 0..Len(d.buf)
  BY DEF Dn
<1>3. /\ SendsOnly(d, one.d) /\ one.hangs \in BOOLEAN
      /\ ~one.hangs /\ FinLast(d) => FinLast(one.d)
  <2>1. CASE d.next > 0 \/ (d.ended /\ ackLate)
    BY <1>2, <2>1, SendResult
  <2>2. CASE ~(d.next > 0 \/ (d.ended /\ ackLate)) /\ bound > mss
    BY <1>2, <2>2, SendResult
  <2>3. CASE ~(d.next > 0 \/ (d.ended /\ ackLate)) /\ ~(bound > mss)
    <3>1. one = Nothing(d)
      BY <2>3
    <3> HIDE DEF one
    <3> QED
      BY <3>1, NothingSent DEF Nothing
  <2> QED
    BY <2>1, <2>2, <2>3
<1> HIDE DEF one
<1>4. one.d \in Dn /\ Sent(one.d) /\ one.d.next \in 0..Len(one.d.buf)
  BY <1>3 DEF SendsOnly, Sent, Dn
<1> HIDE DEF again
<1>5. /\ SendsOnly(one.d, two.d) /\ two.hangs \in BOOLEAN
      /\ ~two.hangs /\ FinLast(one.d) => FinLast(two.d)
  <2>1. CASE again
    <3>1. two = sendDataStartingFrom(one.d, one.d.next, TRUE)
      BY <2>1
    <3> HIDE DEF two
    <3> QED
      BY <1>4, <3>1, SendResult
  <2>2. CASE ~again
    <3>1. two = Nothing(one.d)
      BY <2>2
    <3> HIDE DEF two
    <3> QED
      BY <1>4, <3>1, NothingSent DEF Nothing
  <2> QED
    BY <2>1, <2>2
<1> HIDE DEF two
<1>6. SendsOnly(d, two.d)
  BY <1>3, <1>5 DEF SendsOnly
<1>7. r.hangs \in BOOLEAN /\ (~r.hangs => ~one.hangs /\ ~two.hangs)
  BY <1>1, <1>3, <1>5
<1> QED
  BY <1>1, <1>3, <1>5, <1>6, <1>7, Zenon

\* Whatever the state, and whether or not the stream is flushed.
LEMMA FlushFromResult ==
  ASSUME NEW d \in Dn, Sent(d), FinLast(d),
         NEW ackLate \in BOOLEAN, NEW dataLate \in BOOLEAN,
         FlushFrom(d, ackLate, dataLate)
  PROVE  SendsOnly(d, dn') /\ hung' \in BOOLEAN /\ (~hung' => FinLast(dn)')
<1> DEFINE r == IF state = "ESTABLISHED" /\ ~d.flushed
                THEN flushed(d, ackLate, dataLate) ELSE Nothing(d)
<1>1. dn' = r.d /\ hung' = r.hangs
  BY DEF FlushFrom
<1>2. SendsOnly(d, r.d) /\ r.hangs \in BOOLEAN /\ (~r.hangs => FinLast(r.d))
  <2>1. CASE state = "ESTABLISHED" /\ ~d.flushed
    BY <2>1, FlushedResult
  <2>2. CASE ~(state = "ESTABLISHED" /\ ~d.flushed)
    <3>1. r = Nothing(d)
      BY <2>2
    <3> HIDE DEF r
    <3> QED
      BY <3>1, NothingSent DEF Nothing
  <2> QED
    BY <2>1, <2>2
<1> HIDE DEF r
<1> QED
  BY <1>1, <1>2 DEF FinLast

-----------------------------------------------------------------------------
(* The invariant *)

LEMMA InvImpliesTypes == Inv => TypeOK
BY DEF Inv, StateInv, RecordInv, EndsInv, Sent, TypeOK, Up, Dn

LEMMA InvInit == Init => Inv
<1> SUFFICES ASSUME Init PROVE Inv
  OBVIOUS
<1>1. Modulus - 1 \in Int /\ Plus(Modulus - 1, 1) \in SeqNums /\ 0 \in SeqNums
  BY Session2Assumption, SeqNumbers DEF SeqNums
<1>2. up \in Up /\ up.buf = <<>> /\ ~up.flushed
  BY <1>1 DEF Init, freshUp, Up
<1>3. dn \in Dn /\ dn.buf = <<>> /\ ~dn.flushed /\ ~dn.sentFin /\ dn.next = 0
  BY <1>1 DEF Init, freshDn, Dn
<1>4. peer \in Peer
  BY <1>1 DEF Init, Peer
<1>5. state = "CLOSED" /\ sets = {} /\ hung = FALSE
  BY DEF Init
<1>6. RecordInv /\ EndsInv
  BY <1>2, <1>3, <1>4, Session2Assumption DEF RecordInv, EndsInv, Sent, FinLast
<1> QED
  BY <1>5, <1>6 DEF Inv, StateInv, HandshakeInv, WaitsAreRegistered

\* A session that is closed keeps its numbers and is in no set.
LEMMA ClosedKeeps ==
  ASSUME Inv, closeSession, UNCHANGED <<up, dn, hung, peer>>
  PROVE  Inv'
BY DEF Inv, closeSession, StateInv, RecordInv, EndsInv, Sent, FinLast, HandshakeInv,
       WaitsAreRegistered

LEMMA ConnectedKeeps ==
  ASSUME Inv, connected
  PROVE  Inv'
<1>1. CASE closeSession
  BY <1>1, ClosedKeeps DEF connected
<1>2. CASE state' = "SYN_ACK_SENT" /\ sets' = sets \ {"send"}
  BY <1>2 DEF connected, Inv, StateInv, RecordInv, EndsInv, Sent, FinLast,
    HandshakeInv, WaitsAreRegistered
<1> QED
  BY <1>1, <1>2 DEF connected

LEMMA SynKeeps ==
  ASSUME Inv, receiveSyn
  PROVE  Inv'
<1>1. PICK isn \in ClientISNs, iss \in ISSs, window \in Windows :
        /\ up' = freshUp(isn)
        /\ dn' = freshDn(iss, window)
        /\ peer' = [isn |-> isn, iss |-> iss, read |-> 0, wrote |-> <<>>,
                    slipped |-> FALSE]
  BY DEF receiveSyn
<1>2. isn \in SeqNums /\ iss \in SeqNums /\ window \in Nat /\ isn \in Int
  BY Session2Assumption DEF SeqNums
<1>3. Plus(isn, 1) \in SeqNums
  BY <1>2, SeqNumbers
<1>4. up' \in Up /\ up'.buf = <<>> /\ ~up'.flushed
  BY <1>1, <1>3 DEF freshUp, Up
<1>5. dn' \in Dn /\ dn'.buf = <<>> /\ ~dn'.flushed /\ ~dn'.sentFin /\ dn'.next = 0
  BY <1>1, <1>2 DEF freshDn, Dn
<1>6. peer' \in Peer
  BY <1>1, <1>2 DEF Peer
<1>7. /\ state' \in {"SYN_RECEIVED", "SYN_ACK_SENT"}
      /\ "error" \in sets' /\ sets' \subseteq {"receive", "send", "error"}
      /\ state' = "SYN_RECEIVED" => "send" \in sets'
      /\ hung' = hung
  BY DEF receiveSyn
<1> QED
  BY <1>4, <1>5, <1>6, <1>7, Session2Assumption
  DEF Inv, StateInv, RecordInv, EndsInv, Sent, FinLast, HandshakeInv, WaitsAreRegistered

LEMMA EstablishKeeps ==
  ASSUME Inv, establish
  PROVE  Inv'
<1>1. Plus(dn.una, 1) \in SeqNums
  BY SeqNumbers DEF Inv, RecordInv, Dn, SeqNums
<1>2. /\ dn' \in Dn /\ dn'.buf = dn.buf /\ dn'.flushed = dn.flushed
      /\ dn'.sentFin = dn.sentFin /\ dn'.next = dn.next /\ dn'.ended = dn.ended
  BY <1>1 DEF establish, Inv, RecordInv, Dn
<1>3. up.buf = <<>> /\ "error" \in sets
  BY DEF establish, awaitsAck, Inv, HandshakeInv, WaitsAreRegistered
<1> QED
  BY <1>2, <1>3 DEF establish, Inv, StateInv, RecordInv, EndsInv, Sent, FinLast,
    HandshakeInv, WaitsAreRegistered

LEMMA FlushKeeps ==
  ASSUME Inv, flushDataToClient
  PROVE  Inv'
<1>1. PICK ackLate \in BOOLEAN, dataLate \in BOOLEAN : FlushFrom(dn, ackLate, dataLate)
  BY DEF flushDataToClient
<1>2. dn \in Dn /\ Sent(dn) /\ FinLast(dn)
  BY DEF flushDataToClient, Inv, RecordInv, EndsInv
<1>3. SendsOnly(dn, dn') /\ hung' \in BOOLEAN /\ (~hung' => FinLast(dn)')
  BY <1>1, <1>2, FlushFromResult
<1> QED
  BY <1>3 DEF flushDataToClient, SendsOnly, Inv, StateInv, RecordInv, EndsInv, Sent,
    HandshakeInv, WaitsAreRegistered, available

LEMMA ReadKeeps ==
  ASSUME Inv, receiveFromServer
  PROVE  Inv'
<1> DEFINE d(n, ends) == IF ends THEN [dn EXCEPT !.ended = TRUE]
                         ELSE [dn EXCEPT !.buf = @ \o Bytes(peer.read, n)]
<1>1. PICK n \in 0..Min2(available(dn.buf), DownLen - peer.read), ends \in BOOLEAN,
           ackLate \in BOOLEAN, dataLate \in BOOLEAN :
        /\ ends => n = 0
        /\ peer' = [peer EXCEPT !.read = @ + n]
        /\ sets' = IF ~ends /\ available(d(n, ends).buf) > 0 THEN sets
                   ELSE sets \ {"receive"}
        /\ FlushFrom(d(n, ends), ackLate, dataLate)
  BY DEF receiveFromServer
<1>2. dn \in Dn /\ peer \in Peer /\ Sent(dn) /\ FinLast(dn) /\ ~dn.ended /\ ~dn.sentFin
  BY DEF receiveFromServer, Inv, RecordInv, EndsInv, FinLast
<1>3. n \in Nat /\ Len(dn.buf) + n <= BUFFER_SIZE /\ peer.read \in Nat
  BY <1>2, Session2Assumption DEF Min2, available, Peer, Dn, Inv, RecordInv
<1>4. peer' \in Peer
  BY <1>1, <1>2, <1>3 DEF Peer
<1>5. /\ d(n, ends) \in Dn /\ Sent(d(n, ends)) /\ FinLast(d(n, ends))
      /\ Len(d(n, ends).buf) <= BUFFER_SIZE
      /\ d(n, ends).flushed = dn.flushed /\ d(n, ends).sentFin = dn.sentFin
      /\ d(n, ends).ended = ends
  <2>1. CASE ends
    BY <1>2, <2>1 DEF Dn, Sent, FinLast, Inv, RecordInv
  <2>2. CASE ~ends
    <3>1. Bytes(peer.read, n) \in Seq(Nat) /\ Len(Bytes(peer.read, n)) = n
      BY <1>3, BytesResult
    <3> DEFINE b == dn.buf \o Bytes(peer.read, n)
    <3>2. dn.buf \in Seq(Nat)
      BY <1>2 DEF Dn
    <3>3. b \in Seq(Nat) /\ Len(b) = Len(dn.buf) + n
      BY <3>1, <3>2, AppendResult
    <3>4. d(n, ends) = [dn EXCEPT !.buf = b]
      BY <2>2
    <3> HIDE DEF b, d
    <3>5. /\ d(n, ends) \in Dn /\ d(n, ends).buf = b /\ d(n, ends).next = dn.next
          /\ d(n, ends).flushed = dn.flushed /\ d(n, ends).sentFin = dn.sentFin
          /\ d(n, ends).ended = dn.ended
      BY <1>2, <3>3, <3>4 DEF Dn
    <3>6. dn.ended = ends
      BY <1>2, <2>2, Zenon DEF Dn
    <3>7. Len(d(n, ends).buf) <= BUFFER_SIZE /\ Sent(d(n, ends))
      <4>1. Len(dn.buf) \in Nat /\ BUFFER_SIZE \in Nat /\ dn.next \in Nat
        BY <1>2, <3>2, Session2Assumption DEF Dn
      <4>2. dn.next <= Len(dn.buf)
        BY <1>2 DEF Sent
      <4> HIDE DEF d
      <4> QED
        BY <1>3, <3>3, <3>5, <4>1, <4>2 DEF Sent
    <3> QED
      BY <1>2, <3>5, <3>6, <3>7 DEF FinLast
  <2> QED
    BY <2>1, <2>2
<1> HIDE DEF d
<1>6. SendsOnly(d(n, ends), dn') /\ hung' \in BOOLEAN /\ (~hung' => FinLast(dn)')
  BY <1>1, <1>5, FlushFromResult
<1>7. dn'.flushed => dn'.sentFin
  BY <1>5, <1>6 DEF SendsOnly, Inv, EndsInv
<1>8. ~dn'.ended /\ available(dn'.buf) > 0 => "receive" \in sets'
  BY <1>1, <1>5, <1>6 DEF SendsOnly, receiveFromServer
<1> QED
  BY <1>1, <1>4, <1>5, <1>6, <1>7, <1>8 DEF receiveFromServer, SendsOnly, Inv, StateInv,
    RecordInv, EndsInv, Sent, HandshakeInv, WaitsAreRegistered

\* A flush to the server shortens the buffer or ends the stream.
LEMMA WriteKeeps ==
  ASSUME Inv, flushDataToServer
  PROVE  Inv'
<1> DEFINE all(n) == n = Len(up.buf)
<1>1. PICK n \in 0..Len(up.buf) :
        /\ IF all(n) /\ up.finished /\ dn.flushed THEN closeSession
           ELSE /\ sets' = IF all(n) THEN sets \ {"send"} ELSE sets
                /\ UNCHANGED state
        /\ up' = IF all(n) /\ up.finished
                 THEN [up EXCEPT !.flushed = ~dn.flushed]
                 ELSE [up EXCEPT !.buf = compact(@, Len(@) - n)]
        /\ peer' = IF peer.slipped THEN peer
                   ELSE [peer EXCEPT !.wrote = @ \o SubSeq(up.buf, 1, n)]
  BY DEF flushDataToServer
<1>2. up \in Up /\ dn \in Dn /\ peer \in Peer /\ Len(up.buf) \in Nat
  BY DEF Inv, RecordInv, Up
<1>3. peer' \in Peer
  <2>1. peer.wrote \in Seq(Nat) /\ SubSeq(up.buf, 1, n) \in Seq(Nat)
    BY <1>2 DEF Peer, Up
  <2>2. peer.wrote \o SubSeq(up.buf, 1, n) \in Seq(Nat)
    BY <2>1, AppendResult
  <2> QED
    BY <1>1, <1>2, <2>2 DEF Peer
<1>4. CASE all(n) /\ up.finished
  <2>1. /\ up' \in Up /\ up'.buf = up.buf /\ up'.finished = up.finished
        /\ up'.flushed = ~dn.flushed
    BY <1>1, <1>2, <1>4 DEF Up, Dn
  <2>2. CASE dn.flushed
    BY <1>1, <1>3, <1>4, <2>1, <2>2 DEF closeSession, flushDataToServer, Inv, StateInv,
      RecordInv, EndsInv, Sent, FinLast, HandshakeInv, WaitsAreRegistered
  <2>3. CASE ~dn.flushed
    BY <1>1, <1>3, <1>4, <2>1, <2>3 DEF flushDataToServer, Inv, StateInv,
      RecordInv, EndsInv, Sent, FinLast, HandshakeInv, WaitsAreRegistered
  <2> QED
    BY <2>2, <2>3
<1>5. CASE ~(all(n) /\ up.finished)
  <2> DEFINE b == compact(up.buf, Len(up.buf) - n)
  <2>1. up.buf \in Seq(Nat) /\ Len(up.buf) - n \in 0..Len(up.buf)
    BY <1>2 DEF Up
  <2>2. b \in Seq(Nat) /\ Len(b) = Len(up.buf) - n
    BY <2>1, CompactResult
  <2>3. up' = [up EXCEPT !.buf = b]
    BY <1>1, <1>5
  <2>4. state' = state /\ sets' = IF all(n) THEN sets \ {"send"} ELSE sets
    BY <1>1, <1>5
  <2> HIDE DEF b
  <2>5. up' \in Up /\ up'.buf = b /\ up'.finished = up.finished /\ up'.flushed = up.flushed
    BY <1>2, <2>2, <2>3 DEF Up
  <2>6. Len(up'.buf) <= BUFFER_SIZE
    BY <1>2, <2>2, <2>5, Session2Assumption DEF Inv, RecordInv
  <2>7. up'.buf # <<>> => "send" \in sets'
    <3>1. CASE all(n)
      BY <1>2, <2>2, <2>5, <3>1
    <3>2. CASE ~all(n)
      BY <1>2, <2>1, <2>4, <3>2 DEF flushDataToServer, Inv, WaitsAreRegistered
    <3> QED
      BY <3>1, <3>2
  <2> QED
    BY <1>3, <2>4, <2>5, <2>6, <2>7 DEF flushDataToServer, Inv, StateInv,
      RecordInv, EndsInv, Sent, FinLast, HandshakeInv, WaitsAreRegistered
<1> QED
  BY <1>4, <1>5

\* What an acknowledgement leaves of the client-bound stream.
LEMMA AcknowledgedResult ==
  ASSUME Inv, ~hung, NEW off \in Nat, acceptable(off), NEW window \in Nat
  PROVE  LET d == acknowledged(off, window)
         IN /\ d \in Dn /\ Sent(d) /\ FinLast(d)
            /\ d.flushed => d.sentFin
            /\ d.ended = dn.ended /\ Len(d.buf) <= Len(dn.buf)
<1> DEFINE ofFin == off > dn.next
           amt == IF ofFin THEN off - 1 ELSE off
           b == compact(dn.buf, Len(dn.buf) - amt)
           una == Plus(dn.una, amt)
           left == dn.next - amt
           over == dn.flushed \/ ofFin
           d == acknowledged(off, window)
<1>1. dn \in Dn /\ Sent(dn) /\ FinLast(dn) /\ (dn.flushed => dn.sentFin)
  BY DEF Inv, RecordInv, EndsInv
<1>2. amt \in 0..dn.next /\ (ofFin => dn.sentFin)
  BY <1>1 DEF acceptable, One, Dn
<1>3. d = [dn EXCEPT !.una = una, !.next = left, !.buf = b, !.edge = window,
                     !.flushed = over]
  BY DEF acknowledged
<1>4. over \in BOOLEAN /\ (over => dn.sentFin)
  BY <1>1, <1>2 DEF Dn
<1> HIDE DEF amt, ofFin
<1>5. una \in SeqNums
  BY <1>1, <1>2, SeqNumbers DEF Dn, SeqNums
<1>6. b \in Seq(Nat) /\ Len(b) = Len(dn.buf) - amt
  <2>1. dn.buf \in Seq(Nat) /\ Len(dn.buf) - amt \in 0..Len(dn.buf)
    BY <1>1, <1>2 DEF Dn, Sent
  <2> QED
    BY <2>1, CompactResult
<1>7. left \in Nat /\ left = dn.next - amt
  BY <1>1, <1>2 DEF Dn
<1> HIDE DEF b, una, left, over, d
<1>8. /\ d \in Dn /\ d.next = left /\ d.buf = b /\ d.flushed = over
      /\ d.ended = dn.ended /\ d.sentFin = dn.sentFin
  BY <1>1, <1>3, <1>4, <1>5, <1>6, <1>7 DEF Dn
<1>9. Sent(d) /\ Len(d.buf) <= Len(dn.buf)
  BY <1>1, <1>2, <1>6, <1>7, <1>8 DEF Sent, Dn
<1>10. FinLast(d)
  BY <1>1, <1>2, <1>6, <1>7, <1>8 DEF FinLast, Dn
<1> QED
  BY <1>4, <1>8, <1>9, <1>10 DEF d

\* What a segment adds to the server-bound stream.
LEMMA StoredResult ==
  ASSUME Inv, NEW num \in SeqNums, NEW n \in Nat, NEW fin \in BOOLEAN
  PROVE  LET u == stored(num, n, fin)
         IN /\ u \in Up /\ Len(u.buf) <= BUFFER_SIZE
            /\ u.flushed = up.flushed
            /\ up.finished => u.finished
            /\ (up.finished \/ fits(n) = 0) => u.buf = up.buf
            /\ ~up.finished => fits(n) \in Nat
<1> DEFINE from == Minus(num, Plus(peer.isn, 1))
           b == up.buf \o Bytes(from, fits(n))
           f == fin /\ fits(n) = n
           u == stored(num, n, fin)
<1> HIDE DEF from, b, f, u
<1>1. up \in Up /\ up.buf \in Seq(Nat) /\ Len(up.buf) <= BUFFER_SIZE
  BY DEF Inv, RecordInv, Up
<1>2. fits(n) \in Nat /\ Len(up.buf) + fits(n) <= BUFFER_SIZE
  <2>1. BUFFER_SIZE \in Nat /\ Len(up.buf) \in Nat
    BY <1>1, Session2Assumption
  <2> QED
    BY <1>1, <2>1, RoomBound, Zenon DEF fits, available
<1>3. from \in Nat
  <2>1. peer.isn \in SeqNums
    BY DEF Inv, RecordInv, Peer
  <2>2. SeqNums \subseteq Nat /\ SeqNums \subseteq Int
    BY Session2Assumption DEF SeqNums
  <2>3. Plus(peer.isn, 1) \in SeqNums
    <3>1. peer.isn \in Int
      BY <2>1, <2>2, Zenon
    <3>2. 1 \in Int
      OBVIOUS
    <3> QED
      BY <3>1, <3>2, SeqNumbers, Zenon
  <2>4. from \in SeqNums
    BY <2>2, <2>3, SeqNumbers DEF from
  <2> QED
    BY <2>2, <2>4
<1>4. Bytes(from, fits(n)) \in Seq(Nat) /\ Len(Bytes(from, fits(n))) = fits(n)
  BY <1>2, <1>3, BytesResult
<1>5. b \in Seq(Nat) /\ Len(b) = Len(up.buf) + fits(n)
  BY <1>1, <1>4, AppendResult DEF b
<1>6. fits(n) = 0 => b = up.buf
  BY <1>1, <1>4 DEF b
<1>7. f \in BOOLEAN
  BY DEF f
<1>8. CASE up.finished
  <2>1. u = up
    BY <1>8 DEF stored, u
  <2> QED
    BY <1>1, <1>2, <1>8, <2>1 DEF u
<1>9. CASE ~up.finished
  <2>1. u = [up EXCEPT !.buf = b, !.finished = f]
    BY <1>9 DEF stored, from, b, f, u
  <2>2. u \in Up /\ u.buf = b /\ u.flushed = up.flushed
    BY <1>1, <1>5, <1>7, <2>1 DEF Up
  <2>3. Len(u.buf) <= BUFFER_SIZE
    BY <1>2, <1>5, <2>2, Zenon
  <2> QED
    BY <1>2, <1>6, <1>9, <2>2, <2>3 DEF u
<1> QED
  BY <1>8, <1>9

LEMMA SegmentKeeps ==
  ASSUME Inv, receiveSegment
  PROVE  Inv'
<1> DEFINE num == Plus(up.receiveSent, Len(up.buf) + One(up.finished))
           kept(n) == IF up.finished THEN 0 ELSE fits(n)
<1>1. PICK ack \in SeqNums, window \in Windows, n \in 0..UpLen, fin \in BOOLEAN :
        /\ acceptable(ackOffset(ack))
        /\ IF closesOnAck(ackOffset(ack))
           THEN closeSession /\ UNCHANGED <<up, dn, peer>>
           ELSE /\ dn' = acknowledged(ackOffset(ack), window)
                /\ up' = stored(num, n, fin)
                /\ registered(Len(dn.buf) - Len(dn'.buf), kept(n))
                /\ peer' = [peer EXCEPT !.slipped = @ \/ (kept(n) > 0 /\ peer.wrote # <<>>)]
                /\ UNCHANGED state
  BY DEF receiveSegment
<1>2. CASE closesOnAck(ackOffset(ack))
  BY <1>1, <1>2, ClosedKeeps DEF receiveSegment
<1>3. CASE ~closesOnAck(ackOffset(ack))
  <2>1. /\ dn' = acknowledged(ackOffset(ack), window)
        /\ up' = stored(num, n, fin)
        /\ registered(Len(dn.buf) - Len(dn'.buf), kept(n))
        /\ peer' = [peer EXCEPT !.slipped = @ \/ (kept(n) > 0 /\ peer.wrote # <<>>)]
        /\ state' = state
    BY <1>1, <1>3
  <2>2. ~hung /\ hung' = hung /\ state = "ESTABLISHED"
    BY DEF receiveSegment
  <2>3. ackOffset(ack) \in Nat /\ num \in SeqNums /\ window \in Nat /\ n \in Nat
    <3>1. dn.una \in SeqNums /\ up.receiveSent \in SeqNums /\ up.buf \in Seq(Nat)
      BY DEF Inv, RecordInv, Dn, Up
    <3>2. SeqNums \subseteq Nat /\ SeqNums \subseteq Int /\ window \in Nat /\ n \in Nat
      BY Session2Assumption DEF SeqNums
    <3>3. Len(up.buf) + One(up.finished) \in Int
      BY <3>1 DEF One
    <3>4. dn.una \in Int /\ up.receiveSent \in Int /\ ack \in Int
      BY <3>1, <3>2, Zenon
    <3>5. ackOffset(ack) \in SeqNums
      BY <3>4, SeqNumbers, Zenon DEF ackOffset
    <3>6. num \in SeqNums
      BY <3>3, <3>4, SeqNumbers, Zenon
    <3> QED
      BY <3>2, <3>5, <3>6, Zenon
  <2> HIDE DEF num
  <2>4. /\ dn' \in Dn /\ Sent(dn)' /\ FinLast(dn)'
        /\ dn'.flushed => dn'.sentFin
        /\ dn'.ended = dn.ended /\ Len(dn'.buf) <= Len(dn.buf)
    <3>1. acceptable(ackOffset(ack))
      BY <1>1
    <3> QED
      BY <2>1, <2>2, <2>3, <3>1, AcknowledgedResult DEF Sent, FinLast
  <2>5. /\ up' \in Up /\ Len(up'.buf) <= BUFFER_SIZE
        /\ up'.flushed = up.flushed
        /\ up.finished => up'.finished
        /\ (up.finished \/ fits(n) = 0) => up'.buf = up.buf
        /\ ~up.finished => fits(n) \in Nat
    BY <2>1, <2>3, StoredResult
  <2>6. peer' \in Peer
    <3>1. peer \in Peer
      BY DEF Inv, RecordInv
    <3> DEFINE slips == peer.slipped \/ (kept(n) > 0 /\ peer.wrote # <<>>)
    <3>2. slips \in BOOLEAN
      BY <3>1 DEF Peer
    <3>3. peer' = [peer EXCEPT !.slipped = slips]
      BY <2>1
    <3> HIDE DEF slips
    <3> QED
      BY <3>1, <3>2, <3>3 DEF Peer
  <2>7. dn \in Dn /\ Len(dn.buf) <= BUFFER_SIZE /\ BUFFER_SIZE \in Nat
    BY Session2Assumption DEF Inv, RecordInv
  <2>8. Len(dn'.buf) <= BUFFER_SIZE
    <3>1. Len(dn.buf) \in Nat /\ Len(dn'.buf) \in Nat
      BY <2>4, <2>7 DEF Dn
    <3> QED
      BY <2>4, <2>7, <3>1
  <2>9. sets \subseteq sets' /\ sets' \subseteq sets \cup {"receive", "send"}
    BY <2>1 DEF registered
  <2>10. up'.buf # <<>> /\ ~up'.flushed => "send" \in sets'
    <3>1. CASE up.finished \/ fits(n) = 0
      BY <2>2, <2>5, <2>9, <3>1 DEF Inv, WaitsAreRegistered
    <3>2. CASE ~up.finished /\ fits(n) # 0
      <4>1. kept(n) > 0
        BY <2>5, <3>2
      <4> QED
        BY <2>1, <4>1 DEF registered
    <3> QED
      BY <3>1, <3>2
  <2>11. ~dn'.ended /\ available(dn'.buf) > 0 => "receive" \in sets'
    <3>1. Len(dn.buf) \in Nat /\ Len(dn'.buf) \in Nat
      BY <2>4, <2>7 DEF Dn
    <3>2. CASE Len(dn'.buf) = Len(dn.buf)
      BY <2>2, <2>4, <2>9, <3>2 DEF Inv, WaitsAreRegistered, available
    <3>3. CASE Len(dn'.buf) < Len(dn.buf)
      <4>1. \A a, b \in Nat : a < b => b - a > 0
        OBVIOUS
      <4>2. Len(dn.buf) - Len(dn'.buf) > 0
        BY <3>1, <3>3, <4>1, Zenon
      <4> QED
        BY <2>1, <4>2, Zenon DEF registered
    <3> QED
      BY <2>4, <3>1, <3>2, <3>3
  <2>12. StateInv'
    BY <2>1, <2>2, <2>9 DEF Inv, StateInv
  <2>13. RecordInv'
    BY <2>4, <2>5, <2>6, <2>8 DEF RecordInv
  <2>14. EndsInv'
    BY <2>4, <2>5 DEF Inv, EndsInv
  <2>15. HandshakeInv' /\ WaitsAreRegistered'
    BY <2>1, <2>2, <2>9, <2>10, <2>11 DEF Inv, HandshakeInv, WaitsAreRegistered
  <2> QED
    BY <2>12, <2>13, <2>14, <2>15 DEF Inv
<1> QED
  BY <1>2, <1>3

LEMMA InvNext ==
  ASSUME Inv, [Next]_vars
  PROVE  Inv'
<1>1. CASE flushDataToClient
  BY <1>1, FlushKeeps
<1>2. CASE sendsForEver \/ UNCHANGED vars
  BY <1>2 DEF sendsForEver, vars, Inv, StateInv, RecordInv, EndsInv, Sent, FinLast,
    HandshakeInv, WaitsAreRegistered
<1>3. CASE receiveFromServer
  BY <1>3, ReadKeeps
<1>4. CASE connected
  BY <1>4, ConnectedKeeps
<1>5. CASE flushDataToServer
  BY <1>5, WriteKeeps
<1>6. CASE socketFails \/ timesOut \/ receiveReset
  BY <1>6, ClosedKeeps DEF socketFails, timesOut, receiveReset
<1>7. CASE receiveSyn
  BY <1>7, SynKeeps
<1>8. CASE establish
  BY <1>8, EstablishKeeps
<1>9. CASE receiveSegment
  BY <1>9, SegmentKeeps
<1> QED
  BY <1>1, <1>2, <1>3, <1>4, <1>5, <1>6, <1>7, <1>8, <1>9 DEF Next

LEMMA Invariance == Spec => []Inv
BY InvInit, InvNext, PTL DEF Spec

-----------------------------------------------------------------------------
(* The theorems *)

\* What sendDataStartingFrom has sent is in the send buffer whatever the client
\* acknowledges, no buffer overflows, and the numbers keep their width.
THEOREM Types2 == Spec => []TypeOK
BY Invariance, InvImpliesTypes, PTL

\* No session waits for a socket it is not registered for: registration and
\* removal in receiveFromClient, receiveFromServer and flushDataToServer agree.
THEOREM WaitersAreRegistered == Spec => []WaitsAreRegistered
<1>1. Inv => WaitsAreRegistered
  BY DEF Inv
<1> QED
  BY <1>1, Invariance, PTL

\* The two places that close a session in order, in receiveFromClient and
\* flushDataToServer, do so only behind the ends of both streams.
THEOREM EndsInOrder == Spec => OrderlyEnd
<1> DEFINE A == (receiveSegment \/ flushDataToServer) /\ state' = "CLOSED" =>
                /\ dn.ended /\ dn.sentFin /\ (dn.flushed \/ dn.next = Len(dn.buf))
                /\ up.finished /\ (up.flushed \/ flushDataToServer)
<1>1. ASSUME Inv, receiveSegment, state' = "CLOSED"
      PROVE  /\ dn.ended /\ dn.sentFin /\ dn.next = Len(dn.buf)
             /\ up.finished /\ up.flushed
  <2>1. PICK ack \in SeqNums : acceptable(ackOffset(ack)) /\ closesOnAck(ackOffset(ack))
    <3>1. state # state'
      BY <1>1 DEF receiveSegment
    <3> QED
      BY <1>1, <3>1 DEF receiveSegment
  <2>2. dn \in Dn /\ FinLast(dn) /\ (up.flushed => up.finished)
    BY <1>1 DEF receiveSegment, Inv, RecordInv, EndsInv
  <2>3. ackOffset(ack) \in Nat
    <3>1. dn.una \in Int /\ ack \in Int
      BY <2>2, Session2Assumption DEF Dn, SeqNums
    <3>2. ackOffset(ack) \in SeqNums
      BY <3>1, SeqNumbers, Zenon DEF ackOffset
    <3> QED
      BY <3>2, Session2Assumption DEF SeqNums
  <2>4. dn.sentFin
    BY <2>1, <2>2, <2>3 DEF acceptable, closesOnAck, One, Dn
  <2> QED
    BY <2>1, <2>2, <2>4 DEF FinLast, closesOnAck
<1>2. ASSUME Inv, flushDataToServer, state' = "CLOSED"
      PROVE  dn.ended /\ dn.sentFin /\ dn.flushed /\ up.finished
  <2>1. dn.flushed /\ up.finished
    BY <1>2 DEF flushDataToServer
  <2> QED
    BY <1>2, <2>1 DEF flushDataToServer, Inv, EndsInv, FinLast
<1>3. Inv /\ [Next]_vars => [A]_vars
  BY <1>1, <1>2
<1> QED
  BY <1>3, Invariance, PTL DEF Spec, OrderlyEnd

\* The session moves through its states as SessionLife2 says, which is all
\* that ClientHandler takes of it.
THEOREM Session2ImplementsLife == Spec => ImplementsSessionLife2
<1>1. Init => Life!Init
  BY DEF Init, Life!Init
<1>2. ASSUME Inv, [Next]_vars PROVE [Life!Next]_state
  <2>1. CASE state' = state
    BY <2>1
  <2>2. CASE state' = "CLOSED"
    BY <2>2 DEF Life!Next, Life!SocketError
  <2>3. CASE receiveSyn
    BY <2>3 DEF receiveSyn, Life!Next, Life!Receive, Life!Kinds, Life!ReceiveMoves
  <2>4. CASE establish
    BY <2>4 DEF establish, awaitsAck, Life!Next, Life!Receive, Life!Kinds,
      Life!ReceiveMoves
  <2>5. CASE connected
    BY <2>5 DEF connected, closeSession, Life!Next, Life!Flush, Life!FlushMoves,
      Life!SocketError
  <2>6. CASE flushDataToClient \/ receiveFromServer
    BY <2>6 DEF flushDataToClient, receiveFromServer
  <2>7. CASE flushDataToServer \/ receiveSegment
    BY <2>7, <2>1, <2>2 DEF flushDataToServer, receiveSegment, closeSession
  <2>8. CASE socketFails \/ timesOut \/ receiveReset
    BY <2>8, <2>2 DEF socketFails, timesOut, receiveReset, closeSession
  <2>9. CASE sendsForEver \/ UNCHANGED vars
    BY <2>9 DEF sendsForEver, vars
  <2> QED
    BY <1>2, <2>3, <2>4, <2>5, <2>6, <2>7, <2>8, <2>9 DEF Next
<1> QED
  BY <1>1, <1>2, Invariance, PTL DEF Spec, ImplementsSessionLife2, Life!Spec

-----------------------------------------------------------------------------
(* The streams *)

\* What the client has sent and the server not yet got, as long as no segment
\* was taken behind a flush: the bytes follow those the socket has taken.
UpStreamInv ==
  ~peer.slipped =>
    /\ \A i \in 1..Len(peer.wrote) : peer.wrote[i] = i - 1
    /\ state # "CLOSED" => up.receiveSent = Plus(peer.isn, 1)
    /\ state # "CLOSED" /\ ~up.flushed =>
         \A i \in 1..Len(up.buf) : up.buf[i] = Len(peer.wrote) + i - 1

\* A send buffer that holds the bytes of the server's stream from base on, the
\* first of them at the number una.
Holds(d, read, iss, base) ==
  /\ base + Len(d.buf) = read
  /\ d.una = Plus(Plus(iss, 1), base)
  /\ \A i \in 1..Len(d.buf) : d.buf[i] = base + i - 1

DownStreamInv ==
  /\ state \in {"SYN_RECEIVED", "SYN_ACK_SENT"} =>
       dn.una = peer.iss /\ dn.buf = <<>> /\ peer.read = 0
  /\ state = "ESTABLISHED" => \E base \in Nat : Holds(dn, peer.read, peer.iss, base)

LEMMA ModUnique ==
  ASSUME NEW m \in Nat \ {0}, NEW q \in Int, NEW r \in 0..(m - 1)
  PROVE  (m * q + r) % m = r
<1> DEFINE x == m * q + r
           p == x \div m
           s == x % m
<1>1. x \in Int
  OBVIOUS
<1>2. p \in Int /\ s \in 0..(m - 1) /\ x = m * p + s
  BY <1>1
<1> HIDE DEF p, s
<1>3. m * (q - p) = s - r
  BY <1>2
<1> DEFINE k == q - p
<1>4. k \in Int /\ m * k = s - r
  BY <1>2, <1>3
<1> HIDE DEF k
<1>5. ~(k >= 1)
  <2>1. k >= 1 => m * k >= m
    BY <1>4
  <2> QED
    BY <1>2, <1>4, <2>1
<1>6. ~(k <= -1)
  <2>1. k <= -1 => m * k <= -m
    BY <1>4
  <2> QED
    BY <1>2, <1>4, <2>1
<1>7. k = 0
  BY <1>4, <1>5, <1>6
<1>8. s = r
  BY <1>2, <1>4, <1>7
<1> QED
  BY <1>8 DEF s

\* Numbers wrap once, however often they are added to.
LEMMA ModAdds ==
  ASSUME NEW m \in Nat \ {0}, NEW a \in Int, NEW b \in Int
  PROVE  ((a % m) + b) % m = (a + b) % m
<1> DEFINE q == a \div m
           r == a % m
           p == (r + b) \div m
           s == (r + b) % m
<1>1. q \in Int /\ r \in 0..(m - 1) /\ a = m * q + r
  OBVIOUS
<1> HIDE DEF q, r
<1>2. p \in Int /\ s \in 0..(m - 1) /\ r + b = m * p + s
  BY <1>1
<1> HIDE DEF p, s
<1>3. a + b = m * (q + p) + s
  BY <1>1, <1>2
<1>4. (m * (q + p) + s) % m = s
  <2>1. q + p \in Int
    BY <1>1, <1>2
  <2> QED
    BY <1>2, <2>1, ModUnique
<1> QED
  BY <1>3, <1>4 DEF r, s

LEMMA PlusAdds ==
  ASSUME NEW a \in Int, NEW b \in Int, NEW c \in Int
  PROVE  Plus(Plus(a, b), c) = Plus(a, b + c)
<1>1. Modulus \in Nat \ {0} /\ a + b \in Int /\ (a + b) + c = a + (b + c)
  BY Session2Assumption
<1>2. (((a + b) % Modulus) + c) % Modulus = ((a + b) + c) % Modulus
  BY <1>1, ModAdds
<1> QED
  BY <1>1, <1>2 DEF Plus

LEMMA PlusZero ==
  ASSUME NEW a \in Int
  PROVE  Plus(Plus(a, 1), 0) = Plus(a, 1)
<1>1. Plus(Plus(a, 1), 0) = Plus(a, 1 + 0)
  BY PlusAdds
<1> QED
  BY <1>1

\* The distance from a number to a later one, when it is shorter than a turn.
LEMMA MinusOfPlus ==
  ASSUME NEW a \in SeqNums, NEW n \in 0..(Modulus - 1)
  PROVE  Minus(Plus(a, n), a) = n
<1> DEFINE x == a + n
           c == 0 - a
<1>1. /\ Modulus \in Nat \ {0} /\ x \in Int /\ c \in Int /\ x + c = n
      /\ n % Modulus = n
  BY Session2Assumption DEF SeqNums
<1>2. \A y \in Int : y - a = y + c
  BY DEF SeqNums
<1>3. x % Modulus \in Int
  BY <1>1
<1> HIDE DEF x, c
<1>4. ((x % Modulus) + c) % Modulus = (x + c) % Modulus
  BY <1>1, ModAdds
<1>5. (x % Modulus) - a = (x % Modulus) + c
  BY <1>2, <1>3
<1>6. Plus(a, n) = x % Modulus
  BY DEF Plus, x
<1> QED
  BY <1>1, <1>4, <1>5, <1>6 DEF Minus

\* A sequence of consecutive bytes.
LEMMA BytesElements ==
  ASSUME NEW s \in Seq(Nat), NEW from \in Nat
  PROVE  (\A i \in 1..Len(s) : s[i] = from + i - 1) => s = Bytes(from, Len(s))
BY DEF Bytes

LEMMA BytesElement ==
  ASSUME NEW from \in Nat, NEW n \in Nat
  PROVE  \A i \in 1..n : Bytes(from, n)[i] = from + i - 1
BY DEF Bytes

\* Consecutive bytes stay so when a buffer is compacted, split or added to.
LEMMA CompactElements ==
  ASSUME NEW buf \in Seq(Nat), NEW n \in 0..Len(buf)
  PROVE  \A i \in 1..n : compact(buf, n)[i] = buf[Len(buf) - n + i]
<1> DEFINE l == Len(buf)
           m == l - n + 1
<1>1. m \in 1..(l + 1) /\ l \in Nat /\ buf \in Seq(Nat) /\ l - m + 1 = n
  OBVIOUS
<1>2. compact(buf, n) = SubSeq(buf, m, Len(buf))
  BY DEF compact
<1> HIDE DEF m
<1>3. ASSUME NEW i \in 1..(l - m + 1)
      PROVE  SubSeq(buf, m, Len(buf))[i] = buf[m + i - 1]
  BY <1>1
<1>4. \A i \in 1..n : m + i - 1 = l - n + i
  BY DEF m
<1> QED
  BY <1>1, <1>2, <1>3, <1>4

LEMMA SubSeqElements ==
  ASSUME NEW buf \in Seq(Nat), NEW off \in 0..Len(buf), NEW end \in off..Len(buf)
  PROVE  /\ SubSeq(buf, off + 1, end) \in Seq(Nat)
         /\ Len(SubSeq(buf, off + 1, end)) = end - off
         /\ \A i \in 1..(end - off) : SubSeq(buf, off + 1, end)[i] = buf[off + i]
<1> DEFINE m == off + 1
           s == SubSeq(buf, m, end)
<1>1. m \in 1..(Len(buf) + 1) /\ end \in 0..Len(buf) /\ Len(buf) \in Nat
      /\ end - m + 1 = end - off /\ m <= end + 1
  OBVIOUS
<1>2. s = SubSeq(buf, m, end)
  OBVIOUS
<1> HIDE DEF m, s
<1>3. s \in Seq(Nat)
  <2>1. \A i \in m..end : buf[i] \in Nat
    BY <1>1
  <2>2. m \in Int /\ end \in Int
    BY <1>1
  <2> QED
    BY <1>2, <2>1, <2>2, SubSeqProperties
<1>4. Len(s) = end - m + 1
  BY <1>1, <1>2
<1>5. ASSUME NEW i \in 1..(end - m + 1)
      PROVE  s[i] = buf[m + i - 1]
  BY <1>1, <1>2
<1>6. \A i \in 1..(end - off) : m + i - 1 = off + i
  BY DEF m
<1> QED
  BY <1>1, <1>3, <1>4, <1>5, <1>6 DEF s, m

LEMMA ConcatElements ==
  ASSUME NEW s \in Seq(Nat), NEW t \in Seq(Nat), NEW from \in Nat,
         \A i \in 1..Len(s) : s[i] = from + i - 1,
         \A i \in 1..Len(t) : t[i] = from + Len(s) + i - 1
  PROVE  \A i \in 1..(Len(s) + Len(t)) : (s \o t)[i] = from + i - 1
<1> SUFFICES ASSUME NEW i \in 1..(Len(s) + Len(t))
             PROVE  (s \o t)[i] = from + i - 1
  OBVIOUS
<1>1. CASE i <= Len(s)
  BY <1>1
<1>2. CASE i > Len(s)
  <2>1. i - Len(s) \in 1..Len(t) /\ (s \o t)[i] = t[i - Len(s)]
    BY <1>2
  <2>2. t[i - Len(s)] = from + Len(s) + (i - Len(s)) - 1
    BY <2>1
  <2> QED
    BY <2>1, <2>2
<1> QED
  BY <1>1, <1>2

-----------------------------------------------------------------------------
(* The client's stream *)

LEMMA UpInit == Init => UpStreamInv
<1> SUFFICES ASSUME Init PROVE UpStreamInv
  OBVIOUS
<1>1. peer.wrote = <<>> /\ state = "CLOSED"
  BY DEF Init
<1> QED
  BY <1>1 DEF UpStreamInv

\* A segment that is taken before anything was flushed adds the next bytes.
LEMMA SegmentKeepsUp ==
  ASSUME Inv, UpStreamInv, receiveSegment
  PROVE  UpStreamInv'
<1> DEFINE num == Plus(up.receiveSent, Len(up.buf) + One(up.finished))
           kept(n) == IF up.finished THEN 0 ELSE fits(n)
<1>1. PICK n \in 0..UpLen, fin \in BOOLEAN :
        \/ closeSession /\ UNCHANGED <<up, peer>>
        \/ /\ up' = stored(num, n, fin)
           /\ peer' = [peer EXCEPT !.slipped = @ \/ (kept(n) > 0 /\ peer.wrote # <<>>)]
           /\ UNCHANGED state
  BY DEF receiveSegment
<1>2. CASE closeSession /\ UNCHANGED <<up, peer>>
  BY <1>2 DEF UpStreamInv, closeSession
<1>3. CASE /\ up' = stored(num, n, fin)
           /\ peer' = [peer EXCEPT !.slipped = @ \/ (kept(n) > 0 /\ peer.wrote # <<>>)]
           /\ UNCHANGED state
  <2>1. /\ up \in Up /\ peer \in Peer /\ up.buf \in Seq(Nat) /\ peer.wrote \in Seq(Nat)
        /\ Len(up.buf) <= BUFFER_SIZE
    BY DEF Inv, RecordInv, Up, Peer
  <2>2. /\ peer'.wrote = peer.wrote /\ peer'.isn = peer.isn
        /\ peer'.slipped = (peer.slipped \/ (kept(n) > 0 /\ peer.wrote # <<>>))
    BY <1>3, <2>1 DEF Peer
  <2>3. SUFFICES ASSUME ~peer'.slipped
                 PROVE  UpStreamInv'
    BY DEF UpStreamInv
  <2>4. ~peer.slipped /\ (kept(n) > 0 => peer.wrote = <<>>)
    BY <2>2, <2>3
  <2>5. state = "ESTABLISHED" /\ up.receiveSent = Plus(peer.isn, 1)
    BY <2>4 DEF UpStreamInv, receiveSegment
  <2>6. CASE up.finished
    <3>1. up' = up
      BY <1>3, <2>6 DEF stored
    <3> QED
      BY <1>3, <2>2, <2>4, <3>1 DEF UpStreamInv
  <2>7. CASE ~up.finished
    <3> DEFINE isn == peer.isn
               first == Plus(isn, 1)
               len == Len(up.buf)
               b == Bytes(len, fits(n))
    <3>1. len \in Nat /\ len \in 0..(Modulus - 1) /\ fits(n) \in Nat
      <4>1. BUFFER_SIZE \in Nat /\ len \in Nat /\ n \in Nat
        BY <2>1, Session2Assumption
      <4>2. fits(n) \in Nat
        BY <2>1, <4>1, RoomBound, Zenon DEF fits, available
      <4>3. len \in 0..(Modulus - 1)
        BY <2>1, <4>1, Session2Assumption
      <4> QED
        BY <4>1, <4>2, <4>3
    <3>2. first \in SeqNums
      <4>1. isn \in SeqNums
        BY <2>1 DEF Peer
      <4>2. isn \in Int /\ 1 \in Int
        BY <4>1, Session2Assumption DEF SeqNums
      <4> QED
        BY <4>2, SeqNumbers, Zenon
    <3>3. num = Plus(first, len)
      <4>1. len + One(up.finished) = len
        BY <2>7, <3>1 DEF One
      <4> QED
        BY <2>5, <4>1
    <3>4. Minus(num, first) = len
      <4> HIDE DEF first, len, num
      <4> QED
        BY <3>1, <3>2, <3>3, MinusOfPlus
    <3>5. up' = [up EXCEPT !.buf = up.buf \o b, !.finished = fin /\ fits(n) = n]
      BY <1>3, <2>7, <3>4 DEF stored
    <3>6. up'.buf = up.buf \o b /\ up'.receiveSent = up.receiveSent /\ up'.flushed = up.flushed
      BY <2>1, <3>5 DEF Up
    <3>7. /\ b \in Seq(Nat) /\ Len(b) = fits(n)
          /\ \A i \in 1..fits(n) : b[i] = len + i - 1
      <4> HIDE DEF len
      <4> QED
        BY <3>1, BytesResult, BytesElement
    <3>8. ~up.flushed /\ \A i \in 1..len : up.buf[i] = Len(peer.wrote) + i - 1
      BY <2>4, <2>5, <2>7 DEF UpStreamInv, Inv, EndsInv
    <3> HIDE DEF b
    <3>9. \A i \in 1..Len(up'.buf) : up'.buf[i] = Len(peer.wrote) + i - 1
      <4>1. CASE fits(n) = 0
        <5>1. up'.buf = up.buf
          BY <2>1, <3>6, <3>7, <4>1
        <5> QED
          BY <3>8, <5>1
      <4>2. CASE fits(n) # 0
        <5>1. peer.wrote = <<>> /\ Len(peer.wrote) = 0
          BY <2>1, <2>4, <2>7, <3>1, <4>2
        <5>2. \A i \in 1..len : up.buf[i] = 0 + i - 1
          BY <3>8, <5>1
        <5>3. \A i \in 1..Len(b) : b[i] = 0 + len + i - 1
          BY <3>1, <3>7
        <5>4. \A i \in 1..(len + Len(b)) : (up.buf \o b)[i] = 0 + i - 1
          BY <2>1, <3>7, <5>2, <5>3, ConcatElements
        <5>5. Len(up.buf \o b) = len + Len(b)
          BY <2>1, <3>7, AppendResult
        <5> QED
          BY <3>6, <5>1, <5>4, <5>5
      <4> QED
        BY <4>1, <4>2
    <3> QED
      BY <1>3, <2>2, <2>4, <2>5, <3>6, <3>9 DEF UpStreamInv
  <2> QED
    BY <2>6, <2>7
<1> QED
  BY <1>1, <1>2, <1>3

\* A flush moves the front of the buffer behind what the socket has taken.
LEMMA WriteKeepsUp ==
  ASSUME Inv, UpStreamInv, flushDataToServer
  PROVE  UpStreamInv'
<1> DEFINE all(n) == n = Len(up.buf)
           part(n) == SubSeq(up.buf, 1, n)
<1>1. PICK n \in 0..Len(up.buf) :
        /\ IF all(n) /\ up.finished /\ dn.flushed THEN closeSession
           ELSE UNCHANGED state
        /\ up' = IF all(n) /\ up.finished
                 THEN [up EXCEPT !.flushed = ~dn.flushed]
                 ELSE [up EXCEPT !.buf = compact(@, Len(@) - n)]
        /\ peer' = IF peer.slipped THEN peer
                   ELSE [peer EXCEPT !.wrote = @ \o part(n)]
  BY DEF flushDataToServer
<1>2. /\ up \in Up /\ dn \in Dn /\ peer \in Peer
      /\ up.buf \in Seq(Nat) /\ peer.wrote \in Seq(Nat)
      /\ Len(up.buf) \in Nat /\ Len(peer.wrote) \in Nat
  BY DEF Inv, RecordInv, Up, Peer
<1>3. peer'.slipped = peer.slipped /\ peer'.isn = peer.isn
  BY <1>1, <1>2 DEF Peer
<1>4. SUFFICES ASSUME ~peer.slipped
               PROVE  UpStreamInv'
  BY <1>3 DEF UpStreamInv
<1> DEFINE w == peer.wrote
           p == part(n)
           lw == Len(w)
           lb == Len(up.buf)
<1>5. /\ up.receiveSent = Plus(peer.isn, 1)
      /\ \A i \in 1..lw : w[i] = i - 1
      /\ \A i \in 1..lb : up.buf[i] = lw + i - 1
  BY <1>4 DEF UpStreamInv, flushDataToServer
<1>6. peer'.wrote = w \o p
  BY <1>1, <1>2, <1>4 DEF Peer
<1>7. /\ p \in Seq(Nat) /\ Len(p) = n /\ n \in Nat
      /\ \A i \in 1..n : p[i] = up.buf[i]
  <2>1. /\ SubSeq(up.buf, 0 + 1, n) \in Seq(Nat) /\ Len(SubSeq(up.buf, 0 + 1, n)) = n - 0
        /\ \A i \in 1..(n - 0) : SubSeq(up.buf, 0 + 1, n)[i] = up.buf[0 + i]
    BY <1>2, SubSeqElements
  <2>2. 0 + 1 = 1 /\ n - 0 = n /\ (\A i \in 1..n : 0 + i = i) /\ n \in Nat
    BY <1>2
  <2> QED
    BY <2>1, <2>2
<1> HIDE DEF part
<1>8. /\ \A i \in 1..lw : w[i] = 0 + i - 1
      /\ \A i \in 1..n : p[i] = 0 + lw + i - 1
  <2>1. lw \in Nat /\ lb \in Nat /\ n \in 0..lb
    BY <1>2
  <2> HIDE DEF lw, lb, w, p
  <2>2. \A i \in 1..lw : i - 1 = 0 + i - 1
    BY <2>1
  <2>3. \A i \in 1..n : i \in 1..lb /\ lw + i - 1 = 0 + lw + i - 1
    BY <2>1
  <2> QED
    BY <1>5, <1>7, <2>2, <2>3
<1>9. /\ \A i \in 1..Len(peer'.wrote) : peer'.wrote[i] = i - 1
      /\ Len(peer'.wrote) = lw + n
  <2>1. \A i \in 1..(lw + n) : (w \o p)[i] = 0 + i - 1
    BY <1>2, <1>7, <1>8, ConcatElements
  <2>2. Len(w \o p) = lw + n
    BY <1>2, <1>7, AppendResult
  <2> QED
    BY <1>6, <2>1, <2>2
<1>10. CASE all(n) /\ up.finished
  <2>1. up'.receiveSent = up.receiveSent /\ (dn.flushed \/ up'.flushed)
    BY <1>1, <1>2, <1>10 DEF Up, Dn
  <2>2. state' = "CLOSED" \/ up'.flushed
    BY <1>1, <1>10, <2>1 DEF closeSession
  <2> QED
    BY <1>3, <1>5, <1>9, <2>1, <2>2 DEF UpStreamInv
<1>11. CASE ~(all(n) /\ up.finished)
  <2> DEFINE b == compact(up.buf, lb - n)
  <2>1. up' = [up EXCEPT !.buf = b]
    BY <1>1, <1>11
  <2>2. up'.buf = b /\ up'.receiveSent = up.receiveSent /\ up'.flushed = up.flushed
    BY <1>2, <2>1 DEF Up
  <2>3. lb - n \in 0..lb /\ lb - (lb - n) = n
    BY <1>2
  <2>4. Len(b) = lb - n /\ \A i \in 1..(lb - n) : b[i] = up.buf[n + i]
    <3>1. Len(b) = lb - n /\ \A i \in 1..(lb - n) : b[i] = up.buf[lb - (lb - n) + i]
      BY <1>2, <2>3, CompactResult, CompactElements
    <3> QED
      BY <2>3, <3>1
  <2> HIDE DEF b, w, lw
  <2>5. \A i \in 1..(lb - n) : b[i] = (lw + n) + i - 1
    <3> SUFFICES ASSUME NEW i \in 1..(lb - n)
                 PROVE  b[i] = (lw + n) + i - 1
      OBVIOUS
    <3>1. n + i \in 1..lb
      BY <1>2
    <3>2. b[i] = lw + (n + i) - 1
      BY <1>5, <2>4, <3>1
    <3>3. lw \in Nat
      BY <1>2 DEF lw, w
    <3> QED
      BY <3>2, <3>3
  <2> QED
    BY <1>3, <1>5, <1>9, <2>2, <2>4, <2>5 DEF UpStreamInv
<1> QED
  BY <1>10, <1>11

LEMMA UpNext ==
  ASSUME Inv, UpStreamInv, [Next]_vars
  PROVE  UpStreamInv'
<1>1. CASE flushDataToClient \/ sendsForEver \/ UNCHANGED vars
  BY <1>1 DEF flushDataToClient, sendsForEver, vars, UpStreamInv
<1>2. CASE receiveFromServer
  <2>1. peer'.slipped = peer.slipped /\ peer'.wrote = peer.wrote /\ peer'.isn = peer.isn
    BY <1>2 DEF receiveFromServer, Inv, RecordInv, Peer
  <2> QED
    BY <1>2, <2>1 DEF receiveFromServer, UpStreamInv
<1>3. CASE connected \/ socketFails \/ timesOut \/ receiveReset
  BY <1>3 DEF connected, socketFails, timesOut, receiveReset, closeSession, UpStreamInv
<1>4. CASE flushDataToServer
  BY <1>4, WriteKeepsUp
<1>5. CASE receiveSyn
  <2>1. PICK isn \in ClientISNs :
          up'.receiveSent = Plus(isn, 1) /\ up'.buf = <<>> /\ peer'.isn = isn /\ peer'.wrote = <<>>
    BY <1>5 DEF receiveSyn, freshUp
  <2> QED
    BY <2>1 DEF UpStreamInv
<1>6. CASE establish
  BY <1>6 DEF establish, awaitsAck, UpStreamInv
<1>7. CASE receiveSegment
  BY <1>7, SegmentKeepsUp
<1> QED
  BY <1>1, <1>2, <1>3, <1>4, <1>5, <1>6, <1>7 DEF Next

\* The socket gets the client's bytes in order and each once, until the first
\* segment receiveFromClient takes behind a flush: the numbers it computes from
\* receiveSent and the buffer are the client's as long as nothing was taken out
\* of the buffer, whatever the length of the stream.
THEOREM FirstFlushIsFaithful == Spec => []FirstFlushFaithful
<1>1. Inv /\ UpStreamInv => FirstFlushFaithful
  <2> SUFFICES ASSUME Inv, UpStreamInv, ~peer.slipped
               PROVE  LET unsent == state = "ESTABLISHED" /\ ~up.flushed
                          got == IF unsent THEN peer.wrote \o up.buf ELSE peer.wrote
                      IN got = Bytes(0, Len(got))
    BY DEF FirstFlushFaithful
  <2>1. up.buf \in Seq(Nat) /\ peer.wrote \in Seq(Nat)
    BY DEF Inv, RecordInv, Up, Peer
  <2> DEFINE w == peer.wrote
             b == up.buf
  <2>2. \A i \in 1..Len(w) : w[i] = 0 + i - 1
    BY <2>1 DEF UpStreamInv
  <2>3. w = Bytes(0, Len(w))
    BY <2>1, <2>2, BytesElements
  <2>4. CASE state = "ESTABLISHED" /\ ~up.flushed
    <3>1. \A i \in 1..Len(b) : b[i] = 0 + Len(w) + i - 1
      BY <2>1, <2>4 DEF UpStreamInv
    <3>2. \A i \in 1..(Len(w) + Len(b)) : (w \o b)[i] = 0 + i - 1
      BY <2>1, <2>2, <3>1, ConcatElements
    <3>3. w \o b \in Seq(Nat) /\ Len(w \o b) = Len(w) + Len(b)
      BY <2>1, AppendResult
    <3>4. w \o b = Bytes(0, Len(w \o b))
      BY <3>2, <3>3, BytesElements
    <3> QED
      BY <2>4, <3>4
  <2> QED
    BY <2>3, <2>4
<1>2. Spec => []UpStreamInv
  BY UpInit, UpNext, Invariance, PTL DEF Spec
<1> QED
  BY <1>1, <1>2, Invariance, PTL

-----------------------------------------------------------------------------
(* The server's stream *)

\* The segments of a stream: parts of the buffer, a FIN with the last.
Segments(d) ==
  UNION {{Segment(d, o, e) : e \in o..Len(d.buf)} : o \in 0..Len(d.buf)}

LEMMA SegmentsAlike ==
  ASSUME NEW d, NEW e, e.buf = d.buf, e.una = d.una, e.ended = d.ended
  PROVE  Segments(e) = Segments(d)
BY DEF Segments, Segment, finHere

LEMMA SegmentMember ==
  ASSUME NEW d, NEW o \in 0..Len(d.buf), NEW e \in 0..Len(d.buf), o <= e
  PROVE  Segment(d, o, e) \in Segments(d)
<1>1. e \in o..Len(d.buf)
  OBVIOUS
<1> QED
  BY <1>1 DEF Segments

\* sendDataStartingFrom cuts the buffer within its bounds.
LEMMA SendSegments ==
  ASSUME NEW d \in Dn, NEW off \in 0..Len(d.buf), NEW push \in BOOLEAN
  PROVE  sendDataStartingFrom(d, off, push).segs \subseteq Segments(d)
<1> DEFINE bound == Min2(d.edge, Len(d.buf))
           end == loopEnd(d, off, bound, push)
           hangs == loopHangs(d, off, bound, push)
           starts == {o \in off..end : (o - off) % mss = 0 /\ (o < end \/ hangs)}
<1>1. sendDataStartingFrom(d, off, push).segs =
        {Segment(d, o, Min2(o + mss, end)) : o \in starts}
  BY DEF sendDataStartingFrom
<1>2. bound \in 0..Len(d.buf)
  BY DEF Min2, Dn
<1>3. end \in 0..Len(d.buf)
  BY <1>2, LoopEndBound
<1>4. starts \subseteq off..end
  OBVIOUS
<1> HIDE DEF end, starts
<1>5. ASSUME NEW o \in starts
      PROVE  Segment(d, o, Min2(o + mss, end)) \in Segments(d)
  <2>1. Len(d.buf) \in Nat /\ o \in Int /\ off <= o /\ o <= end
    BY <1>3, <1>4 DEF Dn
  <2>2. /\ o \in 0..Len(d.buf) /\ Min2(o + mss, end) \in 0..Len(d.buf)
        /\ o <= Min2(o + mss, end)
    BY <1>3, <2>1, Session2Assumption DEF Min2
  <2> QED
    BY <2>2, SegmentMember
<1> QED
  BY <1>1, <1>5

\* Both rounds of a flush cut the same buffer.
LEMMA FlushedSegments ==
  ASSUME NEW d \in Dn, Sent(d), NEW ackLate \in BOOLEAN, NEW dataLate \in BOOLEAN
  PROVE  flushed(d, ackLate, dataLate).segs \subseteq Segments(d)
<1> DEFINE bound == Min2(d.edge, Len(d.buf))
           finNotSent == up.finished # d.sentFin
           one == IF d.next > 0 \/ (d.ended /\ ackLate)
                  THEN sendDataStartingFrom(d, 0, d.ended)
                  ELSE IF bound > mss THEN sendDataStartingFrom(d, 0, FALSE)
                  ELSE Nothing(d)
           late == dataLate /\ one.d.next = d.next
           again == ~one.hangs /\ ((one.d.next # bound /\ late) \/ finNotSent)
           two == IF again
                  THEN sendDataStartingFrom(one.d, one.d.next, TRUE)
                  ELSE Nothing(one.d)
<1>1. flushed(d, ackLate, dataLate).segs = one.segs \cup two.segs
  BY DEF flushed
<1>2. d.ended \in BOOLEAN /\ 0 \in 0..Len(d.buf)
  BY DEF Dn
<1>3. SendsOnly(d, one.d) /\ one.segs \subseteq Segments(d)
  <2>1. CASE d.next > 0 \/ (d.ended /\ ackLate)
    BY <1>2, <2>1, SendResult, SendSegments
  <2>2. CASE ~(d.next > 0 \/ (d.ended /\ ackLate)) /\ bound > mss
    BY <1>2, <2>2, SendResult, SendSegments
  <2>3. CASE ~(d.next > 0 \/ (d.ended /\ ackLate)) /\ ~(bound > mss)
    <3>1. one = Nothing(d)
      BY <2>3
    <3> HIDE DEF one
    <3> QED
      BY <3>1, NothingSent DEF Nothing
  <2> QED
    BY <2>1, <2>2, <2>3
<1> HIDE DEF one
<1>4. one.d \in Dn /\ one.d.next \in 0..Len(one.d.buf) /\ Segments(one.d) = Segments(d)
  <2>1. one.d \in Dn /\ one.d.next \in 0..Len(one.d.buf)
    BY <1>3 DEF SendsOnly, Sent, Dn
  <2>2. Segments(one.d) = Segments(d)
    BY <1>3, SegmentsAlike, Zenon DEF SendsOnly
  <2> QED
    BY <2>1, <2>2
<1> HIDE DEF again
<1>5. two.segs \subseteq Segments(d)
  <2>1. CASE again
    <3>1. two = sendDataStartingFrom(one.d, one.d.next, TRUE)
      BY <2>1
    <3> HIDE DEF two
    <3>2. sendDataStartingFrom(one.d, one.d.next, TRUE).segs \subseteq Segments(one.d)
      BY <1>4, SendSegments
    <3> QED
      BY <1>4, <3>1, <3>2
  <2>2. CASE ~again
    BY <2>2 DEF Nothing
  <2> QED
    BY <2>1, <2>2
<1> QED
  BY <1>1, <1>3, <1>5

LEMMA FlushFromSegments ==
  ASSUME NEW d \in Dn, Sent(d), FinLast(d),
         NEW ackLate \in BOOLEAN, NEW dataLate \in BOOLEAN,
         FlushFrom(d, ackLate, dataLate)
  PROVE  out' \subseteq Segments(d)
<1>1. CASE state = "ESTABLISHED" /\ ~d.flushed
  BY <1>1, FlushedSegments DEF FlushFrom
<1>2. CASE ~(state = "ESTABLISHED" /\ ~d.flushed)
  BY <1>2 DEF FlushFrom, Nothing
<1> QED
  BY <1>1, <1>2

\* What a segment may be when the server has sent read bytes.
Faithful(s, read, iss, ended) ==
  \E first \in 0..read :
    /\ s.seq = Plus(Plus(iss, 1), first)
    /\ s.bytes = Bytes(first, Len(s.bytes))
    /\ first + Len(s.bytes) <= read
    /\ s.fin => ended /\ first + Len(s.bytes) = read

\* A segment of a buffer that holds the server's bytes is faithful to them.
LEMMA HeldSegments ==
  ASSUME NEW d \in Dn, NEW read \in Nat, NEW iss \in SeqNums, NEW base \in Nat,
         Holds(d, read, iss, base), NEW s \in Segments(d)
  PROVE  Faithful(s, read, iss, d.ended)
<1>0. PICK o \in 0..Len(d.buf) : \E e \in o..Len(d.buf) : s = Segment(d, o, e)
  BY DEF Segments
<1>1. PICK e \in o..Len(d.buf) : s = Segment(d, o, e)
  BY <1>0
<1> DEFINE len == Len(d.buf)
           b == SubSeq(d.buf, o + 1, e)
           first == base + o
<1>2. /\ d.buf \in Seq(Nat) /\ len \in Nat /\ o \in 0..len /\ e \in o..len
      /\ first \in Nat
  BY <1>1 DEF Dn
<1>3. s.seq = Plus(d.una, o) /\ s.bytes = b /\ s.fin = (d.ended /\ e = len)
  BY <1>1 DEF Segment, finHere
<1>4. /\ b \in Seq(Nat) /\ Len(b) = e - o
      /\ \A i \in 1..(e - o) : b[i] = d.buf[o + i]
  BY <1>2, SubSeqElements
<1>5. base + len = read /\ d.una = Plus(Plus(iss, 1), base)
  BY DEF Holds
<1>6. \A i \in 1..len : d.buf[i] = base + i - 1
  BY DEF Holds
<1> HIDE DEF b, len
<1>7. \A i \in 1..Len(b) : b[i] = first + i - 1
  <2> SUFFICES ASSUME NEW i \in 1..Len(b)
               PROVE  b[i] = first + i - 1
    OBVIOUS
  <2>1. i \in 1..(e - o) /\ o + i \in 1..len
    <3>1. o \in Nat /\ e \in Nat /\ len \in Nat /\ o <= e /\ e <= len
      BY <1>2
    <3>2. Len(b) = e - o
      BY <1>4
    <3>3. i \in 1..(e - o)
      BY <3>2
    <3> QED
      BY <3>1, <3>3
  <2>2. b[i] = base + (o + i) - 1
    BY <1>4, <1>6, <2>1
  <2> QED
    BY <2>1, <2>2
<1>8. b = Bytes(first, Len(b))
  <2> HIDE DEF first
  <2> QED
    BY <1>2, <1>4, <1>7, BytesElements
<1>9. s.seq = Plus(Plus(iss, 1), first)
  <2>1. iss \in Int /\ Plus(iss, 1) \in Int /\ 1 \in Int
    <3>1. iss \in Int /\ 1 \in Int
      BY Session2Assumption DEF SeqNums
    <3>2. Plus(iss, 1) \in SeqNums
      BY <3>1, SeqNumbers
    <3> QED
      BY <3>1, <3>2, Session2Assumption DEF SeqNums
  <2> DEFINE f == Plus(iss, 1)
  <2> HIDE DEF f
  <2>2. Plus(Plus(f, base), o) = Plus(f, base + o)
    BY <2>1, PlusAdds DEF f
  <2> QED
    BY <1>3, <1>5, <2>2 DEF f
<1>10. /\ first \in 0..read /\ first + Len(b) <= read
       /\ e = len => first + Len(b) = read
  BY <1>1, <1>2, <1>4, <1>5
<1> HIDE DEF first
<1> QED
  BY <1>3, <1>8, <1>9, <1>10 DEF Faithful

StreamInv == DownStreamInv /\ SegmentsFaithful

LEMMA DownInit == Init => StreamInv
BY DEF Init, StreamInv, DownStreamInv, SegmentsFaithful

\* Nothing is sent and the stream is left alone, or the session ends.
LEMMA DownUndisturbed ==
  ASSUME StreamInv, UNCHANGED <<dn, peer>>, out' = {} \/ UNCHANGED out,
         UNCHANGED state \/ state' = "CLOSED" \/ (state = "SYN_RECEIVED" /\ state' = "SYN_ACK_SENT")
  PROVE  StreamInv'
BY DEF StreamInv, DownStreamInv, Holds, SegmentsFaithful

LEMMA SynKeepsDown ==
  ASSUME receiveSyn
  PROVE  StreamInv'
<1>1. /\ dn'.una = peer'.iss /\ dn'.buf = <<>> /\ peer'.read = 0 /\ out' = {}
      /\ state' # "ESTABLISHED"
  BY DEF receiveSyn, freshDn
<1> QED
  BY <1>1 DEF StreamInv, DownStreamInv, SegmentsFaithful

LEMMA EstablishKeepsDown ==
  ASSUME Inv, StreamInv, establish
  PROVE  StreamInv'
<1>1. dn.una = peer.iss /\ dn.buf = <<>> /\ peer.read = 0
  BY DEF StreamInv, DownStreamInv, establish, awaitsAck
<1>2. dn'.una = Plus(peer.iss, 1) /\ dn'.buf = <<>> /\ peer' = peer /\ out' = {}
  BY <1>1 DEF establish, Inv, RecordInv, Dn
<1>3. Plus(Plus(peer.iss, 1), 0) = Plus(peer.iss, 1)
  <2>1. peer.iss \in Int /\ 1 \in Int /\ 0 \in Int /\ 1 + 0 = 1
    BY Session2Assumption DEF Inv, RecordInv, Peer, SeqNums
  <2> QED
    BY <2>1, PlusZero
<1>4. Holds(dn', peer'.read, peer'.iss, 0)
  BY <1>1, <1>2, <1>3 DEF Holds
<1>5. state' = "ESTABLISHED"
  BY DEF establish
<1> QED
  BY <1>2, <1>4, <1>5 DEF StreamInv, DownStreamInv, SegmentsFaithful

\* A flush sends what the buffer holds.
LEMMA FlushFromKeepsDown ==
  ASSUME NEW d \in Dn, Sent(d), FinLast(d),
         NEW ackLate \in BOOLEAN, NEW dataLate \in BOOLEAN,
         FlushFrom(d, ackLate, dataLate), peer' \in Peer, state' = "ESTABLISHED",
         NEW base \in Nat, Holds(d, peer'.read, peer'.iss, base)
  PROVE  StreamInv'
<1>1. SendsOnly(d, dn') /\ out' \subseteq Segments(d)
  BY FlushFromResult, FlushFromSegments
<1>2. Holds(dn', peer'.read, peer'.iss, base) /\ dn'.ended = d.ended
  BY <1>1 DEF SendsOnly, Holds
<1>3. peer'.read \in Nat /\ peer'.iss \in SeqNums
  BY DEF Peer
<1>4. \A s \in out' : Faithful(s, peer'.read, peer'.iss, dn'.ended)
  BY <1>1, <1>2, <1>3, HeldSegments
<1>5. SegmentsFaithful'
  BY <1>4 DEF SegmentsFaithful, Faithful
<1> QED
  BY <1>2, <1>5 DEF StreamInv, DownStreamInv

LEMMA FlushKeepsDown ==
  ASSUME Inv, StreamInv, flushDataToClient
  PROVE  StreamInv'
<1>1. PICK ackLate \in BOOLEAN, dataLate \in BOOLEAN : FlushFrom(dn, ackLate, dataLate)
  BY DEF flushDataToClient
<1>2. dn \in Dn /\ Sent(dn) /\ FinLast(dn) /\ peer' = peer /\ peer \in Peer
  BY DEF flushDataToClient, Inv, RecordInv, EndsInv
<1>3. PICK base \in Nat : Holds(dn, peer.read, peer.iss, base)
  BY DEF flushDataToClient, StreamInv, DownStreamInv
<1>4. state' = "ESTABLISHED"
  BY DEF flushDataToClient
<1> QED
  BY <1>1, <1>2, <1>3, <1>4, FlushFromKeepsDown

\* What is read from the server's socket goes behind what is held.
LEMMA ReadKeepsDown ==
  ASSUME Inv, StreamInv, receiveFromServer
  PROVE  StreamInv'
<1> DEFINE d(n, ends) == IF ends THEN [dn EXCEPT !.ended = TRUE]
                         ELSE [dn EXCEPT !.buf = @ \o Bytes(peer.read, n)]
<1>1. PICK n \in 0..Min2(available(dn.buf), DownLen - peer.read), ends \in BOOLEAN,
           ackLate \in BOOLEAN, dataLate \in BOOLEAN :
        /\ ends => n = 0
        /\ peer' = [peer EXCEPT !.read = @ + n]
        /\ FlushFrom(d(n, ends), ackLate, dataLate)
  BY DEF receiveFromServer
<1>2. dn \in Dn /\ peer \in Peer /\ Sent(dn) /\ ~dn.sentFin /\ dn.buf \in Seq(Nat)
  BY DEF receiveFromServer, Inv, RecordInv, EndsInv, FinLast, Dn
<1>3. n \in Nat /\ peer.read \in Nat /\ Len(dn.buf) \in Nat
  BY <1>2, Session2Assumption DEF Min2, available, Peer, Dn, Inv, RecordInv
<1>4. peer' \in Peer /\ peer'.read = peer.read + n /\ peer'.iss = peer.iss
  <2>1. peer' = [peer EXCEPT !.read = peer.read + n] /\ peer.read + n \in Nat
    BY <1>1, <1>3
  <2> QED
    BY <1>2, <2>1 DEF Peer
<1>5. state' = "ESTABLISHED"
  BY DEF receiveFromServer
<1>6. PICK base \in Nat : Holds(dn, peer.read, peer.iss, base)
  BY DEF receiveFromServer, StreamInv, DownStreamInv
<1>7. CASE ends
  <2> DEFINE e == d(n, ends)
  <2>1. /\ e \in Dn /\ e.buf = dn.buf /\ e.una = dn.una /\ e.sentFin = dn.sentFin
        /\ e.next = dn.next
    BY <1>2, <1>7 DEF Dn
  <2>2. peer'.read = peer.read
    BY <1>1, <1>3, <1>4, <1>7
  <2>3. FlushFrom(e, ackLate, dataLate)
    BY <1>1
  <2> HIDE DEF e
  <2>4. Sent(e) /\ FinLast(e) /\ Holds(e, peer'.read, peer'.iss, base)
    BY <1>2, <1>4, <1>6, <2>1, <2>2 DEF Sent, FinLast, Holds
  <2> QED
    BY <1>4, <1>5, <2>1, <2>3, <2>4, FlushFromKeepsDown
<1>8. CASE ~ends
  <2> DEFINE e == d(n, ends)
             new == Bytes(peer.read, n)
             b == dn.buf \o new
  <2>1. /\ new \in Seq(Nat) /\ Len(new) = n
        /\ \A i \in 1..n : new[i] = peer.read + i - 1
    BY <1>3, BytesResult, BytesElement
  <2> HIDE DEF new
  <2>2. b \in Seq(Nat) /\ Len(b) = Len(dn.buf) + n
    BY <1>2, <2>1, AppendResult
  <2>3. e = [dn EXCEPT !.buf = b]
    BY <1>8 DEF new
  <2>4. FlushFrom(e, ackLate, dataLate)
    BY <1>1
  <2>5. base + Len(dn.buf) = peer.read /\ dn.una = Plus(Plus(peer.iss, 1), base)
    BY <1>6 DEF Holds
  <2>6. \A i \in 1..Len(b) : b[i] = base + i - 1
    <3>1. \A i \in 1..Len(dn.buf) : dn.buf[i] = base + i - 1
      BY <1>6 DEF Holds
    <3>2. \A i \in 1..Len(new) : new[i] = base + Len(dn.buf) + i - 1
      BY <2>1, <2>5
    <3> QED
      BY <1>2, <2>1, <2>2, <3>1, <3>2, ConcatElements
  <2> HIDE DEF e, b
  <2>7. /\ e \in Dn /\ e.buf = b /\ e.una = dn.una /\ e.sentFin = dn.sentFin
        /\ e.next = dn.next
    BY <1>2, <2>2, <2>3 DEF Dn
  <2>8. base + Len(b) = peer'.read
    BY <1>3, <1>4, <2>2, <2>5
  <2>9. Sent(e) /\ FinLast(e)
    <3>1. dn.next \in Nat /\ dn.next <= Len(dn.buf)
      BY <1>2 DEF Sent, Dn
    <3> QED
      BY <1>2, <1>3, <2>2, <2>7, <3>1 DEF Sent, FinLast
  <2>10. Holds(e, peer'.read, peer'.iss, base)
    BY <1>4, <2>5, <2>6, <2>7, <2>8 DEF Holds
  <2> QED
    BY <1>4, <1>5, <2>4, <2>7, <2>9, <2>10, FlushFromKeepsDown
<1> QED
  BY <1>7, <1>8

\* An acknowledgement takes its bytes off the front and moves the number up.
LEMMA AckKeepsDown ==
  ASSUME Inv, StreamInv, ~hung, state = "ESTABLISHED",
         NEW off \in Nat, acceptable(off), NEW window \in Nat
  PROVE  \E base \in Nat : Holds(acknowledged(off, window), peer.read, peer.iss, base)
<1> DEFINE ofFin == off > dn.next
           amt == IF ofFin THEN off - 1 ELSE off
           len == Len(dn.buf)
           b == compact(dn.buf, len - amt)
           una == Plus(dn.una, amt)
           e == acknowledged(off, window)
<1>1. dn \in Dn /\ Sent(dn) /\ dn.buf \in Seq(Nat) /\ len \in Nat
  BY DEF Inv, RecordInv, EndsInv, Dn
<1>2. amt \in 0..dn.next
  BY <1>1 DEF acceptable, One, Dn
<1>3. e.una = una /\ e.buf = b
  BY <1>1 DEF acknowledged, Dn
<1>4. amt \in 0..len /\ amt \in Nat /\ len - amt \in 0..len /\ len - (len - amt) = amt
  BY <1>1, <1>2 DEF Sent, Dn
<1> HIDE DEF amt, ofFin, e
<1>5. Len(b) = len - amt /\ \A i \in 1..(len - amt) : b[i] = dn.buf[amt + i]
  <2>1. Len(b) = len - amt /\ \A i \in 1..(len - amt) : b[i] = dn.buf[len - (len - amt) + i]
    BY <1>1, <1>4, CompactResult, CompactElements
  <2> QED
    BY <1>4, <2>1
<1>6. PICK base \in Nat : Holds(dn, peer.read, peer.iss, base)
  BY DEF StreamInv, DownStreamInv
<1>7. base + len = peer.read /\ dn.una = Plus(Plus(peer.iss, 1), base)
  BY <1>6 DEF Holds
<1>8. \A i \in 1..len : dn.buf[i] = base + i - 1
  BY <1>6 DEF Holds
<1> HIDE DEF b, len
<1>9. \A i \in 1..Len(b) : b[i] = (base + amt) + i - 1
  <2> SUFFICES ASSUME NEW i \in 1..Len(b)
               PROVE  b[i] = (base + amt) + i - 1
    OBVIOUS
  <2>1. i \in 1..(len - amt) /\ amt + i \in 1..len
    BY <1>1, <1>4, <1>5
  <2>2. b[i] = base + (amt + i) - 1
    BY <1>5, <1>8, <2>1
  <2> QED
    BY <1>4, <2>1, <2>2
<1>10. una = Plus(Plus(peer.iss, 1), base + amt)
  <2> DEFINE f == Plus(peer.iss, 1)
  <2>1. f \in Int
    <3>1. peer.iss \in SeqNums
      BY DEF Inv, RecordInv, Peer
    <3>2. SeqNums \subseteq Int /\ 1 \in Int
      BY Session2Assumption DEF SeqNums
    <3>3. peer.iss \in Int
      BY <3>1, <3>2, Zenon
    <3> QED
      BY <3>2, <3>3, SeqNumbers, Zenon
  <2> HIDE DEF f
  <2>2. Plus(Plus(f, base), amt) = Plus(f, base + amt)
    BY <1>4, <2>1, PlusAdds
  <2> QED
    BY <1>7, <2>2 DEF f
<1>11. base + amt \in Nat /\ (base + amt) + Len(b) = peer.read
  BY <1>1, <1>4, <1>5, <1>7
<1>12. Holds(e, peer.read, peer.iss, base + amt)
  BY <1>3, <1>9, <1>10, <1>11 DEF Holds
<1> QED
  BY <1>11, <1>12 DEF e

LEMMA SegmentKeepsDown ==
  ASSUME Inv, StreamInv, receiveSegment
  PROVE  StreamInv'
<1>1. PICK ack \in SeqNums, window \in Windows :
        /\ acceptable(ackOffset(ack))
        /\ \/ closeSession /\ UNCHANGED <<dn, peer>>
           \/ /\ dn' = acknowledged(ackOffset(ack), window)
              /\ peer'.read = peer.read /\ peer'.iss = peer.iss
              /\ UNCHANGED state
  BY DEF receiveSegment, Inv, RecordInv, Peer
<1>2. out' = {} /\ ~hung /\ state = "ESTABLISHED"
  BY DEF receiveSegment
<1>3. CASE closeSession /\ UNCHANGED <<dn, peer>>
  BY <1>2, <1>3, DownUndisturbed DEF closeSession
<1>4. CASE /\ dn' = acknowledged(ackOffset(ack), window)
           /\ peer'.read = peer.read /\ peer'.iss = peer.iss
           /\ UNCHANGED state
  <2>1. ackOffset(ack) \in Nat /\ window \in Nat
    <3>1. dn.una \in SeqNums
      BY DEF Inv, RecordInv, Dn
    <3>2. SeqNums \subseteq Nat /\ SeqNums \subseteq Int /\ window \in Nat
      BY Session2Assumption DEF SeqNums
    <3>3. dn.una \in Int /\ ack \in Int
      BY <3>1, <3>2, Zenon
    <3>4. ackOffset(ack) \in SeqNums
      BY <3>3, SeqNumbers, Zenon DEF ackOffset
    <3> QED
      BY <3>2, <3>4, Zenon
  <2>2. \E base \in Nat : Holds(dn', peer'.read, peer'.iss, base)
    BY <1>1, <1>2, <1>4, <2>1, AckKeepsDown
  <2> QED
    BY <1>2, <1>4, <2>2 DEF StreamInv, DownStreamInv, SegmentsFaithful
<1> QED
  BY <1>1, <1>3, <1>4

LEMMA DownNext ==
  ASSUME Inv, StreamInv, [Next]_vars
  PROVE  StreamInv'
<1>1. CASE flushDataToClient
  BY <1>1, FlushKeepsDown
<1>2. CASE sendsForEver \/ UNCHANGED vars
  BY <1>2, DownUndisturbed DEF sendsForEver, vars
<1>3. CASE receiveFromServer
  BY <1>3, ReadKeepsDown
<1>4. CASE connected \/ socketFails \/ timesOut \/ receiveReset
  BY <1>4, DownUndisturbed DEF connected, socketFails, timesOut, receiveReset, closeSession
<1>5. CASE flushDataToServer
  <2>1. /\ peer'.read = peer.read /\ peer'.iss = peer.iss /\ dn' = dn /\ out' = {}
        /\ state' = state \/ state' = "CLOSED"
    BY <1>5 DEF flushDataToServer, closeSession, Inv, RecordInv, Peer
  <2> QED
    BY <2>1 DEF StreamInv, DownStreamInv, SegmentsFaithful
<1>6. CASE receiveSyn
  BY <1>6, SynKeepsDown
<1>7. CASE establish
  BY <1>7, EstablishKeepsDown
<1>8. CASE receiveSegment
  BY <1>8, SegmentKeepsDown
<1> QED
  BY <1>1, <1>2, <1>3, <1>4, <1>5, <1>6, <1>7, <1>8 DEF Next

\* Whatever the client acknowledges and however often its numbers wrap, every
\* segment flushDataToClient builds has the server's bytes at its number, and a
\* FIN only behind the last of them.
THEOREM SegmentsAreFaithful == Spec => []SegmentsFaithful
<1>1. Spec => []StreamInv
  BY DownInit, DownNext, Invariance, PTL DEF Spec
<1>2. StreamInv => SegmentsFaithful
  BY DEF StreamInv
<1> QED
  BY <1>1, <1>2, PTL
=============================================================================
