-------------------------- MODULE TCPSession_upload --------------------------
(***************************************************************************)
(* The server-bound stream of a session: proofs that isUpStreamComplete    *)
(* and the shutdown of the write half come behind the last byte whatever   *)
(* the server's socket takes, that an orderly end loses nothing, and that  *)
(* the server gets the client's bytes in order while its socket takes all  *)
(* it is given.                                                            *)
(***************************************************************************)
EXTENDS TCPSession_proofs

\* Sequence numbers stay below 2^32 on the connections considered: the code
\* compares them with >= and indexes the buffer by receiveBuffer +
\* receiveUser - receiveSequence, which is pointer arithmetic.
UpNoWrap == \A isn \in ClientISNs : isn + UpLen + 3 <= Modulus

\* The sequence number of the client's first byte, and the number a FIN takes.
First == peer.isn + 1
FinNumber(r) == IF r.clientReadFinished THEN 1 ELSE 0

\* The numbers of r when up bytes have gone to the server: r holds a prefix of
\* the client's stream within its capacity, has the FIN only behind the whole
\* of it, and has consumed the FIN only behind the last byte.
NumbersInv(r, up) ==
  /\ First <= r.receiveSequence
  /\ r.receiveSequence <= r.receiveNext
  /\ r.receiveNext <= r.receiveSequence + RECEIVE_BUFFER_SIZE + FinNumber(r)
  /\ r.receiveNext <= First + peer.upTotal + FinNumber(r)
  /\ r.clientReadFinished => r.receiveNext = First + peer.upTotal + 1
  /\ \/ /\ r.receiveUser = First + up
        /\ r.receiveUser + FinNumber(r) <= r.receiveNext
     \/ /\ r.clientReadFinished
        /\ r.receiveUser = r.receiveNext
        /\ up = peer.upTotal

\* Everything stored has gone to the server; the buffer starts at or before it.
DrainedInv(r) ==
  /\ r.receiveSequence <= r.receiveUser
  /\ r.receiveNext <= r.receiveUser + FinNumber(r)

\* The inductive invariant.  Short sends disturb receiveSequence, never the
\* count of what has gone; without them every call leaves the buffer drained.
UploadInv ==
  /\ TypeOK
  /\ state # "CLOSED" =>
       /\ peer.isn \in ClientISNs
       /\ NumbersInv(rcv, peer.up)
       /\ ~peer.short => DrainedInv(rcv)
  /\ peer.shutdown => peer.up = peer.upTotal
  /\ ~peer.short => \A w \in wrote : w[1] = w[2]

-----------------------------------------------------------------------------
(* The numbers *)

\* The types of what NumbersInv speaks of, and that First and the number
\* behind the FIN do not wrap.
NumbersOK(r) ==
  /\ r.receiveSequence \in SeqNums
  /\ r.receiveUser \in SeqNums
  /\ r.receiveNext \in SeqNums
  /\ r.clientReadFinished \in BOOLEAN
  /\ peer.isn \in Nat
  /\ peer.upTotal \in Nat
  /\ RECEIVE_BUFFER_SIZE \in SeqNums
  /\ First + peer.upTotal + 1 < Modulus
  /\ Modulus \in Nat

LEMMA NumbersTyped ==
  ASSUME TypeOK, UpNoWrap, peer.isn \in ClientISNs, NEW r \in ReceiveFields
  PROVE  NumbersOK(r)
<1>1. /\ peer.isn + UpLen + 3 <= Modulus
      /\ peer.isn \in SeqNums
      /\ peer.upTotal \in 0..UpLen
  BY DEF UpNoWrap, TypeOK, Peers
<1>2. /\ r.receiveSequence \in SeqNums
      /\ r.receiveUser \in SeqNums
      /\ r.receiveNext \in SeqNums
      /\ r.clientReadFinished \in BOOLEAN
  BY DEF ReceiveFields
<1>3. UpLen \in Nat /\ Modulus \in Nat /\ RECEIVE_BUFFER_SIZE \in 1..(Modulus - 1)
  BY SessionAssumption
<1> QED
  BY <1>1, <1>2, <1>3 DEF NumbersOK, First, SeqNums

\* isUpStreamComplete is right about what has gone to the server.
LEMMA CompleteMeansGone ==
  ASSUME NEW r, NEW up \in Nat, NumbersOK(r), NumbersInv(r, up),
         isUpStreamComplete(r)
  PROVE  r.clientReadFinished /\ up = peer.upTotal
<1>1. r.clientReadFinished /\ r.receiveUser >= Minus(r.receiveNext, 1)
  BY DEF isUpStreamComplete
<1>2. r.receiveNext = First + peer.upTotal + 1
  BY <1>1 DEF NumbersInv
<1>3. Minus(r.receiveNext, 1) = First + peer.upTotal
  BY <1>2 DEF Minus, NumbersOK, First, SeqNums
<1> QED
  BY <1>1, <1>2, <1>3 DEF NumbersInv, NumbersOK, FinNumber, First, SeqNums

\* What flushDataToServer asks send to take, when it gets as far as that.
LEMMA UnflushedValue ==
  ASSUME NEW r, NEW up \in Nat, NumbersOK(r), NumbersInv(r, up),
         ~isUpStreamComplete(r)
  PROVE  /\ Unflushed(r) = r.receiveNext - r.receiveUser - FinNumber(r)
         /\ r.receiveUser = First + up
         /\ r.receiveUser + FinNumber(r) <= r.receiveNext
<1>1. r.clientReadFinished => ~(r.receiveUser >= Minus(r.receiveNext, 1))
  BY DEF isUpStreamComplete
<1>2. /\ r.receiveUser = First + up
      /\ r.receiveUser + FinNumber(r) <= r.receiveNext
  <2>1. CASE r.clientReadFinished /\ r.receiveUser = r.receiveNext
    BY <1>1, <2>1 DEF NumbersInv, NumbersOK, Minus, First, SeqNums
  <2> QED
    BY <2>1 DEF NumbersInv
<1>3. Minus(r.receiveNext, r.receiveUser) = r.receiveNext - r.receiveUser
  BY <1>2 DEF Minus, NumbersOK, FinNumber, SeqNums
<1>4. Minus(r.receiveNext - r.receiveUser, FinNumber(r))
        = r.receiveNext - r.receiveUser - FinNumber(r)
  BY <1>2 DEF Minus, NumbersOK, FinNumber, SeqNums
<1> QED
  BY <1>2, <1>3, <1>4 DEF Unflushed, FinNumber

-----------------------------------------------------------------------------
(* flushDataToServer *)

\* What a flush of r, with up bytes gone before it, leaves behind: it advances
\* the count of bytes by what send took and moves neither receiveNext nor the
\* FIN; it closes the session only after a failed send, for which the client
\* is reset, or behind the last byte, as it shuts the write half down.
FlushInv(f, r, up) ==
  /\ f.took \in Nat
  /\ NumbersInv(f.rcv, up + f.took)
  /\ f.rcv.receiveNext = r.receiveNext
  /\ f.rcv.clientReadFinished = r.clientReadFinished
  /\ f.closed => \/ f.out = Control("RST")
                 \/ r.clientReadFinished /\ up + f.took = peer.upTotal
  /\ f.shutdown => up + f.took = peer.upTotal
  /\ r.receiveSequence <= r.receiveUser /\ ~f.short /\ ~f.closed => DrainedInv(f.rcv)

\* _trimReceiveBuffer may spoil receiveSequence, but not beyond receiveNext,
\* and not at all once everything has gone.
LEMMA TrimNumbers ==
  ASSUME NEW r \in ReceiveFields, NEW up \in Nat, NumbersOK(r), NumbersInv(r, up),
         NEW t \in {_trimReceiveBuffer(r), trimReceiveBuffer(r), r}
  PROVE  /\ NumbersInv(t, up)
         /\ t.receiveNext = r.receiveNext
         /\ t.receiveUser = r.receiveUser
         /\ t.clientReadFinished = r.clientReadFinished
         /\ DrainedInv(r) /\ r.receiveNext <= r.receiveUser => DrainedInv(t)
<1>1. CASE t = r
  BY <1>1
<1>2. CASE t # r
  <2> DEFINE buf == shiftElements(r.receiveBuffer,
                      Minus(r.receiveUser, r.receiveSequence),
                      Minus(r.receiveNext, r.receiveUser))
  <2>1. t = [r EXCEPT !.receiveBuffer = buf, !.receiveSequence = r.receiveNext]
    BY <1>2 DEF _trimReceiveBuffer, trimReceiveBuffer
  <2> HIDE DEF buf
  <2>2. /\ t.receiveSequence = r.receiveNext
        /\ t.receiveNext = r.receiveNext
        /\ t.receiveUser = r.receiveUser
        /\ t.clientReadFinished = r.clientReadFinished
    BY <2>1 DEF ReceiveFields
  <2> QED
    BY <2>2 DEF NumbersInv, DrainedInv, NumbersOK, FinNumber, First, SeqNums
<1> QED
  BY <1>1, <1>2

LEMMA SentNumbers ==
  ASSUME NEW r \in ReceiveFields, NEW up \in Nat, NumbersOK(r), NumbersInv(r, up),
         ~isUpStreamComplete(r), NEW s, NEW n \in 1..Unflushed(r)
  PROVE  FlushInv(sentToServer(r, s, n, up), r, up)
<1> DEFINE r1 == [r EXCEPT !.receiveUser = Plus(@, n)]
<1> DEFINE r2 == [r1 EXCEPT !.receiveUser = Plus(@, 1)]
<1> DEFINE r3 == IF r.clientReadFinished THEN r1 ELSE trimReceiveBuffer(r1)
<1> DEFINE last == r.clientReadFinished /\ r1.receiveUser = Minus(r.receiveNext, 1)
<1>1. /\ Unflushed(r) = r.receiveNext - r.receiveUser - FinNumber(r)
      /\ r.receiveUser = First + up
      /\ r.receiveUser + FinNumber(r) <= r.receiveNext
  BY UnflushedValue
<1>2. /\ n \in Nat
      /\ n \in SeqNums
      /\ r.receiveUser + n + FinNumber(r) <= r.receiveNext
      /\ Plus(r.receiveUser, n) = r.receiveUser + n
  BY <1>1 DEF Plus, NumbersOK, FinNumber, SeqNums
<1>3. /\ r1 \in ReceiveFields
      /\ r1.receiveUser = r.receiveUser + n
      /\ r1.receiveNext = r.receiveNext
      /\ r1.receiveSequence = r.receiveSequence
      /\ r1.clientReadFinished = r.clientReadFinished
  BY <1>2, AdvanceType DEF ReceiveFields
<1> HIDE DEF r1
<1>4. NumbersOK(r1) /\ NumbersInv(r1, up + n) /\ up + n \in Nat
  BY <1>1, <1>2, <1>3 DEF NumbersOK, NumbersInv, FinNumber, First, ReceiveFields
<1>5. CASE last
  <2>1. /\ r.clientReadFinished
        /\ FinNumber(r) = 1
        /\ r.receiveNext = First + peer.upTotal + 1
    BY <1>5 DEF NumbersInv, FinNumber
  <2>2. /\ r.receiveUser + n + 1 = r.receiveNext
        /\ up + n = peer.upTotal
        /\ Plus(r1.receiveUser, 1) = r.receiveNext
    BY <1>1, <1>2, <1>3, <1>5, <2>1 DEF Minus, Plus, NumbersOK, First, SeqNums
  <2>3. /\ r2.receiveUser = r.receiveNext
        /\ r2.receiveNext = r.receiveNext
        /\ r2.receiveSequence = r.receiveSequence
        /\ r2.clientReadFinished
    BY <1>3, <2>1, <2>2 DEF ReceiveFields
  <2> HIDE DEF r2
  <2>4. NumbersInv(r2, up + n) /\ DrainedInv(r2)
    <3>1. FinNumber(r2) = 1
      BY <2>3 DEF FinNumber
    <3> QED
      BY <2>1, <2>2, <2>3, <3>1 DEF NumbersInv, DrainedInv, NumbersOK, SeqNums
  <2>5. sentToServer(r, s, n, up) =
          Flushed(r2, n, Taken(r, n, up), FALSE, {}, isDownStreamComplete(s),
                  ~isDownStreamComplete(s))
    BY <1>5 DEF sentToServer, r1, r2
  <2> HIDE DEF last
  <2> DEFINE f == sentToServer(r, s, n, up)
  <2>6. f.took = n /\ f.rcv = r2
    BY <2>5 DEF Flushed
  <2> HIDE DEF f
  <2> QED
    BY <1>2, <2>1, <2>2, <2>3, <2>4, <2>6 DEF FlushInv, f
<1>6. CASE ~last
  <2>1. n < Unflushed(r) \/ (r.receiveUser + n = r.receiveNext /\ ~r.clientReadFinished)
    <3>1. CASE r.clientReadFinished
      <4>1. FinNumber(r) = 1 /\ r1.receiveUser # Minus(r.receiveNext, 1)
        BY <1>6, <3>1 DEF FinNumber
      <4> QED
        BY <1>1, <1>2, <1>3, <4>1 DEF Minus, NumbersOK, SeqNums
    <3>2. CASE ~r.clientReadFinished
      <4>1. FinNumber(r) = 0
        BY <3>2 DEF FinNumber
      <4> QED
        BY <1>1, <1>2, <3>2, <4>1 DEF NumbersOK, SeqNums
    <3> QED
      BY <3>1, <3>2
  <2>2. r3 \in {_trimReceiveBuffer(r1), trimReceiveBuffer(r1), r1}
    OBVIOUS
  <2> HIDE DEF r3
  <2>3. /\ NumbersInv(r3, up + n)
        /\ r3.receiveNext = r1.receiveNext
        /\ r3.clientReadFinished = r1.clientReadFinished
        /\ DrainedInv(r1) /\ r1.receiveNext <= r1.receiveUser => DrainedInv(r3)
    BY <1>3, <1>4, <2>2, TrimNumbers
  <2>4. r.receiveSequence <= r.receiveUser /\ ~(n < Unflushed(r)) => DrainedInv(r3)
    <3> SUFFICES ASSUME r.receiveSequence <= r.receiveUser, ~(n < Unflushed(r))
                 PROVE  DrainedInv(r1) /\ r1.receiveNext <= r1.receiveUser
      BY <2>3
    <3>1. FinNumber(r1) = 0 /\ r.receiveUser + n = r.receiveNext
      BY <1>3, <2>1 DEF FinNumber
    <3> QED
      BY <1>2, <1>3, <3>1 DEF DrainedInv, NumbersOK, SeqNums
  <2>5. sentToServer(r, s, n, up) =
          Flushed(r3, n, Taken(r, n, up), n < Unflushed(r), {}, FALSE, FALSE)
    BY <1>6 DEF sentToServer, r1, r3
  <2> HIDE DEF last
  <2> DEFINE f == sentToServer(r, s, n, up)
  <2>6. /\ f.took = n
        /\ f.rcv = r3
        /\ f.short = (n < Unflushed(r))
        /\ f.closed = FALSE
        /\ f.shutdown = FALSE
    BY <2>5 DEF Flushed
  <2> HIDE DEF f
  <2> QED
    BY <1>2, <1>3, <2>3, <2>4, <2>6 DEF FlushInv, f
<1> QED
  BY <1>5, <1>6

LEMMA FlushNumbers ==
  ASSUME NEW r \in ReceiveFields, NEW up \in Nat, NumbersOK(r), NumbersInv(r, up),
         NEW s, NEW f \in flushDataToServer(r, s, up)
  PROVE  FlushInv(f, r, up)
<1>1. up + 0 = up
  OBVIOUS
<1>2. FlushInv(Flushed(r, 0, {}, FALSE, Control("RST"), TRUE, FALSE), r, up)
  BY <1>1 DEF FlushInv, Flushed
<1>3. FlushInv(Flushed(r, 0, {}, TRUE, {}, FALSE, FALSE), r, up)
  BY <1>1 DEF FlushInv, Flushed
<1>4. ASSUME isUpStreamComplete(r) \/ Unflushed(r) = 0
      PROVE  FlushInv(noFlush(r), r, up)
  <2>1. r.receiveNext <= r.receiveUser + FinNumber(r)
    <3>1. CASE isUpStreamComplete(r)
      BY <3>1 DEF isUpStreamComplete, NumbersInv, NumbersOK, Minus, FinNumber, First, SeqNums
    <3>2. CASE ~isUpStreamComplete(r)
      <4>1. r.receiveNext - r.receiveUser - FinNumber(r) = 0
        BY <1>4, <3>2, UnflushedValue
      <4> QED
        BY <4>1 DEF NumbersOK, FinNumber, SeqNums
    <3> QED
      BY <3>1, <3>2
  <2> QED
    BY <1>1, <2>1 DEF FlushInv, noFlush, Flushed, DrainedInv
<1>5. ASSUME ~isUpStreamComplete(r), NEW n \in SendResults(Unflushed(r)),
             n # Failed, n # WouldBlock
      PROVE  FlushInv(sentToServer(r, s, n, up), r, up)
  BY <1>5, SentNumbers DEF SendResults
<1> QED
  BY <1>2, <1>3, <1>4, <1>5 DEF flushDataToServer

\* No more has gone than the client sent.
LEMMA GoneBound ==
  ASSUME NEW r, NEW up \in Nat, NumbersOK(r), NumbersInv(r, up)
  PROVE  up <= peer.upTotal
BY DEF NumbersInv, NumbersOK, FinNumber, First, SeqNums

\* send is given the bytes that follow the up bytes that went before.
LEMMA TakenBytes ==
  ASSUME NEW r \in ReceiveFields, NEW up \in Nat, NEW s,
         \A i \in 0..(Unflushed(r) - 1) :
           ReadAt(r.receiveBuffer, r.receiveUser - r.receiveSequence + i) = up + i,
         NEW f \in flushDataToServer(r, s, up), NEW w \in f.wrote
  PROVE  w[1] = w[2]
<1>1. PICK n \in 1..Unflushed(r) : w \in Taken(r, n, up)
  <2>1. ASSUME NEW n
        PROVE  sentToServer(r, s, n, up).wrote = Taken(r, n, up)
    BY DEF sentToServer, Flushed
  <2>2. PICK n \in SendResults(Unflushed(r)) :
          /\ n # Failed /\ n # WouldBlock
          /\ f = sentToServer(r, s, n, up)
    BY DEF flushDataToServer, noFlush, Flushed
  <2> QED
    BY <2>1, <2>2 DEF SendResults
<1>2. PICK i \in 0..(n - 1) :
        w = <<up + i, ReadAt(r.receiveBuffer, r.receiveUser - r.receiveSequence + i)>>
  BY <1>1 DEF Taken
<1>3. i \in 0..(Unflushed(r) - 1)
  BY UnflushedType, <1>1, <1>2 DEF SeqNums
<1> QED
  BY <1>2, <1>3

-----------------------------------------------------------------------------
(* storeSegment *)

\* getReceiveAvailable is the room behind the data, although both of its
\* intermediate values may wrap.
LEMMA ReceiveAvailableValue ==
  ASSUME NEW r, NEW up \in Nat, NumbersOK(r), NumbersInv(r, up), ~r.clientReadFinished
  PROVE  /\ getReceiveAvailable(r)
              = r.receiveSequence + RECEIVE_BUFFER_SIZE - r.receiveNext
         /\ getReceiveAvailable(r) \in Nat
<1>1. FinNumber(r) = 0
  BY DEF FinNumber
<1>2. /\ r.receiveSequence <= r.receiveNext
      /\ r.receiveNext <= r.receiveSequence + RECEIVE_BUFFER_SIZE
  BY <1>1 DEF NumbersInv, NumbersOK, SeqNums
<1> QED
  BY <1>2 DEF getReceiveAvailable, Plus, Minus, NumbersOK, SeqNums

\* The next segment of the client's stream takes its place in the buffer.  When
\* nothing else waits there, a flush finds exactly its bytes.
LEMMA StoredNumbers ==
  ASSUME TypeOK, NEW r \in ReceiveFields, NEW up \in Nat, NumbersOK(r),
         NumbersInv(r, up), ~r.clientReadFinished, NEW len \in Nat, NEW fin \in BOOLEAN,
         len = 0 \/ r.receiveNext + len <= First + peer.upTotal,
         fin => r.receiveNext + len = First + peer.upTotal
  PROVE  /\ NumbersInv(storeSegment(r, len, fin), up)
         /\ DrainedInv(r) =>
              LET q == storeSegment(r, len, fin)
              IN /\ q.receiveSequence <= q.receiveUser
                 /\ \A i \in 0..(Unflushed(q) - 1) :
                      ReadAt(q.receiveBuffer, q.receiveUser - q.receiveSequence + i) = up + i
<1> DEFINE total == Min2(len, getReceiveAvailable(r))
<1> DEFINE off == Minus(r.receiveNext, r.receiveSequence)
<1> DEFINE k == Minus(r.receiveNext, Plus(peer.isn, 1))
<1> DEFINE buf == StoreBytes(r.receiveBuffer, off, k, total)
<1> DEFINE stored == [r EXCEPT !.receiveBuffer = buf, !.receiveNext = Plus(@, total)]
<1> DEFINE q == storeSegment(r, len, fin)
<1>1. FinNumber(r) = 0
  BY DEF FinNumber
<1>2. /\ r.receiveSequence \in Nat /\ r.receiveNext \in Nat /\ r.receiveUser \in Nat
      /\ First \in Nat /\ peer.upTotal \in Nat /\ Modulus \in Nat
      /\ RECEIVE_BUFFER_SIZE \in Nat
      /\ First + peer.upTotal + 1 < Modulus
  BY DEF NumbersOK, First, SeqNums
<1>3. /\ First <= r.receiveSequence
      /\ r.receiveSequence <= r.receiveNext
      /\ r.receiveNext <= First + peer.upTotal
      /\ r.receiveUser = First + up
      /\ r.receiveUser <= r.receiveNext
  BY <1>1, <1>2 DEF NumbersInv
<1>4. /\ total \in Nat
      /\ total <= len
      /\ r.receiveNext + total <= r.receiveSequence + RECEIVE_BUFFER_SIZE
  <2>1. /\ getReceiveAvailable(r) = r.receiveSequence + RECEIVE_BUFFER_SIZE - r.receiveNext
        /\ getReceiveAvailable(r) \in Nat
    BY ReceiveAvailableValue
  <2> QED
    BY <1>2, <2>1 DEF Min2
<1> HIDE DEF total
<1>5. r.receiveNext + total <= First + peer.upTotal
  BY <1>2, <1>3, <1>4
<1>6. /\ off = r.receiveNext - r.receiveSequence
      /\ k = r.receiveNext - First
      /\ Plus(r.receiveNext, total) = r.receiveNext + total
      /\ Plus(r.receiveNext + total, 1) = r.receiveNext + total + 1
  BY <1>2, <1>3, <1>4, <1>5 DEF Minus, Plus, First, NumbersOK
<1> HIDE DEF off, k, buf
<1>7. /\ stored \in ReceiveFields
      /\ stored.receiveSequence = r.receiveSequence
      /\ stored.receiveUser = r.receiveUser
      /\ stored.receiveNext = r.receiveNext + total
      /\ stored.receiveBuffer = buf
      /\ stored.clientReadFinished = FALSE
  <2>1. storeSegment(r, len, FALSE) = stored
    BY DEF storeSegment, total, off, k, buf
  <2>2. storeSegment(r, len, FALSE) \in ReceiveFields
    BY StoreSegmentType
  <2>3. stored \in ReceiveFields
    BY <2>1, <2>2
  <2> QED
    BY <1>6, <2>3 DEF ReceiveFields
<1>8. q = IF fin /\ total = len
          THEN [stored EXCEPT !.receiveNext = Plus(@, 1), !.clientReadFinished = TRUE]
          ELSE stored
  BY DEF storeSegment, total, off, k, buf
<1> HIDE DEF q, stored
<1>9. /\ q.receiveSequence = r.receiveSequence
      /\ q.receiveUser = r.receiveUser
      /\ q.receiveBuffer = buf
  BY <1>7, <1>8
<1>10. \/ q.receiveNext = r.receiveNext + total /\ q.clientReadFinished = FALSE
       \/ /\ q.receiveNext = r.receiveNext + total + 1
          /\ q.clientReadFinished = TRUE
          /\ r.receiveNext + total = First + peer.upTotal
  BY <1>4, <1>6, <1>7, <1>8 DEF ReceiveFields
<1>11. NumbersInv(q, up)
  <2>1. CASE q.clientReadFinished = FALSE
    <3>1. FinNumber(q) = 0 /\ q.receiveNext = r.receiveNext + total
      BY <1>10, <2>1 DEF FinNumber
    <3> QED
      BY <1>2, <1>3, <1>4, <1>5, <1>9, <2>1, <3>1 DEF NumbersInv
  <2>2. CASE q.clientReadFinished = TRUE
    <3>1. /\ FinNumber(q) = 1
          /\ q.receiveNext = r.receiveNext + total + 1
          /\ r.receiveNext + total = First + peer.upTotal
      BY <1>10, <2>2 DEF FinNumber
    <3> QED
      BY <1>2, <1>3, <1>4, <1>9, <2>2, <3>1 DEF NumbersInv
  <2> QED
    BY <1>10, <2>1, <2>2
<1>12. ASSUME DrainedInv(r)
       PROVE  /\ q.receiveSequence <= q.receiveUser
              /\ \A i \in 0..(Unflushed(q) - 1) :
                   ReadAt(q.receiveBuffer, q.receiveUser - q.receiveSequence + i) = up + i
  <2>1. r.receiveUser = r.receiveNext /\ r.receiveSequence <= r.receiveUser
    BY <1>1, <1>2, <1>3, <1>12 DEF DrainedInv
  <2>2. Unflushed(q) = total
    <3>1. Minus(q.receiveNext, q.receiveUser) = total + FinNumber(q)
      BY <1>2, <1>4, <1>9, <1>10, <2>1 DEF Minus, FinNumber
    <3>2. FinNumber(q) \in Nat /\ Minus(total + FinNumber(q), FinNumber(q)) = total
      BY <1>4 DEF Minus, FinNumber
    <3> QED
      BY <3>1, <3>2 DEF Unflushed, FinNumber
  <2>3. ASSUME NEW i \in 0..(total - 1)
        PROVE  ReadAt(buf, off + i) = up + i
    <3>1. /\ off + i \in 0..(RECEIVE_BUFFER_SIZE - 1)
          /\ off <= off + i
          /\ off + i < off + total
          /\ k + ((off + i) - off) = up + i
      BY <1>2, <1>3, <1>4, <1>6, <2>1
    <3>2. DOMAIN r.receiveBuffer = 0..(RECEIVE_BUFFER_SIZE - 1)
      BY DEF ReceiveFields
    <3> QED
      BY <3>1, <3>2 DEF ReadAt, StoreBytes, buf
  <2>4. q.receiveUser - q.receiveSequence = off
    BY <1>6, <1>9, <2>1
  <2> QED
    BY <1>9, <2>1, <2>2, <2>3, <2>4
<1> QED
  BY <1>11, <1>12 DEF q

-----------------------------------------------------------------------------
(* The steps of the up stream thread on an established session *)

\* What a call does to the stream: it leaves the fields r, hands took bytes, the
\* pairs w, to the server, sends the packets in sent, and closes only after a
\* failed send or behind the client's last byte.
EffectInv(r, took, w, short, shuts, closes, sent) ==
  /\ took \in Nat
  /\ peer.up + took <= peer.upTotal
  /\ ~closes => /\ NumbersInv(r, peer.up + took)
                /\ ~peer.short /\ ~short => DrainedInv(r)
  /\ shuts => peer.up + took = peer.upTotal
  /\ ~peer.short /\ ~short => \A x \in w : x[1] = x[2]
  /\ closes => \/ Control("RST") \subseteq sent
               \/ r.clientReadFinished /\ peer.up + took = peer.upTotal

\* A session that closes has reset the client or lost nothing.
KeepsUpload ==
  state' = "CLOSED" => \/ \E g \in out' : g.kind = "RST"
                       \/ rcv'.clientReadFinished /\ peer'.up = peer'.upTotal

LEMMA EffectStep ==
  ASSUME UploadInv, TypeOK', state = "ESTABLISHED",
         NEW r, NEW took, NEW w, NEW short \in BOOLEAN, NEW shuts \in BOOLEAN,
         NEW closes \in BOOLEAN, NEW sent,
         EffectInv(r, took, w, short, shuts, closes, sent),
         rcv'.receiveSequence = r.receiveSequence,
         rcv'.receiveUser = r.receiveUser,
         rcv'.receiveNext = r.receiveNext,
         rcv'.clientReadFinished = r.clientReadFinished,
         peer'.up = peer.up + took,
         peer'.upTotal = peer.upTotal,
         peer'.isn = peer.isn,
         peer'.shutdown <=> peer.shutdown \/ shuts,
         peer'.short <=> peer.short \/ short,
         state' = IF closes THEN "CLOSED" ELSE state,
         sent \subseteq out', wrote' = w
  PROVE  UploadInv' /\ KeepsUpload
<1>1. peer.up \in Nat /\ peer.upTotal \in Nat
  BY SessionAssumption DEF UploadInv, TypeOK, Peers
<1>2. peer.up + took = peer.upTotal => peer'.up = peer'.upTotal
  OBVIOUS
<1>3. peer'.shutdown => peer'.up = peer'.upTotal
  <2>1. CASE peer.shutdown
    <3>1. peer.up = peer.upTotal
      BY <2>1 DEF UploadInv
    <3> QED
      BY <1>1, <1>2, <3>1 DEF EffectInv
  <2>2. CASE shuts
    BY <1>2, <2>2 DEF EffectInv
  <2> QED
    BY <2>1, <2>2
<1>4. ~peer'.short => \A x \in wrote' : x[1] = x[2]
  BY DEF EffectInv
<1>5. ASSUME state' # "CLOSED"
      PROVE  /\ (peer.isn \in ClientISNs)'
             /\ NumbersInv(rcv, peer.up)'
             /\ ~peer'.short => DrainedInv(rcv)'
  <2>1. /\ NumbersInv(r, peer.up + took)
        /\ ~peer'.short => DrainedInv(r)
    BY <1>5 DEF EffectInv
  <2>2. NumbersInv(rcv, peer.up)'
    BY <2>1 DEF NumbersInv, First, FinNumber
  <2>3. DrainedInv(r) => DrainedInv(rcv)'
    BY DEF DrainedInv, FinNumber
  <2> QED
    BY <2>1, <2>2, <2>3 DEF UploadInv
<1>6. KeepsUpload
  <2> SUFFICES ASSUME closes
               PROVE  \/ \E g \in out' : g.kind = "RST"
                      \/ rcv'.clientReadFinished /\ peer'.up = peer'.upTotal
    BY DEF KeepsUpload
  <2>1. CASE Control("RST") \subseteq sent
    <3>1. Packet("RST", 0, <<>>, FALSE) \in out'
      BY <2>1 DEF Control
    <3> QED
      BY <3>1 DEF Packet
  <2> QED
    BY <1>2, <2>1 DEF EffectInv
<1> QED
  BY <1>3, <1>4, <1>5, <1>6 DEF UploadInv

\* While every send has taken all, the Handler's flush finds nothing to send.
LEMMA DrainedBytes ==
  ASSUME NEW r \in ReceiveFields, NEW up \in Nat, NumbersOK(r), NumbersInv(r, up),
         DrainedInv(r), NEW s, NEW f \in flushDataToServer(r, s, up)
  PROVE  f.wrote = {}
<1>1. isUpStreamComplete(r) \/ Unflushed(r) = 0
  <2> SUFFICES ASSUME ~isUpStreamComplete(r)
               PROVE  Unflushed(r) = 0
    OBVIOUS
  <2>1. /\ Unflushed(r) = r.receiveNext - r.receiveUser - FinNumber(r)
        /\ r.receiveUser + FinNumber(r) <= r.receiveNext
    BY UnflushedValue
  <2> QED
    BY <2>1 DEF DrainedInv, NumbersOK, FinNumber, SeqNums
<1> QED
  BY <1>1 DEF flushDataToServer, noFlush, Flushed

LEMMA FlushUpload ==
  ASSUME UpNoWrap, UploadInv, TypeOK', flushToServer
  PROVE  UploadInv' /\ KeepsUpload
<1>1. /\ state = "ESTABLISHED"
      /\ TypeOK
      /\ rcv \in ReceiveFields
      /\ peer.up \in Nat
      /\ peer.isn \in ClientISNs
      /\ NumbersInv(rcv, peer.up)
      /\ ~peer.short => DrainedInv(rcv)
  BY DEF flushToServer, UploadInv, TypeOK, Peers
<1>2. NumbersOK(rcv)
  BY <1>1, NumbersTyped
<1>3. PICK f \in flushDataToServer(rcv, snd, peer.up) :
        /\ rcv' = f.rcv
        /\ out' = f.out
        /\ wrote' = f.wrote
        /\ peer' = [peer EXCEPT !.up = @ + f.took, !.shutdown = @ \/ f.shutdown,
                                !.short = @ \/ f.short]
        /\ closeSession(f.closed, inReceiveSet)
  BY DEF flushToServer
<1>4. FlushInv(f, rcv, peer.up) /\ FlushOK(f)
  BY <1>1, <1>2, FlushNumbers, FlushType
<1>5. f.rcv \in ReceiveFields /\ NumbersOK(f.rcv) /\ peer.up + f.took \in Nat
  BY <1>1, <1>4, NumbersTyped DEF FlushOK
<1>6. EffectInv(f.rcv, f.took, f.wrote, f.short, f.shutdown, f.closed, f.out)
  <2>1. peer.up + f.took <= peer.upTotal
    BY <1>4, <1>5, GoneBound DEF FlushInv
  <2>2. ~peer.short => f.wrote = {}
    BY <1>1, <1>2, DrainedBytes
  <2>3. f.closed => \/ Control("RST") \subseteq f.out
                    \/ f.rcv.clientReadFinished /\ peer.up + f.took = peer.upTotal
    BY <1>4 DEF FlushInv
  <2>4. ~peer.short => rcv.receiveSequence <= rcv.receiveUser
    BY <1>1 DEF DrainedInv
  <2> QED
    BY <1>4, <2>1, <2>2, <2>3, <2>4 DEF EffectInv, FlushInv
<1>7. /\ f.closed \in BOOLEAN /\ f.short \in BOOLEAN /\ f.shutdown \in BOOLEAN
      /\ state' = IF f.closed THEN "CLOSED" ELSE state
  BY <1>3, <1>4 DEF closeSession, FlushOK
<1>8. /\ peer'.up = peer.up + f.took
      /\ peer'.upTotal = peer.upTotal
      /\ peer'.isn = peer.isn
      /\ peer'.shutdown <=> peer.shutdown \/ f.shutdown
      /\ peer'.short <=> peer.short \/ f.short
  BY <1>1, <1>3 DEF TypeOK, Peers
<1>9. f.out \subseteq out' /\ wrote' = f.wrote /\ rcv' = f.rcv
  BY <1>3
<1> QED
  BY <1>1, <1>6, <1>7, <1>8, <1>9, EffectStep

\* The fields of a flush's outcome are those that Flushed names.
FlushShape(f) ==
  f = Flushed(f.rcv, f.took, f.wrote, f.short, f.out, f.closed, f.shutdown)

LEMMA FlushHasShape ==
  ASSUME NEW r, NEW s, NEW up, NEW f \in flushDataToServer(r, s, up)
  PROVE  FlushShape(f)
<1>1. ASSUME NEW a, NEW b, NEW c, NEW d, NEW e, NEW g, NEW h
      PROVE  FlushShape(Flushed(a, b, c, d, e, g, h))
  BY DEF FlushShape, Flushed
<1>2. ASSUME NEW n
      PROVE  FlushShape(sentToServer(r, s, n, up))
  <2> DEFINE r1 == [r EXCEPT !.receiveUser = Plus(@, n)]
  <2> DEFINE last == r.clientReadFinished /\ r1.receiveUser = Minus(r.receiveNext, 1)
  <2> HIDE DEF r1
  <2>1. CASE last
    BY <1>1, <2>1, Zenon DEF sentToServer, r1
  <2>2. CASE ~last
    BY <1>1, <2>2, Zenon DEF sentToServer, r1
  <2> QED
    BY <2>1, <2>2
<1>3. CASE f = noFlush(r)
  BY <1>1, <1>3, Zenon DEF noFlush
<1>4. CASE f # noFlush(r)
  <2>1. PICK n \in SendResults(Unflushed(r)) :
          \/ f = Flushed(r, 0, {}, FALSE, Control("RST"), TRUE, FALSE)
          \/ f = Flushed(r, 0, {}, TRUE, {}, FALSE, FALSE)
          \/ f = sentToServer(r, s, n, up)
    BY <1>4 DEF flushDataToServer
  <2> QED
    BY <1>1, <1>2, <2>1, Zenon
<1> QED
  BY <1>3, <1>4

\* What makeRoom leaves, before the client's FIN.
RoomInv(f) ==
  /\ FlushOK(f)
  /\ NumbersInv(f.rcv, peer.up + f.took)
  /\ f.rcv.receiveNext = rcv.receiveNext
  /\ f.rcv.clientReadFinished = FALSE
  /\ f.closed => Control("RST") \subseteq f.out
  /\ ~peer.short => f.wrote = {}
  /\ ~peer.short /\ ~f.short /\ ~f.closed => DrainedInv(f.rcv)

LEMMA RoomNumbers ==
  ASSUME UpNoWrap, UploadInv, state = "ESTABLISHED", ~rcv.clientReadFinished,
         NEW s, NEW len \in Nat, NEW f \in makeRoom(s, len)
  PROVE  RoomInv(f)
<1>1. /\ TypeOK
      /\ rcv \in ReceiveFields
      /\ peer.up \in Nat
      /\ peer.isn \in ClientISNs
      /\ NumbersInv(rcv, peer.up)
      /\ ~peer.short => DrainedInv(rcv)
      /\ rcv.clientReadFinished = FALSE
  BY DEF UploadInv, TypeOK, Peers, ReceiveFields
<1>2. NumbersOK(rcv)
  BY <1>1, NumbersTyped
<1>3. CASE f = noFlush(rcv)
  <2>1. /\ f.rcv = rcv /\ f.took = 0 /\ f.wrote = {} /\ f.short = FALSE
        /\ f.closed = FALSE /\ f.shutdown = FALSE
    BY <1>3 DEF noFlush, Flushed
  <2>2. peer.up + f.took = peer.up
    BY <1>1, <2>1
  <2>3. FlushOK(f)
    BY <1>1, <1>3 DEF FlushOK, noFlush, Flushed
  <2>4. NumbersInv(f.rcv, peer.up + f.took) /\ (~peer.short => DrainedInv(f.rcv))
    BY <1>1, <2>1, <2>2, Zenon
  <2> QED
    BY <1>1, <2>1, <2>3, <2>4 DEF RoomInv
<1>4. CASE f # noFlush(rcv)
  <2>1. PICK g \in flushDataToServer(rcv, s, peer.up) :
          f = [g EXCEPT !.rcv = _trimReceiveBuffer(@)]
    <3>1. f \in {[g EXCEPT !.rcv = _trimReceiveBuffer(@)] :
                   g \in flushDataToServer(rcv, s, peer.up)}
      BY <1>4, Zenon DEF makeRoom
    <3> QED
      BY <3>1
  <2>2. FlushInv(g, rcv, peer.up) /\ FlushOK(g)
    BY <1>1, <1>2, FlushNumbers, FlushType
  <2>3. /\ g.rcv \in ReceiveFields
        /\ NumbersOK(g.rcv)
        /\ peer.up + g.took \in Nat
        /\ NumbersInv(g.rcv, peer.up + g.took)
    BY <1>1, <2>2, NumbersTyped DEF FlushOK, FlushInv
  <2>4. ~peer.short => g.wrote = {}
    BY <1>1, <1>2, DrainedBytes
  <2> DEFINE t == _trimReceiveBuffer(g.rcv)
  <2>5. t \in {_trimReceiveBuffer(g.rcv), trimReceiveBuffer(g.rcv), g.rcv}
    OBVIOUS
  <2>6. t \in ReceiveFields
    BY <2>3, TrimReceiveType
  <2>7. /\ f.rcv = t
        /\ f.took = g.took
        /\ f.wrote = g.wrote
        /\ f.short = g.short
        /\ f.closed = g.closed
        /\ f.shutdown = g.shutdown
        /\ f.out = g.out
    <3>1. g = Flushed(g.rcv, g.took, g.wrote, g.short, g.out, g.closed, g.shutdown)
      BY FlushHasShape DEF FlushShape
    <3> QED
      BY <2>1, <3>1 DEF Flushed
  <2> HIDE DEF t
  <2>8. /\ NumbersInv(t, peer.up + g.took)
        /\ t.receiveNext = g.rcv.receiveNext
        /\ t.clientReadFinished = g.rcv.clientReadFinished
        /\ DrainedInv(g.rcv) /\ g.rcv.receiveNext <= g.rcv.receiveUser => DrainedInv(t)
    BY <2>3, <2>5, TrimNumbers
  <2>9. /\ g.rcv.receiveNext = rcv.receiveNext
        /\ g.rcv.clientReadFinished = FALSE
        /\ g.closed => g.out = Control("RST")
    BY <1>1, <2>2 DEF FlushInv
  <2>10. ASSUME ~peer.short, ~g.short, ~g.closed
         PROVE  DrainedInv(t)
    <3>1. DrainedInv(g.rcv)
      BY <1>1, <2>2, <2>10 DEF FlushInv, DrainedInv
    <3>2. FinNumber(g.rcv) = 0
      BY <2>9 DEF FinNumber
    <3>3. g.rcv.receiveNext <= g.rcv.receiveUser
      BY <2>3, <3>1, <3>2 DEF DrainedInv, NumbersOK, SeqNums
    <3> QED
      BY <2>8, <3>1, <3>3
  <2>11. FlushOK(f)
    BY <2>2, <2>6, <2>7 DEF FlushOK
  <2> QED
    BY <2>4, <2>7, <2>8, <2>9, <2>10, <2>11 DEF RoomInv
<1> QED
  BY <1>3, <1>4

\* Between the client's segments and the server: a segment is stored and sent
\* on, behind what was there before.
LEMMA AcceptUpload ==
  ASSUME UpNoWrap, UploadInv, TypeOK', state = "ESTABLISHED",
         NEW pos \in Nat, NEW len \in Nat, NEW fin \in BOOLEAN, NEW ack, NEW late,
         len = 0 \/ pos + len <= peer.upTotal,
         fin => pos + len = peer.upTotal,
         rcv.receiveNext = First + pos,
         acceptSegment(len, fin, ack, late)
  PROVE  UploadInv' /\ KeepsUpload
<1> DEFINE s == [snd EXCEPT !.sendUnacknowledged = Max2(@, ack), !.retryCount = 0]
<1> HIDE DEF s
<1>1. PICK f1 \in makeRoom(s, len) :
        \E f2 \in storeAndFlush(s, f1, len, fin) : finishSegment(s, f1, f2, late)
  BY DEF acceptSegment, s
<1>2. PICK f2 \in storeAndFlush(s, f1, len, fin) : finishSegment(s, f1, f2, late)
  BY <1>1
<1> DEFINE closes == \/ f1.closed \/ f2.closed
                     \/ isUpStreamComplete(f2.rcv) /\ isDownStreamComplete(s)
<1> DEFINE took == f1.took + f2.took
<1> DEFINE short == f1.short \/ f2.short
<1> DEFINE w == f1.wrote \cup f2.wrote
<1> DEFINE sent == f1.out \cup f2.out
<1>3. /\ TypeOK
      /\ rcv \in ReceiveFields
      /\ peer.up \in Nat
      /\ peer.isn \in ClientISNs
      /\ NumbersInv(rcv, peer.up)
      /\ ~peer.short => DrainedInv(rcv)
      /\ NumbersOK(rcv)
  BY NumbersTyped DEF UploadInv, TypeOK, Peers
<1>4. /\ FlushOK(f1) /\ FlushOK(f2)
      /\ EffectInv(f2.rcv, took, w, short, f2.shutdown, closes, sent)
  <2>1. CASE rcv.clientReadFinished
    <3>1. f1 = noFlush(rcv) /\ f2 = noFlush(rcv)
      BY <1>1, <1>2, <2>1 DEF makeRoom, storeAndFlush
    <3>2. FlushOK(f1) /\ FlushOK(f2)
      BY <1>3, <3>1 DEF FlushOK, noFlush, Flushed
    <3>3. /\ f2.rcv = rcv
          /\ f1.took = 0 /\ f2.took = 0
          /\ f1.closed = FALSE /\ f2.closed = FALSE
          /\ f2.shutdown = FALSE
          /\ f1.wrote = {} /\ f2.wrote = {}
      BY <3>1 DEF noFlush, Flushed
    <3>4. took \in Nat /\ peer.up + took = peer.up /\ w = {}
      BY <1>3, <3>3
    <3>5. closes => rcv.clientReadFinished /\ peer.up = peer.upTotal
      BY <1>3, <3>3, CompleteMeansGone
    <3>6. peer.up <= peer.upTotal
      BY <1>3, GoneBound
    <3> HIDE DEF closes, took, short, w, sent
    <3> QED
      BY <1>3, <3>2, <3>3, <3>4, <3>5, <3>6, Zenon DEF EffectInv
  <2>2. CASE ~rcv.clientReadFinished
    <3> DEFINE q == storeSegment(f1.rcv, len, fin)
    <3> DEFINE up == peer.up + f1.took
    <3>1. RoomInv(f1)
      BY <1>1, <2>2, RoomNumbers
    <3>2. /\ FlushOK(f1)
          /\ f1.rcv \in ReceiveFields
          /\ up \in Nat
          /\ NumbersOK(f1.rcv)
          /\ NumbersInv(f1.rcv, up)
          /\ f1.rcv.receiveNext = First + pos
          /\ ~f1.rcv.clientReadFinished
      BY <1>3, <3>1, NumbersTyped DEF RoomInv, FlushOK
    <3>3. /\ len = 0 \/ f1.rcv.receiveNext + len <= First + peer.upTotal
          /\ fin => f1.rcv.receiveNext + len = First + peer.upTotal
      BY <3>2 DEF NumbersOK, First
    <3>4. /\ q \in ReceiveFields
          /\ NumbersOK(q)
      BY <1>3, <3>2, StoreSegmentType, NumbersTyped
    <3>5. /\ NumbersInv(q, up)
          /\ DrainedInv(f1.rcv) =>
               /\ q.receiveSequence <= q.receiveUser
               /\ \A i \in 0..(Unflushed(q) - 1) :
                    ReadAt(q.receiveBuffer, q.receiveUser - q.receiveSequence + i) = up + i
      BY <1>3, <3>2, <3>3, StoredNumbers
    <3>6. up <= peer.upTotal
      BY <3>2, GoneBound
    <3> HIDE DEF q
    <3>7. CASE f1.closed
      <4>1. f2 = noFlush(q)
        BY <1>2, <2>2, <3>7 DEF storeAndFlush, q
      <4>2. FlushOK(f2)
        BY <3>4, <4>1 DEF FlushOK, noFlush, Flushed
      <4>3. f2.took = 0 /\ f2.wrote = {} /\ f2.shutdown = FALSE
        BY <4>1 DEF noFlush, Flushed
      <4>4. took \in Nat /\ peer.up + took = up
        BY <1>3, <3>2, <4>3 DEF FlushOK
      <4>5. /\ closes
            /\ Control("RST") \subseteq sent
            /\ ~peer.short => w = {}
        BY <3>1, <3>7, <4>3 DEF RoomInv
      <4> HIDE DEF closes, took, short, w, sent, up
      <4> QED
        BY <3>2, <3>6, <4>2, <4>3, <4>4, <4>5 DEF EffectInv
    <3>8. CASE ~f1.closed
      <4>1. f2 \in flushDataToServer(q, s, up)
        BY <1>2, <2>2, <3>8 DEF storeAndFlush, q
      <4>2. FlushInv(f2, q, up) /\ FlushOK(f2)
        BY <3>2, <3>4, <3>5, <4>1, FlushNumbers, FlushType
      <4>3. /\ took \in Nat
            /\ up + f2.took \in Nat
            /\ peer.up + took = up + f2.took
        BY <1>3, <3>2, <4>2 DEF FlushOK
      <4>4. /\ f2.rcv \in ReceiveFields
            /\ NumbersOK(f2.rcv)
            /\ NumbersInv(f2.rcv, up + f2.took)
            /\ f2.rcv.clientReadFinished = q.clientReadFinished
        BY <1>3, <4>2, NumbersTyped DEF FlushOK, FlushInv
      <4>5. up + f2.took <= peer.upTotal
        BY <4>3, <4>4, GoneBound
      <4>6. ASSUME ~peer.short, ~short
            PROVE  DrainedInv(f1.rcv)
        BY <3>1, <3>8, <4>6 DEF RoomInv
      <4>7. ASSUME ~peer.short, ~short, NEW x \in w
            PROVE  x[1] = x[2]
        <5>1. x \in f2.wrote
          BY <3>1, <4>7 DEF RoomInv
        <5> QED
          BY <3>2, <3>4, <3>5, <4>1, <4>6, <4>7, <5>1, TakenBytes
      <4>8. ASSUME ~peer.short, ~short, ~closes
            PROVE  DrainedInv(f2.rcv)
        BY <3>5, <4>2, <4>6, <4>8 DEF FlushInv
      <4>9. ASSUME closes
            PROVE  \/ Control("RST") \subseteq sent
                   \/ f2.rcv.clientReadFinished /\ up + f2.took = peer.upTotal
        <5>1. CASE f2.closed
          BY <4>2, <4>4, <5>1 DEF FlushInv
        <5>2. CASE isUpStreamComplete(f2.rcv)
          BY <4>3, <4>4, <5>2, CompleteMeansGone
        <5> QED
          BY <3>8, <4>9, <5>1, <5>2
      <4>10. f2.shutdown => up + f2.took = peer.upTotal
        BY <4>2 DEF FlushInv
      <4> HIDE DEF closes, took, short, w, sent, up
      <4> QED
        BY <3>2, <4>2, <4>3, <4>4, <4>5, <4>7, <4>8, <4>9, <4>10 DEF EffectInv
    <3> QED
      BY <3>7, <3>8
  <2> QED
    BY <2>1, <2>2
<1>5. closes \in BOOLEAN /\ short \in BOOLEAN /\ f2.shutdown \in BOOLEAN
  BY <1>4 DEF FlushOK, isUpStreamComplete, isDownStreamComplete
<1>6. /\ rcv'.receiveSequence = f2.rcv.receiveSequence
      /\ rcv'.receiveUser = f2.rcv.receiveUser
      /\ rcv'.receiveNext = f2.rcv.receiveNext
      /\ rcv'.clientReadFinished = f2.rcv.clientReadFinished
  BY <1>2, <1>4 DEF finishSegment, FlushOK, ReceiveFields
<1>7. /\ sent \subseteq out'
      /\ wrote' = w
      /\ state' = IF closes THEN "CLOSED" ELSE state
  BY <1>2 DEF finishSegment, closeSession
<1>8. /\ peer'.up = peer.up + took
      /\ peer'.upTotal = peer.upTotal
      /\ peer'.isn = peer.isn
      /\ peer'.shutdown <=> peer.shutdown \/ f2.shutdown
      /\ peer'.short <=> peer.short \/ short
  <2>1. peer' = [peer EXCEPT !.up = peer.up + f1.took + f2.took,
                             !.shutdown = (peer.shutdown \/ f2.shutdown),
                             !.short = (peer.short \/ f1.short \/ f2.short)]
    BY <1>2 DEF finishSegment
  <2>2. peer \in Peers /\ f1.took \in Nat /\ f2.took \in Nat
    BY <1>3, <1>4 DEF TypeOK, FlushOK
  <2>3. peer.up + f1.took + f2.took = peer.up + took
    BY <1>3, <2>2
  <2>4. /\ peer'.up = peer.up + f1.took + f2.took
        /\ peer'.upTotal = peer.upTotal
        /\ peer'.isn = peer.isn
        /\ peer'.shutdown = (peer.shutdown \/ f2.shutdown)
        /\ peer'.short = (peer.short \/ f1.short \/ f2.short)
    BY <2>1, <2>2 DEF Peers
  <2> QED
    BY <2>3, <2>4
<1> HIDE DEF closes, took, short, w, sent
<1> QED
  BY <1>4, <1>5, <1>6, <1>7, <1>8, EffectStep

-----------------------------------------------------------------------------
(* All steps *)

\* A step that does not touch the server-bound stream.
LeavesUpload ==
  /\ rcv' = rcv
  /\ peer'.isn = peer.isn
  /\ peer'.upTotal = peer.upTotal
  /\ peer'.up = peer.up
  /\ peer'.shutdown = peer.shutdown
  /\ peer'.short = peer.short
  /\ wrote' \subseteq wrote
  /\ state = "CLOSED" => state' = "CLOSED"

LEMMA UntouchedUpload ==
  ASSUME UploadInv, TypeOK', LeavesUpload
  PROVE  UploadInv'
<1>1. NumbersInv(rcv, peer.up) => NumbersInv(rcv, peer.up)'
  BY DEF LeavesUpload, NumbersInv, First, FinNumber
<1>2. DrainedInv(rcv) => DrainedInv(rcv)'
  BY DEF LeavesUpload, DrainedInv, FinNumber
<1> QED
  BY <1>1, <1>2 DEF UploadInv, LeavesUpload

\* A new connection has the stream before it.
LEMMA FreshUpload ==
  ASSUME UpNoWrap, UploadInv, TypeOK', NEW isn \in ClientISNs, NEW iss, NEW mss,
         NEW window, NEW upTotal \in 0..UpLen, NEW connected,
         reEstablish(isn, iss, mss, window, upTotal, connected)
  PROVE  UploadInv' /\ state' # "CLOSED"
<1>1. peer \in Peers /\ peer' = [peer EXCEPT !.isn = isn, !.iss = iss,
        !.got = Plus(iss, 1), !.upTotal = upTotal, !.up = 0, !.down = 0,
        !.shutdown = FALSE, !.short = FALSE]
  BY DEF UploadInv, TypeOK, reEstablish
<1>2. /\ peer'.isn = isn /\ peer'.upTotal = upTotal /\ peer'.up = 0
      /\ ~peer'.shutdown
  BY <1>1 DEF Peers
<1>3. /\ isn \in Nat /\ upTotal \in Nat /\ RECEIVE_BUFFER_SIZE \in Nat
      /\ Plus(isn, 1) = isn + 1
  BY SessionAssumption DEF UpNoWrap, Plus
<1>4. /\ rcv'.receiveSequence = isn + 1
      /\ rcv'.receiveUser = isn + 1
      /\ rcv'.receiveNext = isn + 1
      /\ ~rcv'.clientReadFinished
  BY <1>3 DEF reEstablish, freshReceive
<1>5. NumbersInv(rcv, peer.up)' /\ DrainedInv(rcv)'
  BY <1>2, <1>3, <1>4 DEF NumbersInv, DrainedInv, First, FinNumber
<1> QED
  BY <1>2, <1>5 DEF UploadInv, reEstablish

\* Why a step of the up stream thread may close an established session.
LEMMA UpStreamUpload ==
  ASSUME UpNoWrap, UploadInv, TypeOK', UpStream
  PROVE  /\ UploadInv'
         /\ \/ state # "ESTABLISHED"
            \/ \E pos \in 0..(UpLen + 1) : receiveReset(pos)
            \/ KeepsUpload
<1>1. ASSUME NEW kind, Answers(kind)
      PROVE  UploadInv' /\ (state = "ESTABLISHED" => KeepsUpload)
  <2>1. LeavesUpload /\ state' = state
    BY <1>1 DEF Answers, LeavesUpload
  <2> QED
    BY <2>1, UntouchedUpload DEF KeepsUpload
<1>2. ASSUME NEW isn \in ClientISNs, receiveSyn(isn)
      PROVE  UploadInv' /\ (state = "ESTABLISHED" => KeepsUpload)
  <2>1. CASE \E iss \in ISSs, mss \in MSSs, window \in Windows,
                upTotal \in 0..UpLen, connected \in BOOLEAN :
               reEstablish(isn, iss, mss, window, upTotal, connected)
    BY <2>1, FreshUpload DEF KeepsUpload
  <2>2. CASE synInHandshake(isn)
    <3>1. CASE sendReset
      BY <1>1, <3>1 DEF sendReset
    <3>2. CASE ~sendReset
      <4>1. LeavesUpload /\ state # "ESTABLISHED"
        BY <2>2, <3>2 DEF synInHandshake, LeavesUpload
      <4> QED
        BY <4>1, UntouchedUpload
    <3> QED
      BY <3>1, <3>2
  <2> QED
    BY <1>1, <1>2, <2>1, <2>2 DEF receiveSyn, sendReset, sendAck
<1>3. ASSUME NEW pos \in 0..(peer.upTotal + 1), NEW len \in 0..UpLen,
             NEW fin \in BOOLEAN, NEW late \in BOOLEAN, NEW ack \in ClientAcks,
             receiveSegment(pos, len, fin, ack, late)
      PROVE  UploadInv' /\ (state = "ESTABLISHED" => KeepsUpload)
  <2>1. CASE ackOfSyn(ClientSeq(pos), ack)
    <3>1. CASE sendReset
      BY <1>1, <3>1 DEF sendReset
    <3>2. CASE ~sendReset
      <4>1. LeavesUpload /\ state # "ESTABLISHED"
        BY <2>1, <3>2 DEF ackOfSyn, awaitsAck, Quiet, LeavesUpload
      <4> QED
        BY <4>1, UntouchedUpload
    <3> QED
      BY <3>1, <3>2
  <2>2. CASE /\ state = "ESTABLISHED"
             /\ ClientSeq(pos) = rcv.receiveNext
             /\ acceptSegment(len, fin, ack, late)
    <3>1. /\ peer.isn \in ClientISNs /\ peer.upTotal \in 0..UpLen
          /\ peer.isn \in SeqNums
      BY <2>2 DEF UploadInv, TypeOK, Peers
    <3>2. peer.isn + UpLen + 3 <= Modulus
      BY <3>1 DEF UpNoWrap
    <3>3. pos \in Nat /\ len \in Nat /\ ClientSeq(pos) = First + pos
      BY <3>1, <3>2, SessionAssumption DEF ClientSeq, Plus, First, SeqNums
    <3>4. /\ len = 0 \/ pos + len <= peer.upTotal
          /\ fin => pos + len = peer.upTotal
      BY <1>3 DEF receiveSegment
    <3> QED
      BY <2>2, <3>3, <3>4, AcceptUpload
  <2> QED
    BY <1>1, <1>3, <2>1, <2>2 DEF receiveSegment, sendAck
<1>4. ASSUME NEW pos \in 0..(UpLen + 1), receiveReset(pos)
      PROVE  UploadInv'
  <2>1. LeavesUpload
    BY <1>4 DEF receiveReset, reset, closeSession, Quiet, LeavesUpload
  <2> QED
    BY <2>1, UntouchedUpload
<1>5. CASE receiveStray
  BY <1>1, <1>5 DEF receiveStray, sendReset
<1>6. CASE flushToServer
  BY <1>6, FlushUpload
<1> QED
  BY <1>2, <1>3, <1>4, <1>5, <1>6 DEF UpStream

\* The down stream thread closes a session only when the retries have run out
\* or the up stream is complete.
LEMMA DownStreamUpload ==
  ASSUME UpNoWrap, UploadInv, TypeOK', DownStream
  PROVE  /\ UploadInv'
         /\ state = "ESTABLISHED" => ClosesAbnormally \/ KeepsUpload
<1>1. ASSUME DownStream
      PROVE  LeavesUpload
  <2>1. ASSUME NEW s, NEW reg, flushDataToClient(s, reg)
        PROVE  state = "CLOSED" => state' = "CLOSED"
    BY <2>1 DEF flushDataToClient
  <2>2. peer \in Peers
    BY DEF UploadInv, TypeOK
  <2>3. ASSUME NEW n, peer' = [peer EXCEPT !.down = n]
        PROVE  /\ peer'.isn = peer.isn /\ peer'.upTotal = peer.upTotal
               /\ peer'.up = peer.up /\ peer'.shutdown = peer.shutdown
               /\ peer'.short = peer.short
    BY <2>2, <2>3 DEF Peers
  <2>4. CASE receiveFromServer \/ trimSendBuffer
    BY <2>4 DEF receiveFromServer, trimSendBuffer, Quiet, LeavesUpload
  <2>5. CASE readFromServer
    BY <2>1, <2>3, <2>5 DEF readFromServer, LeavesUpload
  <2>6. CASE flushToClient
    BY <2>1, <2>6 DEF flushToClient, LeavesUpload
  <2> QED
    BY <1>1, <2>4, <2>5, <2>6 DEF DownStream
<1>2. ASSUME NEW s, NEW reg, flushDataToClient(s, reg), state = "ESTABLISHED",
             state' = "CLOSED"
      PROVE  (givesUp(s) /\ snd' = s) \/ isUpStreamComplete(rcv)
  <2>1. givesUp(s) \/ isUpStreamComplete(rcv)
    BY <1>2 DEF flushDataToClient, closeSession
  <2>2. givesUp(s) => timedOut(s)
    BY DEF givesUp
  <2>3. givesUp(s) => snd' = s
    BY <1>2, <2>2 DEF flushDataToClient
  <2> QED
    BY <2>1, <2>3
<1>3. ASSUME NEW s, givesUp(s), snd' = s
      PROVE  ClosesAbnormally
  BY <1>3 DEF givesUp, timedOut, ClosesAbnormally
<1>4. ASSUME state = "ESTABLISHED", isUpStreamComplete(rcv)
      PROVE  KeepsUpload
  <2>1. /\ peer.up \in Nat
        /\ NumbersOK(rcv)
        /\ NumbersInv(rcv, peer.up)
    BY <1>4, NumbersTyped DEF UploadInv, TypeOK, Peers
  <2>2. rcv.clientReadFinished /\ peer.up = peer.upTotal
    BY <1>4, <2>1, CompleteMeansGone
  <2> QED
    BY <1>1, <2>2 DEF LeavesUpload, KeepsUpload
<1>5. ASSUME state = "ESTABLISHED", state' = "CLOSED"
      PROVE  ClosesAbnormally \/ KeepsUpload
  BY <1>2, <1>3, <1>4, <1>5
     DEF DownStream, receiveFromServer, trimSendBuffer, readFromServer, flushToClient
<1> QED
  BY <1>1, <1>5, UntouchedUpload DEF KeepsUpload

\* The environment changes neither the stream nor the state.
LEMMA EnvironmentUpload ==
  ASSUME UploadInv, TypeOK', Environment
  PROVE  UploadInv' /\ state' = state
<1>1. peer \in Peers
  BY DEF UploadInv, TypeOK
<1>2. LeavesUpload /\ state' = state
  BY <1>1 DEF Environment, tick, clientReceives, clientDies, Quiet, LeavesUpload, Peers
<1> QED
  BY <1>2, UntouchedUpload

LEMMA StepUpload ==
  ASSUME UpNoWrap, UploadInv, [Next]_vars
  PROVE  UploadInv'
<1>1. TypeOK
  BY DEF UploadInv
<1>2. TypeOK'
  <2>1. CASE UNCHANGED vars
    BY <1>1, <2>1 DEF vars, TypeOK
  <2> QED
    BY <1>1, <2>1, UpStreamType, DownStreamType, EnvironmentType DEF Next
<1>3. CASE UNCHANGED vars
  <2>1. LeavesUpload
    BY <1>3 DEF vars, LeavesUpload
  <2> QED
    BY <1>2, <2>1, UntouchedUpload
<1> QED
  BY <1>2, <1>3, UpStreamUpload, DownStreamUpload, EnvironmentUpload DEF Next

-----------------------------------------------------------------------------
(* The theorems *)

THEOREM UploadInductive ==
  ASSUME UpNoWrap
  PROVE  Spec => []UploadInv
<1>1. Init => UploadInv
  <2> SUFFICES ASSUME Init
               PROVE  UploadInv
    OBVIOUS
  <2>1. TypeOK
    BY InitType
  <2> QED
    BY <2>1 DEF Init, UploadInv
<1>2. UploadInv /\ [Next]_vars => UploadInv'
  BY StepUpload
<1> QED
  BY <1>1, <1>2, PTL DEF Spec

\* As long as the server's socket took all it was given, it was given the
\* client's bytes in order, none twice and none left out; its write half is
\* shut down only behind the last of them.
THEOREM UploadIsFaithful ==
  ASSUME UpNoWrap
  PROVE  Spec => []UploadFaithful
<1>1. UploadInv => UploadFaithful
  BY DEF UploadInv, UploadFaithful
<1> QED
  BY <1>1, UploadInductive, PTL

\* isUpStreamComplete, on which three member functions close the session or
\* stop flushing, holds only when every byte has gone to the server, also
\* after sends that took a part of the bytes.
THEOREM CompleteIsTrue ==
  ASSUME UpNoWrap
  PROVE  Spec => []UpStreamCompleteIsTrue
<1>1. UploadInv => UpStreamCompleteIsTrue
  <2> SUFFICES ASSUME UploadInv, state = "ESTABLISHED", isUpStreamComplete(rcv)
               PROVE  peer.up = peer.upTotal
    BY DEF UpStreamCompleteIsTrue
  <2>1. /\ peer.up \in Nat
        /\ NumbersOK(rcv)
        /\ NumbersInv(rcv, peer.up)
    BY NumbersTyped DEF UploadInv, TypeOK, Peers
  <2> QED
    BY <2>1, CompleteMeansGone
<1> QED
  BY <1>1, UploadInductive, PTL

\* In either thread, a session that ends otherwise than by a reset, a failed
\* write or an unanswered retransmission ends with the client's FIN received
\* and every byte before it handed to the server.
THEOREM OrderlyCloseKeepsAll ==
  ASSUME UpNoWrap
  PROVE  Spec => OrderlyCloseKeepsUpload
<1> DEFINE A == state = "ESTABLISHED" /\ state' = "CLOSED" /\ ~ClosesAbnormally =>
                  rcv'.clientReadFinished /\ peer'.up = peer'.upTotal
<1>1. UploadInv /\ UploadInv' /\ [Next]_vars => [A]_vars
  <2> SUFFICES ASSUME UploadInv, UploadInv', [Next]_vars, state = "ESTABLISHED",
                      state' = "CLOSED", ~ClosesAbnormally
               PROVE  rcv'.clientReadFinished /\ peer'.up = peer'.upTotal
    OBVIOUS
  <2>1. TypeOK' /\ state' # state
    BY DEF UploadInv
  <2>2. Next
    BY <2>1 DEF vars
  <2>3. KeepsUpload
    <3>1. CASE UpStream
      BY <2>1, <3>1, UpStreamUpload DEF ClosesAbnormally
    <3>2. CASE DownStream
      BY <2>1, <3>2, DownStreamUpload
    <3>3. CASE Environment
      BY <2>1, <3>3, EnvironmentUpload
    <3> QED
      BY <2>2, <3>1, <3>2, <3>3 DEF Next
  <2> QED
    BY <2>3 DEF KeepsUpload, ClosesAbnormally
<1>2. Spec => []UploadInv
  BY UploadInductive
<1> QED
  BY <1>1, <1>2, PTL DEF Spec, OrderlyCloseKeepsUpload
=============================================================================
