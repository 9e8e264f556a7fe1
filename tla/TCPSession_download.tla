------------------------- MODULE TCPSession_download -------------------------
(***************************************************************************)
(* The client-bound stream of a session is faithful: proofs that the       *)
(* numbers of the send buffer stay ordered, that the socket is selected on *)
(* exactly while it may give data, that every segment carries the bytes of *)
(* the server's stream at the sequence numbers it says, and that none of   *)
(* them is skipped.                                                        *)
(***************************************************************************)
EXTENDS TCPSession_proofs

\* Sequence numbers stay below 2^32 on the connections considered: the code
\* compares them with < and takes their maximum.
NoWrap == \A iss \in ISSs : iss + DownLen + 3 <= Modulus

\* A session in the handshake has sent nothing.
HandshakeInv ==
  state \in {"SYN_RECEIVED", "SYN_ACK_SENT"} =>
    /\ snd.sendUnacknowledged = peer.iss
    /\ ~snd.serverReadFinished
    /\ peer.down = 0
    /\ peer.got = peer.iss + 1

\* The numbers of an established session: the client has everything below
\* sendUnacknowledged, nothing that was not sent, and every byte the server
\* gave has its place in the buffer.
OrderInv(s) ==
  /\ peer.iss + 1 <= s.sendSequence
  /\ s.sendSequence <= s.sendUnacknowledged
  /\ s.sendUnacknowledged <= peer.got
  /\ peer.got <= s.sendNext
  /\ s.sendNext <= s.sendNewDataSequence
  /\ s.sendNewDataSequence <= s.sendSequence + sendLength

\* s has received n bytes, and the end of the stream if it is finished.
CountInv(s, n) ==
  s.sendNewDataSequence = peer.iss + 1 + n + (IF s.serverReadFinished THEN 1 ELSE 0)

\* The n bytes received and not trimmed lie where their numbers say.
BufferInv(s, n) ==
  \A q \in s.sendSequence..(peer.iss + n) :
    s.sendBuffer[q - s.sendSequence] = q - (peer.iss + 1)

EstablishedInv ==
  state = "ESTABLISHED" =>
    /\ OrderInv(snd)
    /\ CountInv(snd, peer.down)
    /\ BufferInv(snd, peer.down)
    /\ down.pc = "trim" => down.space = snd.sendUnacknowledged - snd.sendSequence
    /\ down.pc # "idle" => ~snd.serverReadFinished
    /\ inReceiveSet <=> ~snd.serverReadFinished

\* The inductive invariant.  Whatever the threads have moved under each
\* other, a session that is not established is not selected on; the rest
\* holds until they do, and again after the session is re-established.
DownloadInv ==
  /\ TypeOK
  /\ state # "CLOSED" => peer.iss \in ISSs
  /\ state # "ESTABLISHED" => ~inReceiveSet
  /\ raced = {} =>
       /\ state # "ESTABLISHED" => down.pc = "idle"
       /\ HandshakeInv
       /\ EstablishedInv
       /\ \A g \in out : g.kind = "DATA" => SegmentFaithful(g)

-----------------------------------------------------------------------------
(* The room in the buffer *)

\* getSendAvailable is the room behind the data, although both of its
\* intermediate values may wrap.
LEMMA AvailableValue ==
  ASSUME TypeOK, NEW s \in SendFields, OrderInv(s)
  PROVE  getSendAvailable(s) = s.sendSequence + sendLength - s.sendNewDataSequence
<1>1. /\ s.sendSequence \in SeqNums
      /\ s.sendNewDataSequence \in SeqNums
      /\ s.sendUnacknowledged \in SeqNums
      /\ s.sendNext \in SeqNums
      /\ peer.got \in SeqNums
      /\ sendLength \in SeqNums
      /\ Modulus \in Nat
  BY SessionAssumption DEF SendFields, TypeOK, Peers, SeqNums
<1>2. /\ s.sendSequence <= s.sendNewDataSequence
      /\ s.sendNewDataSequence <= s.sendSequence + sendLength
  BY <1>1 DEF OrderInv, SeqNums
<1> QED
  BY <1>1, <1>2 DEF getSendAvailable, Plus, Minus, SeqNums

-----------------------------------------------------------------------------
(* The down stream thread *)

\* Stated apart, so that arithmetic and intervals are not mixed in one leaf.
LEMMA IntervalMember ==
  ASSUME NEW a \in Int, NEW b \in Int, NEW q \in Int, a <= q, q <= b
  PROVE  q \in a..b
OBVIOUS

\* A segment cut from a buffer that holds the bytes where they belong is
\* faithful.
LEMMA SegmentIsFaithful ==
  ASSUME TypeOK, opt.mss \in MSSs, NEW s \in SendFields, NEW n \in Nat,
         OrderInv(s), CountInv(s, n), BufferInv(s, n),
         NEW p \in Nat, s.sendSequence <= p
  PROVE  /\ \A q \in DOMAIN Segment(s, p).bytes :
              Segment(s, p).bytes[q] = q - (peer.iss + 1)
         /\ Segment(s, p).fin =>
              \A q \in Segment(s, p).seq..(peer.iss + n) : q \in DOMAIN Segment(s, p).bytes
<1> DEFINE len == Min2(DataEnd(s) - p, opt.mss)
<1>1. /\ s.sendSequence \in Nat
      /\ s.sendNewDataSequence \in Nat
      /\ s.serverReadFinished \in BOOLEAN
      /\ peer.iss \in Nat
      /\ sendLength \in Nat
      /\ DOMAIN s.sendBuffer = 0..(sendLength - 1)
  BY SessionAssumption DEF SendFields, TypeOK, Peers, SeqNums
<1>2. opt.mss \in Nat
  BY SessionAssumption
<1>3. DataEnd(s) = peer.iss + 1 + n
  BY <1>1 DEF DataEnd, CountInv
<1>4. len \in Int /\ p + len <= peer.iss + 1 + n
  BY <1>2, <1>1, <1>3 DEF Min2
<1>5. peer.iss + 1 + n <= s.sendSequence + sendLength
  BY <1>1 DEF OrderInv, CountInv
<1> HIDE DEF len
<1>6. ASSUME NEW q \in p..(p + len - 1)
      PROVE  ReadAt(s.sendBuffer, q - s.sendSequence) = q - (peer.iss + 1)
  <2> DEFINE first == s.sendSequence
             last == peer.iss + n
  <2>0. /\ first \in Int /\ last \in Int /\ sendLength \in Int
        /\ first <= p /\ p + len <= last + 1 /\ last + 1 <= first + sendLength
    <3>1. s.sendSequence \in Nat /\ peer.iss \in Nat /\ sendLength \in Nat
      BY <1>1
    <3> QED
      BY <1>4, <1>5, <3>1
  <2>1. q \in Int /\ p <= q /\ q < p + len
    BY <1>4
  <2> HIDE DEF first, last
  <2>2. first <= q /\ q <= last
    BY <1>4, <2>0, <2>1
  <2>3. q \in first..last
    BY <2>0, <2>1, <2>2, IntervalMember
  <2>4. 0 <= q - first /\ q - first <= sendLength - 1
    BY <2>0, <2>1, <2>2
  <2>5. q - first \in 0..(sendLength - 1)
    BY <2>0, <2>1, <2>4, IntervalMember
  <2> QED
    BY <1>1, <2>3, <2>5 DEF ReadAt, BufferInv, first, last
<1> DEFINE bytes == [q \in p..(p + len - 1) |-> ReadAt(s.sendBuffer, q - s.sendSequence)]
<1> DEFINE fin == s.serverReadFinished /\ p + len = DataEnd(s)
<1>7. Segment(s, p) = Packet("DATA", p, bytes, fin)
  BY DEF Segment, len
<1>8. /\ DOMAIN bytes = p..(p + len - 1)
      /\ \A q \in DOMAIN bytes : bytes[q] = q - (peer.iss + 1)
  BY <1>6
<1>9. fin => p + len = DataEnd(s)
  OBVIOUS
<1> HIDE DEF bytes, fin
<1>10. /\ Segment(s, p).bytes = bytes
       /\ Segment(s, p).seq = p
       /\ Segment(s, p).fin = fin
  BY <1>7 DEF Packet
<1> QED
  BY <1>1, <1>2, <1>3, <1>4, <1>8, <1>9, <1>10

\* flushDataToClient, on fields s that hold n bytes of the server's stream.
LEMMA FlushKeepsDownload ==
  ASSUME TypeOK, state = "ESTABLISHED", NEW s \in SendFields, NEW reg \in BOOLEAN,
         NEW n \in Nat, OrderInv(s), CountInv(s, n), BufferInv(s, n),
         reg <=> ~s.serverReadFinished,
         flushDataToClient(s, reg),
         peer'.iss = peer.iss, peer'.got = peer.got, peer'.down = n
  PROVE  /\ OrderInv(snd)'
         /\ CountInv(snd, peer.down)'
         /\ BufferInv(snd, peer.down)'
         /\ snd'.serverReadFinished = s.serverReadFinished
         /\ state' \in {"ESTABLISHED", "CLOSED"}
         /\ inReceiveSet' <=> state' = "ESTABLISHED" /\ ~s.serverReadFinished
         /\ \A g \in out' : SegmentFaithful(g)'
<1>1. /\ snd'.sendSequence = s.sendSequence
      /\ snd'.sendUnacknowledged = s.sendUnacknowledged
      /\ snd'.sendNewDataSequence = s.sendNewDataSequence
      /\ snd'.sendBuffer = s.sendBuffer
      /\ snd'.serverReadFinished = s.serverReadFinished
      /\ snd'.sendNext \in {s.sendNext, s.sendNewDataSequence}
  BY DEF flushDataToClient, SendFields
<1>2. /\ s.sendNext \in Nat
      /\ s.sendNewDataSequence \in Nat
      /\ s.sendSequence \in Nat
      /\ s.sendUnacknowledged \in Nat
      /\ peer.got \in Nat
      /\ peer.iss \in Nat
      /\ sendLength \in Nat
  BY SessionAssumption DEF SendFields, SeqNums, TypeOK, Peers
<1>3. OrderInv(snd)'
  BY <1>1, <1>2 DEF OrderInv
<1>4. CountInv(snd, peer.down)'
  BY <1>1 DEF CountInv
<1>5. BufferInv(snd, peer.down)'
  BY <1>1 DEF BufferInv
<1>6. /\ state' \in {"ESTABLISHED", "CLOSED"}
      /\ inReceiveSet' <=> state' = "ESTABLISHED" /\ ~s.serverReadFinished
  BY DEF flushDataToClient, closeSession
<1>7. ASSUME NEW g \in out'
      PROVE  SegmentFaithful(g)'
  <2>1. PICK from \in {s.sendUnacknowledged, s.sendNext} :
          g \in sendDataStartingFrom(s, from)
    BY <1>7 DEF flushDataToClient
  <2>2. PICK p \in from..(s.sendNewDataSequence - 1) : g = Segment(s, p)
    BY <2>1 DEF sendDataStartingFrom
  <2>3. p \in Nat /\ s.sendSequence <= p
    <3>1. from \in Nat /\ s.sendSequence <= from
      BY <1>2 DEF OrderInv
    <3> QED
      BY <1>2, <3>1
  <2>4. opt.mss \in MSSs
    BY DEF TypeOK
  <2>5. /\ \A q \in DOMAIN g.bytes : g.bytes[q] = q - (peer.iss + 1)
        /\ g.fin => \A q \in g.seq..(peer.iss + n) : q \in DOMAIN g.bytes
    BY <2>2, <2>3, <2>4, SegmentIsFaithful
  <2> QED
    BY <2>5 DEF SegmentFaithful
<1> QED
  BY <1>1, <1>3, <1>4, <1>5, <1>6, <1>7

LEMMA DownStreamKeepsDownload ==
  ASSUME NoWrap, DownloadInv, DownStream
  PROVE  DownloadInv'
<1>1. TypeOK /\ TypeOK'
  BY DownStreamType DEF DownloadInv
<1>2. /\ snd \in SendFields
      /\ snd.sendSequence \in SeqNums
      /\ snd.sendUnacknowledged \in SeqNums
      /\ snd.sendNewDataSequence \in SeqNums
      /\ snd.sendNext \in SeqNums
      /\ peer.iss \in SeqNums
      /\ peer.got \in SeqNums
      /\ peer.down \in 0..DownLen
      /\ snd.serverReadFinished \in BOOLEAN
      /\ inReceiveSet \in BOOLEAN
      /\ 1 \in SeqNums
  BY <1>1, SessionAssumption DEF TypeOK, SendFields, Peers, SeqNums
<1>n. /\ snd.sendSequence \in Nat
      /\ snd.sendUnacknowledged \in Nat
      /\ snd.sendNewDataSequence \in Nat
      /\ snd.sendNext \in Nat
      /\ peer.iss \in Nat
      /\ peer.got \in Nat
      /\ peer.down \in Nat
      /\ DownLen \in Nat
      /\ sendLength \in Nat
  BY <1>2, SessionAssumption DEF SeqNums
<1>3. CASE receiveFromServer
  <2>1. UNCHANGED <<state, snd, rcv, opt, inReceiveSet, timerExpired, peer, raced>>
        /\ out' = {}
    BY <1>3 DEF receiveFromServer, Quiet
  <2>2. ASSUME raced = {}
        PROVE  EstablishedInv'
    <3>1. EstablishedInv /\ OrderInv(snd)
      BY <1>3, <2>2 DEF DownloadInv, EstablishedInv, receiveFromServer
    <3>2. Minus(snd.sendUnacknowledged, snd.sendSequence)
            = snd.sendUnacknowledged - snd.sendSequence
      BY <1>2, <1>n, <3>1, MinusValue DEF OrderInv
    <3>3. OrderInv(snd)' /\ CountInv(snd, peer.down)' /\ BufferInv(snd, peer.down)'
      BY <1>3, <2>1, <3>1 DEF EstablishedInv, OrderInv, CountInv, BufferInv, receiveFromServer
    <3>4. down' \in {[pc |-> "read", space |-> 0],
                     [pc |-> "trim", space |-> snd.sendUnacknowledged - snd.sendSequence]}
      BY <1>3, <3>2 DEF receiveFromServer
    <3> QED
      BY <1>3, <2>1, <3>1, <3>3, <3>4 DEF EstablishedInv, receiveFromServer
  <2> QED
    BY <1>1, <1>3, <2>1, <2>2 DEF DownloadInv, HandshakeInv, receiveFromServer
<1>4. CASE trimSendBuffer
  <2>1. /\ UNCHANGED <<state, rcv, opt, inReceiveSet, timerExpired, peer, raced>>
        /\ out' = {}
        /\ down' = [pc |-> "read", space |-> 0]
        /\ down.pc = "trim"
    BY <1>4 DEF trimSendBuffer, Quiet
  <2>2. ASSUME raced = {}
        PROVE  state = "ESTABLISHED" /\ EstablishedInv'
    <3>1. /\ state = "ESTABLISHED"
          /\ OrderInv(snd)
          /\ CountInv(snd, peer.down)
          /\ BufferInv(snd, peer.down)
          /\ ~snd.serverReadFinished
          /\ inReceiveSet
          /\ down.space = snd.sendUnacknowledged - snd.sendSequence
      BY <2>1, <2>2 DEF DownloadInv, EstablishedInv
    <3>2. /\ snd'.sendSequence = snd.sendUnacknowledged
          /\ snd'.sendUnacknowledged = snd.sendUnacknowledged
          /\ snd'.sendNext = snd.sendNext
          /\ snd'.sendNewDataSequence = snd.sendNewDataSequence
          /\ snd'.serverReadFinished = snd.serverReadFinished
          /\ snd'.sendBuffer = shiftElements(snd.sendBuffer, down.space,
                   Minus(snd.sendNewDataSequence, snd.sendUnacknowledged))
      BY <1>2, <1>n, <1>4 DEF trimSendBuffer, SendFields
    <3>3. OrderInv(snd)'
      BY <1>2, <1>n, <2>1, <3>1, <3>2, SessionAssumption DEF OrderInv
    <3>4. CountInv(snd, peer.down)'
      BY <2>1, <3>1, <3>2 DEF CountInv
    <3>5. BufferInv(snd, peer.down)'
      <4>1. Minus(snd.sendNewDataSequence, snd.sendUnacknowledged)
              = snd.sendNewDataSequence - snd.sendUnacknowledged
        BY <1>2, <1>n, <3>1, MinusValue DEF OrderInv
      <4>2. DOMAIN snd.sendBuffer = 0..(sendLength - 1) /\ sendLength \in Nat
        BY <1>2, <1>n, SessionAssumption DEF SendFields
      <4>3. ASSUME NEW q \in snd.sendUnacknowledged..(peer.iss + peer.down)
            PROVE  snd'.sendBuffer[q - snd.sendUnacknowledged] = q - (peer.iss + 1)
        <5>1. /\ q \in snd.sendSequence..(peer.iss + peer.down)
              /\ q - snd.sendSequence \in 0..(sendLength - 1)
              /\ q - snd.sendUnacknowledged \in 0..(sendLength - 1)
              /\ q - snd.sendUnacknowledged
                   < snd.sendNewDataSequence - snd.sendUnacknowledged
          <6>1. /\ q \in Nat
                /\ snd.sendUnacknowledged <= q
                /\ q <= peer.iss + peer.down
            BY <1>n
          <6>2. /\ snd.sendSequence <= snd.sendUnacknowledged
                /\ snd.sendNewDataSequence = peer.iss + 1 + peer.down
                /\ snd.sendNewDataSequence <= snd.sendSequence + sendLength
            BY <1>n, <3>1 DEF OrderInv, CountInv
          <6> QED
            BY <1>n, <6>1, <6>2
        <5>2. (q - snd.sendUnacknowledged) + down.space = q - snd.sendSequence
          BY <1>2, <1>n, <3>1
        <5>3. snd.sendBuffer[q - snd.sendSequence] = q - (peer.iss + 1)
          BY <3>1, <5>1 DEF BufferInv
        <5> QED
          BY <3>2, <4>1, <4>2, <5>1, <5>2, <5>3 DEF shiftElements, ReadAt
      <4> QED
        BY <2>1, <3>2, <4>3 DEF BufferInv
    <3> QED
      BY <2>1, <3>1, <3>2, <3>3, <3>4, <3>5 DEF EstablishedInv
  <2> QED
    BY <1>1, <2>1, <2>2 DEF DownloadInv, HandshakeInv
\* A call of flushDataToClient, after the threads have raced and before.
<1>5. ASSUME NEW s, NEW reg \in BOOLEAN, reg => inReceiveSet,
             flushDataToClient(s, reg), UNCHANGED raced, peer'.iss = peer.iss,
             raced # {}
      PROVE  DownloadInv'
  <2>1. state' \in {state, "CLOSED"} /\ (state' # "ESTABLISHED" => ~inReceiveSet')
    BY <1>5 DEF flushDataToClient, closeSession, DownloadInv
  <2> QED
    BY <1>1, <1>5, <2>1 DEF DownloadInv
<1>6. ASSUME NEW s \in SendFields, NEW reg \in BOOLEAN, NEW n \in Nat,
             state = "ESTABLISHED", raced = {}, OrderInv(s), CountInv(s, n),
             BufferInv(s, n), reg <=> ~s.serverReadFinished,
             flushDataToClient(s, reg), UNCHANGED raced, down'.pc = "idle",
             peer'.iss = peer.iss, peer'.got = peer.got, peer'.down = n
      PROVE  DownloadInv'
  <2>1. /\ OrderInv(snd)'
        /\ CountInv(snd, peer.down)'
        /\ BufferInv(snd, peer.down)'
        /\ snd'.serverReadFinished = s.serverReadFinished
        /\ state' \in {"ESTABLISHED", "CLOSED"}
        /\ inReceiveSet' <=> state' = "ESTABLISHED" /\ ~s.serverReadFinished
        /\ \A g \in out' : SegmentFaithful(g)'
    BY <1>1, <1>6, FlushKeepsDownload
  <2>2. EstablishedInv' /\ HandshakeInv'
    BY <1>6, <2>1 DEF EstablishedInv, HandshakeInv
  <2> QED
    BY <1>1, <1>6, <2>1, <2>2 DEF DownloadInv
<1>7. ASSUME raced = {}, state = "ESTABLISHED"
      PROVE  /\ OrderInv(snd)
             /\ CountInv(snd, peer.down)
             /\ BufferInv(snd, peer.down)
             /\ inReceiveSet <=> ~snd.serverReadFinished
             /\ down.pc # "idle" => ~snd.serverReadFinished
  BY <1>7 DEF DownloadInv, EstablishedInv
<1>8. CASE readFromServer
  <2>1. /\ UNCHANGED raced
        /\ down' = [pc |-> "idle", space |-> 0]
        /\ peer'.iss = peer.iss
        /\ peer'.got = peer.got
    BY <1>1, <1>8 DEF readFromServer, TypeOK, Peers
  <2>2. CASE raced # {}
    BY <1>1, <1>2, <1>5, <1>8, <2>1, <2>2 DEF readFromServer, DownloadInv
  <2>3. CASE raced = {}
    <3>1. state = "ESTABLISHED" /\ ~snd.serverReadFinished /\ inReceiveSet
      BY <1>7, <1>8, <2>3 DEF DownloadInv, readFromServer
    <3>2. CASE UNCHANGED <<state, snd, inReceiveSet, peer>> /\ out' = {}
      <4>1. EstablishedInv'
        BY <1>7, <2>1, <2>3, <3>1, <3>2
        DEF EstablishedInv, OrderInv, CountInv, BufferInv
      <4> QED
        BY <1>1, <2>1, <2>3, <3>1, <3>2, <4>1 DEF DownloadInv, HandshakeInv
    <3>3. getSendAvailable(snd)
            = snd.sendSequence + sendLength - snd.sendNewDataSequence
      BY <1>1, <1>2, <1>7, <2>3, <3>1, AvailableValue
    <3>4. peer.iss \in ISSs /\ peer.iss + DownLen + 3 <= Modulus
      BY <3>1 DEF DownloadInv, NoWrap
    <3>5. ASSUME NEW n \in 1..Min2(getSendAvailable(snd), DownLen - peer.down),
                 flushDataToClient(received(snd, n), inReceiveSet),
                 peer' = [peer EXCEPT !.down = @ + n]
          PROVE  DownloadInv'
      <4> DEFINE s == received(snd, n)
      <4>1. /\ n \in Nat
            /\ n \in SeqNums
            /\ n <= snd.sendSequence + sendLength - snd.sendNewDataSequence
            /\ peer.down + n <= DownLen
        BY <1>2, <1>n, <3>3, <3>4, SessionAssumption DEF Min2, SeqNums
      <4>2. s \in SendFields
        BY <1>1, <4>1, ReceivedType
      <4>3. Plus(snd.sendNewDataSequence, n) = snd.sendNewDataSequence + n
        BY <1>2, <1>n, <1>7, <2>3, <3>1, <3>4, <4>1, PlusValue, SessionAssumption
        DEF CountInv, SeqNums
      <4>4. Minus(snd.sendNewDataSequence, snd.sendSequence)
              = snd.sendNewDataSequence - snd.sendSequence
        BY <1>2, <1>n, <1>7, <2>3, <3>1, MinusValue DEF OrderInv
      <4>5. /\ s.sendSequence = snd.sendSequence
            /\ s.sendUnacknowledged = snd.sendUnacknowledged
            /\ s.sendNext = snd.sendNext
            /\ s.sendNewDataSequence = snd.sendNewDataSequence + n
            /\ s.serverReadFinished = snd.serverReadFinished
            /\ s.sendBuffer = StoreBytes(snd.sendBuffer,
                                snd.sendNewDataSequence - snd.sendSequence, peer.down, n)
        BY <1>2, <1>n, <4>3, <4>4 DEF received, SendFields
      <4> HIDE DEF s
      <4>6. OrderInv(s)
        BY <1>2, <1>n, <1>7, <2>3, <3>1, <4>1, <4>5, SessionAssumption DEF OrderInv
      <4>7. CountInv(s, peer.down + n)
        BY <1>2, <1>n, <1>7, <2>3, <3>1, <4>1, <4>5 DEF CountInv
      <4>8. BufferInv(s, peer.down + n)
        <5>1. DOMAIN snd.sendBuffer = 0..(sendLength - 1) /\ sendLength \in Nat
          BY <1>2, <1>n, SessionAssumption DEF SendFields
        <5>2. /\ snd.sendNewDataSequence = peer.iss + 1 + peer.down
              /\ snd.sendSequence <= snd.sendNewDataSequence
          BY <1>2, <1>n, <1>7, <2>3, <3>1 DEF CountInv, OrderInv
        <5>3. ASSUME NEW q \in snd.sendSequence..(peer.iss + (peer.down + n))
              PROVE  s.sendBuffer[q - snd.sendSequence] = q - (peer.iss + 1)
          <6>0. q \in Nat /\ snd.sendSequence <= q /\ q <= peer.iss + peer.down + n
            BY <1>n, <4>1
          <6>1. q - snd.sendSequence \in 0..(sendLength - 1)
            BY <1>n, <4>1, <5>2, <6>0
          <6>2. CASE q < snd.sendNewDataSequence
            <7>1. snd.sendBuffer[q - snd.sendSequence] = q - (peer.iss + 1)
              BY <1>2, <1>n, <1>7, <2>3, <3>1, <5>2, <6>0, <6>2 DEF BufferInv
            <7> QED
              BY <1>n, <4>5, <5>1, <6>0, <6>1, <6>2, <7>1 DEF StoreBytes
          <6>3. CASE q >= snd.sendNewDataSequence
            <7>1. /\ snd.sendNewDataSequence - snd.sendSequence <= q - snd.sendSequence
                  /\ q - snd.sendSequence
                       < (snd.sendNewDataSequence - snd.sendSequence) + n
                  /\ peer.down + ((q - snd.sendSequence)
                                    - (snd.sendNewDataSequence - snd.sendSequence))
                       = q - (peer.iss + 1)
              BY <1>n, <4>1, <5>2, <6>0, <6>3
            <7> QED
              BY <4>5, <5>1, <6>1, <7>1 DEF StoreBytes
          <6> QED
            BY <1>n, <6>0, <6>2, <6>3
        <5> QED
          BY <4>5, <5>3 DEF BufferInv
      <4>9. peer.down + n \in Nat /\ peer'.down = peer.down + n
        BY <1>1, <1>2, <3>5, <4>1 DEF TypeOK, Peers
      <4> QED
        BY <1>2, <1>n, <1>6, <2>1, <2>3, <3>1, <3>5, <4>2, <4>5, <4>6, <4>7, <4>8, <4>9 DEF s
    <3>6. CASE flushDataToClient(snd, inReceiveSet) /\ UNCHANGED peer
      BY <1>2, <1>n, <1>6, <1>7, <2>1, <2>3, <3>1, <3>6
    <3>7. CASE /\ flushDataToClient(finished(snd), inReceiveSet /\ snd.serverReadFinished)
               /\ UNCHANGED peer
               /\ getSendAvailable(snd) > 0
      <4> DEFINE s == finished(snd)
      <4> DEFINE reg == inReceiveSet /\ snd.serverReadFinished
      <4>1. s \in SendFields
        BY <1>1, FinishedType
      <4>2. Plus(snd.sendNewDataSequence, 1) = snd.sendNewDataSequence + 1
        BY <1>2, <1>n, <1>7, <2>3, <3>1, <3>4, PlusValue, SessionAssumption
        DEF CountInv, SeqNums
      <4>3. /\ s.sendSequence = snd.sendSequence
            /\ s.sendUnacknowledged = snd.sendUnacknowledged
            /\ s.sendNext = snd.sendNext
            /\ s.sendNewDataSequence = snd.sendNewDataSequence + 1
            /\ s.serverReadFinished
            /\ s.sendBuffer = snd.sendBuffer
        BY <1>2, <1>n, <3>1, <4>2 DEF finished, SendFields
      <4>4. reg \in BOOLEAN /\ ~reg /\ flushDataToClient(s, reg)
        BY <3>1, <3>7
      <4> HIDE DEF s, reg
      <4>5. OrderInv(s)
        BY <1>2, <1>n, <1>7, <2>3, <3>1, <3>3, <3>7, <4>3, SessionAssumption DEF OrderInv
      <4>6. CountInv(s, peer.down)
        BY <1>2, <1>n, <1>7, <2>3, <3>1, <4>3 DEF CountInv
      <4>7. BufferInv(s, peer.down)
        BY <1>7, <2>3, <3>1, <4>3 DEF BufferInv
      <4> QED
        BY <1>2, <1>n, <1>6, <2>1, <2>3, <3>1, <3>7, <4>1, <4>3, <4>4, <4>5, <4>6, <4>7
    <3> QED
      BY <1>8, <3>2, <3>5, <3>6, <3>7 DEF readFromServer
  <2> QED
    BY <2>2, <2>3
<1>9. CASE flushToClient
  <2>1. /\ flushDataToClient(snd, inReceiveSet)
        /\ UNCHANGED <<down, peer, raced>>
        /\ down.pc = "idle"
        /\ state = "ESTABLISHED"
    BY <1>9 DEF flushToClient
  <2>2. CASE raced # {}
    BY <1>2, <1>n, <1>5, <2>1, <2>2
  <2>3. CASE raced = {}
    BY <1>2, <1>n, <1>6, <1>7, <2>1, <2>3
  <2> QED
    BY <2>2, <2>3
<1> QED
  BY <1>3, <1>4, <1>8, <1>9 DEF DownStream

-----------------------------------------------------------------------------
(* The up stream thread *)

\* A step that at most closes the session and raises sendUnacknowledged to
\* what the client has.
LEMMA Undisturbed ==
  ASSUME DownloadInv, TypeOK',
         state' \in {state, "CLOSED"},
         state' # "ESTABLISHED" => ~inReceiveSet',
         state' = "ESTABLISHED" => inReceiveSet' = inReceiveSet,
         UNCHANGED down,
         peer'.iss = peer.iss, peer'.got = peer.got, peer'.down = peer.down,
         raced' = {} => /\ raced = {}
                        /\ down.pc = "idle" \/ state' = state
                        /\ down.pc # "trim"
                             \/ snd'.sendUnacknowledged = snd.sendUnacknowledged,
         snd'.sendSequence = snd.sendSequence, snd'.sendNext = snd.sendNext,
         snd'.sendNewDataSequence = snd.sendNewDataSequence,
         snd'.sendBuffer = snd.sendBuffer,
         snd'.serverReadFinished = snd.serverReadFinished,
         \/ snd'.sendUnacknowledged = snd.sendUnacknowledged
         \/ /\ state = "ESTABLISHED"
            /\ snd.sendUnacknowledged <= snd'.sendUnacknowledged
            /\ snd'.sendUnacknowledged <= peer.got,
         \A g \in out' : g.kind # "DATA"
  PROVE  DownloadInv'
<1>1. ASSUME raced' = {}, state' = "ESTABLISHED"
      PROVE  OrderInv(snd)' /\ CountInv(snd, peer.down)' /\ BufferInv(snd, peer.down)'
  <2>1. /\ state = "ESTABLISHED"
        /\ OrderInv(snd)
        /\ CountInv(snd, peer.down)
        /\ BufferInv(snd, peer.down)
    BY <1>1 DEF DownloadInv, EstablishedInv
  <2>2. /\ snd.sendSequence \in Nat
        /\ snd.sendUnacknowledged \in Nat
        /\ snd'.sendUnacknowledged \in Nat
        /\ peer.got \in Nat
    BY DEF DownloadInv, TypeOK, SendFields, Peers, SeqNums
  <2> QED
    BY <2>1, <2>2 DEF OrderInv, CountInv, BufferInv
<1>2. ASSUME raced' = {}
      PROVE  EstablishedInv' /\ HandshakeInv'
  BY <1>1, <1>2 DEF DownloadInv, EstablishedInv, HandshakeInv
<1> QED
  BY <1>2 DEF DownloadInv

\* A flush writes nothing but a reset to the tunnel, whatever is made of the
\* fields it leaves.
NoData(f) ==
  /\ f.out \in {{}, Control("RST")}
  /\ \A r : [f EXCEPT !.rcv = r].out = f.out

LEMMA FlushWritesNoData ==
  ASSUME NEW r, NEW s, NEW up, NEW f \in flushDataToServer(r, s, up)
  PROVE  NoData(f)
<1>1. ASSUME NEW r1, NEW n, NEW taken, NEW short, NEW sent \in {{}, Control("RST")},
             NEW closes, NEW shuts
      PROVE  NoData(Flushed(r1, n, taken, short, sent, closes, shuts))
  BY DEF NoData, Flushed
<1>2. ASSUME NEW n
      PROVE  NoData(sentToServer(r, s, n, up))
  BY <1>1 DEF sentToServer
<1> QED
  BY <1>1, <1>2 DEF flushDataToServer, noFlush

LEMMA ControlIsNoData ==
  ASSUME NEW kind, kind # "DATA", NEW g \in Control(kind)
  PROVE  g.kind # "DATA"
BY DEF Control, Packet

LEMMA AcceptKeepsDownload ==
  ASSUME DownloadInv, TypeOK', state = "ESTABLISHED", NEW len, NEW fin,
         NEW ack \in ClientAcks, NEW late, acceptSegment(len, fin, ack, late)
  PROVE  DownloadInv'
<1> DEFINE s == [snd EXCEPT !.sendUnacknowledged = Max2(@, ack), !.retryCount = 0]
<1>1. ASSUME NEW f1 \in makeRoom(s, len)
      PROVE  f1.out \in {{}, Control("RST")}
  <2>1. ASSUME NEW f \in flushDataToServer(rcv, s, peer.up)
        PROVE  [f EXCEPT !.rcv = _trimReceiveBuffer(f.rcv)].out \in {{}, Control("RST")}
    BY FlushWritesNoData DEF NoData
  <2>2. noFlush(rcv).out = {}
    BY DEF noFlush, Flushed
  <2> QED
    BY <2>1, <2>2 DEF makeRoom
<1>2. ASSUME NEW f1, NEW f2 \in storeAndFlush(s, f1, len, fin)
      PROVE  f2.out \in {{}, Control("RST")}
  BY FlushWritesNoData DEF storeAndFlush, noFlush, Flushed, NoData
<1>3. PICK f1 \in makeRoom(s, len) :
        \E f2 \in storeAndFlush(s, f1, len, fin) : finishSegment(s, f1, f2, late)
  BY DEF acceptSegment
<1>4. PICK f2 \in storeAndFlush(s, f1, len, fin) : finishSegment(s, f1, f2, late)
  BY <1>3
<1>5. \A g \in out' : g.kind # "DATA"
  <2>1. out' \subseteq Control("RST") \cup Control("ACK")
    BY <1>1, <1>2, <1>4 DEF finishSegment
  <2> QED
    BY <2>1, ControlIsNoData
<1>6. /\ peer \in Peers
      /\ snd \in SendFields
      /\ snd.sendUnacknowledged \in Nat
      /\ peer.got \in Nat
      /\ peer.iss \in Nat
  BY DEF DownloadInv, TypeOK, SendFields, Peers, SeqNums
<1>7. ack \in Nat /\ ack <= peer.got
  BY <1>6 DEF ClientAcks
<1>8. /\ s.sendSequence = snd.sendSequence
      /\ s.sendNext = snd.sendNext
      /\ s.sendNewDataSequence = snd.sendNewDataSequence
      /\ s.sendBuffer = snd.sendBuffer
      /\ s.serverReadFinished = snd.serverReadFinished
      /\ s.sendUnacknowledged = Max2(snd.sendUnacknowledged, ack)
  BY <1>6 DEF SendFields
<1> HIDE DEF s
<1>9. \/ s.sendUnacknowledged = snd.sendUnacknowledged
      \/ /\ snd.sendUnacknowledged <= s.sendUnacknowledged
         /\ s.sendUnacknowledged <= peer.got
  BY <1>6, <1>7, <1>8 DEF Max2
<1>10. /\ snd' = s
       /\ UNCHANGED down
       /\ state' \in {state, "CLOSED"}
       /\ state' # "ESTABLISHED" => ~inReceiveSet'
       /\ state' = "ESTABLISHED" => inReceiveSet' = inReceiveSet
  BY <1>4 DEF finishSegment, closeSession, DownloadInv, TypeOK
<1>11. /\ peer'.iss = peer.iss
       /\ peer'.got = peer.got
       /\ peer'.down = peer.down
  BY <1>4, <1>6 DEF finishSegment, Peers
<1>12. raced' = {} => /\ raced = {}
                      /\ down.pc = "idle" \/ state' = state
                      /\ down.pc # "trim"
                           \/ snd'.sendUnacknowledged = snd.sendUnacknowledged
  BY <1>4 DEF finishSegment, Interferes
<1> QED
  BY <1>5, <1>8, <1>9, <1>10, <1>11, <1>12, Undisturbed

LEMMA UpStreamKeepsDownload ==
  ASSUME NoWrap, DownloadInv, UpStream
  PROVE  DownloadInv'
<1>1. TypeOK /\ TypeOK'
  BY UpStreamType DEF DownloadInv
<1>2. peer \in Peers /\ snd \in SendFields
  BY <1>1 DEF TypeOK
<1>3. ASSUME NEW kind, kind # "DATA", Answers(kind)
      PROVE  DownloadInv'
  <2>1. \A g \in out' : g.kind # "DATA"
    BY <1>3, ControlIsNoData DEF Answers
  <2>2. state # "ESTABLISHED" => ~inReceiveSet
    BY DEF DownloadInv
  <2> QED
    BY <1>1, <1>3, <2>1, <2>2, Undisturbed DEF Answers
<1>4. ASSUME NEW isn \in ClientISNs, receiveSyn(isn)
      PROVE  DownloadInv'
  <2>1. ASSUME NEW iss \in ISSs, NEW mss \in MSSs, NEW window \in Windows,
               NEW upTotal \in 0..UpLen, NEW connected \in BOOLEAN,
               reEstablish(isn, iss, mss, window, upTotal, connected)
        PROVE  DownloadInv'
    <3>1. /\ state = "CLOSED"
          /\ state' \in {"SYN_RECEIVED", "SYN_ACK_SENT"}
          /\ snd' = freshSend(iss)
          /\ out' \in {{}, Control("SYN_ACK")}
          /\ raced' = {} => down.pc = "idle"
          /\ UNCHANGED <<inReceiveSet, down>>
      BY <2>1 DEF reEstablish
    <3>2. \A g \in out' : g.kind # "DATA"
      BY <3>1, ControlIsNoData
    <3>3. iss \in SeqNums /\ 1 \in SeqNums /\ iss + 1 < Modulus
      BY SessionAssumption DEF SeqNums, NoWrap
    <3>4. peer'.iss = iss /\ peer'.got = iss + 1 /\ peer'.down = 0
      BY <1>2, <2>1, <3>3, PlusValue DEF reEstablish, Peers
    <3>5. HandshakeInv' /\ EstablishedInv'
      BY <3>1, <3>4 DEF HandshakeInv, EstablishedInv, freshSend
    <3> QED
      BY <1>1, <3>1, <3>2, <3>4, <3>5 DEF DownloadInv
  <2>2. CASE synInHandshake(isn)
    <3>1. CASE sendReset
      BY <1>3, <3>1 DEF sendReset
    <3>2. CASE ~sendReset
      <4>1. /\ state \in {"SYN_RECEIVED", "SYN_ACK_SENT"}
            /\ state' = "SYN_ACK_SENT"
            /\ out' = Control("SYN_ACK")
            /\ raced' = {} => raced = {}
            /\ UNCHANGED <<snd, inReceiveSet, down, peer>>
        BY <2>2, <3>2 DEF synInHandshake, Interferes
      <4>2. \A g \in out' : g.kind # "DATA"
        BY <4>1, ControlIsNoData
      <4> QED
        BY <1>1, <4>1, <4>2 DEF DownloadInv, HandshakeInv, EstablishedInv
    <3> QED
      BY <3>1, <3>2
  <2> QED
    BY <1>3, <1>4, <2>1, <2>2 DEF receiveSyn, sendReset, sendAck
<1>5. ASSUME NEW pos, NEW ack \in ClientAcks, ackOfSyn(ClientSeq(pos), ack)
      PROVE  DownloadInv'
  <2>1. CASE sendReset
    BY <1>3, <2>1 DEF sendReset
  <2>2. CASE ~sendReset
    <3>1. /\ state = "SYN_ACK_SENT"
          /\ state' = "ESTABLISHED"
          /\ ack = Plus(snd.sendUnacknowledged, 1)
          /\ inReceiveSet' = TRUE
          /\ out' = {}
          /\ raced' = {} => raced = {}
          /\ UNCHANGED <<down, peer>>
      BY <1>5, <2>2 DEF ackOfSyn, awaitsAck, Interferes, Quiet
    <3>2. /\ snd'.sendSequence = ack
          /\ snd'.sendUnacknowledged = ack
          /\ snd'.sendNext = ack
          /\ snd'.sendNewDataSequence = ack
          /\ snd'.serverReadFinished = snd.serverReadFinished
      BY <1>2, <1>5, <2>2 DEF ackOfSyn, SendFields
    <3>3. peer.iss \in ISSs
      BY <3>1 DEF DownloadInv
    <3>4. ASSUME raced' = {}
          PROVE  EstablishedInv'
      <4>1. /\ snd.sendUnacknowledged = peer.iss
            /\ ~snd.serverReadFinished
            /\ peer.down = 0
            /\ peer.got = peer.iss + 1
            /\ down.pc = "idle"
        BY <3>1, <3>4 DEF DownloadInv, HandshakeInv
      <4>2. /\ peer.iss \in SeqNums
            /\ 1 \in SeqNums
            /\ peer.iss + 1 < Modulus
            /\ peer.iss \in Nat
            /\ sendLength \in Nat
        <5>1. peer.iss + DownLen + 3 <= Modulus /\ peer.iss \in SeqNums
          BY <3>3, SessionAssumption DEF NoWrap, SeqNums
        <5> QED
          BY <5>1, SessionAssumption DEF SeqNums
      <4>3. ack = peer.iss + 1
        BY <3>1, <4>1, <4>2, PlusValue
      <4>4. OrderInv(snd)'
        BY <3>1, <3>2, <4>1, <4>2, <4>3 DEF OrderInv
      <4>5. CountInv(snd, peer.down)'
        BY <3>1, <3>2, <4>1, <4>2, <4>3 DEF CountInv
      <4>6. BufferInv(snd, peer.down)'
        BY <3>1, <3>2, <4>1, <4>2, <4>3 DEF BufferInv
      <4> QED
        BY <3>1, <3>2, <4>1, <4>4, <4>5, <4>6 DEF EstablishedInv
    <3> QED
      BY <1>1, <3>1, <3>3, <3>4 DEF DownloadInv, HandshakeInv
  <2> QED
    BY <2>1, <2>2
<1>6. ASSUME NEW pos \in 0..(peer.upTotal + 1), NEW len \in 0..UpLen,
             NEW fin \in BOOLEAN, NEW late \in BOOLEAN, NEW ack \in ClientAcks,
             receiveSegment(pos, len, fin, ack, late)
      PROVE  DownloadInv'
  BY <1>1, <1>3, <1>5, <1>6, AcceptKeepsDownload DEF receiveSegment, sendAck
<1>7. ASSUME NEW pos \in 0..(UpLen + 1), receiveReset(pos)
      PROVE  DownloadInv'
  <2>1. /\ state' = "CLOSED"
        /\ inReceiveSet' = FALSE
        /\ out' = {}
        /\ UNCHANGED <<snd, down, peer>>
        /\ raced' = {} => raced = {} /\ (down.pc = "idle" \/ state' = state)
    BY <1>7 DEF receiveReset, reset, closeSession, Quiet, Interferes
  <2> QED
    BY <1>1, <2>1, Undisturbed
<1>8. CASE receiveStray
  BY <1>3, <1>8 DEF receiveStray, sendReset
<1>9. CASE flushToServer
  <2>1. PICK f \in flushDataToServer(rcv, snd, peer.up) :
          /\ out' = f.out
          /\ peer' = [peer EXCEPT !.up = @ + f.took, !.shutdown = @ \/ f.shutdown,
                                  !.short = @ \/ f.short]
          /\ closeSession(f.closed, inReceiveSet)
          /\ Interferes
    BY <1>9 DEF flushToServer
  <2>2. \A g \in out' : g.kind # "DATA"
    BY <2>1, FlushWritesNoData, ControlIsNoData DEF NoData
  <2>3. /\ peer'.iss = peer.iss
        /\ peer'.got = peer.got
        /\ peer'.down = peer.down
    BY <1>2, <2>1 DEF Peers
  <2>4. /\ state = "ESTABLISHED"
        /\ state' \in {state, "CLOSED"}
        /\ state' # "ESTABLISHED" => ~inReceiveSet'
        /\ state' = "ESTABLISHED" => inReceiveSet' = inReceiveSet
        /\ UNCHANGED <<snd, down>>
        /\ raced' = {} => raced = {} /\ (down.pc = "idle" \/ state' = state)
    BY <1>1, <1>9, <2>1 DEF flushToServer, closeSession, Interferes, TypeOK
  <2> QED
    BY <1>1, <2>2, <2>3, <2>4, Undisturbed
<1> QED
  BY <1>4, <1>6, <1>7, <1>8, <1>9 DEF UpStream

LEMMA EnvironmentKeepsDownload ==
  ASSUME DownloadInv, Environment
  PROVE  DownloadInv'
<1>1. TypeOK /\ TypeOK'
  BY EnvironmentType DEF DownloadInv
<1>2. CASE tick \/ clientDies
  <2>1. /\ out' = {}
        /\ UNCHANGED <<state, snd, inReceiveSet, down, raced>>
    BY <1>2 DEF tick, clientDies, Quiet
  <2>2. /\ peer'.iss = peer.iss
        /\ peer'.got = peer.got
        /\ peer'.down = peer.down
    BY <1>1, <1>2 DEF tick, clientDies, TypeOK, Peers
  <2>3. state # "ESTABLISHED" => ~inReceiveSet
    BY DEF DownloadInv
  <2> QED
    BY <1>1, <2>1, <2>2, <2>3, Undisturbed
<1>3. CASE clientReceives
  <2>1. PICK got \in peer.got..snd.sendNext : peer' = [peer EXCEPT !.got = got]
    BY <1>3 DEF clientReceives
  <2>2. /\ out' = {}
        /\ state = "ESTABLISHED"
        /\ UNCHANGED <<state, snd, inReceiveSet, down, raced>>
    BY <1>3 DEF clientReceives, Quiet
  <2>3. peer'.iss = peer.iss /\ peer'.got = got /\ peer'.down = peer.down
    BY <1>1, <2>1 DEF TypeOK, Peers
  <2>4. ASSUME raced = {}
        PROVE  EstablishedInv'
    <3>1. EstablishedInv /\ OrderInv(snd)
      BY <2>2, <2>4 DEF DownloadInv, EstablishedInv
    <3>2. /\ snd.sendNext \in Nat
          /\ snd.sendUnacknowledged \in Nat
          /\ peer.got \in Nat
      BY <1>1 DEF TypeOK, SendFields, Peers, SeqNums
    <3>3. OrderInv(snd)'
      BY <2>2, <2>3, <3>1, <3>2 DEF OrderInv
    <3>4. CountInv(snd, peer.down)' /\ BufferInv(snd, peer.down)'
      BY <2>2, <2>3, <3>1 DEF EstablishedInv, CountInv, BufferInv
    <3> QED
      BY <2>2, <3>1, <3>3, <3>4 DEF EstablishedInv
  <2> QED
    BY <1>1, <2>2, <2>3, <2>4 DEF DownloadInv, HandshakeInv
<1> QED
  BY <1>2, <1>3 DEF Environment

-----------------------------------------------------------------------------
(* The theorems *)

LEMMA DownloadInductive ==
  ASSUME NoWrap
  PROVE  Spec => []DownloadInv
<1>1. Init => DownloadInv
  <2>1. Init => TypeOK
    BY InitType
  <2> QED
    BY <2>1 DEF Init, DownloadInv, HandshakeInv, EstablishedInv
<1>2. DownloadInv /\ [Next]_vars => DownloadInv'
  <2>1. ASSUME DownloadInv, UNCHANGED vars
        PROVE  DownloadInv'
    <3>1. TypeOK'
      BY <2>1 DEF DownloadInv, TypeOK, vars
    <3> QED
      BY <2>1, <3>1 DEF DownloadInv, HandshakeInv, EstablishedInv, OrderInv,
                        CountInv, BufferInv, SegmentFaithful, vars
  <2> QED
    BY <2>1, UpStreamKeepsDownload, DownStreamKeepsDownload, EnvironmentKeepsDownload
    DEF Next
<1> QED
  BY <1>1, <1>2, PTL DEF Spec

\* Every segment flushDataToClient writes carries the server's bytes at the
\* sequence numbers it says, through every trim, retransmission, lost or
\* repeated packet and re-established session, for all buffer and segment
\* sizes, as long as receiveFromClient moved nothing under a
\* receiveFromServer in progress and sequence numbers do not wrap.
THEOREM DownloadIsFaithful ==
  ASSUME NoWrap
  PROVE  Spec => []DownloadFaithful
<1>1. DownloadInv => DownloadFaithful
  BY DEF DownloadInv, DownloadFaithful
<1> QED
  BY <1>1, DownloadInductive, PTL

\* sendSequence, sendUnacknowledged, sendNext and sendNewDataSequence stay in
\* order and within the buffer's capacity, under the same two conditions.
THEOREM SendWindowIsOrdered ==
  ASSUME NoWrap
  PROVE  Spec => []SendWindowOrdered
<1>1. DownloadInv => SendWindowOrdered
  <2> SUFFICES ASSUME DownloadInv, raced = {}, state = "ESTABLISHED"
               PROVE  /\ snd.sendSequence <= snd.sendUnacknowledged
                      /\ snd.sendUnacknowledged <= snd.sendNext
                      /\ snd.sendNext <= snd.sendNewDataSequence
                      /\ snd.sendNewDataSequence <= snd.sendSequence + sendLength
    BY DEF SendWindowOrdered
  <2>1. OrderInv(snd)
    BY DEF DownloadInv, EstablishedInv
  <2>2. /\ snd.sendUnacknowledged \in Nat
        /\ snd.sendNext \in Nat
        /\ peer.got \in Nat
    BY DEF DownloadInv, TypeOK, SendFields, Peers, SeqNums
  <2> QED
    BY <2>1, <2>2 DEF OrderInv
<1> QED
  BY <1>1, DownloadInductive, PTL

\* The down stream thread selects on the socket exactly while the session is
\* established and the server has not finished.
THEOREM FdIsRegistered ==
  ASSUME NoWrap
  PROVE  Spec => []FdRegistration
<1>1. DownloadInv => FdRegistration
  BY DEF DownloadInv, EstablishedInv, FdRegistration, TypeOK
<1> QED
  BY <1>1, DownloadInductive, PTL

-----------------------------------------------------------------------------
(* Nothing is skipped: sendNext moves only over what was written *)

\* Among the numbers at distance m from seq on, one starts the stretch that
\* b lies in.
LEMMA SegmentStart ==
  ASSUME NEW m \in Nat \ {0}, NEW seq \in Nat, NEW b \in Nat, seq <= b
  PROVE  \E p \in Nat : seq <= p /\ p <= b /\ b < p + m /\ (p - seq) % m = 0
<1> DEFINE a == b - seq
           t == a \div m
           r == a % m
           x == m * t
           k == x \div m
           z == x % m
<1>1. a \in Nat
  OBVIOUS
<1> HIDE DEF a
<1>2. t \in Nat /\ r \in 0..(m - 1) /\ a = m * t + r
  BY <1>1
<1> HIDE DEF t, r
<1>3. x \in Nat /\ a = x + r
  BY <1>2
\* x is the greatest multiple of m not above a: its remainder is zero.
<1>4. z = 0
  <2>1. k \in Int /\ z \in 0..(m - 1) /\ x = m * k + z
    <3> HIDE DEF x
    <3>1. x \in Int /\ m \in Nat \ {0}
      BY <1>3
    <3> QED
      BY <3>1
  <2> HIDE DEF k, z
  <2> DEFINE d == t - k
  <2>2. d \in Int /\ m * d = z
    BY <1>2, <2>1
  <2> HIDE DEF d
  <2>3. d >= 1 => m * d >= m
    BY <2>2
  <2>4. d < 0 => m * d < 0
    BY <2>2
  <2>5. d = 0 => m * d = 0
    BY <2>2
  <2> QED
    BY <2>1, <2>2, <2>3, <2>4, <2>5
<1> HIDE DEF x
<1>5. (b - r) - seq = x
  BY <1>1, <1>2, <1>3 DEF a
<1>6. b - r \in Nat /\ seq <= b - r /\ b - r <= b /\ b < (b - r) + m
  BY <1>2, <1>3, <1>5
<1>7. ((b - r) - seq) % m = 0
  BY <1>4, <1>5, Zenon DEF z
<1> QED
  BY <1>6, <1>7

\* The segments sendDataStartingFrom writes cover every number from seq to
\* the end of the data, and the FIN behind it.
LEMMA SegmentsCover ==
  ASSUME TypeOK, opt.mss \in MSSs, NEW s \in SendFields, NEW seq \in Nat,
         NEW q \in Nat, seq <= q, q < s.sendNewDataSequence
  PROVE  \E g \in sendDataStartingFrom(s, seq) :
           q \in DOMAIN g.bytes \/ (g.fin /\ q = s.sendNewDataSequence - 1)
<1> DEFINE end == DataEnd(s)
           nd == s.sendNewDataSequence
           len(p) == Min2(end - p, opt.mss)
<1>1. /\ nd \in Nat
      /\ opt.mss \in Nat \ {0}
      /\ s.serverReadFinished \in BOOLEAN
      /\ end \in Int
      /\ end = IF s.serverReadFinished THEN nd - 1 ELSE nd
  <2>1. opt.mss \in Nat \ {0}
    BY SessionAssumption
  <2>2. nd \in Nat /\ s.serverReadFinished \in BOOLEAN
    BY DEF SendFields, SeqNums
  <2> QED
    BY <2>1, <2>2 DEF DataEnd
<1> HIDE DEF end, nd
<1>2. ASSUME NEW p \in Nat, seq <= p, p < nd, (p - seq) % opt.mss = 0,
             p < end \/ p = seq
      PROVE  /\ Segment(s, p) \in sendDataStartingFrom(s, seq)
             /\ DOMAIN Segment(s, p).bytes = p..(p + len(p) - 1)
             /\ Segment(s, p).fin <=> s.serverReadFinished /\ p + len(p) = end
  <2>1. p \in seq..(s.sendNewDataSequence - 1)
    BY <1>1, <1>2 DEF nd
  <2> QED
    BY <1>2, <2>1 DEF sendDataStartingFrom, Segment, Packet, end
\* The segment that holds the byte with number b.
<1>3. ASSUME NEW b \in Nat, seq <= b
      PROVE  \E p \in Nat : /\ seq <= p /\ p <= b /\ b < p + opt.mss
                            /\ (p - seq) % opt.mss = 0
  BY <1>1, <1>3, SegmentStart
<1>4. CASE q < end
  <2>1. PICK p \in Nat : /\ seq <= p /\ p <= q /\ q < p + opt.mss
                         /\ (p - seq) % opt.mss = 0
    BY <1>3, <1>4
  <2>2. p < nd /\ p < end /\ len(p) \in Nat /\ q <= p + len(p) - 1
    BY <1>1, <1>4, <2>1 DEF Min2, nd
  <2>3. q \in p..(p + len(p) - 1)
    BY <2>1, <2>2
  <2> QED
    BY <1>2, <2>1, <2>2, <2>3
<1>5. CASE ~(q < end)
  <2>1. s.serverReadFinished /\ q = nd - 1 /\ end = q
    BY <1>1, <1>5 DEF nd
  <2>2. CASE end = seq
    <3>1. len(seq) = 0 /\ (seq - seq) % opt.mss = 0 /\ seq < nd
      <4>1. len(seq) = 0 /\ seq - seq = 0 /\ seq < nd
        BY <1>1, <2>1, <2>2 DEF Min2
      <4>2. 0 % opt.mss = 0
        BY <1>1
      <4> QED
        BY <4>1, <4>2
    <3> QED
      BY <1>2, <2>1, <2>2, <3>1 DEF nd
  <2>3. CASE end # seq
    <3>1. end - 1 \in Nat /\ seq <= end - 1 /\ end - 1 < end
      BY <1>1, <2>1, <2>3
    <3>2. PICK p \in Nat : /\ seq <= p /\ p <= end - 1 /\ end - 1 < p + opt.mss
                           /\ (p - seq) % opt.mss = 0
      BY <1>3, <3>1
    <3>3. p < nd /\ p < end /\ p + len(p) = end
      BY <1>1, <2>1, <3>2 DEF Min2
    <3> QED
      BY <1>2, <2>1, <3>2, <3>3 DEF nd
  <2> QED
    BY <2>2, <2>3
<1> QED
  BY <1>4, <1>5

\* s numbers no more than the n bytes the server has given and its FIN.
WithinStream(s, n) ==
  s.sendNewDataSequence <= peer.iss + 1 + n + (IF s.serverReadFinished THEN 1 ELSE 0)

\* Nothing is acknowledged that was not sent, nor sent that is not there.
SentOrder(s) ==
  /\ s.sendUnacknowledged <= s.sendNext
  /\ peer.got <= s.sendNext
  /\ s.sendNext <= s.sendNewDataSequence

\* What holds of these numbers however the threads race.
SentInv ==
  /\ TypeOK
  /\ state # "CLOSED" => peer.iss \in ISSs /\ WithinStream(snd, peer.down)
  /\ state \in {"SYN_RECEIVED", "SYN_ACK_SENT"} =>
       snd.sendUnacknowledged = peer.iss /\ peer.got = peer.iss + 1
  /\ state = "ESTABLISHED" => SentOrder(snd)

\* Every number sendNext passes is in a segment of this call.
WritesAll ==
  \A q \in snd.sendNext..(snd'.sendNext - 1) :
    \E g \in out' : q \in DOMAIN g.bytes
                    \/ (g.fin /\ q = snd'.sendNewDataSequence - 1)

LEMMA FlushWritesAll ==
  ASSUME TypeOK, state = "ESTABLISHED", NEW s \in SendFields,
         s.sendNext = snd.sendNext, SentOrder(s), peer.got \in Nat,
         NEW reg, flushDataToClient(s, reg)
  PROVE  /\ WritesAll
         /\ snd'.sendUnacknowledged = s.sendUnacknowledged
         /\ snd'.sendNewDataSequence = s.sendNewDataSequence
         /\ snd'.serverReadFinished = s.serverReadFinished
         /\ s.sendNext <= snd'.sendNext
         /\ snd'.sendNext <= s.sendNewDataSequence
<1> DEFINE sends == (timedOut(s) /\ ~givesUp(s)) \/ (~timedOut(s) /\ hasNewData(s))
           from == IF timedOut(s) THEN s.sendUnacknowledged ELSE s.sendNext
           retry == IF retries(s) THEN s.retryCount + 1 ELSE s.retryCount
<1>1. /\ s.sendUnacknowledged \in Nat /\ s.sendNext \in Nat
      /\ s.sendNewDataSequence \in Nat
      /\ opt.mss \in MSSs
  BY DEF SendFields, SeqNums, TypeOK
<1>2. CASE snd' = s
  BY <1>1, <1>2 DEF WritesAll, SentOrder
<1>3. CASE snd' # s
  <2>1. /\ sends
        /\ snd' = [s EXCEPT !.sendNext = s.sendNewDataSequence, !.retryCount = retry]
        /\ out' = sendDataStartingFrom(s, from)
    BY <1>3 DEF flushDataToClient
  <2> HIDE DEF sends, from, retry
  <2>2. /\ snd'.sendUnacknowledged = s.sendUnacknowledged
        /\ snd'.sendNewDataSequence = s.sendNewDataSequence
        /\ snd'.serverReadFinished = s.serverReadFinished
        /\ snd'.sendNext = s.sendNewDataSequence
    BY <2>1 DEF SendFields
  <2>3. from \in Nat /\ from <= s.sendNext
    BY <1>1 DEF from, SentOrder
  <2>4. ASSUME NEW q \in snd.sendNext..(snd'.sendNext - 1)
        PROVE  \E g \in out' : q \in DOMAIN g.bytes
                               \/ (g.fin /\ q = snd'.sendNewDataSequence - 1)
    <3>1. q \in Nat /\ from <= q /\ q < s.sendNewDataSequence
      BY <1>1, <2>2, <2>3
    <3>2. \E g \in sendDataStartingFrom(s, from) :
            q \in DOMAIN g.bytes \/ (g.fin /\ q = s.sendNewDataSequence - 1)
      BY <1>1, <2>3, <3>1, SegmentsCover
    <3> QED
      BY <2>1, <2>2, <3>2
  <2> QED
    BY <1>1, <2>2, <2>4 DEF WritesAll, SentOrder
<1> QED
  BY <1>2, <1>3

\* A call of flushDataToClient in readFromServer or by the Handler, with
\* fields s and n bytes received.
LEMMA FlushSent ==
  ASSUME SentInv, TypeOK', NEW s \in SendFields, NEW n \in Nat, NEW reg,
         flushDataToClient(s, reg),
         s.sendUnacknowledged = snd.sendUnacknowledged,
         s.sendNext = snd.sendNext,
         snd.sendNewDataSequence <= s.sendNewDataSequence,
         state # "CLOSED" => WithinStream(s, n),
         peer'.iss = peer.iss, peer'.got = peer.got, peer'.down = n
  PROVE  SentInv' /\ (state = "ESTABLISHED" => WritesAll)
<1>1. /\ TypeOK /\ peer.got \in Nat
      /\ snd.sendNext \in Nat /\ snd.sendNewDataSequence \in Nat
      /\ s.sendUnacknowledged \in Nat /\ s.sendNewDataSequence \in Nat
  <2>1. TypeOK /\ peer \in Peers /\ snd \in SendFields
    BY DEF SentInv, TypeOK
  <2> QED
    BY <2>1 DEF Peers, SendFields, SeqNums
<1>2. CASE state = "ESTABLISHED"
  <2>1. SentOrder(s)
    BY <1>1, <1>2 DEF SentInv, SentOrder
  <2>2. /\ WritesAll
        /\ snd'.sendUnacknowledged = s.sendUnacknowledged
        /\ snd'.sendNewDataSequence = s.sendNewDataSequence
        /\ snd'.serverReadFinished = s.serverReadFinished
        /\ s.sendNext <= snd'.sendNext
        /\ snd'.sendNext <= s.sendNewDataSequence
    BY <1>1, <1>2, <2>1, FlushWritesAll
  <2>3. snd'.sendNext \in Nat
    BY DEF TypeOK, SendFields, SeqNums
  <2>4. SentOrder(snd)'
    BY <1>1, <2>1, <2>2, <2>3 DEF SentOrder
  <2>5. WithinStream(snd, peer.down)'
    BY <1>2, <2>2 DEF WithinStream
  <2>6. state' \in {"ESTABLISHED", "CLOSED"} /\ peer.iss \in ISSs
    BY <1>2 DEF flushDataToClient, closeSession, SentInv
  <2> QED
    BY <2>2, <2>4, <2>5, <2>6 DEF SentInv
<1>3. CASE state # "ESTABLISHED"
  <2>1. snd' = s /\ state' = state
    BY <1>3 DEF flushDataToClient
  <2>2. state # "CLOSED" => WithinStream(snd, peer.down)'
    BY <2>1 DEF WithinStream
  <2> QED
    BY <1>3, <2>1, <2>2 DEF SentInv
<1> QED
  BY <1>2, <1>3

LEMMA DownStreamSent ==
  ASSUME NoWrap, SentInv, TypeOK', DownStream
  PROVE  SentInv' /\ (state = "ESTABLISHED" => WritesAll)
<1>1. /\ TypeOK /\ snd \in SendFields /\ peer \in Peers
      /\ peer.down \in 0..DownLen /\ DownLen \in Nat /\ Modulus \in Nat
      /\ state # "CLOSED" => peer.iss \in ISSs /\ peer.iss + DownLen + 3 <= Modulus
  BY SessionAssumption DEF SentInv, TypeOK, Peers, NoWrap
<1>2. /\ snd.sendNewDataSequence \in Nat /\ snd.sendNext \in Nat
      /\ snd.serverReadFinished \in BOOLEAN /\ peer.iss \in Nat
  BY <1>1 DEF SendFields, Peers, SeqNums
<1>3. ASSUME UNCHANGED <<state, peer>>,
             snd'.sendUnacknowledged = snd.sendUnacknowledged,
             snd'.sendNext = snd.sendNext,
             snd'.sendNewDataSequence = snd.sendNewDataSequence,
             snd'.serverReadFinished = snd.serverReadFinished
      PROVE  SentInv' /\ WritesAll
  <2>1. WithinStream(snd, peer.down) => WithinStream(snd, peer.down)'
    BY <1>3 DEF WithinStream
  <2>2. SentOrder(snd) => SentOrder(snd)'
    BY <1>3 DEF SentOrder
  <2>3. WritesAll
    BY <1>2, <1>3 DEF WritesAll
  <2> QED
    BY <1>3, <2>1, <2>2, <2>3 DEF SentInv
<1>4. CASE receiveFromServer
  BY <1>3, <1>4 DEF receiveFromServer
<1>5. CASE trimSendBuffer
  BY <1>1, <1>3, <1>5 DEF trimSendBuffer, SendFields
<1>6. ASSUME NEW reg, flushDataToClient(snd, reg), UNCHANGED peer
      PROVE  SentInv' /\ (state = "ESTABLISHED" => WritesAll)
  BY <1>1, <1>2, <1>6, FlushSent DEF SentInv
<1>7. CASE readFromServer
  <2>1. CASE UNCHANGED <<state, snd, inReceiveSet, timerExpired, peer>>
    BY <1>3, <2>1
  <2>2. ASSUME NEW n \in 1..Min2(getSendAvailable(snd), DownLen - peer.down),
               state # "CLOSED", flushDataToClient(received(snd, n), inReceiveSet),
               peer' = [peer EXCEPT !.down = @ + n]
        PROVE  SentInv' /\ (state = "ESTABLISHED" => WritesAll)
    <3> DEFINE s == received(snd, n)
    <3>1. getSendAvailable(snd) \in SeqNums
      BY <1>1, AvailableType
    <3>2. n \in SeqNums /\ n \in Nat /\ peer.down + n \in 0..DownLen
      BY <1>1, <2>2, <3>1 DEF Min2, SeqNums
    <3>3. s \in SendFields
      BY <1>1, <3>2, ReceivedType
    <3>4. Plus(snd.sendNewDataSequence, n) = snd.sendNewDataSequence + n
      BY <1>1, <1>2, <2>2, <3>2 DEF SentInv, WithinStream, Plus
    <3>5. /\ s.sendUnacknowledged = snd.sendUnacknowledged
          /\ s.sendNext = snd.sendNext
          /\ s.sendNewDataSequence = snd.sendNewDataSequence + n
          /\ s.serverReadFinished = snd.serverReadFinished
      BY <1>1, <3>4 DEF received, SendFields
    <3> HIDE DEF s
    <3>6. /\ snd.sendNewDataSequence <= s.sendNewDataSequence
          /\ WithinStream(s, peer.down + n)
      BY <1>1, <1>2, <2>2, <3>2, <3>5 DEF SentInv, WithinStream
    <3>7. peer'.iss = peer.iss /\ peer'.got = peer.got /\ peer'.down = peer.down + n
      BY <1>1, <2>2 DEF Peers
    <3>8. flushDataToClient(s, inReceiveSet) /\ peer.down + n \in Nat
      BY <1>1, <2>2, <3>2 DEF s
    <3> QED
      BY <3>3, <3>5, <3>6, <3>7, <3>8, FlushSent
  <2>3. ASSUME NEW reg, flushDataToClient(finished(snd), reg), UNCHANGED peer
        PROVE  SentInv' /\ (state = "ESTABLISHED" => WritesAll)
    <3> DEFINE s == finished(snd)
    <3>1. s \in SendFields
      BY <1>1, FinishedType
    <3>2. /\ s.sendUnacknowledged = snd.sendUnacknowledged
          /\ s.sendNext = snd.sendNext
          /\ s.serverReadFinished = TRUE
          /\ s.sendNewDataSequence = IF snd.serverReadFinished
                                     THEN snd.sendNewDataSequence
                                     ELSE Plus(snd.sendNewDataSequence, 1)
      BY <1>1 DEF finished, SendFields
    <3> HIDE DEF s
    <3>3. CASE state # "CLOSED"
      <4>1. Plus(snd.sendNewDataSequence, 1) = snd.sendNewDataSequence + 1
               \/ snd.serverReadFinished
        BY <1>1, <1>2, <3>3 DEF SentInv, WithinStream, Plus
      <4>2. /\ snd.sendNewDataSequence <= s.sendNewDataSequence
            /\ WithinStream(s, peer.down)
        BY <1>1, <1>2, <3>2, <3>3, <4>1 DEF SentInv, WithinStream
      <4>3. flushDataToClient(s, reg) /\ peer.down \in Nat
        BY <1>1, <2>3 DEF s
      <4> QED
        BY <2>3, <3>1, <3>2, <4>2, <4>3, FlushSent
    <3>4. CASE state = "CLOSED"
      <4>1. state' = "CLOSED"
        BY <2>3, <3>4 DEF flushDataToClient
      <4> QED
        BY <3>4, <4>1 DEF SentInv
    <3> QED
      BY <3>3, <3>4
  <2> QED
    BY <1>6, <1>7, <2>1, <2>2, <2>3 DEF readFromServer
<1>8. CASE flushToClient
  BY <1>6, <1>8 DEF flushToClient
<1> QED
  BY <1>4, <1>5, <1>7, <1>8 DEF DownStream

\* A step that leaves the numbers of the send buffer alone, or the session
\* closed.
LeavesSent ==
  /\ UNCHANGED snd
  /\ peer'.iss = peer.iss /\ peer'.got = peer.got /\ peer'.down = peer.down
  /\ \/ state' \in {state, "CLOSED"}
     \/ {state, state'} \subseteq {"SYN_RECEIVED", "SYN_ACK_SENT"}

LEMMA UntouchedSent ==
  ASSUME SentInv, TypeOK', LeavesSent
  PROVE  SentInv' /\ WritesAll
<1>1. WithinStream(snd, peer.down) => WithinStream(snd, peer.down)'
  BY DEF LeavesSent, WithinStream
<1>2. SentOrder(snd) => SentOrder(snd)'
  BY DEF LeavesSent, SentOrder
<1>3. WritesAll
  <2>1. snd.sendNext \in Nat
    BY DEF SentInv, TypeOK, SendFields, SeqNums
  <2> QED
    BY <2>1 DEF LeavesSent, WritesAll
<1> QED
  BY <1>1, <1>2, <1>3 DEF SentInv, LeavesSent

LEMMA UpStreamSent ==
  ASSUME NoWrap, SentInv, TypeOK', UpStream
  PROVE  SentInv' /\ (state = "ESTABLISHED" => WritesAll)
<1>1. /\ TypeOK /\ snd \in SendFields /\ peer \in Peers /\ Modulus \in Nat
      /\ snd.sendUnacknowledged \in SeqNums
      /\ peer.iss \in Nat /\ peer.down \in Nat
  <2>1. TypeOK /\ snd \in SendFields /\ peer \in Peers
    BY DEF SentInv, TypeOK
  <2> QED
    BY <2>1, SessionAssumption DEF SendFields, Peers, SeqNums
<1>2. ASSUME NEW kind, Answers(kind)
      PROVE  SentInv' /\ WritesAll
  BY <1>2, UntouchedSent DEF Answers, LeavesSent
<1>3. ASSUME NEW isn \in ClientISNs, receiveSyn(isn)
      PROVE  SentInv' /\ (state = "ESTABLISHED" => WritesAll)
  <2>1. ASSUME NEW iss \in ISSs, NEW mss, NEW window, NEW upTotal, NEW connected,
               reEstablish(isn, iss, mss, window, upTotal, connected)
        PROVE  SentInv' /\ state # "ESTABLISHED"
    <3>1. iss \in Nat /\ Plus(iss, 1) = iss + 1
      BY SessionAssumption DEF NoWrap, Plus
    <3>2. peer'.iss = iss /\ peer'.got = iss + 1 /\ peer'.down = 0
      <4>1. peer' = [peer EXCEPT !.isn = isn, !.iss = iss, !.got = Plus(iss, 1),
                       !.upTotal = upTotal, !.up = 0, !.down = 0,
                       !.shutdown = FALSE, !.short = FALSE]
        BY <2>1 DEF reEstablish
      <4> QED
        BY <1>1, <3>1, <4>1 DEF Peers
    <3>3. /\ snd'.sendUnacknowledged = iss
          /\ snd'.sendNewDataSequence = iss
          /\ snd'.serverReadFinished = FALSE
      BY <2>1 DEF reEstablish, freshSend
    <3>4. WithinStream(snd, peer.down)'
      BY <3>1, <3>2, <3>3 DEF WithinStream
    <3>5. state' \in {"SYN_RECEIVED", "SYN_ACK_SENT"} /\ state = "CLOSED"
      BY <2>1 DEF reEstablish
    <3> QED
      BY <3>2, <3>3, <3>4, <3>5 DEF SentInv
  <2>2. CASE synInHandshake(isn)
    <3>1. CASE sendReset
      BY <1>2, <3>1 DEF sendReset
    <3>2. CASE ~sendReset
      BY <2>2, <3>2, UntouchedSent DEF synInHandshake, LeavesSent
    <3> QED
      BY <3>1, <3>2
  <2> QED
    BY <1>2, <1>3, <2>1, <2>2 DEF receiveSyn, sendReset, sendAck
<1>4. ASSUME NEW pos, NEW len, NEW fin, NEW late, NEW ack \in ClientAcks,
             receiveSegment(pos, len, fin, ack, late)
      PROVE  SentInv' /\ (state = "ESTABLISHED" => WritesAll)
  <2>1. ack \in Nat /\ ack <= peer.got /\ peer.got \in Nat
    BY <1>1 DEF ClientAcks, Peers, SeqNums
  <2>2. CASE ackOfSyn(ClientSeq(pos), ack)
    <3>1. CASE sendReset
      BY <1>2, <3>1 DEF sendReset
    <3>2. CASE ~sendReset
      <4>1. /\ state = "SYN_ACK_SENT" /\ state' = "ESTABLISHED"
            /\ ack = Plus(snd.sendUnacknowledged, 1)
            /\ snd' = [snd EXCEPT !.sendSequence = ack, !.sendUnacknowledged = ack,
                                  !.sendNewDataSequence = ack, !.sendNext = ack]
            /\ UNCHANGED peer
        BY <2>2, <3>2 DEF ackOfSyn, awaitsAck
      <4>2. peer.iss \in ISSs /\ snd.sendUnacknowledged = peer.iss /\ peer.got = peer.iss + 1
        BY <4>1 DEF SentInv
      <4>3. ack = peer.iss + 1
        <5>1. peer.iss + 1 < Modulus
          BY <1>1, <4>2, SessionAssumption DEF NoWrap
        <5> QED
          BY <4>1, <4>2, <5>1 DEF Plus
      <4>4. /\ snd'.sendUnacknowledged = ack /\ snd'.sendNext = ack
            /\ snd'.sendNewDataSequence = ack
        BY <1>1, <4>1 DEF SendFields
      <4>5. WithinStream(snd, peer.down)' /\ SentOrder(snd)'
        BY <1>1, <2>1, <4>1, <4>2, <4>3, <4>4 DEF WithinStream, SentOrder
      <4> QED
        BY <4>1, <4>2, <4>5 DEF SentInv
    <3> QED
      BY <3>1, <3>2
  <2>3. CASE state = "ESTABLISHED" /\ acceptSegment(len, fin, ack, late)
    <3>1. /\ snd' = [snd EXCEPT !.sendUnacknowledged = Max2(@, ack), !.retryCount = 0]
          /\ state' \in {"ESTABLISHED", "CLOSED"}
      BY <2>3 DEF acceptSegment, finishSegment, closeSession
    <3>2. peer'.iss = peer.iss /\ peer'.got = peer.got /\ peer'.down = peer.down
      <4>1. PICK s : \E f1 \in makeRoom(s, len) :
              \E f2 \in storeAndFlush(s, f1, len, fin) : finishSegment(s, f1, f2, late)
        BY <2>3 DEF acceptSegment
      <4>2. PICK f1, f2 : finishSegment(s, f1, f2, late)
        BY <4>1
      <4>3. peer' = [peer EXCEPT !.up = @ + f1.took + f2.took,
                                 !.shutdown = @ \/ f2.shutdown,
                                 !.short = @ \/ f1.short \/ f2.short]
        BY <4>2 DEF finishSegment
      <4> QED
        BY <1>1, <4>3 DEF Peers
    <3>3. /\ snd'.sendUnacknowledged = Max2(snd.sendUnacknowledged, ack)
          /\ snd'.sendNext = snd.sendNext
          /\ snd'.sendNewDataSequence = snd.sendNewDataSequence
          /\ snd'.serverReadFinished = snd.serverReadFinished
      BY <1>1, <3>1 DEF SendFields
    <3>4. /\ snd.sendUnacknowledged \in Nat /\ snd.sendNext \in Nat
          /\ SentOrder(snd) /\ WithinStream(snd, peer.down) /\ peer.iss \in ISSs
      BY <1>1, <2>3 DEF SentInv, SendFields, SeqNums
    <3>5. SentOrder(snd)'
      BY <2>1, <3>2, <3>3, <3>4 DEF SentOrder, Max2
    <3>6. WithinStream(snd, peer.down)'
      BY <3>2, <3>3, <3>4 DEF WithinStream
    <3>7. WritesAll
      BY <3>3, <3>4 DEF WritesAll
    <3> QED
      BY <3>1, <3>2, <3>4, <3>5, <3>6, <3>7 DEF SentInv
  <2> QED
    BY <1>2, <1>4, <2>2, <2>3 DEF receiveSegment, sendAck
<1>5. ASSUME NEW pos, receiveReset(pos)
      PROVE  SentInv' /\ WritesAll
  BY <1>5, UntouchedSent DEF receiveReset, reset, closeSession, LeavesSent
<1>6. CASE receiveStray
  BY <1>2, <1>6 DEF receiveStray, sendReset
<1>7. CASE flushToServer
  <2>1. PICK f : peer' = [peer EXCEPT !.up = @ + f.took, !.shutdown = @ \/ f.shutdown,
                                      !.short = @ \/ f.short]
    BY <1>7 DEF flushToServer
  <2>2. peer'.iss = peer.iss /\ peer'.got = peer.got /\ peer'.down = peer.down
    BY <1>1, <2>1 DEF Peers
  <2>3. snd' = snd /\ state' \in {state, "CLOSED"}
    BY <1>7 DEF flushToServer, closeSession
  <2> QED
    BY <2>2, <2>3, UntouchedSent DEF LeavesSent
<1> QED
  BY <1>3, <1>4, <1>5, <1>6, <1>7 DEF UpStream

LEMMA EnvironmentSent ==
  ASSUME SentInv, TypeOK', Environment
  PROVE  SentInv' /\ WritesAll
<1>1. /\ peer \in Peers /\ snd.sendNext \in Nat /\ peer.got \in Nat
      /\ snd.sendUnacknowledged \in Nat
  BY DEF SentInv, TypeOK, SendFields, Peers, SeqNums
<1>2. CASE tick
  BY <1>2, UntouchedSent DEF tick, LeavesSent
<1>3. CASE clientDies
  BY <1>1, <1>3, UntouchedSent DEF clientDies, LeavesSent, Peers
<1>4. CASE clientReceives
  <2>1. PICK got \in peer.got..snd.sendNext : peer' = [peer EXCEPT !.got = got]
    BY <1>4 DEF clientReceives
  <2>2. peer'.got = got /\ peer'.iss = peer.iss /\ peer'.down = peer.down
    BY <1>1, <2>1 DEF Peers
  <2>3. snd' = snd /\ state' = state /\ state = "ESTABLISHED"
    BY <1>4 DEF clientReceives
  <2>4. SentOrder(snd)'
    BY <1>1, <2>1, <2>2, <2>3 DEF SentInv, SentOrder
  <2>5. WithinStream(snd, peer.down)'
    BY <2>2, <2>3 DEF SentInv, WithinStream
  <2>6. WritesAll
    BY <1>1, <2>3 DEF WritesAll
  <2> QED
    BY <2>2, <2>3, <2>4, <2>5, <2>6 DEF SentInv
<1> QED
  BY <1>2, <1>3, <1>4 DEF Environment

LEMMA StepSent ==
  ASSUME NoWrap, SentInv, [Next]_vars
  PROVE  SentInv' /\ (state = "ESTABLISHED" => WritesAll)
<1>1. TypeOK
  BY DEF SentInv
<1>2. TypeOK'
  <2>1. CASE UNCHANGED vars
    BY <1>1, <2>1 DEF vars, TypeOK
  <2> QED
    BY <1>1, <2>1, UpStreamType, DownStreamType, EnvironmentType DEF Next
<1>3. CASE UNCHANGED vars
  <2>1. LeavesSent
    BY <1>3 DEF vars, LeavesSent
  <2> QED
    BY <1>2, <2>1, UntouchedSent
<1> QED
  BY <1>2, <1>3, UpStreamSent, DownStreamSent, EnvironmentSent DEF Next

\* sendNext passes no byte and no FIN that the same call did not write to the
\* tunnel, for every segment size and however the threads race.
THEOREM SentIsWritten ==
  ASSUME NoWrap
  PROVE  Spec => SentMeansWritten
<1> DEFINE A == state = "ESTABLISHED" /\ state' = "ESTABLISHED" => WritesAll
<1>1. Init => SentInv
  <2>1. Init => TypeOK
    BY InitType
  <2> QED
    BY <2>1 DEF Init, SentInv
<1>2. SentInv /\ [Next]_vars => SentInv'
  BY StepSent
<1>3. SentInv /\ [Next]_vars => [A]_vars
  BY StepSent
<1> QED
  BY <1>1, <1>2, <1>3, PTL DEF Spec, SentMeansWritten, WritesAll
=============================================================================
