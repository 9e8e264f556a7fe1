-------------------------- MODULE TCPSession_proofs --------------------------
EXTENDS TCPSession, TLAPS

LEMMA PlusType ==
  ASSUME NEW a \in SeqNums, NEW b \in SeqNums
  PROVE  Plus(a, b) \in SeqNums
BY SessionAssumption DEF Plus, SeqNums

LEMMA MinusType ==
  ASSUME NEW a \in SeqNums, NEW b \in SeqNums
  PROVE  Minus(a, b) \in SeqNums
BY SessionAssumption DEF Minus, SeqNums

\* Where nothing wraps, Plus and Minus are + and -.
LEMMA PlusValue ==
  ASSUME NEW a \in SeqNums, NEW b \in SeqNums, a + b < Modulus
  PROVE  Plus(a, b) = a + b
BY DEF Plus

LEMMA MinusValue ==
  ASSUME NEW a \in SeqNums, NEW b \in SeqNums, b <= a
  PROVE  Minus(a, b) = a - b
BY DEF Minus

LEMMA ShiftType ==
  ASSUME NEW n \in Nat, NEW buf \in [0..(n - 1) -> Nat \cup {Junk}],
         NEW by \in Int, NEW len \in Int
  PROVE  shiftElements(buf, by, len) \in [0..(n - 1) -> Nat \cup {Junk}]
BY DEF shiftElements, ReadAt

LEMMA StoreType ==
  ASSUME NEW n \in Nat, NEW buf \in [0..(n - 1) -> Nat \cup {Junk}],
         NEW off \in Nat, NEW k \in Nat, NEW len \in Int
  PROVE  StoreBytes(buf, off, k, len) \in [0..(n - 1) -> Nat \cup {Junk}]
BY DEF StoreBytes

LEMMA TrimReceiveType ==
  ASSUME NEW r \in ReceiveFields
  PROVE  _trimReceiveBuffer(r) \in ReceiveFields
<1> DEFINE buf == shiftElements(r.receiveBuffer,
                    Minus(r.receiveUser, r.receiveSequence),
                    Minus(r.receiveNext, r.receiveUser))
<1>1. /\ Minus(r.receiveUser, r.receiveSequence) \in Int
      /\ Minus(r.receiveNext, r.receiveUser) \in Int
  BY MinusType DEF ReceiveFields, SeqNums
<1>2. buf \in [0..(RECEIVE_BUFFER_SIZE - 1) -> Nat \cup {Junk}]
  BY <1>1, ShiftType, SessionAssumption DEF ReceiveFields
<1> HIDE DEF buf
<1>3. [r EXCEPT !.receiveBuffer = buf, !.receiveSequence = r.receiveNext]
        \in ReceiveFields
  BY <1>2 DEF ReceiveFields
<1> QED
  BY <1>3 DEF _trimReceiveBuffer, buf

FlushOK(f) ==
  /\ f.rcv \in ReceiveFields
  /\ f.took \in Nat
  /\ f.short \in BOOLEAN
  /\ f.closed \in BOOLEAN
  /\ f.shutdown \in BOOLEAN

LEMMA TrimmedType ==
  ASSUME NEW r \in ReceiveFields
  PROVE  trimReceiveBuffer(r) \in ReceiveFields
BY TrimReceiveType DEF trimReceiveBuffer

LEMMA UnflushedType ==
  ASSUME NEW r \in ReceiveFields
  PROVE  Unflushed(r) \in SeqNums
<1>1. (IF r.clientReadFinished THEN 1 ELSE 0) \in SeqNums
  BY SessionAssumption DEF SeqNums
<1>2. Minus(r.receiveNext, r.receiveUser) \in SeqNums
  BY MinusType DEF ReceiveFields
<1> QED
  BY <1>1, <1>2, MinusType DEF Unflushed

LEMMA AdvanceType ==
  ASSUME NEW r \in ReceiveFields, NEW n \in SeqNums
  PROVE  [r EXCEPT !.receiveUser = Plus(@, n)] \in ReceiveFields
<1>1. Plus(r.receiveUser, n) \in SeqNums
  BY PlusType DEF ReceiveFields
<1> QED
  BY <1>1 DEF ReceiveFields

LEMMA SentType ==
  ASSUME NEW r \in ReceiveFields, NEW s, NEW n \in SeqNums, NEW up
  PROVE  FlushOK(sentToServer(r, s, n, up))
<1> DEFINE r1 == [r EXCEPT !.receiveUser = Plus(@, n)]
<1> DEFINE r2 == [r1 EXCEPT !.receiveUser = Plus(@, 1)]
<1> DEFINE r3 == IF r.clientReadFinished THEN r1 ELSE trimReceiveBuffer(r1)
<1> DEFINE done == isDownStreamComplete(s)
<1> DEFINE short == n < Unflushed(r)
<1>1. r1 \in ReceiveFields
  BY AdvanceType
<1> HIDE DEF r1
<1>2. 1 \in SeqNums /\ n \in Nat
  BY SessionAssumption DEF SeqNums
<1>3. r2 \in ReceiveFields
  BY <1>1, <1>2, AdvanceType
<1>4. r3 \in ReceiveFields
  BY <1>1, TrimmedType
<1>5. done \in BOOLEAN /\ short \in BOOLEAN
  BY DEF isDownStreamComplete
<1> HIDE DEF r2, r3, done, short
<1>6. /\ FlushOK(Flushed(r2, n, Taken(r, n, up), FALSE, {}, done, ~done))
      /\ FlushOK(Flushed(r3, n, Taken(r, n, up), short, {}, FALSE, FALSE))
  BY <1>2, <1>3, <1>4, <1>5 DEF FlushOK, Flushed
<1> QED
  BY <1>6 DEF sentToServer, r1, r2, r3, done, short

LEMMA FlushType ==
  ASSUME NEW r \in ReceiveFields, NEW s, NEW up,
         NEW f \in flushDataToServer(r, s, up)
  PROVE  FlushOK(f)
<1>1. /\ FlushOK(noFlush(r))
      /\ FlushOK(Flushed(r, 0, {}, FALSE, Control("RST"), TRUE, FALSE))
      /\ FlushOK(Flushed(r, 0, {}, TRUE, {}, FALSE, FALSE))
  BY DEF FlushOK, Flushed, noFlush
<1>2. ASSUME NEW n \in SendResults(Unflushed(r)), n # Failed, n # WouldBlock
      PROVE  FlushOK(sentToServer(r, s, n, up))
  <2>1. n \in SeqNums
    BY <1>2, UnflushedType, SessionAssumption DEF SendResults, SeqNums
  <2> QED
    BY <2>1, SentType
<1> QED
  BY <1>1, <1>2 DEF flushDataToServer

LEMMA StoreSegmentType ==
  ASSUME TypeOK, NEW r \in ReceiveFields, NEW len \in Nat, NEW fin
  PROVE  storeSegment(r, len, fin) \in ReceiveFields
<1> DEFINE total == Min2(len, getReceiveAvailable(r))
<1> DEFINE off == Minus(r.receiveNext, r.receiveSequence)
<1> DEFINE k == Minus(r.receiveNext, Plus(peer.isn, 1))
<1> DEFINE buf == StoreBytes(r.receiveBuffer, off, k, total)
<1> DEFINE stored == [r EXCEPT !.receiveBuffer = buf, !.receiveNext = Plus(@, total)]
<1>1. 1 \in SeqNums /\ RECEIVE_BUFFER_SIZE \in SeqNums /\ peer.isn \in SeqNums
  BY SessionAssumption DEF SeqNums, TypeOK, Peers
<1>2. getReceiveAvailable(r) \in SeqNums
  BY <1>1, PlusType, MinusType DEF getReceiveAvailable, ReceiveFields
<1>3. total \in SeqNums
  BY <1>2, SessionAssumption DEF Min2, SeqNums
<1>4. off \in SeqNums /\ k \in SeqNums
  BY <1>1, PlusType, MinusType DEF ReceiveFields
<1>5. Plus(r.receiveNext, total) \in SeqNums
  BY <1>3, PlusType DEF ReceiveFields
<1> HIDE DEF total, off, k
<1>6. buf \in [0..(RECEIVE_BUFFER_SIZE - 1) -> Nat \cup {Junk}]
  <2>1. off \in Nat /\ k \in Nat /\ total \in Int /\ RECEIVE_BUFFER_SIZE \in Nat
    BY <1>3, <1>4, SessionAssumption DEF SeqNums
  <2>2. r.receiveBuffer \in [0..(RECEIVE_BUFFER_SIZE - 1) -> Nat \cup {Junk}]
    BY DEF ReceiveFields
  <2> QED
    BY <2>1, <2>2, StoreType
<1> HIDE DEF buf
<1>7. stored \in ReceiveFields
  BY <1>5, <1>6 DEF ReceiveFields
<1> HIDE DEF stored
<1>8. [stored EXCEPT !.receiveNext = Plus(@, 1), !.clientReadFinished = TRUE]
        \in ReceiveFields
  BY <1>1, <1>7, PlusType DEF ReceiveFields
<1> QED
  BY <1>7, <1>8 DEF storeSegment, stored, buf, off, k, total

LEMMA AvailableType ==
  ASSUME NEW s \in SendFields
  PROVE  getSendAvailable(s) \in SeqNums
<1>1. sendLength \in SeqNums
  BY SessionAssumption DEF SeqNums
<1> QED
  BY <1>1, PlusType, MinusType DEF getSendAvailable, SendFields

\* flushDataToClient keeps the types of what it sets.
LEMMA FlushToClientType ==
  ASSUME TypeOK, NEW s \in SendFields, NEW reg \in BOOLEAN,
         flushDataToClient(s, reg)
  PROVE  /\ snd' \in SendFields
         /\ inReceiveSet' \in BOOLEAN
         /\ timerExpired' \in BOOLEAN
         /\ state' \in {state, "CLOSED"}
<1> DEFINE sends == (timedOut(s) /\ ~givesUp(s)) \/ (~timedOut(s) /\ hasNewData(s))
<1> DEFINE s1 == [s EXCEPT !.sendNext = s.sendNewDataSequence,
                           !.retryCount = IF retries(s) THEN @ + 1 ELSE @]
<1>1. ASSUME sends
      PROVE  s1 \in SendFields
  <2>1. retries(s) => s.retryCount < SEND_MAX_RETRIES
    BY <1>1, SessionAssumption DEF retries, givesUp, SendFields
  <2>2. (IF retries(s) THEN s.retryCount + 1 ELSE s.retryCount)
          \in 0..SEND_MAX_RETRIES
    BY <2>1, SessionAssumption DEF SendFields
  <2> QED
    BY <2>2 DEF SendFields
<1> HIDE DEF s1
<1>2. snd' \in {s, s1} /\ (snd' = s1 => sends \/ s1 = s)
  BY DEF flushDataToClient, s1
<1>3. inReceiveSet' \in BOOLEAN /\ state' \in {state, "CLOSED"}
  BY DEF flushDataToClient, closeSession
<1>4. timerExpired' \in BOOLEAN
  BY DEF flushDataToClient, TypeOK
<1> QED
  BY <1>1, <1>2, <1>3, <1>4

LEMMA AcceptType ==
  ASSUME TypeOK, state = "ESTABLISHED", NEW len \in Nat, NEW fin,
         NEW ack \in SeqNums, NEW late, acceptSegment(len, fin, ack, late)
  PROVE  TypeOK'
<1> DEFINE s == [snd EXCEPT !.sendUnacknowledged = Max2(@, ack), !.retryCount = 0]
<1>1. s \in SendFields
  <2>1. Max2(snd.sendUnacknowledged, ack) \in SeqNums
    BY DEF Max2, TypeOK, SendFields
  <2>2. snd \in SendFields /\ 0 \in 0..SEND_MAX_RETRIES
    BY SessionAssumption DEF TypeOK
  <2> QED
    BY <2>1, <2>2 DEF SendFields
<1> HIDE DEF s
<1>2. ASSUME NEW r \in ReceiveFields
      PROVE  FlushOK(noFlush(r))
  BY DEF FlushOK, noFlush, Flushed
<1>3. rcv \in ReceiveFields
  BY DEF TypeOK
<1>4. ASSUME NEW f \in flushDataToServer(rcv, s, peer.up)
      PROVE  FlushOK([f EXCEPT !.rcv = _trimReceiveBuffer(@)])
  BY <1>3, FlushType, TrimReceiveType DEF FlushOK
<1>5. ASSUME NEW f1 \in makeRoom(s, len)
      PROVE  FlushOK(f1)
  BY <1>2, <1>3, <1>4 DEF makeRoom
<1>6. ASSUME NEW f1 \in makeRoom(s, len), NEW f2 \in storeAndFlush(s, f1, len, fin)
      PROVE  FlushOK(f2)
  <2>1. storeSegment(f1.rcv, len, fin) \in ReceiveFields
    BY <1>5, StoreSegmentType DEF FlushOK
  <2> QED
    BY <1>2, <1>3, <2>1, FlushType DEF storeAndFlush
<1>7. PICK f1 \in makeRoom(s, len) :
        \E f2 \in storeAndFlush(s, f1, len, fin) : finishSegment(s, f1, f2, late)
  BY DEF acceptSegment, s
<1>8. PICK f2 \in storeAndFlush(s, f1, len, fin) : finishSegment(s, f1, f2, late)
  BY <1>7
<1>9. rcv' \in ReceiveFields
  BY <1>6, <1>8 DEF finishSegment, FlushOK, ReceiveFields
<1>10. peer' \in Peers
  <2>1. FlushOK(f1) /\ FlushOK(f2) /\ peer \in Peers
    BY <1>5, <1>6 DEF TypeOK
  <2>2. /\ peer.up + f1.took + f2.took \in Nat
        /\ (peer.shutdown \/ f2.shutdown) \in BOOLEAN
        /\ (peer.short \/ f1.short \/ f2.short) \in BOOLEAN
    BY <2>1 DEF FlushOK, Peers
  <2>3. peer' = [peer EXCEPT !.up = peer.up + f1.took + f2.took,
                             !.shutdown = (peer.shutdown \/ f2.shutdown),
                             !.short = (peer.short \/ f1.short \/ f2.short)]
    BY <1>8 DEF finishSegment
  <2> QED
    BY <2>1, <2>2, <2>3 DEF Peers
<1>11. /\ snd' \in SendFields
       /\ state' \in {state, "CLOSED"}
       /\ inReceiveSet' \in BOOLEAN
       /\ raced' \subseteq raced \cup {"state", "ack"}
       /\ UNCHANGED <<opt, timerExpired, down>>
  BY <1>1, <1>8 DEF finishSegment, closeSession, Interferes
<1> QED
  BY <1>9, <1>10, <1>11 DEF TypeOK, States

LEMMA FreshType ==
  ASSUME NEW n \in SeqNums
  PROVE  freshSend(n) \in SendFields /\ freshReceive(n) \in ReceiveFields
BY SessionAssumption DEF freshSend, freshReceive, SendFields, ReceiveFields, SeqNums

LEMMA InitType == Init => TypeOK
<1> SUFFICES ASSUME Init
             PROVE  TypeOK
  OBVIOUS
<1>1. 0 \in SeqNums /\ 0 \in 0..UpLen /\ 0 \in 0..DownLen /\ 0 \in Nat
  BY SessionAssumption DEF SeqNums
<1>2. snd \in SendFields /\ rcv \in ReceiveFields
  BY <1>1, FreshType DEF Init
<1>3. peer \in Peers
  BY <1>1 DEF Init, Peers
<1>4. /\ opt \in [mss : MSSs \cup {0}, sendWindow : Windows \cup {0}]
      /\ down \in [pc : {"idle", "trim", "read"}, space : SeqNums]
  BY <1>1 DEF Init
<1> QED
  BY <1>2, <1>3, <1>4 DEF Init, TypeOK, States

LEMMA UpStreamType == TypeOK /\ UpStream => TypeOK'
<1> SUFFICES ASSUME TypeOK, UpStream
             PROVE  TypeOK'
  OBVIOUS
<1>1. ASSUME NEW kind, Answers(kind)
      PROVE  TypeOK'
  BY <1>1 DEF Answers, TypeOK
<1>2. ASSUME NEW isn \in ClientISNs, receiveSyn(isn)
      PROVE  TypeOK'
  <2>1. ASSUME NEW iss \in ISSs, NEW mss \in MSSs, NEW window \in Windows,
               NEW upTotal \in 0..UpLen, NEW connected \in BOOLEAN,
               reEstablish(isn, iss, mss, window, upTotal, connected)
        PROVE  TypeOK'
    <3>1. iss \in SeqNums /\ isn \in SeqNums /\ 1 \in SeqNums
      BY SessionAssumption DEF SeqNums
    <3>2. snd' \in SendFields /\ rcv' \in ReceiveFields
      BY <2>1, <3>1, FreshType, PlusType DEF reEstablish
    <3>3. peer' \in Peers
      <4>1. peer \in Peers /\ Plus(iss, 1) \in SeqNums /\ 0 \in 0..DownLen
        BY <3>1, PlusType, SessionAssumption DEF TypeOK
      <4>2. peer' = [peer EXCEPT !.isn = isn, !.iss = iss, !.got = Plus(iss, 1),
                       !.upTotal = upTotal, !.up = 0, !.down = 0,
                       !.shutdown = FALSE, !.short = FALSE]
        BY <2>1 DEF reEstablish
      <4> QED
        BY <3>1, <4>1, <4>2 DEF Peers
    <3> QED
      BY <2>1, <3>2, <3>3 DEF reEstablish, TypeOK, States
  <2>2. CASE synInHandshake(isn)
    BY <1>1, <2>2 DEF synInHandshake, sendReset, Interferes, TypeOK, States
  <2> QED
    BY <1>1, <1>2, <2>1, <2>2 DEF receiveSyn, sendReset, sendAck
<1>3. ASSUME NEW pos \in 0..(peer.upTotal + 1), NEW len \in 0..UpLen,
             NEW fin \in BOOLEAN, NEW late \in BOOLEAN, NEW ack \in ClientAcks,
             receiveSegment(pos, len, fin, ack, late)
      PROVE  TypeOK'
  <2>1. ack \in SeqNums /\ len \in Nat
    BY SessionAssumption DEF ClientAcks, TypeOK, Peers, SeqNums
  <2>2. CASE ackOfSyn(ClientSeq(pos), ack)
    <3>1. CASE sendReset
      BY <1>1, <3>1 DEF sendReset
    <3>2. CASE ~sendReset
      <4>1. /\ awaitsAck
            /\ snd' = [snd EXCEPT !.sendSequence = ack, !.sendUnacknowledged = ack,
                                  !.sendNewDataSequence = ack, !.sendNext = ack]
            /\ state' = "ESTABLISHED" /\ inReceiveSet' = TRUE /\ timerExpired' = FALSE
            /\ Interferes /\ UNCHANGED <<rcv, opt, down, peer>>
        BY <2>2, <3>2, Zenon DEF ackOfSyn
      <4>2. snd' \in SendFields
        BY <2>1, <4>1 DEF TypeOK, SendFields
      <4>3. raced' \subseteq {"state", "ack"}
        BY <4>1 DEF Interferes, TypeOK
      <4> QED
        BY <4>1, <4>2, <4>3 DEF awaitsAck, TypeOK, States
    <3> QED
      BY <3>1, <3>2
  <2> QED
    BY <1>1, <1>3, <2>1, <2>2, AcceptType DEF receiveSegment, sendAck
<1>4. ASSUME NEW pos \in 0..(UpLen + 1), receiveReset(pos)
      PROVE  TypeOK'
  BY <1>4 DEF receiveReset, reset, closeSession, Interferes, TypeOK, States
<1>5. CASE receiveStray
  BY <1>1, <1>5 DEF receiveStray, sendReset
<1>6. CASE flushToServer
  <2>1. PICK f \in flushDataToServer(rcv, snd, peer.up) :
          /\ rcv' = f.rcv
          /\ peer' = [peer EXCEPT !.up = @ + f.took, !.shutdown = @ \/ f.shutdown,
                                  !.short = @ \/ f.short]
          /\ closeSession(f.closed, inReceiveSet)
          /\ Interferes
    BY <1>6 DEF flushToServer
  <2>2. FlushOK(f) /\ peer \in Peers
    BY FlushType DEF TypeOK
  <2>3. /\ peer.up + f.took \in Nat
        /\ (peer.shutdown \/ f.shutdown) \in BOOLEAN
        /\ (peer.short \/ f.short) \in BOOLEAN
    BY <2>2 DEF FlushOK, Peers
  <2>4. peer' \in Peers
    BY <2>1, <2>2, <2>3 DEF Peers
  <2> QED
    BY <1>6, <2>1, <2>2, <2>4
    DEF flushToServer, closeSession, Interferes, FlushOK, TypeOK, States
<1> QED
  BY <1>2, <1>3, <1>4, <1>5, <1>6 DEF UpStream

LEMMA ReceivedType ==
  ASSUME TypeOK, NEW n \in SeqNums
  PROVE  received(snd, n) \in SendFields
<1> DEFINE buf == StoreBytes(snd.sendBuffer,
                    Minus(snd.sendNewDataSequence, snd.sendSequence), peer.down, n)
<1>1. /\ Minus(snd.sendNewDataSequence, snd.sendSequence) \in SeqNums
      /\ Plus(snd.sendNewDataSequence, n) \in SeqNums
  BY PlusType, MinusType DEF TypeOK, SendFields
<1>2. buf \in [0..(sendLength - 1) -> Nat \cup {Junk}]
  <2>1. /\ Minus(snd.sendNewDataSequence, snd.sendSequence) \in Nat
        /\ peer.down \in Nat
        /\ n \in Int
        /\ sendLength \in Nat
    BY <1>1, SessionAssumption DEF SeqNums, TypeOK, Peers
  <2>2. snd.sendBuffer \in [0..(sendLength - 1) -> Nat \cup {Junk}]
    BY DEF TypeOK, SendFields
  <2> QED
    BY <2>1, <2>2, StoreType
<1> HIDE DEF buf
<1>3. snd \in SendFields
  BY DEF TypeOK
<1>4. received(snd, n) = [snd EXCEPT !.sendBuffer = buf,
                            !.sendNewDataSequence = Plus(snd.sendNewDataSequence, n)]
  BY DEF received, buf
<1> QED
  BY <1>1, <1>2, <1>3, <1>4 DEF SendFields

LEMMA FinishedType ==
  ASSUME TypeOK
  PROVE  finished(snd) \in SendFields
<1>1. 1 \in SeqNums
  BY SessionAssumption DEF SeqNums
<1>2. Plus(snd.sendNewDataSequence, 1) \in SeqNums
  BY <1>1, PlusType DEF TypeOK, SendFields
<1> QED
  BY <1>2 DEF finished, TypeOK, SendFields

LEMMA DownStreamType == TypeOK /\ DownStream => TypeOK'
<1> SUFFICES ASSUME TypeOK, DownStream
             PROVE  TypeOK'
  OBVIOUS
<1>0. 0 \in SeqNums
  BY SessionAssumption DEF SeqNums
<1>1. CASE receiveFromServer
  <2>1. Minus(snd.sendUnacknowledged, snd.sendSequence) \in SeqNums
    BY MinusType DEF TypeOK, SendFields
  <2> QED
    BY <1>0, <1>1, <2>1 DEF receiveFromServer, TypeOK
<1>2. CASE trimSendBuffer
  <2> DEFINE buf == shiftElements(snd.sendBuffer, down.space,
                      Minus(snd.sendNewDataSequence, snd.sendUnacknowledged))
  <2>1. /\ down.space \in Int
        /\ Minus(snd.sendNewDataSequence, snd.sendUnacknowledged) \in Int
        /\ sendLength \in Nat
    BY MinusType, SessionAssumption DEF TypeOK, SendFields, SeqNums
  <2>2. snd.sendBuffer \in [0..(sendLength - 1) -> Nat \cup {Junk}]
    BY DEF TypeOK, SendFields
  <2>3. buf \in [0..(sendLength - 1) -> Nat \cup {Junk}]
    BY <2>1, <2>2, ShiftType
  <2> HIDE DEF buf
  <2>4. snd' = [snd EXCEPT !.sendBuffer = buf, !.sendSequence = snd.sendUnacknowledged]
    BY <1>2 DEF trimSendBuffer, buf
  <2>5. snd' \in SendFields
    BY <2>3, <2>4 DEF TypeOK, SendFields
  <2> QED
    BY <1>0, <1>2, <2>5 DEF trimSendBuffer, TypeOK
<1>3. ASSUME NEW s \in SendFields, NEW reg \in BOOLEAN, flushDataToClient(s, reg),
             UNCHANGED <<rcv, opt, raced>>, peer' \in Peers,
             down' \in [pc : {"idle", "trim", "read"}, space : SeqNums]
      PROVE  TypeOK'
  BY <1>3, FlushToClientType DEF TypeOK, States
<1>4. CASE readFromServer
  <2>1. down' \in [pc : {"idle", "trim", "read"}, space : SeqNums]
    BY <1>0, <1>4 DEF readFromServer
  <2>2. snd \in SendFields /\ inReceiveSet \in BOOLEAN /\ peer \in Peers
    BY DEF TypeOK
  <2>3. CASE UNCHANGED <<state, snd, inReceiveSet, timerExpired, peer>>
    BY <1>4, <2>1, <2>3 DEF readFromServer, TypeOK
  <2>4. ASSUME NEW n \in 1..Min2(getSendAvailable(snd), DownLen - peer.down),
               flushDataToClient(received(snd, n), inReceiveSet),
               peer' = [peer EXCEPT !.down = @ + n]
        PROVE  TypeOK'
    <3>1. getSendAvailable(snd) \in SeqNums
      BY <2>2, AvailableType
    <3>2. n \in SeqNums /\ peer.down + n \in 0..DownLen
      BY <2>2, <3>1, SessionAssumption DEF Min2, SeqNums, Peers
    <3>3. peer' \in Peers
      BY <2>2, <2>4, <3>2 DEF Peers
    <3> QED
      BY <1>3, <1>4, <2>1, <2>2, <2>4, <3>2, <3>3, ReceivedType DEF readFromServer
  <2>5. CASE flushDataToClient(snd, inReceiveSet) /\ UNCHANGED peer
    BY <1>3, <1>4, <2>1, <2>2, <2>5 DEF readFromServer
  <2>6. CASE /\ flushDataToClient(finished(snd), inReceiveSet /\ snd.serverReadFinished)
             /\ UNCHANGED peer
    <3>1. (inReceiveSet /\ snd.serverReadFinished) \in BOOLEAN
      OBVIOUS
    <3> QED
      BY <1>3, <1>4, <2>1, <2>2, <2>6, <3>1, FinishedType DEF readFromServer
  <2> QED
    BY <1>4, <2>3, <2>4, <2>5, <2>6 DEF readFromServer
<1>5. CASE flushToClient
  <2>1. /\ snd \in SendFields
        /\ inReceiveSet \in BOOLEAN
        /\ peer' \in Peers
        /\ down' \in [pc : {"idle", "trim", "read"}, space : SeqNums]
        /\ UNCHANGED <<rcv, opt, raced>>
    BY <1>5 DEF flushToClient, TypeOK
  <2>2. flushDataToClient(snd, inReceiveSet)
    BY <1>5 DEF flushToClient
  <2> QED
    BY <1>3, <2>1, <2>2
<1> QED
  BY <1>1, <1>2, <1>4, <1>5 DEF DownStream

LEMMA EnvironmentType == TypeOK /\ Environment => TypeOK'
<1> SUFFICES ASSUME TypeOK, Environment
             PROVE  TypeOK'
  OBVIOUS
<1>1. CASE tick
  BY <1>1 DEF tick, TypeOK
<1>2. CASE clientReceives
  <2>1. PICK got \in peer.got..snd.sendNext : peer' = [peer EXCEPT !.got = got]
    BY <1>2 DEF clientReceives
  <2>2. got \in SeqNums
    <3>1. peer.got \in SeqNums /\ snd.sendNext \in SeqNums
      BY DEF TypeOK, Peers, SendFields
    <3> QED
      BY <3>1, SessionAssumption DEF SeqNums
  <2>3. peer' \in Peers
    BY <2>1, <2>2 DEF TypeOK, Peers
  <2> QED
    BY <1>2, <2>3 DEF clientReceives, TypeOK
<1>3. CASE clientDies
  BY <1>3 DEF clientDies, TypeOK, Peers
<1> QED
  BY <1>1, <1>2, <1>3 DEF Environment

\* Every field of the session keeps its type in every behaviour, for all
\* buffer sizes, options and interleavings of the two threads.
THEOREM TypeCorrect == Spec => []TypeOK
<1>1. Init => TypeOK
  BY InitType
<1>2. TypeOK /\ [Next]_vars => TypeOK'
  <2>1. CASE UNCHANGED vars
    BY <2>1 DEF vars, TypeOK
  <2> QED
    BY <2>1, UpStreamType, DownStreamType, EnvironmentType DEF Next
<1> QED
  BY <1>1, <1>2, PTL DEF Spec

-----------------------------------------------------------------------------
(* The session implements SessionLife *)

\* A step of the up stream thread is one of the moves of a packet, or a flush.
LEMMA UpStreamMoves ==
  ASSUME UpStream
  PROVE  state' = state \/ Life!Receive \/ Life!Flush
<1>1. ASSUME NEW kind, Answers(kind)
      PROVE  state' = state
  BY <1>1 DEF Answers
<1>2. ASSUME NEW s, NEW kind \in Kinds, state = s, state' \in ReceiveMoves(s, kind)
      PROVE  Life!Receive
  BY <1>2 DEF Life!Receive, Life!ReceiveMoves, Life!Kinds, ReceiveMoves, Kinds
<1>3. ASSUME NEW isn \in ClientISNs, receiveSyn(isn)
      PROVE  state' = state \/ Life!Receive
  <2>1. /\ state = "CLOSED" /\ state' \in {"SYN_RECEIVED", "SYN_ACK_SENT"}
           => state' \in ReceiveMoves(state, "SYN")
        /\ state = "SYN_RECEIVED" /\ state' = "SYN_ACK_SENT"
           => state' \in ReceiveMoves(state, "SYN")
    BY DEF ReceiveMoves
  <2>2. CASE \E iss \in ISSs, mss \in MSSs, window \in Windows,
                upTotal \in 0..UpLen, connected \in BOOLEAN :
               reEstablish(isn, iss, mss, window, upTotal, connected)
    BY <1>2, <2>1, <2>2 DEF reEstablish, Kinds
  <2>3. CASE synInHandshake(isn)
    BY <1>1, <1>2, <2>1, <2>3 DEF synInHandshake, sendReset, Kinds
  <2> QED
    BY <1>1, <1>3, <2>2, <2>3 DEF receiveSyn, sendReset, sendAck
<1>4. ASSUME NEW pos, NEW len, NEW fin, NEW late, NEW ack,
             receiveSegment(pos, len, fin, ack, late)
      PROVE  state' = state \/ Life!Receive
  <2>1. /\ "ESTABLISHED" \in ReceiveMoves("SYN_ACK_SENT", "ACK")
        /\ "CLOSED" \in ReceiveMoves("ESTABLISHED", "ACK")
    BY DEF ReceiveMoves
  <2>2. CASE ackOfSyn(ClientSeq(pos), ack)
    BY <1>1, <1>2, <2>1, <2>2 DEF ackOfSyn, awaitsAck, sendReset, Kinds
  <2>3. CASE state = "ESTABLISHED" /\ acceptSegment(len, fin, ack, late)
    <3>1. state' \in {"ESTABLISHED", "CLOSED"}
      BY <2>3 DEF acceptSegment, finishSegment, closeSession
    <3> QED
      BY <1>2, <2>1, <2>3, <3>1 DEF Kinds
  <2> QED
    BY <1>1, <1>4, <2>2, <2>3 DEF receiveSegment, sendAck
<1>5. ASSUME NEW pos, receiveReset(pos)
      PROVE  Life!Receive
  <2>1. state' = "CLOSED" /\ state' \in ReceiveMoves(state, "RST")
    BY <1>5 DEF receiveReset, reset, closeSession, ReceiveMoves
  <2> QED
    BY <1>2, <2>1 DEF Kinds
<1>6. CASE flushToServer
  BY <1>6 DEF flushToServer, closeSession, Life!Flush, Life!FlushMoves
<1> QED
  BY <1>1, <1>3, <1>4, <1>5, <1>6 DEF UpStream, receiveStray, sendReset

\* A step of the down stream thread is a flush: it never touches a session
\* that is not established.
LEMMA DownStreamMoves ==
  ASSUME DownStream
  PROVE  state' = state \/ Life!Flush
<1>1. ASSUME NEW s, NEW reg, flushDataToClient(s, reg)
      PROVE  state' = state \/ Life!Flush
  BY <1>1 DEF flushDataToClient, closeSession, Life!Flush, Life!FlushMoves
<1> QED
  BY <1>1 DEF DownStream, receiveFromServer, trimSendBuffer, readFromServer, flushToClient

\* A session goes through its states only by the moves SessionLife promises
\* the Handler, whatever packets arrive and however the threads interleave.
THEOREM SessionImplementsLife == Spec => ImplementsSessionLife
<1>1. Init => Life!Init
  BY DEF Init, Life!Init
<1>2. [Next]_vars => [Life!Receive \/ Life!Flush]_state
  BY UpStreamMoves, DownStreamMoves
  DEF Next, Environment, tick, clientReceives, clientDies, vars
<1> QED
  BY <1>1, <1>2, PTL DEF Spec, ImplementsSessionLife, Life!Spec
=============================================================================
