---------------------------- MODULE HandlerUp_proofs ----------------------------
(***************************************************************************)
(* The dispatch loop of the up stream thread for any finite set of sources *)
(* and any interleaving with the down stream thread's closes: one session  *)
(* for each source, one session for each packet and for each answer that   *)
(* is written into it, and a vector no longer than there are sources.      *)
(***************************************************************************)
EXTENDS HandlerUp, FiniteSetTheorems, TLAPS

Session == [state : States, source : Ends, dest : Ends]
AnyPacket == [kind : Kinds, source : Ends, dest : Ends]

\* The loop's index is at most one behind the vector.
IndexInv ==
  /\ Len(connections) <= MaxConnections
  /\ ind <= Len(connections) + 1
  /\ pc = "deliver" => ind <= Len(connections)

\* A session that was opened has the source of the packet that opened it.
SourceInv == \A i \in Open : connections[i].source \in Sources

\* The packet is the client's until it is handled.  Until then no open session
\* with its source has been passed, and there is no other one while a call is
\* under way, even if the session of the call closes meanwhile.
DispatchInv ==
  /\ pc \in {"loop", "deliver"} /\ ~isHandled => packet \in Packets
  /\ pc = "loop" /\ ~isHandled => \A j \in Open :
       connections[j].source = packet.source => j >= ind
  /\ pc = "deliver" =>
       /\ packet.source \in Sources
       /\ connections[ind].source = packet.source
       /\ \A j \in Open : connections[j].source = packet.source => j = ind

\* A session that could be given a packet in a name already used is behind the
\* loop.
HandledInv ==
  /\ HandledOnce
  /\ pc \in {"loop", "deliver"} /\ ~isHandled => handledBy = {}
  /\ pc \in {"loop", "deliver"} => \A a \in handledBy, j \in Open :
       connections[j].source = a[2].source => j < ind
  /\ pc = "deliver" => \A a \in handledBy : a[2].source # packet.source

\* While the loop has met no closed session and handed out nothing, what it has
\* passed and what is open has different sources, none of them the packet's:
\* a session that closes behind the loop keeps its source until it is reused.
FreshInv ==
  pc = "loop" /\ ~isHandled /\ closedConnection = 0 =>
    /\ \A i \in 1..(ind - 1) : connections[i].source \in Sources \ {packet.source}
    /\ \A i, j \in 1..(ind - 1) \cup Open :
         connections[i].source = connections[j].source => i = j

UpInv == /\ TypeOK /\ IndexInv /\ SourceInv /\ OneSessionPerSource
         /\ DispatchInv /\ HandledInv /\ FreshInv /\ PoolBounded

-----------------------------------------------------------------------------
(* What the calls make of the vector *)

\* A call leaves a session its source, or opens it with the packet's; what it
\* leaves of the packet is a packet.
LEMMA ReceiveResult ==
  ASSUME NEW con \in Session, NEW p \in AnyPacket,
         NEW r \in receiveFromClient(con, p)
  PROVE  /\ r.con \in Session /\ r.packet \in AnyPacket
         /\ con.state # "CLOSED" => r.con.source = con.source
         /\ r.con.state # "CLOSED" => r.con.source \in {con.source, p.source}
         /\ con.state = "CLOSED" /\ r.con.state # "CLOSED" => r.con.source = p.source
<1>1. PICK st \in ReceiveMoves(con.state, p.kind) :
        \E q \in leftOf(con, p, st) : r = [con |-> moved(con, p, st), packet |-> q]
  BY DEF receiveFromClient
<1>2. PICK q \in leftOf(con, p, st) : r = [con |-> moved(con, p, st), packet |-> q]
  BY <1>1
<1>3. r.con = moved(con, p, st) /\ r.packet = q
  BY <1>2
<1>4. st \in States
  BY DEF Session, AnyPacket, ReceiveMoves, Kinds, States
<1>5. q \in AnyPacket
  <2>1. \A kind \in Kinds : swapEnds(p, kind) \in AnyPacket /\ setEnds(con, kind) \in AnyPacket
    BY DEF swapEnds, setEnds, AnyPacket, Session
  <2>2. p.kind \in Kinds
    BY DEF AnyPacket
  <2> HIDE DEF AnyPacket
  <2>3. q \in {p, setEnds(con, "RST"), setEnds(con, "ACK"), swapEnds(p, "RST"),
               swapEnds(p, "ACK"), swapEnds(p, "SYNACK")}
    <3>1. CASE p.kind = "RST"
      BY <3>1 DEF leftOf
    <3>2. CASE p.kind = "SYNACK"
      BY <3>2 DEF leftOf
    <3>3. CASE p.kind = "SYN" /\ con.state = "ESTABLISHED"
      BY <3>3 DEF leftOf
    <3>4. CASE p.kind = "SYN" /\ con.state # "ESTABLISHED"
      BY <3>4 DEF leftOf
    <3>5. CASE p.kind = "ACK" /\ con.state = "ESTABLISHED"
      BY <3>5 DEF leftOf
    <3>6. CASE p.kind = "ACK" /\ con.state # "ESTABLISHED"
      BY <3>6 DEF leftOf
    <3> QED
      BY <2>2, <3>1, <3>2, <3>3, <3>4, <3>5, <3>6 DEF Kinds
  <2> QED
    BY <2>1, <2>3 DEF Kinds
<1> QED
  BY <1>3, <1>4, <1>5 DEF moved, Session, AnyPacket

\* A call on session i changes nothing else.
LEMMA ReplaceResult ==
  ASSUME NEW s \in Seq(Session), NEW i \in 1..Len(s), NEW r \in Session
  PROVE  LET t == [s EXCEPT ![i] = r]
         IN /\ t \in Seq(Session) /\ Len(t) = Len(s)
            /\ t[i] = r
            /\ \A j \in 1..Len(s) : j # i => t[j] = s[j]
OBVIOUS

\* Closing keeps the sources and opens nothing.
LEMMA CloseResult ==
  ASSUME connections \in Seq(Session), NEW closing, connections' = Close(closing)
  PROVE  /\ connections' \in Seq(Session)
         /\ Len(connections') = Len(connections)
         /\ Open' \subseteq Open
         /\ \A i \in 1..Len(connections) :
              connections'[i].source = connections[i].source
<1>1. DOMAIN connections = 1..Len(connections) /\ Len(connections) \in Nat
  OBVIOUS
<1>2. \A i \in 1..Len(connections) : connections[i] \in Session
  OBVIOUS
<1>3. \A i \in 1..Len(connections) :
        /\ Close(closing)[i] \in Session
        /\ Close(closing)[i].source = connections[i].source
        /\ Close(closing)[i].state \in {connections[i].state, "CLOSED"}
  BY <1>1, <1>2 DEF Close, Session, States
<1>4. connections' \in Seq(Session) /\ Len(connections') = Len(connections)
  BY <1>1, <1>3 DEF Close
<1>5. DOMAIN connections' = DOMAIN connections
  BY <1>1, <1>4
<1>6. Open' \subseteq Open
  BY <1>1, <1>3, <1>5 DEF Open
<1> QED
  BY <1>3, <1>4, <1>6

\* The parts of TypeOK the steps below use, with Session for the record.
LEMMA Types ==
  ASSUME TypeOK
  PROVE  /\ connections \in Seq(Session)
         /\ Len(connections) \in Nat
         /\ DOMAIN connections = 1..Len(connections)
         /\ \A i \in 1..Len(connections) : connections[i] \in Session
         /\ packet \in AnyPacket
         /\ ind \in Nat /\ ind >= 1
         /\ MaxConnections \in Nat
<1>1. connections \in Seq(Session)
  BY DEF TypeOK, Session
<1>2. MaxConnections \in Nat
  BY HandlerUpAssumption
<1> QED
  BY <1>1, <1>2 DEF TypeOK, AnyPacket

-----------------------------------------------------------------------------
(* Each step keeps the invariant *)

LEMMA InitInv == ASSUME Init PROVE UpInv
<1>1. TypeOK
  <2>1. connections = <<>> /\ Len(connections) = 0 /\ DOMAIN connections = {}
    BY DEF Init
  <2>2. connections \in Seq([state : States, source : Ends, dest : Ends])
    BY <2>1
  <2>3. ind \in 1..(MaxConnections + 1)
    BY HandlerUpAssumption DEF Init
  <2>4. closedConnection \in 0..Len(connections) /\ handledBy = {}
    BY <2>1 DEF Init
  <2>5. packet \in [kind : Kinds, source : Ends, dest : Ends]
    BY DEF Init, Packets, Ends
  <2> QED
    BY <2>2, <2>3, <2>4, <2>5 DEF Init, TypeOK
<1>2. Open = {}
  BY DEF Init, Open
<1>3. IndexInv
  BY HandlerUpAssumption DEF Init, IndexInv
<1>4. SourceInv /\ OneSessionPerSource /\ DispatchInv /\ FreshInv
  BY <1>2 DEF Init, SourceInv, OneSessionPerSource, DispatchInv, FreshInv
<1>5. HandledInv
  BY DEF Init, HandledInv, HandledOnce
<1>6. PoolBounded
  <2>1. Cardinality(Sources) \in Nat
    BY HandlerUpAssumption, FS_CardinalityType
  <2> QED
    BY <2>1 DEF Init, PoolBounded
<1> QED
  BY <1>1, <1>3, <1>4, <1>5, <1>6 DEF UpInv

\* Sessions close, in either thread, wherever the loop is.
LEMMA ClosingKeeps ==
  ASSUME UpInv, NEW closing, connections' = Close(closing),
         pc' = pc \/ pc' = "read",
         UNCHANGED <<packet, ind, isHandled, closedConnection, handledBy>>
  PROVE  UpInv'
<1> USE DEF UpInv
<1>1. /\ connections' \in Seq(Session)
      /\ Len(connections') = Len(connections)
      /\ Open' \subseteq Open
      /\ \A i \in 1..Len(connections) :
           connections'[i].source = connections[i].source
  BY CloseResult, Types
<1>2. /\ DOMAIN connections' = 1..Len(connections)
      /\ DOMAIN connections = 1..Len(connections)
      /\ Len(connections) \in Nat /\ ind \in Nat
  BY <1>1, Types
<1>3. \A i \in Open' : i \in Open /\ i \in 1..Len(connections)
                      /\ connections'[i].source = connections[i].source
  BY <1>1, <1>2 DEF Open
<1>4. TypeOK'
  BY <1>1, <1>2 DEF TypeOK, Session
<1>5. IndexInv'
  BY <1>1 DEF IndexInv
<1>6. SourceInv' /\ OneSessionPerSource'
  BY <1>3 DEF SourceInv, OneSessionPerSource
<1>7. DispatchInv'
  <2>1. pc = "deliver" => ind \in 1..Len(connections)
    BY <1>2, Types DEF IndexInv
  <2> QED
    BY <1>1, <1>3, <2>1 DEF DispatchInv
<1>8. HandledInv'
  BY <1>3 DEF HandledInv, HandledOnce
<1>9. FreshInv'
  <2>1. \A i \in 1..(ind - 1) : i \in 1..Len(connections)
    BY <1>2, Types DEF IndexInv
  <2> QED
    BY <1>1, <1>3, <2>1 DEF FreshInv
<1>10. PoolBounded'
  BY <1>1 DEF PoolBounded
<1> QED
  BY <1>4, <1>5, <1>6, <1>7, <1>8, <1>9, <1>10

LEMMA readPacketKeeps == ASSUME UpInv, readPacket PROVE UpInv'
<1> USE DEF UpInv, readPacket
<1>1. Open' = Open
  BY DEF Open
<1>2. TypeOK' /\ IndexInv'
  <2>1. 1 \in 1..(MaxConnections + 1) /\ 1 <= Len(connections) + 1
    BY Types
  <2>2. closedConnection' \in 0..Len(connections) /\ handledBy' = {}
    BY Types
  <2>3. packet' \in [kind : Kinds, source : Ends, dest : Ends]
    BY DEF Packets, Ends
  <2>4. TypeOK'
    BY <2>1, <2>2, <2>3 DEF TypeOK
  <2>5. IndexInv'
    BY <2>1 DEF IndexInv
  <2> QED
    BY <2>4, <2>5
<1>3. SourceInv' /\ OneSessionPerSource' /\ PoolBounded'
  BY <1>1 DEF SourceInv, OneSessionPerSource, PoolBounded
<1>4. \A j \in Open : j \in Nat /\ j >= 1
  BY Types DEF Open
<1>5. DispatchInv'
  BY <1>1, <1>4 DEF DispatchInv
<1>6. HandledInv'
  BY DEF HandledInv, HandledOnce
<1>7. FreshInv'
  <2>1. 1..(ind' - 1) = {}
    OBVIOUS
  <2> QED
    BY <1>1, <2>1 DEF FreshInv, OneSessionPerSource
<1> QED
  BY <1>2, <1>3, <1>5, <1>6, <1>7

LEMMA testConnectionKeeps == ASSUME UpInv, testConnection PROVE UpInv'
<1> USE DEF UpInv
<1> DEFINE con == connections[ind]
           closed == con.state = "CLOSED"
           calls == ~closed /\ canHandle(con, packet)
<1>1. /\ pc = "loop" /\ ind \in 1..Len(connections)
      /\ closedConnection' = IF closed /\ closedConnection = 0 THEN ind ELSE closedConnection
      /\ pc' = IF calls THEN "deliver" ELSE "loop"
      /\ ind' = IF calls THEN ind ELSE ind + 1
      /\ UNCHANGED <<connections, packet, isHandled, handledBy>>
  BY Types DEF testConnection, noteClosed
<1>2. ~closed <=> ind \in Open
  BY <1>1, Types DEF Open
<1>3. canHandle(con, packet) <=> con.source = packet.source
  BY DEF canHandle
<1> HIDE DEF con, closed, calls
<1>4. Open' = Open /\ \A j \in Open : j \in Nat
  BY <1>1, Types DEF Open
<1>5. TypeOK'
  BY <1>1, Types DEF TypeOK, IndexInv
<1>6. IndexInv'
  BY <1>1, Types DEF IndexInv
<1>7. SourceInv' /\ OneSessionPerSource' /\ PoolBounded'
  BY <1>1, <1>4 DEF SourceInv, OneSessionPerSource, PoolBounded
<1>8. DispatchInv'
  <2>1. CASE calls
    <3>1. ind \in Open /\ connections[ind].source = packet.source
      BY <2>1, <1>2, <1>3 DEF calls, con
    <3> QED
      BY <2>1, <3>1, <1>1, <1>4 DEF DispatchInv, OneSessionPerSource, SourceInv
  <2>2. CASE ~calls
    <3>1. ~(ind \in Open /\ connections[ind].source = packet.source)
      BY <2>2, <1>2, <1>3 DEF calls, con
    <3>2. \A j \in Open : connections[j].source = packet.source =>
            j # ind /\ (j >= ind => j >= ind + 1)
      BY <3>1, <1>1, <1>4
    <3> QED
      BY <2>2, <3>2, <1>1, <1>4 DEF DispatchInv
  <2> QED
    BY <2>1, <2>2
<1>9. HandledInv'
  <2>1. \A a \in handledBy, j \in Open : connections[j].source = a[2].source => j < ind
    BY <1>1 DEF HandledInv
  <2>2. CASE calls
    <3>1. ind \in Open /\ connections[ind].source = packet.source
      BY <2>2, <1>2, <1>3 DEF calls, con
    <3>2. \A a \in handledBy : a[2].source # packet.source
      BY <2>1, <3>1, Types
    <3> QED
      BY <2>1, <2>2, <3>2, <1>1, <1>4 DEF HandledInv, HandledOnce
  <2>3. CASE ~calls
    <3>1. \A j \in Open : j < ind => j < ind + 1
      BY <1>4, Types
    <3> QED
      BY <2>1, <2>3, <3>1, <1>1, <1>4 DEF HandledInv, HandledOnce
  <2> QED
    BY <2>2, <2>3
<1>10. FreshInv'
  <2> SUFFICES ASSUME pc' = "loop", ~isHandled', closedConnection' = 0
               PROVE  FreshInv'
    BY DEF FreshInv
  <2>1. ~calls /\ ~closed /\ closedConnection = 0 /\ ~isHandled
    BY <1>1, Types
  <2>2. ind \in Open /\ con.source # packet.source
    BY <2>1, <1>2, <1>3 DEF calls
  <2>3. con.source \in Sources
    BY <2>2 DEF SourceInv, con
  <2>4. 1..(ind' - 1) = 1..(ind - 1) \cup {ind} /\ ind' = ind + 1
    BY <1>1, <2>1
  <2>5. \A i \in 1..(ind' - 1) : connections[i].source \in Sources \ {packet.source}
    BY <1>1, <2>1, <2>2, <2>3, <2>4 DEF FreshInv, con
  <2>6. 1..(ind' - 1) \cup Open = 1..(ind - 1) \cup Open
    BY <2>2, <2>4
  <2> QED
    BY <1>1, <1>4, <2>1, <2>5, <2>6 DEF FreshInv
<1> QED
  BY <1>5, <1>6, <1>7, <1>8, <1>9, <1>10

\* The vector after a call on session i: the invariant's parts that do not
\* depend on where the loop is.
LEMMA CallResult ==
  ASSUME UpInv, NEW i \in 1..Len(connections),
         NEW r \in receiveFromClient(connections[i], packet),
         connections' = [connections EXCEPT ![i] = r.con],
         packet.source \in Sources,
         \A j \in Open : connections[j].source = packet.source => j = i
  PROVE  /\ connections' \in Seq(Session) /\ r.packet \in AnyPacket
         /\ Len(connections') = Len(connections)
         /\ SourceInv' /\ OneSessionPerSource'
         /\ \A j \in Open' : j \in 1..Len(connections)
              /\ (connections'[j].source = packet.source => j = i)
              /\ (j # i => j \in Open /\ connections'[j] = connections[j])
              /\ (j = i => connections'[j].source \in {connections[i].source, packet.source})
<1> USE DEF UpInv
<1>1. connections \in Seq(Session) /\ connections[i] \in Session /\ packet \in AnyPacket
      /\ DOMAIN connections = 1..Len(connections)
  BY Types
<1>2. /\ r.con \in Session /\ r.packet \in AnyPacket
      /\ connections[i].state # "CLOSED" => r.con.source = connections[i].source
      /\ connections[i].state = "CLOSED" /\ r.con.state # "CLOSED"
           => r.con.source = packet.source
  BY <1>1, ReceiveResult
<1> DEFINE c == r.con
<1> HIDE DEF c
<1>3. /\ connections' \in Seq(Session) /\ Len(connections') = Len(connections)
      /\ connections'[i] = c
      /\ \A j \in 1..Len(connections) : j # i => connections'[j] = connections[j]
  <2>1. c \in Session /\ connections' = [connections EXCEPT ![i] = c]
    BY <1>2 DEF c
  <2> QED
    BY <1>1, <2>1, ReplaceResult
<1>4. DOMAIN connections' = 1..Len(connections)
  BY <1>3
<1>5. \A j \in Open' : j \in 1..Len(connections)
        /\ (j # i => j \in Open /\ connections'[j] = connections[j])
        /\ (j = i => \/ i \in Open /\ connections'[j].source = connections[i].source
                     \/ connections'[j].source = packet.source)
  BY <1>1, <1>2, <1>3, <1>4 DEF Open, c
<1>6. SourceInv'
  BY <1>1, <1>5 DEF SourceInv
<1>7. OneSessionPerSource'
  BY <1>5 DEF OneSessionPerSource
<1>8. \A j \in Open' : connections'[j].source = packet.source => j = i
  BY <1>5
<1> QED
  BY <1>2, <1>3, <1>5, <1>6, <1>7, <1>8

LEMMA deliverKeeps == ASSUME UpInv, deliver PROVE UpInv'
<1> USE DEF UpInv
<1>1. /\ pc = "deliver" /\ pc' = "loop" /\ isHandled' = TRUE
      /\ handledBy' = handledBy \cup {<<ind, packet>>} /\ ind' = ind + 1
      /\ UNCHANGED closedConnection
  BY DEF deliver
<1>2. ind \in 1..Len(connections)
  BY <1>1, Types DEF IndexInv
<1>3. PICK r \in receiveFromClient(connections[ind], packet) :
        connections' = [connections EXCEPT ![ind] = r.con] /\ packet' = r.packet
  BY DEF deliver
<1>4. /\ packet.source \in Sources /\ connections[ind].source = packet.source
      /\ \A j \in Open : connections[j].source = packet.source => j = ind
  BY <1>1 DEF DispatchInv
<1>5. /\ connections' \in Seq(Session) /\ packet' \in AnyPacket
      /\ Len(connections') = Len(connections)
      /\ SourceInv' /\ OneSessionPerSource'
      /\ \A j \in Open' : j \in 1..Len(connections)
           /\ (connections'[j].source = packet.source => j = ind)
           /\ (j # ind => j \in Open /\ connections'[j] = connections[j])
           /\ (j = ind => connections'[j].source \in {connections[ind].source, packet.source})
  BY <1>2, <1>3, <1>4, CallResult
<1>7. DOMAIN connections' = 1..Len(connections) /\ DOMAIN connections = 1..Len(connections)
  BY <1>5, Types
<1>8. IndexInv'
  BY <1>1, <1>2, <1>5, Types DEF IndexInv
<1>9. TypeOK'
  <2>1. ind + 1 \in 1..(MaxConnections + 1)
    BY <1>2, Types DEF IndexInv
  <2>2. \A a \in handledBy' : a[1] \in DOMAIN connections'
    BY <1>1, <1>2, <1>7 DEF TypeOK
  <2> QED
    BY <1>1, <1>2, <1>5, <1>7, <2>1, <2>2 DEF TypeOK, Session, AnyPacket
<1>10. DispatchInv'
  BY <1>1 DEF DispatchInv
<1>11. HandledInv'
  <2>1. \A a \in handledBy : a[2].source # packet.source
    BY <1>1 DEF HandledInv
  <2>2. HandledOnce'
    BY <1>1, <2>1 DEF HandledInv, HandledOnce
  <2>3. ASSUME NEW a \in handledBy', NEW j \in Open',
               connections'[j].source = a[2].source
        PROVE  j < ind + 1
    <3>1. CASE j = ind
      BY <3>1, <1>2
    <3>2. CASE j # ind
      <4>1. a[2].source # packet.source
        BY <1>5, <2>3, <3>2
      <4>2. a \in handledBy
        BY <1>1, <4>1
      <4>3. j < ind
        BY <1>1, <1>5, <2>3, <3>2, <4>2 DEF HandledInv
      <4>4. j \in Nat /\ ind \in Nat
        BY <1>2, <1>5
      <4> QED
        BY <4>3, <4>4
    <3> QED
      BY <3>1, <3>2
  <2> QED
    BY <1>1, <2>2, <2>3 DEF HandledInv
<1>12. FreshInv'
  BY <1>1 DEF FreshInv
<1>13. PoolBounded'
  BY <1>5 DEF PoolBounded
<1> QED
  BY <1>5, <1>8, <1>9, <1>10, <1>11, <1>12, <1>13

LEMMA endPacketKeeps == ASSUME UpInv, endPacket PROVE UpInv'
<1> USE DEF UpInv, endPacket
<1>1. Open' = Open
  BY DEF Open
<1>2. TypeOK' /\ IndexInv'
  <2>1. packet' \in [kind : Kinds, source : Ends, dest : Ends]
    BY DEF TypeOK, swapEnds, Kinds
  <2> QED
    BY <2>1 DEF TypeOK, IndexInv
<1>3. SourceInv' /\ OneSessionPerSource' /\ PoolBounded'
  BY <1>1 DEF SourceInv, OneSessionPerSource, PoolBounded
<1>4. DispatchInv' /\ HandledInv' /\ FreshInv'
  BY DEF DispatchInv, HandledInv, HandledOnce, FreshInv
<1> QED
  BY <1>2, <1>3, <1>4

\* With the loop at its end and nothing handled or closed on the way, every
\* session of the vector has a source of its own that is not the packet's.
LEMMA RoomForOneMore ==
  ASSUME UpInv, pc = "loop", ind > Len(connections), ~isHandled, closedConnection = 0
  PROVE  Len(connections) + 1 <= Cardinality(Sources)
<1> DEFINE n == Len(connections)
           f == [i \in 1..n |-> connections[i].source]
           rest == Sources \ {packet.source}
<1>1. n \in Nat /\ ind - 1 = n /\ packet.source \in Sources
  BY Types DEF UpInv, IndexInv, DispatchInv, Packets
<1>2. /\ \A i \in 1..n : connections[i].source \in rest
      /\ \A i, j \in 1..n : connections[i].source = connections[j].source => i = j
  BY <1>1 DEF UpInv, FreshInv
<1>3. f \in Injection(1..n, rest)
  BY <1>2 DEF Injection, IsInjective
<1>4. /\ IsFiniteSet(rest) /\ Cardinality(Sources) \in Nat
      /\ Cardinality(rest) = Cardinality(Sources) - 1
  BY <1>1, HandlerUpAssumption, FS_RemoveElement, FS_CardinalityType
<1>5. Cardinality(1..n) <= Cardinality(rest)
  BY <1>3, <1>4, FS_Injection
<1>6. Cardinality(1..n) = n
  <2>1. 1 \in Int /\ n \in Int
    BY <1>1
  <2>2. Cardinality(1..n) = IF 1 > n THEN 0 ELSE n - 1 + 1
    BY <2>1, FS_Interval, Zenon
  <2> QED
    BY <1>1, <2>2
<1> QED
  BY <1>1, <1>4, <1>5, <1>6

LEMMA openConnectionKeeps == ASSUME UpInv, openConnection PROVE UpInv'
<1> USE DEF UpInv
<1>1. /\ pc = "loop" /\ pc' = "flush" /\ ind > Len(connections) /\ ~isHandled
      /\ UNCHANGED <<ind, isHandled, closedConnection>>
  BY DEF openConnection
<1>2. handledBy = {} /\ packet.source \in Sources
  BY <1>1 DEF HandledInv, DispatchInv, Packets
<1>3. \A j \in Open : connections[j].source # packet.source
  <2>1. \A j \in Open : ~(j >= ind)
    BY <1>1, Types DEF Open
  <2> QED
    BY <1>1, <2>1 DEF DispatchInv
<1>4. DispatchInv' /\ FreshInv'
  BY <1>1 DEF DispatchInv, FreshInv
<1>5. CASE closedConnection # 0
  <2>1. closedConnection \in 1..Len(connections)
    BY <1>5, Types DEF TypeOK
  <2>2. PICK r \in receiveFromClient(connections[closedConnection], packet) :
          connections' = [connections EXCEPT ![closedConnection] = r.con] /\ packet' = r.packet
    BY <1>5 DEF openConnection
  <2>3. handledBy' = {<<closedConnection, packet>>}
    BY <1>2, <1>5 DEF openConnection
  <2>4. /\ connections' \in Seq(Session) /\ packet' \in AnyPacket
        /\ Len(connections') = Len(connections)
        /\ SourceInv' /\ OneSessionPerSource'
    BY <1>2, <1>3, <2>1, <2>2, CallResult
  <2>5. DOMAIN connections' = 1..Len(connections)
    BY <2>4
  <2>6. TypeOK'
    BY <1>1, <2>1, <2>3, <2>4, <2>5 DEF TypeOK, Session, AnyPacket
  <2>7. IndexInv' /\ PoolBounded' /\ HandledInv'
    BY <1>1, <2>3, <2>4 DEF IndexInv, PoolBounded, HandledInv, HandledOnce
  <2> QED
    BY <1>4, <2>4, <2>6, <2>7
<1>6. CASE closedConnection = 0
  <2> DEFINE n == Len(connections)
  <2>1. PICK r \in receiveFromClient(None, packet) :
          connections' = Append(connections, r.con) /\ packet' = r.packet
    BY <1>6 DEF openConnection
  <2>2. n < MaxConnections /\ handledBy' = {<<n + 1, packet>>}
    BY <1>2, <1>6 DEF openConnection
  <2>3. /\ connections \in Seq(Session) /\ n \in Nat /\ packet \in AnyPacket
        /\ ind \in Nat /\ MaxConnections \in Nat
        /\ DOMAIN connections = 1..n
    BY Types
  <2>4. None \in Session /\ None.state = "CLOSED"
    BY DEF None, Session, States, Ends
  <2> DEFINE c == r.con
  <2>5. /\ c \in Session /\ packet' \in AnyPacket
        /\ c.state # "CLOSED" => c.source = packet.source
    BY <2>1, <2>3, <2>4, ReceiveResult
  <2> HIDE DEF c
  <2>6. /\ connections' \in Seq(Session) /\ Len(connections') = n + 1
        /\ connections'[n + 1] = c
        /\ \A j \in 1..n : connections'[j] = connections[j]
    BY <2>1, <2>3, <2>5 DEF c
  <2>7. DOMAIN connections' = 1..(n + 1)
    BY <2>3, <2>6
  <2>8. \A j \in Open' : \/ j \in Open /\ connections'[j] = connections[j]
                         \/ j = n + 1 /\ connections'[j].source = packet.source
    <3>1. \A j \in 1..(n + 1) : j \in 1..n \/ j = n + 1
      BY <2>3
    <3> QED
      BY <2>3, <2>5, <2>6, <2>7, <3>1 DEF Open
  <2>9. SourceInv' /\ OneSessionPerSource'
    BY <1>2, <1>3, <2>3, <2>8 DEF SourceInv, OneSessionPerSource
  <2>10. TypeOK'
    <3>1. /\ closedConnection' \in 0..Len(connections')
          /\ \A a \in handledBy' : a[1] \in DOMAIN connections'
      BY <1>1, <1>6, <2>2, <2>3, <2>6, <2>7
    <3> QED
      BY <1>1, <2>5, <2>6, <3>1 DEF TypeOK, Session, AnyPacket
  <2>11. IndexInv'
    BY <1>1, <2>2, <2>3, <2>6 DEF IndexInv
  <2>12. PoolBounded'
    BY <1>1, <1>6, <2>6, RoomForOneMore DEF PoolBounded
  <2>13. HandledInv'
    BY <1>1, <2>2 DEF HandledInv, HandledOnce
  <2> QED
    BY <1>4, <2>9, <2>10, <2>11, <2>12, <2>13
<1> QED
  BY <1>5, <1>6

LEMMA UpInvariant == Spec => []UpInv
<1>1. ASSUME UpInv, [Next]_vars
      PROVE  UpInv'
  <2>1. CASE flushAll
    BY <1>1, <2>1, ClosingKeeps DEF flushAll
  <2>2. CASE closedByDownStream
    BY <1>1, <2>2, ClosingKeeps DEF closedByDownStream
  <2>3. CASE UNCHANGED vars
    <3> USE <2>3 DEF vars
    <3>1. TypeOK' /\ IndexInv' /\ PoolBounded'
      BY <1>1 DEF UpInv, TypeOK, IndexInv, PoolBounded
    <3>2. SourceInv' /\ OneSessionPerSource' /\ DispatchInv' /\ FreshInv'
      BY <1>1 DEF UpInv, SourceInv, OneSessionPerSource, DispatchInv, FreshInv, Open
    <3>3. HandledInv'
      BY <1>1 DEF UpInv, HandledInv, HandledOnce, Open
    <3> QED
      BY <3>1, <3>2, <3>3 DEF UpInv
  <2> QED
    BY <1>1, <2>1, <2>2, <2>3, readPacketKeeps, testConnectionKeeps, deliverKeeps,
       openConnectionKeeps, endPacketKeeps DEF Next
<1> QED
  BY InitInv, <1>1, PTL DEF Spec

-----------------------------------------------------------------------------
\* handleUpStream never indexes past its vector: the loop's position, the noted
\* closed session and the sessions keep their types.
THEOREM UpTypeCorrect == Spec => []TypeOK
BY UpInvariant, PTL DEF UpInv

\* No two open sessions of the Handler have the same source, however the down
\* stream thread's closes fall between the loop's tests and calls.
THEOREM SourcesAreServedOnce == Spec => []OneSessionPerSource
BY UpInvariant, PTL DEF UpInv

\* handleUpStream never gives two sessions a packet in the name of one source,
\* although receiveFromClient writes its answers into the packet the loop goes on
\* with: the client's packet has one receiver, and so has every answer.
THEOREM PacketsAreHandledOnce == Spec => []HandledOnce
BY UpInvariant, PTL DEF UpInv, HandledInv

\* The vector of sessions never holds more of them than there are sources.
THEOREM PoolIsBounded == Spec => []PoolBounded
BY UpInvariant, PTL DEF UpInv
=============================================================================
