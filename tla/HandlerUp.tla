------------------------------ MODULE HandlerUp ------------------------------
(***************************************************************************)
(* The up stream thread of the Handler (src/src/handler/Handler.cpp,       *)
(* handleUpStream): it gives each packet read from the tunnel to the       *)
(* session that can handle it, opens one for a SYN nobody handles, reusing *)
(* the first closed session of the vector, and resets everything else.     *)
(* The down stream thread may close a session between any two steps.       *)
(***************************************************************************)
EXTENDS Naturals, Sequences, FiniteSets, SessionMoves

CONSTANTS
  Sources,         \* the client's addresses and ports
  Servers,         \* the addresses and ports it sends to, its own among them
  NoAddress,       \* the source of a session that was never opened
  MaxConnections   \* bound: sessions ever created

ASSUME HandlerUpAssumption ==
  /\ IsFiniteSet(Sources)
  /\ NoAddress \notin Sources \cup Servers
  /\ MaxConnections \in Nat

VARIABLES
  connections,       \* the sessions, in the order of the vector
  packet,            \* the packet being handled
  pc,                \* where the thread is
  ind,               \* the session the loop is at
  isHandled,
  closedConnection,  \* index of the first closed session met, 0 for none
  handledBy          \* history: who was given the packet, and what it was then

vars == <<connections, packet, pc, ind, isHandled, closedConnection, handledBy>>

\* Definitions named X_Fault are X with a fault the checks must see.
Ends == Sources \cup Servers \cup {NoAddress}
Packets == [kind : Kinds, source : Sources, dest : Servers]
None == [state |-> "CLOSED", source |-> NoAddress, dest |-> NoAddress]

\* The destination is not compared: a session is known by its source.
canHandle(con, p) == con.source = p.source

\* A SYN that opens a session sets its ends, nothing else changes them.
moved(con, p, st) ==
  IF con.state = "CLOSED" /\ st # "CLOSED"
  THEN [state |-> st, source |-> p.source, dest |-> p.dest]
  ELSE [con EXCEPT !.state = st]

\* An answer is written into the packet it answers, from whoever the packet was
\* for, or from the session's destination.
swapEnds(p, kind) == [kind |-> kind, source |-> p.dest, dest |-> p.source]
setEnds(con, kind) == [kind |-> kind, source |-> con.dest, dest |-> con.source]

\* What may be left of p when receiveFromClient takes con to st.
leftOf(con, p, st) ==
  CASE p.kind = "RST" -> {p}
    [] p.kind = "SYNACK" -> {swapEnds(p, "RST")}
    [] p.kind = "SYN" /\ con.state = "ESTABLISHED" -> {swapEnds(p, "ACK")}
    [] p.kind = "SYN" /\ con.state # "ESTABLISHED" ->
         {q \in {p, swapEnds(p, "RST"), swapEnds(p, "SYNACK")} :
            CASE q.kind = "SYN" -> con.state = "CLOSED" /\ st = "SYN_RECEIVED"
              [] q.kind = "RST" -> st = con.state
              [] q.kind = "SYNACK" -> st = "SYN_ACK_SENT"}
    [] p.kind = "ACK" /\ con.state = "ESTABLISHED" ->
         IF st = "CLOSED" THEN {p, setEnds(con, "RST")}
         ELSE {p, setEnds(con, "ACK"), swapEnds(p, "ACK"), swapEnds(p, "RST")}
    [] p.kind = "ACK" /\ con.state # "ESTABLISHED" ->
         {IF st = "ESTABLISHED" THEN p ELSE swapEnds(p, "RST")}

\* receiveFromClient: the session it leaves, and the packet.
receiveFromClient(con, p) ==
  UNION {{[con |-> moved(con, p, st), packet |-> q] : q \in leftOf(con, p, st)} :
           st \in ReceiveMoves(con.state, p.kind)}

\* select and readPacket.
readPacket ==
  /\ pc = "read"
  /\ packet' \in Packets
  /\ pc' = "loop"
  /\ ind' = 1
  /\ isHandled' = FALSE
  /\ closedConnection' = 0
  /\ handledBy' = {}
  /\ UNCHANGED connections

\* The first closed session the loop meets is kept for a SYN.
noteClosed_Last(closed) == IF closed THEN ind ELSE 0
noteClosed_PastIt(closed) ==
  IF closed /\ closedConnection = 0 THEN ind + 1 ELSE closedConnection
noteClosed(closed) ==
  IF closed /\ closedConnection = 0 THEN ind ELSE closedConnection

\* The loop's tests on a session.
testConnection ==
  /\ pc = "loop"
  /\ ind <= Len(connections)
  /\ LET con == connections[ind]
         closed == con.state = "CLOSED"
         deliver == ~closed /\ canHandle(con, packet)
     IN /\ closedConnection' = noteClosed(closed)
        /\ pc' = IF deliver THEN "deliver" ELSE "loop"
        /\ ind' = IF deliver THEN ind ELSE ind + 1
  /\ UNCHANGED <<connections, packet, isHandled, handledBy>>

\* The loop's call, on whatever state the session is in by now.  The sessions
\* after it are asked about the packet as the call has left it.
deliver_Unmarked ==
  /\ pc = "deliver"
  /\ \E r \in receiveFromClient(connections[ind], packet) :
       /\ connections' = [connections EXCEPT ![ind] = r.con]
       /\ packet' = r.packet
  /\ handledBy' = handledBy \cup {<<ind, packet>>}
  /\ pc' = "loop"
  /\ ind' = ind + 1
  /\ UNCHANGED <<closedConnection, isHandled>>
deliver ==
  /\ pc = "deliver"
  /\ \E r \in receiveFromClient(connections[ind], packet) :
       /\ connections' = [connections EXCEPT ![ind] = r.con]
       /\ packet' = r.packet
  /\ isHandled' = TRUE
  /\ handledBy' = handledBy \cup {<<ind, packet>>}
  /\ pc' = "loop"
  /\ ind' = ind + 1
  /\ UNCHANGED closedConnection

\* isSyn: a SYN's answer to a SYN counts.
isSyn(p) == p.kind \in {"SYN", "SYNACK"}

\* A SYN nobody handled opens a session, one of the closed ones if it can.
openConnection ==
  /\ pc = "loop"
  /\ ind > Len(connections)
  /\ ~isHandled
  /\ isSyn(packet)
  /\ IF closedConnection = 0
     THEN /\ Len(connections) < MaxConnections
          /\ \E r \in receiveFromClient(None, packet) :
               connections' = Append(connections, r.con) /\ packet' = r.packet
          /\ handledBy' = handledBy \cup {<<Len(connections) + 1, packet>>}
     ELSE /\ \E r \in receiveFromClient(connections[closedConnection], packet) :
               /\ connections' = [connections EXCEPT ![closedConnection] = r.con]
               /\ packet' = r.packet
          /\ handledBy' = handledBy \cup {<<closedConnection, packet>>}
  /\ pc' = "flush"
  /\ UNCHANGED <<ind, isHandled, closedConnection>>

\* Anything else nobody handled is answered with a reset, a reset included.
endPacket ==
  /\ pc = "loop"
  /\ ind > Len(connections)
  /\ isHandled \/ ~isSyn(packet)
  /\ packet' = IF isHandled THEN packet ELSE swapEnds(packet, "RST")
  /\ pc' = "flush"
  /\ UNCHANGED <<connections, ind, isHandled, closedConnection, handledBy>>

\* The sessions in closing become closed.
Close(closing) ==
  [i \in DOMAIN connections |->
     IF i \in closing THEN [connections[i] EXCEPT !.state = "CLOSED"]
                      ELSE connections[i]]

MayClose == {i \in DOMAIN connections : "CLOSED" \in FlushMoves(connections[i].state)}

\* flushDataToServer on every session not closed; each may find its socket
\* broken or its streams complete.
flushAll ==
  /\ pc = "flush"
  /\ \E closing \in SUBSET MayClose : connections' = Close(closing)
  /\ pc' = "read"
  /\ UNCHANGED <<packet, ind, isHandled, closedConnection, handledBy>>

\* The down stream thread, at any time.
closedByDownStream ==
  /\ \E i \in MayClose : connections' = Close({i})
  /\ UNCHANGED <<packet, pc, ind, isHandled, closedConnection, handledBy>>

Init ==
  /\ connections = <<>>
  /\ packet \in Packets
  /\ pc = "read"
  /\ ind = 1
  /\ isHandled = FALSE
  /\ closedConnection = 0
  /\ handledBy = {}

Next == \/ readPacket \/ testConnection \/ deliver \/ openConnection
        \/ endPacket \/ flushAll \/ closedByDownStream
Spec == Init /\ [][Next]_vars

-----------------------------------------------------------------------------
(* Properties *)

\* The loop's index and closedConnection stay within the vector.
TypeOK ==
  /\ connections \in Seq([state : States, source : Ends, dest : Ends])
  /\ packet \in [kind : Kinds, source : Ends, dest : Ends]
  /\ pc \in {"read", "loop", "deliver", "flush"}
  /\ ind \in 1..(MaxConnections + 1)
  /\ isHandled \in BOOLEAN
  /\ closedConnection \in 0..Len(connections)
  /\ \A a \in handledBy : a[1] \in DOMAIN connections

Open == {i \in DOMAIN connections : connections[i].state # "CLOSED"}

\* No two open sessions have the same source: the loop has no break, so a
\* packet would be handled, and answered, twice.
OneSessionPerSource ==
  \A i, j \in Open : connections[i].source = connections[j].source => i = j

\* No two sessions are given the packet in the name of one source, also when
\* sessions close while the loop runs.  The loop has no break and a session's
\* answer is written into the packet, so a session whose source is the packet's
\* destination may be given the answer next; but neither the packet nor an answer
\* goes to two sessions.
HandledOnce == \A a, b \in handledBy : a[2].source = b[2].source => a = b

\* The vector never shrinks, but it does not grow past one session for each
\* source either: a closed session is found and used again.
PoolBounded == Len(connections) <= Cardinality(Sources)
=============================================================================
