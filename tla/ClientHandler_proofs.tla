------------------------ MODULE ClientHandler_proofs ------------------------
(***************************************************************************)
(* The safety of the client's handler for any number of tunnels, sessions, *)
(* connections and sockets offered: the open tunnels come first in their   *)
(* list, the loops over the sessions stay in theirs, and a counted session *)
(* leaves the count only closed.                                           *)
(***************************************************************************)
EXTENDS ClientHandler, FiniteSetTheorems, SequenceTheorems, TLAPS

\* A list holds each of its nodes once.
Nodes(list) ==
  /\ list \in Seq(Nat)
  /\ \A i \in DOMAIN list : list[i] \in 1..Len(list)
  /\ \A i, j \in DOMAIN list : list[i] = list[j] => i = j

\* A loop that is at a node with left turns to go has that many nodes, from
\* this one on, among the first c.
LoopAt(list, node, c, left) ==
  \E p \in DOMAIN list : list[p] = node /\ p + left - 1 <= c

Sessions == [state : Moves!States, ends : Connections \cup {NoConnection}]

TunnelsInv ==
  /\ Nodes(tunnels) /\ Len(tunnels) <= MAXIMUM_TUNNELS
  /\ openTunnelsCount \in 0..(MAXIMUM_TUNNELS + 1)
  /\ OpenTunnelsFirst

SessionsInv ==
  /\ Nodes(tcpSessions) /\ Len(tcpSessions) <= MAXIMUM_TCP_SESSIONS
  /\ openTCPSessionsCount \in 0..Len(tcpSessions)
  /\ session \in [SessionNodes -> Sessions]

ThreadInv ==
  /\ candidates \in 0..MaxCandidates
  /\ pc \in {"ended", "starting", "wait", "take", "select", "tunnels", "sessions", "tick",
             "tickTunnels", "tickSessions", "undefined", "hung"}
  /\ count \in -2..MaxReady
  /\ unread \in 0..MaxPackets
  /\ remaining \in Nat

\* The loops over the tunnels may run into the end, which is then undefined,
\* as the count may be past the list.
TunnelLoopInv ==
  pc \in {"tunnels", "tickTunnels"} /\ remaining > 0 /\ it # End =>
    LoopAt(tunnels, it, openTunnelsCount, remaining)

\* The loops over the sessions never do.
SessionLoopInv ==
  pc \in {"sessions", "tickSessions"} /\ remaining > 0 =>
    LoopAt(tcpSessions, it, openTCPSessionsCount, remaining)

ClientInv == TunnelsInv /\ SessionsInv /\ ThreadInv /\ TunnelLoopInv /\ SessionLoopInv

-----------------------------------------------------------------------------
(* The lists *)

\* The position of a node is the one place it is at.
LEMMA AtPosition ==
  ASSUME NEW list, Nodes(list), NEW p \in DOMAIN list
  PROVE  At(list, list[p]) = p
BY DEF Nodes, At

LEMMA AfterPosition ==
  ASSUME NEW list, Nodes(list), NEW p \in DOMAIN list
  PROVE  /\ p = Len(list) => After(list, list[p]) = End
         /\ p < Len(list) => After(list, list[p]) = list[p + 1]
<1>1. At(list, list[p]) = p
  BY AtPosition
<1>2. p \in Int /\ Len(list) \in Int
  BY DEF Nodes
<1> QED
  BY <1>1, <1>2 DEF After

\* Where splice takes the node at each place from.
From(p, n, k) == IF k < p THEN k ELSE IF k < n THEN k + 1 ELSE p

LEMMA FromRange ==
  ASSUME NEW n \in Nat, NEW p \in 1..n
  PROVE  /\ \A k \in 1..n : From(p, n, k) \in 1..n
         /\ \A j, k \in 1..n : From(p, n, j) = From(p, n, k) => j = k
BY DEF From

\* Behind the node that moves to the end every other one moves up by one.
LEMMA SpliceShape ==
  ASSUME NEW list, Nodes(list), NEW p \in DOMAIN list
  PROVE  /\ splice(list, list[p]) \in Seq(Nat)
         /\ Len(splice(list, list[p])) = Len(list)
         /\ \A k \in 1..Len(list) : splice(list, list[p])[k] = list[From(p, Len(list), k)]
<1> DEFINE n == Len(list)
           a == SubSeq(list, 1, p - 1)
           b == SubSeq(list, p + 1, n)
           c == a \o b
           d == c \o <<list[p]>>
<1>1. list \in Seq(Nat) /\ p \in 1..n /\ n \in Nat /\ list[p] \in Nat
  BY DEF Nodes
<1>2. splice(list, list[p]) = d
  BY AtPosition DEF splice
<1> HIDE DEF n
<1>3. /\ a \in Seq(Nat) /\ Len(a) = p - 1
      /\ \A k \in 1..(p - 1) : a[k] = list[k]
  <2> DEFINE q == p - 1
  <2>1. list \in Seq(Nat) /\ q \in 0..Len(list)
    BY <1>1 DEF n
  <2>2. a = SubSeq(list, 1, q)
    BY DEF q
  <2> HIDE DEF q, a
  <2>3. a \in Seq(Nat)
    BY <2>1, <2>2
  <2>4. Len(a) = q
    BY <2>1, <2>2
  <2>5. ASSUME NEW k \in 1..q
        PROVE  a[k] = list[k]
    BY <2>1, <2>2
  <2> QED
    BY <2>3, <2>4, <2>5 DEF q
<1>4. /\ b \in Seq(Nat) /\ Len(b) = n - p
      /\ \A k \in 1..(n - p) : b[k] = list[p + k]
  <2> DEFINE q == p + 1
  <2>1. list \in Seq(Nat) /\ q \in 1..(Len(list) + 1) /\ n = Len(list)
    BY <1>1 DEF n
  <2>2. b = SubSeq(list, q, n)
    BY DEF q
  <2> HIDE DEF q, b
  <2>3. b \in Seq(Nat)
    BY <2>1, <2>2
  <2>4. Len(b) = n - q + 1
    BY <2>1, <2>2
  <2>5. ASSUME NEW k \in 1..(n - q + 1)
        PROVE  b[k] = list[q + k - 1]
    BY <2>1, <2>2
  <2>6. n - q + 1 = n - p /\ \A k \in 1..(n - p) : q + k - 1 = p + k
    BY <1>1 DEF q
  <2> QED
    BY <2>3, <2>4, <2>5, <2>6
<1> HIDE DEF a, b
<1>5. /\ c \in Seq(Nat) /\ Len(c) = n - 1
      /\ \A k \in 1..(n - 1) : c[k] = IF k <= p - 1 THEN a[k] ELSE b[k - (p - 1)]
  <2>1. /\ c \in Seq(Nat) /\ Len(c) = Len(a) + Len(b)
        /\ \A k \in 1..(Len(a) + Len(b)) :
             c[k] = IF k <= Len(a) THEN a[k] ELSE b[k - Len(a)]
    BY <1>3, <1>4, ConcatProperties
  <2>2. (p - 1) + (n - p) = n - 1
    BY <1>1
  <2> HIDE DEF c
  <2> QED
    BY <1>3, <1>4, <2>1, <2>2
<1> HIDE DEF c
<1>6. /\ d \in Seq(Nat) /\ Len(d) = n
      /\ \A k \in 1..n : d[k] = IF k <= n - 1 THEN c[k] ELSE <<list[p]>>[k - (n - 1)]
  <2>0. <<list[p]>> \in Seq(Nat) /\ Len(<<list[p]>>) = 1
    BY <1>1
  <2>1. /\ d \in Seq(Nat) /\ Len(d) = Len(c) + 1
        /\ \A k \in 1..(Len(c) + 1) :
             d[k] = IF k <= Len(c) THEN c[k] ELSE <<list[p]>>[k - Len(c)]
    BY <1>5, <2>0, ConcatProperties
  <2>2. (n - 1) + 1 = n
    BY <1>1
  <2> HIDE DEF d
  <2> QED
    BY <1>5, <2>1, <2>2
<1> HIDE DEF d
<1>7. ASSUME NEW k \in 1..n
      PROVE  d[k] = list[From(p, n, k)]
  <2>1. CASE k < p
    <3>1. k \in 1..(p - 1) /\ k \in 1..(n - 1) /\ From(p, n, k) = k /\ k <= n - 1 /\ k <= p - 1
      BY <1>1, <2>1 DEF From
    <3> QED
      BY <1>3, <1>5, <1>6, <3>1
  <2>2. CASE p <= k /\ k < n
    <3>1. /\ k \in 1..(n - 1) /\ From(p, n, k) = k + 1 /\ k <= n - 1 /\ ~(k <= p - 1)
          /\ k - (p - 1) \in 1..(n - p) /\ p + (k - (p - 1)) = k + 1
      BY <1>1, <2>2 DEF From
    <3>2. d[k] = b[k - (p - 1)]
      BY <1>5, <1>6, <3>1
    <3> QED
      BY <1>4, <3>1, <3>2
  <2>3. CASE k = n
    <3>1. From(p, n, k) = p /\ ~(k <= n - 1) /\ k - (n - 1) = 1
      BY <1>1, <2>3 DEF From
    <3> QED
      BY <1>6, <3>1
  <2> QED
    BY <1>1, <2>1, <2>2, <2>3
<1> QED
  BY <1>2, <1>6, <1>7 DEF n

LEMMA SpliceNodes ==
  ASSUME NEW list, Nodes(list), NEW p \in DOMAIN list
  PROVE  Nodes(splice(list, list[p]))
<1> DEFINE s == splice(list, list[p])
           n == Len(list)
           f(k) == From(p, n, k)
<1>1. s \in Seq(Nat) /\ Len(s) = n /\ \A k \in 1..n : s[k] = list[f(k)]
  BY SpliceShape
<1>2. /\ n \in Nat /\ p \in 1..n
      /\ \A i \in 1..n : list[i] \in 1..n
      /\ \A i, j \in 1..n : list[i] = list[j] => i = j
  BY DEF Nodes
<1>3. /\ \A k \in 1..n : f(k) \in 1..n
      /\ \A j, k \in 1..n : f(j) = f(k) => j = k
  BY <1>2, FromRange
<1> HIDE DEF s, n, f
<1>0. DOMAIN s = 1..n
  BY <1>1
<1>4. \A i \in DOMAIN s : s[i] \in 1..n
  BY <1>0, <1>1, <1>2, <1>3
<1>5. \A i, j \in DOMAIN s : s[i] = s[j] => i = j
  <2>1. SUFFICES ASSUME NEW i \in 1..n, NEW j \in 1..n, s[i] = s[j]
                 PROVE  i = j
    BY <1>0
  <2>2. list[f(i)] = list[f(j)] /\ f(i) \in 1..n /\ f(j) \in 1..n
    BY <1>1, <1>3, <2>1
  <2> QED
    BY <1>2, <1>3, <2>2
<1>6. Nodes(s)
  BY <1>1, <1>4, <1>5 DEF Nodes
<1> QED
  BY <1>6 DEF s

\* What was among the first c is, but for the node, among the first c - 1.
LEMMA SplicePrefix ==
  ASSUME NEW list, Nodes(list), NEW p \in DOMAIN list, NEW c \in Int, p <= c
  PROVE  Prefix(list, c) \ {list[p]} \subseteq Prefix(splice(list, list[p]), c - 1)
<1> DEFINE s == splice(list, list[p])
           n == Len(list)
<1>1. s \in Seq(Nat) /\ Len(s) = n /\ \A k \in 1..n : s[k] = list[From(p, n, k)]
  BY SpliceShape
<1>2. n \in Nat /\ DOMAIN list = 1..n /\ p \in 1..n /\ DOMAIN s = 1..n
  BY <1>1 DEF Nodes
<1> HIDE DEF s, n
<1>4. SUFFICES ASSUME NEW i \in DOMAIN list, i <= c, i # p
               PROVE  \E j \in DOMAIN s : j <= c - 1 /\ s[j] = list[i]
  <2>1. SUFFICES ASSUME NEW x \in Prefix(list, c), x # list[p]
                 PROVE  x \in Prefix(s, c - 1)
    BY DEF s
  <2>2. PICK i \in DOMAIN list : i <= c /\ x = list[i]
    BY DEF Prefix
  <2>3. \E j \in DOMAIN s : j <= c - 1 /\ s[j] = list[i]
    BY <1>4, <2>1, <2>2
  <2> QED
    BY <2>2, <2>3 DEF Prefix
<1>5. CASE i < p
  <2>1. i \in 1..n /\ i <= c - 1 /\ From(p, n, i) = i
    BY <1>2, <1>5 DEF From
  <2> QED
    BY <1>1, <1>2, <2>1
<1>6. CASE i > p
  <2>1. i - 1 \in 1..n /\ i - 1 <= c - 1 /\ From(p, n, i - 1) = i
    BY <1>2, <1>4, <1>6 DEF From
  <2> QED
    BY <1>1, <1>2, <2>1
<1> QED
  BY <1>2, <1>4, <1>5, <1>6

\* Appending a new node keeps what is there.
LEMMA AppendNodes ==
  ASSUME NEW list, Nodes(list)
  PROVE  /\ Nodes(Append(list, Len(list) + 1))
         /\ Len(Append(list, Len(list) + 1)) = Len(list) + 1
         /\ Append(list, Len(list) + 1)[Len(list) + 1] = Len(list) + 1
         /\ DOMAIN Append(list, Len(list) + 1) = 1..(Len(list) + 1)
         /\ \A i \in DOMAIN list : Append(list, Len(list) + 1)[i] = list[i]
<1> DEFINE n == Len(list)
           s == Append(list, n + 1)
<1>1. /\ list \in Seq(Nat) /\ n \in Nat /\ DOMAIN list = 1..n
      /\ \A i \in 1..n : list[i] \in 1..n
      /\ \A i, j \in 1..n : list[i] = list[j] => i = j
  BY DEF Nodes
<1>2. /\ s \in Seq(Nat) /\ Len(s) = n + 1 /\ DOMAIN s = 1..(n + 1)
      /\ \A i \in 1..n : s[i] = list[i]
      /\ s[n + 1] = n + 1
  BY <1>1
<1> HIDE DEF s, n
<1>3. \A i \in 1..(n + 1) : i = n + 1 \/ i \in 1..n
  BY <1>1
<1>4. n + 1 \in 1..(n + 1) /\ n + 1 \notin 1..n /\ 1..n \subseteq 1..(n + 1)
  BY <1>1
<1>5. \A i \in DOMAIN s : s[i] \in 1..(n + 1)
  BY <1>1, <1>2, <1>3, <1>4
<1>6. \A i, j \in DOMAIN s : s[i] = s[j] => i = j
  <2>1. SUFFICES ASSUME NEW i \in 1..(n + 1), NEW j \in 1..(n + 1), s[i] = s[j]
                 PROVE  i = j
    BY <1>2
  <2>2. CASE i \in 1..n /\ j \in 1..n
    <3>1. list[i] = list[j]
      BY <1>2, <2>1, <2>2
    <3> QED
      BY <1>1, <2>2, <3>1
  <2>3. CASE i = n + 1 /\ j \in 1..n
    <3>1. s[j] \in 1..n
      BY <1>1, <1>2, <2>3
    <3> QED
      BY <1>2, <1>4, <2>1, <2>3, <3>1
  <2>4. CASE j = n + 1 /\ i \in 1..n
    <3>1. s[i] \in 1..n
      BY <1>1, <1>2, <2>4
    <3> QED
      BY <1>2, <1>4, <2>1, <2>4, <3>1
  <2> QED
    BY <1>3, <2>2, <2>3, <2>4
<1>7. Nodes(s)
  BY <1>2, <1>5, <1>6 DEF Nodes
<1> QED
  BY <1>1, <1>2, <1>7 DEF s, n

LEMMA PrefixGrows ==
  ASSUME NEW list, NEW longer, NEW c \in Int, NEW d \in Int, c <= d,
         Nodes(list), Nodes(longer), Len(list) <= Len(longer),
         \A i \in DOMAIN list : longer[i] = list[i]
  PROVE  Prefix(list, c) \subseteq Prefix(longer, d)
<1>1. /\ DOMAIN list = 1..Len(list) /\ DOMAIN longer = 1..Len(longer)
      /\ Len(list) \in Nat /\ Len(longer) \in Nat
  BY DEF Nodes
<1> QED
  BY <1>1 DEF Prefix

-----------------------------------------------------------------------------
(* The loops *)

\* A loop starts at the front with as many turns as are counted.
LEMMA LoopStarts ==
  ASSUME NEW list, Nodes(list), NEW c \in Nat, list # <<>>
  PROVE  LoopAt(list, First(list), c, c)
<1>1. 1 \in DOMAIN list /\ list[1] = First(list) /\ 1 + c - 1 <= c
  BY DEF Nodes, First
<1> QED
  BY <1>1 DEF LoopAt

\* The node of a loop is in the list, and counted while a turn is left.
LEMMA LoopNode ==
  ASSUME NEW list, Nodes(list), NEW c \in Int, NEW left \in Nat, NEW node,
         LoopAt(list, node, c, left)
  PROVE  /\ node \in 1..Len(list)
         /\ left > 0 => c >= 1
BY DEF LoopAt, Nodes

LEMMA LoopStays ==
  ASSUME NEW list, Nodes(list), NEW c \in Int, NEW left \in Nat, NEW node,
         LoopAt(list, node, c, left)
  PROVE  LoopAt(list, node, c, left - 1)
BY DEF LoopAt, Nodes

\* The node behind, if the list does not end here.
LEMMA LoopMoves ==
  ASSUME NEW list, Nodes(list), NEW c \in Int, NEW left \in Nat, NEW node,
         LoopAt(list, node, c, left), following(list, node) # End
  PROVE  LoopAt(list, following(list, node), c, left - 1)
<1>1. PICK p \in DOMAIN list : list[p] = node /\ p + left - 1 <= c
  BY DEF LoopAt
<1>2. p \in 1..Len(list) /\ Len(list) \in Nat /\ DOMAIN list = 1..Len(list)
  BY DEF Nodes
<1>3. p < Len(list) /\ following(list, node) = list[p + 1]
  <2>1. /\ p = Len(list) => following(list, node) = End
        /\ p < Len(list) => following(list, node) = list[p + 1]
    BY <1>1, AfterPosition DEF following
  <2> QED
    BY <1>2, <2>1
<1>4. p + 1 \in DOMAIN list /\ (p + 1) + (left - 1) - 1 <= c
  BY <1>1, <1>2, <1>3
<1> QED
  BY <1>3, <1>4 DEF LoopAt

\* It is where it was once the node in front of it is spliced away, and the
\* count and the turns to go are one less.
LEMMA LoopSplices ==
  ASSUME NEW list, Nodes(list), NEW c \in Int, NEW left \in Nat, NEW node,
         LoopAt(list, node, c, left), following(list, node) # End
  PROVE  LoopAt(splice(list, node), following(list, node), c - 1, left - 1)
<1>1. PICK p \in DOMAIN list : list[p] = node /\ p + left - 1 <= c
  BY DEF LoopAt
<1> DEFINE n == Len(list)
           s == splice(list, node)
<1>2. p \in 1..n /\ n \in Nat
  BY DEF Nodes
<1>3. p < n /\ following(list, node) = list[p + 1]
  BY <1>1, <1>2, AfterPosition DEF following
<1>4. s \in Seq(Nat) /\ Len(s) = n /\ \A k \in 1..n : s[k] = list[From(p, n, k)]
  BY <1>1, SpliceShape
<1> HIDE DEF s, n
<1>5. DOMAIN s = 1..n
  BY <1>4
<1>6. From(p, n, p) = p + 1 /\ p + (left - 1) - 1 <= c - 1
  BY <1>1, <1>2, <1>3 DEF From
<1>7. s[p] = following(list, node)
  BY <1>2, <1>3, <1>4, <1>6
<1>8. LoopAt(s, following(list, node), c - 1, left - 1)
  BY <1>2, <1>5, <1>6, <1>7 DEF LoopAt
<1> QED
  BY <1>8 DEF s

\* A loop whose count is within the list has a node for every turn.
LEMMA LoopInList ==
  ASSUME NEW list, Nodes(list), NEW c \in Int, c <= Len(list), NEW left \in Nat, NEW node,
         LoopAt(list, node, c, left), left > 1
  PROVE  following(list, node) # End
<1>1. PICK p \in DOMAIN list : list[p] = node /\ p + left - 1 <= c
  BY DEF LoopAt
<1>2. p \in 1..Len(list) /\ Len(list) \in Nat /\ DOMAIN list = 1..Len(list)
  BY DEF Nodes
<1>3. p < Len(list) /\ p + 1 \in DOMAIN list
  BY <1>1, <1>2
<1>4. following(list, node) = list[p + 1]
  BY <1>1, <1>3, AfterPosition DEF following
<1> QED
  BY <1>3, <1>4 DEF Nodes, End

\* What a splice of the loop's node leaves of the list.
LEMMA LoopSpliced ==
  ASSUME NEW list, Nodes(list), NEW c \in Int, NEW left \in Nat, left > 0, NEW node,
         LoopAt(list, node, c, left)
  PROVE  /\ Nodes(splice(list, node)) /\ Len(splice(list, node)) = Len(list)
         /\ Prefix(list, c) \ {node} \subseteq Prefix(splice(list, node), c - 1)
<1>1. PICK p \in DOMAIN list : list[p] = node /\ p + left - 1 <= c
  BY DEF LoopAt
<1>2. p <= c
  BY <1>1 DEF Nodes
<1> QED
  BY <1>1, <1>2, SpliceNodes, SpliceShape, SplicePrefix

-----------------------------------------------------------------------------
(* The steps *)

LEMMA InitInv == ASSUME Init PROVE ClientInv
<1>1. Nodes(<<>>) /\ Len(<<>>) = 0
  BY DEF Nodes
<1>2. TunnelsInv
  BY <1>1, ClientHandlerAssumption DEF Init, TunnelsInv, OpenTunnelsFirst
<1>3. SessionsInv
  <2>1. inState("CLOSED", NoConnection) \in Sessions
    BY DEF inState, Sessions, Moves!States
  <2> QED
    BY <1>1, <2>1, ClientHandlerAssumption DEF Init, SessionsInv
<1>4. ThreadInv
  BY ClientHandlerAssumption DEF Init, ThreadInv
<1> QED
  BY <1>2, <1>3, <1>4 DEF Init, ClientInv, TunnelLoopInv, SessionLoopInv

\* Which steps touch the tunnels, and which the sessions.
LEMMA TunnelSteps ==
  ASSUME [Next]_vars
  PROVE  takeCandidate \/ readTunnel \/ finishTunnel \/ tickTunnel \/ UNCHANGED tunnelVars
BY DEF Next, handleClient, vars, start, startThread, stop, addTunnelSocket, addCandidate,
  ends, awakes, candidatesTaken, selectSockets, handlePacket, tunnelsDone, serveSession,
  sessionHangs, sessionsDone, tickStarts, tickSkipped, tickTunnelsDone, tickSession,
  tickHangs, tickSessionsDone

LEMMA SessionSteps ==
  ASSUME [Next]_vars
  PROVE  handlePacket \/ serveSession \/ tickSession \/ UNCHANGED sessionVars
BY DEF Next, handleClient, vars, start, startThread, stop, addTunnelSocket, addCandidate,
  ends, awakes, takeCandidate, candidatesTaken, selectSockets, readTunnel, finishTunnel,
  tunnelsDone, sessionHangs, sessionsDone, tickStarts, tickSkipped, tickTunnel,
  tickTunnelsDone, tickHangs, tickSessionsDone

\* A tunnel of a loop is closed and deactivated.
LEMMA DeactivatedTunnel ==
  ASSUME ClientInv, deactivateTunnel, tunnelOpen' = tunnelOpen \ {it}, it # End, remaining > 0,
         pc \in {"tunnels", "tickTunnels"}
  PROVE  TunnelsInv'
<1>1. /\ Nodes(tunnels) /\ openTunnelsCount \in Int /\ remaining \in Nat
      /\ Len(tunnels) <= MAXIMUM_TUNNELS /\ openTunnelsCount <= MAXIMUM_TUNNELS + 1
  BY DEF ClientInv, TunnelsInv, ThreadInv
<1>2. LoopAt(tunnels, it, openTunnelsCount, remaining)
  BY DEF ClientInv, TunnelLoopInv
<1>3. /\ Nodes(splice(tunnels, it)) /\ Len(splice(tunnels, it)) = Len(tunnels)
      /\ Prefix(tunnels, openTunnelsCount) \ {it} \subseteq
           Prefix(splice(tunnels, it), openTunnelsCount - 1)
      /\ openTunnelsCount >= 1
  BY <1>1, <1>2, LoopSpliced, LoopNode
<1>4. openTunnelsCount - 1 \in 0..(MAXIMUM_TUNNELS + 1)
  BY <1>1, <1>3, ClientHandlerAssumption
<1>5. OpenTunnelsFirst'
  <2>1. tunnelOpen' \subseteq Prefix(tunnels, openTunnelsCount) \ {it}
    BY DEF ClientInv, TunnelsInv, OpenTunnelsFirst
  <2> QED
    BY <1>3, <2>1 DEF OpenTunnelsFirst, deactivateTunnel
<1> QED
  BY <1>1, <1>3, <1>4, <1>5 DEF TunnelsInv, deactivateTunnel

\* A node is taken for a candidate.
LEMMA NewTunnel ==
  ASSUME ClientInv, initTunnel, ~full
  PROVE  TunnelsInv'
<1>1. /\ Nodes(tunnels) /\ Len(tunnels) \in Nat /\ Len(tunnels) <= MAXIMUM_TUNNELS
      /\ openTunnelsCount \in Nat /\ openTunnelsCount <= MAXIMUM_TUNNELS + 1
      /\ openTunnelsCount # MAXIMUM_TUNNELS /\ MAXIMUM_TUNNELS \in Nat
  BY ClientHandlerAssumption DEF ClientInv, TunnelsInv, full, Nodes
<1>0. /\ tunnelOpen \subseteq Prefix(tunnels, openTunnelsCount)
      /\ DOMAIN tunnels = 1..Len(tunnels)
  BY DEF ClientInv, TunnelsInv, OpenTunnelsFirst, Nodes
<1>2. CASE openTunnelsCount = Len(tunnels)
  <2> DEFINE n == Len(tunnels)
             longer == Append(tunnels, n + 1)
  <2>1. /\ tunnels' = longer /\ tunnelOpen' = tunnelOpen \cup {n + 1}
        /\ openTunnelsCount' = n + 1
    BY <1>2, Zenon DEF initTunnel
  <2>2. /\ Nodes(longer) /\ Len(longer) = n + 1 /\ longer[n + 1] = n + 1
        /\ DOMAIN longer = 1..(n + 1)
        /\ \A i \in DOMAIN tunnels : longer[i] = tunnels[i]
    BY <1>1, AppendNodes
  <2> HIDE DEF longer, n
  <2>3. n + 1 \in 0..(MAXIMUM_TUNNELS + 1) /\ n + 1 <= MAXIMUM_TUNNELS
    <3>1. n \in Nat /\ n <= MAXIMUM_TUNNELS /\ n # MAXIMUM_TUNNELS /\ MAXIMUM_TUNNELS \in Nat
      BY <1>1, <1>2 DEF n
    <3> QED
      BY <3>1
  <2>4. Prefix(tunnels, n) \subseteq Prefix(longer, n + 1)
    BY <1>1, <2>2, PrefixGrows DEF n
  <2>5. n + 1 \in Prefix(longer, n + 1)
    BY <1>1, <2>2 DEF Prefix, n
  <2>6. OpenTunnelsFirst'
    <3>1. tunnelOpen \subseteq Prefix(tunnels, n)
      BY <1>0, <1>2, Zenon DEF n
    <3> QED
      BY <2>1, <2>4, <2>5, <3>1 DEF OpenTunnelsFirst
  <2> QED
    BY <2>1, <2>2, <2>3, <2>6 DEF TunnelsInv
<1>3. CASE openTunnelsCount < Len(tunnels)
  <2>1. /\ tunnelOpen' = tunnelOpen \cup {tunnels[openTunnelsCount + 1]}
        /\ openTunnelsCount' = openTunnelsCount + 2 /\ tunnels' = tunnels
    <3>1. openTunnelsCount # Len(tunnels)
      BY <1>1, <1>3
    <3> QED
      BY <1>3, <3>1, Zenon DEF initTunnel
  <2>2. openTunnelsCount + 2 \in 0..(MAXIMUM_TUNNELS + 1)
    BY <1>1, <1>3
  <2>3. /\ openTunnelsCount + 1 \in DOMAIN tunnels
        /\ openTunnelsCount + 1 <= openTunnelsCount + 2
    BY <1>0, <1>1, <1>3
  <2>4. tunnels[openTunnelsCount + 1] \in Prefix(tunnels, openTunnelsCount + 2)
    BY <2>3 DEF Prefix
  <2>5. Prefix(tunnels, openTunnelsCount) \subseteq Prefix(tunnels, openTunnelsCount + 2)
    BY <1>1, PrefixGrows
  <2>6. OpenTunnelsFirst'
    BY <1>0, <2>1, <2>4, <2>5 DEF OpenTunnelsFirst
  <2> QED
    BY <1>1, <2>1, <2>2, <2>6 DEF TunnelsInv
<1>4. CASE openTunnelsCount > Len(tunnels)
  <2>1. UNCHANGED tunnelVars
    <3>1. openTunnelsCount # Len(tunnels) /\ ~(openTunnelsCount < Len(tunnels))
      BY <1>1, <1>4
    <3> QED
      BY <3>1, Zenon DEF initTunnel
  <2> QED
    BY <2>1 DEF ClientInv, TunnelsInv, OpenTunnelsFirst, tunnelVars
<1> QED
  BY <1>1, <1>2, <1>3, <1>4

LEMMA TunnelsStep == ASSUME ClientInv, [Next]_vars PROVE TunnelsInv'
<1>1. CASE UNCHANGED tunnelVars
  BY <1>1 DEF ClientInv, TunnelsInv, OpenTunnelsFirst, tunnelVars
<1>2. CASE takeCandidate
  <2>1. (~full /\ initTunnel) \/ UNCHANGED tunnelVars
    BY <1>2 DEF takeCandidate, tunnelVars
  <2> QED
    BY <1>1, <2>1, NewTunnel
<1>3. CASE readTunnel
  <2>1. UNCHANGED <<tunnels, openTunnelsCount>> /\ tunnelOpen' \subseteq tunnelOpen
    BY <1>3 DEF readTunnel
  <2> QED
    BY <2>1 DEF ClientInv, TunnelsInv, OpenTunnelsFirst
<1>4. CASE finishTunnel
  <2>1. /\ (tunnelOpen' = tunnelOpen \ {it} /\ deactivateTunnel) \/ UNCHANGED tunnelVars
        /\ it # End /\ remaining > 0 /\ pc = "tunnels"
    BY <1>4 DEF finishTunnel, atTunnel
  <2> QED
    BY <1>1, <2>1, DeactivatedTunnel
<1>5. CASE tickTunnel
  <2>1. /\ (tunnelOpen' = tunnelOpen \ {it} /\ deactivateTunnel) \/ UNCHANGED tunnelVars
        /\ it # End /\ remaining > 0 /\ pc = "tickTunnels"
    BY <1>5 DEF tickTunnel, checkStatus, tunnelVars
  <2> QED
    BY <1>1, <2>1, DeactivatedTunnel
<1> QED
  BY <1>1, <1>2, <1>3, <1>4, <1>5, TunnelSteps

-----------------------------------------------------------------------------
LEMMA MovesType ==
  ASSUME NEW st \in Moves!States
  PROVE  /\ \A kind : Moves!ReceiveMoves(st, kind) \subseteq Moves!States
         /\ Moves!FlushMoves(st) \subseteq Moves!States
         /\ Moves!StatusMoves(st) \subseteq Moves!States
BY DEF Moves!States, Moves!ReceiveMoves, Moves!FlushMoves, Moves!StatusMoves

LEMMA InStateType ==
  ASSUME NEW st \in Moves!States, NEW e \in Connections \cup {NoConnection}
  PROVE  inState(st, e) \in Sessions /\ inState(st, e).state = st
BY DEF inState, Sessions

\* A packet changes one session, and the list only by a new session at its end.
LEMMA Dispatched ==
  ASSUME SessionsInv, NEW p \in [kind : Moves!Kinds, ends : Connections], dispatch(p)
  PROVE  /\ SessionsInv'
         /\ Prefix(tcpSessions, openTCPSessionsCount) \subseteq
              Prefix(tcpSessions', openTCPSessionsCount')
<1> DEFINE n == Len(tcpSessions)
           able == {i \in DOMAIN tcpSessions : canHandle(tcpSessions[i], p)}
<1>1. /\ Nodes(tcpSessions) /\ n \in Nat /\ n <= MAXIMUM_TCP_SESSIONS
      /\ MAXIMUM_TCP_SESSIONS \in Nat
      /\ openTCPSessionsCount \in Nat /\ openTCPSessionsCount <= n
      /\ DOMAIN tcpSessions = 1..n /\ \A i \in 1..n : tcpSessions[i] \in 1..n
      /\ session \in [SessionNodes -> Sessions]
  BY ClientHandlerAssumption DEF SessionsInv, Nodes
<1>2. ASSUME NEW s \in SessionNodes, NEW r \in receiveFromClient(s, p)
      PROVE  /\ r \in Sessions
             /\ [session EXCEPT ![s] = r] \in [SessionNodes -> Sessions]
  <2>1. session[s].state \in Moves!States /\ p.ends \in Connections \cup {NoConnection}
    BY <1>1 DEF Sessions
  <2>2. PICK st \in Moves!ReceiveMoves(session[s].state, p.kind) : r = inState(st, p.ends)
    BY <1>2 DEF receiveFromClient
  <2>3. st \in Moves!States
    BY <2>1, <2>2, MovesType
  <2>4. r \in Sessions
    BY <2>1, <2>2, <2>3, InStateType
  <2> QED
    BY <1>1, <2>4
<1>3. CASE able # {}
  <2>1. /\ \E i \in DOMAIN tcpSessions : \E r \in receiveFromClient(tcpSessions[i], p) :
             session' = [session EXCEPT ![tcpSessions[i]] = r]
        /\ UNCHANGED <<tcpSessions, openTCPSessionsCount>>
    BY <1>3 DEF dispatch
  <2>2. PICK i \in DOMAIN tcpSessions : \E r \in receiveFromClient(tcpSessions[i], p) :
             session' = [session EXCEPT ![tcpSessions[i]] = r]
    BY <2>1
  <2>3. tcpSessions[i] \in SessionNodes
    BY <1>1 DEF SessionNodes
  <2>4. session' \in [SessionNodes -> Sessions]
    BY <1>2, <2>2, <2>3
  <2> QED
    BY <2>1, <2>4 DEF SessionsInv
<1>4. CASE able = {} /\ n = MAXIMUM_TCP_SESSIONS
  <2>1. UNCHANGED sessionVars
    BY <1>4 DEF dispatch
  <2> QED
    BY <2>1 DEF SessionsInv, sessionVars
<1>5. CASE able = {} /\ n # MAXIMUM_TCP_SESSIONS
  <2> DEFINE longer == Append(tcpSessions, n + 1)
  <2>1. /\ tcpSessions' = longer
        /\ \E r \in receiveFromClient(n + 1, p) :
             /\ session' = [session EXCEPT ![n + 1] = r]
             /\ openTCPSessionsCount' =
                  openTCPSessionsCount + IF r.state = "CLOSED" THEN 0 ELSE 1
    BY <1>5 DEF dispatch
  <2>2. /\ Nodes(longer) /\ Len(longer) = n + 1
        /\ \A i \in DOMAIN tcpSessions : longer[i] = tcpSessions[i]
    BY <1>1, AppendNodes
  <2> HIDE DEF longer, n
  <2>3. n + 1 \in SessionNodes /\ n + 1 <= MAXIMUM_TCP_SESSIONS
    BY <1>1, <1>5 DEF SessionNodes
  <2>4. session' \in [SessionNodes -> Sessions]
    BY <1>2, <2>1, <2>3
  <2>5. /\ openTCPSessionsCount' \in 0..(n + 1)
        /\ openTCPSessionsCount' \in Int /\ openTCPSessionsCount <= openTCPSessionsCount'
    <3>1. openTCPSessionsCount' = openTCPSessionsCount + 0
            \/ openTCPSessionsCount' = openTCPSessionsCount + 1
      BY <2>1
    <3> QED
      BY <1>1, <3>1
  <2>6. Prefix(tcpSessions, openTCPSessionsCount) \subseteq
          Prefix(longer, openTCPSessionsCount')
    <3>1. Len(tcpSessions) <= Len(longer)
      BY <1>1, <2>2 DEF n
    <3>2. openTCPSessionsCount \in Int /\ Nodes(tcpSessions)
      BY <1>1
    <3> QED
      BY <2>2, <2>5, <3>1, <3>2, PrefixGrows, Zenon
  <2> QED
    BY <2>1, <2>2, <2>3, <2>4, <2>5, <2>6 DEF SessionsInv
<1> QED
  BY <1>3, <1>4, <1>5

\* The session a loop is at changes its state; it is spliced away only closed.
LEMMA SessionBecomes ==
  ASSUME ClientInv, NEW st \in Moves!States, becomes(st), remaining > 0,
         pc \in {"sessions", "tickSessions"},
         \/ st = "CLOSED" /\ deactivateSession
         \/ UNCHANGED <<tcpSessions, openTCPSessionsCount>>
  PROVE  /\ SessionsInv'
         /\ \A s \in Prefix(tcpSessions, openTCPSessionsCount) :
              s \notin Prefix(tcpSessions', openTCPSessionsCount') =>
                session'[s].state = "CLOSED"
<1>1. /\ Nodes(tcpSessions) /\ Len(tcpSessions) \in Nat
      /\ Len(tcpSessions) <= MAXIMUM_TCP_SESSIONS /\ MAXIMUM_TCP_SESSIONS \in Nat
      /\ openTCPSessionsCount \in Int /\ openTCPSessionsCount <= Len(tcpSessions)
      /\ remaining \in Nat
  BY ClientHandlerAssumption DEF ClientInv, SessionsInv, ThreadInv, Nodes
<1>0. session \in [SessionNodes -> Sessions]
  BY DEF ClientInv, SessionsInv
<1>2. LoopAt(tcpSessions, it, openTCPSessionsCount, remaining)
  BY DEF ClientInv, SessionLoopInv
<1>3. it \in SessionNodes /\ openTCPSessionsCount >= 1
  <2>1. it \in 1..Len(tcpSessions) /\ openTCPSessionsCount >= 1
    BY <1>1, <1>2, LoopNode
  <2> QED
    BY <1>1, <2>1 DEF SessionNodes
<1>4. session' \in [SessionNodes -> Sessions] /\ session'[it].state = st
  <2>1. session[it].ends \in Connections \cup {NoConnection}
    BY <1>0, <1>3 DEF Sessions
  <2>2. /\ inState(st, session[it].ends) \in Sessions
        /\ inState(st, session[it].ends).state = st
    BY <2>1, InStateType
  <2>3. session' = [session EXCEPT ![it] = inState(st, session[it].ends)]
    BY DEF becomes
  <2> QED
    BY <1>0, <1>3, <2>2, <2>3
<1>5. CASE UNCHANGED <<tcpSessions, openTCPSessionsCount>>
  BY <1>4, <1>5 DEF ClientInv, SessionsInv
<1>6. CASE st = "CLOSED" /\ deactivateSession
  <2>1. /\ tcpSessions' = splice(tcpSessions, it)
        /\ openTCPSessionsCount' = openTCPSessionsCount - 1
    BY <1>6 DEF deactivateSession
  <2>2. /\ Nodes(splice(tcpSessions, it)) /\ Len(splice(tcpSessions, it)) = Len(tcpSessions)
        /\ Prefix(tcpSessions, openTCPSessionsCount) \ {it} \subseteq
             Prefix(splice(tcpSessions, it), openTCPSessionsCount - 1)
    BY <1>1, <1>2, LoopSpliced
  <2>3. openTCPSessionsCount - 1 \in 0..Len(tcpSessions)
    BY <1>1, <1>3
  <2>4. SessionsInv'
    BY <1>1, <1>4, <2>1, <2>2, <2>3 DEF SessionsInv
  <2> QED
    BY <1>4, <1>6, <2>1, <2>2, <2>4
<1> QED
  BY <1>5, <1>6

\* What every step does to the sessions: their type, and the ones it counts.
LEMMA SessionsStep ==
  ASSUME ClientInv, [Next]_vars
  PROVE  /\ SessionsInv'
         /\ \A s \in Prefix(tcpSessions, openTCPSessionsCount) :
              s \notin Prefix(tcpSessions', openTCPSessionsCount') =>
                session'[s].state = "CLOSED"
<1>1. CASE UNCHANGED sessionVars
  BY <1>1 DEF ClientInv, SessionsInv, sessionVars
<1>2. CASE handlePacket
  <2>1. \E p \in [kind : Moves!Kinds, ends : Connections] : dispatch(p)
    BY <1>2 DEF handlePacket
  <2>2. SessionsInv
    BY DEF ClientInv
  <2>3. /\ SessionsInv'
        /\ Prefix(tcpSessions, openTCPSessionsCount) \subseteq
             Prefix(tcpSessions', openTCPSessionsCount')
    BY <2>1, <2>2, Dispatched
  <2> QED
    BY <2>3
<1>3. CASE serveSession
  <2>1. remaining > 0 /\ pc = "sessions"
    BY <1>3 DEF serveSession, atSession
  <2>2. session[it].state \in Moves!States
    <3>1. LoopAt(tcpSessions, it, openTCPSessionsCount, remaining)
      BY <2>1 DEF ClientInv, SessionLoopInv
    <3>2. it \in 1..Len(tcpSessions)
      <4>1. /\ Nodes(tcpSessions) /\ remaining \in Nat
            /\ openTCPSessionsCount \in 0..Len(tcpSessions)
        BY DEF ClientInv, SessionsInv, ThreadInv
      <4>2. openTCPSessionsCount \in Int
        BY <4>1 DEF Nodes
      <4> QED
        BY <3>1, <4>1, <4>2, LoopNode
    <3>3. it \in SessionNodes
      BY <3>2, ClientHandlerAssumption DEF ClientInv, SessionsInv, Nodes, SessionNodes
    <3> QED
      BY <3>3 DEF ClientInv, SessionsInv, Sessions
  <2>3. CASE isSet("err")
    <3>1. becomes("CLOSED") /\ deactivateSession
      BY <1>3, <2>3 DEF serveSession
    <3>2. "CLOSED" \in Moves!States
      BY DEF Moves!States
    <3> QED
      BY <2>1, <3>1, <3>2, SessionBecomes
  <2>4. CASE ~isSet("err")
    <3>1. /\ \E st \in Moves!FlushMoves(session[it].state) \cup {session[it].state} : becomes(st)
          /\ UNCHANGED <<tcpSessions, openTCPSessionsCount>>
      BY <1>3, <2>4 DEF serveSession
    <3>2. \E st \in Moves!States : becomes(st)
      BY <2>2, <3>1, MovesType
    <3> QED
      BY <2>1, <3>1, <3>2, SessionBecomes
  <2> QED
    BY <2>3, <2>4
<1>4. CASE tickSession
  <2>1. remaining > 0 /\ pc = "tickSessions"
    BY <1>4 DEF tickSession
  <2>2. session[it].state \in Moves!States
    <3>1. LoopAt(tcpSessions, it, openTCPSessionsCount, remaining)
      BY <2>1 DEF ClientInv, SessionLoopInv
    <3>2. it \in 1..Len(tcpSessions)
      <4>1. /\ Nodes(tcpSessions) /\ remaining \in Nat
            /\ openTCPSessionsCount \in 0..Len(tcpSessions)
        BY DEF ClientInv, SessionsInv, ThreadInv
      <4>2. openTCPSessionsCount \in Int
        BY <4>1 DEF Nodes
      <4> QED
        BY <3>1, <4>1, <4>2, LoopNode
    <3>3. it \in SessionNodes
      BY <3>2, ClientHandlerAssumption DEF ClientInv, SessionsInv, Nodes, SessionNodes
    <3> QED
      BY <3>3 DEF ClientInv, SessionsInv, Sessions
  <2>3. PICK st \in Moves!StatusMoves(session[it].state) :
          /\ becomes(st)
          /\ \/ st = "CLOSED" /\ deactivateSession
             \/ UNCHANGED <<tcpSessions, openTCPSessionsCount>>
    BY <1>4 DEF tickSession
  <2>4. st \in Moves!States
    BY <2>2, <2>3, MovesType
  <2> QED
    BY <2>1, <2>3, <2>4, SessionBecomes
<1> QED
  BY <1>1, <1>2, <1>3, <1>4, SessionSteps

-----------------------------------------------------------------------------
\* What a turn of a loop takes from select's count.
LEMMA UpToThree ==
  ASSUME NEW a, NEW b, NEW c, NEW S, S \subseteq {a, b, c}
  PROVE  Cardinality(S) \in 0..3
<1>1. IsFiniteSet({}) /\ Cardinality({}) = 0
  BY FS_EmptySet
<1>2. IsFiniteSet({a}) /\ Cardinality({a}) \in 0..1
  <2>1. {a} = {} \cup {a}
    OBVIOUS
  <2> QED
    BY <1>1, <2>1, FS_AddElement
<1>3. IsFiniteSet({a, b}) /\ Cardinality({a, b}) \in 0..2
  <2>1. {a, b} = {a} \cup {b}
    OBVIOUS
  <2> QED
    BY <1>2, <2>1, FS_AddElement
<1>4. IsFiniteSet({a, b, c}) /\ Cardinality({a, b, c}) \in 0..3
  <2>1. {a, b, c} = {a, b} \cup {c}
    OBVIOUS
  <2> QED
    BY <1>3, <2>1, FS_AddElement
<1>5. Cardinality(S) \in Nat /\ Cardinality(S) <= Cardinality({a, b, c})
  BY <1>4, FS_Subset, FS_CardinalityType
<1> QED
  BY <1>4, <1>5

LEMMA CountSpent ==
  ASSUME NEW n \in -2..MaxReady, n > 0, NEW k \in 0..3
  PROVE  n - k \in -2..MaxReady
BY ClientHandlerAssumption

LEMMA ThreadStep == ASSUME ClientInv, [Next]_vars PROVE ThreadInv'
<1> USE DEF ClientInv, ThreadInv
<1>0. openTunnelsCount \in Nat /\ openTCPSessionsCount \in Nat
  BY ClientHandlerAssumption DEF TunnelsInv, SessionsInv, Nodes
<1>1. CASE start \/ startThread \/ stop \/ addTunnelSocket \/ addCandidate \/ UNCHANGED vars
  BY <1>1, ClientHandlerAssumption
  DEF start, startThread, stop, addTunnelSocket, addCandidate, loopVars, vars, shared
<1>2. CASE ends \/ awakes \/ candidatesTaken
  BY <1>2 DEF ends, awakes, candidatesTaken, loopVars, shared
<1>3. CASE takeCandidate
  <2>1. candidates' \in 0..MaxCandidates /\ UNCHANGED loopVars
    BY <1>3, ClientHandlerAssumption DEF takeCandidate
  <2>2. pc' = pc \/ pc' = "undefined"
    BY <1>3 DEF takeCandidate, initTunnel
  <2> QED
    BY <2>1, <2>2 DEF loopVars
<1>4. CASE selectSockets
  <2>1. PICK k \in 0..MaxReady : count' = k
    BY <1>4 DEF selectSockets, kSubset
  <2>2. count' \in -2..MaxReady
    BY <2>1, ClientHandlerAssumption
  <2> QED
    BY <1>0, <1>4, <2>2 DEF selectSockets, shared
<1>5. CASE readTunnel
  <2>1. /\ count' = count - 1 /\ count > 0 /\ UNCHANGED <<candidates, pc, remaining>>
        /\ unread' \in 0..MaxPackets
    BY <1>5 DEF readTunnel, atTunnel, shared
  <2>2. count' \in -2..MaxReady
    BY <2>1, CountSpent
  <2> QED
    BY <2>1, <2>2
<1>6. CASE finishTunnel
  <2> DEFINE S == ready \cap {<<"tunnel", it, "snd">>, <<"tunnel", it, "err">>}
  <2>1. /\ count' = count - Cardinality(S) /\ count > 0
        /\ remaining' = remaining - 1 /\ remaining > 0 /\ UNCHANGED <<candidates, pc, unread>>
    BY <1>6 DEF finishTunnel, atTunnel, shared
  <2>2. Cardinality(S) \in 0..3
    <3>1. S \subseteq {<<"tunnel", it, "snd">>, <<"tunnel", it, "err">>, <<"tunnel", it, "err">>}
      OBVIOUS
    <3> HIDE DEF S
    <3> QED
      BY <3>1, UpToThree
  <2> HIDE DEF S
  <2>3. count' \in -2..MaxReady
    BY <2>1, <2>2, CountSpent
  <2> QED
    BY <2>1, <2>3
<1>7. CASE serveSession
  <2> DEFINE S == {op \in {"rcv", "snd", "err"} : isSet(op)}
  <2>1. /\ count' = count - Cardinality(S) /\ count > 0
        /\ remaining' = remaining - 1 /\ remaining > 0 /\ UNCHANGED <<candidates, pc, unread>>
    BY <1>7 DEF serveSession, atSession, shared
  <2>2. Cardinality(S) \in 0..3
    <3>1. S \subseteq {"rcv", "snd", "err"}
      OBVIOUS
    <3> HIDE DEF S
    <3> QED
      BY <3>1, UpToThree
  <2> HIDE DEF S
  <2>3. count' \in -2..MaxReady
    BY <2>1, <2>2, CountSpent
  <2> QED
    BY <2>1, <2>3
<1>8. CASE tunnelsDone \/ sessionsDone
  BY <1>0, <1>8 DEF tunnelsDone, sessionsDone, shared
<1>9. CASE tickStarts \/ tickSkipped \/ tickTunnelsDone \/ tickSessionsDone
  BY <1>0, <1>9, ClientHandlerAssumption
  DEF tickStarts, tickSkipped, tickTunnelsDone, tickSessionsDone, shared
<1>10. CASE tickTunnel \/ tickSession
  BY <1>10 DEF tickTunnel, tickSession, shared
<1>11. CASE sessionHangs \/ tickHangs
  BY <1>11 DEF sessionHangs, tickHangs, shared, loopVars
<1>12. CASE handlePacket
  <2>1. unread > 0 /\ unread' = unread - 1 /\ UNCHANGED <<candidates, pc, count, remaining>>
    BY <1>12 DEF handlePacket, shared
  <2> QED
    BY <2>1, ClientHandlerAssumption
<1> QED
  BY <1>1, <1>2, <1>3, <1>4, <1>5, <1>6, <1>7, <1>8, <1>9, <1>10, <1>11, <1>12
  DEF Next, handleClient

-----------------------------------------------------------------------------
\* Which steps a loop over the tunnels is started or advanced by.
LEMMA TunnelLoopSteps ==
  ASSUME [Next]_vars
  PROVE  \/ selectSockets \/ tickStarts \/ finishTunnel \/ tickTunnel
         \/ UNCHANGED <<tunnels, openTunnelsCount, it, remaining, pc>>
         \/ pc' \notin {"tunnels", "tickTunnels"}
<1>1. start \/ startThread \/ ends \/ awakes \/ candidatesTaken \/ tunnelsDone
        \/ sessionHangs \/ sessionsDone \/ tickSkipped \/ tickTunnelsDone
        \/ tickHangs \/ tickSessionsDone =>
          pc' \notin {"tunnels", "tickTunnels"}
  BY DEF start, startThread, ends, awakes, candidatesTaken, tunnelsDone, sessionHangs,
    sessionsDone, tickSkipped, tickTunnelsDone, tickHangs, tickSessionsDone
<1>2. serveSession \/ tickSession => pc' \notin {"tunnels", "tickTunnels"}
  BY DEF serveSession, tickSession, atSession
<1>3. takeCandidate => pc' \notin {"tunnels", "tickTunnels"}
  <2>1. takeCandidate => pc = "take" /\ (pc' = pc \/ pc' = "undefined")
    BY DEF takeCandidate, initTunnel
  <2> QED
    BY <2>1
<1>4. stop \/ addTunnelSocket \/ addCandidate \/ readTunnel \/ handlePacket
        \/ UNCHANGED vars =>
          UNCHANGED <<tunnels, openTunnelsCount, it, remaining, pc>>
  BY DEF stop, addTunnelSocket, addCandidate, readTunnel, handlePacket, vars, loopVars,
    tunnelVars
<1> QED
  BY <1>1, <1>2, <1>3, <1>4 DEF Next, handleClient

LEMMA TunnelLoopStep == ASSUME ClientInv, [Next]_vars PROVE TunnelLoopInv'
<1>1. /\ Nodes(tunnels) /\ openTunnelsCount \in Nat /\ openTunnelsCount \in Int
      /\ remaining \in Nat
  BY ClientHandlerAssumption DEF ClientInv, TunnelsInv, ThreadInv
<1>2. CASE selectSockets \/ tickStarts
  <2>1. /\ it' = First(tunnels) /\ remaining' = openTunnelsCount
        /\ UNCHANGED <<tunnels, openTunnelsCount>>
    BY <1>2 DEF selectSockets, tickStarts, tunnelVars
  <2>2. it' # End => LoopAt(tunnels, it', openTunnelsCount, openTunnelsCount)
    <3>1. it' # End => tunnels # <<>>
      BY <2>1 DEF First
    <3> QED
      BY <1>1, <2>1, <3>1, LoopStarts
  <2> QED
    BY <2>1, <2>2 DEF TunnelLoopInv
<1>3. CASE finishTunnel \/ tickTunnel
  <2>1. /\ it # End /\ remaining > 0 /\ pc \in {"tunnels", "tickTunnels"}
        /\ it' = following(tunnels, it) /\ remaining' = remaining - 1
        /\ \/ UNCHANGED <<tunnels, openTunnelsCount>>
           \/ /\ tunnels' = splice(tunnels, it)
              /\ openTunnelsCount' = openTunnelsCount - 1
    BY <1>3 DEF finishTunnel, tickTunnel, checkStatus, atTunnel, deactivateTunnel, tunnelVars
  <2>2. LoopAt(tunnels, it, openTunnelsCount, remaining)
    BY <2>1 DEF ClientInv, TunnelLoopInv
  <2>3. it' # End => LoopAt(tunnels', it', openTunnelsCount', remaining')
    BY <1>1, <2>1, <2>2, LoopMoves, LoopSplices, Zenon
  <2> QED
    BY <2>3 DEF TunnelLoopInv
<1>4. CASE UNCHANGED <<tunnels, openTunnelsCount, it, remaining, pc>>
  BY <1>4 DEF ClientInv, TunnelLoopInv
<1>5. CASE pc' \notin {"tunnels", "tickTunnels"}
  BY <1>5 DEF TunnelLoopInv
<1> QED
  BY <1>2, <1>3, <1>4, <1>5, TunnelLoopSteps

LEMMA SessionLoopSteps ==
  ASSUME [Next]_vars
  PROVE  \/ tunnelsDone \/ tickTunnelsDone \/ serveSession \/ tickSession
         \/ UNCHANGED <<tcpSessions, openTCPSessionsCount, it, remaining, pc>>
         \/ pc' \notin {"sessions", "tickSessions"}
<1>1. start \/ startThread \/ ends \/ awakes \/ candidatesTaken \/ selectSockets
        \/ sessionHangs \/ sessionsDone \/ tickStarts \/ tickSkipped \/ tickHangs
        \/ tickSessionsDone =>
          pc' \notin {"sessions", "tickSessions"}
  BY DEF start, startThread, ends, awakes, candidatesTaken, selectSockets, sessionHangs,
    sessionsDone, tickStarts, tickSkipped, tickHangs, tickSessionsDone
<1>2. readTunnel \/ handlePacket \/ finishTunnel \/ tickTunnel => pc' \notin {"sessions", "tickSessions"}
  BY DEF readTunnel, handlePacket, finishTunnel, tickTunnel, atTunnel
<1>3. takeCandidate => pc' \notin {"sessions", "tickSessions"}
  <2>1. takeCandidate => pc = "take" /\ (pc' = pc \/ pc' = "undefined")
    BY DEF takeCandidate, initTunnel
  <2> QED
    BY <2>1
<1>4. stop \/ addTunnelSocket \/ addCandidate \/ UNCHANGED vars =>
        UNCHANGED <<tcpSessions, openTCPSessionsCount, it, remaining, pc>>
  BY DEF stop, addTunnelSocket, addCandidate, vars, loopVars, sessionVars
<1> QED
  BY <1>1, <1>2, <1>3, <1>4 DEF Next, handleClient

LEMMA SessionLoopStep == ASSUME ClientInv, [Next]_vars PROVE SessionLoopInv'
<1>1. /\ Nodes(tcpSessions) /\ openTCPSessionsCount \in Nat /\ openTCPSessionsCount \in Int
      /\ openTCPSessionsCount <= Len(tcpSessions) /\ remaining \in Nat
  BY DEF ClientInv, SessionsInv, ThreadInv, Nodes
<1>2. CASE tunnelsDone \/ tickTunnelsDone
  <2>1. /\ it' = First(tcpSessions) /\ remaining' = openTCPSessionsCount
        /\ UNCHANGED <<tcpSessions, openTCPSessionsCount>>
    BY <1>2 DEF tunnelsDone, tickTunnelsDone, sessionVars
  <2>2. remaining' > 0 =>
          LoopAt(tcpSessions, it', openTCPSessionsCount, openTCPSessionsCount)
    <3>1. remaining' > 0 => tcpSessions # <<>>
      BY <1>1, <2>1
    <3> QED
      BY <1>1, <2>1, <3>1, LoopStarts
  <2> QED
    BY <2>1, <2>2 DEF SessionLoopInv
<1>3. CASE serveSession \/ tickSession
  <2>1. /\ remaining > 0 /\ pc \in {"sessions", "tickSessions"}
        /\ remaining' = remaining - 1
        /\ \/ UNCHANGED <<tcpSessions, openTCPSessionsCount, it>>
           \/ /\ UNCHANGED <<tcpSessions, openTCPSessionsCount>>
              /\ it' = following(tcpSessions, it)
           \/ /\ tcpSessions' = splice(tcpSessions, it)
              /\ openTCPSessionsCount' = openTCPSessionsCount - 1
              /\ it' = following(tcpSessions, it)
    BY <1>3 DEF serveSession, tickSession, atSession, deactivateSession
  <2>2. LoopAt(tcpSessions, it, openTCPSessionsCount, remaining)
    BY <2>1 DEF ClientInv, SessionLoopInv
  <2>3. remaining' > 0 => following(tcpSessions, it) # End
    <3>1. remaining' > 0 => remaining > 1
      BY <1>1, <2>1
    <3> QED
      BY <1>1, <2>2, <3>1, LoopInList
  <2>4. remaining' > 0 => LoopAt(tcpSessions', it', openTCPSessionsCount', remaining')
    BY <1>1, <2>1, <2>2, <2>3, LoopStays, LoopMoves, LoopSplices, Zenon
  <2> QED
    BY <2>4 DEF SessionLoopInv
<1>4. CASE UNCHANGED <<tcpSessions, openTCPSessionsCount, it, remaining, pc>>
  BY <1>4 DEF ClientInv, SessionLoopInv
<1>5. CASE pc' \notin {"sessions", "tickSessions"}
  BY <1>5 DEF SessionLoopInv
<1> QED
  BY <1>2, <1>3, <1>4, <1>5, SessionLoopSteps

-----------------------------------------------------------------------------
(* The theorems *)

\* Every reachable state has its lists in order and its loops within them.
THEOREM ClientInductive == Spec => []ClientInv
<1>1. Init => ClientInv
  BY InitInv
<1>2. ClientInv /\ [Next]_vars => ClientInv'
  BY TunnelsStep, SessionsStep, ThreadStep, TunnelLoopStep, SessionLoopStep DEF ClientInv
<1> QED
  BY <1>1, <1>2, PTL DEF Spec

\* The lists, the counts and select's count stay within their bounds: initTunnel
\* never takes a node past MAXIMUM_TUNNELS, and raises the count past it by one
\* at most.
THEOREM ClientTypeOK == Spec => []TypeOK
<1>1. ClientInv => TypeOK
  <2>1. SUFFICES ASSUME ClientInv PROVE TypeOK
    OBVIOUS
  <2>2. tunnelOpen \subseteq {tunnels[i] : i \in DOMAIN tunnels}
    BY <2>1 DEF ClientInv, TunnelsInv, OpenTunnelsFirst, Prefix
  <2>3. \A s \in SessionNodes : session[s].state \in Moves!States
    BY <2>1 DEF ClientInv, SessionsInv, Sessions
  <2> QED
    BY <2>1, <2>2, <2>3 DEF ClientInv, TunnelsInv, SessionsInv, ThreadInv, TypeOK
<1> QED
  BY <1>1, ClientInductive, PTL

\* initTunnel, which resets the first node behind the counted ones, never takes
\* an open tunnel from the client: the splices keep the open tunnels in front,
\* also with the count raised twice and tunnels closed by the client's request.
THEOREM OpenTunnelsComeFirst == Spec => []OpenTunnelsFirst
<1>1. ClientInv => OpenTunnelsFirst
  BY DEF ClientInv, TunnelsInv
<1> QED
  BY <1>1, ClientInductive, PTL

\* The loops over the sessions, of a round and of the tick, never dereference
\* the end of the list.
THEOREM SessionLoopStaysInList == Spec => []SessionLoopInList
<1>1. ClientInv => SessionLoopInList
  <2>1. SUFFICES ASSUME ClientInv, pc \in {"sessions", "tickSessions"}, remaining > 0
                 PROVE  it # End
    BY DEF SessionLoopInList, atSession
  <2>2. LoopAt(tcpSessions, it, openTCPSessionsCount, remaining)
    BY <2>1 DEF ClientInv, SessionLoopInv
  <2>3. it \in 1..Len(tcpSessions)
    BY <2>1, <2>2, LoopNode DEF ClientInv, SessionsInv, ThreadInv, Nodes
  <2> QED
    BY <2>3 DEF End
<1> QED
  BY <1>1, ClientInductive, PTL

\* handleClient stops counting a session only when it is closed.
THEOREM SessionCountedUntilClosed == Spec => CountedUntilClosed
<1>1. ClientInv /\ [Next]_vars =>
        [\A s \in Prefix(tcpSessions, openTCPSessionsCount) :
           s \notin Prefix(tcpSessions', openTCPSessionsCount') =>
             session'[s].state = "CLOSED"]_vars
  BY SessionsStep
<1> QED
  BY <1>1, ClientInductive, PTL DEF Spec, CountedUntilClosed
=============================================================================
