---------------------------- MODULE ClientHandler ----------------------------
(***************************************************************************)
(* The handler of one client (src/src/handler/ClientHandler.h).  One       *)
(* thread moves packets between the client's tunnels and the sessions of   *)
(* sessions2/TCPSession.h.  Both are kept in lists whose open members are  *)
(* meant to come first, with a count of them: every loop takes the first   *)
(* so many, and what closes is spliced to the end.  Other threads start    *)
(* and stop the handler and offer it sockets for new tunnels.              *)
(*                                                                         *)
(* A list is a sequence of its nodes, an iterator a node or End.  Sessions *)
(* are reduced to the life cycle TCPSession2 implements, and what they     *)
(* and the tunnels write back to the client is left out, but not that      *)
(* flushDataToClient may never return.                                     *)
(*                                                                         *)
(* start tests and sets started without a mutex: it is assumed to be       *)
(* called by one thread at a time, as its callers do.                      *)
(***************************************************************************)
EXTENDS Integers, Sequences, FiniteSets, FiniteSetsExt

CONSTANTS
  MAXIMUM_TUNNELS, MAXIMUM_TCP_SESSIONS,
  Connections,     \* addresses and ports of both ends of a connection
  NoConnection,    \* the ends of a closed session
  MaxCandidates,   \* bound: sockets offered and not yet taken
  MaxReady,        \* bound: what select reports in one round
  MaxPackets       \* bound: packets one readPackets returns

ASSUME ClientHandlerAssumption ==
  /\ MAXIMUM_TUNNELS \in Nat /\ MAXIMUM_TCP_SESSIONS \in Nat
  /\ NoConnection \notin Connections
  /\ MaxCandidates \in Nat /\ MaxReady \in Nat /\ MaxPackets \in Nat

VARIABLES
  started, shouldStop, candidates,      \* Data, shared with other threads
  adding,                               \* addTunnelSocket has seen started
  tunnels, openTunnelsCount,            \* Data, the handler's own
  tunnelOpen,                           \* the tunnels that are not closed
  tcpSessions, openTCPSessionsCount,
  session,                              \* state and ends of each session
  pc, ready, count, it, remaining,      \* the thread and its loop
  unread                                \* packets read and not yet dispatched

shared == <<started, shouldStop, candidates, adding>>
tunnelVars == <<tunnels, openTunnelsCount, tunnelOpen>>
sessionVars == <<tcpSessions, openTCPSessionsCount, session>>
loopVars == <<ready, count, it, remaining, unread>>
vars == <<shared, tunnelVars, sessionVars, pc, loopVars>>

\* The moves of a session; its specification, and so state, is not used here.
Moves == INSTANCE SessionLife2 WITH state <- pc

\* Definitions named X_Fault are X with a fault the checks must see.
End == 0
SessionNodes == 1..MAXIMUM_TCP_SESSIONS
First(list) == IF list = <<>> THEN End ELSE list[1]
At(list, node) == CHOOSE i \in DOMAIN list : list[i] = node
After(list, node) ==
  IF At(list, node) = Len(list) THEN End ELSE list[At(list, node) + 1]
Prefix(list, n) == {list[i] : i \in {j \in DOMAIN list : j <= n}}

\* The node moves to the end of the list.
splice_Stays(list, node) == list
splice(list, node) ==
  SubSeq(list, 1, At(list, node) - 1) \o
  SubSeq(list, At(list, node) + 1, Len(list)) \o <<node>>

\* Where a loop goes on: std::next is taken before the splice.
following_Spliced(list, node) == After(splice(list, node), node)
following(list, node) == After(list, node)

-----------------------------------------------------------------------------
(* The other threads *)

\* A stop between the two assignments of start is undone.
start ==
  /\ ~started /\ pc = "ended"
  /\ started' = TRUE /\ pc' = "starting"
  /\ UNCHANGED <<shouldStop, candidates, adding, tunnelVars, sessionVars, loopVars>>

startThread ==
  /\ pc = "starting"
  /\ shouldStop' = FALSE /\ pc' = "wait"
  /\ UNCHANGED <<started, candidates, adding, tunnelVars, sessionVars, loopVars>>

stop ==
  /\ started
  /\ shouldStop' = TRUE
  /\ UNCHANGED <<started, candidates, adding, tunnelVars, sessionVars, pc, loopVars>>

\* addTunnelSocket tests started first, then takes both mutexes.
addTunnelSocket ==
  /\ started /\ ~adding
  /\ adding' = TRUE
  /\ UNCHANGED <<started, shouldStop, candidates, tunnelVars, sessionVars, pc, loopVars>>

addCandidate ==
  /\ adding /\ pc # "take"
  /\ adding' = FALSE
  /\ IF candidates + openTunnelsCount = MAXIMUM_TUNNELS
     THEN UNCHANGED candidates
     ELSE candidates < MaxCandidates /\ candidates' = candidates + 1
  /\ UNCHANGED <<started, shouldStop, tunnelVars, sessionVars, pc, loopVars>>

-----------------------------------------------------------------------------
(* The head of the loop: waiting, and the new tunnels *)

pred == openTunnelsCount > 0 \/ candidates > 0 \/ shouldStop

stopped_WhenIdle == shouldStop /\ openTunnelsCount = 0
stopped == shouldStop

\* Stopped, or NO_TUNNEL_TIMEOUT has passed with nothing to do.
ends ==
  /\ pc = "wait"
  /\ stopped \/ ~pred
  /\ started' = FALSE /\ pc' = "ended"
  /\ UNCHANGED <<shouldStop, candidates, adding, tunnelVars, sessionVars, loopVars>>

hasCandidates_WhenIdle == candidates > 0 /\ openTunnelsCount = 0
hasCandidates == candidates > 0

awakes ==
  /\ pc = "wait"
  /\ ~stopped /\ pred
  /\ pc' = IF hasCandidates THEN "take" ELSE "select"
  /\ UNCHANGED <<shared, tunnelVars, sessionVars, loopVars>>

\* A list node for a candidate: a new one, or the first behind the open ones,
\* for which the count is raised twice.  Past the list is undefined.
initTunnel ==
  IF openTunnelsCount = Len(tunnels)
  THEN /\ tunnels' = Append(tunnels, Len(tunnels) + 1)
       /\ tunnelOpen' = tunnelOpen \cup {Len(tunnels) + 1}
       /\ openTunnelsCount' = openTunnelsCount + 1
       /\ UNCHANGED pc
  ELSE IF openTunnelsCount < Len(tunnels)
  THEN /\ tunnelOpen' = tunnelOpen \cup {tunnels[openTunnelsCount + 1]}
       /\ openTunnelsCount' = openTunnelsCount + 2
       /\ UNCHANGED <<tunnels, pc>>
  ELSE pc' = "undefined" /\ UNCHANGED tunnelVars

full_Past == openTunnelsCount > MAXIMUM_TUNNELS
full == openTunnelsCount = MAXIMUM_TUNNELS

\* The rest is dropped at MAXIMUM_TUNNELS; sendObject may fail.
takeCandidate ==
  /\ pc = "take" /\ candidates > 0
  /\ IF full
     THEN candidates' = 0 /\ UNCHANGED <<tunnelVars, pc>>
     ELSE /\ candidates' = candidates - 1
          /\ initTunnel \/ UNCHANGED <<tunnelVars, pc>>
  /\ UNCHANGED <<started, shouldStop, adding, sessionVars, loopVars>>

candidatesTaken ==
  /\ pc = "take" /\ candidates = 0
  /\ pc' = "select"
  /\ UNCHANGED <<shared, tunnelVars, sessionVars, loopVars>>

-----------------------------------------------------------------------------
(* select and the tunnels *)

\* The loops' own variables are cleared where they go out of use.
\* What select can report: the sets hold open sockets only.
Watched ==
  ({"tunnel"} \X tunnelOpen \X {"rcv", "snd", "err"}) \cup
  ({"session"} \X {s \in SessionNodes : session[s].state = "ESTABLISHED"} \X {"rcv", "snd"}) \cup
  ({"session"} \X {s \in SessionNodes : session[s].state = "SYN_RECEIVED"} \X {"snd"}) \cup
  ({"session"} \X {s \in SessionNodes : session[s].state # "CLOSED"} \X {"err"})

selectSockets ==
  /\ pc = "select"
  /\ \E r \in UNION {kSubset(k, Watched) : k \in 0..MaxReady} :
       ready' = r /\ count' = Cardinality(r)
  /\ it' = First(tunnels)
  /\ remaining' = openTunnelsCount
  /\ pc' = "tunnels"
  /\ UNCHANGED <<shared, tunnelVars, sessionVars, unread>>

\* A session in state st; the ends of a closed one are never read.
inState(st, e) == [state |-> st, ends |-> IF st = "CLOSED" THEN NoConnection ELSE e]

canHandle(s, p) == session[s].state = "CLOSED" \/ session[s].ends = p.ends

\* What receiveFromClient can make of session s.
receiveFromClient(s, p) ==
  {inState(st, p.ends) : st \in Moves!ReceiveMoves(session[s].state, p.kind)}

\* The first session of the list that can handle a packet gets it; if there
\* is none, a new one, which counts when the packet opens it.
dispatch(p) ==
  LET able == {i \in DOMAIN tcpSessions : canHandle(tcpSessions[i], p)}
  IN IF able # {}
     THEN /\ \E i \in able :
               /\ \A j \in able : i <= j
               /\ \E r \in receiveFromClient(tcpSessions[i], p) :
                    session' = [session EXCEPT ![tcpSessions[i]] = r]
          /\ UNCHANGED <<tcpSessions, openTCPSessionsCount>>
     ELSE IF Len(tcpSessions) = MAXIMUM_TCP_SESSIONS THEN UNCHANGED sessionVars
     ELSE LET s == Len(tcpSessions) + 1
          IN /\ tcpSessions' = Append(tcpSessions, s)
             /\ \E r \in receiveFromClient(s, p) :
                  /\ session' = [session EXCEPT ![s] = r]
                  /\ openTCPSessionsCount' =
                       openTCPSessionsCount + IF r.state = "CLOSED" THEN 0 ELSE 1

\* The iterator is at a tunnel; at the end it may not be dereferenced.
atTunnel == pc = "tunnels" /\ remaining > 0 /\ count > 0 /\ it # End

\* readPackets: the packets the tunnel has, and the client's requests to delete
\* tunnels, which close them where they are in the list.
readTunnel ==
  /\ atTunnel
  /\ <<"tunnel", it, "rcv">> \in ready
  /\ ready' = ready \ {<<"tunnel", it, "rcv">>}
  /\ count' = count - 1
  /\ unread' \in 0..MaxPackets
  /\ \E deleted \in SUBSET Prefix(tunnels, openTunnelsCount) :
       tunnelOpen' = tunnelOpen \ deleted
  /\ UNCHANGED <<shared, sessionVars, tunnels, openTunnelsCount, pc, it, remaining>>

handlePacket ==
  /\ pc = "tunnels" /\ unread > 0
  /\ unread' = unread - 1
  /\ \E p \in [kind : Moves!Kinds, ends : Connections] : dispatch(p)
  /\ UNCHANGED <<shared, tunnelVars, pc, ready, count, it, remaining>>

\* A tunnel leaves the counted ones.
deactivateTunnel ==
  /\ openTunnelsCount' = openTunnelsCount - 1
  /\ tunnels' = splice(tunnels, it)

\* flushPackets, and a broken tunnel is closed and deactivated.
finishTunnel ==
  /\ atTunnel /\ unread = 0
  /\ <<"tunnel", it, "rcv">> \notin ready
  /\ count' = count - Cardinality(ready \cap {<<"tunnel", it, "snd">>, <<"tunnel", it, "err">>})
  /\ remaining' = remaining - 1
  /\ it' = following(tunnels, it)
  /\ IF <<"tunnel", it, "err">> \in ready
     THEN tunnelOpen' = tunnelOpen \ {it} /\ deactivateTunnel
     ELSE UNCHANGED tunnelVars
  /\ UNCHANGED <<shared, sessionVars, pc, ready, unread>>

tunnelsDone ==
  /\ pc = "tunnels" /\ ~atTunnel /\ unread = 0
  /\ pc' = IF remaining > 0 /\ count > 0 THEN "undefined" ELSE "sessions"
  /\ it' = First(tcpSessions)
  /\ remaining' = openTCPSessionsCount
  /\ ready' = {r \in ready : r[1] = "session"}
  /\ UNCHANGED <<shared, tunnelVars, sessionVars, count, unread>>

-----------------------------------------------------------------------------
(* The sessions *)

atSession == pc = "sessions" /\ remaining > 0 /\ count > 0

isSet(op) == <<"session", it, op>> \in ready

deactivateSession ==
  /\ tcpSessions' = splice(tcpSessions, it)
  /\ openTCPSessionsCount' = openTCPSessionsCount - 1

becomes(st) == session' = [session EXCEPT ![it] = inState(st, @.ends)]

\* receiveFromServer, flushDataToServer, onSocketError.  The iterator moves
\* only behind a session that is spliced away.
serveSession ==
  /\ atSession /\ it # End
  /\ count' = count - Cardinality({op \in {"rcv", "snd", "err"} : isSet(op)})
  /\ remaining' = remaining - 1
  /\ \E st \in IF isSet("err") THEN {"CLOSED"}
               ELSE IF isSet("snd") THEN Moves!FlushMoves(session[it].state)
               ELSE {session[it].state} : becomes(st)
  /\ IF isSet("err")
     THEN deactivateSession /\ it' = following(tcpSessions, it)
     ELSE UNCHANGED <<tcpSessions, openTCPSessionsCount, it>>
  /\ UNCHANGED <<shared, tunnelVars, pc, ready, unread>>

\* receiveFromServer ends in flushDataToClient, whose loop may send for ever
\* once the server has finished (hung in TCPSession2).
sessionHangs ==
  /\ atSession /\ it # End
  /\ isSet("rcv") /\ session[it].state = "ESTABLISHED"
  /\ pc' = "hung"
  /\ UNCHANGED <<shared, tunnelVars, sessionVars, loopVars>>

sessionsDone ==
  /\ pc = "sessions" /\ (~atSession \/ it = End)
  /\ pc' = IF atSession THEN "undefined" ELSE "tick"
  /\ ready' = {} /\ it' = End /\ remaining' = 0
  /\ UNCHANGED <<shared, tunnelVars, sessionVars, count, unread>>

-----------------------------------------------------------------------------
(* The tick: closed tunnels and sessions leave the open ones *)

\* Every TICK_DELAY.
tickStarts ==
  /\ pc = "tick"
  /\ pc' = "tickTunnels"
  /\ it' = First(tunnels) /\ remaining' = openTunnelsCount
  /\ count' = 0
  /\ UNCHANGED <<shared, tunnelVars, sessionVars, ready, unread>>

tickSkipped ==
  /\ pc = "tick"
  /\ pc' = "wait"
  /\ count' = 0
  /\ UNCHANGED <<shared, tunnelVars, sessionVars, ready, it, remaining, unread>>

\* The tunnel's checkStatus: false for a closed tunnel, and it may give an open
\* one up.  It is assumed to close the tunnel then: its caller does not.
checkStatus(tunnel, ok) ==
  /\ ok => tunnel \in tunnelOpen
  /\ tunnelOpen' = IF ok THEN tunnelOpen ELSE tunnelOpen \ {tunnel}

tickTunnel ==
  /\ pc = "tickTunnels" /\ remaining > 0 /\ it # End
  /\ remaining' = remaining - 1
  /\ it' = following(tunnels, it)
  /\ \E ok \in BOOLEAN :
       /\ checkStatus(it, ok)
       /\ IF ok THEN UNCHANGED <<tunnels, openTunnelsCount>> ELSE deactivateTunnel
  /\ UNCHANGED <<shared, sessionVars, pc, ready, count, unread>>

tickTunnelsDone ==
  /\ pc = "tickTunnels" /\ (remaining = 0 \/ it = End)
  /\ pc' = IF remaining > 0 THEN "undefined" ELSE "tickSessions"
  /\ it' = First(tcpSessions) /\ remaining' = openTCPSessionsCount
  /\ UNCHANGED <<shared, tunnelVars, sessionVars, ready, count, unread>>

\* The session's checkStatus may close it, and is false for a closed one.
tickSession ==
  /\ pc = "tickSessions" /\ remaining > 0 /\ it # End
  /\ remaining' = remaining - 1
  /\ it' = following(tcpSessions, it)
  /\ \E st \in Moves!StatusMoves(session[it].state) :
       /\ becomes(st)
       /\ IF st = "CLOSED" THEN deactivateSession
          ELSE UNCHANGED <<tcpSessions, openTCPSessionsCount>>
  /\ UNCHANGED <<shared, tunnelVars, pc, ready, count, unread>>

\* flushDataToClient on a session that checkStatus keeps, as in sessionHangs.
tickHangs ==
  /\ pc = "tickSessions" /\ remaining > 0 /\ it # End
  /\ session[it].state = "ESTABLISHED"
  /\ pc' = "hung"
  /\ UNCHANGED <<shared, tunnelVars, sessionVars, loopVars>>

tickSessionsDone ==
  /\ pc = "tickSessions" /\ (remaining = 0 \/ it = End)
  /\ pc' = IF remaining > 0 THEN "undefined" ELSE "wait"
  /\ it' = End /\ remaining' = 0
  /\ UNCHANGED <<shared, tunnelVars, sessionVars, ready, count, unread>>

Init ==
  /\ started = FALSE /\ shouldStop = TRUE
  /\ candidates = 0 /\ adding = FALSE
  /\ tunnels = <<>> /\ openTunnelsCount = 0 /\ tunnelOpen = {}
  /\ tcpSessions = <<>> /\ openTCPSessionsCount = 0
  /\ session = [s \in SessionNodes |-> inState("CLOSED", NoConnection)]
  /\ pc = "ended"
  /\ ready = {} /\ count = 0 /\ it = End /\ remaining = 0 /\ unread = 0

handleClient ==
  \/ ends \/ awakes \/ takeCandidate \/ candidatesTaken \/ selectSockets
  \/ readTunnel \/ handlePacket \/ finishTunnel \/ tunnelsDone
  \/ serveSession \/ sessionHangs \/ sessionsDone
  \/ tickStarts \/ tickSkipped \/ tickTunnel \/ tickTunnelsDone
  \/ tickSession \/ tickHangs \/ tickSessionsDone

Next == start \/ startThread \/ stop \/ addTunnelSocket \/ addCandidate \/ handleClient
Spec == Init /\ [][Next]_vars

\* The thread runs on, from any step but those it never returns from: there pc
\* is "hung" or "undefined", and no step of handleClient is enabled.
FairSpec == Spec /\ WF_vars(startThread) /\ WF_vars(handleClient)

-----------------------------------------------------------------------------
(* Properties *)

\* The counts stay within the lists they index, the one of the tunnels as far
\* as the double increment allows; select's count may become negative.
TypeOK ==
  /\ candidates \in 0..MaxCandidates
  /\ Len(tunnels) <= MAXIMUM_TUNNELS
  /\ openTunnelsCount \in 0..(MAXIMUM_TUNNELS + 1)
  /\ tunnelOpen \subseteq {tunnels[i] : i \in DOMAIN tunnels}
  /\ Len(tcpSessions) <= MAXIMUM_TCP_SESSIONS
  /\ openTCPSessionsCount \in 0..Len(tcpSessions)
  /\ \A s \in SessionNodes : session[s].state \in Moves!States
  /\ pc \in {"ended", "starting", "wait", "take", "select", "tunnels", "sessions", "tick",
             "tickTunnels", "tickSessions", "undefined", "hung"}
  /\ count \in -2..MaxReady
  /\ unread \in 0..MaxPackets

\* No open tunnel is behind the first openTunnelsCount: reset, which takes the
\* first behind them, never takes a live tunnel from the client, and every open
\* one is selected on and ticked.
OpenTunnelsFirst == tunnelOpen \subseteq Prefix(tunnels, openTunnelsCount)

\* The loops over the sessions, of a round and of the tick, never dereference
\* the end of the list, whatever the splices of this and earlier rounds left in
\* front: the count of the open sessions is never above the nodes that are left
\* to visit.
SessionLoopInList ==
  atSession \/ (pc = "tickSessions" /\ remaining > 0) => it # End

\* A session leaves the counted ones only closed: what is open and counted is
\* not forgotten by a splice, nor pushed out by the count.
CountedUntilClosed ==
  [][\A s \in Prefix(tcpSessions, openTCPSessionsCount) :
       s \notin Prefix(tcpSessions', openTCPSessionsCount') =>
         session'[s].state = "CLOSED"]_vars

\* The thread will not come back: past a list's end, or in a session's loop.
lost == pc \in {"undefined", "hung"}

\* stop ends the thread, whether it waits for tunnels or serves them, once
\* start has cleared shouldStop, unless a call of the thread never returns.
StopEnds == (started /\ shouldStop /\ pc # "starting") ~> (~started \/ lost)

\* No accepted socket stays in the queue of a running handler, also when it
\* comes between the test of the condition and the wait: its turn comes, and it
\* becomes a tunnel, cannot be told its id, or is dropped because the count has
\* reached MAXIMUM_TUNNELS.
CandidatesAreServed ==
  (candidates > 0 /\ started) ~> (candidates = 0 \/ ~started \/ lost)

\* The assertion under STRICT_MODE: when the loops are done, select's count is
\* used up.
SelectCountSpent == pc = "tick" => count = 0
=============================================================================
