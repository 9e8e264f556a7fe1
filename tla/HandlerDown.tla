----------------------------- MODULE HandlerDown -----------------------------
(***************************************************************************)
(* The down stream thread of the Handler (src/src/handler/Handler.cpp,     *)
(* handleDownStream): select on the sockets of the established sessions,   *)
(* receiveFromServer on as many of them as select counted, then            *)
(* flushDataToClient on all.  The loop tests membership in rcv, the set    *)
(* of registered sockets, not in rcvCpy, the set select found readable.    *)
(***************************************************************************)
EXTENDS Naturals, FiniteSets

CONSTANTS
  N,           \* the sessions of the vector
  MaxPending   \* bound: bytes a server has sent and the thread not yet read

ASSUME HandlerDownAssumption == N \in Nat \ {0} /\ MaxPending \in Nat \ {0}

Sessions == 1..N

VARIABLES
  rcv,       \* the registered sessions: established, the server not finished
  rcvCpy,    \* the sessions the last select found readable
  pending,   \* bytes waiting in each session's socket
  ended,     \* the sessions whose server has closed its end
  pc,        \* where the thread is: select, loop or flush
  ind,       \* the session the loop is at
  count,     \* what is left of select's count
  asked,     \* history: the sessions this round called receiveFromServer on
  due        \* history: those of rcvCpy it did not, registered ever since

round == <<rcvCpy, asked, due>>
vars == <<rcv, pending, ended, pc, ind, count, round>>

HasData(i) == i \in rcv /\ pending[i] > 0

\* select finds a socket readable also at the end of the stream.
Readable(i) == HasData(i) \/ (i \in rcv /\ i \in ended)

\* Definitions named X_Fault are X with a fault the checks must see.
\* What select returns: the number of readable sockets, 0 on a time-out.
selectCount_OneMore == Cardinality({i \in Sessions : Readable(i)}) + 1
selectCount_BelowLast == Cardinality({i \in Sessions : i < N /\ Readable(i)})
selectCount == Cardinality({i \in Sessions : Readable(i)})

FirstIndex_Second == 2
FirstIndex == 1

selectSockets ==
  /\ pc = "select"
  /\ rcvCpy' = {i \in Sessions : Readable(i)}
  /\ count' = selectCount
  /\ asked' = {}
  /\ due' = rcvCpy'
  /\ pc' = "loop"
  /\ ind' = FirstIndex
  /\ UNCHANGED <<rcv, pending, ended>>

\* The test that sends a session into receiveFromServer.
isSet(i) == i \in rcv

\* The loop on one session: receiveFromServer takes what there is room for,
\* or nothing (the buffer is full, the socket has nothing, or errno still
\* says so at the end of the stream), or sees the end of the stream and takes
\* the socket out of rcv.
receiveFromServer ==
  /\ pc = "loop"
  /\ ind <= N
  /\ count > 0
  /\ IF isSet(ind)
     THEN /\ \/ /\ \E n \in 0..pending[ind] :
                     pending' = [pending EXCEPT ![ind] = n]
                /\ UNCHANGED rcv
             \/ /\ pending[ind] = 0 /\ ind \in ended
                /\ rcv' = rcv \ {ind}
                /\ UNCHANGED pending
          /\ count' = count - 1
          /\ asked' = asked \cup {ind}
          /\ due' = due \ {ind}
     ELSE UNCHANGED <<rcv, pending, count, asked, due>>
  /\ ind' = ind + 1
  /\ UNCHANGED <<ended, pc, rcvCpy>>

endLoop ==
  /\ pc = "loop"
  /\ ind > N \/ count = 0
  /\ pc' = "flush"
  /\ UNCHANGED <<rcv, pending, ended, ind, count, round>>

\* flushDataToClient on every session: a session that closes is taken out.
flushAll ==
  /\ pc = "flush"
  /\ \E closing \in SUBSET rcv : rcv' = rcv \ closing
  /\ due' = due \cap rcv'
  /\ pc' = "select"
  /\ UNCHANGED <<pending, ended, ind, count, rcvCpy, asked>>

\* The up stream thread establishes a session, or closes it.
register ==
  /\ \E i \in Sessions \ rcv : /\ rcv' = rcv \cup {i}
                               /\ pending' = [pending EXCEPT ![i] = 0]
                               /\ ended' = ended \ {i}
  /\ UNCHANGED <<pc, ind, count, round>>

unregister ==
  /\ \E i \in rcv : rcv' = rcv \ {i} /\ due' = due \ {i}
  /\ UNCHANGED <<pending, ended, pc, ind, count, rcvCpy, asked>>

\* An application server sends, or closes its end.
serverSends ==
  /\ \E i \in rcv \ ended : /\ pending[i] < MaxPending
                            /\ pending' = [pending EXCEPT ![i] = @ + 1]
  /\ UNCHANGED <<rcv, ended, pc, ind, count, round>>

serverEnds ==
  /\ \E i \in rcv \ ended : ended' = ended \cup {i}
  /\ UNCHANGED <<rcv, pending, pc, ind, count, round>>

Init ==
  /\ rcv = {}
  /\ pending = [i \in Sessions |-> 0]
  /\ ended = {}
  /\ pc = "select"
  /\ ind = 1
  /\ count = 0
  /\ rcvCpy = {} /\ asked = {} /\ due = {}

DownStream == selectSockets \/ receiveFromServer \/ endLoop \/ flushAll
Next == DownStream \/ register \/ unregister \/ serverSends \/ serverEnds

\* The thread's loop keeps running: select has a time-out, the sockets do not
\* block.  What a call takes is left open, a full buffer may stay full for ever.
Spec == Init /\ [][Next]_vars /\ WF_vars(DownStream)

-----------------------------------------------------------------------------
(* Properties *)

\* The loop never handles more sessions than the vector has, nor counts below
\* zero, whatever the up stream thread registers meanwhile.
TypeOK ==
  /\ rcv \subseteq Sessions
  /\ pending \in [Sessions -> 0..MaxPending]
  /\ ended \subseteq Sessions
  /\ pc \in {"select", "loop", "flush"}
  /\ ind \in 1..(N + 1)
  /\ count \in 0..N
  /\ rcvCpy \subseteq Sessions /\ asked \subseteq Sessions /\ due \subseteq Sessions

\* The loop asks the sessions select found readable, as long as no idle one comes
\* before them: a session it passes over has an earlier one that took its turn
\* without being readable, because the test is on rcv instead of rcvCpy.
PassedOverBehindIdle ==
  pc = "flush" => \A i \in due : \E j \in asked \ rcvCpy : j < i

isAsked(i) == pc = "loop" /\ i \in asked

\* A readable session is asked, or ends, if from some time on the sessions
\* registered before it are readable whenever the loop runs.
AskedUnlessBehindIdle ==
  \A i \in Sessions :
    <>[](pc = "loop" => \A j \in rcv : j < i => j \in rcvCpy) =>
      (pc = "select" /\ Readable(i) ~> isAsked(i) \/ i \notin rcv)

\* Every session with data is asked for it, at the latest when sessions no longer
\* come and go: what its application server sends is written back to the client.
EverySessionIsAsked ==
  <>[][rcv' = rcv]_vars =>
    \A i \in Sessions : pc = "select" /\ HasData(i) ~> isAsked(i) \/ ~HasData(i)
=============================================================================
