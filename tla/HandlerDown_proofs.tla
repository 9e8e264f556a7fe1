------------------------- MODULE HandlerDown_proofs -------------------------
(***************************************************************************)
(* The loop of the down stream thread for any number of sessions: its     *)
(* types, and whom it passes over.  Its fairness and what follows from it  *)
(* are left to TLC.                                                        *)
(***************************************************************************)
EXTENDS HandlerDown, FiniteSetTheorems, TLAPS

\* A set of sessions is finite, with at most N elements.
LEMMA SessionSets ==
  ASSUME NEW S \in SUBSET Sessions
  PROVE  IsFiniteSet(S) /\ Cardinality(S) \in 0..N
<1>1. IsFiniteSet(Sessions) /\ Cardinality(Sessions) = N
  <2>1. N \in Int /\ 1 \in Int /\ N >= 1
    BY HandlerDownAssumption
  <2>2. IsFiniteSet(1..N) /\ Cardinality(1..N) = IF 1 > N THEN 0 ELSE N - 1 + 1
    BY <2>1, FS_Interval
  <2> QED
    BY <2>1, <2>2 DEF Sessions
<1>2. IsFiniteSet(S) /\ Cardinality(S) \in Nat /\ Cardinality(S) <= N
  BY <1>1, FS_Subset, FS_CardinalityType
<1> QED
  BY <1>2, HandlerDownAssumption

\* select counts no more sockets than there are sessions.
LEMMA SelectCountBound == selectCount \in 0..N
<1>1. {i \in Sessions : Readable(i)} \in SUBSET Sessions
  OBVIOUS
<1> QED
  BY <1>1, SessionSets DEF selectCount

LEMMA DownInit == Init => TypeOK
BY HandlerDownAssumption DEF Init, TypeOK, Sessions

\* What receiveFromServer leaves of a session's bytes is no more than it found.
LEMMA LeftPending ==
  ASSUME TypeOK, NEW i \in Sessions, NEW n \in 0..pending[i]
  PROVE  [pending EXCEPT ![i] = n] \in [Sessions -> 0..MaxPending]
<1>1. pending[i] \in 0..MaxPending /\ MaxPending \in Nat
  BY HandlerDownAssumption DEF TypeOK
<1>2. n \in 0..MaxPending
  BY <1>1
<1> QED
  BY <1>2 DEF TypeOK

LEMMA DownStep ==
  ASSUME TypeOK, [Next]_vars
  PROVE  TypeOK'
<1>1. CASE selectSockets
  <2>1. 1 \in 1..(N + 1)
    BY HandlerDownAssumption
  <2> QED
    BY <1>1, <2>1, SelectCountBound DEF selectSockets, FirstIndex, TypeOK
<1>2. CASE receiveFromServer
  <2>1. ind \in Sessions /\ ind + 1 \in 1..(N + 1) /\ count - 1 \in 0..N
    BY <1>2, HandlerDownAssumption DEF receiveFromServer, TypeOK, Sessions
  <2>2. pending' \in [Sessions -> 0..MaxPending] /\ rcv' \subseteq rcv
    BY <1>2, <2>1, LeftPending DEF receiveFromServer, TypeOK
  <2>3. count' \in 0..N /\ ind' \in 1..(N + 1)
    BY <1>2, <2>1 DEF receiveFromServer, TypeOK
  <2>4. asked' \subseteq Sessions /\ due' \subseteq Sessions
    BY <1>2, <2>1 DEF receiveFromServer, TypeOK
  <2> QED
    BY <1>2, <2>2, <2>3, <2>4 DEF receiveFromServer, TypeOK
<1>3. CASE endLoop \/ flushAll \/ unregister \/ serverEnds \/ UNCHANGED vars
  BY <1>3 DEF endLoop, flushAll, unregister, serverEnds, vars, round, TypeOK
<1>4. CASE register
  <2>1. 0 \in 0..MaxPending
    BY HandlerDownAssumption
  <2> QED
    BY <1>4, <2>1 DEF register, round, TypeOK
<1>5. CASE serverSends
  <2>1. PICK i \in rcv : pending[i] < MaxPending /\ pending' = [pending EXCEPT ![i] = @ + 1]
    BY <1>5 DEF serverSends
  <2>2. i \in Sessions /\ pending[i] + 1 \in 0..MaxPending
    BY <2>1, HandlerDownAssumption DEF TypeOK
  <2>3. pending' \in [Sessions -> 0..MaxPending]
    BY <2>1, <2>2 DEF TypeOK
  <2> QED
    BY <1>5, <2>3 DEF serverSends, round, TypeOK
<1> QED
  BY <1>1, <1>2, <1>3, <1>4, <1>5 DEF Next, DownStream

\* handleDownStream's loop stays within the vector and its count within 0 and
\* the sessions, although it spends select's count on registered sockets instead
\* of readable ones and the up stream thread registers sessions meanwhile.
THEOREM DownTypeCorrect == Spec => []TypeOK
BY DownInit, DownStep, PTL DEF Spec

-----------------------------------------------------------------------------
(* Whom the loop passes over *)

\* The count is what select found less the calls made; the calls are behind the
\* loop, the sessions still due are registered and ahead of it.
RoundInv ==
  /\ pc \in {"loop", "flush"} => count + Cardinality(asked) = Cardinality(rcvCpy)
  /\ \A j \in asked : j < ind
  /\ due \subseteq (rcv \cap rcvCpy) \ asked
  /\ pc = "loop" => \A i \in due : i >= ind

DownInv == TypeOK /\ RoundInv /\ PassedOverBehindIdle

\* One call more, one count less.
LEMMA CallCounted ==
  ASSUME TypeOK, RoundInv, receiveFromServer, ind \in rcv
  PROVE  count' + Cardinality(asked') = Cardinality(rcvCpy)
<1>1. /\ count' = count - 1 /\ asked' = asked \cup {ind} /\ count \in Nat
      /\ count + Cardinality(asked) = Cardinality(rcvCpy)
  BY DEF receiveFromServer, isSet, RoundInv, TypeOK
<1>2. ind \notin asked
  BY DEF RoundInv, TypeOK
<1>3. IsFiniteSet(asked) /\ Cardinality(asked) \in Nat
  BY SessionSets DEF TypeOK
<1>4. Cardinality(asked') = Cardinality(asked) + 1
  BY <1>1, <1>2, <1>3, FS_AddElement
<1> QED
  BY <1>1, <1>3, <1>4

\* The loop has ended with a session due: as many were asked as select found
\* readable, so one of those asked was not readable.
LEMMA IdleTookTheTurn ==
  ASSUME TypeOK, RoundInv, endLoop, NEW i \in due
  PROVE  \E j \in asked \ rcvCpy : j < i
<1>1. pc = "loop" /\ i \in rcvCpy \ asked /\ i >= ind /\ i \in Sessions
  BY DEF endLoop, RoundInv, TypeOK
<1>2. count = 0
  BY <1>1, HandlerDownAssumption DEF endLoop, Sessions, TypeOK
<1>3. Cardinality(asked) = Cardinality(rcvCpy)
  <2>1. Cardinality(asked) \in Nat
    BY SessionSets DEF TypeOK
  <2>2. 0 + Cardinality(asked) = Cardinality(rcvCpy)
    BY <1>1, <1>2 DEF RoundInv
  <2> QED
    BY <2>1, <2>2
<1>4. IsFiniteSet(rcvCpy)
  BY SessionSets DEF TypeOK
<1>5. ~(asked \subseteq rcvCpy)
  BY <1>1, <1>3, <1>4, FS_Subset
<1>6. PICK j \in asked : j \notin rcvCpy
  BY <1>5
<1>7. j < ind /\ j \in Nat /\ ind \in Nat /\ i \in Nat
  BY <1>1, HandlerDownAssumption DEF RoundInv, TypeOK, Sessions
<1>8. j < i
  BY <1>1, <1>7
<1> QED
  BY <1>6, <1>8

LEMMA RoundStep ==
  ASSUME DownInv, [Next]_vars
  PROVE  DownInv'
<1> USE DEF DownInv
<1>1. TypeOK'
  BY DownStep
<1>2. CASE selectSockets
  <2>1. /\ pc' = "loop" /\ ind' = 1 /\ asked' = {} /\ due' = rcvCpy'
        /\ count' = Cardinality(rcvCpy') /\ rcvCpy' = {i \in Sessions : Readable(i)}
        /\ rcv' = rcv
    BY <1>2 DEF selectSockets, FirstIndex, selectCount
  <2>2. Cardinality(asked') = 0
    BY <2>1, FS_EmptySet
  <2>3. count' \in Nat /\ \A i \in Sessions : i >= 1
    BY <1>1 DEF TypeOK, Sessions
  <2>4. count' + Cardinality(asked') = Cardinality(rcvCpy')
    BY <2>1, <2>2, <2>3
  <2>5. due' \subseteq rcv
    BY <2>1 DEF Readable, HasData
  <2> QED
    BY <1>1, <2>1, <2>3, <2>4, <2>5 DEF RoundInv, PassedOverBehindIdle
<1>3. CASE receiveFromServer
  <2>1. pc = "loop" /\ pc' = "loop" /\ ind' = ind + 1 /\ rcvCpy' = rcvCpy
    BY <1>3 DEF receiveFromServer
  <2>2. ind \in Nat /\ due \subseteq Nat /\ asked \subseteq Nat
    BY HandlerDownAssumption DEF TypeOK, Sessions
  <2>3. CASE ind \in rcv
    <3>1. asked' = asked \cup {ind} /\ due' = due \ {ind} /\ rcv \ {ind} \subseteq rcv'
      BY <1>3, <2>3 DEF receiveFromServer, isSet
    <3>2. \A j \in asked' : j < ind'
      BY <2>1, <2>2, <3>1 DEF RoundInv
    <3>3. \A i \in due' : i >= ind'
      BY <2>1, <2>2, <3>1 DEF RoundInv
    <3>4. due' \subseteq (rcv' \cap rcvCpy') \ asked'
      BY <2>1, <3>1 DEF RoundInv
    <3>5. count' + Cardinality(asked') = Cardinality(rcvCpy')
      BY <1>3, <2>1, <2>3, CallCounted
    <3> QED
      BY <1>1, <2>1, <3>2, <3>3, <3>4, <3>5 DEF RoundInv, PassedOverBehindIdle
  <2>4. CASE ind \notin rcv
    <3>1. UNCHANGED <<rcv, count, asked, due>>
      BY <1>3, <2>4 DEF receiveFromServer, isSet
    <3>2. ind \notin due
      BY <2>4 DEF RoundInv
    <3>3. \A i \in due : i >= ind + 1
      BY <2>1, <2>2, <3>2 DEF RoundInv
    <3>4. \A j \in asked : j < ind + 1
      BY <2>2 DEF RoundInv
    <3> QED
      BY <1>1, <2>1, <3>1, <3>3, <3>4 DEF RoundInv, PassedOverBehindIdle
  <2> QED
    BY <2>3, <2>4
<1>4. CASE endLoop
  <2>1. /\ pc = "loop" /\ pc' = "flush"
        /\ UNCHANGED <<rcv, ind, count, rcvCpy, asked, due>>
    BY <1>4 DEF endLoop, round
  <2>2. PassedOverBehindIdle'
    BY <1>4, <2>1, IdleTookTheTurn DEF PassedOverBehindIdle
  <2> QED
    BY <1>1, <2>1, <2>2 DEF RoundInv
<1>5. CASE flushAll \/ unregister \/ register \/ serverSends \/ serverEnds \/ UNCHANGED vars
  <2>1. /\ pc' = pc \/ pc' = "select"
        /\ UNCHANGED <<ind, count, rcvCpy, asked>>
        /\ due' \subseteq due /\ (due' \subseteq rcv' \/ rcv \subseteq rcv')
    <3>1. CASE flushAll \/ unregister
      BY <3>1 DEF flushAll, unregister, RoundInv
    <3>2. CASE register \/ serverSends \/ serverEnds \/ UNCHANGED vars
      BY <3>2 DEF register, serverSends, serverEnds, vars, round
    <3> QED
      BY <1>5, <3>1, <3>2
  <2> QED
    BY <1>1, <2>1 DEF RoundInv, PassedOverBehindIdle
<1> QED
  BY <1>2, <1>3, <1>4, <1>5 DEF Next, DownStream

\* handleDownStream passes over a session select found readable only behind one
\* that was registered before it in the vector, was not readable, and took the
\* turn select had counted for it: with sessions that are all readable, or none
\* idle before it, a readable session is asked in every round.
THEOREM PassedOverOnlyBehindIdle == Spec => []PassedOverBehindIdle
<1>1. Init => DownInv
  <2> SUFFICES ASSUME Init PROVE DownInv
    OBVIOUS
  <2>1. TypeOK
    BY DownInit
  <2>2. RoundInv /\ PassedOverBehindIdle
    BY DEF Init, RoundInv, PassedOverBehindIdle
  <2> QED
    BY <2>1, <2>2 DEF DownInv
<1>2. DownInv => PassedOverBehindIdle
  BY DEF DownInv
<1> QED
  BY <1>1, <1>2, RoundStep, PTL DEF Spec
=============================================================================
