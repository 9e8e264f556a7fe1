----------------------- MODULE ConnectionFetcher_proofs -----------------------
(***************************************************************************)
(* The safety of the fetcher for any number of threads, ids, addresses and *)
(* limits: one thread at a time, requests with the current id and address, *)
(* an end only while shouldRun is false.                                   *)
(***************************************************************************)
EXTENDS ConnectionFetcher, TLAPS

\* What the url needs to be current at every request: it always shows what is
\* known, and a thread that skips STUN has an address from an earlier answer.
UrlInv ==
  /\ url = <<id, publicAddr>>
  /\ \A t \in Threads :
       (~addressDue[t] \/ thread[t] = "perform") => publicAddr # NoAddress

FetcherInv == TypeOK /\ OneFetcher /\ UrlInv /\ EndsOnlyWhenAsked

-----------------------------------------------------------------------------
LEMMA InitInv == ASSUME Init PROVE FetcherInv
<1>1. TypeOK
  <2>1. retryCount \in 0..(Modulus - 1)
    BY FetcherAssumption DEF Init
  <2>2. thread \in [Threads -> Positions]
    BY DEF Init, Positions
  <2>3. addressDue \in [Threads -> BOOLEAN]
    BY DEF Init
  <2>4. url \in (Ids \cup {0}) \X (Addresses \cup {NoAddress})
    BY DEF Init
  <2> QED
    BY <2>1, <2>2, <2>3, <2>4 DEF Init, TypeOK
<1>2. OneFetcher
  BY DEF Init, OneFetcher, Running
<1>3. UrlInv
  BY DEF Init, UrlInv
<1>4. EndsOnlyWhenAsked
  BY DEF Init, EndsOnlyWhenAsked
<1> QED
  BY <1>1, <1>2, <1>3, <1>4 DEF FetcherInv

\* The type of what the failure of a request leaves.
LEMMA CountFailureType ==
  ASSUME TypeOK, countFailure
  PROVE  /\ retryCount' \in 0..(Modulus - 1)
         /\ shouldRun' \in BOOLEAN
         /\ ~shouldRun => ~shouldRun'
<1>1. Modulus \in Nat \ {0}
  BY FetcherAssumption
<1>2. 0 \in 0..(Modulus - 1) /\ (retryCount + 1) % Modulus \in 0..(Modulus - 1)
  BY <1>1 DEF TypeOK
<1> QED
  BY <1>2 DEF TypeOK, countFailure

LEMMA TypeInductive ==
  ASSUME TypeOK, [Next]_vars
  PROVE  TypeOK'
<1> USE DEF TypeOK, Positions
<1>1. CASE start
  BY <1>1 DEF start, Goto, data, network
<1>2. CASE stop
  BY <1>2 DEF stop, data, network
<1>3. CASE setMaximumRetries
  BY <1>3 DEF setMaximumRetries, data, network
<1>4. CASE networkChanges
  BY <1>4 DEF networkChanges, data
<1>5. ASSUME NEW t \in Threads, loop(t)
      PROVE  TypeOK'
  BY <1>5 DEF loop, Goto, data, network
<1>6. ASSUME NEW t \in Threads, fails(t)
      PROVE  TypeOK'
  <2>1. /\ retryCount' \in 0..(Modulus - 1)
        /\ shouldRun' \in BOOLEAN
    BY <1>6, CountFailureType DEF fails
  <2> QED
    BY <1>6, <2>1 DEF fails, Goto, data, network
<1>7. ASSUME NEW t \in Threads, updateAddress(t)
      PROVE  TypeOK'
  BY <1>7 DEF updateAddress, updateURL, Goto, network
<1>8. ASSUME NEW t \in Threads, perform(t)
      PROVE  TypeOK'
  <2>1. PICK newId \in Ids \cup {id}, valid \in SUBSET Addresses :
          /\ id' = newId
          /\ updateURL(newId, publicAddr)
          /\ request' = IF valid = {} THEN request
                                      ELSE {<<newId, addr>> : addr \in valid}
    BY <1>8 DEF perform
  <2>2. newId \in Ids \cup {0}
    BY <2>1
  <2>3. request' \in SUBSET ((Ids \cup {0}) \X Addresses)
    BY <2>1, <2>2
  <2>4. 0 \in 0..(Modulus - 1)
    BY FetcherAssumption
  <2> QED
    BY <1>8, <2>1, <2>2, <2>3, <2>4 DEF perform, updateURL, Goto, network
<1>9. ASSUME NEW t \in Threads, end(t)
      PROVE  TypeOK'
  BY <1>9 DEF end, Goto, data, network
<1>10. ASSUME NEW t \in Threads, addressAges(t)
       PROVE  TypeOK'
  BY <1>10 DEF addressAges, data, network
<1>11. CASE UNCHANGED vars
  BY <1>11 DEF vars, data, network
<1>12. ASSUME NEW t \in Threads, startThread(t)
       PROVE  TypeOK'
  BY <1>12 DEF startThread, Goto, data, network
<1> QED
  BY <1>1, <1>2, <1>3, <1>4, <1>5, <1>6, <1>7, <1>8, <1>9, <1>10, <1>11,
     <1>12
  DEF Next, fetchStep

\* A step of a running thread that leaves it running changes neither Running
\* nor, with started unchanged, OneFetcher.
LEMMA StaysRunning ==
  ASSUME TypeOK, OneFetcher, NEW t \in Threads, NEW pc,
         thread[t] # "none", pc # "none", Goto(t, pc), UNCHANGED started
  PROVE  OneFetcher'
<1>1. Running' = Running
  BY DEF Running, Goto, TypeOK
<1> QED
  BY <1>1 DEF OneFetcher

LEMMA OneFetcherInductive ==
  ASSUME TypeOK, OneFetcher, [Next]_vars
  PROVE  OneFetcher'
<1>1. CASE start
  <2>1. PICK t \in Threads : started' = TRUE /\ Goto(t, "starting")
    BY <1>1 DEF start
  <2>2. Running = {}
    BY <1>1 DEF start, OneFetcher
  <2>3. Running' = {t}
    BY <2>1, <2>2 DEF Running, Goto, TypeOK
  <2> QED
    BY <2>1, <2>3 DEF OneFetcher
<1>2. CASE \/ stop \/ setMaximumRetries \/ networkChanges
           \/ \E t \in Threads : addressAges(t)
  <2>1. UNCHANGED <<thread, started>>
    BY <1>2 DEF stop, setMaximumRetries, networkChanges, addressAges
  <2> QED
    BY <2>1 DEF OneFetcher, Running
<1>3. ASSUME NEW t \in Threads, loop(t)
      PROVE  OneFetcher'
  BY <1>3, StaysRunning DEF loop
<1>4. ASSUME NEW t \in Threads, fails(t)
      PROVE  OneFetcher'
  BY <1>4, StaysRunning DEF fails
<1>5. ASSUME NEW t \in Threads, updateAddress(t)
      PROVE  OneFetcher'
  BY <1>5, StaysRunning DEF updateAddress
<1>6. ASSUME NEW t \in Threads, perform(t)
      PROVE  OneFetcher'
  BY <1>6, StaysRunning DEF perform
<1>7. ASSUME NEW t \in Threads, end(t)
      PROVE  OneFetcher'
  <2>1. Running = {t}
    BY <1>7 DEF end, OneFetcher, Running
  <2>2. Running' = {}
    BY <1>7, <2>1 DEF end, Running, Goto, TypeOK
  <2> QED
    BY <1>7, <2>2 DEF end, OneFetcher
<1>8. CASE UNCHANGED vars
  BY <1>8 DEF vars, OneFetcher, Running
<1>9. ASSUME NEW t \in Threads, startThread(t)
      PROVE  OneFetcher'
  BY <1>9, StaysRunning DEF startThread
<1> QED
  BY <1>1, <1>2, <1>3, <1>4, <1>5, <1>6, <1>7, <1>8, <1>9 DEF Next, fetchStep

LEMMA UrlInductive ==
  ASSUME TypeOK, UrlInv, [Next]_vars
  PROVE  UrlInv'
<1> USE DEF UrlInv, TypeOK
<1>1. CASE start
  BY <1>1 DEF start, Goto, data
<1>2. CASE stop
  BY <1>2 DEF stop, data
<1>3. CASE setMaximumRetries
  BY <1>3 DEF setMaximumRetries, data
<1>4. CASE networkChanges
  BY <1>4 DEF networkChanges, data
<1>5. ASSUME NEW t \in Threads, loop(t)
      PROVE  UrlInv'
  BY <1>5 DEF loop, Goto, data
<1>6. ASSUME NEW t \in Threads, fails(t)
      PROVE  UrlInv'
  BY <1>6 DEF fails, Goto, data
<1>7. ASSUME NEW t \in Threads, updateAddress(t)
      PROVE  UrlInv'
  BY <1>7, FetcherAssumption DEF updateAddress, updateURL, Goto
<1>8. ASSUME NEW t \in Threads, perform(t)
      PROVE  UrlInv'
  BY <1>8 DEF perform, updateURL, Goto
<1>9. ASSUME NEW t \in Threads, end(t)
      PROVE  UrlInv'
  BY <1>9 DEF end, Goto, data
<1>10. ASSUME NEW t \in Threads, addressAges(t)
       PROVE  UrlInv'
  BY <1>10 DEF addressAges, data
<1>11. CASE UNCHANGED vars
  BY <1>11 DEF vars, data
<1>12. ASSUME NEW t \in Threads, startThread(t)
       PROVE  UrlInv'
  BY <1>12 DEF startThread, Goto, data
<1> QED
  BY <1>1, <1>2, <1>3, <1>4, <1>5, <1>6, <1>7, <1>8, <1>9, <1>10, <1>11,
     <1>12
  DEF Next, fetchStep

\* Only the second step of start sets shouldRun, and then the one thread there
\* is is not ending.
LEMMA EndInductive ==
  ASSUME TypeOK, OneFetcher, EndsOnlyWhenAsked, [Next]_vars
  PROVE  EndsOnlyWhenAsked'
<1> USE DEF EndsOnlyWhenAsked, TypeOK
<1>1. CASE start
  BY <1>1 DEF start, Goto
<1>2. CASE stop
  BY <1>2 DEF stop
<1>3. CASE setMaximumRetries
  BY <1>3 DEF setMaximumRetries
<1>4. CASE networkChanges
  BY <1>4 DEF networkChanges
<1>5. ASSUME NEW t \in Threads, loop(t)
      PROVE  EndsOnlyWhenAsked'
  BY <1>5 DEF loop, keepsOn, Goto
<1>6. ASSUME NEW t \in Threads, fails(t)
      PROVE  EndsOnlyWhenAsked'
  <2>1. ~shouldRun => ~shouldRun'
    BY <1>6, CountFailureType DEF fails
  <2> QED
    BY <1>6, <2>1 DEF fails, Goto
<1>7. ASSUME NEW t \in Threads, updateAddress(t)
      PROVE  EndsOnlyWhenAsked'
  BY <1>7 DEF updateAddress, Goto
<1>8. ASSUME NEW t \in Threads, perform(t)
      PROVE  EndsOnlyWhenAsked'
  BY <1>8 DEF perform, Goto
<1>9. ASSUME NEW t \in Threads, end(t)
      PROVE  EndsOnlyWhenAsked'
  BY <1>9 DEF end, Goto
<1>10. ASSUME NEW t \in Threads, addressAges(t)
       PROVE  EndsOnlyWhenAsked'
  BY <1>10 DEF addressAges
<1>11. CASE UNCHANGED vars
  BY <1>11 DEF vars
<1>12. ASSUME NEW t \in Threads, startThread(t)
       PROVE  EndsOnlyWhenAsked'
  <2>1. \A s \in Threads : thread[s] # "none" => s = t
    BY <1>12 DEF startThread, OneFetcher, Running
  <2> QED
    BY <1>12, <2>1 DEF startThread, Goto
<1> QED
  BY <1>1, <1>2, <1>3, <1>4, <1>5, <1>6, <1>7, <1>8, <1>9, <1>10, <1>11,
     <1>12
  DEF Next, fetchStep

LEMMA FetcherInvariant == Spec => []FetcherInv
<1>1. ASSUME FetcherInv, [Next]_vars
      PROVE  FetcherInv'
  BY <1>1, TypeInductive, OneFetcherInductive, UrlInductive, EndInductive
  DEF FetcherInv
<1> QED
  BY InitInv, <1>1, PTL DEF Spec

-----------------------------------------------------------------------------
\* The counter of ConnectionFetcher::fetchConnections stays an unsigned int and
\* everything it keeps has its type, in every interleaving with start and stop.
THEOREM TypeCorrect == Spec => []TypeOK
BY FetcherInvariant, PTL DEF FetcherInv

\* start never creates a second thread on the same curl handle, and isActive
\* tells exactly whether there is one.
THEOREM SingleFetcher == Spec => []OneFetcher
BY FetcherInvariant, PTL DEF FetcherInv

\* Every request of fetchConnections carries the id and the public address
\* known at that time, also after threads have ended and new ones begun.
THEOREM RequestsAreCurrent == Spec => []UrlIsCurrent
<1>1. FetcherInv => UrlIsCurrent
  BY DEF FetcherInv, UrlInv, UrlIsCurrent
<1> QED
  BY <1>1, FetcherInvariant, PTL

\* What ended a thread of fetchConnections still stands when it clears started:
\* no start sets shouldRun in between.
THEOREM EndWasAsked == Spec => []EndsOnlyWhenAsked
BY FetcherInvariant, PTL DEF FetcherInv
=============================================================================
