-------------------------- MODULE ConnectionFetcher --------------------------
(***************************************************************************)
(* The fetcher of connection requests (src/src/connection/                 *)
(* ConnectionFetcher.{h,cpp}).  A detached thread registers the server's   *)
(* public address with a relay, over and over, and hands the requests in   *)
(* the answers to a callback.  start, stop and setMaximumRetries are       *)
(* called from other threads.  Only start takes the mutex: a second start   *)
(* waits for the first, but stop may come between its two assignments, and *)
(* then what it set is lost.                                               *)
(*                                                                         *)
(* The curl handle and the Data record outlive a thread: what one thread   *)
(* leaves there is what the next one starts with.                          *)
(***************************************************************************)
EXTENDS Naturals, FiniteSets

CONSTANTS
  Threads,     \* the threads start can create
  Ids,         \* ids the relay hands out
  Addresses,   \* public addresses STUN can report
  NoAddress,   \* the zero initialised publicAddr
  Limits,      \* values given to setMaximumRetries
  Modulus      \* retryCount is unsigned int: 2^32

ASSUME FetcherAssumption ==
  /\ IsFiniteSet(Threads)
  /\ Modulus \in Nat \ {0}
  /\ Limits \subseteq 0..(Modulus - 1)
  /\ NoAddress \notin Addresses
  /\ 0 \notin Ids

VARIABLES
  started, shouldRun,      \* Data: what isActive and the loop test
  id, publicAddr,          \* Data: 0 and NoAddress until they are known
  retryCount, maxRetries,  \* Data
  url,                     \* curl: <<id, address>> the next request carries
  thread,                  \* where each thread is in fetchConnections
  addressDue,              \* STUN_INTERVAL has passed since the thread asked
  request,                 \* what onRequest was last given
  mapping, online          \* the network: our public address, reachable

data == <<id, publicAddr, url>>
network == <<mapping, online>>
vars == <<started, shouldRun, retryCount, maxRetries, data, thread,
          addressDue, request, network>>

\* Definitions named X_Fault are X with a fault the checks must see.
Goto(t, pc) == thread' = [thread EXCEPT ![t] = pc]

-----------------------------------------------------------------------------
(* The public member functions *)

\* The lock, the test and the first assignment.
start_Unguarded ==
  /\ \E t \in Threads :
       /\ thread[t] = "none"
       /\ started' = TRUE
       /\ Goto(t, "starting")
       /\ addressDue' = [addressDue EXCEPT ![t] = TRUE]
  /\ UNCHANGED <<shouldRun, retryCount, maxRetries, data, request, network>>
start ==
  /\ ~started
  /\ \E t \in Threads :
       /\ thread[t] = "none"
       /\ started' = TRUE
       /\ Goto(t, "starting")
       /\ addressDue' = [addressDue EXCEPT ![t] = TRUE]
  /\ UNCHANGED <<shouldRun, retryCount, maxRetries, data, request, network>>

\* The second assignment, and the thread.
startThread(t) ==
  /\ thread[t] = "starting"
  /\ shouldRun' = TRUE
  /\ Goto(t, "loop")
  /\ UNCHANGED <<started, retryCount, maxRetries, data, addressDue, request,
                 network>>

stop ==
  /\ shouldRun' = FALSE
  /\ UNCHANGED <<started, retryCount, maxRetries, data, thread, addressDue,
                 request, network>>

setMaximumRetries ==
  /\ maxRetries' \in Limits
  /\ UNCHANGED <<started, shouldRun, retryCount, data, thread, addressDue,
                 request, network>>

-----------------------------------------------------------------------------
(* fetchConnections *)

keepsOn_WhileStarted == started
keepsOn == shouldRun

\* The while test, and the test of the time of the last STUN request.
loop(t) ==
  /\ thread[t] = "loop"
  /\ Goto(t, IF ~keepsOn THEN "end"
             ELSE IF addressDue[t] THEN "updateAddress" ELSE "perform")
  /\ UNCHANGED <<started, shouldRun, retryCount, maxRetries, data, addressDue,
                 request, network>>

\* What both error branches do; onError is taken to return.
countFailure_NotCounted ==
  IF retryCount = maxRetries
  THEN retryCount' = 0 /\ shouldRun' = FALSE
  ELSE UNCHANGED <<retryCount, shouldRun>>
countFailure_NeverWraps ==
  IF retryCount = maxRetries
  THEN retryCount' = 0 /\ shouldRun' = FALSE
  ELSE retryCount' = retryCount + 1 /\ UNCHANGED shouldRun
countFailure ==
  IF retryCount = maxRetries
  THEN retryCount' = 0 /\ shouldRun' = FALSE
  ELSE /\ retryCount' = (retryCount + 1) % Modulus
       /\ UNCHANGED shouldRun

fails(t) ==
  /\ thread[t] \in {"updateAddress", "perform"}
  /\ countFailure
  /\ Goto(t, "loop")
  /\ UNCHANGED <<started, maxRetries, data, addressDue, request, network>>

\* updateURL, as far as id and publicAddr differ from what was known.
updateURL_AddressOnly(newId, newAddr) ==
  url' = IF newAddr # publicAddr THEN <<newId, newAddr>> ELSE url
updateURL(newId, newAddr) ==
  url' = IF <<newId, newAddr>> # <<id, publicAddr>> THEN <<newId, newAddr>>
                                                    ELSE url

\* updateAddress when STUN answers.
updateAddress(t) ==
  /\ thread[t] = "updateAddress"
  /\ online
  /\ addressDue' = [addressDue EXCEPT ![t] = FALSE]
  /\ publicAddr' = mapping
  /\ updateURL(id, mapping)
  /\ Goto(t, "perform")
  /\ UNCHANGED <<started, shouldRun, id, retryCount, maxRetries, request, network>>

\* A 200 answer with an id or none (newId = id) and connection requests.  A
\* body that comes in several chunks leaves only the last in the buffer
\* (reader copies each to the front): it parses as an answer with neither.
\* Entries with a bad client_id, port or address are left out.
perform(t) ==
  /\ thread[t] = "perform"
  /\ online
  /\ \E newId \in Ids \cup {id}, valid \in SUBSET Addresses :
       /\ id' = newId
       /\ updateURL(newId, publicAddr)
       /\ request' = IF valid = {} THEN request
                                   ELSE {<<newId, addr>> : addr \in valid}
  /\ retryCount' = 0
  /\ Goto(t, "loop")
  /\ UNCHANGED <<started, shouldRun, publicAddr, maxRetries, addressDue,
                 network>>

end(t) ==
  /\ thread[t] = "end"
  /\ started' = FALSE
  /\ Goto(t, "none")
  /\ UNCHANGED <<shouldRun, retryCount, maxRetries, data, addressDue, request, network>>

-----------------------------------------------------------------------------
(* Time and the network *)

addressAges(t) ==
  /\ addressDue' = [addressDue EXCEPT ![t] = TRUE]
  /\ UNCHANGED <<started, shouldRun, retryCount, maxRetries, data, thread,
                 request, network>>

networkChanges ==
  /\ mapping' \in Addresses
  /\ online' \in BOOLEAN
  /\ UNCHANGED <<started, shouldRun, retryCount, maxRetries, data, thread,
                 addressDue, request>>

Init ==
  /\ started = FALSE /\ shouldRun = FALSE
  /\ id = 0 /\ publicAddr = NoAddress /\ url = <<0, NoAddress>>
  /\ retryCount = 0 /\ maxRetries \in Limits
  /\ thread = [t \in Threads |-> "none"]
  /\ addressDue = [t \in Threads |-> TRUE]
  /\ request = {}
  /\ mapping \in Addresses /\ online \in BOOLEAN

fetchStep(t) ==
  \/ startThread(t) \/ loop(t) \/ fails(t) \/ updateAddress(t) \/ perform(t)
  \/ end(t)

Next ==
  \/ start \/ stop \/ setMaximumRetries \/ networkChanges
  \/ \E t \in Threads : fetchStep(t) \/ addressAges(t)

Spec == Init /\ [][Next]_vars

\* A running thread goes on wherever it cannot block: STUN is given a time-out,
\* curl_easy_perform is not, so a request need never end.
FairSpec ==
  Spec /\ \A t \in Threads : WF_vars(thread[t] # "perform" /\ fetchStep(t))

-----------------------------------------------------------------------------
(* Properties *)

Positions == {"none", "starting", "loop", "updateAddress", "perform", "end"}

\* The retry counter, the thread positions and the url stay what the loop
\* takes them for.
TypeOK ==
  /\ started \in BOOLEAN /\ shouldRun \in BOOLEAN
  /\ id \in Ids \cup {0}
  /\ publicAddr \in Addresses \cup {NoAddress}
  /\ url \in (Ids \cup {0}) \X (Addresses \cup {NoAddress})
  /\ retryCount \in 0..(Modulus - 1) /\ maxRetries \in Limits
  /\ thread \in [Threads -> Positions]
  /\ addressDue \in [Threads -> BOOLEAN]
  /\ request \in SUBSET ((Ids \cup {0}) \X Addresses)
  /\ mapping \in Addresses /\ online \in BOOLEAN

Running == {t \in Threads : thread[t] # "none"}

\* One thread at most uses the curl handle, and isActive tells exactly
\* whether there is one, although the thread clears started without the
\* mutex that start tests it under.
OneFetcher == /\ \A s, t \in Running : s = t
              /\ started <=> Running # {}

\* Every request registers the id and the address known by then, also the
\* first of a thread that finds an old url in the handle.
UrlIsCurrent ==
  \A t \in Threads : thread[t] = "perform" =>
    url = <<id, publicAddr>> /\ publicAddr # NoAddress

\* What ended a thread's loop still stands when it clears started: no start
\* comes in between and sets shouldRun for a thread that no longer looks at it.
EndsOnlyWhenAsked == \A t \in Threads : thread[t] = "end" => ~shouldRun

\* Every request ends some time, which the network has to see to: the code
\* sets no time-out.
RequestsEnd == \A t \in Threads : []<>(thread[t] # "perform")

\* If requests end, a stop that start does not undo between its assignments
\* ends the thread, whatever STUN and the relay answer and whoever calls start.
StopEnds ==
  LET stopping == /\ started /\ ~shouldRun
                  /\ \A t \in Threads : thread[t] # "starting"
  IN  RequestsEnd => (stopping ~> ~started)

\* If requests end, the fetcher gives up while the relay or STUN cannot be
\* reached, again and again if it is started again, as long as
\* setMaximumRetries has not lowered the limit below the count (the code
\* compares with ==).
GivesUp ==
  (RequestsEnd /\ <>[](~online /\ retryCount <= maxRetries)) => []<>(~started)
=============================================================================
