# TunServer: a TLA+ verification project

TunServer is the server side of a VPN that needs no privileges. A client tunnels
its IP packets to it in datagrams; the server terminates each TCP connection of the
client itself, opens an ordinary socket to the application server the packets are
addressed to, and relays the bytes both ways. The repository holds the server twice:
the first, with two threads (`src/src/session`, `src/src/handler/Handler.*`), and the
rewrite, with one thread for each client (`src/src/sessions2`,
`src/src/handler/ClientHandler.h`), which learns of its clients from a relay
(`src/src/connection/ConnectionFetcher.*`). This directory models the logic of both,
checks the models with TLC and proves the central facts with TLAPS.

## 1. Inventory

| part | state | operations | interacts with |
|---|---|---|---|
| **TCPSession** (`session/TCPSession.{h,cpp}`) | connection state; send buffer with `sendSequence <= sendUnacknowledged <= sendNext <= sendNewDataSequence`; receive buffer with `receiveSequence <= receiveUser <= receiveNext`; end-of-stream flags, retry counter, time of the last send | `receiveFromClient`, `flushDataToServer` (up stream thread); `receiveFromServer`, `flushDataToClient` (down stream thread); the trims, `closeSession` | called by both threads of the Handler without a lock; writes to the tunnel; reads and writes one socket; sets and clears its bit in the Handler's `fd_set` |
| **Handler, up stream** (`handler/Handler.cpp:14-98`) | the vector of sessions, the packet at hand, into which sessions write their answers | read a packet, give it to the session that can handle it, open or reuse one, reset the rest; flush all sessions | the tunnel, all sessions, the vector it shares with the other thread |
| **Handler, down stream** (`Handler.cpp:100-155`) | the `fd_set`, `select`'s count | select, `receiveFromServer` on readable sessions, flush all | the same sessions, vector and set |
| **Handler life cycle** (`Handler.cpp:157-187`) | `shouldRun`, active and shutting-down flags | `start`, `stop`, `cleanUp` | `start` joins both threads with `mtx` held |
| **TCPSession v2** (`sessions2/TCPSession.h`) | connection state; per stream one number and offsets into a compacting buffer; end-of-stream flags; membership of three `fd_set`s | `receiveFromClient`, `receiveFromServer`, `flushDataToServer`, `flushDataToClient`, `onSocketError`, `checkStatus` | called by one thread of ClientHandler; the socket and its sets |
| **ClientHandler** (`handler/ClientHandler.h`) | candidates; lists of tunnels and sessions whose open members are meant to come first, with their counts | `start`, `stop`, `addTunnelSocket` (any thread); wait, take candidates, select, serve tunnels and sessions, tick (its own) | DisposableTunnel, TCPSession v2, the thread that accepts sockets |
| **ConnectionFetcher** (`connection/ConnectionFetcher.*`) | `started`, `shouldRun`, id, public address, retry counter and limit, the url in the curl handle | `start`, `stop`, `setMaximumRetries` (any thread); the fetch loop (a detached thread) | a relay server over HTTP, STUN, the callback that is given requests |
| Client, STUN, TCPRaw, Listener, Main, test programs | - | I/O, wiring, experiments | - |

What is hard in this code: two threads share every session without a lock; the
tunnel loses, repeats and reorders packets; sequence numbers are unsigned and every
test is a subtraction or a comparison of them; a send may take part of what it is
given; sessions are used again for new connections; and one loop decides for all
sessions which of them is read. In the rewrite: lists that are spliced while they are
iterated over and counts kept beside them; registration in select's sets, where one
that is missed is never made up for; threads that are started and stopped from
elsewhere and outlive the call; and state that outlives the thread. `PROJECT.json` lists the hazards at their lines.

What makes each part correct:

* session: the client gets the server's bytes and the server the client's, in order,
  none lost or repeated, with each end of stream behind the last byte; the buffer
  numbers stay ordered; a session ends, and not before its streams do;
* up stream: one session for each source, one session for each packet and each answer
  written into it, closed sessions found again;
* down stream: every readable session is asked for its data;
* session v2: segments carry the right bytes whatever is acknowledged; what waits is
  registered; the session ends in order only behind both streams;
* ClientHandler: live tunnels and sessions stay among the counted ones, no loop leaves
  its list, `stop` ends the thread and an accepted socket does not stay in the queue;
* ConnectionFetcher: one thread at a time, every request with the current id and
  address, ended by `stop` and by an unreachable relay.

## 2. Plan

1. `TCPSession` with its abstract life cycle, the core - **done**;
2. the two threads of the Handler, built on that life cycle - **done**;
3. proofs: types, refinement, the client-bound stream - **done**;
4. `HandlerUp` proofs (one session for each source, the pool's bound) - **done**;
5. `TCPSession2` with its abstract life cycle: handshake, acknowledgements,
   segmentation, registration - **done**, with proofs;
6. `ClientHandler`: the open-first lists and their counts under reuse and close, the
   select count, composed with the session's life cycle - **done**, with proofs;
7. `ConnectionFetcher`: start and stop against the thread's end, retries, the url -
   **done**, with proofs;
8. proofs of every safety property the passing runs check: `ClientHandler`, the bytes of
   `TCPSession2`, the server-bound stream of `TCPSession`, `SentMeansWritten`, `HandlerDown` -
   **done**;
9. open: the client-bound stream of `TCPSession` as far as it holds past the wrap, a
   statement of the server-bound one that says what short sends leave intact, and one of
   what is left of the client-bound one when the two threads race.

## 3. Modules

| module | models |
|---|---|
| `SessionMoves` | the states of a session and the moves a packet or a flush can make |
| `SessionLife` | the abstract specification: a session changes state by those moves only |
| `TCPSession` | one session, both threads, the client, the application server, time |
| `HandlerUp` | `handleUpStream`, sessions reduced to `SessionMoves` and their ends |
| `HandlerDown` | `handleDownStream`, sessions reduced to registered or not |
| `SessionLife2` | the abstract specification of a rewritten session: where each member function may leave its state |
| `TCPSession2` | one rewritten session, the client, the socket, time |
| `ClientHandler` | one client's handler and the threads that use it, sessions reduced to `SessionLife2` |
| `ConnectionFetcher` | the fetcher, its threads, the relay and the network |
| `TCPSession_proofs` | types; `TCPSession` implements `SessionLife` |
| `TCPSession_download` | the inductive invariants of the client-bound stream |
| `TCPSession_upload` | the inductive invariant of the server-bound stream |
| `HandlerUp_proofs` | the inductive invariant of the dispatch loop |
| `HandlerDown_proofs` | the types of the down stream loop, and whom it passes over |
| `TCPSession2_proofs` | types, registration, the orderly end, both streams; `TCPSession2` implements `SessionLife2` |
| `ClientHandler_proofs` | the inductive invariant of the lists and of the loops over them |
| `ConnectionFetcher_proofs` | one thread, current requests, ends that stand |

`TCPSession` implements `SessionLife` (checked and proved), and `HandlerUp` takes
exactly those moves for its sessions: that is how the two levels compose without
multiplying their state spaces. `TCPSession2`, `SessionLife2` and `ClientHandler` are
built the same way.

### TCPSession

| variable | code |
|---|---|
| `state` | `state` (`SYN_SENT` and `TIME_WAIT` are never assigned) |
| `snd` | `sendSequence`, `sendUnacknowledged`, `sendNext`, `sendNewDataSequence`, `sendBuffer`, `serverReadFinished`, `retryCount` |
| `rcv` | `receiveSequence`, `receiveUser`, `receiveNext`, `receiveBuffer`, `clientReadFinished`, `lastAcknowledgedSequence` |
| `opt` | `mss`, `sendWindow` |
| `inReceiveSet` | the socket's bit in `receiveSet` |
| `timerExpired` | `diff / 4 > rtt` |
| `down` | where the down stream thread is in `receiveFromServer`, and its local `space` |
| `peer` | the client (its numbers, how much it has got, whether it is alive) and the server (how many bytes each way); history for the properties |
| `out`, `wrote` | what the last call wrote to the tunnel and to the socket |
| `raced` | history: the up stream thread changed the state, or `sendUnacknowledged`, under a `receiveFromServer` in progress |

Byte *k* of a stream is the number *k*, so a buffer says what it holds, and a segment
is faithful when the number at each sequence number is the right one. Each member
function is one step, with two exceptions in the down stream thread:
`receiveFromServer` is cut after `trimSendBuffer`'s first read of
`sendUnacknowledged` and after the trim, because the other thread's
acknowledgements and closes land there. The tunnel is modelled by giving the session
any packet its client could have sent so far, at any time: old, repeated, reordered or
never.  A socket's `send` takes any part of the bytes, would block, or fails;
`tryConnect` succeeds, is in progress, or fails.

Left out of the data: packet encoding, addresses (one session has one client),
`receivePushSequence` (only logged), the values of `rtt`, and the reallocation of
`sendBuffer`.  The sequence numbers are modulo `Modulus`, as unsigned int is modulo
2^32. `generateSequenceNo` computes `rand() % 2 ^ 31`, which is 30 or 31: the runs
take 30.

### HandlerUp and HandlerDown

`HandlerUp` takes one step for each test in the dispatch loop and one for each call,
so that the down stream thread's closes (`closedByDownStream`) fall between a test of
`getState` and the call that relies on it. The loop has no `break` and the sessions write
their answers into the packet it goes on testing: `receiveFromClient` gives the session
and the packet as it leaves them (`leftOf`, with the ends swapped, `swapEnds`, or set to
the session's, `setEnds`). So a session whose source is the packet's destination may be given an
answer to another client, and may be closed by it; `Servers` contains such a destination in the
run. `HandledOnce` states what is left: in the name of one source, no two sessions.

`HandlerDown` takes one step for each session the loop visits; sockets become readable by
data or by the end of the stream, and `receiveFromServer` may leave data behind (a full
buffer) or miss the end of the stream (`errno` left over from an earlier call). `rcvCpy` is the
set `select` found readable, which the code fills and then does not look at; `asked` and
`due` are history: whom the round has called, and which of `rcvCpy` it has not.

### TCPSession2

| variable | code |
|---|---|
| `state` | `state` |
| `up` | `receiveSent`, `receiveBuffer`, `receiveFromClientFinished`, `flushToServerFinished` |
| `dn` | `sendUnacknowledged`, `sendNextOffset`, `sendWindowRightEdge`, `sendBuffer`, `receiveFromServerFinished`, `sentFinToClient`, `flushToClientFinished` |
| `sets` | which of `receiveSet`, `sendSet`, `errorSet` the socket is in |
| `hung` | the thread is in the segmentation loop and cannot leave it |
| `out` | the data segments the last call sent back |
| `peer` | history: the streams' first numbers, bytes read, bytes written, whether a segment was taken behind a flush |

Each member function is one step, as one thread calls them. A packet carries any
sequence number, acknowledgement and window. Every test of a clock may go either way,
except where the call itself has just set the clock (`late` in `flushed`). The
segmentation loop is given by where it stops (`loopEnd`) and by the segments it sends on
the way; with `push` and a finished server it does not stop (`loopHangs`), and from then
on the session only repeats its segment. Segments that are ignored and answers without
data change nothing and have no action.

### ClientHandler

| variable | code |
|---|---|
| `started`, `shouldStop`, `candidates` | the members of `Data` that other threads touch (`tunnelCandidates` as its length) |
| `adding` | a caller of `addTunnelSocket` has passed the test of `started` |
| `tunnels`, `openTunnelsCount`, `tunnelOpen` | the list, its count, and which tunnels are open |
| `tcpSessions`, `openTCPSessionsCount`, `session` | the list, its count, and each session's state and ends |
| `pc`, `ready`, `count`, `it`, `remaining` | the thread: where it is, what `select` reported, its count, and the loop's iterator and bound |
| `unread` | how many of the packets `readPackets` returned are still to be dispatched |

The thread takes one step to wait, to take the candidates, to select, for each tunnel
and for each session it visits, in a round as in the tick, and one for each packet of a
tunnel; calls of other threads fall in between. `splice` moves a node to the end of its list; the loops take the node they go on
with before it (`following`).
Where the double increment of `openTunnelsCount` takes a loop to the end of its list, the
code dereferences it: `pc` is then `"undefined"` and nothing more is said. A session's
segmentation loop may not end (`hung` in `TCPSession2`), so every call that reaches it may
take `pc` to `"hung"` (`sessionHangs`, `tickHangs`), from which nothing returns.

Two things are assumed of what is not modelled. `start` is called by one thread at a time: it
tests and sets `started` without a mutex; the repository's one caller
(`handler/TestClientHandler.cpp:8`) does so from one thread. And a tunnel whose `checkStatus` is false is closed by
that call: lines 337-342, which take it out of the open ones, do not close it, and
DisposableTunnel's source is not in the repository.

### ConnectionFetcher

`thread[t]` is where thread *t* is in `fetchConnections`; the other variables have the code's
names, `url` is what the curl handle holds, `addressDue` that `STUN_INTERVAL` has passed, and
`mapping` and `online` are the network. `start` holds the mutex, so it is one at a time, but
`stop` takes none: `start` is two steps, the test with `started = true` (line 25), and
`shouldRun = true` with the thread (26-28), and a `stop` between them is undone. `stop` and
`setMaximumRetries` fall between any two steps of a thread. A second thread inherits handle,
id, address and retry count from the first. The callbacks `onError` and `onRequest` are taken
to return and to call nothing of the fetcher that another thread could not.

Definitions named `X_Fault`, such as `getSendAvailable_OffByOne`, are the definition
`X` with a plausible fault. They are used by nothing; replacing `X` by one of them must
make the property listed with it in `PROJECT.json` fail, which shows that the
property is about that code.

## 4. Runs

Bounds: `UpLen` and `DownLen` bytes each way on a connection (a closed session is
re-established any number of times), `MaxConnections` sessions, `MaxPending` bytes in a
socket, `MaxCandidates` sockets offered to a handler, `MaxReady` sockets that `select`
reports in a round, `MaxPackets` packets that a tunnel has at once.

| run | bounds | shows |
|---|---|---|
| `session_download` | 3 bytes down, buffer of 3, mss 1 and 2, 1 retry | buffer numbers ordered, segments faithful, registration exact, nothing skipped, life cycle kept |
| `session_upload` | 3 bytes up, buffer of 2, mss 2, 1 byte down, 1 retry | the server gets the client's bytes in order as long as sends take everything; the up stream never counts as complete, nor an orderly end happens, with bytes unsent even when they do not; a silent client's session is released, held data is sent |
| `handler_up` | 3 sources, one of them also a destination, another destination, up to 4 sessions | one session for each source, none for a second packet or answer in the name of one source, at most one object for each source |
| `handler_down` | 3 sessions, 1 byte in a socket | the count stays in range, a readable session is passed over only behind an idle one, and is asked unless one is before it |
| `session2` | 5 bytes down, 2 up, buffer of 5, mss 2, windows 1 and 4, numbers modulo 16 that cross the wrap | segments faithful, waits registered, orderly ends in order, the first flush faithful, life cycle kept |
| `client_handler` | 2 tunnels, 2 sessions, 2 connections, 2 candidates, 2 ready sockets, 2 packets | open tunnels in front, the session loop in its list, counted sessions leave closed |
| `client_liveness` | the same with 1 session, 1 connection and 1 packet | `stop` ends the thread, an accepted socket leaves the queue, unless a call hangs |
| `fetcher` | 2 threads, 2 ids, 2 addresses, limits 0 and 2, counter modulo 4 | one thread, current requests, ends that stand; if requests end, `stop` ends the thread and an unreachable relay is given up |

These bounds are enough for what the properties distinguish: a buffer of 3 with mss 1
is full, trimmed and filled again with 3 bytes; mss 2 makes segments of different
length, data held back and a FIN behind a part of a segment; a receive buffer of 2 with
mss 2 keeps a flushed byte in front of an unflushed one and makes a segment of 2 bytes not fit; one retry is
a retry that succeeds and one that is the last; a fourth session is one more than
three sources need. For `session2` a buffer of 5 with mss 2 has two whole segments and a
rest, windows of 1 and 4 cut a segment and close below what was sent, and 5 bytes from
number 14 of 16 cross the wrap. Two tunnels and two sessions are the least for which a
splice changes an order, and two candidates, ready sockets and packets let both happen in one
round; one session is enough for the liveness of start, stop and offers, which do not
depend on it. Limits 0 and 2 below modulo 4 give a limit at once, one after retries, and a
counter that passes a lowered limit and wraps.

The other runs each show one place where the code does something else than it says,
as a counterexample:

| run | property | what happens |
|---|---|---|
| `session_trim_race` | `DownloadFaithfulUnderAcks` | an acknowledgement between two reads in `trimSendBuffer`: the client is sent wrong bytes |
| `session_half_close` | `OrderlyCloseKeepsDownload` | a client that finishes its stream behind its request ends the session before the server has answered |
| `handler_starvation` | `EverySessionIsAsked` | an idle session in front uses up `select`'s count |
| `client_count` | `SelectCountSpent` | the iterator over the sessions is not advanced, and a session that is reopened is not counted: `assert(count == 0)` fails |

The shortest trace of `client_count` reopens a session that is not counted and finds its
socket readable. `maxFD` is not modelled: for this trace the socket's descriptor must lie
below it, although `evalMaxFD` is called only when a count has changed, as it does when `maxFD` is left
from a socket that has closed. The iterator's fault needs nothing of the kind.

Modelling met other places that no run is given to, because the models contain them and
the properties are stated so that they hold beside them:

* `TCPSession`: after a send that takes part of the bytes the trim sets
  `receiveSequence` to `receiveNext`, and the next send reads outside the data;
  `isUpStreamComplete` compares numbers that may have wrapped; a session closed and
  established again while the other thread is in `receiveFromServer` stores bytes of the old
  server for the new client; a handshake without its last acknowledgement is never given
  up, and `SYN_RECEIVED` is left only by another SYN; the client's window is stored and never
  used.
* `HandlerUp`: `canHandle` looks at the source only, so a second connection from one port
  reaches the session of the first; a session whose source is a packet's destination is
  given the answer written into that packet, and a reset among those closes it.
* `TCPSession2`: the segmentation loop with `push` does not end once the server has
  finished (line 367); `receiveSent` is not advanced with flushed bytes (353), so
  `FirstFlushFaithful` ends with the first segment behind a flush; a FIN without data does not
  register the socket for sending (254).
* `ClientHandler`: a tunnel that is used again is counted twice (line 221), and sockets
  offered when the count has reached `MAXIMUM_TUNNELS` are dropped (203, 224); a call that
  reaches the segmentation loop may keep the thread for ever, and with it `stop`; a `stop`
  between the assignments of `start` is undone (62-63); a socket queued after the handler has
  ended waits for the next `start` (50).
* `ConnectionFetcher`: an answer in several chunks keeps only the last (line 64); a limit
  lowered below the retry count is passed (134), which `GivesUp` excludes; no time-out is set
  on a request (123), so one that is not answered holds the thread, and `stop` with it; a `stop`
  between the assignments of `start` is undone (25-26).

`DownloadFaithful`, `SendWindowOrdered` and `FdRegistration` are therefore stated for as
long as the threads have not moved what the other was using (`raced = {}`, which a
re-established session starts with again), and `UploadFaithful` for as long as every
send took what it was given: outside of these they are false. `UpStreamCompleteIsTrue` is stated below the wrap.

### Fairness

`FairSpec` of `TCPSession`: the Handler's loops run for ever and call every session in
every round, so a call in progress ends (`WF` on `trimSendBuffer`, `readFromServer`),
`flushDataToClient` is called again and again whenever the session is established
(`SF`, as the thread is busy in between), time passes (`WF` on `tick`), and the server's
socket does not refuse bytes for ever (`WF` on `serverTakes`). Nothing is assumed of the client or the tunnel.
`HandlerDown`: the thread's loop runs (`WF` on `DownStream`): `select` has a time-out and the
sockets do not block. That a session it asks takes anything is not assumed: a client that
keeps sending without acknowledging keeps its buffer full for as long as it likes
(`TCPSession.cpp:180-181`), so the properties say that a session is asked.
`ClientHandler`: the thread `start` creates begins, and runs on (`WF` on `startThread` and
`handleClient`) from every position but `"hung"` and `"undefined"`, which it never leaves:
waits and `select` have time-outs, but the segmentation loop of a session may not end. `StopEnds`
and `CandidatesAreServed` are therefore stated up to `lost`.
`ConnectionFetcher`: a thread goes on wherever it cannot block (`WF`): STUN is called with
`STUN_TIMEOUT`, which `getTCPPublicAddress` (a submodule) is taken to keep. Nothing is assumed of a request, as the curl
handle has no time-out; `StopEnds` and `GivesUp` say what follows if every request ends
(`RequestsEnd`). Nothing is assumed of the callers of `stop`, `addTunnelSocket` and the
fetcher's functions, of clients or sockets.

## 5. Proofs

All for every value of the constants, under the assumption named in each module
(`SessionAssumption`, `HandlerUpAssumption`, `HandlerDownAssumption`, `Session2Assumption`,
`ClientHandlerAssumption`, `FetcherAssumption`). Every inductive invariant below also passes TLC on the
module's run; `DownStreamInv` of `TCPSession2_proofs` with a bound on the existential quantifier,
which TLC cannot enumerate.

* `TypeCorrect`: `TypeOK` is inductive as it stands.  The work is in the sequence
  numbers, which must stay below `Modulus` through every `Plus` and `Minus`, in the
  buffers, which must keep their domain through shifts and stores, and in the retry
  counter, which stays within `SEND_MAX_RETRIES` because the equality test comes before
  the increment.
* `SessionImplementsLife`: every step of `TCPSession` is a step of `SessionLife` or leaves
  `state` alone.
* `DownloadIsFaithful`, `SendWindowIsOrdered`, `FdIsRegistered`, from `DownloadInv`. None of the
  three is inductive. Faithful segments need every byte of the buffer in its place
  (`BufferInv`), which `receiveFromServer` keeps only if the byte count and
  `sendNewDataSequence` agree (`CountInv`) and the numbers are ordered (`OrderInv`); the order
  needs that the client never acknowledges what was not sent (`peer.got <= sendNext`), and the trim that
  the distance it has read is still the right one; the handshake must leave the numbers
  equal (`HandshakeInv`); registration needs that a session that is not established is never
  in the set, whatever raced. The assumption `NoWrap` keeps
  `iss + DownLen + 3` below `Modulus`: with an initial number of 30 or 31, a download
  of less than 4 GiB. Past it the code's `max` and `<` on unsigned numbers no longer mean
  what they say.
* `SentIsWritten`, from `SentInv`, needs no `raced = {}`: what it rests on is the order of
  `sendUnacknowledged`, `sendNext` and `sendNewDataSequence` and that they stay below the
  wrap, and no race of the two threads disturbs that. That the segments leave no gap is `SegmentsCover`: the
  segment of a number starts at the greatest multiple of `mss` below it (`SegmentStart`), and the
  last one, or an empty one, carries the FIN.
* `TCPSession_upload`: `UploadIsFaithful`, `CompleteIsTrue`, `OrderlyCloseKeepsAll`, from
  `UploadInv`. Its core, `NumbersInv`, counts: `receiveUser` is where the bytes that have gone to the
  server end, or behind a FIN that all of them precede; `receiveNext` never passes the client's
  stream. It holds whatever the sends take, which gives the truth of `isUpStreamComplete` and the
  orderly end without a condition on short sends. `receiveSequence` is where they differ: after a short send
  it may be past `receiveUser`, and the bytes that are sent next are not the client's. While
  no send is short, every call leaves the buffer drained (`DrainedInv`), so a flush
  finds exactly the segment that was just stored (`StoredNumbers`). The assumption `UpNoWrap` keeps `isn + UpLen + 3`
  below `Modulus`: the code compares the numbers with `>=` and adds and subtracts them on a
  pointer (`TCPSession.cpp:292`), which is not modulo 2^32.

* `HandlerUp_proofs`: `UpTypeCorrect`, `SourcesAreServedOnce`, `PacketsAreHandledOnce`,
  `PoolIsBounded`. That no two open sessions share a source is not inductive: a packet may
  open a session only if no other serves its source, and the loop has looked at the
  sessions one after another while the other thread closed some of them. The invariant
  says what the loop knows: its index is at most one behind the vector (`IndexInv`), an
  open session has the source of the packet that opened it (`SourceInv`), and until the packet is
  handled it is as the client sent it and no open session with its source has been
  passed; while a call is under way its session is the only one (`DispatchInv`). Once a
  session has written an answer the packet may change at every call. That no two sessions get it
  in the name of one source is then `HandledInv`: every open session whose source has been used
  for a packet or an answer is behind the loop, so the next one the loop finds has another. For the pool's bound, while the loop has met no closed session, all it
  has passed and all that is open have different sources, none of them the packet's
  (`FreshInv`): a session that closes behind the loop keeps its source, so a new one is
  appended only when there are fewer sessions than sources.
* `TCPSession2_proofs`: `Types2`, `WaitersAreRegistered`, `EndsInOrder`,
  `Session2ImplementsLife`. The orderly end rests on `EndsInv`: a FIN that was sent is behind
  everything in the buffer (`FinLast`, while the loop has returned), only a FIN that was sent
  is acknowledged, and the server's side is shut down behind the client's end. `FinLast` in
  turn needs that the segmentation loop stops inside the buffer (`LoopEndBound`) and that a
  segment carries the FIN only if the loop reaches the buffer's end (`SendResult`).
  Registration needs that nothing is buffered before the session is established
  (`HandshakeInv`). No assumption on the client: the acknowledgement is any number.
  `SegmentsAreFaithful` and `FirstFlushIsFaithful` are about the bytes, for streams of any length,
  also past the wrap of the numbers: `sendUnacknowledged` is the first number of
  the stream plus some `base`, modulo 2^32, and the buffer holds the bytes from `base` on
  (`Holds`). Each member function moves `base` by what it drops from the buffer; that the
  numbers follow needs that adding in two steps modulo 2^32 is adding once (`ModAdds`, `PlusAdds`).
  For the other direction `UpStreamInv` says that the buffer continues what the
  socket has taken.
* `HandlerDown_proofs`: `DownTypeCorrect`, `PassedOverOnlyBehindIdle`. `TypeOK` is inductive as it
  stands; what could be wrong is the count, which is decremented while sessions come and
  go. That a readable session is passed over only behind an idle one is a pigeonhole: the count is
  what `select` found less the calls made, and the calls are behind the loop (`RoundInv`), so when the
  loop ends with a session due as many were called as were readable, and one of
  those called was not readable (`IdleTookTheTurn`).
* `ClientHandler_proofs`: `ClientTypeOK`, `OpenTunnelsComeFirst`, `SessionLoopStaysInList`,
  `SessionCountedUntilClosed`, from `ClientInv`. A loop that splices the list it goes through
  stays in it because of `LoopAt`: a loop that is at a node and has `left` turns to go has that many
  nodes left among the counted ones. A splice moves a node from the counted part to the end and
  lowers the count, so both sides shrink by one (`SpliceShape`). For the sessions the count never
  passes the list, so the loop never reaches its end; for the tunnels it may, by the double
  increment, and the invariant then says nothing (`it = End`).
* `ConnectionFetcher_proofs`: `TypeCorrect`, `SingleFetcher`, `RequestsAreCurrent`,
  `EndWasAsked`, from `FetcherInv`: the url is always the pair of id and address, and an
  address is known to every thread that has asked for it or is about to make a request
  (`UrlInv`); and as there is one thread, from the first step of `start` on (`OneFetcher`), the
  second step never sets `shouldRun` while a thread is ending.

Only model-checked: the liveness properties (`DeadClientReleased`, `HeldDataIsSent`,
`AskedUnlessBehindIdle`, `StopEnds`, `CandidatesAreServed`, `GivesUp`) and the violations.
Fairness and `ENABLED` are outside of TLAPS. Every invariant and action property of a passing
run is also a theorem.

## 6. Not modelled

* `Handler::start/stop/cleanUp`: `start` holds `mtx` until both threads end, so `stop`
  blocks for ever; no step of it can happen while the server runs.
* `push_back` on the shared vector and the unsynchronised flags: undefined behaviour in
  C++, beyond the races on the session's fields that the models contain.
* an MSS of 0 in a SYN, with which the segmentation loop does not end;
* in ClientHandler: `maxFD` and `evalMaxFD`, the requests for new and deleted tunnels, and
  the packets queued back to the client; what a stale copy of the `fd_set` does to a
  session that is visited twice in a round;
* in ConnectionFetcher: the JSON documents beyond what an answer carries, the life time
  of the object its detached thread refers to;
* STUN, Client, TCPRaw, Listener, Main, the test programs, the vendored ArduinoJson and
  the submodules (ylib, tun-commons, curl): I/O, wiring or third-party code. What
  the session uses of them (`TCPSocket::send`, `tryReceive`, `shiftElements`, the tunnel) is modelled
  from its use and marked external.
