---------------------------- MODULE SessionLife2 ----------------------------
(***************************************************************************)
(* What a session of src/src/sessions2/TCPSession.h promises the           *)
(* ClientHandler: the states it goes through, by which of its member       *)
(* functions, whatever numbers the packets carry.  TCPSession2 implements  *)
(* this specification, and ClientHandler takes its moves for its sessions. *)
(***************************************************************************)
VARIABLE state

States == {"CLOSED", "SYN_RECEIVED", "SYN_ACK_SENT", "ESTABLISHED"}

\* The packets receiveFromClient tells apart.
Kinds == {"SYN", "RST", "ACK", "other"}

\* Where receiveFromClient may leave a session it finds in state s.
ReceiveMoves(s, kind) ==
  {s} \cup
  CASE kind = "SYN" /\ s = "CLOSED" -> {"SYN_RECEIVED", "SYN_ACK_SENT"}
    [] kind = "ACK" /\ s = "SYN_ACK_SENT" -> {"ESTABLISHED"}
    [] kind = "ACK" /\ s = "ESTABLISHED" -> {"CLOSED"}
    [] kind = "RST" -> {"CLOSED"}
    [] OTHER -> {}

\* Where flushDataToServer may.
FlushMoves(s) ==
  {s} \cup
  CASE s = "SYN_RECEIVED" -> {"SYN_ACK_SENT", "CLOSED"}
    [] s = "ESTABLISHED" -> {"CLOSED"}
    [] OTHER -> {}

\* Where checkStatus may: a connection that is being made has no time-out.
StatusMoves(s) ==
  IF s \in {"SYN_ACK_SENT", "ESTABLISHED"} THEN {s, "CLOSED"} ELSE {s}

Init == state = "CLOSED"
Receive == \E kind \in Kinds : state' \in ReceiveMoves(state, kind)
Flush == state' \in FlushMoves(state)
Status == state' \in StatusMoves(state)
SocketError == state' = "CLOSED"
Next == Receive \/ Flush \/ Status \/ SocketError
Spec == Init /\ [][Next]_state
=============================================================================
