---------------------------- MODULE SessionMoves ----------------------------
(***************************************************************************)
(* The states of a session and the moves its member functions can make,   *)
(* whatever the packet's numbers are: what the Handler can see of it.      *)
(***************************************************************************)

States == {"CLOSED", "SYN_RECEIVED", "SYN_ACK_SENT", "ESTABLISHED"}

\* The packets receiveFromClient tells apart.
Kinds == {"SYN", "SYNACK", "ACK", "RST"}

\* Where receiveFromClient may leave a session it finds in state s.
ReceiveMoves(s, kind) ==
  {s} \cup
  CASE kind = "SYN" /\ s = "CLOSED" -> {"SYN_RECEIVED", "SYN_ACK_SENT"}
    [] kind = "SYN" /\ s = "SYN_RECEIVED" -> {"SYN_ACK_SENT"}
    [] kind = "ACK" /\ s = "SYN_ACK_SENT" -> {"ESTABLISHED"}
    [] kind = "ACK" /\ s = "ESTABLISHED" -> {"CLOSED"}
    [] kind = "RST" -> {"CLOSED"}
    [] OTHER -> {}

\* Where flushDataToServer, flushDataToClient and receiveFromServer may.
FlushMoves(s) == IF s = "ESTABLISHED" THEN {s, "CLOSED"} ELSE {s}
=============================================================================
