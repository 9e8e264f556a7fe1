----------------------------- MODULE SessionLife -----------------------------
(***************************************************************************)
(* What a session promises the Handler: it goes through its states by the  *)
(* moves of SessionMoves only.  TCPSession implements this specification;  *)
(* HandlerUp and HandlerDown are built on the same moves.                  *)
(***************************************************************************)
EXTENDS SessionMoves
VARIABLE state

Init == state = "CLOSED"
Receive == \E kind \in Kinds : state' \in ReceiveMoves(state, kind)
Flush == state' \in FlushMoves(state)
Spec == Init /\ [][Receive \/ Flush]_state
=============================================================================
