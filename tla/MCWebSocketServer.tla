--------------------------- MODULE MCWebSocketServer ---------------------------
(***************************************************************************)
(* A small instance of WebSocketServer for TLC: one client sends two       *)
(* messages, the least that can be put out of order, and the other one.    *)
(***************************************************************************)
EXTENDS WebSocketServer

CONSTANTS c1, c2

MCConnections == {c1, c2}
MCMaxMessages == [c \in MCConnections |-> IF c = c1 THEN 2 ELSE 1]

=============================================================================
