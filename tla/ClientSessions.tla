---------------------------- MODULE ClientSessions ----------------------------
(***************************************************************************)
(* What the websocket server promises its clients, with no threads, locks  *)
(* or queues.  A client that connects gets one session, which begins and   *)
(* ends some time later.  All of its messages are handled within that      *)
(* session, in order.  Frames go out in rounds: in its round a frame is    *)
(* sent once to everybody who has a session then and is still there, and   *)
(* sessions begin and end between rounds.                                  *)
(***************************************************************************)
EXTENDS Naturals

CONSTANTS
  Connections,   \* the clients
  FrameCycle     \* frames are told apart by their number modulo FrameCycle

VARIABLES
  conn,      \* conn[c]: "none", "open", "closing" or "closed", as the client has it
  session,   \* session[c]: "none", "begun" or "ended"
  arrived,   \* arrived[c]: messages of c so far
  handled,   \* handled[c]: those of them that were handled
  frame,     \* the frame made last, 0 before the first
  made,      \* whether its round is still to come
  due,       \* the clients it is still to be sent to
  last       \* last[c]: the last frame that c was sent, 0 before the first

clientVars  == <<conn, arrived>>
sessionVars == <<session, handled>>
frameVars   == <<frame, made, due, last>>

vars == <<clientVars, sessionVars, frameVars>>

Init ==
  /\ conn = [c \in Connections |-> "none"]
  /\ session = [c \in Connections |-> "none"]
  /\ arrived = [c \in Connections |-> 0]
  /\ handled = [c \in Connections |-> 0]
  /\ frame = 0 /\ made = FALSE /\ due = {}
  /\ last = [c \in Connections |-> 0]

-----------------------------------------------------------------------------
(* What clients do. *)

Connect(c) ==
  /\ conn[c] = "none"
  /\ conn' = [conn EXCEPT ![c] = "open"]
  /\ UNCHANGED <<arrived, sessionVars, frameVars>>

Message(c) ==
  /\ conn[c] = "open"
  /\ arrived' = [arrived EXCEPT ![c] = @ + 1]
  /\ UNCHANGED <<conn, sessionVars, frameVars>>

Leave(c) ==
  /\ \/ conn[c] = "open" /\ conn' = [conn EXCEPT ![c] = "closing"]
     \/ conn[c] \in {"open", "closing"} /\ conn' = [conn EXCEPT ![c] = "closed"]
  /\ UNCHANGED <<arrived, sessionVars, frameVars>>

-----------------------------------------------------------------------------
(* What the server does. *)

\* Between two rounds, for a client that has connected, even if it has left since.
Begin(c) ==
  /\ conn[c] # "none" /\ session[c] = "none" /\ due = {}
  /\ session' = [session EXCEPT ![c] = "begun"]
  /\ UNCHANGED <<clientVars, handled, frameVars>>

\* The next message of c.
Handle(c) ==
  /\ session[c] = "begun" /\ handled[c] < arrived[c]
  /\ handled' = [handled EXCEPT ![c] = @ + 1]
  /\ UNCHANGED <<clientVars, session, frameVars>>

\* Between two rounds, when c has left and nothing it sent is left over.
End(c) ==
  /\ conn[c] = "closed" /\ session[c] = "begun" /\ due = {}
  /\ handled[c] = arrived[c]
  /\ session' = [session EXCEPT ![c] = "ended"]
  /\ UNCHANGED <<clientVars, handled, frameVars>>

MakeFrame ==
  /\ ~made /\ due = {}
  /\ frame' = IF frame = FrameCycle THEN 1 ELSE frame + 1
  /\ made' = TRUE
  /\ UNCHANGED <<clientVars, sessionVars, due, last>>

BeginRound ==
  /\ made
  /\ made' = FALSE
  /\ due' = {c \in Connections : session[c] = "begun"}
  /\ UNCHANGED <<clientVars, sessionVars, frame, last>>

\* A client that is leaving is passed over.
SendFrame(c) ==
  /\ c \in due
  /\ due' = due \ {c}
  /\ last' = IF conn[c] = "open" THEN [last EXCEPT ![c] = frame] ELSE last
  /\ UNCHANGED <<clientVars, sessionVars, frame, made>>

Next ==
  \/ \E c \in Connections :
       \/ Connect(c) \/ Message(c) \/ Leave(c)
       \/ Begin(c) \/ Handle(c) \/ End(c)
       \/ SendFrame(c)
  \/ MakeFrame
  \/ BeginRound

Spec == Init /\ [][Next]_vars

=============================================================================
