---------------------------- MODULE WebSocketServer ----------------------------
(***************************************************************************)
(* WebSocketServer and SimDataBroadcaster of websocket_server/.            *)
(*                                                                         *)
(* Three threads: the io thread (Run) calls the open, message and close    *)
(* handlers of websocketpp, one at a time, and they push events; the event *)
(* thread (ProcessEvents) takes the events and keeps the set of            *)
(* connections; the broadcaster sends a frame to every connection of the   *)
(* set, sleeps and starts again.  A step is one critical section, or one   *)
(* call of websocketpp.  connections_lock_ is held over several steps by   *)
(* Broadcast alone.                                                        *)
(*                                                                         *)
(* websocketpp is external: a connection handle is used once, goes from    *)
(* its handshake to its close, and send() throws when it is not open,      *)
(* which it ceases to be before the close handler is called.               *)
(***************************************************************************)
EXTENDS Naturals, Sequences

CONSTANTS
  Connections,   \* the handles of the clients that may connect
  MaxMessages,   \* bound: the number of messages of each client
  FrameCycle     \* frames are told apart by their number modulo FrameCycle

ASSUME ServerAssumption ==
  MaxMessages \in [Connections -> Nat] /\ FrameCycle \in Nat \ {0}

VARIABLES
  \* websocketpp
  listening,         \* whether Run has started to accept
  conn,              \* conn[c]: "none", "open", "closing" or "closed"
  arrived,           \* arrived[c]: messages received from c
  \* the members of WebSocketServer
  events_,           \* the queue of WSEvents
  connections_,      \* the set of connections
  \* where the three threads are
  handler,           \* the event a handler is about to push, or NoEvent
  event,             \* the event ProcessEvents has taken, or NoEvent
  broadcaster,       \* "sleep", "lock", "sending"
  sim_data_,         \* the frame made last, 0 before the first
  toSend,            \* the connections the loop of Broadcast has not come to
  status,            \* the status of Broadcast: "ok" or "internal"
  \* history
  handled,           \* handled[c]: the last message of c that was handled
  last               \* last[c]: the last frame sent to c, 0 before the first

ioVars        == <<listening, conn, arrived>>
eventVars     == <<connections_, event, handled>>
broadcastVars == <<broadcaster, sim_data_, toSend, status, last>>

vars == <<ioVars, handler, events_, eventVars, broadcastVars>>

WSEvent(type, c) == [event_type |-> type, connection |-> c, message |-> 0]
Message(c, m) == [event_type |-> "MESSAGE", connection |-> c, message |-> m]
NoEvent == [event_type |-> "none"]

WSEvents == [event_type : {"SUBSCRIBE", "UNSUBSCRIBE", "MESSAGE"},
             connection : Connections, message : Nat]

Init ==
  /\ listening = FALSE
  /\ conn = [c \in Connections |-> "none"]
  /\ arrived = [c \in Connections |-> 0]
  /\ events_ = <<>>
  /\ connections_ = {}
  /\ handler = NoEvent
  /\ event = NoEvent
  /\ broadcaster = "sleep"
  /\ sim_data_ = 0
  /\ toSend = {}
  /\ status = "ok"
  /\ handled = [c \in Connections |-> 0]
  /\ last = [c \in Connections |-> 0]

-----------------------------------------------------------------------------
(* The io thread. *)

\* listen, start_accept, run
Run ==
  /\ ~listening
  /\ listening' = TRUE
  /\ UNCHANGED <<conn, arrived, handler, events_, eventVars, broadcastVars>>

\* A client completes its handshake; websocketpp calls OnOpen.
Handshake(c) ==
  /\ listening /\ handler = NoEvent /\ conn[c] = "none"
  /\ conn' = [conn EXCEPT ![c] = "open"]
  /\ handler' = WSEvent("SUBSCRIBE", c)
  /\ UNCHANGED <<listening, arrived, events_, eventVars, broadcastVars>>

\* A message comes in; websocketpp calls OnMessage.
Receive(c) ==
  /\ handler = NoEvent /\ conn[c] = "open" /\ arrived[c] < MaxMessages[c]
  /\ arrived' = [arrived EXCEPT ![c] = @ + 1]
  /\ handler' = Message(c, arrived[c] + 1)
  /\ UNCHANGED <<listening, conn, events_, eventVars, broadcastVars>>

\* A close frame comes in: the handshake of the close begins.
BeginClose(c) ==
  /\ handler = NoEvent /\ conn[c] = "open"
  /\ conn' = [conn EXCEPT ![c] = "closing"]
  /\ UNCHANGED <<listening, arrived, handler, events_, eventVars, broadcastVars>>

\* The connection is closed, or lost while open; websocketpp calls OnClose.
Close(c) ==
  /\ handler = NoEvent /\ conn[c] \in {"open", "closing"}
  /\ conn' = [conn EXCEPT ![c] = "closed"]
  /\ handler' = WSEvent("UNSUBSCRIBE", c)
  /\ UNCHANGED <<listening, arrived, events_, eventVars, broadcastVars>>

\* Altered: the new event jumps the queue.
PushNewEventFront ==
  /\ handler # NoEvent
  /\ events_' = <<handler>> \o events_
  /\ handler' = NoEvent
  /\ UNCHANGED <<ioVars, eventVars, broadcastVars>>

\* Altered: an event is dropped when the queue is not empty.
PushNewEventDropping ==
  /\ handler # NoEvent
  /\ events_' = IF events_ = <<>> THEN <<handler>> ELSE events_
  /\ handler' = NoEvent
  /\ UNCHANGED <<ioVars, eventVars, broadcastVars>>

\* The handler OnOpen, OnMessage or OnClose pushes its event and returns.
PushNewEvent ==
  /\ handler # NoEvent
  /\ events_' = Append(events_, handler)
  /\ handler' = NoEvent
  /\ UNCHANGED <<ioVars, eventVars, broadcastVars>>

-----------------------------------------------------------------------------
(* The event thread. *)

\* Altered: without the Await, the front of an empty queue is read.
TakeEventUnawaited ==
  /\ event = NoEvent
  /\ event' = IF events_ = <<>> THEN [event_type |-> "garbage"] ELSE Head(events_)
  /\ events_' = IF events_ = <<>> THEN <<>> ELSE Tail(events_)
  /\ UNCHANGED <<ioVars, handler, connections_, handled, broadcastVars>>

\* Await events_not_empty, then front and pop.
TakeEvent ==
  /\ event = NoEvent /\ events_ # <<>>
  /\ event' = Head(events_)
  /\ events_' = Tail(events_)
  /\ UNCHANGED <<ioVars, handler, connections_, handled, broadcastVars>>

ConnectionsLockFree == broadcaster # "sending"

Subscribe ==
  /\ event.event_type = "SUBSCRIBE" /\ ConnectionsLockFree
  /\ connections_' = connections_ \cup {event.connection}
  /\ event' = NoEvent
  /\ UNCHANGED <<ioVars, handler, events_, handled, broadcastVars>>

\* Altered: the set is changed without its lock.
UnsubscribeUnlocked ==
  /\ event.event_type = "UNSUBSCRIBE"
  /\ connections_' = connections_ \ {event.connection}
  /\ event' = NoEvent
  /\ UNCHANGED <<ioVars, handler, events_, handled, broadcastVars>>

Unsubscribe ==
  /\ event.event_type = "UNSUBSCRIBE" /\ ConnectionsLockFree
  /\ connections_' = connections_ \ {event.connection}
  /\ event' = NoEvent
  /\ UNCHANGED <<ioVars, handler, events_, handled, broadcastVars>>

HandleMessage ==
  /\ event.event_type = "MESSAGE"
  /\ handled' = [handled EXCEPT ![event.connection] = event.message]
  /\ event' = NoEvent
  /\ UNCHANGED <<ioVars, handler, events_, connections_, broadcastVars>>

-----------------------------------------------------------------------------
(* SimDataBroadcaster::Run and Broadcast. *)

NextFrame(f) == IF f = FrameCycle THEN 1 ELSE f + 1

\* sim_data_ = ConvertSimData(), and on to Broadcast.
ConvertSimData ==
  /\ broadcaster = "sleep"
  /\ sim_data_' = NextFrame(sim_data_)
  /\ broadcaster' = "lock"
  /\ UNCHANGED <<ioVars, handler, events_, eventVars, toSend, status, last>>

\* Broadcast takes connections_lock_ and enters its loop.
BeginBroadcast ==
  /\ broadcaster = "lock"
  /\ status' = "ok"
  /\ toSend' = connections_
  /\ broadcaster' = "sending"
  /\ UNCHANGED <<ioVars, handler, events_, eventVars, sim_data_, last>>

\* Altered: the exception of one send ends the loop.
SendStopping(c) ==
  /\ broadcaster = "sending" /\ c \in toSend
  /\ \/ /\ conn[c] = "open"
        /\ last' = [last EXCEPT ![c] = sim_data_]
        /\ toSend' = toSend \ {c}
        /\ UNCHANGED status
     \/ /\ conn[c] # "open"
        /\ status' = "internal"
        /\ toSend' = {}
        /\ UNCHANGED last
  /\ UNCHANGED <<ioVars, handler, events_, eventVars, broadcaster, sim_data_>>

\* server_.send, whose exception is caught and turned into the status.  The
\* order of connections_ is that of the addresses of the handles: any order.
Send(c) ==
  /\ broadcaster = "sending" /\ c \in toSend
  /\ toSend' = toSend \ {c}
  /\ \/ /\ conn[c] = "open"
        /\ last' = [last EXCEPT ![c] = sim_data_]
        /\ UNCHANGED status
     \/ /\ conn[c] # "open"
        /\ status' = "internal"
        /\ UNCHANGED last
  /\ UNCHANGED <<ioVars, handler, events_, eventVars, broadcaster, sim_data_>>

\* The lock is released, Run ignores the status and sleeps.
EndBroadcast ==
  /\ broadcaster = "sending" /\ toSend = {}
  /\ broadcaster' = "sleep"
  /\ UNCHANGED <<ioVars, handler, events_, eventVars, sim_data_, toSend, status, last>>

-----------------------------------------------------------------------------
ProcessEvents == TakeEvent \/ Subscribe \/ Unsubscribe \/ HandleMessage

Broadcast ==
  \/ ConvertSimData
  \/ BeginBroadcast
  \/ \E c \in Connections : Send(c)
  \/ EndBroadcast

Next ==
  \/ Run
  \/ \E c \in Connections : Handshake(c) \/ Receive(c) \/ BeginClose(c) \/ Close(c)
  \/ PushNewEvent
  \/ ProcessEvents
  \/ Broadcast

Spec == Init /\ [][Next]_vars

\* Threads that can run do.  The event thread contends for connections_lock_
\* with a broadcaster that comes back for it again and again: absl::Mutex hands
\* it to the waiting thread in the end, which weak fairness does not say.
\* Clients owe nothing.
Fairness ==
  /\ WF_vars(Run)
  /\ WF_vars(PushNewEvent)
  /\ WF_vars(TakeEvent)
  /\ WF_vars(HandleMessage)
  /\ SF_vars(Subscribe)
  /\ SF_vars(Unsubscribe)
  /\ WF_vars(Broadcast)

FairSpec == Spec /\ Fairness

-----------------------------------------------------------------------------
TypeOK ==
  /\ listening \in BOOLEAN
  /\ conn \in [Connections -> {"none", "open", "closing", "closed"}]
  /\ arrived \in [Connections -> Nat]
  /\ events_ \in Seq(WSEvents)
  /\ connections_ \in SUBSET Connections
  /\ handler \in WSEvents \cup {NoEvent}
  /\ event \in WSEvents \cup {NoEvent}
  /\ broadcaster \in {"sleep", "lock", "sending"}
  /\ sim_data_ \in 0..FrameCycle
  /\ toSend \in SUBSET Connections
  /\ status \in {"ok", "internal"}
  /\ handled \in [Connections -> Nat]
  /\ last \in [Connections -> 0..FrameCycle]

\* The event e is with a handler, on the queue or with the event thread.
Pending(e) ==
  handler = e \/ event = e \/ \E i \in 1..Len(events_) : events_[i] = e

\* The registry is the set of connections made and not closed, but for changes
\* under way: a closed connection that is still registered has its UNSUBSCRIBE
\* coming, and an open one that is not registered has its SUBSCRIBE coming.  So
\* no client is left out, and none stays for good after it has gone.
RegistryFollowsConnections ==
  \A c \in Connections :
    /\ c \in connections_ /\ conn[c] \in {"none", "closed"} =>
         Pending(WSEvent("UNSUBSCRIBE", c))
    /\ c \notin connections_ /\ conn[c] \in {"open", "closing"} =>
         Pending(WSEvent("SUBSCRIBE", c))

\* When the loop of Broadcast is over every registered connection has been sent
\* the new frame, but for those that are closing: one client whose send throws
\* does not keep the frame from the others.
FrameReachesAll ==
  broadcaster = "sending" /\ toSend = {} =>
    \A c \in connections_ : conn[c] = "open" => last[c] = sim_data_

\* Where the session of each client stands: it begins when the SUBSCRIBE is
\* handled and ends when the connection leaves the registry.
Session ==
  [c \in Connections |->
     IF c \in connections_ THEN "begun"
     ELSE IF conn[c] = "closed" /\ ~Pending(WSEvent("SUBSCRIBE", c)) THEN "ended"
     ELSE "none"]

\* The server gives each client one session, handles all of its messages within it
\* and in order, and sends each frame in one round to all who have a session: the
\* three threads, the queue and the two locks are not to be seen from outside.
CS == INSTANCE ClientSessions WITH
        session <- Session, frame <- sim_data_, made <- (broadcaster = "lock"),
        due <- toSend
ImplementsClientSessions == CS!Spec

\* A client that connects gets a frame, unless it closes before.
ClientIsServed ==
  \A c \in Connections : (conn[c] = "open") ~> (last[c] # 0 \/ conn[c] \in {"closing", "closed"})

\* A client that has gone leaves the registry for good.
GoneIsForgotten ==
  \A c \in Connections : (conn[c] = "closed") ~> [](c \notin connections_)

=============================================================================
