------------------------- MODULE WebSocketServerProofs -------------------------
(***************************************************************************)
(* Proofs about WebSocketServer, for any clients, numbers of messages and  *)
(* cycle of frames.                                                        *)
(*                                                                         *)
(* An event passes from a handler to the queue to the event thread.  The   *)
(* proofs look at the three as one line of events, Pipe: a handler adds an *)
(* event at its end, the event thread handles the one at its front, and    *)
(* the steps between the three leave it as it is.                          *)
(***************************************************************************)
EXTENDS WebSocketServer, SequenceTheorems, TLAPS

-----------------------------------------------------------------------------
(* The events on their way. *)

\* An event that is there, as a sequence.
One(e) == IF e = NoEvent THEN <<>> ELSE <<e>>

\* The events on their way, the oldest first.
Pipe == One(event) \o (events_ \o One(handler))

IsEvent(e, type, c) == e.event_type = type /\ e.connection = c

\* The i-th event of s is the first, or the last, of its connection.
FirstOf(s, i) == \A j \in 1..Len(s) : s[j].connection = s[i].connection => i <= j
LastOf(s, i) == \A j \in 1..Len(s) : s[j].connection = s[i].connection => j <= i

\* A SUBSCRIBE is the first event of its connection, which is not registered yet.
SubscribeInv(s) ==
  \A i \in 1..Len(s) : s[i].event_type = "SUBSCRIBE" =>
    /\ s[i] = WSEvent("SUBSCRIBE", s[i].connection)
    /\ s[i].connection \notin connections_
    /\ FirstOf(s, i)

\* An UNSUBSCRIBE is the last event of its connection, which is closed.
UnsubscribeInv(s) ==
  \A i \in 1..Len(s) : s[i].event_type = "UNSUBSCRIBE" =>
    /\ s[i] = WSEvent("UNSUBSCRIBE", s[i].connection)
    /\ conn[s[i].connection] = "closed"
    /\ LastOf(s, i)

Has(s, type, c) == \E i \in 1..Len(s) : IsEvent(s[i], type, c)

\* Where a connection stands: before its handshake there is nothing of it; one that
\* lives or has a message on its way is registered or has its SUBSCRIBE coming; one
\* that is registered or will be, and has closed, has its UNSUBSCRIBE coming.
Stands(s, c) ==
  /\ conn[c] = "none" =>
       c \notin connections_ /\ \A i \in 1..Len(s) : s[i].connection # c
  /\ conn[c] \in {"open", "closing"} \/ Has(s, "MESSAGE", c) =>
       c \in connections_ \/ Has(s, "SUBSCRIBE", c)
  /\ conn[c] = "closed" /\ (c \in connections_ \/ Has(s, "SUBSCRIBE", c)) =>
       Has(s, "UNSUBSCRIBE", c)

ConnectionInv(s) == \A c \in Connections : Stands(s, c)

\* The messages on their way are those that arrived and were not handled, in order.
MessageInv(s) ==
  /\ \A c \in Connections : handled[c] <= arrived[c]
  /\ \A i \in 1..Len(s) : s[i].event_type = "MESSAGE" =>
       /\ handled[s[i].connection] < s[i].message
       /\ s[i].message <= arrived[s[i].connection]
       /\ \A j \in 1..Len(s) :
            IsEvent(s[j], "MESSAGE", s[i].connection) /\ i < j => s[i].message < s[j].message
  /\ \A c \in Connections : \A m \in 1..arrived[c] :
       handled[c] < m => \E i \in 1..Len(s) : IsEvent(s[i], "MESSAGE", c) /\ s[i].message = m

PipeInv(s) ==
  SubscribeInv(s) /\ UnsubscribeInv(s) /\ ConnectionInv(s) /\ MessageInv(s)

\* While Broadcast sends, the connections its loop has passed have the frame.
FrameInv ==
  broadcaster = "sending" =>
    \A c \in connections_ \ toSend : conn[c] = "open" => last[c] = sim_data_

\* Nothing is left to be sent while Broadcast does not hold connections_lock_.
RoundInv == broadcaster # "sending" => toSend = {}

Inv == TypeOK /\ PipeInv(Pipe) /\ FrameInv /\ RoundInv

-----------------------------------------------------------------------------
(* Types. *)

\* The server starts with nothing on its way and nobody registered.
LEMMA InitTypeOK == Init => TypeOK
<1>1. <<>> \in Seq(WSEvents) /\ 0 \in 0..FrameCycle
  BY ServerAssumption
<1> SUFFICES ASSUME Init PROVE TypeOK
  OBVIOUS
<1>2. /\ conn \in [Connections -> {"none", "open", "closing", "closed"}]
      /\ arrived \in [Connections -> Nat] /\ handled \in [Connections -> Nat]
      /\ last \in [Connections -> 0..FrameCycle]
  BY <1>1 DEF Init
<1>3. QED
  BY <1>1, <1>2 DEF Init, TypeOK

\* What the handlers push are events.
LEMMA EventTypes ==
  ASSUME NEW c \in Connections, NEW m \in Nat
  PROVE  /\ WSEvent("SUBSCRIBE", c) \in WSEvents /\ WSEvent("UNSUBSCRIBE", c) \in WSEvents
         /\ Message(c, m) \in WSEvents
  BY DEF WSEvent, Message, WSEvents

\* An event can be told from none by its type.
LEMMA EventIsSome ==
  ASSUME NEW e \in WSEvents \cup {NoEvent}
  PROVE  /\ e \in WSEvents => e # NoEvent
         /\ e.event_type # "none" => e \in WSEvents
  BY DEF WSEvents, NoEvent

\* Every step keeps the types.
LEMMA TypeStep == TypeOK /\ [Next]_vars => TypeOK'
<1> SUFFICES ASSUME TypeOK, [Next]_vars PROVE TypeOK'
  OBVIOUS
<1> USE DEF TypeOK
<1>1. CASE Run
  BY <1>1 DEF Run, eventVars, broadcastVars
<1>2. ASSUME NEW c \in Connections, Handshake(c) PROVE TypeOK'
  BY <1>2, EventTypes DEF Handshake, eventVars, broadcastVars
<1>3. ASSUME NEW c \in Connections, Receive(c) PROVE TypeOK'
  BY <1>3, EventTypes DEF Receive, eventVars, broadcastVars
<1>4. ASSUME NEW c \in Connections, BeginClose(c) PROVE TypeOK'
  BY <1>4 DEF BeginClose, eventVars, broadcastVars
<1>5. ASSUME NEW c \in Connections, Close(c) PROVE TypeOK'
  BY <1>5, EventTypes DEF Close, eventVars, broadcastVars
<1>6. CASE PushNewEvent
  BY <1>6, AppendProperties DEF PushNewEvent, ioVars, eventVars, broadcastVars
<1>7. CASE TakeEvent
  BY <1>7, HeadTailProperties DEF TakeEvent, ioVars, broadcastVars
<1>8. CASE Subscribe
  <2>1. event.connection \in Connections
    BY <1>8, EventIsSome DEF Subscribe, WSEvents
  <2>2. QED
    BY <1>8, <2>1 DEF Subscribe, ioVars, broadcastVars
<1>9. CASE Unsubscribe
  BY <1>9 DEF Unsubscribe, ioVars, broadcastVars
<1>10. CASE HandleMessage
  <2>1. event.connection \in Connections /\ event.message \in Nat
    BY <1>10, EventIsSome DEF HandleMessage, WSEvents
  <2>2. QED
    BY <1>10, <2>1 DEF HandleMessage, ioVars, broadcastVars
<1>11. CASE ConvertSimData
  BY <1>11, ServerAssumption DEF ConvertSimData, NextFrame, ioVars, eventVars
<1>12. CASE BeginBroadcast
  BY <1>12 DEF BeginBroadcast, ioVars, eventVars
<1>13. ASSUME NEW c \in Connections, Send(c) PROVE TypeOK'
  BY <1>13 DEF Send, ioVars, eventVars
<1>14. CASE EndBroadcast
  BY <1>14 DEF EndBroadcast, ioVars, eventVars
<1>15. CASE UNCHANGED vars
  BY <1>15 DEF vars, ioVars, eventVars, broadcastVars
<1>16. QED
  BY <1>1, <1>2, <1>3, <1>4, <1>5, <1>6, <1>7, <1>8, <1>9, <1>10, <1>11, <1>12, <1>13,
     <1>14, <1>15
  DEF Next, ProcessEvents, Broadcast

\* The threads of the server keep the types of its members, for any clients.
THEOREM ServerTypeCorrect == Spec => []TypeOK
  BY InitTypeOK, TypeStep, PTL DEF Spec

-----------------------------------------------------------------------------
(* How the steps move the events. *)

\* t is s with e at its end.
Added(t, s, e) ==
  /\ Len(t) = Len(s) + 1
  /\ \A i \in 1..Len(s) : t[i] = s[i]
  /\ t[Len(s) + 1] = e

\* t is s without its first event.
Taken(t, s) ==
  /\ Len(s) = Len(t) + 1
  /\ \A i \in 1..Len(t) : t[i] = s[i + 1]

\* The line consists of events.
LEMMA PipeType == TypeOK => Pipe \in Seq(WSEvents)
<1> SUFFICES ASSUME TypeOK PROVE Pipe \in Seq(WSEvents)
  OBVIOUS
<1>1. ASSUME NEW e \in WSEvents \cup {NoEvent} PROVE One(e) \in Seq(WSEvents)
  BY DEF One
<1>2. One(event) \in Seq(WSEvents) /\ One(handler) \in Seq(WSEvents)
  BY <1>1 DEF TypeOK
<1>3. events_ \o One(handler) \in Seq(WSEvents)
  BY <1>2, ConcatProperties DEF TypeOK
<1>4. QED
  BY <1>2, <1>3, ConcatProperties DEF Pipe

\* A handler that is called adds an event.
LEMMA EventAdded ==
  ASSUME TypeOK, NEW e \in WSEvents, handler = NoEvent, handler' = e,
         UNCHANGED <<event, events_>>
  PROVE  Added(Pipe', Pipe, e)
<1>1. One(handler) = <<>> /\ One(handler)' = <<e>>
  BY EventIsSome DEF One
<1>2. One(event) \in Seq(WSEvents) /\ events_ \in Seq(WSEvents) /\ <<e>> \in Seq(WSEvents)
  BY DEF TypeOK, One
<1>3. One(event) \o events_ \in Seq(WSEvents)
  BY <1>2, ConcatProperties
<1>4. Pipe = One(event) \o events_
  <2>1. events_ \o <<>> = events_
    BY <1>2, ConcatEmptySeq
  <2>2. QED
    BY <1>1, <2>1 DEF Pipe
<1>5. Pipe' = (One(event) \o events_) \o <<e>>
  <2>1. Pipe' = One(event) \o (events_ \o <<e>>)
    BY <1>1 DEF Pipe, One
  <2>2. QED
    BY <1>2, <2>1, ConcatAssociative
<1>6. Pipe' = Append(Pipe, e)
  BY <1>3, <1>4, <1>5, AppendIsConcat
<1>7. QED
  BY <1>3, <1>4, <1>6, AppendProperties DEF Added

\* A handler that pushes its event moves it.
LEMMA EventPushed ==
  ASSUME TypeOK, PushNewEvent
  PROVE  Pipe' = Pipe
<1>1. handler \in WSEvents /\ One(handler) = <<handler>> /\ One(handler)' = <<>>
  BY EventIsSome DEF TypeOK, PushNewEvent, One
<1>2. events_ \in Seq(WSEvents) /\ events_' = Append(events_, handler) /\ event' = event
  BY DEF TypeOK, PushNewEvent, eventVars
<1>3. events_' = events_ \o <<handler>> /\ events_' \in Seq(WSEvents)
  BY <1>1, <1>2, AppendIsConcat, AppendProperties
<1>4. events_' \o <<>> = events_'
  BY <1>3, ConcatEmptySeq
<1>5. QED
  BY <1>1, <1>2, <1>3, <1>4 DEF Pipe, One

\* The event thread that takes an event moves it.
LEMMA EventTaken ==
  ASSUME TypeOK, TakeEvent
  PROVE  Pipe' = Pipe
<1>1. /\ events_ \in Seq(WSEvents) /\ events_ # <<>>
      /\ event = NoEvent /\ event' = Head(events_) /\ events_' = Tail(events_)
      /\ handler' = handler
  BY DEF TypeOK, TakeEvent
<1>2. Head(events_) \in WSEvents /\ Tail(events_) \in Seq(WSEvents)
  BY <1>1, HeadTailProperties
<1>3. One(event) = <<>> /\ One(event)' = <<Head(events_)>> /\ One(handler)' = One(handler)
  BY <1>1, <1>2, EventIsSome DEF One
<1>4. One(handler) \in Seq(WSEvents) /\ <<Head(events_)>> \in Seq(WSEvents)
  BY <1>2 DEF TypeOK, One
<1>5. events_ = <<Head(events_)>> \o Tail(events_)
  <2>1. 1 \in 1..Len(events_) /\ Len(events_) \in 1..Len(events_)
    BY <1>1, EmptySeq
  <2>2. SubSeq(events_, 1, Len(events_)) = <<events_[1]>> \o SubSeq(events_, 1 + 1, Len(events_))
    BY <1>1, <2>1, SubSeqRecursiveFirst
  <2>3. SubSeq(events_, 1, Len(events_)) = events_
    BY <1>1, SubSeqFull
  <2>4. Tail(events_) = SubSeq(events_, 2, Len(events_))
    BY <1>1, TailIsSubSeq
  <2>5. Head(events_) = events_[1]
    BY <1>1
  <2>6. QED
    BY <2>2, <2>3, <2>4, <2>5
<1>6. events_ \o One(handler) \in Seq(WSEvents)
  BY <1>1, <1>4, ConcatProperties
<1>7. Pipe = events_ \o One(handler)
  BY <1>3, <1>6, ConcatEmptySeq DEF Pipe
<1>8. Pipe' = <<Head(events_)>> \o (Tail(events_) \o One(handler))
  BY <1>1, <1>3 DEF Pipe
<1>9. Pipe' = (<<Head(events_)>> \o Tail(events_)) \o One(handler)
  BY <1>2, <1>4, <1>8, ConcatAssociative
<1>10. QED
  BY <1>5, <1>7, <1>9

\* The event thread handles the first event.
LEMMA EventHandled ==
  ASSUME TypeOK, event \in WSEvents, event' = NoEvent, UNCHANGED <<events_, handler>>
  PROVE  /\ Len(Pipe') \in Nat
         /\ Len(Pipe) >= 1 /\ Pipe[1] = event /\ Taken(Pipe', Pipe)
<1>1. One(event) = <<event>> /\ One(event)' = <<>>
  BY EventIsSome DEF One
<1> DEFINE rest == events_ \o One(handler)
<1>2. rest \in Seq(WSEvents)
  <2>1. events_ \in Seq(WSEvents) /\ One(handler) \in Seq(WSEvents)
    BY DEF TypeOK, One
  <2>2. QED
    BY <2>1, ConcatProperties
<1>3. Pipe = <<event>> \o rest
  BY <1>1 DEF Pipe
<1>4. Pipe' = rest
  <2>1. Pipe' = <<>> \o rest
    BY <1>1 DEF Pipe, One
  <2>2. QED
    BY <1>2, <2>1, ConcatEmptySeq
<1>5. <<event>> \in Seq(WSEvents) /\ Len(<<event>>) = 1 /\ <<event>>[1] = event
  OBVIOUS
<1> HIDE DEF rest
<1>6. /\ Len(Pipe) = 1 + Len(rest)
      /\ \A i \in 1..1 + Len(rest) : Pipe[i] = IF i <= 1 THEN <<event>>[i] ELSE rest[i - 1]
  <2>1. /\ Len(<<event>> \o rest) = Len(<<event>>) + Len(rest)
        /\ \A i \in 1..Len(<<event>>) + Len(rest) : (<<event>> \o rest)[i] =
             IF i <= Len(<<event>>) THEN <<event>>[i] ELSE rest[i - Len(<<event>>)]
    BY <1>2, <1>5, ConcatProperties, Zenon
  <2>2. QED
    BY <1>3, <1>5, <2>1
<1>7. Len(rest) \in Nat
  BY <1>2, LenProperties
<1>8. QED
  BY <1>4, <1>5, <1>6, <1>7 DEF Taken

-----------------------------------------------------------------------------
(* The events on their way follow the connections. *)

\* The line is empty at first.
LEMMA InitPipe == Init => PipeInv(Pipe)
<1> SUFFICES ASSUME Init PROVE PipeInv(Pipe)
  OBVIOUS
<1>1. Pipe = <<>>
  <2>1. Pipe = <<>> \o (<<>> \o <<>>)
    BY DEF Init, Pipe, One
  <2>2. <<>> \o <<>> = <<>>
    BY EmptySeq, ConcatEmptySeq
  <2>3. QED
    BY <2>1, <2>2
<1>2. Len(Pipe) = 0
  BY <1>1
<1>3. SubscribeInv(Pipe) /\ UnsubscribeInv(Pipe)
  BY <1>2 DEF SubscribeInv, UnsubscribeInv
<1>4. ConnectionInv(Pipe)
  <2>1. connections_ = {} /\ \A c \in Connections : conn[c] = "none"
    BY DEF Init
  <2>2. \A type, c : ~Has(Pipe, type, c)
    BY <1>2 DEF Has
  <2>3. \A c \in Connections : \A i \in 1..Len(Pipe) : Pipe[i].connection # c
    BY <1>2
  <2>4. QED
    BY <2>1, <2>2, <2>3 DEF ConnectionInv, Stands
<1>5. MessageInv(Pipe)
  BY <1>2 DEF MessageInv, Init
<1>6. QED
  BY <1>3, <1>4, <1>5 DEF PipeInv

\* The members of the events on their way.
LEMMA PipeMembers ==
  ASSUME TypeOK
  PROVE  /\ Len(Pipe) \in Nat
         /\ \A i \in 1..Len(Pipe) :
              /\ Pipe[i].event_type \in {"SUBSCRIBE", "UNSUBSCRIBE", "MESSAGE"}
              /\ Pipe[i].connection \in Connections
              /\ Pipe[i].message \in Nat
<1>1. Pipe \in Seq(WSEvents)
  BY PipeType
<1>2. Len(Pipe) \in Nat /\ \A i \in 1..Len(Pipe) : Pipe[i] \in WSEvents
  BY <1>1, LenProperties, ElementOfSeq
<1>3. QED
  BY <1>2 DEF WSEvents

\* A new connection has its SUBSCRIBE coming.
LEMMA HandshakePipe ==
  ASSUME TypeOK, PipeInv(Pipe), NEW c \in Connections, Handshake(c)
  PROVE  PipeInv(Pipe)'
<1> DEFINE e == WSEvent("SUBSCRIBE", c)
<1>1. Added(Pipe', Pipe, e)
  BY EventAdded, EventTypes DEF Handshake, eventVars
<1>2. e.event_type = "SUBSCRIBE" /\ e.connection = c
  BY DEF WSEvent
<1>3. /\ conn[c] = "none" /\ conn' = [conn EXCEPT ![c] = "open"]
      /\ UNCHANGED <<connections_, arrived, handled>>
  BY DEF Handshake, eventVars
<1>4. conn \in [Connections -> {"none", "open", "closing", "closed"}]
  BY DEF TypeOK
<1>5. c \notin connections_ /\ \A i \in 1..Len(Pipe) : Pipe[i].connection # c
  BY <1>3 DEF PipeInv, ConnectionInv, Stands
<1>6. Len(Pipe) \in Nat
  BY PipeMembers
<1> HIDE DEF e
<1>7. SubscribeInv(Pipe)'
  BY <1>1, <1>2, <1>3, <1>5, <1>6 DEF PipeInv, SubscribeInv, FirstOf, Added, e
<1>8. UnsubscribeInv(Pipe)'
  BY <1>1, <1>2, <1>3, <1>4, <1>5, <1>6, PipeMembers DEF PipeInv, UnsubscribeInv, LastOf, Added
<1>9. ConnectionInv(Pipe)'
  BY <1>1, <1>2, <1>3, <1>4, <1>5, <1>6 DEF PipeInv, ConnectionInv, Stands, Has, IsEvent, Added
<1>10. MessageInv(Pipe)'
  BY <1>1, <1>2, <1>3, <1>5, <1>6 DEF PipeInv, MessageInv, IsEvent, Added
<1>11. QED
  BY <1>7, <1>8, <1>9, <1>10 DEF PipeInv

\* A message that arrives is the last of its sender, which is not closed.
LEMMA ReceivePipe ==
  ASSUME TypeOK, PipeInv(Pipe), NEW c \in Connections, Receive(c)
  PROVE  PipeInv(Pipe)'
<1> DEFINE m == arrived[c] + 1
           e == Message(c, m)
<1>1. arrived \in [Connections -> Nat] /\ handled \in [Connections -> Nat] /\ m \in Nat
  BY DEF TypeOK
<1>2. Added(Pipe', Pipe, e)
  BY <1>1, EventAdded, EventTypes DEF Receive, eventVars
<1>3. e.event_type = "MESSAGE" /\ e.connection = c /\ e.message = m
  BY DEF Message
<1>4. /\ conn[c] = "open" /\ arrived' = [arrived EXCEPT ![c] = m]
      /\ UNCHANGED <<connections_, conn, handled>>
  BY DEF Receive, eventVars
<1>5. Len(Pipe) \in Nat
  BY PipeMembers
<1> HIDE DEF e
<1>6. SubscribeInv(Pipe)'
  <2>1. c \in connections_ \/ Has(Pipe, "SUBSCRIBE", c)
    BY <1>4 DEF PipeInv, ConnectionInv, Stands
  <2>2. QED
    BY <1>2, <1>3, <1>4, <1>5, <2>1 DEF PipeInv, SubscribeInv, FirstOf, Has, IsEvent, Added
<1>7. UnsubscribeInv(Pipe)'
  BY <1>2, <1>3, <1>4, <1>5 DEF PipeInv, UnsubscribeInv, LastOf, Added
<1>8. ConnectionInv(Pipe)'
  BY <1>2, <1>3, <1>4, <1>5 DEF PipeInv, ConnectionInv, Stands, Has, IsEvent, Added
<1>9. MessageInv(Pipe)'
  <2>1. \A d \in Connections : handled[d] <= arrived'[d] /\ (d # c => arrived'[d] = arrived[d])
    BY <1>1, <1>4 DEF PipeInv, MessageInv
  <2>2. \A i \in 1..Len(Pipe) : Pipe'[i] = Pipe[i]
    BY <1>2 DEF Added
  <2>3. Len(Pipe') = Len(Pipe) + 1 /\ Pipe'[Len(Pipe) + 1] = e
    BY <1>2 DEF Added
  <2>4. ASSUME NEW i \in 1..Len(Pipe'), Pipe'[i].event_type = "MESSAGE"
        PROVE  /\ handled[Pipe'[i].connection] < Pipe'[i].message
               /\ Pipe'[i].message <= arrived'[Pipe'[i].connection]
               /\ \A j \in 1..Len(Pipe') :
                    IsEvent(Pipe'[j], "MESSAGE", Pipe'[i].connection) /\ i < j =>
                      Pipe'[i].message < Pipe'[j].message
    <3>1. CASE i = Len(Pipe) + 1
      <4>1. Pipe'[i].connection = c /\ Pipe'[i].message = m /\ arrived'[c] = m
        BY <1>1, <1>3, <1>4, <2>3, <3>1
      <4>2. handled[c] <= arrived[c] /\ handled[c] \in Nat /\ arrived[c] \in Nat
        BY <1>1 DEF PipeInv, MessageInv
      <4>3. \A j \in 1..Len(Pipe') : ~(i < j)
        BY <1>5, <2>3, <3>1
      <4>4. QED
        BY <4>1, <4>2, <4>3
    <3>2. CASE i \in 1..Len(Pipe)
      <4> DEFINE d == Pipe[i].connection
      <4>1. d \in Connections /\ Pipe[i].message \in Nat
        BY <3>2, PipeMembers
      <4>2. /\ handled[d] < Pipe[i].message /\ Pipe[i].message <= arrived[d]
            /\ \A j \in 1..Len(Pipe) : IsEvent(Pipe[j], "MESSAGE", d) /\ i < j =>
                 Pipe[i].message < Pipe[j].message
        BY <2>2, <2>4, <3>2 DEF PipeInv, MessageInv
      <4>3. arrived[d] \in Nat /\ arrived[d] <= arrived'[d]
        BY <1>1, <1>4, <4>1
      <4>4. IsEvent(e, "MESSAGE", d) => Pipe[i].message < e.message
        BY <1>1, <1>3, <4>1, <4>2 DEF IsEvent
      <4>5. \A j \in 1..Len(Pipe') : j \in 1..Len(Pipe) \/ j = Len(Pipe) + 1
        BY <1>5, <2>3
      <4>6. Pipe[i].message <= arrived'[d]
        BY <1>1, <1>4, <4>1, <4>2, <4>3
      <4>7. QED
        BY <2>2, <2>3, <3>2, <4>2, <4>4, <4>5, <4>6
    <3>3. QED
      BY <1>5, <2>3, <3>1, <3>2
  <2>5. ASSUME NEW d \in Connections, NEW n \in 1..arrived'[d], handled[d] < n
        PROVE  \E i \in 1..Len(Pipe') : IsEvent(Pipe'[i], "MESSAGE", d) /\ Pipe'[i].message = n
    <3>1. CASE n \in 1..arrived[d]
      <4>1. PICK i \in 1..Len(Pipe) : IsEvent(Pipe[i], "MESSAGE", d) /\ Pipe[i].message = n
        BY <2>5, <3>1 DEF PipeInv, MessageInv
      <4>2. i \in 1..Len(Pipe') /\ Pipe'[i] = Pipe[i]
        BY <1>5, <2>2, <2>3
      <4>3. QED
        BY <4>1, <4>2
    <3>2. CASE n \notin 1..arrived[d]
      <4>1. d = c /\ n = m
        BY <1>1, <1>4, <3>2
      <4>2. Len(Pipe) + 1 \in 1..Len(Pipe')
        BY <1>5, <2>3
      <4>3. QED
        BY <1>3, <2>3, <4>1, <4>2 DEF IsEvent
    <3>3. QED
      BY <3>1, <3>2
  <2>6. QED
    BY <1>4, <2>1, <2>4, <2>5 DEF MessageInv
<1>10. QED
  BY <1>6, <1>7, <1>8, <1>9 DEF PipeInv

\* A connection that begins to close stands where it stood.
LEMMA BeginClosePipe ==
  ASSUME TypeOK, PipeInv(Pipe), NEW c \in Connections, BeginClose(c)
  PROVE  PipeInv(Pipe)'
<1>1. Pipe' = Pipe
  BY DEF Pipe, One, BeginClose, eventVars
<1>2. /\ conn[c] = "open" /\ conn' = [conn EXCEPT ![c] = "closing"]
      /\ UNCHANGED <<connections_, arrived, handled>>
  BY DEF BeginClose, eventVars
<1>3. conn \in [Connections -> {"none", "open", "closing", "closed"}]
  BY DEF TypeOK
<1>4. SubscribeInv(Pipe)'
  BY <1>1, <1>2 DEF PipeInv, SubscribeInv
<1>5. UnsubscribeInv(Pipe)'
  BY <1>1, <1>2, <1>3, PipeMembers DEF PipeInv, UnsubscribeInv
<1>6. ConnectionInv(Pipe)'
  BY <1>1, <1>2, <1>3 DEF PipeInv, ConnectionInv, Stands, Has
<1>7. MessageInv(Pipe)'
  BY <1>1, <1>2 DEF PipeInv, MessageInv
<1>8. QED
  BY <1>4, <1>5, <1>6, <1>7 DEF PipeInv

\* A connection that closes has its UNSUBSCRIBE coming, the last of its events.
LEMMA ClosePipe ==
  ASSUME TypeOK, PipeInv(Pipe), NEW c \in Connections, Close(c)
  PROVE  PipeInv(Pipe)'
<1> DEFINE e == WSEvent("UNSUBSCRIBE", c)
<1>1. Added(Pipe', Pipe, e)
  BY EventAdded, EventTypes DEF Close, eventVars
<1>2. e.event_type = "UNSUBSCRIBE" /\ e.connection = c
  BY DEF WSEvent
<1>3. /\ conn[c] \in {"open", "closing"} /\ conn' = [conn EXCEPT ![c] = "closed"]
      /\ UNCHANGED <<connections_, arrived, handled>>
  BY DEF Close, eventVars
<1>4. conn \in [Connections -> {"none", "open", "closing", "closed"}]
  BY DEF TypeOK
<1>5. Len(Pipe) \in Nat
  BY PipeMembers
<1> HIDE DEF e
<1>6. SubscribeInv(Pipe)'
  <2>1. c \in connections_ \/ Has(Pipe, "SUBSCRIBE", c)
    BY <1>3 DEF PipeInv, ConnectionInv, Stands
  <2>2. QED
    BY <1>1, <1>2, <1>3, <1>5, <2>1 DEF PipeInv, SubscribeInv, FirstOf, Has, IsEvent, Added
<1>7. UnsubscribeInv(Pipe)'
  BY <1>1, <1>2, <1>3, <1>4, <1>5, PipeMembers DEF PipeInv, UnsubscribeInv, LastOf, Added, e
<1>8. ConnectionInv(Pipe)'
  BY <1>1, <1>2, <1>3, <1>4, <1>5 DEF PipeInv, ConnectionInv, Stands, Has, IsEvent, Added
<1>9. MessageInv(Pipe)'
  BY <1>1, <1>2, <1>3, <1>5 DEF PipeInv, MessageInv, IsEvent, Added
<1>10. QED
  BY <1>6, <1>7, <1>8, <1>9 DEF PipeInv

\* What is left when the first event is handled.
LEMMA RestOfPipe ==
  ASSUME TypeOK, event \in WSEvents, event' = NoEvent, UNCHANGED <<events_, handler>>
  PROVE  /\ Len(Pipe) \in Nat /\ Len(Pipe') \in Nat
         /\ 1 \in 1..Len(Pipe) /\ Pipe[1] = event /\ event.connection \in Connections
         /\ \A i \in 1..Len(Pipe') : i + 1 \in 1..Len(Pipe) /\ Pipe'[i] = Pipe[i + 1]
         /\ \A type, c : Has(Pipe, type, c) <=> IsEvent(event, type, c) \/ Has(Pipe, type, c)'
         /\ \A i \in 1..Len(Pipe') :
              /\ FirstOf(Pipe, i + 1) => FirstOf(Pipe', i)
              /\ LastOf(Pipe, i + 1) => LastOf(Pipe', i)
<1>1. Len(Pipe') \in Nat /\ Len(Pipe) >= 1 /\ Pipe[1] = event /\ Taken(Pipe', Pipe)
  BY EventHandled
<1>2. Len(Pipe) \in Nat /\ 1 \in 1..Len(Pipe)
  BY <1>1 DEF Taken
<1>3. \A i \in 1..Len(Pipe') : i + 1 \in 1..Len(Pipe) /\ Pipe'[i] = Pipe[i + 1]
  BY <1>1 DEF Taken
<1>4. \A i \in 1..Len(Pipe) : i = 1 \/ (i - 1 \in 1..Len(Pipe') /\ Pipe'[i - 1] = Pipe[i])
  BY <1>1, <1>2 DEF Taken
<1>5. ASSUME NEW type, NEW c
      PROVE  Has(Pipe, type, c) <=> IsEvent(event, type, c) \/ Has(Pipe, type, c)'
  BY <1>1, <1>2, <1>3, <1>4 DEF Has
<1>6. ASSUME NEW i \in 1..Len(Pipe')
      PROVE  /\ FirstOf(Pipe, i + 1) => FirstOf(Pipe', i)
             /\ LastOf(Pipe, i + 1) => LastOf(Pipe', i)
  <2>1. ASSUME NEW j \in 1..Len(Pipe'), Pipe'[j].connection = Pipe'[i].connection
        PROVE  /\ FirstOf(Pipe, i + 1) => i <= j
               /\ LastOf(Pipe, i + 1) => j <= i
    <3>1. j + 1 \in 1..Len(Pipe) /\ Pipe[j + 1].connection = Pipe[i + 1].connection
      BY <1>3, <2>1
    <3>2. FirstOf(Pipe, i + 1) => i + 1 <= j + 1
      BY <3>1 DEF FirstOf
    <3>3. LastOf(Pipe, i + 1) => j + 1 <= i + 1
      BY <3>1 DEF LastOf
    <3>4. i \in Nat /\ j \in Nat
      BY <1>1
    <3>5. QED
      BY <3>2, <3>3, <3>4
  <2>2. QED
    BY <2>1 DEF FirstOf, LastOf
<1>7. event.connection \in Connections
  BY DEF WSEvents
<1>8. QED
  BY <1>1, <1>2, <1>3, <1>5, <1>6, <1>7

\* An event is handled: the messages left are those that are not handled.
LEMMA RestOfMessages ==
  ASSUME TypeOK, MessageInv(Pipe), event \in WSEvents, event' = NoEvent,
         UNCHANGED <<events_, handler, arrived>>,
         \A c \in Connections : handled'[c] =
           IF IsEvent(event, "MESSAGE", c) THEN event.message ELSE handled[c]
  PROVE  MessageInv(Pipe)'
<1>1. /\ Len(Pipe) \in Nat /\ Len(Pipe') \in Nat
      /\ 1 \in 1..Len(Pipe) /\ Pipe[1] = event /\ event.connection \in Connections
  BY RestOfPipe
<1>2. \A i \in 1..Len(Pipe') : i + 1 \in 1..Len(Pipe) /\ Pipe'[i] = Pipe[i + 1]
  BY RestOfPipe
<1>3. ASSUME NEW i \in 1..Len(Pipe'), Pipe'[i].event_type = "MESSAGE"
      PROVE  /\ handled'[Pipe'[i].connection] < Pipe'[i].message
             /\ Pipe'[i].message <= arrived'[Pipe'[i].connection]
             /\ \A j \in 1..Len(Pipe') :
                  IsEvent(Pipe'[j], "MESSAGE", Pipe'[i].connection) /\ i < j =>
                    Pipe'[i].message < Pipe'[j].message
  <2> DEFINE c == Pipe[i + 1].connection
  <2>1. i + 1 \in 1..Len(Pipe) /\ Pipe'[i] = Pipe[i + 1] /\ Pipe[i + 1].event_type = "MESSAGE"
    BY <1>2, <1>3
  <2>2. c \in Connections
    BY <2>1, PipeMembers
  <2>3. /\ handled[c] < Pipe[i + 1].message /\ Pipe[i + 1].message <= arrived[c]
        /\ \A j \in 1..Len(Pipe) : IsEvent(Pipe[j], "MESSAGE", c) /\ i + 1 < j =>
             Pipe[i + 1].message < Pipe[j].message
    BY <2>1 DEF MessageInv
  <2>4. handled'[c] < Pipe[i + 1].message
    <3>1. CASE IsEvent(event, "MESSAGE", c)
      <4>1. IsEvent(Pipe[i + 1], "MESSAGE", event.connection) /\ event.connection = c
        BY <2>1, <3>1 DEF IsEvent
      <4>2. 1 < i + 1
        BY <1>1
      <4>3. event.message < Pipe[i + 1].message
        BY <1>1, <2>1, <3>1, <4>1, <4>2 DEF MessageInv, IsEvent
      <4>4. QED
        BY <2>2, <3>1, <4>3
    <3>2. CASE ~IsEvent(event, "MESSAGE", c)
      BY <2>2, <2>3, <3>2
    <3>3. QED
      BY <3>1, <3>2
  <2>5. ASSUME NEW j \in 1..Len(Pipe'), IsEvent(Pipe'[j], "MESSAGE", c), i < j
        PROVE  Pipe[i + 1].message < Pipe'[j].message
    <3>1. j + 1 \in 1..Len(Pipe) /\ Pipe'[j] = Pipe[j + 1]
      BY <1>2
    <3>2. i + 1 < j + 1
      BY <1>1, <2>5
    <3>3. QED
      BY <2>3, <2>5, <3>1, <3>2
  <2>6. QED
    BY <2>1, <2>3, <2>4, <2>5
<1>4. ASSUME NEW c \in Connections, NEW m \in 1..arrived'[c], handled'[c] < m
      PROVE  \E i \in 1..Len(Pipe') : IsEvent(Pipe'[i], "MESSAGE", c) /\ Pipe'[i].message = m
  <2>1. handled[c] \in Nat /\ arrived[c] \in Nat /\ event.message \in Nat
    BY DEF TypeOK, WSEvents
  <2>2. handled[c] < m
    <3>1. CASE IsEvent(event, "MESSAGE", c)
      <4>1. handled[c] < event.message /\ handled'[c] = event.message
        BY <1>1, <3>1 DEF MessageInv, IsEvent
      <4>2. QED
        BY <1>4, <2>1, <4>1
    <3>2. CASE ~IsEvent(event, "MESSAGE", c)
      BY <1>4, <3>2
    <3>3. QED
      BY <3>1, <3>2
  <2>3. PICK i \in 1..Len(Pipe) : IsEvent(Pipe[i], "MESSAGE", c) /\ Pipe[i].message = m
    BY <2>2 DEF MessageInv
  <2>4. i # 1
    <3>1. ASSUME i = 1 PROVE FALSE
      <4>1. IsEvent(event, "MESSAGE", c) /\ event.message = m
        BY <1>1, <2>3, <3>1
      <4>2. handled'[c] = m
        BY <4>1
      <4>3. QED
        BY <1>4, <2>1, <4>2
    <3>2. QED
      BY <3>1
  <2>5. i - 1 \in 1..Len(Pipe') /\ Pipe'[i - 1] = Pipe[i]
    BY <1>1, <2>4, EventHandled DEF Taken
  <2>6. QED
    BY <2>3, <2>5
<1>5. \A c \in Connections : handled'[c] <= arrived'[c]
  <2>1. \A c \in Connections : IsEvent(event, "MESSAGE", c) => event.message <= arrived[c]
    BY <1>1 DEF MessageInv, IsEvent
  <2>2. QED
    BY <2>1 DEF MessageInv
<1>6. QED
  BY <1>3, <1>4, <1>5 DEF MessageInv

\* An event is handled: every connection still stands where its events say.
LEMMA RestOfConnections ==
  ASSUME TypeOK, PipeInv(Pipe), event \in WSEvents, event' = NoEvent,
         UNCHANGED <<events_, handler, conn>>,
         \A c \in Connections :
           c # event.connection => (c \in connections_' <=> c \in connections_),
         event.event_type = "SUBSCRIBE" => event.connection \in connections_',
         event.event_type = "UNSUBSCRIBE" => event.connection \notin connections_',
         event.event_type = "MESSAGE" =>
           (event.connection \in connections_' <=> event.connection \in connections_)
  PROVE  ConnectionInv(Pipe)'
<1> SUFFICES ASSUME NEW c \in Connections PROVE Stands(Pipe, c)'
  BY DEF ConnectionInv
<1>1. Stands(Pipe, c)
  BY DEF PipeInv, ConnectionInv
<1>2. /\ Has(Pipe, "SUBSCRIBE", c) <=> IsEvent(event, "SUBSCRIBE", c) \/ Has(Pipe, "SUBSCRIBE", c)'
      /\ Has(Pipe, "UNSUBSCRIBE", c) <=>
           IsEvent(event, "UNSUBSCRIBE", c) \/ Has(Pipe, "UNSUBSCRIBE", c)'
      /\ Has(Pipe, "MESSAGE", c) <=> IsEvent(event, "MESSAGE", c) \/ Has(Pipe, "MESSAGE", c)'
  BY RestOfPipe
<1>3. event.event_type \in {"SUBSCRIBE", "UNSUBSCRIBE", "MESSAGE"}
  BY DEF WSEvents
<1>4. /\ Len(Pipe) \in Nat /\ Len(Pipe') \in Nat
      /\ 1 \in 1..Len(Pipe) /\ Pipe[1] = event
  BY RestOfPipe
<1>5. \A i \in 1..Len(Pipe') : i + 1 \in 1..Len(Pipe) /\ Pipe'[i] = Pipe[i + 1]
  BY RestOfPipe
<1>6. CASE c # event.connection
  <2>1. conn[c] = "none" => \A i \in 1..Len(Pipe') : Pipe'[i].connection # c
    BY <1>1, <1>5 DEF Stands
  <2>2. QED
    BY <1>1, <1>2, <1>6, <2>1 DEF Stands, IsEvent
<1>7. CASE c = event.connection
  <2>1. conn[c] # "none"
    BY <1>1, <1>4, <1>7 DEF Stands
  <2>2. CASE event.event_type = "SUBSCRIBE"
    BY <1>1, <1>2, <1>7, <2>1, <2>2 DEF Stands, IsEvent
  <2>3. CASE event.event_type = "UNSUBSCRIBE"
    <3>1. conn[c] = "closed" /\ LastOf(Pipe, 1)
      BY <1>4, <1>7, <2>3 DEF PipeInv, UnsubscribeInv
    <3>2. \A i \in 1..Len(Pipe') : Pipe'[i].connection # c
      <4>1. ASSUME NEW i \in 1..Len(Pipe'), Pipe'[i].connection = c PROVE FALSE
        <5>1. i + 1 \in 1..Len(Pipe) /\ Pipe[i + 1].connection = Pipe[1].connection
          BY <1>4, <1>5, <1>7, <4>1
        <5>2. i + 1 <= 1
          BY <3>1, <5>1 DEF LastOf
        <5>3. QED
          BY <1>4, <5>2
      <4>2. QED
        BY <4>1
    <3>3. ~Has(Pipe, "SUBSCRIBE", c)' /\ ~Has(Pipe, "MESSAGE", c)'
      BY <3>2 DEF Has, IsEvent
    <3>4. QED
      BY <1>7, <2>3, <3>1, <3>3 DEF Stands
  <2>4. CASE event.event_type = "MESSAGE"
    BY <1>1, <1>2, <1>7, <2>1, <2>4 DEF Stands, IsEvent
  <2>5. QED
    BY <1>3, <2>2, <2>3, <2>4
<1>8. QED
  BY <1>6, <1>7

\* The first event of a connection is its SUBSCRIBE.
LEMMA SubscribePipe ==
  ASSUME TypeOK, PipeInv(Pipe), Subscribe
  PROVE  PipeInv(Pipe)'
<1>1. event \in WSEvents
  BY EventIsSome DEF TypeOK, Subscribe
<1>2. event' = NoEvent /\ UNCHANGED <<events_, handler>>
  BY DEF Subscribe
<1>3. /\ event.event_type = "SUBSCRIBE" /\ connections_' = connections_ \cup {event.connection}
      /\ UNCHANGED <<conn, arrived, handled>>
  BY DEF Subscribe, ioVars
<1>4. /\ Len(Pipe) \in Nat /\ Len(Pipe') \in Nat
      /\ 1 \in 1..Len(Pipe) /\ Pipe[1] = event
  BY <1>1, <1>2, RestOfPipe
<1>5. \A i \in 1..Len(Pipe') : i + 1 \in 1..Len(Pipe) /\ Pipe'[i] = Pipe[i + 1]
  BY <1>1, <1>2, RestOfPipe
<1>6. \A i \in 1..Len(Pipe') :
        /\ FirstOf(Pipe, i + 1) => FirstOf(Pipe', i)
        /\ LastOf(Pipe, i + 1) => LastOf(Pipe', i)
  BY <1>1, <1>2, RestOfPipe
<1>7. SubscribeInv(Pipe)'
  <2>1. ASSUME NEW i \in 1..Len(Pipe'), Pipe'[i].event_type = "SUBSCRIBE"
        PROVE  /\ Pipe'[i] = WSEvent("SUBSCRIBE", Pipe'[i].connection)
               /\ Pipe'[i].connection \notin connections_'
               /\ FirstOf(Pipe', i)
    <3>1. i + 1 \in 1..Len(Pipe) /\ Pipe'[i] = Pipe[i + 1]
      BY <1>5
    <3>2. /\ Pipe[i + 1] = WSEvent("SUBSCRIBE", Pipe[i + 1].connection)
          /\ Pipe[i + 1].connection \notin connections_ /\ FirstOf(Pipe, i + 1)
      BY <2>1, <3>1 DEF PipeInv, SubscribeInv
    <3>3. Pipe[i + 1].connection = Pipe[1].connection => i + 1 <= 1
      BY <1>4, <3>2 DEF FirstOf
    <3>4. ~(i + 1 <= 1)
      BY <1>4
    <3>5. QED
      BY <1>3, <1>4, <1>6, <3>1, <3>2, <3>3, <3>4
  <2>2. QED
    BY <2>1 DEF SubscribeInv
<1>8. UnsubscribeInv(Pipe)'
  BY <1>3, <1>4, <1>5, <1>6 DEF PipeInv, UnsubscribeInv
<1>9. ConnectionInv(Pipe)'
  BY <1>1, <1>2, <1>3, RestOfConnections
<1>10. MessageInv(Pipe)'
  BY <1>1, <1>2, <1>3, RestOfMessages DEF PipeInv, IsEvent
<1>11. QED
  BY <1>7, <1>8, <1>9, <1>10 DEF PipeInv

\* Nothing of a connection comes after its UNSUBSCRIBE.
LEMMA UnsubscribePipe ==
  ASSUME TypeOK, PipeInv(Pipe), Unsubscribe
  PROVE  PipeInv(Pipe)'
<1>1. event \in WSEvents
  BY EventIsSome DEF TypeOK, Unsubscribe
<1>2. event' = NoEvent /\ UNCHANGED <<events_, handler>>
  BY DEF Unsubscribe
<1>3. /\ event.event_type = "UNSUBSCRIBE" /\ connections_' = connections_ \ {event.connection}
      /\ UNCHANGED <<conn, arrived, handled>>
  BY DEF Unsubscribe, ioVars
<1>4. \A i \in 1..Len(Pipe') : i + 1 \in 1..Len(Pipe) /\ Pipe'[i] = Pipe[i + 1]
  BY <1>1, <1>2, RestOfPipe
<1>5. \A i \in 1..Len(Pipe') :
        /\ FirstOf(Pipe, i + 1) => FirstOf(Pipe', i)
        /\ LastOf(Pipe, i + 1) => LastOf(Pipe', i)
  BY <1>1, <1>2, RestOfPipe
<1>6. SubscribeInv(Pipe)'
  BY <1>3, <1>4, <1>5 DEF PipeInv, SubscribeInv
<1>7. UnsubscribeInv(Pipe)'
  BY <1>3, <1>4, <1>5 DEF PipeInv, UnsubscribeInv
<1>8. ConnectionInv(Pipe)'
  BY <1>1, <1>2, <1>3, RestOfConnections
<1>9. MessageInv(Pipe)'
  BY <1>1, <1>2, <1>3, RestOfMessages DEF PipeInv, IsEvent
<1>10. QED
  BY <1>6, <1>7, <1>8, <1>9 DEF PipeInv

\* An event that is with the event thread is the first of all.
LEMMA EventIsFirst ==
  ASSUME TypeOK, event \in WSEvents
  PROVE  1 \in 1..Len(Pipe) /\ Pipe[1] = event
<1>1. Pipe = <<event>> \o (events_ \o One(handler))
  BY EventIsSome DEF Pipe, One
<1>2. events_ \o One(handler) \in Seq(WSEvents)
  <2>1. events_ \in Seq(WSEvents) /\ One(handler) \in Seq(WSEvents)
    BY DEF TypeOK, One
  <2>2. QED
    BY <2>1, ConcatProperties
<1>3. <<event>> \in Seq(WSEvents) /\ Len(<<event>>) = 1 /\ <<event>>[1] = event
  OBVIOUS
<1> DEFINE rest == events_ \o One(handler)
<1> HIDE DEF rest
<1>4. /\ Len(<<event>> \o rest) = Len(<<event>>) + Len(rest)
      /\ \A i \in 1..Len(<<event>>) + Len(rest) : (<<event>> \o rest)[i] =
           IF i <= Len(<<event>>) THEN <<event>>[i] ELSE rest[i - Len(<<event>>)]
  BY <1>2, <1>3, ConcatProperties, Zenon DEF rest
<1>5. Len(rest) \in Nat
  BY <1>2, LenProperties DEF rest
<1>6. Pipe = <<event>> \o rest
  BY <1>1 DEF rest
<1>7. QED
  BY <1>3, <1>4, <1>5, <1>6

\* The first message of a connection is the one after the last that was handled, and
\* the connection is registered.
LEMMA FirstMessage ==
  ASSUME TypeOK, PipeInv(Pipe), event.event_type = "MESSAGE"
  PROVE  /\ event.connection \in connections_
         /\ event.message = handled[event.connection] + 1
<1>1. event \in WSEvents
  BY EventIsSome DEF TypeOK
<1> DEFINE c == event.connection
           m == event.message
<1>2. c \in Connections /\ m \in Nat /\ handled[c] \in Nat /\ arrived[c] \in Nat
  BY <1>1 DEF TypeOK, WSEvents
<1>3. 1 \in 1..Len(Pipe) /\ Pipe[1] = event
  BY <1>1, EventIsFirst
<1>4. c \in connections_
  <2>1. Has(Pipe, "MESSAGE", c)
    BY <1>3 DEF Has, IsEvent
  <2>2. c \in connections_ \/ Has(Pipe, "SUBSCRIBE", c)
    BY <1>2, <2>1 DEF PipeInv, ConnectionInv, Stands
  <2>3. ASSUME NEW i \in 1..Len(Pipe), IsEvent(Pipe[i], "SUBSCRIBE", c) PROVE FALSE
    <3>1. FirstOf(Pipe, i)
      BY <2>3 DEF PipeInv, SubscribeInv, IsEvent
    <3>2. i <= 1
      BY <1>3, <2>3, <3>1 DEF FirstOf, IsEvent
    <3>3. i = 1
      BY <3>2
    <3>4. QED
      BY <1>3, <2>3, <3>3 DEF IsEvent
  <2>4. QED
    BY <2>2, <2>3 DEF Has
<1>5. m = handled[c] + 1
  <2>1. handled[c] < m /\ m <= arrived[c]
    BY <1>3 DEF PipeInv, MessageInv
  <2>2. handled[c] + 1 \in 1..arrived[c] /\ handled[c] < handled[c] + 1
    BY <1>2, <2>1
  <2>3. PICK i \in 1..Len(Pipe) :
          IsEvent(Pipe[i], "MESSAGE", c) /\ Pipe[i].message = handled[c] + 1
    BY <1>2, <2>2 DEF PipeInv, MessageInv
  <2>4. 1 < i => m < handled[c] + 1
    <3>1. IsEvent(Pipe[i], "MESSAGE", Pipe[1].connection) /\ Pipe[1].event_type = "MESSAGE"
      BY <1>3, <2>3
    <3>2. 1 < i => Pipe[1].message < Pipe[i].message
      BY <1>3, <3>1 DEF PipeInv, MessageInv
    <3>3. QED
      BY <1>3, <2>3, <3>2
  <2>5. i = 1 \/ 1 < i
    OBVIOUS
  <2>6. QED
    BY <1>2, <1>3, <2>1, <2>3, <2>4, <2>5
<1>6. QED
  BY <1>4, <1>5

\* Handling a message takes the oldest of its sender off the line.
LEMMA HandleMessagePipe ==
  ASSUME TypeOK, PipeInv(Pipe), HandleMessage
  PROVE  PipeInv(Pipe)'
<1>1. event \in WSEvents
  BY EventIsSome DEF TypeOK, HandleMessage
<1>2. event' = NoEvent /\ UNCHANGED <<events_, handler>>
  BY DEF HandleMessage
<1>3. /\ event.event_type = "MESSAGE"
      /\ handled' = [handled EXCEPT ![event.connection] = event.message]
      /\ UNCHANGED <<conn, arrived, connections_>>
  BY DEF HandleMessage, ioVars
<1>4. \A i \in 1..Len(Pipe') : i + 1 \in 1..Len(Pipe) /\ Pipe'[i] = Pipe[i + 1]
  BY <1>1, <1>2, RestOfPipe
<1>5. \A i \in 1..Len(Pipe') :
        /\ FirstOf(Pipe, i + 1) => FirstOf(Pipe', i)
        /\ LastOf(Pipe, i + 1) => LastOf(Pipe', i)
  BY <1>1, <1>2, RestOfPipe
<1>6. SubscribeInv(Pipe)'
  BY <1>3, <1>4, <1>5 DEF PipeInv, SubscribeInv
<1>7. UnsubscribeInv(Pipe)'
  BY <1>3, <1>4, <1>5 DEF PipeInv, UnsubscribeInv
<1>8. ConnectionInv(Pipe)'
  BY <1>1, <1>2, <1>3, RestOfConnections
<1>9. MessageInv(Pipe)'
  <2>1. \A c \in Connections : handled'[c] =
          IF IsEvent(event, "MESSAGE", c) THEN event.message ELSE handled[c]
    BY <1>3 DEF IsEvent, TypeOK
  <2>2. QED
    BY <1>1, <1>2, <1>3, <2>1, RestOfMessages DEF PipeInv
<1>10. QED
  BY <1>6, <1>7, <1>8, <1>9 DEF PipeInv

\* Every step keeps what is said of the line.
LEMMA PipeStep == TypeOK /\ PipeInv(Pipe) /\ [Next]_vars => PipeInv(Pipe)'
<1> SUFFICES ASSUME TypeOK, PipeInv(Pipe), [Next]_vars PROVE PipeInv(Pipe)'
  OBVIOUS
<1>1. ASSUME Pipe' = Pipe, UNCHANGED <<conn, arrived, connections_, handled>>
      PROVE  PipeInv(Pipe)'
  BY <1>1 DEF PipeInv, SubscribeInv, UnsubscribeInv, ConnectionInv, Stands, MessageInv, Has
<1>2. ASSUME NEW c \in Connections, Handshake(c) \/ Receive(c) \/ BeginClose(c) \/ Close(c)
      PROVE  PipeInv(Pipe)'
  BY <1>2, HandshakePipe, ReceivePipe, BeginClosePipe, ClosePipe
<1>3. CASE PushNewEvent
  <2>1. UNCHANGED <<conn, arrived, connections_, handled>>
    BY <1>3 DEF PushNewEvent, ioVars, eventVars
  <2>2. QED
    BY <1>1, <1>3, <2>1, EventPushed
<1>4. CASE TakeEvent
  <2>1. UNCHANGED <<conn, arrived, connections_, handled>>
    BY <1>4 DEF TakeEvent, ioVars
  <2>2. QED
    BY <1>1, <1>4, <2>1, EventTaken
<1>5. CASE Subscribe \/ Unsubscribe \/ HandleMessage
  BY <1>5, SubscribePipe, UnsubscribePipe, HandleMessagePipe
<1>6. CASE Run \/ Broadcast \/ UNCHANGED vars
  <2>1. /\ UNCHANGED <<conn, arrived, connections_, handled>>
        /\ UNCHANGED <<handler, events_, event>>
    BY <1>6 DEF Run, Broadcast, ConvertSimData, BeginBroadcast, Send, EndBroadcast, vars,
                ioVars, eventVars
  <2>2. Pipe' = Pipe
    BY <2>1 DEF Pipe, One
  <2>3. QED
    BY <1>1, <2>1, <2>2
<1>7. QED
  BY <1>2, <1>3, <1>4, <1>5, <1>6 DEF Next, ProcessEvents

\* The registry does not change under the loop of Broadcast, and a connection that is
\* new while it runs is not registered yet.
LEMMA FrameStep == TypeOK /\ PipeInv(Pipe) /\ FrameInv /\ [Next]_vars => FrameInv'
<1> SUFFICES ASSUME TypeOK, PipeInv(Pipe), FrameInv, [Next]_vars PROVE FrameInv'
  OBVIOUS
<1> USE DEF FrameInv
<1>1. ASSUME NEW c \in Connections, Handshake(c) PROVE FrameInv'
  <2>1. c \notin connections_
    BY <1>1 DEF Handshake, PipeInv, ConnectionInv, Stands
  <2>2. QED
    BY <1>1, <2>1 DEF Handshake, eventVars, broadcastVars, TypeOK
<1>2. ASSUME NEW c \in Connections, Receive(c) \/ BeginClose(c) \/ Close(c) PROVE FrameInv'
  BY <1>2 DEF Receive, BeginClose, Close, eventVars, broadcastVars, TypeOK
<1>3. CASE Run \/ PushNewEvent \/ TakeEvent \/ HandleMessage
  BY <1>3 DEF Run, PushNewEvent, TakeEvent, HandleMessage, ioVars, eventVars, broadcastVars
<1>4. CASE Subscribe \/ Unsubscribe
  BY <1>4 DEF Subscribe, Unsubscribe, ConnectionsLockFree, broadcastVars
<1>5. CASE ConvertSimData \/ BeginBroadcast \/ EndBroadcast
  BY <1>5 DEF ConvertSimData, BeginBroadcast, EndBroadcast, ioVars, eventVars
<1>6. ASSUME NEW c \in Connections, Send(c) PROVE FrameInv'
  BY <1>6 DEF Send, ioVars, eventVars, TypeOK
<1>7. CASE UNCHANGED vars
  BY <1>7 DEF vars, ioVars, eventVars, broadcastVars
<1>8. QED
  BY <1>1, <1>2, <1>3, <1>4, <1>5, <1>6, <1>7 DEF Next, ProcessEvents, Broadcast

\* Broadcast lets go of the lock when its loop has come to every connection.
LEMMA RoundStep == RoundInv /\ [Next]_vars => RoundInv'
<1> SUFFICES ASSUME RoundInv, [Next]_vars PROVE RoundInv'
  OBVIOUS
<1> USE DEF RoundInv
<1>1. CASE Broadcast
  BY <1>1 DEF Broadcast, ConvertSimData, BeginBroadcast, Send, EndBroadcast
<1>2. CASE UNCHANGED broadcastVars
  BY <1>2 DEF broadcastVars
<1>3. ASSUME NEW c \in Connections, Handshake(c) \/ Receive(c) \/ BeginClose(c) \/ Close(c)
      PROVE  RoundInv'
  BY <1>2, <1>3 DEF Handshake, Receive, BeginClose, Close
<1>4. CASE Run \/ PushNewEvent \/ ProcessEvents \/ UNCHANGED vars
  BY <1>2, <1>4 DEF Run, PushNewEvent, ProcessEvents, TakeEvent, Subscribe, Unsubscribe,
                    HandleMessage, vars
<1>5. QED
  BY <1>1, <1>3, <1>4 DEF Next

\* The invariant holds, for any clients and any order of the three threads' steps.
THEOREM ServerInvariant == Spec => []Inv
<1>1. Init => Inv
  BY InitTypeOK, InitPipe DEF Inv, FrameInv, RoundInv, Init
<1>2. Inv /\ [Next]_vars => Inv'
  BY TypeStep, PipeStep, FrameStep, RoundStep DEF Inv
<1>3. QED
  BY <1>1, <1>2, PTL DEF Spec

-----------------------------------------------------------------------------
(* What the server promises. *)

\* An event of the line is with the event thread, on the queue or with a handler.
LEMMA EventOfPipe ==
  ASSUME TypeOK, NEW i \in 1..Len(Pipe)
  PROVE  Pending(Pipe[i])
<1> DEFINE rest == events_ \o One(handler)
<1>1. One(event) \in Seq(WSEvents) /\ events_ \in Seq(WSEvents) /\ One(handler) \in Seq(WSEvents)
  BY DEF TypeOK, One
<1>2. /\ Len(One(event)) \in Nat /\ Len(events_) \in Nat /\ Len(One(handler)) \in Nat
      /\ \A k \in 1..Len(One(event)) : One(event)[k] = event
      /\ \A k \in 1..Len(One(handler)) : One(handler)[k] = handler
  BY <1>1, LenProperties DEF One
<1>3. /\ rest \in Seq(WSEvents)
      /\ Len(rest) = Len(events_) + Len(One(handler))
      /\ \A k \in 1..Len(events_) + Len(One(handler)) :
           rest[k] = IF k <= Len(events_) THEN events_[k] ELSE One(handler)[k - Len(events_)]
  BY <1>1, ConcatProperties, Zenon
<1> HIDE DEF rest
<1>4. /\ Len(One(event) \o rest) = Len(One(event)) + Len(rest)
      /\ \A k \in 1..Len(One(event)) + Len(rest) : (One(event) \o rest)[k] =
           IF k <= Len(One(event)) THEN One(event)[k] ELSE rest[k - Len(One(event))]
  <2>1. One(event) \in Seq(WSEvents) /\ rest \in Seq(WSEvents)
    BY <1>1, <1>3
  <2>2. QED
    BY <2>1, ConcatProperties, Zenon
<1>5. Pipe = One(event) \o rest
  BY DEF Pipe, rest
<1>6. CASE i <= Len(One(event))
  <2>1. Pipe[i] = event
    BY <1>2, <1>3, <1>4, <1>5, <1>6
  <2>2. QED
    BY <2>1 DEF Pending
<1>7. CASE ~(i <= Len(One(event)))
  <2> DEFINE k == i - Len(One(event))
  <2>1. k \in 1..Len(events_) + Len(One(handler)) /\ Pipe[i] = rest[k]
    BY <1>2, <1>3, <1>4, <1>5, <1>7
  <2> HIDE DEF k
  <2>2. CASE k <= Len(events_)
    BY <1>2, <1>3, <2>1, <2>2 DEF Pending
  <2>3. CASE ~(k <= Len(events_))
    <3>1. k - Len(events_) \in 1..Len(One(handler))
      BY <1>2, <2>1, <2>3
    <3>2. Pipe[i] = handler
      BY <1>2, <1>3, <2>1, <2>3, <3>1
    <3>3. QED
      BY <3>2 DEF Pending
  <2>4. QED
    BY <2>2, <2>3
<1>8. QED
  BY <1>6, <1>7

\* Whatever the order in which clients come, send and go and the three threads run, the
\* registry is what it should be but for changes that are on their way: no client is left
\* out, and none stays for good.
THEOREM RegistryFollows == Spec => []RegistryFollowsConnections
<1>1. Inv => RegistryFollowsConnections
  <2> SUFFICES ASSUME Inv, NEW c \in Connections
               PROVE  /\ c \in connections_ /\ conn[c] \in {"none", "closed"} =>
                           Pending(WSEvent("UNSUBSCRIBE", c))
                      /\ c \notin connections_ /\ conn[c] \in {"open", "closing"} =>
                           Pending(WSEvent("SUBSCRIBE", c))
    BY DEF RegistryFollowsConnections
  <2>1. TypeOK /\ SubscribeInv(Pipe) /\ UnsubscribeInv(Pipe) /\ Stands(Pipe, c)
    BY DEF Inv, PipeInv, ConnectionInv
  <2>2. Has(Pipe, "UNSUBSCRIBE", c) => Pending(WSEvent("UNSUBSCRIBE", c))
    BY <2>1, EventOfPipe DEF Has, IsEvent, UnsubscribeInv
  <2>3. Has(Pipe, "SUBSCRIBE", c) => Pending(WSEvent("SUBSCRIBE", c))
    BY <2>1, EventOfPipe DEF Has, IsEvent, SubscribeInv
  <2>4. QED
    BY <2>1, <2>2, <2>3 DEF Stands
<1>2. QED
  BY <1>1, ServerInvariant, PTL

\* One client that fails does not keep a frame from the others.
THEOREM FrameReachesEveryone == Spec => []FrameReachesAll
<1>1. Inv => FrameReachesAll
  BY DEF Inv, FrameInv, FrameReachesAll
<1>2. QED
  BY <1>1, ServerInvariant, PTL

-----------------------------------------------------------------------------
(* The refinement of ClientSessions. *)

InQueue(e, s) == \E i \in 1..Len(s) : s[i] = e

\* What is added to a queue is in it, with what was there.
LEMMA InAppended ==
  ASSUME NEW S, NEW s \in Seq(S), NEW x \in S, NEW e
  PROVE  InQueue(e, Append(s, x)) <=> InQueue(e, s) \/ x = e
<1> DEFINE t == Append(s, x)
<1>1. /\ Len(s) \in Nat /\ Len(t) = Len(s) + 1 /\ t[Len(s) + 1] = x
      /\ \A i \in 1..Len(s) : t[i] = s[i]
  BY AppendProperties, LenProperties
<1> HIDE DEF t
<1>2. 1..Len(t) = (1..Len(s)) \cup {Len(s) + 1}
  BY <1>1
<1>3. QED
  BY <1>1, <1>2, Zenon DEF InQueue, t

\* What is in a queue is its head or in the rest of it.
LEMMA InTaken ==
  ASSUME NEW S, NEW s \in Seq(S), s # <<>>, NEW e
  PROVE  InQueue(e, s) <=> Head(s) = e \/ InQueue(e, Tail(s))
<1> DEFINE t == Tail(s)
<1>1. /\ Len(s) \in Nat \ {0} /\ Len(t) = Len(s) - 1 /\ Head(s) = s[1]
      /\ \A i \in 1..Len(t) : t[i] = s[i + 1]
  BY HeadTailProperties, LenProperties, EmptySeq
<1> HIDE DEF t
<1>2. ASSUME InQueue(e, s) PROVE Head(s) = e \/ InQueue(e, t)
  <2>1. PICK i \in 1..Len(s) : s[i] = e
    BY <1>2 DEF InQueue
  <2>2. CASE i = 1
    BY <1>1, <2>1, <2>2
  <2>3. CASE i # 1
    <3>1. i - 1 \in 1..Len(t) /\ t[i - 1] = s[i]
      BY <1>1, <2>1, <2>3
    <3>2. QED
      BY <2>1, <3>1 DEF InQueue
  <2>4. QED
    BY <2>2, <2>3
<1>3. ASSUME Head(s) = e PROVE InQueue(e, s)
  <2>1. 1 \in 1..Len(s) /\ s[1] = e
    BY <1>1, <1>3
  <2>2. QED
    BY <2>1 DEF InQueue
<1>4. ASSUME InQueue(e, t) PROVE InQueue(e, s)
  <2>1. PICK i \in 1..Len(t) : t[i] = e
    BY <1>4 DEF InQueue
  <2>2. i + 1 \in 1..Len(s) /\ s[i + 1] = e
    BY <1>1, <2>1
  <2>3. QED
    BY <2>2 DEF InQueue
<1>5. QED
  BY <1>2, <1>3, <1>4 DEF t

\* An event with the event thread, on the queue or with a handler is on the line.
LEMMA PendingIsInPipe ==
  ASSUME TypeOK, NEW e \in WSEvents, Pending(e)
  PROVE  \E i \in 1..Len(Pipe) : Pipe[i] = e
<1> DEFINE rest == events_ \o One(handler)
<1>1. One(event) \in Seq(WSEvents) /\ events_ \in Seq(WSEvents) /\ One(handler) \in Seq(WSEvents)
  BY DEF TypeOK, One
<1>2. Len(One(event)) \in Nat /\ Len(events_) \in Nat /\ Len(One(handler)) \in Nat
  BY <1>1, LenProperties
<1>3. /\ rest \in Seq(WSEvents)
      /\ Len(rest) = Len(events_) + Len(One(handler))
      /\ \A k \in 1..Len(events_) + Len(One(handler)) :
           rest[k] = IF k <= Len(events_) THEN events_[k] ELSE One(handler)[k - Len(events_)]
  BY <1>1, ConcatProperties, Zenon
<1> HIDE DEF rest
<1>4. /\ Len(Pipe) = Len(One(event)) + Len(rest)
      /\ \A k \in 1..Len(One(event)) + Len(rest) : Pipe[k] =
           IF k <= Len(One(event)) THEN One(event)[k] ELSE rest[k - Len(One(event))]
  <2>1. One(event) \in Seq(WSEvents) /\ rest \in Seq(WSEvents)
    BY <1>1, <1>3
  <2>2. Pipe = One(event) \o rest
    BY DEF Pipe, rest
  <2>3. QED
    BY <2>1, <2>2, ConcatProperties, Zenon
<1>5. ASSUME NEW k \in 1..Len(rest), rest[k] = e PROVE \E i \in 1..Len(Pipe) : Pipe[i] = e
  <2>1. /\ Len(One(event)) + k \in 1..Len(One(event)) + Len(rest)
        /\ ~(Len(One(event)) + k <= Len(One(event)))
        /\ Len(One(event)) + k - Len(One(event)) = k
    BY <1>2, <1>3, <1>5
  <2>2. Pipe[Len(One(event)) + k] = e
    BY <1>4, <1>5, <2>1
  <2>3. QED
    BY <1>4, <2>1, <2>2
<1>6. CASE event = e
  BY <1>6, EventIsFirst
<1>7. CASE handler = e
  <2>1. One(handler) = <<e>>
    BY <1>7, EventIsSome DEF One
  <2>2. Len(One(handler)) = 1 /\ One(handler)[1] = e
    BY <2>1
  <2>3. /\ Len(events_) + 1 \in 1..Len(events_) + Len(One(handler))
        /\ ~(Len(events_) + 1 <= Len(events_)) /\ Len(events_) + 1 - Len(events_) = 1
    BY <1>2, <2>2
  <2>4. rest[Len(events_) + 1] = e
    BY <1>3, <2>2, <2>3
  <2>5. QED
    BY <1>3, <1>5, <2>3, <2>4
<1>8. CASE \E k \in 1..Len(events_) : events_[k] = e
  <2>1. PICK k \in 1..Len(events_) : events_[k] = e
    BY <1>8
  <2>2. k \in 1..Len(events_) + Len(One(handler)) /\ k <= Len(events_)
    BY <1>2, <2>1
  <2>3. rest[k] = e
    BY <1>3, <2>1, <2>2
  <2>4. QED
    BY <1>3, <1>5, <2>2, <2>3
<1>9. QED
  BY <1>6, <1>7, <1>8 DEF Pending

Subscription(c) == WSEvent("SUBSCRIBE", c)

\* A SUBSCRIBE is an event, and no other.
LEMMA SubscriptionIsEvent ==
  /\ \A c \in Connections : Subscription(c) \in WSEvents /\ Subscription(c) # NoEvent
  /\ \A c : Subscription(c).event_type = "SUBSCRIBE" /\ Subscription(c).connection = c
<1>1. \A c \in Connections : Subscription(c) \in WSEvents
  BY DEF Subscription, WSEvent, WSEvents
<1>2. \A c : Subscription(c).event_type = "SUBSCRIBE" /\ Subscription(c).connection = c
  BY DEF Subscription, WSEvent
<1>3. QED
  BY <1>1, <1>2, EventIsSome

\* The session of one client.
SessionOf(c) ==
  IF c \in connections_ THEN "begun"
  ELSE IF conn[c] = "closed" /\ ~Pending(Subscription(c)) THEN "ended"
  ELSE "none"

\* No session changes.
LEMMA SessionsKept ==
  ASSUME \A c \in Connections : SessionOf(c)' = SessionOf(c)
  PROVE  Session' = Session
BY DEF Session, SessionOf, Subscription

\* One session changes.
LEMMA SessionChanged ==
  ASSUME NEW c \in Connections, NEW s, SessionOf(c)' = s,
         \A d \in Connections \ {c} : SessionOf(d)' = SessionOf(d)
  PROVE  Session' = [Session EXCEPT ![c] = s]
BY DEF Session, SessionOf, Subscription

\* While connections and registry stay, sessions change with what is pending only.
LEMMA SessionsByPending ==
  ASSUME connections_' = connections_, conn' = conn,
         \A c \in Connections : Pending(Subscription(c))' <=> Pending(Subscription(c))
  PROVE  Session' = Session
<1>1. \A c \in Connections : SessionOf(c)' = SessionOf(c)
  BY DEF SessionOf, Subscription
<1>2. QED
  BY <1>1, SessionsKept

\* A SUBSCRIBE that is pending is on the line, and its client is not registered.
LEMMA SubscriptionPending ==
  ASSUME TypeOK, PipeInv(Pipe), NEW c \in Connections, Pending(Subscription(c))
  PROVE  Has(Pipe, "SUBSCRIBE", c) /\ c \notin connections_
<1>1. Subscription(c) \in WSEvents
  BY SubscriptionIsEvent
<1>2. PICK i \in 1..Len(Pipe) : Pipe[i] = Subscription(c)
  BY <1>1, PendingIsInPipe
<1>3. Pipe[i].event_type = "SUBSCRIBE" /\ Pipe[i].connection = c
  BY <1>2 DEF Subscription, WSEvent
<1>4. QED
  BY <1>2, <1>3 DEF Has, IsEvent, PipeInv, SubscribeInv

\* A SUBSCRIBE on the line is pending.
LEMMA SubscriptionOnTheLine ==
  ASSUME TypeOK, PipeInv(Pipe), NEW c \in Connections, Has(Pipe, "SUBSCRIBE", c)
  PROVE  Pending(Subscription(c))
BY EventOfPipe DEF Has, IsEvent, PipeInv, SubscribeInv, Subscription

\* A client comes: its session is still to begin.
LEMMA HandshakeConnects ==
  ASSUME TypeOK, NEW c \in Connections, Handshake(c)
  PROVE  CS!Connect(c)
<1>1. /\ conn[c] = "none" /\ conn' = [conn EXCEPT ![c] = "open"]
      /\ handler = NoEvent /\ handler' = Subscription(c)
      /\ UNCHANGED <<arrived, event, events_, connections_, handled>>
      /\ UNCHANGED broadcastVars
  BY DEF Handshake, eventVars, Subscription
<1>2. \A d \in Connections \ {c} : Subscription(c) # Subscription(d)
  BY DEF Subscription, WSEvent
<1>3. \A d \in Connections : Subscription(d) # NoEvent
  BY SubscriptionIsEvent
<1>4. \A d \in Connections \ {c} : Pending(Subscription(d))' <=> Pending(Subscription(d))
  BY <1>1, <1>2, <1>3 DEF Pending, Subscription, WSEvent
<1>5. \A d \in Connections : conn'[d] = "closed" <=> conn[d] = "closed"
  BY <1>1 DEF TypeOK
<1>6. conn'[c] # "closed"
  BY <1>1 DEF TypeOK
<1>7. \A d \in Connections : SessionOf(d)' = SessionOf(d)
  <2>1. SessionOf(c)' = SessionOf(c)
    BY <1>1, <1>5, <1>6 DEF SessionOf
  <2>2. \A d \in Connections \ {c} : SessionOf(d)' = SessionOf(d)
    BY <1>1, <1>4, <1>5 DEF SessionOf, Subscription
  <2>3. QED
    BY <2>1, <2>2
<1>8. Session' = Session
  BY <1>7, SessionsKept
<1>9. QED
  BY <1>1, <1>8 DEF CS!Connect, CS!sessionVars, CS!frameVars, broadcastVars

\* A message comes in.
LEMMA ReceiveArrives ==
  ASSUME TypeOK, NEW c \in Connections, Receive(c)
  PROVE  CS!Message(c)
<1>1. /\ conn[c] = "open" /\ arrived' = [arrived EXCEPT ![c] = @ + 1]
      /\ handler = NoEvent /\ handler' = Message(c, arrived[c] + 1)
      /\ UNCHANGED <<conn, event, events_, connections_, handled>>
      /\ UNCHANGED broadcastVars
  BY DEF Receive, eventVars
<1>2. \A d \in Connections : handler # Subscription(d) /\ handler' # Subscription(d)
  <2>1. handler'.event_type = "MESSAGE"
    BY <1>1 DEF Message
  <2>2. QED
    BY <1>1, <2>1, SubscriptionIsEvent
<1>3. \A d \in Connections : Pending(Subscription(d))' <=> Pending(Subscription(d))
  BY <1>1, <1>2 DEF Pending, Subscription, WSEvent
<1>4. Session' = Session
  BY <1>1, <1>3, SessionsByPending
<1>5. QED
  BY <1>1, <1>4 DEF CS!Message, CS!sessionVars, CS!frameVars, broadcastVars

\* A client leaves; one that has not been registered yet still will be.
LEMMA ClosingLeaves ==
  ASSUME TypeOK, PipeInv(Pipe), NEW c \in Connections, BeginClose(c) \/ Close(c)
  PROVE  CS!Leave(c)
<1>1. /\ conn[c] \in {"open", "closing"} /\ handler = NoEvent
      /\ UNCHANGED <<arrived, event, events_, connections_, handled>>
      /\ UNCHANGED broadcastVars
  BY DEF BeginClose, Close, eventVars
<1>2. \/ conn[c] = "open" /\ conn' = [conn EXCEPT ![c] = "closing"]
      \/ conn[c] \in {"open", "closing"} /\ conn' = [conn EXCEPT ![c] = "closed"]
  BY DEF BeginClose, Close
<1>3. handler' = NoEvent \/ handler' = WSEvent("UNSUBSCRIBE", c)
  BY DEF BeginClose, Close
<1>4. \A d \in Connections : handler # Subscription(d) /\ handler' # Subscription(d)
  <2>1. \A d \in Connections : Subscription(d) # WSEvent("UNSUBSCRIBE", c)
    BY DEF Subscription, WSEvent
  <2>2. QED
    BY <1>1, <1>3, <2>1, SubscriptionIsEvent
<1>5. \A d \in Connections : Pending(Subscription(d))' <=> Pending(Subscription(d))
  BY <1>1, <1>4 DEF Pending, Subscription, WSEvent
<1>6. c \in connections_ \/ Pending(Subscription(c))
  BY <1>1, SubscriptionOnTheLine DEF PipeInv, ConnectionInv, Stands
<1>7. \A d \in Connections \ {c} : conn'[d] = conn[d]
  BY <1>2 DEF TypeOK
<1>8. \A d \in Connections : SessionOf(d)' = SessionOf(d)
  <2>1. SessionOf(c)' = SessionOf(c)
    BY <1>1, <1>5, <1>6 DEF SessionOf, Subscription
  <2>2. \A d \in Connections \ {c} : SessionOf(d)' = SessionOf(d)
    BY <1>1, <1>5, <1>7 DEF SessionOf, Subscription
  <2>3. QED
    BY <2>1, <2>2
<1>9. Session' = Session
  BY <1>8, SessionsKept
<1>10. QED
  BY <1>1, <1>2, <1>9 DEF CS!Leave, CS!sessionVars, CS!frameVars, broadcastVars

\* What is pending stays so while it moves from handler to queue to event thread.
LEMMA MovingKeepsSessions ==
  ASSUME TypeOK, PushNewEvent \/ TakeEvent
  PROVE  UNCHANGED CS!vars
<1>1. UNCHANGED <<conn, arrived, connections_, handled, broadcastVars>>
  BY DEF PushNewEvent, TakeEvent, ioVars, eventVars
<1>2. ASSUME NEW d \in Connections
      PROVE  Pending(Subscription(d))' <=> Pending(Subscription(d))
  <2> DEFINE e == Subscription(d)
  <2>1. e # NoEvent
    BY SubscriptionIsEvent
  <2>2. /\ Pending(e) <=> handler = e \/ event = e \/ InQueue(e, events_)
        /\ Pending(e)' <=> handler' = e \/ event' = e \/ InQueue(e, events_')
    BY DEF Pending, InQueue, Subscription, WSEvent
  <2>3. events_ \in Seq(WSEvents)
    BY DEF TypeOK
  <2> HIDE DEF e
  <2>4. CASE PushNewEvent
    <3>1. /\ handler \in WSEvents /\ handler' = NoEvent /\ event' = event
          /\ events_' = Append(events_, handler)
      BY <2>4 DEF PushNewEvent, eventVars, TypeOK
    <3>2. InQueue(e, events_') <=> InQueue(e, events_) \/ handler = e
      BY <2>3, <3>1, InAppended
    <3>3. QED
      BY <2>1, <2>2, <3>1, <3>2 DEF e
  <2>5. CASE TakeEvent
    <3>1. /\ event = NoEvent /\ event' = Head(events_) /\ events_ # <<>>
          /\ events_' = Tail(events_) /\ handler' = handler
      BY <2>5 DEF TakeEvent
    <3>2. InQueue(e, events_) <=> Head(events_) = e \/ InQueue(e, events_')
      BY <2>3, <3>1, InTaken
    <3>3. QED
      BY <2>1, <2>2, <3>1, <3>2 DEF e
  <2>6. QED
    BY <2>4, <2>5
<1>3. Session' = Session
  BY <1>1, <1>2, SessionsByPending
<1>4. QED
  BY <1>1, <1>3
  DEF CS!vars, CS!clientVars, CS!sessionVars, CS!frameVars, broadcastVars

\* The event handled was pending and is no more; nothing else changes that is pending.
LEMMA EventDone ==
  ASSUME TypeOK, event' = NoEvent, UNCHANGED <<handler, events_>>,
         NEW c \in Connections, event # Subscription(c)
  PROVE  Pending(Subscription(c))' <=> Pending(Subscription(c))
BY SubscriptionIsEvent DEF Pending, Subscription, WSEvent

\* A session begins when the SUBSCRIBE is handled, between two rounds.
LEMMA SubscribeBegins ==
  ASSUME TypeOK, PipeInv(Pipe), RoundInv, Subscribe
  PROVE  \E c \in Connections : CS!Begin(c)
<1>1. event.event_type = "SUBSCRIBE" /\ event \in WSEvents
  BY EventIsSome DEF TypeOK, Subscribe
<1>2. PICK c \in Connections : c = event.connection
  BY <1>1 DEF WSEvents
<1>3. /\ broadcaster # "sending"
      /\ connections_' = connections_ \cup {c} /\ event' = NoEvent
      /\ UNCHANGED <<conn, arrived, handler, events_, handled>>
      /\ UNCHANGED broadcastVars
  BY <1>2 DEF Subscribe, ConnectionsLockFree, ioVars
<1>4. 1 \in 1..Len(Pipe) /\ Pipe[1] = event
  BY <1>1, EventIsFirst
<1>5. event = Subscription(c) /\ c \notin connections_
  BY <1>1, <1>2, <1>4 DEF PipeInv, SubscribeInv, Subscription
<1>6. conn[c] # "none"
  BY <1>2, <1>4 DEF PipeInv, ConnectionInv, Stands
<1>7. Session[c] = "none"
  <2>1. Pending(Subscription(c))
    BY <1>5 DEF Pending, Subscription
  <2>2. QED
    BY <1>2, <1>5, <2>1 DEF Session, Subscription
<1>8. \A d \in Connections \ {c} : SessionOf(d)' = SessionOf(d)
  <2> SUFFICES ASSUME NEW d \in Connections \ {c} PROVE SessionOf(d)' = SessionOf(d)
    OBVIOUS
  <2>1. event # Subscription(d)
    BY <1>5 DEF Subscription, WSEvent
  <2>2. Pending(Subscription(d))' <=> Pending(Subscription(d))
    BY <1>3, <2>1, EventDone
  <2>3. QED
    BY <1>3, <2>2 DEF SessionOf, Subscription
<1>9. Session' = [Session EXCEPT ![c] = "begun"]
  <2>1. SessionOf(c)' = "begun"
    BY <1>3 DEF SessionOf
  <2>2. QED
    BY <1>2, <1>8, <2>1, SessionChanged
<1>10. toSend = {}
  BY <1>3 DEF RoundInv
<1>11. CS!Begin(c)
  BY <1>3, <1>6, <1>7, <1>9, <1>10
  DEF CS!Begin, CS!clientVars, CS!frameVars, broadcastVars
<1>12. QED
  BY <1>2, <1>11

\* When its UNSUBSCRIBE comes to the front every message of a client was handled.
LEMMA NothingLeftOver ==
  ASSUME TypeOK, PipeInv(Pipe), event.event_type = "UNSUBSCRIBE"
  PROVE  /\ event \in WSEvents /\ event.connection \in Connections
         /\ conn[event.connection] = "closed"
         /\ handled[event.connection] = arrived[event.connection]
<1> DEFINE c == event.connection
<1>1. event \in WSEvents
  BY EventIsSome DEF TypeOK
<1>2. c \in Connections /\ handled[c] \in Nat /\ arrived[c] \in Nat
  BY <1>1 DEF WSEvents, TypeOK
<1>3. 1 \in 1..Len(Pipe) /\ Pipe[1] = event
  BY <1>1, EventIsFirst
<1>4. conn[c] = "closed" /\ LastOf(Pipe, 1)
  BY <1>3 DEF PipeInv, UnsubscribeInv
<1>5. handled[c] <= arrived[c]
  BY <1>2 DEF PipeInv, MessageInv
<1>6. ASSUME handled[c] < arrived[c] PROVE FALSE
  <2>1. arrived[c] \in 1..arrived[c]
    BY <1>2, <1>6
  <2>2. PICK i \in 1..Len(Pipe) : IsEvent(Pipe[i], "MESSAGE", c)
    BY <1>2, <1>6, <2>1 DEF PipeInv, MessageInv
  <2>3. i <= 1
    BY <1>3, <1>4, <2>2 DEF LastOf, IsEvent
  <2>4. i = 1
    BY <2>3
  <2>5. QED
    BY <1>3, <2>2, <2>4 DEF IsEvent
<1>7. QED
  BY <1>1, <1>2, <1>4, <1>5, <1>6

\* A session ends when the UNSUBSCRIBE is handled, between two rounds.
LEMMA UnsubscribeEnds ==
  ASSUME TypeOK, PipeInv(Pipe), RoundInv, Unsubscribe
  PROVE  (\E c \in Connections : CS!End(c)) \/ UNCHANGED CS!vars
<1>1. event.event_type = "UNSUBSCRIBE"
  BY DEF Unsubscribe
<1>2. PICK c \in Connections :
        c = event.connection /\ conn[c] = "closed" /\ handled[c] = arrived[c]
  BY <1>1, NothingLeftOver
<1>3. /\ broadcaster # "sending"
      /\ connections_' = connections_ \ {c} /\ event' = NoEvent
      /\ UNCHANGED <<conn, arrived, handler, events_, handled>>
      /\ UNCHANGED broadcastVars
  BY <1>2 DEF Unsubscribe, ConnectionsLockFree, ioVars
<1>4. \A d \in Connections : Pending(Subscription(d))' <=> Pending(Subscription(d))
  <2>1. \A d \in Connections : event # Subscription(d)
    BY <1>1 DEF Subscription, WSEvent
  <2>2. QED
    BY <1>3, <2>1, EventDone
<1>5. \A d \in Connections \ {c} : SessionOf(d)' = SessionOf(d)
  BY <1>3, <1>4 DEF SessionOf, Subscription
<1>6. CASE c \in connections_
  <2>1. ~Pending(Subscription(c))
    BY <1>2, <1>6, SubscriptionPending
  <2>2. SessionOf(c)' = "ended"
    BY <1>2, <1>3, <1>4, <2>1 DEF SessionOf, Subscription
  <2>3. Session' = [Session EXCEPT ![c] = "ended"]
    BY <1>2, <1>5, <2>2, SessionChanged
  <2>4. Session[c] = "begun"
    BY <1>2, <1>6 DEF Session
  <2>5. toSend = {}
    BY <1>3 DEF RoundInv
  <2>6. CS!End(c)
    BY <1>2, <1>3, <2>3, <2>4, <2>5
    DEF CS!End, CS!clientVars, CS!frameVars, broadcastVars
  <2>7. QED
    BY <1>2, <2>6
<1>7. CASE c \notin connections_
  <2>1. connections_' = connections_
    BY <1>3, <1>7
  <2>2. Session' = Session
    BY <1>3, <1>4, <2>1, SessionsByPending
  <2>3. QED
    BY <1>3, <2>2
    DEF CS!vars, CS!clientVars, CS!sessionVars, CS!frameVars, broadcastVars
<1>8. QED
  BY <1>6, <1>7

\* The next message of a client that has a session is handled.
LEMMA MessageHandled ==
  ASSUME TypeOK, PipeInv(Pipe), HandleMessage
  PROVE  \E c \in Connections : CS!Handle(c)
<1>1. event.event_type = "MESSAGE" /\ event \in WSEvents
  BY EventIsSome DEF TypeOK, HandleMessage
<1>2. PICK c \in Connections : c = event.connection
  BY <1>1 DEF WSEvents
<1>3. /\ event' = NoEvent /\ handled' = [handled EXCEPT ![c] = event.message]
      /\ UNCHANGED <<conn, arrived, handler, events_, connections_>>
      /\ UNCHANGED broadcastVars
  BY <1>2 DEF HandleMessage, ioVars
<1>4. c \in connections_ /\ event.message = handled[c] + 1
  BY <1>1, <1>2, FirstMessage
<1>5. handled[c] < arrived[c]
  <2>1. 1 \in 1..Len(Pipe) /\ Pipe[1] = event
    BY <1>1, EventIsFirst
  <2>2. handled[c] < event.message /\ event.message <= arrived[c]
    BY <1>1, <1>2, <2>1 DEF PipeInv, MessageInv
  <2>3. QED
    BY <1>4, <2>2 DEF TypeOK
<1>6. Session' = Session
  <2>1. \A d \in Connections : event # Subscription(d)
    BY <1>1 DEF Subscription, WSEvent
  <2>2. \A d \in Connections : Pending(Subscription(d))' <=> Pending(Subscription(d))
    BY <1>3, <2>1, EventDone
  <2>3. QED
    BY <1>3, <2>2, SessionsByPending
<1>7. Session[c] = "begun"
  BY <1>4 DEF Session
<1>8. CS!Handle(c)
  BY <1>3, <1>4, <1>5, <1>6, <1>7 DEF CS!Handle, CS!clientVars, CS!frameVars, broadcastVars
<1>9. QED
  BY <1>8

\* The broadcaster does what the rounds do; what it does leaves the sessions alone.
LEMMA BroadcastSends ==
  ASSUME TypeOK, RoundInv, Broadcast
  PROVE  [CS!Next]_CS!vars
<1>1. /\ UNCHANGED <<conn, arrived, handler, events_, event, connections_, handled>>
  BY DEF Broadcast, ConvertSimData, BeginBroadcast, Send, EndBroadcast, ioVars, eventVars
<1>2. Session' = Session
  <2>1. \A d \in Connections : Pending(Subscription(d))' <=> Pending(Subscription(d))
    BY <1>1 DEF Pending, Subscription, WSEvent
  <2>2. QED
    BY <1>1, <2>1, SessionsByPending
<1> USE DEF CS!clientVars, CS!sessionVars
<1>3. CASE ConvertSimData
  <2>1. /\ broadcaster = "sleep" /\ broadcaster' = "lock"
        /\ sim_data_' = IF sim_data_ = FrameCycle THEN 1 ELSE sim_data_ + 1
        /\ UNCHANGED <<toSend, last>> /\ toSend = {}
    BY <1>3 DEF ConvertSimData, NextFrame, RoundInv
  <2>2. CS!MakeFrame
    BY <1>1, <1>2, <2>1 DEF CS!MakeFrame
  <2>3. QED
    BY <2>2 DEF CS!Next
<1>4. CASE BeginBroadcast
  <2>1. /\ broadcaster = "lock" /\ broadcaster' = "sending" /\ toSend' = connections_
        /\ UNCHANGED <<sim_data_, last>>
    BY <1>4 DEF BeginBroadcast
  <2>2. connections_ = {c \in Connections : Session[c] = "begun"}
    BY DEF Session, TypeOK
  <2>3. CS!BeginRound
    BY <1>1, <1>2, <2>1, <2>2 DEF CS!BeginRound
  <2>4. QED
    BY <2>3 DEF CS!Next
<1>5. ASSUME NEW c \in Connections, Send(c) PROVE [CS!Next]_CS!vars
  <2>1. /\ c \in toSend /\ toSend' = toSend \ {c}
        /\ last' = IF conn[c] = "open" THEN [last EXCEPT ![c] = sim_data_] ELSE last
        /\ UNCHANGED <<sim_data_, broadcaster>>
    BY <1>5 DEF Send
  <2>2. CS!SendFrame(c)
    BY <1>1, <1>2, <2>1 DEF CS!SendFrame
  <2>3. QED
    BY <2>2 DEF CS!Next
<1>6. CASE EndBroadcast
  <2>1. /\ UNCHANGED <<sim_data_, toSend, last>>
        /\ (broadcaster = "lock")' = (broadcaster = "lock")
    BY <1>6 DEF EndBroadcast
  <2>2. QED
    BY <1>1, <1>2, <2>1 DEF CS!vars, CS!frameVars
<1>7. QED
  BY <1>3, <1>4, <1>5, <1>6 DEF Broadcast

\* The server implements ClientSessions, for any clients, messages and frames: however
\* its threads run, each client has one session with all of its messages, in order, and
\* each frame goes once to everybody who has a session when its round begins.
THEOREM RefinesClientSessions == Spec => ImplementsClientSessions
<1>1. Init => CS!Init
  <2> SUFFICES ASSUME Init PROVE CS!Init
    OBVIOUS
  <2>1. Session = [c \in Connections |-> "none"]
    BY DEF Init, Session
  <2>2. QED
    BY <2>1 DEF Init, CS!Init
<1>2. Inv /\ [Next]_vars => [CS!Next]_CS!vars
  <2> SUFFICES ASSUME Inv, [Next]_vars PROVE [CS!Next]_CS!vars
    OBVIOUS
  <2>1. TypeOK /\ PipeInv(Pipe) /\ RoundInv
    BY DEF Inv
  <2>2. ASSUME UNCHANGED <<conn, arrived, handler, events_, eventVars, broadcastVars>>
        PROVE  UNCHANGED CS!vars
    <3>1. \A d \in Connections : Pending(Subscription(d))' <=> Pending(Subscription(d))
      BY <2>2 DEF Pending, Subscription, WSEvent, eventVars
    <3>2. Session' = Session
      BY <2>2, <3>1, SessionsByPending DEF eventVars
    <3>3. QED
      BY <2>2, <3>2
      DEF CS!vars, CS!clientVars, CS!sessionVars, CS!frameVars, eventVars, broadcastVars
  <2>3. CASE Run \/ UNCHANGED vars
    BY <2>2, <2>3 DEF Run, vars, ioVars
  <2>4. ASSUME NEW c \in Connections, Handshake(c) \/ Receive(c) \/ BeginClose(c) \/ Close(c)
        PROVE  CS!Next
    <3>1. CS!Connect(c) \/ CS!Message(c) \/ CS!Leave(c)
      BY <2>1, <2>4, HandshakeConnects, ReceiveArrives, ClosingLeaves
    <3>2. QED
      BY <3>1 DEF CS!Next
  <2>5. CASE PushNewEvent \/ TakeEvent
    BY <2>1, <2>5, MovingKeepsSessions
  <2>6. CASE Subscribe
    BY <2>1, <2>6, SubscribeBegins DEF CS!Next
  <2>7. CASE Unsubscribe
    BY <2>1, <2>7, UnsubscribeEnds DEF CS!Next
  <2>8. CASE HandleMessage
    BY <2>1, <2>8, MessageHandled DEF CS!Next
  <2>9. CASE Broadcast
    BY <2>1, <2>9, BroadcastSends
  <2>10. QED
    BY <2>3, <2>4, <2>5, <2>6, <2>7, <2>8, <2>9 DEF Next, ProcessEvents
<1>3. QED
  BY <1>1, <1>2, ServerInvariant, PTL DEF Spec, CS!Spec, ImplementsClientSessions

=============================================================================
