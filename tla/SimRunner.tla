------------------------------- MODULE SimRunner -------------------------------
(***************************************************************************)
(* The rewrite of the link to the simulator: SimRunnerImpl of sim_runner/, *)
(* which owns a SimBridge (sim_bridge/) and drives a DataReader            *)
(* (data_reader/) and its own stop handler through a                       *)
(* GroupedDispatchHandler.                                                 *)
(*                                                                         *)
(* The owner's thread creates the runner, calls Init and Run, again if it  *)
(* likes; another thread may call Stop, but not before there is a          *)
(* notification.  SimConnect is external: any call may fail, any message   *)
(* may come or not.                                                        *)
(*                                                                         *)
(* Use of a dead object, a write past a buffer and a second Notify of an   *)
(* absl::Notification end in pc = "crashed" or go unnoticed.               *)
(***************************************************************************)
EXTENDS Naturals

CONSTANTS
  NumDefinitions,  \* the entries of SimVarDefs, all of one length
  MaxSessions,     \* bound: sessions opened
  MaxRuns,         \* bound: calls of Run
  MaxStops         \* bound: calls of Stop by the other thread

ASSUME RunnerAssumption ==
  /\ NumDefinitions \in Nat \ {0}
  /\ MaxSessions \in Nat /\ MaxRuns \in Nat /\ MaxStops \in Nat

VARIABLES
  \* the thread of the owner
  pc,             \* where it is, "crashed" when the process is
  message,        \* what CallDispatch delivered last
  \* the members of SimRunnerImpl, DataReaderImpl and SimBridgeImpl
  connected_,
  dispatcher,     \* who owns the dispatcher of reader_: "caller" or "nobody"
  data_length_,   \* in definitions
  notification,   \* stop_notification_: the number of the object, 0 for null
  notified,       \* whether that object has been notified
  hSimConnect_,   \* the number of the session, 0 for NULL
  \* SimConnect
  session,        \* what it knows of the last session
  open,           \* the sessions opened and not closed
  \* the other thread
  stopper,        \* the notification that Stop has looked up, 0 outside of Stop
  stops,          \* calls of Stop so far
  \* history
  registrations,  \* calls of RegisterDataDef so far
  stopRequested   \* Stop has notified during the Run that is under way

simConnectVars == <<hSimConnect_, session, open>>
readerVars     == <<dispatcher, data_length_, registrations>>
stopVars       == <<notification, notified, stopper, stops, stopRequested>>

vars == <<pc, message, connected_, simConnectVars, readerVars, stopVars>>

NoSession == [defined |-> 0, subscribed |-> FALSE, requesting |-> FALSE]

Init ==
  /\ pc = "none"
  /\ message = "none"
  /\ connected_ = FALSE
  /\ dispatcher = "caller"
  /\ data_length_ = 0
  /\ notification = 0
  /\ notified = FALSE
  /\ hSimConnect_ = 0
  /\ session = NoSession
  /\ open = {}
  /\ stopper = 0
  /\ stops = 0
  /\ registrations = 0
  /\ stopRequested = FALSE

-----------------------------------------------------------------------------
(* The constructor and Init. *)

\* reader_ takes the raw pointers first, in the order of the members; bridge_
\* takes the bridge over, dispatcher_ takes itself over, and the dispatcher is
\* destroyed with the parameter.
Construct ==
  /\ pc = "none"
  /\ pc' = "idle"
  /\ dispatcher' = "nobody"
  /\ UNCHANGED <<message, connected_, simConnectVars, data_length_, registrations,
                 stopVars>>

CallInit ==
  /\ pc = "idle" /\ hSimConnect_ < MaxSessions
  /\ pc' = "connect"
  /\ UNCHANGED <<message, connected_, simConnectVars, readerVars, stopVars>>

\* Connect succeeds, after any number of failures and sleeps between them; the
\* handle of an earlier session is overwritten.
Connect ==
  /\ pc = "connect"
  /\ hSimConnect_' = hSimConnect_ + 1
  /\ open' = open \cup {hSimConnect_ + 1}
  /\ session' = NoSession
  /\ connected_' = TRUE
  /\ pc' = "register"
  /\ UNCHANGED <<message, readerVars, stopVars>>

\* Altered: the length of a refused definition counts.
RegisterDataDefRefused ==
  /\ pc = "register"
  /\ \E accepted \in 0..NumDefinitions :
       /\ session' = [session EXCEPT !.defined = accepted]
       /\ IF accepted = NumDefinitions
            THEN data_length_' = data_length_ + accepted /\ pc' = "subscribe"
            ELSE data_length_' = data_length_ + accepted + 1 /\ pc' = "idle"
  /\ registrations' = registrations + 1
  /\ UNCHANGED <<message, connected_, dispatcher, hSimConnect_, open, stopVars>>

\* Altered: each definition is registered twice.
RegisterDataDefTwice ==
  /\ pc = "register"
  /\ session' = [session EXCEPT !.defined = NumDefinitions]
  /\ data_length_' = data_length_ + 2 * NumDefinitions
  /\ pc' = "subscribe"
  /\ registrations' = registrations + 1
  /\ UNCHANGED <<message, connected_, dispatcher, hSimConnect_, open, stopVars>>

\* RegisterDataDef and AddDataDef: the definitions up to the first that the sim
\* refuses, whose status Init returns.
RegisterDataDef ==
  /\ pc = "register"
  /\ \E accepted \in 0..NumDefinitions :
       /\ session' = [session EXCEPT !.defined = accepted]
       /\ data_length_' = data_length_ + accepted
       /\ pc' = IF accepted = NumDefinitions THEN "subscribe" ELSE "idle"
  /\ registrations' = registrations + 1
  /\ UNCHANGED <<message, connected_, dispatcher, hSimConnect_, open, stopVars>>

\* SubscribeEvents, to SimStart and to SimStop: Init returns ok or the first error.
SubscribeEvents ==
  /\ pc = "subscribe"
  /\ \E ok \in BOOLEAN : session' = [session EXCEPT !.subscribed = ok]
  /\ pc' = "idle"
  /\ UNCHANGED <<message, connected_, hSimConnect_, open, readerVars, stopVars>>

-----------------------------------------------------------------------------
(* Run.  Without a connection it returns an error and changes nothing. *)

\* Altered: Run does not ask whether the runner is connected.
CallRunUnconnected ==
  /\ pc = "idle" /\ notification < MaxRuns
  /\ pc' = "run"
  /\ message' = "none"
  /\ UNCHANGED <<connected_, simConnectVars, readerVars, stopVars>>

CallRun ==
  /\ pc = "idle" /\ connected_ /\ notification < MaxRuns
  /\ pc' = "run"
  /\ message' = "none"
  /\ UNCHANGED <<connected_, simConnectVars, readerVars, stopVars>>

\* A new notification, and RequestData, whose failure is ignored.
BeginRun ==
  /\ pc = "run"
  /\ notification' = notification + 1
  /\ notified' = FALSE
  /\ \E ok \in BOOLEAN :
       session' = [session EXCEPT !.requesting = session.requesting \/ ok]
  /\ pc' = "loop"
  /\ UNCHANGED <<message, connected_, hSimConnect_, open, readerVars, stopper, stops,
                 stopRequested>>

\* Altered: only the message of the sim ends the loop.
TestStopByMessage ==
  /\ pc = "loop"
  /\ pc' = IF message \in {"stop", "quit"} THEN "cleanup" ELSE "dispatch"
  /\ UNCHANGED <<message, connected_, simConnectVars, readerVars, stopVars>>

\* while (!ShouldQuit())
TestStop ==
  /\ pc = "loop"
  /\ pc' = IF notified THEN "cleanup" ELSE "dispatch"
  /\ UNCHANGED <<message, connected_, simConnectVars, readerVars, stopVars>>

\* CallDispatch with no message, SimStart or an unknown event, or CallDispatch
\* failing, which nobody looks at.
DispatchNothing ==
  /\ pc = "dispatch"
  /\ pc' = "loop"
  /\ message' = "none"
  /\ UNCHANGED <<connected_, simConnectVars, readerVars, stopVars>>

\* OnData of the reader: copy data_length_ of the frame into a SimVars, which has
\* room for one definition more than there are, and Notify the dispatcher.  The frame
\* is always of the reader's request: nothing else is requested from the bridge.
OnData ==
  /\ pc = "dispatch" /\ session.requesting
  /\ message' = "data"
  /\ \/ pc' = "loop"
     \/ /\ data_length_ > NumDefinitions + 1 \/ dispatcher = "nobody"
        /\ pc' = "crashed"
  /\ UNCHANGED <<connected_, simConnectVars, readerVars, stopVars>>

\* Altered: the group of handlers stops at the reader.
OnStopReaderOnly ==
  /\ pc = "dispatch"
  /\ message' \in (IF session.subscribed THEN {"stop", "quit"} ELSE {"quit"})
  /\ pc' = "loop"
  /\ UNCHANGED <<connected_, simConnectVars, readerVars, stopVars>>

\* SimStop or QUIT: OnStop of the group, of the reader, and of the runner, which
\* calls Stop.  The other thread may have notified since TestStop.
OnStop ==
  /\ pc = "dispatch"
  /\ message' \in (IF session.subscribed THEN {"stop", "quit"} ELSE {"quit"})
  /\ notified' = TRUE
  /\ pc' \in (IF notified THEN {"loop", "crashed"} ELSE {"loop"})
  /\ UNCHANGED <<connected_, simConnectVars, readerVars, notification, stopper, stops,
                 stopRequested>>

\* CleanUp: RequestData(NEVER).  When it fails CleanUp returns, and Run.
StopRequesting ==
  /\ pc = "cleanup"
  /\ \/ /\ session' = [session EXCEPT !.requesting = FALSE]
        /\ pc' = "close"
        /\ UNCHANGED stopRequested
     \/ /\ pc' = "idle"
        /\ stopRequested' = FALSE
        /\ UNCHANGED session
  /\ UNCHANGED <<message, connected_, hSimConnect_, open, readerVars, notification,
                 notified, stopper, stops>>

\* Altered: connected_ is not reset.
CloseStayingConnected ==
  /\ pc = "close"
  /\ open' \in {open, open \ {hSimConnect_}}
  /\ pc' = "idle"
  /\ stopRequested' = FALSE
  /\ UNCHANGED <<message, connected_, hSimConnect_, session, readerVars, notification,
                 notified, stopper, stops>>

\* CleanUp: Close, which may fail, and connected_; then Run returns.
Close ==
  /\ pc = "close"
  /\ \/ /\ open' = open \ {hSimConnect_}
        /\ connected_' = FALSE
     \/ UNCHANGED <<open, connected_>>
  /\ pc' = "idle"
  /\ stopRequested' = FALSE
  /\ UNCHANGED <<message, hSimConnect_, session, readerVars, notification, notified,
                 stopper, stops>>

-----------------------------------------------------------------------------
(* Stop, called by the other thread. *)

\* stop_notification_-> : the object is looked up, without a lock.
LookUpNotification ==
  /\ pc \notin {"none", "crashed"}
  /\ stopper = 0 /\ stops < MaxStops /\ notification # 0
  /\ stopper' = notification
  /\ stops' = stops + 1
  /\ UNCHANGED <<pc, message, connected_, simConnectVars, readerVars, notification,
                 notified, stopRequested>>

Running == pc \in {"run", "loop", "dispatch", "cleanup", "close"}

\* ->Notify(), of the current object, which may have been notified already, or of
\* one that Run has replaced.
Notify ==
  /\ pc # "crashed" /\ stopper # 0
  /\ \/ /\ stopper = notification
        /\ notified' = TRUE
        /\ pc' \in (IF notified THEN {pc, "crashed"} ELSE {pc})
     \/ /\ stopper # notification
        /\ pc' \in {pc, "crashed"}
        /\ UNCHANGED notified
  /\ stopper' = 0
  /\ stopRequested' = Running
  /\ UNCHANGED <<message, connected_, simConnectVars, readerVars, notification, stops>>

-----------------------------------------------------------------------------
Dispatch == DispatchNothing \/ OnData \/ OnStop

\* What the owner's thread does without being called and without the sim.
Progress ==
  \/ RegisterDataDef \/ SubscribeEvents
  \/ BeginRun \/ TestStop \/ Dispatch \/ StopRequesting \/ Close

Next ==
  \/ Construct \/ CallInit \/ Connect \/ CallRun
  \/ Progress
  \/ LookUpNotification \/ Notify

Spec == Init /\ [][Next]_vars

\* The owner's thread goes on, and a Stop that has begun completes.
FairSpec == Spec /\ WF_vars(Progress) /\ WF_vars(Notify)

-----------------------------------------------------------------------------
Pcs == {"none", "idle", "connect", "register", "subscribe", "run", "loop", "dispatch",
        "cleanup", "close", "crashed"}

TypeOK ==
  /\ pc \in Pcs
  /\ message \in {"none", "data", "stop", "quit"}
  /\ connected_ \in BOOLEAN
  /\ dispatcher \in {"caller", "nobody"}
  /\ data_length_ \in 0..(MaxSessions * NumDefinitions)
  /\ notification \in 0..MaxRuns /\ stopper \in 0..notification
  /\ notified \in BOOLEAN
  /\ hSimConnect_ \in 0..MaxSessions
  /\ session \in [defined : 0..NumDefinitions, subscribed : BOOLEAN,
                  requesting : BOOLEAN]
  /\ open \subseteq 1..MaxSessions
  /\ stops \in 0..MaxStops
  /\ registrations \in 0..MaxSessions
  /\ stopRequested \in BOOLEAN

\* connected_ says whether the last session is open, at every moment and whatever
\* failed: Init that gave up halfway leaves both, CleanUp that gave up too, and Run
\* never works on a session that is closed.
ConnectedIffOpen == connected_ <=> hSimConnect_ \in open

\* The sim sends data to a runner that is connected: when Run has returned without
\* closing, what it left is a session that the next Run goes on with.
QuietWhenDisconnected ==
  /\ session.requesting => connected_
  /\ Running => connected_

\* In the first session, its registration complete or cut short by a refusal, OnData copies what
\* the frame has and no more.
FirstFrameFits == hSimConnect_ <= 1 => data_length_ = session.defined

\* Run is over: it has returned, or a second Notify of the same notification has crashed
\* the process, which takes a Stop besides the message of the sim, or two of them.
RunIsOver ==
  \/ pc = "idle"
  \/ pc = "crashed" /\ stops >= (IF message \in {"stop", "quit"} THEN 1 ELSE 2)

\* SimStop or QUIT makes Run return.
QuitEndsRun == (message \in {"stop", "quit"} /\ Running) ~> RunIsOver

\* A Stop that finds the notification of the Run under way makes it return.
StopEndsRun == (pc = "loop" /\ notified) ~> RunIsOver

\* "Dispatch the data read from SimBridge to clients." (data_reader.cpp:58): when
\* data come in there is a dispatcher to notify.
DataReachDispatcher == message = "data" => dispatcher # "nobody"

\* "Stops the loop." (sim_runner.cpp:123): a Stop during Run makes it return.
StopStopsTheLoop == stopRequested ~> ~Running

=============================================================================
