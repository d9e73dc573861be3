---------------------------- MODULE SimRunnerProofs ----------------------------
(***************************************************************************)
(* Theorems about the runner, for any number of definitions, sessions,     *)
(* runs and stops: it works on an open session only, and the first frame   *)
(* is copied with its own length.                                          *)
(***************************************************************************)
EXTENDS SimRunner, TLAPS

-----------------------------------------------------------------------------
(* The inductive invariant. *)

\* The counters and the points at which they are below their bounds.
CountInv ==
  /\ pc = "connect" => hSimConnect_ < MaxSessions
  /\ pc = "register" => registrations < hSimConnect_
  /\ pc = "run" => notification < MaxRuns
  /\ registrations <= hSimConnect_
  /\ data_length_ <= registrations * NumDefinitions

\* The sim has stopped to send when the session is closed.
ClosingInv == pc = "close" => ~session.requesting

\* What has been registered before the second session.
FirstSessionInv ==
  /\ hSimConnect_ = 0 => data_length_ = 0
  /\ pc = "register" /\ hSimConnect_ <= 1 => data_length_ = 0

Inv ==
  /\ TypeOK
  /\ CountInv
  /\ ClosingInv
  /\ FirstSessionInv
  /\ ConnectedIffOpen
  /\ QuietWhenDisconnected
  /\ FirstFrameFits

-----------------------------------------------------------------------------
\* One registration more adds the length of one frame at most.
LEMMA OneFrameMore ==
  ASSUME NEW n \in Nat, NEW r \in Nat, NEW len \in Nat, NEW a \in 0..n,
         len <= r * n
  PROVE  len + a <= (r + 1) * n
<1>1. (r + 1) * n = r * n + n
  BY SMT
<1>2. r * n \in Nat
  BY SMT
<1> QED
  BY <1>1, <1>2

\* As many registrations as there may be sessions stay within the type.
LEMMA FramesBounded ==
  ASSUME NEW n \in Nat, NEW r \in Nat, NEW s \in Nat, r <= s
  PROVE  r * n <= s * n
<1>1. PICK d \in Nat : s = r + d
  <2>1. s - r \in Nat /\ s = r + (s - r)
    OBVIOUS
  <2> QED
    BY <2>1
<1>2. s * n = r * n + d * n
  BY <1>1, SMT
<1>3. r * n \in Nat /\ d * n \in Nat
  BY SMT
<1> QED
  BY <1>2, <1>3

-----------------------------------------------------------------------------
\* A runner that is constructed has no session and no data.
LEMMA InitInv == Init => Inv
<1> SUFFICES ASSUME Init PROVE Inv
  OBVIOUS
<1>1. MaxSessions * NumDefinitions \in Nat /\ 0 * NumDefinitions = 0
  BY RunnerAssumption, SMT
<1>2. TypeOK
  <2>1. data_length_ \in 0..(MaxSessions * NumDefinitions)
    BY <1>1 DEF Init
  <2>2. session \in [defined : 0..NumDefinitions, subscribed : BOOLEAN,
                     requesting : BOOLEAN]
    BY RunnerAssumption DEF Init, NoSession
  <2>3. /\ pc \in Pcs /\ message \in {"none", "data", "stop", "quit"}
        /\ connected_ \in BOOLEAN /\ dispatcher \in {"caller", "nobody"}
        /\ notified \in BOOLEAN /\ open \subseteq 1..MaxSessions
        /\ stopRequested \in BOOLEAN
    BY DEF Init, Pcs
  <2>4. /\ notification \in 0..MaxRuns /\ stopper \in 0..notification
        /\ hSimConnect_ \in 0..MaxSessions /\ stops \in 0..MaxStops
        /\ registrations \in 0..MaxSessions
    BY RunnerAssumption DEF Init
  <2> QED
    BY <2>1, <2>2, <2>3, <2>4 DEF TypeOK
<1>3. CountInv /\ ClosingInv /\ FirstSessionInv
  BY <1>1, RunnerAssumption
  DEF Init, CountInv, ClosingInv, FirstSessionInv, NoSession
<1>4. ConnectedIffOpen /\ QuietWhenDisconnected /\ FirstFrameFits
  BY DEF Init, ConnectedIffOpen, QuietWhenDisconnected, FirstFrameFits, NoSession,
         Running
<1> QED
  BY <1>2, <1>3, <1>4 DEF Inv

-----------------------------------------------------------------------------
(* The invariant holds after each step. *)

\* A registration, whole or refused halfway, keeps the invariant.
LEMMA RegisterDataDefInv == Inv /\ RegisterDataDef => Inv'
<1> SUFFICES ASSUME Inv, RegisterDataDef PROVE Inv'
  OBVIOUS
<1> USE DEF Inv
<1>1. PICK accepted \in 0..NumDefinitions :
        /\ session' = [session EXCEPT !.defined = accepted]
        /\ data_length_' = data_length_ + accepted
        /\ pc' = IF accepted = NumDefinitions THEN "subscribe" ELSE "idle"
  BY DEF RegisterDataDef
<1>2. /\ data_length_ \in Nat /\ registrations \in Nat /\ NumDefinitions \in Nat
      /\ data_length_ <= registrations * NumDefinitions
  BY RunnerAssumption DEF TypeOK, CountInv
<1>3. data_length_' <= (registrations + 1) * NumDefinitions
  BY <1>1, <1>2, OneFrameMore
<1>4. registrations' = registrations + 1 /\ pc = "register"
  BY DEF RegisterDataDef
<1>5. /\ registrations + 1 <= hSimConnect_ /\ hSimConnect_ <= MaxSessions
      /\ MaxSessions \in Nat
  BY <1>2, <1>4, RunnerAssumption DEF TypeOK, CountInv
<1>6. (registrations + 1) * NumDefinitions <= MaxSessions * NumDefinitions
  <2>1. hSimConnect_ \in Nat /\ registrations + 1 \in Nat
    BY <1>2, RunnerAssumption DEF TypeOK
  <2>2. registrations + 1 <= MaxSessions
    BY <1>5, <2>1
  <2> QED
    BY <1>2, <1>5, <2>1, <2>2, FramesBounded
<1>7. data_length_' \in 0..(MaxSessions * NumDefinitions)
  <2>1. (registrations + 1) * NumDefinitions \in Nat /\ MaxSessions * NumDefinitions \in Nat
    BY <1>2, <1>5, SMT
  <2> QED
    BY <1>1, <1>2, <1>3, <1>6, <2>1
<1>8. /\ session' \in [defined : 0..NumDefinitions, subscribed : BOOLEAN,
                       requesting : BOOLEAN]
      /\ session'.defined = accepted /\ session'.requesting = session.requesting
  BY <1>1 DEF TypeOK
<1>9. TypeOK'
  BY <1>1, <1>2, <1>4, <1>5, <1>7, <1>8 DEF RegisterDataDef, TypeOK, Pcs, stopVars
<1>10. CountInv'
  BY <1>1, <1>2, <1>3, <1>4, <1>5 DEF RegisterDataDef, TypeOK, CountInv, stopVars
<1>11. ClosingInv' /\ FirstSessionInv'
  BY <1>1, <1>2, <1>4, <1>5 DEF RegisterDataDef, TypeOK, ClosingInv, FirstSessionInv
<1>12. ConnectedIffOpen' /\ QuietWhenDisconnected'
  BY <1>1, <1>8 DEF RegisterDataDef, ConnectedIffOpen, QuietWhenDisconnected, Running
<1>13. FirstFrameFits'
  BY <1>1, <1>2, <1>4, <1>8 DEF RegisterDataDef, FirstFrameFits, FirstSessionInv, TypeOK
<1> QED
  BY <1>9, <1>10, <1>11, <1>12, <1>13

\* The steps of Init that leave data_length_ alone.
LEMMA OpeningInv ==
  Inv /\ (Construct \/ CallInit \/ Connect \/ SubscribeEvents) => Inv'
<1> SUFFICES ASSUME Inv, Construct \/ CallInit \/ Connect \/ SubscribeEvents
             PROVE  Inv'
  OBVIOUS
<1> USE RunnerAssumption
    DEF Inv, simConnectVars, readerVars, stopVars
<1>1. CASE Construct
  <2>1. TypeOK' /\ CountInv'
    BY <1>1 DEF Construct, TypeOK, CountInv, Pcs
  <2>2. ClosingInv' /\ FirstSessionInv'
    BY <1>1 DEF Construct, ClosingInv, FirstSessionInv
  <2>3. ConnectedIffOpen' /\ QuietWhenDisconnected' /\ FirstFrameFits'
    BY <1>1 DEF Construct, ConnectedIffOpen, QuietWhenDisconnected, FirstFrameFits,
                Running
  <2> QED
    BY <2>1, <2>2, <2>3
<1>2. CASE CallInit
  <2>1. TypeOK' /\ CountInv'
    BY <1>2 DEF CallInit, TypeOK, CountInv, Pcs
  <2>2. ClosingInv' /\ FirstSessionInv'
    BY <1>2 DEF CallInit, ClosingInv, FirstSessionInv
  <2>3. ConnectedIffOpen' /\ QuietWhenDisconnected' /\ FirstFrameFits'
    BY <1>2 DEF CallInit, ConnectedIffOpen, QuietWhenDisconnected, FirstFrameFits,
                Running
  <2> QED
    BY <2>1, <2>2, <2>3
<1>3. CASE Connect
  <2>1. /\ hSimConnect_ \in Nat /\ hSimConnect_ < MaxSessions
        /\ hSimConnect_' = hSimConnect_ + 1
        /\ registrations' = registrations /\ registrations <= hSimConnect_
        /\ registrations \in Nat
    BY <1>3 DEF Connect, TypeOK, CountInv
  <2>2. TypeOK'
    BY <1>3, <2>1 DEF Connect, TypeOK, Pcs, NoSession
  <2>3. CountInv'
    BY <1>3, <2>1 DEF Connect, CountInv, TypeOK
  <2>4. ClosingInv' /\ FirstSessionInv'
    BY <1>3, <2>1 DEF Connect, ClosingInv, FirstSessionInv
  <2>5. ConnectedIffOpen' /\ QuietWhenDisconnected'
    BY <1>3 DEF Connect, ConnectedIffOpen, QuietWhenDisconnected, Running, NoSession
  <2>6. FirstFrameFits'
    BY <1>3, <2>1 DEF Connect, FirstFrameFits, FirstSessionInv, NoSession
  <2> QED
    BY <2>2, <2>3, <2>4, <2>5, <2>6
<1>4. CASE SubscribeEvents
  <2>1. /\ session' \in [defined : 0..NumDefinitions, subscribed : BOOLEAN,
                         requesting : BOOLEAN]
        /\ session'.defined = session.defined
        /\ session'.requesting = session.requesting
    BY <1>4 DEF SubscribeEvents, TypeOK
  <2>2. TypeOK' /\ CountInv'
    BY <1>4, <2>1 DEF SubscribeEvents, TypeOK, CountInv, Pcs
  <2>3. ClosingInv' /\ FirstSessionInv'
    BY <1>4 DEF SubscribeEvents, ClosingInv, FirstSessionInv
  <2>4. ConnectedIffOpen' /\ QuietWhenDisconnected' /\ FirstFrameFits'
    BY <1>4, <2>1 DEF SubscribeEvents, ConnectedIffOpen, QuietWhenDisconnected,
                      FirstFrameFits, Running
  <2> QED
    BY <2>2, <2>3, <2>4
<1> QED
  BY <1>1, <1>2, <1>3, <1>4

\* Run, from its call to the end of its loop.
LEMMA LoopInv ==
  Inv /\ (CallRun \/ BeginRun \/ TestStop \/ DispatchNothing \/ OnData \/ OnStop) => Inv'
<1> SUFFICES ASSUME Inv,
                    CallRun \/ BeginRun \/ TestStop \/ DispatchNothing \/ OnData \/ OnStop
             PROVE  Inv'
  OBVIOUS
<1> USE RunnerAssumption
    DEF Inv, simConnectVars, readerVars, stopVars
<1>1. CASE CallRun
  <2>1. TypeOK' /\ CountInv'
    BY <1>1 DEF CallRun, TypeOK, CountInv, Pcs
  <2>2. ClosingInv' /\ FirstSessionInv'
    BY <1>1 DEF CallRun, ClosingInv, FirstSessionInv
  <2>3. ConnectedIffOpen' /\ QuietWhenDisconnected' /\ FirstFrameFits'
    BY <1>1 DEF CallRun, ConnectedIffOpen, QuietWhenDisconnected, FirstFrameFits,
                Running
  <2> QED
    BY <2>1, <2>2, <2>3
<1>2. CASE BeginRun
  <2>1. PICK ok \in BOOLEAN :
          session' = [session EXCEPT !.requesting = session.requesting \/ ok]
    BY <1>2 DEF BeginRun
  <2>2. /\ session' \in [defined : 0..NumDefinitions, subscribed : BOOLEAN,
                         requesting : BOOLEAN]
        /\ session'.defined = session.defined
    BY <2>1 DEF TypeOK
  <2>3. TypeOK' /\ CountInv'
    <3>1. /\ notification' = notification + 1 /\ notification \in Nat
          /\ notification' \in 0..MaxRuns /\ stopper' \in 0..notification'
      BY <1>2 DEF BeginRun, TypeOK, CountInv
    <3>2. TypeOK'
      BY <1>2, <2>2, <3>1 DEF BeginRun, TypeOK, Pcs
    <3>3. CountInv'
      BY <1>2 DEF BeginRun, CountInv
    <3> QED
      BY <3>2, <3>3
  <2>4. ClosingInv' /\ FirstSessionInv'
    BY <1>2 DEF BeginRun, ClosingInv, FirstSessionInv
  <2>5. ConnectedIffOpen' /\ QuietWhenDisconnected' /\ FirstFrameFits'
    BY <1>2, <2>2 DEF BeginRun, ConnectedIffOpen, QuietWhenDisconnected,
                      FirstFrameFits, Running
  <2> QED
    BY <2>3, <2>4, <2>5
<1>3. CASE TestStop
  <2>1. TypeOK' /\ CountInv'
    BY <1>3 DEF TestStop, TypeOK, CountInv, Pcs
  <2>2. ClosingInv' /\ FirstSessionInv'
    BY <1>3 DEF TestStop, ClosingInv, FirstSessionInv
  <2>3. ConnectedIffOpen' /\ QuietWhenDisconnected' /\ FirstFrameFits'
    BY <1>3 DEF TestStop, ConnectedIffOpen, QuietWhenDisconnected, FirstFrameFits,
                Running
  <2> QED
    BY <2>1, <2>2, <2>3
<1>4. CASE DispatchNothing \/ OnData
  <2>1. TypeOK' /\ CountInv'
    BY <1>4 DEF DispatchNothing, OnData, TypeOK, CountInv, Pcs
  <2>2. ClosingInv' /\ FirstSessionInv'
    BY <1>4 DEF DispatchNothing, OnData, ClosingInv, FirstSessionInv
  <2>3. ConnectedIffOpen' /\ QuietWhenDisconnected' /\ FirstFrameFits'
    BY <1>4 DEF DispatchNothing, OnData, ConnectedIffOpen, QuietWhenDisconnected,
                FirstFrameFits, Running
  <2> QED
    BY <2>1, <2>2, <2>3
<1>5. CASE OnStop
  <2>1. /\ message' \in {"stop", "quit"} /\ notified' = TRUE
        /\ pc' \in {"loop", "crashed"} /\ pc = "dispatch"
    BY <1>5 DEF OnStop
  <2>2. TypeOK' /\ CountInv'
    BY <1>5, <2>1 DEF OnStop, TypeOK, CountInv, Pcs
  <2>3. ClosingInv' /\ FirstSessionInv'
    BY <1>5, <2>1 DEF OnStop, ClosingInv, FirstSessionInv
  <2>4. ConnectedIffOpen' /\ QuietWhenDisconnected' /\ FirstFrameFits'
    BY <1>5, <2>1 DEF OnStop, ConnectedIffOpen, QuietWhenDisconnected, FirstFrameFits,
                      Running
  <2> QED
    BY <2>2, <2>3, <2>4
<1> QED
  BY <1>1, <1>2, <1>3, <1>4, <1>5

\* CleanUp, and Stop of the other thread.
LEMMA EndingInv ==
  Inv /\ (StopRequesting \/ Close \/ LookUpNotification \/ Notify) => Inv'
<1> SUFFICES ASSUME Inv, StopRequesting \/ Close \/ LookUpNotification \/ Notify
             PROVE  Inv'
  OBVIOUS
<1> USE RunnerAssumption
    DEF Inv, simConnectVars, readerVars, stopVars
<1>1. CASE StopRequesting
  <2>1. /\ session' \in [defined : 0..NumDefinitions, subscribed : BOOLEAN,
                         requesting : BOOLEAN]
        /\ session'.defined = session.defined
        /\ session'.requesting => session.requesting
        /\ pc' = "close" => ~session'.requesting
        /\ pc' \in {"close", "idle"} /\ stopRequested' \in BOOLEAN
    BY <1>1 DEF StopRequesting, TypeOK
  <2>2. TypeOK' /\ CountInv'
    BY <1>1, <2>1 DEF StopRequesting, TypeOK, CountInv, Pcs
  <2>3. ClosingInv' /\ FirstSessionInv'
    BY <1>1, <2>1 DEF StopRequesting, ClosingInv, FirstSessionInv
  <2>4. ConnectedIffOpen' /\ QuietWhenDisconnected' /\ FirstFrameFits'
    BY <1>1, <2>1 DEF StopRequesting, ConnectedIffOpen, QuietWhenDisconnected,
                      FirstFrameFits, Running
  <2> QED
    BY <2>2, <2>3, <2>4
<1>2. CASE Close
  <2>1. TypeOK' /\ CountInv'
    BY <1>2 DEF Close, TypeOK, CountInv, Pcs
  <2>2. ClosingInv' /\ FirstSessionInv'
    BY <1>2 DEF Close, ClosingInv, FirstSessionInv
  <2>3. ConnectedIffOpen'
    BY <1>2 DEF Close, ConnectedIffOpen
  <2>4. QuietWhenDisconnected' /\ FirstFrameFits'
    BY <1>2 DEF Close, QuietWhenDisconnected, ClosingInv, FirstFrameFits, Running
  <2> QED
    BY <2>1, <2>2, <2>3, <2>4
<1>3. CASE LookUpNotification
  <2>1. TypeOK' /\ CountInv'
    BY <1>3 DEF LookUpNotification, TypeOK, CountInv, Pcs
  <2>2. ClosingInv' /\ FirstSessionInv'
    BY <1>3 DEF LookUpNotification, ClosingInv, FirstSessionInv
  <2>3. ConnectedIffOpen' /\ QuietWhenDisconnected' /\ FirstFrameFits'
    BY <1>3 DEF LookUpNotification, ConnectedIffOpen, QuietWhenDisconnected,
                FirstFrameFits, Running
  <2> QED
    BY <2>1, <2>2, <2>3
<1>4. CASE Notify
  <2>1. pc' \in {pc, "crashed"} /\ notified' \in BOOLEAN /\ stopRequested' \in BOOLEAN
    <3>1. stopRequested' \in BOOLEAN
      <4>1. Running \in BOOLEAN
        BY DEF Running
      <4>2. stopRequested' = Running
        BY <1>4, Zenon DEF Notify
      <4> QED
        BY <4>1, <4>2, Zenon
    <3>2. notified' \in BOOLEAN
      BY <1>4 DEF Notify, TypeOK
    <3>3. pc' \in {pc, "crashed"}
      BY <1>4, Zenon DEF Notify
    <3> QED
      BY <3>1, <3>2, <3>3
  <2>2. TypeOK'
    BY <1>4, <2>1 DEF Notify, TypeOK, Pcs
  <2>3. CountInv'
    BY <1>4, <2>1 DEF Notify, TypeOK, CountInv
  <2>4. ClosingInv' /\ FirstSessionInv'
    BY <1>4, <2>1 DEF Notify, ClosingInv, FirstSessionInv
  <2>5. ConnectedIffOpen' /\ QuietWhenDisconnected' /\ FirstFrameFits'
    BY <1>4, <2>1 DEF Notify, ConnectedIffOpen, QuietWhenDisconnected, FirstFrameFits,
                      Running
  <2> QED
    BY <2>2, <2>3, <2>4, <2>5
<1> QED
  BY <1>1, <1>2, <1>3, <1>4

\* The invariant depends on the variables of the specification only.
LEMMA StutterInv == Inv /\ UNCHANGED vars => Inv'
<1> SUFFICES ASSUME Inv, UNCHANGED vars PROVE Inv'
  OBVIOUS
<1> USE DEF Inv, vars, simConnectVars, readerVars, stopVars
<1>1. TypeOK' /\ CountInv'
  BY DEF TypeOK, CountInv
<1>2. ClosingInv' /\ FirstSessionInv'
  BY DEF ClosingInv, FirstSessionInv
<1>3. ConnectedIffOpen' /\ QuietWhenDisconnected' /\ FirstFrameFits'
  BY DEF ConnectedIffOpen, QuietWhenDisconnected, FirstFrameFits, Running
<1> QED
  BY <1>1, <1>2, <1>3

\* Every step keeps the invariant.
LEMMA NextInv == Inv /\ [Next]_vars => Inv'
  BY RegisterDataDefInv, OpeningInv, LoopInv, EndingInv, StutterInv
  DEF Next, Progress, Dispatch

\* The invariant holds through every run.
LEMMA Invariance == Spec => []Inv
<1>1. Init => Inv
  BY InitInv
<1>2. Inv /\ [Next]_vars => Inv'
  BY NextInv
<1> QED
  BY <1>1, <1>2, PTL DEF Spec

-----------------------------------------------------------------------------
(* The theorems. *)

\* The members of the runner, its reader and its bridge keep their types; the
\* length of the data counts each registration once at most.
THEOREM RunnerTypeCorrect == Spec => []TypeOK
<1>1. Inv => TypeOK
  BY DEF Inv
<1> QED
  BY <1>1, Invariance, PTL

\* connected_ says whether the last session is open, whatever call of Init, Run or
\* CleanUp failed.
THEOREM ConnectedMeansOpen == Spec => []ConnectedIffOpen
<1>1. Inv => ConnectedIffOpen
  BY DEF Inv
<1> QED
  BY <1>1, Invariance, PTL

\* The sim sends to a connected runner only, and Run works on an open session.
THEOREM DisconnectedIsQuiet == Spec => []QuietWhenDisconnected
<1>1. Inv => QuietWhenDisconnected
  BY DEF Inv
<1> QED
  BY <1>1, Invariance, PTL

\* The frames of the first session are copied with their own length.
THEOREM FirstFrameIsCopied == Spec => []FirstFrameFits
<1>1. Inv => FirstFrameFits
  BY DEF Inv
<1> QED
  BY <1>1, Invariance, PTL
=============================================================================
