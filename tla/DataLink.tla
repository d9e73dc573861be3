------------------------------- MODULE DataLink -------------------------------
(***************************************************************************)
(* The link to the simulator: Run of FlightPanel/DataLink.cpp, its message *)
(* callback and the globals they share.                                    *)
(*                                                                         *)
(* One thread turns in a loop: connected, it takes one SimConnect message  *)
(* and one byte of the panel's serial port; disconnected, it waits and     *)
(* tries to open a session.  SimConnect and the serial driver are external *)
(* and answer as they please.                                              *)
(*                                                                         *)
(* simVars is modelled in words of eight bytes: the words of the           *)
(* definitions in their order, then `connected` (sim_vars.h:93).  A word   *)
(* holds <<d, k>>, the k-th word of the value of definition d.             *)
(***************************************************************************)
EXTENDS Naturals, Sequences, SequencesExt

CONSTANTS
  WordsOf,        \* WordsOf[d]: the words that definition d takes
  TrimIndicator,  \* the definition of tfElevatorTrimIndicator
  RetryDelay,     \* turns of the loop between two attempts, 200 in the code
  Refusable,      \* definitions that the sim may refuse
  MaxSessions,    \* bound: sessions opened
  MaxInput        \* bound: bytes that the panel sends

ASSUME LinkAssumption ==
  /\ WordsOf \in Seq(Nat \ {0}) /\ TrimIndicator \in 1..Len(WordsOf)
  /\ Refusable \subseteq 1..Len(WordsOf)
  /\ RetryDelay \in Nat /\ MaxSessions \in Nat /\ MaxInput \in Nat

VARIABLES
  pc,          \* "loop", "serial", "done", or "corrupt" after a write past simVars
  message,     \* what CallDispatch delivered last
  \* the globals
  hSimConnect, \* the number of the session, 0 for NULL
  quit,
  simVars,     \* the words of simVars before `connected`
  connected,   \* simVars.connected, as the condition it is used as
  varSize,     \* in words
  \* locals of Run
  retryDelay,
  serial,      \* whether the input port exists and is connected
  \* SimConnect and the serial driver
  session,     \* what the sim knows of the last session
  open,        \* the sessions opened and not closed
  input,       \* bytes the driver has buffered
  sent,        \* bytes the panel has sent
  \* history
  trim,        \* the words the trim events were computed from
  waited       \* turns waited since the last failed attempt, RetryDelay if none

simConnectVars == <<hSimConnect, session, open, varSize>>
panelVars == <<serial, input, sent, trim>>
dataVars == <<simVars, message>>
retryVars == <<retryDelay, waited>>

vars == <<pc, quit, connected, dataVars, simConnectVars, retryVars, panelVars>>

Definitions == 1..Len(WordsOf)

\* The words of the definitions in ds, in the order of SimVarDefs.
Block(ds) ==
  FlattenSeq([d \in Definitions |->
                IF d \in ds THEN [k \in 1..WordsOf[d] |-> <<d, k>>] ELSE <<>>])

Words == Len(Block(Definitions))

\* Where the struct keeps the trim indicator.
IndicatorWord == CHOOSE w \in 1..Words : Block(Definitions)[w] = <<TrimIndicator, 1>>

\* Words that hold no value of a definition.
Initial == <<0, 0>>
Garbage == <<0, 1>>

Init ==
  /\ pc = "loop"
  /\ message = "none"
  /\ hSimConnect = 0
  /\ quit = FALSE
  /\ simVars = [w \in 1..Words |-> Initial]
  /\ connected = FALSE
  /\ varSize = 0
  /\ retryDelay = 0
  /\ serial \in BOOLEAN
  /\ session = [defined |-> <<>>, requesting |-> FALSE]
  /\ open = {}
  /\ input = <<>>
  /\ sent = 0
  /\ trim = {}
  /\ waited = RetryDelay

-----------------------------------------------------------------------------
(* One turn of the loop, connected: CallDispatch and the callback. *)

Dispatching == pc = "loop" /\ ~quit /\ connected

\* No message, or one that the callback has no use for.
DispatchNothing ==
  /\ Dispatching
  /\ pc' = "serial"
  /\ message' = "none"
  /\ UNCHANGED <<quit, connected, simVars, simConnectVars, retryVars, panelVars>>

\* The word of the message that a copy of varSize words takes as its w-th: past
\* the end of the message, whatever follows it in memory.
Incoming(w) == IF w <= Len(session.defined) THEN session.defined[w] ELSE Garbage

\* memcpy(varStart, data, varSize), where varStart is the second word.  A copy of
\* all the words ends in `connected`, whose new value is the end of a string: zero
\* when the string is short.  A longer copy writes past simVars.
DispatchData ==
  /\ Dispatching /\ session.requesting
  /\ message' = "data"
  /\ IF varSize > Words
       THEN /\ pc' = "corrupt"
            /\ UNCHANGED <<simVars, connected>>
       ELSE /\ pc' = "serial"
            /\ simVars' = [w \in 1..Words |->
                             IF w - 1 \in 1..varSize THEN Incoming(w - 1) ELSE simVars[w]]
            /\ IF varSize = Words THEN connected' \in BOOLEAN ELSE UNCHANGED connected
  /\ UNCHANGED <<quit, simConnectVars, retryVars, panelVars>>

DispatchQuit ==
  /\ Dispatching
  /\ pc' = "serial"
  /\ message' = "quit"
  /\ quit' = TRUE
  /\ UNCHANGED <<connected, simVars, simConnectVars, retryVars, panelVars>>

\* CallDispatch fails: the session is taken for lost.
DispatchFailed ==
  /\ Dispatching
  /\ pc' = "serial"
  /\ message' = "failed"
  /\ connected' = FALSE
  /\ UNCHANGED <<quit, simVars, simConnectVars, retryVars, panelVars>>

-----------------------------------------------------------------------------
(* The same turn: one byte of the serial port. *)

\* No port, none connected, nothing to read, or a byte that means nothing.
NoTrimInput ==
  /\ pc = "serial"
  /\ pc' = "loop"
  /\ serial' \in {FALSE, serial}
  /\ \/ ~serial' /\ UNCHANGED input
     \/ serial' /\ input = <<>> /\ UNCHANGED input
     \/ serial' /\ input # <<>> /\ Head(input) = "other" /\ input' = Tail(input)
  /\ UNCHANGED <<quit, connected, dataVars, simConnectVars, retryVars, sent, trim>>

\* A step of trim: computed from the indicator, transmitted, result ignored.
TrimInput ==
  /\ pc = "serial" /\ serial /\ input # <<>> /\ Head(input) \in {"up", "down"}
  /\ pc' = "loop"
  /\ input' = Tail(input)
  /\ trim' = trim \cup {simVars[IndicatorWord]}
  /\ UNCHANGED <<quit, connected, dataVars, simConnectVars, retryVars, serial, sent>>

\* The panel sends a byte; the driver keeps it until it is read.
PanelSends ==
  /\ serial /\ sent < MaxInput
  /\ \E b \in {"up", "down", "other"} : input' = Append(input, b)
  /\ sent' = sent + 1
  /\ UNCHANGED <<pc, quit, connected, dataVars, simConnectVars, retryVars, serial, trim>>

-----------------------------------------------------------------------------
(* One turn of the loop, disconnected. *)

\* Altered: the delay is not looked at before it is counted down.
WaitingAlways == pc = "loop" /\ ~quit /\ ~connected

Waiting == pc = "loop" /\ ~quit /\ ~connected /\ retryDelay > 0
Opening == pc = "loop" /\ ~quit /\ ~connected /\ retryDelay = 0

\* Altered: the delay is not counted down.
WaitUncounted ==
  /\ Waiting
  /\ UNCHANGED <<pc, quit, connected, dataVars, simConnectVars, retryVars, panelVars>>

Wait ==
  /\ Waiting
  /\ retryDelay' = retryDelay - 1
  /\ waited' = waited + 1
  /\ UNCHANGED <<pc, quit, connected, dataVars, simConnectVars, panelVars>>

\* Altered: the next attempt follows at once.
OpenFailsNoDelay ==
  /\ Opening
  /\ waited' = 0
  /\ UNCHANGED <<pc, quit, connected, dataVars, simConnectVars, retryDelay, panelVars>>

\* Altered: the link takes itself for connected although Open failed.
OpenFailsConnected ==
  /\ Opening
  /\ retryDelay' = RetryDelay
  /\ waited' = 0
  /\ connected' = TRUE
  /\ UNCHANGED <<pc, quit, dataVars, simConnectVars, panelVars>>

OpenFails ==
  /\ Opening
  /\ retryDelay' = RetryDelay
  /\ waited' = 0
  /\ UNCHANGED <<pc, quit, connected, dataVars, simConnectVars, panelVars>>

\* Altered: every definition counts, whether SimConnect took it or not.
AddReadDefsUnchecked(accepted) == varSize' = varSize + Words

\* AddReadDefs: SimConnect takes the definitions `accepted`; varSize grows by
\* their words, from whatever it was.
AddReadDefs(accepted) == varSize' = varSize + Len(Block(accepted))

\* SimConnect_Open succeeds: AddReadDefs, MapEvents, SubscribeEvents and the
\* request for data, whose failures are only logged.  (The events mapped and
\* subscribed matter to the sim alone: the loop does not look at them.)  The
\* previous session, if any, is not closed.
OpenSucceeds ==
  /\ Opening /\ hSimConnect < MaxSessions
  /\ hSimConnect' = hSimConnect + 1
  /\ open' = open \cup {hSimConnect + 1}
  /\ \E refused \in SUBSET Refusable, requesting \in BOOLEAN :
       /\ AddReadDefs(Definitions \ refused)
       /\ session' = [defined |-> Block(Definitions \ refused), requesting |-> requesting]
  /\ connected' = TRUE
  /\ waited' = RetryDelay
  /\ UNCHANGED <<pc, quit, dataVars, retryDelay, panelVars>>

\* Altered: the loop goes on until the session is lost.
ReturnWhenDisconnected ==
  /\ pc = "loop" /\ quit /\ ~connected
  /\ pc' = "done"
  /\ session' = [session EXCEPT !.requesting = FALSE]
  /\ open' = open \ {hSimConnect}
  /\ UNCHANGED <<quit, connected, dataVars, hSimConnect, varSize, retryVars, panelVars>>

\* Altered: CleanUp leaves the session open.
ReturnWithoutClose ==
  /\ pc = "loop" /\ quit
  /\ pc' = "done"
  /\ session' = [session EXCEPT !.requesting = FALSE]
  /\ UNCHANGED <<quit, connected, dataVars, hSimConnect, open, varSize, retryVars,
                 panelVars>>

\* The loop ends, and CleanUp.
Return ==
  /\ pc = "loop" /\ quit
  /\ pc' = "done"
  /\ IF hSimConnect # 0
       THEN /\ session' = [session EXCEPT !.requesting = FALSE]
            /\ open' = open \ {hSimConnect}
       ELSE UNCHANGED <<session, open>>
  /\ UNCHANGED <<quit, connected, dataVars, hSimConnect, varSize, retryVars, panelVars>>

-----------------------------------------------------------------------------
CallDispatch ==
  DispatchNothing \/ DispatchData \/ DispatchQuit \/ DispatchFailed

Run ==
  CallDispatch \/ NoTrimInput \/ TrimInput \/ Wait \/ OpenFails \/ OpenSucceeds \/ Return

Next == Run \/ PanelSends

Spec == Init /\ [][Next]_vars

\* The thread of Run goes on; the sim, as long as it is there, lets the link in.
FairSpec == Spec /\ WF_vars(Run) /\ SF_vars(OpenSucceeds)

-----------------------------------------------------------------------------
DataWords == {Block(Definitions)[w] : w \in 1..Words} \cup {Initial, Garbage}

TypeOK ==
  /\ pc \in {"loop", "serial", "done", "corrupt"}
  /\ message \in {"none", "data", "quit", "failed"}
  /\ hSimConnect \in 0..MaxSessions
  /\ quit \in BOOLEAN
  /\ simVars \in [1..Words -> DataWords]
  /\ connected \in BOOLEAN
  /\ varSize \in 0..(MaxSessions * Words)
  /\ retryDelay \in 0..RetryDelay
  /\ serial \in BOOLEAN
  /\ session \in [defined : {Block(ds) : ds \in SUBSET Definitions}, requesting : BOOLEAN]
  /\ open \subseteq 1..MaxSessions
  /\ input \in Seq({"up", "down", "other"}) /\ Len(input) <= sent
  /\ sent \in 0..MaxInput
  /\ trim \subseteq DataWords
  /\ waited \in 0..RetryDelay

\* While the loop takes itself for connected it has a session that it opened and
\* did not close, whatever the sim has copied over `connected` meanwhile.
ConnectedHasSession == connected /\ pc # "done" => hSimConnect \in open

\* An attempt to open a session comes first, or RetryDelay turns after the last
\* one that failed.
BackOff == Opening => waited = RetryDelay

\* In its first session the link copies what the sim sends, no more: whichever
\* definitions were refused, varSize is the size of the message.
FirstSessionInBounds ==
  hSimConnect <= 1 => pc # "corrupt" /\ \A w \in 1..Words : simVars[w] # Garbage

\* When Run has returned the last session is closed and sends nothing.
CleanedUp == pc = "done" => hSimConnect \notin open /\ ~session.requesting

\* Once the sim has quit, Run returns.
QuitReturns == quit ~> (pc = "done")

\* A link that has lost its session opens another, unless it is told to quit.
Reconnects ==
  (pc = "loop" /\ ~connected) ~> (connected \/ quit \/ hSimConnect = MaxSessions)

\* tfElevatorTrimIndicator is a "value from -1.0(nose down) ~ 1.0 (nose up)"
\* (sim_vars.h:20), the indicator of the sim: a step of trim starts from it.
TrimFromIndicator == trim \subseteq {Initial, <<TrimIndicator, 1>>}

=============================================================================
