# FlightPanel in TLA+

FlightPanel connects Microsoft Flight Simulator 2020 to a home-made instrument panel.
A Windows process reads the state of the simulator through SimConnect, drives the
servos and lights of the panel over a serial line, serves web clients over websockets
and sends trim commands back; two Arduino boards are the panel itself. This directory
holds a model of the parts that have behaviour of their own, the TLC runs that check
it, and proofs that TLAPS checks.

## 1. The system

```
  MSFS ==SimConnect==> FlightPanel/DataLink ---simVars---> (websocket broadcaster)
   ^                        |  ^
   |  trim events           |  | one byte per step of trim
   +------------------------+  |
                       pro micro board: encoders, buttons, axes
  serial_server ==5-byte frames==> uno board: servos and LEDs
  websocket_server: io thread -> event queue -> event thread -> registry <- broadcaster

  the rewrite under way, exercised by the unit tests:
  sim_bridge -> dispatch handlers (data_reader, runner) -> data_dispatcher -> callbacks
```

| component | state it keeps | operations | what is hard | what makes it correct |
|---|---|---|---|---|
| `data_dispatcher` | queue `sim_vars_` under `data_lock_`; callbacks under `callbacks_lock_`; worker thread; stop notification | Start, Stop, Notify, AddRecepient, QueueSize, IsRunning; RunWorker, DispatchData | notifiers, registering clients, the owner and successive workers interleave; a lock that outlives its critical section; a wait that a stop does not end | every client gets every datum since its registration, once, in order, through stops and restarts; threads get on |
| `websocket_server` | queue `events_`, registry `connections_`, a lock each; the current frame | OnOpen, OnMessage, OnClose, ProcessEvents, Run; Broadcast, SimDataBroadcaster::Run | three threads; connections that go while they are registered, or before; sends that throw | the registry follows the connections, every client gets every frame, one that fails harms no other |
| `FlightPanel/DataLink` | globals hSimConnect, quit, simVars (with `connected`), varSize; the retry delay | Run, MyDispatchProcRd, AddReadDefs, MapEvents, SubscribeEvents, CleanUp, Read | sessions lost and opened again; definitions refused; a copy by size and position | copies stay within bounds and land in their fields; trim starts from the indicator; sessions are opened with pauses and closed |
| `data_def` | none | SimVars, SimVarDefs, ToSimData | two tables that must agree | the n-th definition is the n-th field |
| `promicro-panel-inputs.ino` | the state of each encoder, the key matrix | CheckAllEncoders, rotary_process, SetHatSwitch, CheckAllButtonsJoystick, CheckAllAxes | a knob moves while its contacts are read, and while `delay(50)` runs; contacts bounce | clicks are counted exactly; bounces make none |
| `uno-outputs.ino` | the last frame, the last angles, the LEDs | CheckSerial, UpdateInstruments, UpdateServo, Led::Update | frames without marks, short reads | the instruments show the last frame |
| `serial_server` | the frame `instrumentData_`, the port | Run, SendData, UpdateData | a port that is lost stays lost | frames go out while there is a port |
| `serial_port` | handle, `connected` | read, write, isConnected, closeSerial | errors seen late | after an error the port is not used |
| `sim_bridge`, `data_reader`, `sim_runner` | connection, data length, handlers, stop notification | Connect, AddDataDef, RequestData, CallDispatch, Close; RegisterDataDef, OnData; Init, Run, Stop | callbacks inside CallDispatch that stop the loop; steps that fail halfway | definitions are registered once; what is opened is closed; a stop ends Run |
| `port_finder` | COM pointers, `isClean_` | GetComPort, Connect, Clean | any step may fail | what was acquired is released once |
| `FlightPanel.cpp` | the threads | main | threads that never end | the process ends when the simulator quits |

Threads of the process: main (DataLink's Run), serial server, websocket io, websocket
events, broadcaster; in the rewrite also the runner's thread and the dispatcher's
worker. The components share `simVars` (a plain global), the queues and the registry;
everything else goes by calls, SimConnect messages, websocket frames and serial bytes.

`PROJECT.json` lists each of these as a component and, under `hazards`, what can go
wrong in them at the line where it would, with the properties that would show it.

## 2. Modules

| module | models | EXTENDS / uses |
|---|---|---|
| `FifoBroadcast` | the abstract service of the dispatcher: a log, and for each subscriber the stretch of it received, in rounds | |
| `DataDispatcher` | `data_dispatcher.cpp` | refines `FifoBroadcast` (`ImplementsFifoBroadcast`) |
| `DataDispatcherProofs` | theorems about the dispatcher | `DataDispatcher`, TLAPS |
| `ClientSessions` | the abstract service of the websocket server: a session for each client, with its messages; frames in rounds | |
| `WebSocketServer`, `MCWebSocketServer` | `websocket_server.cpp` and its header | refines `ClientSessions` (`ImplementsClientSessions`) |
| `WebSocketServerProofs` | theorems about the server | `WebSocketServer`, TLAPS |
| `DataLink`, `MCDataLink` | `FlightPanel/DataLink.cpp` with the layout of `sim_vars.h` | |
| `DataLinkProofs` | theorems about the link | `DataLink`, TLAPS |
| `RotaryEncoder` | the encoders of `promicro-panel-inputs.ino` | |
| `RotaryEncoderProofs` | theorems about the encoders | `RotaryEncoder`, TLAPS |
| `PanelInputs`, `MCPanelInputs` | the whole loop of `promicro-panel-inputs.ino`: the encoders composed with the keys | `RotaryEncoder` |
| `PanelInputsProofs` | theorems about the loop and the buttons | `PanelInputs`, `RotaryEncoderProofs`, TLAPS |
| `PanelLink`, `MCPanelLink` | `serial_server.cpp`, `serial_port.cpp` and `uno-outputs.ino` with the line between them | |
| `PanelLinkProofs` | theorems about the port, the frames, the servos and the lights | `PanelLink`, TLAPS |
| `PortFinder` | `port_finder.cpp` | |
| `PortFinderProofs` | theorems about the sessions of the port finder | `PortFinder`, TLAPS |
| `SimRunner` | `sim_runner.cpp`, `data_reader.cpp`, `sim_bridge.cpp` and its dispatch handlers | |
| `SimRunnerProofs` | theorems about the runner | `SimRunner`, TLAPS |

Definitions whose comment begins with "Altered:" are slightly broken variants of the
definition that follows them. They are in no specification; each shows that a property
notices the bug it stands for (`mutants` in `PROJECT.json`).

### DataDispatcher

Variables bear the names of the members of `DataDispatcherImpl`; `worker_` also says
where `RunWorker` is. One action is one stretch of code that no other thread can
interfere with:

| action | code |
|---|---|
| `Start`, `StopNotify`, `StopJoin` | `Start`, the two halves of `Stop` |
| `CallNotify(n)`, `Notify(n)` | a call of `Notify` up to the lock, and the critical section |
| `AddRecepient(r)` | the critical section of `AddRecepient` |
| `TestStop`, `LockAndAwait`, `ContinueWhenEmpty`, `TakeFront` | the loop of `RunWorker` |
| `BeginDispatch`, `InvokeCallback`, `EndDispatch` | `DispatchData` under `callbacks_lock_` |

`data_lock_` holds the number of the worker that has it over several steps, because
`if (sim_vars_.empty()) continue;` leaves the critical section without unlocking and
the lock may stay with a thread that is gone. `Await` is modelled as absl documents it:
the condition of a blocked thread is evaluated again when the mutex is unlocked, so a
`Notify` wakes the worker and the stop notification does not. Data are numbers in the
order of the calls; `accepted`, `received` and `since` are history.

Assumed of the callers, as in the repository's tests: one owner; Start when
`IsRunning()` is false, Stop when it is true; a callback is registered once and does
not call back into the dispatcher.

### WebSocketServer

`handler` is the event that a websocketpp handler is about to push (handlers run one at
a time on the io thread), `event` the one `ProcessEvents` works on, `broadcaster` the
place of the broadcaster's loop. `Handshake`, `Receive`, `BeginClose` and `Close` are
websocketpp: a connection stops being open, so that `send` throws, some time before the
close handler is called. `Broadcast` holds `connections_lock_` over several steps,
everybody else within one. The frames are numbered modulo `FrameCycle`, enough to tell
a frame from the one before and the one after.

`ClientSessions` is what remains when threads, queue and locks are left out: a client's
session begins some time after it connects and ends some time after it has left, when
all of its messages have been handled, and the sessions do not change during a round of
sending. `Session` maps the registry and the queue to it: a session has begun when the
client is in the registry, has ended when it is not, the connection is closed and no
SUBSCRIBE of it is on its way, and is still to begin otherwise. That messages are handled
in order, after their sender is registered and before it is removed, is `Handle` and `End`
of that module.

### DataLink

The loop of `Run` is one turn of at most two steps: `Dispatch...` (CallDispatch and the
callback, or its failure) and `NoTrimInput`/`TrimInput` (the serial byte), or one of
`Wait`, `OpenFails`, `OpenSucceeds`, `Return`. `simVars` is a sequence of words; a word
holds which word of which definition was copied there, so that a value in the wrong
field can be told from one in the right field. `connected` is the last word of the
struct, as in `sim_vars.h`, and a copy of all the words overwrites it with the end of
the string `Title`: zero when the title is short, anything else when it is not. A copy
longer than the struct ends the model in `pc = "corrupt"`. SimConnect may refuse any
definition in `Refusable`, refuse the data request, lose the session, and quit.

### RotaryEncoder

The knob (`turned`, `phase`) moves at any time, also between the two `digitalRead`s of
`rotary_process` (`ReadPin2`, `ReadPin1`; the operands of `|` are taken from left to
right). Everything else the loop does, `delay(50)` included, is the time between two
reads, during which knobs move. `sampled`, `settled`, `missed` and `seen` are history:
where the knob stood when it was last read, whether it has moved since, how often it
moved twice between two reads, and the patterns read since it was last at rest.

### PanelInputs

The loop of the board: a round over the encoders (`CheckEncoder`, the steps of
`RotaryEncoder`), then `CheckAllButtonsJoystick`, or `NoScan` when `getKeys` comes before
its time to debounce is over. `CheckAllAxes` passes three values on and is part of the
time between two reads. The Keypad library is external; the module has what the code
relies on: a list of LIST_MAX slots (`key`), a scan that frees the slots of idle keys,
lets new keys enter in the order of the matrix and moves each key through IDLE, PRESSED,
HOLD and RELEASED (`UpdateList`), and the flags of the slots that changed (`Changed`).
`SetButtons` is the switch of the code. Two things of the repository's key map matter:
the first key has the number 0, which the library takes for NO_KEY, so that its slot
counts as free; and when the first key is not alone its press may be put off. What is
said of buttons is therefore said of the other keys. A key that was let go of keeps its
slot until two more scans have seen it, so that two slots are enough for keys pressed by
turns to keep a third out, although never more than two are down: `ButtonsFollowKeys`
says that the button of a key goes on when the list has a slot for it for good.

### PanelLink

One turn of `SerialServer::Run` is `IsConnected`, then `WriteFrame` or `WriteFails`;
`OpenPort` is the constructor of the port. The device may go at any time (`PortDies`),
with what the driver had not sent. Bytes travel on `wire` and come into `rx`
(`Deliver`), which drops them when it is full; the line may lose some (`LoseByte`). The
Uno starts in `Setup`, during which frames gather in its buffer, and then
turns: `CheckSerial` finds no byte (`NothingToRead`) or calls `readBytes`, which ends
with five bytes (`ReadBytes`) or after a second without any (`ReadTimeOut`); each ends
with `UpdateInstruments`, which compares `bytesRead`, moves the servos and the lights.

A byte is written `<<n, i>>`, the i-th of frame n, so that a frame read out of step can
be told from a whole one; its value is looked up in `written`. Integers keep their
width: the angle is stored in a `char`, the positions are signed bytes, `round` goes
away from zero, and 0/0 cast to int is one of the values an AVR build gives.
`UpdateData` is commented out in the code (line 55), so that the server repeats the
frame it was built with; `Frames` is a constant and the runs send several, as the
TEST_LED build and the function itself intend.

### PortFinder

`GetComPort` calls `Connect`, whose five steps are five actions, each of which may fail
and undo the ones before; whatever Connect returned, the query follows (`ExecQuery`, or
`ExecQueryUndefined` through a pointer that is null or released), the devices are read
(`NextDevice`) and `Clean` gives everything back. A query that fails returns without
Clean, and the next call connects over the pointers: its session is never given back.
`com` and `refs` count what is held, `isClean_` is the member of that name, and Clean
returns at once when it is set. `broken` and `failedQueries` are history:
`SessionsAreAccountedFor` bounds what is held between two calls by one session for each
failed query, and says that an undefined call has its cause in the same call.

### SimRunner

The owner's thread (`pc`) and another one that calls Stop (`stopper`). Every call to
SimConnect may fail, and each failure takes the early return of the code:

| action | code |
|---|---|
| `Construct` | the constructor; what becomes of the dispatcher |
| `CallInit`, `Connect`, `RegisterDataDef`, `SubscribeEvents` | `Init`; `RegisterDataDef` of the reader and `AddDataDef` of the bridge, up to the first refusal |
| `CallRun`, `BeginRun`, `TestStop` | `Run` and `ShouldQuit` |
| `DispatchNothing`, `OnData`, `OnStop` | `CallDispatch` with `MyDispatchProcRd`, the group of handlers, the reader and the runner's own handler |
| `StopRequesting`, `Close` | `CleanUp`, with its two early returns |
| `LookUpNotification`, `Notify` | `Stop` of another thread, which reads `stop_notification_` without a lock and then notifies |

Sessions are numbered, so that the handle that a second Init overwrites can be told
from its own; `data_length_` is in definitions, all of one length, and `SimVars` has
room for one more than there are, which is `connected`. A copy past that, a call on the
destroyed dispatcher, a notification that is gone and a second Notify are undefined or
abort: the model goes on or ends in `pc = "crashed"`. The two liveness properties accept a
crash as the end of Run (`RunIsOver`) only when it takes two stops, of the sim and of
Stop or of Stop alone; one stop of any kind makes Run return.

Assumed of the callers: Init and Run are called by one thread, in any order and number;
Stop is not called before the first Run has made a notification, nor by more than one
other thread at a time.

## 3. Runs

| run | module, bounds | question | result |
|---|---|---|---|
| `dispatcher` | 2 notifiers, 2 clients, 4 data, 3 starts; fair | is delivery complete and in order through stops and restarts, is the leaked lock harmless while the dispatcher is not restarted on it; is every queued datum dispatched, does a Stop with a backlog return? | holds |
| `dispatcher_stop` | 2, 2, 3, 2; fair | does every Stop return? | **no** |
| `dispatcher_restart` | same | does every Notify to a running dispatcher return? | **no** |
| `server` | 2 connections, one sends 2 messages and one 1, frames mod 2; fair | does the registry follow the connections, do frames reach everybody, is all of it `ClientSessions`, messages in order included; are clients served and forgotten? deadlock | holds |
| `link` | 3 definitions of 1, 1 and 2 words, any refused, retry delay 2, 2 sessions, 2 bytes; fair | sessions, back-off, bounds of the copy, clean-up; does Run return after quit, does a lost link come back? | holds |
| `link_trim` | 1 session | does a step of trim start from the indicator? | **no** |
| `panel_inputs` | 1 encoder, 4 phases either way, 1 missed move, 4 keys, 2 slots; fair | are clicks counted, and only clicks; do buttons follow the list, when keys share and fill it too, and go on and off with their keys? deadlock | holds |
| `panel_link` | 3 frames of 2 kinds, a buffer of 12 bytes, 1 byte lost on the line and up to 3 by overrun, period 2; fair | are frames read whole, do servos and lights show them, whatever angle was refused before, does the light blink, is a frame on its way shown, is a dead port left? deadlock | holds |
| `port_finder` | 4 calls, each step failing at will | are whole sessions held, of one for each failed query at most; does an undefined call take a failure in the same call? | holds |
| `runner` | 2 definitions, 3 sessions, 3 runs, 2 stops; fair | is `connected_` true to the session whatever fails, does the first frame fit; do the sim's quit and a Stop end Run? | holds |
| `runner_dispatcher` | 2, 2, 3, 2; fair | do data reach a live dispatcher? | **no** |
| `runner_stop` | same | does every Stop during Run end it? | **no** |

The bounds. Two notifiers and two clients are the least that compete; four data and
three starts let a datum be queued before, during and after each stop, and a lock be
left behind twice. Two connections let one fail while the other is in the same loop; a
connection handle is used once, so a client that reconnects is another connection. Three
definitions, one of two words, give every kind of neighbour to the trim indicator, and a
string at the end as in `SimVarDefs`. Four phases either way are a click in either
direction, with every way back; that encoders do not disturb each other, and turn on, is
proved for every number of them. Four keys for two slots are the one that shares its
number with NO_KEY, whose slot others take, and three that compete for two slots: the
list is full of keys that are down, or of some that were just let go, while another goes
down; `PanelButtonsFollowList` is proved for every number of both. To keep the states
few, `MCPanelInputs` bounds who touches the panel: while a knob is away from rest only
the first two keys are in play, and the others are pressed while it rests; the loop is
that of `PanelInputs`. Twelve bytes hold two frames and part of a third, so that three
frames overrun the buffer and leave the Uno out of step with whole reads. On the Uno's
64 bytes, at the rate of main, what is sent during `Setup` fits, so that the overrun
stands for the bytes that a board may lose for any reason. The frames are the one the
server starts with, which has no flap positions, and one with the trim at the end of its
range, the flaps up and the gear moving: with the first, the flap angle is refused or
wraps round and is remembered as the one that the second asks for. With a blink period
of 2 the light changes at each update. Four queries let two sessions leak and two more
fail over them. Two sessions are the least in which lengths add up and a handle is
overwritten; a third lets Init succeed after both.

Deadlock is checked for the server, the input board and the panel link. The dispatcher,
the link, the runner and the port finder really stop: when their callers have nothing
more to ask (and, for the dispatcher, in the deadlocks that the two violations show),
when Run has returned, or when the process has crashed.

The five violated properties are findings, each against a sentence of the repository:

- `StopReturns`: the stop notification does not wake a worker that waits for data, so
  Stop waits for it forever (`data_dispatcher.cpp:29-32`, and the test
  `TestIsRunningChecker`, which passes or hangs by a race).
- `NotifyGetsThrough`: a worker that stops on an empty queue keeps `data_lock_`
  (`data_dispatcher.cpp:81`); after a restart Notify and the new worker wait forever.
- `TrimFromIndicator`: `connected` is taken for the first member of `SimVars`
  (`DataLink.cpp:40-42`) and is the last (`sim_vars.h:93`), so that trim steps start from
  the field before the indicator.
- `DataReachDispatcher`: the runner initialises `dispatcher_` from itself, the
  dispatcher it was given is destroyed with the parameter, and the reader goes on using
  it (`sim_runner.cpp:75-78`).
- `StopStopsTheLoop`: Run replaces the notification it is stopped by
  (`sim_runner.cpp:106`), so that a Stop that comes just before is lost.

Fairness. Threads that are able to run do (weak fairness of each thread's next step);
nobody is obliged to call, connect, send or turn a knob. `Subscribe` and `Unsubscribe`
are strongly fair, because the broadcaster takes `connections_lock_` again and again
and only the fairness of absl::Mutex lets the event thread in; `OpenSucceeds` of the
link is strongly fair, which says that a simulator that is there lets the link in at
some attempt, and without which there would be nothing to reconnect to. For the runner
the steps of the owner's thread that wait for nobody are fair (`Progress`), the calls
and `Connect` are not; and a Stop that has begun completes. On the input board the
reads of the encoders are weakly fair, and `CheckAllButtonsJoystick` is strongly fair:
`getKeys` scans only when its time to debounce is over, and the loop, which takes no
longer than that for ever, comes after it again and again. In `PanelLink` the Uno runs
and bytes that were sent arrive; the server may stop sending at any time.

Seen while modelling, and not claimed as findings because no sentence of the repository
says otherwise:

- After a second Init of the runner `data_length_` is that of two frames
  (`data_reader.cpp:47`), and the copy runs past the frame; `FirstFrameFits` speaks of
  the first session. In the same way `varSize` of the link adds up.
- A session is not closed when another is opened over its handle: by the link after a
  lost session (`DataLink.cpp:247`), by a second Init of the runner, by the port finder
  after a query that failed. `CleanedUp` and `ConnectedIffOpen` speak of the last session;
  the models keep the others in `open` and in `com`.
- After a frame without flap positions, the server's first one, a frame with the flaps up
  may leave the servo where it was: the angle it asks for is remembered as written.
- The server sends every 0.5 s, the time-out of `readBytes` is 1 s: an Uno that is out
  of step stays so as long as frames keep coming. `FramesInStep` and `FramesArrive`
  therefore speak of the time until a byte is lost and after a pause.
- `readSerialPort` may fill all of `rBuf_`, which is then printed without an end.
- `CoInitializeSecurity` succeeds once in a process; main calls GetComPort once, a
  second call would find no service. `PortFinder` lets it succeed or fail each time.

## 4. Proofs

`DataDispatcherProofs` proves, for any notifiers, clients, number of data and starts:
`TypeCorrect`, `WorkerNeverDeadlocksOnItself`, `LeakedLockShutsInNothing`,
`DeliveredInOrder`, `StopLosesNothing`, and `RefinesFifoBroadcast`: every safety
property of the run `dispatcher`, the refinement included. None of these is inductive.
The invariant `Inv` adds to the types

- how many data there are (`CountInv`): a datum that is being notified has a number
  that was issued, so what is pushed stays within the type;
- who holds the lock (`LockInv`): a worker in its critical section holds it under its
  own number; a lock held outside of one belongs to a worker that found a stop and an
  empty queue, and the queue stays empty because nobody can push without the lock;
- where delivery stands (`QueueInv`, `RegistrationInv`, `RoundInv`): the queue is the
  end of `accepted`; the datum in the worker's hands is the one before it; during a
  round the callbacks before `next` have it and those from `next` on do not.

The refinement then follows action by action: Notify publishes, AddRecepient subscribes,
InvokeCallback delivers, and every other step is a stutter. `DispatcherAssumption`
(the bounds are natural numbers) is the only assumption.

`RotaryEncoderProofs` proves, for any number of encoders, turns and missed moves,
`EncoderTypeCorrect`, `EncoderCountsClicks` and `EncoderDebounces`. The invariant gives
each state of `ttable` the phase it stands for and its distance from the last rest
position (`PhaseOf`, `Offset`): the position read last is always four times the clicks
reported plus that distance (`CountInv`), and a knob that has moved once since is one
phase further, so that either contact pattern that can then be read is the old or the
new one (`OneContactChanges`). Three lemmas about the table (`TableStays`,
`TableForward`, `TableBackward`) carry the step. `SeenInv` says which patterns must have
been read to be in a state, from which `EncoderDebounces` follows.

`SimRunnerProofs` proves, for any number of definitions, sessions, runs and stops, every
invariant of the run `runner`. `ConnectedIffOpen` is inductive; `QuietWhenDisconnected`
needs that the request has been taken back when the session is closed (`ClosingInv`),
`FirstFrameFits` that nothing was counted before the first registration
(`FirstSessionInv`), and the type of `data_length_` that each session is registered at
most once (`CountInv`, with two lemmas on products).

`PanelInputsProofs` first shows that the loop implements `RotaryEncoder`: every step of
it is a step of the encoders or leaves them alone (`PanelImplementsEncoders`), so that
the two theorems about clicks hold of the whole board (`PanelCountsClicks`,
`PanelDebounces`). `PanelButtonsFollowList` is proved for any number of keys and slots.
`ButtonsFollowList` is not inductive: two slots with the same key could disagree. The
invariant adds that a key other than the first is in one slot at most (`KeysOnce`),
which a scan keeps because the keys that enter and the slots they enter are matched by
rank, and ranks in a set differ (`RanksDiffer`, from the theorems on finite sets);
`ListedButton` and `UnlistedButton` then follow the two ways a key leaves a scan.

`PortFinderProofs` proves `FinderTypeCorrect` and `FinderAccountsForSessions` for any
number of calls. What is held in the middle of Connect is not balanced; `HeldInv` says
by how much at each step, `ServiceInv` that a service to be cleaned is among what is
held (one more while Connect is at its last step over a leaked session), `SmoothInv`
what is live as long as nothing has failed in the call under way, and `LeakInv` that
what is held beyond the session of that call was left by failed queries.

`PanelLinkProofs` proves every invariant of the run `panel_link`, for any frames, buffer
of five bytes or more, number of frames and losses. `GonePortIsLeft` is inductive with
what the loop of the server knows of the port (`PortInv`). For `ReadFramesAreWhole`,
`StreamInv` says of the bytes that the Uno has not read (`Stream`, its buffer and then
the line) that they are all the frames after the first q, for some q, as long as no byte
was lost: a write adds a frame at the end (`FrameAppended`), a byte that comes in leaves
the stream as it is (`ByteDelivered`), a whole read takes a frame from its front
(`FiveBytesTaken`, `FrameRead`), and a read that times out leaves nothing, which is whole
again (`NothingIsWhole`).

`PanelShowsFrame` is about what the code does in two places: it compares the new angle
with the one it remembers, and remembers it before `UpdateServo` has accepted it. The
invariant (`Holding`) is that a servo stands at the remembered angle whenever that is
one it may take; a refused angle is then remembered without harm, because the next one
that is accepted differs from it. For the trim this needs that the angles of legal trims
are accepted and that the angle of any signed byte fits into the `char` it is stored in
(`TrimAngle`, `CharType`). The flap angle of a frame that makes no sense, or that is
read out of step, may be refused and then, cut off to a `char`, be remembered as an
angle that the servo does take; when that one is wanted next it is thought to be written
already. The flap is therefore claimed only while no byte was lost and all frames are
legal or have no flap positions, as the server's first one: `FlapAngle` bounds the
quotient of a legal frame, and `StreamInv` says that nothing else is read. A frame
without flap positions is remembered as the lowest angle, written or not
(`NoFlapAngle`), so that this one angle may be missed after such a frame, and no other
(`FlapHolding`); without the exemption TLC finds flaps that stay where they were when
such a frame is followed by one with the flaps up.

`WebSocketServerProofs` proves every invariant of the run `server`, and
`RefinesClientSessions`, for any clients, messages and frames. An event goes from the
handler to the queue to the event thread; the proof looks at the three as one line,
`Pipe`. A push and a take leave the line as it is (`EventPushed`, `EventTaken`), so that
only two kinds of steps matter: a handler that is called adds an event at the end, and the
event thread takes away the one at the front. The invariant is about the line: a
SUBSCRIBE is the first event of its client, which is not registered (`SubscribeInv`); an
UNSUBSCRIBE is the last, and its client is closed (`UnsubscribeInv`); who is alive or has
a message on the line is registered or has its SUBSCRIBE on it, who is registered and has
closed has its UNSUBSCRIBE on it (`Stands`); and the messages on the line are those that
arrived and were not handled, in order (`MessageInv`). `FrameInv` says that those whom the
loop of Broadcast has passed have the frame; a client that connects meanwhile is not
registered, which is again `Stands`. For the refinement, a session cannot end while a
message is left over because its UNSUBSCRIBE is then the front of the line and the last
of its client (`NothingLeftOver`), and the sets that Broadcast works on do not change
because of the lock (`RoundInv`).

`DataLinkProofs` proves every invariant of the run `link`, for any definitions of any
sizes, any that are refused, any delay and number of sessions. What the sim sends is the
words of the definitions it took, one after the other, `Block`, which `FlattenSeq` of the
community modules computes by recursion. `Induction` and `InductionUpTo` are stated about
a set of numbers (a set of natural numbers that is not empty has a least element), which
is enough to show that the recursion has a solution (`FlattenUpTo`, `FlattenEquation`) and
that it is a sequence over the same elements (`SolutionType`), longer when its parts are
(`SolutionLonger`) and with the elements of each part (`SolutionHas`). Hence the block of
some of the definitions is no longer than that of all of them (`BlockShorter`), and this
bounds the copy. `LinkInv` adds to the properties that the turns waited and those still to
wait are RetryDelay together (`DelayInv`), that `varSize` has grown by at most one full
block for each session and in the first one is exactly what is defined (`SizeInv`), and
that nothing is connected or sent before the first session (`NoSessionInv`).

Together the theorems state every invariant, refinement and action property of the runs
that pass, for every value of the constants under the named assumptions of the modules
(`DispatcherAssumption`, `ServerAssumption`, `LinkAssumption`, `EncoderAssumption`,
`KeypadAssumption`, `PanelAssumption`, `PortFinderAssumption`, `RunnerAssumption`): the
bounds are numbers, there is an encoder, a key and a slot, the buffer holds a frame, the
frames are five signed bytes. Each strengthened invariant was model-checked before it was
proved.

Only model-checked are the liveness properties, which are beyond the prover:
`DispatchedUnlessStopped`, `StopWithBacklogReturns`, `ClientIsServed`, `GoneIsForgotten`,
`QuitReturns`, `Reconnects`, `ButtonsFollowKeys`, `GearLightBlinks`, `FramesArrive`,
`QuitEndsRun` and `StopEndsRun`.

## 5. Plan

Done: every module of section 2, its runs and its proofs. What is left, in order:

1. Abstract specifications of the other components that interleave, with the refinement
   proved as for the dispatcher and the server: of `PanelLink`, the panel as a reader of
   whole frames; of `PanelInputs`, buttons and clicks without the Keypad's list.
2. The safety half of the liveness properties: that what makes each of them happen stays
   enabled (a step that is waited for cannot be disabled by another actor), as invariants.
3. `SimRunner` composed with the interface of the dispatcher, once the constructor hands
   the dispatcher over.

## 6. Not modelled

The contents of frames and messages, floating-point values, logging and timing in
seconds; the generated protocol buffers (`SimData`), which are not in the repository;
websocketpp, SimConnect, the serial driver and the Windows COM interfaces, except for
how they answer; callers that break the order stated in section 2 (Start twice, Stop
before Start), which is undefined behaviour of `std::thread` and `unique_ptr`.

Parts of the repository without a module, or with less than all of it:

- `FlightPanel.cpp`: main calls the port finder once, starts the threads and joins them,
  in one sequence without a branch that matters; each thread is modelled in its own
  module. That three of the loops have no exit, so that main never returns, and that the
  broadcaster would delete a server on the stack of main if it did, can be read off the
  code.
- `data_def`: the order of the words in `SimVars` against that of `SimVarDefs` is part of
  `DataLink`; the full tables and `ToSimData`, which copies field by field into
  generated classes, are data without behaviour.
- `sim_bridge`: `MapClientEvent` and `TransmitClientEvent` have no caller yet.
- The trim loop over encoder, link and simulator: the first step of it reads the wrong
  field (`TrimFromIndicator`), and a composition could show no more than that.
- The CALIBRATE and HALF_STEP builds, what the boards print, a power loss of the Uno,
  which devices `GetComPort(vid, pid)` picks, and the destructors of the port finder and
  of the serial port, which do not run because main does not return.
