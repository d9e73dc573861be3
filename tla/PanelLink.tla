------------------------------- MODULE PanelLink -------------------------------
(***************************************************************************)
(* The output side of the panel: SerialServer::Run of serial_server/ sends *)
(* a frame of five bytes through SerialPort at each turn, and the Uno of   *)
(* Arduino/uno-outputs.ino reads frames and sets two servos and two lights.*)
(*                                                                         *)
(* Between them are the driver and the line (`wire`) and the receive       *)
(* buffer of the Uno (`rx`), which are external.  A frame has no mark and  *)
(* no checksum: the Uno counts five bytes.  A byte is written <<n, i>>, the*)
(* i-th byte of the n-th frame sent, so that a frame read out of step can  *)
(* be told from a whole one; its value is looked up in `written`.          *)
(***************************************************************************)
EXTENDS Integers, Sequences

CONSTANTS
  Frames,        \* the values of instrumentData_ that are sent
  BufferSize,    \* bytes that rx holds, 63 on the Uno
  BlinkPeriod,   \* blink_period_ of the gear light, 5000 in the code
  Attached,      \* the servos that can be attached
  MaxFrames,     \* bound: frames sent
  MaxLosses      \* bound: bytes lost when the line loses one more

Byte == -128..127

ASSUME PanelAssumption ==
  /\ Frames \subseteq [1..5 -> Byte]
  /\ BufferSize \in Nat /\ BufferSize >= 5
  /\ Attached \subseteq {"trim", "flap"}
  /\ BlinkPeriod \in Nat \ {0, 1}
  /\ MaxFrames \in Nat /\ MaxLosses \in Nat

VARIABLES
  \* SerialServerImpl and SerialPortImpl
  pc,           \* "open", "check" (isConnected) or "write"
  connected,    \* SerialPortImpl::connected
  portAlive,    \* whether the device is still there
  written,      \* the frames sent
  \* the line
  wire,         \* bytes on their way
  rx,           \* the receive buffer of the Uno
  \* the Uno
  uno,          \* "setup", "loop" or "reading" (readBytes waits)
  attached,     \* the servos that are attached
  simData,      \* the five bytes of simData
  bytesRead,    \* what the last readBytes returned
  angle,        \* angle[s]: the angle remembered in `panel`
  servo,        \* servo[s]: the angle that servo s was sent to, 0 before
  led,          \* led[l]: the members of each Led
  \* history
  lost,         \* how many bytes were lost
  inStep,       \* no byte was lost since the Uno was in step
  lateWrites    \* writes tried after the device had gone

portVars  == <<pc, connected, portAlive, written, lateWrites>>
servoVars == <<angle, servo>>
unoVars   == <<uno, attached, simData, bytesRead, servoVars, led>>
lossVars  == <<lost, inStep>>

vars == <<portVars, wire, rx, unoVars, lossVars>>

Servos == {"trim", "flap"}
Leds == {"parking", "gear"}

bufSize == 5
NoByte == <<0, 0>>

\* The byte that arrives as <<n, i>>; simData is zero at first.
Value(byte) == IF byte = NoByte THEN 0 ELSE written[byte[1]][byte[2]]

trimPos        == Value(simData[1])
flapCnt        == Value(simData[2])
flapPos        == Value(simData[3])
landingGearPos == Value(simData[4])

Init ==
  /\ pc = "open" /\ connected = FALSE /\ portAlive = TRUE
  /\ written = <<>>
  /\ wire = <<>> /\ rx = <<>>
  /\ uno = "setup"
  /\ attached = {}
  /\ simData = [i \in 1..bufSize |-> NoByte]
  /\ bytesRead = 0
  /\ angle = [s \in Servos |-> 0]
  /\ servo = [s \in Servos |-> 0]
  /\ led = [l \in Leds |-> [state |-> "OFF", counter |-> 0, on |-> FALSE]]
  /\ lost = 0 /\ inStep = TRUE /\ lateWrites = 0

-----------------------------------------------------------------------------
(* The serial server and its port. *)

\* The constructor of SerialPortImpl, which any of its calls may cut short.
OpenPort ==
  /\ pc = "open"
  /\ connected' \in {FALSE, portAlive}
  /\ pc' = "check"
  /\ UNCHANGED <<portAlive, written, lateWrites, wire, rx, unoVars, lossVars>>

\* Altered: an error of ClearCommError is not remembered.
IsConnectedForgetful ==
  /\ pc = "check"
  /\ pc' = IF connected THEN "write" ELSE "check"
  /\ UNCHANGED <<connected, portAlive, written, lateWrites, wire, rx, unoVars, lossVars>>

\* isConnected: ClearCommError fails for a device that has gone, and may fail for
\* another reason.  connected never comes back; the loop sleeps and asks again.
IsConnected ==
  /\ pc = "check"
  /\ connected' \in {FALSE, connected /\ portAlive}
  /\ pc' = IF connected' THEN "write" ELSE "check"
  /\ UNCHANGED <<portAlive, written, lateWrites, wire, rx, unoVars, lossVars>>

\* writeSerialPort succeeds; what is read from the Uno is printed and dropped.
WriteFrame ==
  /\ pc = "write" /\ portAlive /\ Len(written) < MaxFrames
  /\ \E frame \in Frames : written' = Append(written, frame)
  /\ wire' = wire \o [i \in 1..bufSize |-> <<Len(written'), i>>]
  /\ pc' = "check"
  /\ UNCHANGED <<connected, portAlive, lateWrites, rx, unoVars, lossVars>>

\* writeSerialPort fails: the error is logged and the loop goes on.
WriteFails ==
  /\ pc = "write"
  /\ pc' = "check"
  /\ lateWrites' = IF portAlive THEN lateWrites ELSE lateWrites + 1
  /\ UNCHANGED <<connected, portAlive, written, wire, rx, unoVars, lossVars>>

\* The device goes, and with it what the driver had not sent yet.
PortDies ==
  /\ portAlive
  /\ portAlive' = FALSE
  /\ \E kept \in 0..Len(wire) :
       /\ wire' = SubSeq(wire, 1, kept)
       /\ lost' = lost + Len(wire) - kept
       /\ inStep' = (inStep /\ kept = Len(wire))
  /\ UNCHANGED <<pc, connected, written, lateWrites, rx, unoVars>>

-----------------------------------------------------------------------------
(* The line. *)

\* A byte comes in; the Uno drops it when its buffer is full.
Deliver ==
  /\ wire # <<>>
  /\ wire' = Tail(wire)
  /\ \/ /\ Len(rx) < BufferSize
        /\ rx' = Append(rx, Head(wire))
        /\ UNCHANGED lossVars
     \/ /\ Len(rx) = BufferSize
        /\ lost' = lost + 1 /\ inStep' = FALSE
        /\ UNCHANGED rx
  /\ UNCHANGED <<portVars, unoVars>>

LoseByte ==
  /\ wire # <<>> /\ lost < MaxLosses
  /\ wire' = Tail(wire)
  /\ lost' = lost + 1 /\ inStep' = FALSE
  /\ UNCHANGED <<portVars, rx, unoVars>>

-----------------------------------------------------------------------------
(* The Uno: lights. *)

\* Altered: the counter starts again at each update.
LedUpdateRestarting(l, state) ==
  LET counter == IF state = "BLINK" THEN 1 % BlinkPeriod ELSE l.counter
  IN  [state |-> state, counter |-> counter,
       on |-> state = "ON" \/ (state = "BLINK" /\ counter < BlinkPeriod \div 2)]

\* Altered: the counter runs on.
LedUpdateRunning(l, state) ==
  LET counter == IF state = "BLINK" THEN l.counter + 1 ELSE l.counter
  IN  [state |-> state, counter |-> counter,
       on |-> state = "ON" \/ (state = "BLINK" /\ counter < BlinkPeriod \div 2)]

\* Led::Update and Write.
LedUpdate(l, state) ==
  LET start   == IF state = "BLINK" /\ l.state # "BLINK" THEN 0 ELSE l.counter
      counter == IF state = "BLINK" THEN (start + 1) % BlinkPeriod ELSE start
  IN  [state |-> state, counter |-> counter,
       on |-> state = "ON" \/ (state = "BLINK" /\ counter < BlinkPeriod \div 2)]

GearLightState ==
  CASE landingGearPos = 0   -> "OFF"
    [] landingGearPos = 100 -> "ON"
    [] OTHER                -> "BLINK"

\* parkingBrakeOn is a bool: for a byte other than 0 and 1 the compiler decides.
ParkingLightStates ==
  CASE Value(simData[5]) = 0 -> {"OFF"}
    [] Value(simData[5]) = 1 -> {"ON"}
    [] OTHER                 -> {"OFF", "ON"}

UpdateLed ==
  \E parking \in ParkingLightStates' :
    led' = [parking |-> LedUpdate(led["parking"], parking),
            gear    |-> LedUpdate(led["gear"], GearLightState')]

-----------------------------------------------------------------------------
(* The Uno: servos. *)

MaxAngle == 113
MinAngle == [trim |-> 57, flap |-> 64]

Abs(n) == IF n < 0 THEN -n ELSE n

\* round(n / d): halves go away from zero.
Round(n, d) ==
  LET magnitude == (2 * Abs(n) + Abs(d)) \div (2 * Abs(d))
  IN  IF (n < 0) = (d < 0) THEN magnitude ELSE -magnitude

\* The conversion of an int to the char of InstrumentStatus.
ToChar(n) == ((n + 128) % 256) - 128

convertTrimAngle(trim) == Round((100 - trim) * (MaxAngle - 57) + 57 * 200, 200)

\* With no flap positions the ratio is not a number (or infinite) and its cast to
\* int is undefined: zero, or the end of the range of int.
UndefinedCasts == {0, -32768}

convertFlapAngles(cnt, pos) ==
  IF cnt = 0 THEN {cast + MinAngle["flap"] : cast \in UndefinedCasts}
  ELSE {Round(pos * (MaxAngle - MinAngle["flap"]), cnt) + MinAngle["flap"]}

\* Altered: the ends of the range are refused.
ServoAcceptsInside(s, a) == s \in attached /\ MinAngle[s] < a /\ a < MaxAngle

\* The test of UpdateServo.
ServoAccepts(s, a) == s \in attached /\ MinAngle[s] <= a /\ a <= MaxAngle

\* An angle other than the one remembered is remembered, and written if it may be.
UpdateServos(wanted) ==
  /\ angle' = [s \in Servos |->
                 IF wanted[s] # angle[s] THEN ToChar(wanted[s]) ELSE angle[s]]
  /\ servo' = [s \in Servos |->
                 IF wanted[s] # angle[s] /\ ServoAccepts(s, wanted[s])
                 THEN wanted[s] ELSE servo[s]]

-----------------------------------------------------------------------------
(* The Uno: setup and loop. *)

Setup ==
  /\ uno = "setup"
  /\ uno' = "loop"
  /\ attached' = Attached
  /\ led' = [l \in Leds |-> LedUpdate(led[l], "ON")]
  /\ UNCHANGED <<portVars, wire, rx, simData, bytesRead, servoVars, lossVars>>

\* UpdateInstruments, the second half of a turn of the loop, with what the first half
\* has read: after a short read it returns at once and the lights do not go on.
UpdateInstruments ==
  IF bytesRead' = bufSize
  THEN /\ \E flap \in convertFlapAngles(flapCnt', flapPos') :
            UpdateServos([trim |-> convertTrimAngle(trimPos'), flap |-> flap])
       /\ UpdateLed
  ELSE UNCHANGED <<servoVars, led>>

\* CheckSerial finds no byte.
NothingToRead ==
  /\ uno = "loop" /\ rx = <<>>
  /\ UNCHANGED <<portVars, wire, rx, uno, attached, simData, bytesRead, lossVars>>
  /\ UpdateInstruments

\* Altered: a frame is read when more than a frame is there.
CheckSerialMore ==
  /\ uno = "loop" /\ Len(rx) > bufSize
  /\ uno' = "reading"
  /\ UNCHANGED <<portVars, wire, rx, attached, simData, bytesRead, servoVars, led, lossVars>>

\* CheckSerial finds a byte and calls readBytes.
CheckSerial ==
  /\ uno = "loop" /\ rx # <<>>
  /\ uno' = "reading"
  /\ UNCHANGED <<portVars, wire, rx, attached, simData, bytesRead, servoVars, led, lossVars>>

\* readBytes has five bytes.
ReadBytes ==
  /\ uno = "reading" /\ Len(rx) >= bufSize
  /\ simData' = SubSeq(rx, 1, bufSize)
  /\ rx' = SubSeq(rx, bufSize + 1, Len(rx))
  /\ bytesRead' = bufSize
  /\ uno' = "loop"
  /\ UNCHANGED <<portVars, wire, attached, lossVars>>
  /\ UpdateInstruments

\* Altered: the time-out does not wait for bytes that are on their way.
ReadTimeOutEarly ==
  /\ uno = "reading" /\ Len(rx) < bufSize
  /\ simData' = rx \o SubSeq(simData, Len(rx) + 1, bufSize)
  /\ rx' = <<>>
  /\ bytesRead' = Len(rx)
  /\ uno' = "loop"
  /\ inStep' = TRUE
  /\ UNCHANGED <<portVars, wire, attached, servoVars, led, lost>>

\* readBytes gives up when nothing came for a second, much longer than the bytes of
\* a frame take, and leaves what came in simData.  Everything sent before has been
\* read or lost, so that the next byte begins a frame.
ReadTimeOut ==
  /\ uno = "reading" /\ Len(rx) < bufSize /\ wire = <<>>
  /\ simData' = rx \o SubSeq(simData, Len(rx) + 1, bufSize)
  /\ rx' = <<>>
  /\ bytesRead' = Len(rx)
  /\ uno' = "loop"
  /\ inStep' = TRUE
  /\ UNCHANGED <<portVars, wire, attached, lost>>
  /\ UpdateInstruments

-----------------------------------------------------------------------------
SerialServer == OpenPort \/ IsConnected \/ WriteFrame \/ WriteFails

Uno == Setup \/ NothingToRead \/ CheckSerial \/ ReadBytes \/ ReadTimeOut

Next == SerialServer \/ PortDies \/ Deliver \/ LoseByte \/ Uno

Spec == Init /\ [][Next]_vars

\* The Uno runs and bytes arrive; the server may stop to send at any time.
FairSpec == Spec /\ WF_vars(Uno) /\ WF_vars(Deliver)

-----------------------------------------------------------------------------
Bytes == (Nat \ {0}) \X (1..bufSize)

TypeOK ==
  /\ pc \in {"open", "check", "write"}
  /\ connected \in BOOLEAN /\ portAlive \in BOOLEAN
  /\ written \in Seq(Frames)
  /\ wire \in Seq(Bytes)
  /\ rx \in Seq(Bytes) /\ Len(rx) <= BufferSize
  /\ uno \in {"setup", "loop", "reading"}
  /\ attached \subseteq Servos
  /\ simData \in [1..bufSize -> Bytes \cup {NoByte}]
  /\ bytesRead \in 0..bufSize
  /\ angle \in [Servos -> Byte]
  /\ servo \in [Servos -> 0..MaxAngle]
  /\ led \in [Leds -> [state : {"OFF", "ON", "BLINK"}, counter : 0..BlinkPeriod - 1,
                       on : BOOLEAN]]
  /\ lost \in Nat /\ inStep \in BOOLEAN /\ lateWrites \in Nat

\* As long as no byte is lost, and again after a loss once the server has paused for
\* the time-out of a read, what the Uno takes for a frame is one: its five bytes
\* belong together.
FramesInStep ==
  inStep /\ bytesRead = bufSize /\ uno # "reading" =>
    \E n \in 1..Len(written) : \A i \in 1..bufSize : simData[i] = <<n, i>>

LegalFlaps(frame) == frame[2] > 0 /\ frame[3] \in 0..frame[2]
NoFlaps(frame) == frame[2] = 0

\* The flap angle that no positions are remembered as, whether or not it was refused.
MayMissLowest == \E n \in 1..Len(written) : NoFlaps(written[n])

\* Between two turns of the loop the panel shows the frame read last, although the
\* angles are remembered before the servos take them and are written only when they
\* change: the trim servo stands at its angle whenever the trim is one, whatever it
\* refused before; the flap servo does so as long as all frames make sense, but after a
\* frame without flap positions it may not be where it should be for the lowest angle;
\* and the lights that do not blink are on or off as they should be.
InstrumentsShowFrame ==
  uno = "loop" /\ bytesRead = bufSize =>
    /\ "trim" \in attached /\ trimPos \in -100..100 =>
         servo["trim"] = convertTrimAngle(trimPos)
    /\ /\ "flap" \in attached /\ lost = 0 /\ flapCnt # 0
       /\ \A n \in 1..Len(written) : LegalFlaps(written[n]) \/ NoFlaps(written[n])
       => LET wanted == convertFlapAngles(flapCnt, flapPos)
          IN  wanted = {servo["flap"]} \/ (wanted = {MinAngle["flap"]} /\ MayMissLowest)
    /\ landingGearPos \in {0, 100} => led["gear"].on = (landingGearPos = 100)
    /\ Value(simData[5]) \in {0, 1} => led["parking"].on = (Value(simData[5]) = 1)

\* While the gear is shown to be moving its light goes on and off for ever.
GearLightBlinks ==
  <>[](bytesRead = bufSize /\ landingGearPos \notin {0, 100}) =>
    []<>led["gear"].on /\ []<>~led["gear"].on

OnTheWay(n) == \E k \in 1..Len(wire) : wire[k][1] = n

\* A frame on its way, or a later one, is read and shown, unless a byte is lost: even
\* if bytes were lost before, as soon as the Uno is in step again.
FramesArrive ==
  \A n \in 1..MaxFrames :
    OnTheWay(n) ~> (~inStep \/ (uno = "loop" /\ bytesRead = bufSize /\ simData[1][1] >= n))

\* A port that has gone is written to once at most, when it goes between isConnected
\* and the write: the server does not go on with it.
DeadPortIsLeft == lateWrites <= 1

=============================================================================
