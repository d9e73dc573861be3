----------------------------- MODULE RotaryEncoder -----------------------------
(***************************************************************************)
(* The encoders of Arduino/promicro-panel-inputs.ino: knobs that close two *)
(* contacts in a pattern of four phases per click, and the loop that reads *)
(* the contacts of one encoder after the other, decodes the pattern with   *)
(* `ttable` (full step) and reports each click, as a pulse of a joystick   *)
(* button or, for the trim wheel, as a byte on the serial line.            *)
(*                                                                         *)
(* The two contacts are read one after the other and the knob does not     *)
(* wait: it may move between the two reads, and while the loop is busy     *)
(* with the other inputs or in delay(50).                                  *)
(***************************************************************************)
EXTENDS Integers, Sequences

CONSTANTS
  NumRotaries,   \* the number of encoders, 3 in the code
  MaxTurn,       \* bound: phases that a knob is away from where it started
  MaxMissed      \* bound: moves of a knob before its last move was read

ASSUME EncoderAssumption ==
  NumRotaries \in Nat \ {0} /\ MaxTurn \in Nat /\ MaxMissed \in Nat

VARIABLES
  \* the knobs
  turned,     \* turned[k]: phases that knob k was turned, clockwise positive
  phase,      \* phase[k]: its place in the pattern, 0 at rest
  \* the program
  rotary,     \* the encoder whose turn it is in CheckAllEncoders
  pin2,       \* the contact read first, 2 before the read
  state,      \* rotaries[k].state
  out,        \* out[k]: clicks reported clockwise less counterclockwise
  \* history
  sampled,    \* sampled[k]: what `turned` was at the position read last
  settled,    \* settled[k]: knob k has not moved since its contacts were read
  missed,     \* missed[k]: how often knob k moved again before it was read
  seen        \* seen[k]: contact patterns read since the knob was last at rest

knobVars == <<turned, phase>>
historyVars == <<sampled, settled, missed, seen>>
vars == <<knobVars, rotary, pin2, state, out, historyVars>>

Rotaries == 1..NumRotaries

States == {"START", "CW_FINAL", "CW_BEGIN", "CW_NEXT", "CCW_BEGIN", "CCW_FINAL",
           "CCW_NEXT"}

\* The state after a state and the contacts 00, 01, 10, 11 (pin2, pin1).
ttable ==
  [START     |-> <<"START",    "CW_BEGIN",  "CCW_BEGIN", "START">>,
   CW_FINAL  |-> <<"CW_NEXT",  "START",     "CW_FINAL",  "START">>,
   CW_BEGIN  |-> <<"CW_NEXT",  "CW_BEGIN",  "START",     "START">>,
   CW_NEXT   |-> <<"CW_NEXT",  "CW_BEGIN",  "CW_FINAL",  "START">>,
   CCW_BEGIN |-> <<"CCW_NEXT", "START",     "CCW_BEGIN", "START">>,
   CCW_FINAL |-> <<"CCW_NEXT", "CCW_FINAL", "START",     "START">>,
   CCW_NEXT  |-> <<"CCW_NEXT", "CCW_FINAL", "CCW_BEGIN", "START">>]

\* The direction that comes with it: 1 for DIR_CW, -1 for DIR_CCW.
Direction(s, pins) ==
  IF pins = 3 /\ s = "CW_FINAL" THEN 1
  ELSE IF pins = 3 /\ s = "CCW_FINAL" THEN -1
  ELSE 0

\* The contacts of a phase: clockwise they go 11, 01, 00, 10.
Contact1(p) == IF p \in {0, 1} THEN 1 ELSE 0
Contact2(p) == IF p \in {0, 3} THEN 1 ELSE 0

NextPhase(p) == IF p = 3 THEN 0 ELSE p + 1
PrevPhase(p) == IF p = 0 THEN 3 ELSE p - 1

Init ==
  /\ turned = [k \in Rotaries |-> 0]
  /\ phase = [k \in Rotaries |-> 0]
  /\ rotary = 1
  /\ pin2 = 2
  /\ state = [k \in Rotaries |-> "START"]
  /\ out = [k \in Rotaries |-> 0]
  /\ sampled = [k \in Rotaries |-> 0]
  /\ settled = [k \in Rotaries |-> TRUE]
  /\ missed = [k \in Rotaries |-> 0]
  /\ seen = [k \in Rotaries |-> {}]

MayMove(k) == settled[k] \/ missed[k] < MaxMissed

\* Somebody turns knob k by one phase.
TurnClockwise(k) ==
  /\ turned[k] < MaxTurn /\ MayMove(k)
  /\ turned' = [turned EXCEPT ![k] = @ + 1]
  /\ phase' = [phase EXCEPT ![k] = NextPhase(@)]
  /\ settled' = [settled EXCEPT ![k] = FALSE]
  /\ missed' = IF settled[k] THEN missed ELSE [missed EXCEPT ![k] = @ + 1]
  /\ UNCHANGED <<rotary, pin2, state, out, sampled, seen>>

TurnCounterclockwise(k) ==
  /\ turned[k] > -MaxTurn /\ MayMove(k)
  /\ turned' = [turned EXCEPT ![k] = @ - 1]
  /\ phase' = [phase EXCEPT ![k] = PrevPhase(@)]
  /\ settled' = [settled EXCEPT ![k] = FALSE]
  /\ missed' = IF settled[k] THEN missed ELSE [missed EXCEPT ![k] = @ + 1]
  /\ UNCHANGED <<rotary, pin2, state, out, sampled, seen>>

\* rotary_process: digitalRead(pin2).
ReadPin2 ==
  /\ pin2 = 2
  /\ pin2' = Contact2(phase[rotary])
  /\ UNCHANGED <<knobVars, rotary, state, out, historyVars>>

\* The knob has not moved since pin2 was read, or its move left pin2 alone.
StillAt(k) == pin2 = Contact2(phase[k])

\* Where a knob that moved by one phase since it was read stands for the reader:
\* at its new position, or still at the old one when pin2 was read before.
Standing(k) == IF StillAt(k) THEN turned[k] ELSE sampled[k]

\* The pattern that rotary_process makes of the two reads.
PinState == 2 * pin2 + Contact1(phase[rotary])

\* Altered: every return to rest counts as the end of a click.
DecodeHasty(s, pins) ==
  [state |-> ttable[s][pins + 1],
   direction |-> IF pins = 3 /\ s \in {"CW_FINAL", "CW_NEXT"} THEN 1
                 ELSE IF pins = 3 /\ s \in {"CCW_FINAL", "CCW_NEXT"} THEN -1
                 ELSE 0]

\* Altered: a step back within a click starts over.
DecodeForgetful(s, pins) ==
  [state |-> IF s = "CW_NEXT" /\ pins = 1 THEN "START" ELSE ttable[s][pins + 1],
   direction |-> Direction(s, pins)]

\* The new state and the direction that the loop reports.
Decode(s, pins) == [state |-> ttable[s][pins + 1], direction |-> Direction(s, pins)]

\* Altered: the loop over the encoders goes one too far.
FollowingRotaryPast == IF rotary > NumRotaries THEN 1 ELSE rotary + 1

FollowingRotary == IF rotary = NumRotaries THEN 1 ELSE rotary + 1

\* digitalRead(pin1), the table, and the report of a click: a joystick pulse, or
\* SetHatSwitch with 0 (byte 1) or 180 (byte 2) for the trim wheel.
ReadPin1 ==
  LET decoded == Decode(state[rotary], PinState)
  IN  /\ pin2 # 2
      /\ state' = [state EXCEPT ![rotary] = decoded.state]
      /\ out' = [out EXCEPT ![rotary] = @ + decoded.direction]
      /\ sampled' = [sampled EXCEPT ![rotary] = Standing(rotary)]
      /\ settled' = [settled EXCEPT ![rotary] = StillAt(rotary)]
      /\ seen' = [seen EXCEPT ![rotary] = IF PinState = 3 THEN {} ELSE @ \cup {PinState}]
      /\ pin2' = 2
      /\ rotary' = FollowingRotary
      /\ UNCHANGED <<knobVars, missed>>

Next ==
  \/ \E k \in Rotaries : TurnClockwise(k) \/ TurnCounterclockwise(k)
  \/ ReadPin2
  \/ ReadPin1

Spec == Init /\ [][Next]_vars

-----------------------------------------------------------------------------
TypeOK ==
  /\ turned \in [Rotaries -> Int]
  /\ phase \in [Rotaries -> 0..3]
  /\ rotary \in Rotaries
  /\ pin2 \in 0..2
  /\ state \in [Rotaries -> States]
  /\ out \in [Rotaries -> Int]
  /\ sampled \in [Rotaries -> Int]
  /\ settled \in [Rotaries -> BOOLEAN]
  /\ missed \in [Rotaries -> 0..MaxMissed]
  /\ seen \in [Rotaries -> SUBSET (0..2)]

\* A knob that never moved twice before it was read, and that rests, has had as
\* many clicks reported as it was turned, each way, however it went back and
\* forth within a click, and whatever was read halfway through a move.
ClicksAreCounted ==
  \A k \in Rotaries :
    missed[k] = 0 /\ settled[k] /\ phase[k] = 0 => turned[k] = 4 * out[k]

\* However fast a knob moves, a click is reported one at a time and only when the
\* knob has come to rest after all three other patterns were read: a contact that
\* bounces, which shows two patterns, never makes one.
ClickNeedsAllPhases ==
  [][\A k \in Rotaries :
       out'[k] # out[k] =>
         /\ seen[k] = 0..2 /\ seen'[k] = {}
         /\ out'[k] - out[k] \in {-1, 1}]_vars

=============================================================================
