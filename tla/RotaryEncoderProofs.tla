-------------------------- MODULE RotaryEncoderProofs --------------------------
(***************************************************************************)
(* Proofs about RotaryEncoder, for any number of encoders and any turning. *)
(***************************************************************************)
EXTENDS RotaryEncoder, TLAPS

\* How many phases a state is away from the last click, and the phase it is in.
Offset(s) ==
  CASE s = "START" -> 0
    [] s = "CW_BEGIN" -> 1
    [] s = "CW_NEXT" -> 2
    [] s = "CW_FINAL" -> 3
    [] s = "CCW_BEGIN" -> -1
    [] s = "CCW_NEXT" -> -2
    [] s = "CCW_FINAL" -> -3

PhaseOf(s) ==
  CASE s = "START" -> 0
    [] s \in {"CW_BEGIN", "CCW_FINAL"} -> 1
    [] s \in {"CW_NEXT", "CCW_NEXT"} -> 2
    [] s \in {"CW_FINAL", "CCW_BEGIN"} -> 3

\* The patterns that must have been read for the table to be in a state.
Needed(s) ==
  CASE s = "START" -> {}
    [] s = "CW_BEGIN" -> {1}
    [] s = "CW_NEXT" -> {0, 1}
    [] s = "CCW_BEGIN" -> {2}
    [] s = "CCW_NEXT" -> {0, 2}
    [] s \in {"CW_FINAL", "CCW_FINAL"} -> {0, 1, 2}

-----------------------------------------------------------------------------
(* The table. *)

\* Reading the pattern of the same phase keeps the state.
LEMMA TableStays ==
  ASSUME NEW s \in States
  PROVE  LET pins == 2 * Contact2(PhaseOf(s)) + Contact1(PhaseOf(s))
         IN  ttable[s][pins + 1] = s /\ Direction(s, pins) = 0
  BY DEF States, PhaseOf, Contact1, Contact2, ttable, Direction

\* Reading the pattern of the next phase moves the state on by one, over a click
\* or within one.
LEMMA TableForward ==
  ASSUME NEW s \in States
  PROVE  LET p == NextPhase(PhaseOf(s))
             pins == 2 * Contact2(p) + Contact1(p)
             t == ttable[s][pins + 1]
         IN  PhaseOf(t) = p /\ 4 * Direction(s, pins) + Offset(t) = Offset(s) + 1
<1> USE DEF PhaseOf, NextPhase, Contact1, Contact2, ttable, Direction, Offset
<1>1. CASE s = "START"
  BY <1>1
<1>2. CASE s = "CW_BEGIN"
  BY <1>2
<1>3. CASE s = "CW_NEXT"
  BY <1>3
<1>4. CASE s = "CW_FINAL"
  BY <1>4
<1>5. CASE s = "CCW_BEGIN"
  BY <1>5
<1>6. CASE s = "CCW_NEXT"
  BY <1>6
<1>7. CASE s = "CCW_FINAL"
  BY <1>7
<1>8. QED
  BY <1>1, <1>2, <1>3, <1>4, <1>5, <1>6, <1>7 DEF States

\* Reading the pattern of the previous phase moves it back by one.
LEMMA TableBackward ==
  ASSUME NEW s \in States
  PROVE  LET p == PrevPhase(PhaseOf(s))
             pins == 2 * Contact2(p) + Contact1(p)
             t == ttable[s][pins + 1]
         IN  PhaseOf(t) = p /\ 4 * Direction(s, pins) + Offset(t) = Offset(s) - 1
<1> USE DEF PhaseOf, PrevPhase, Contact1, Contact2, ttable, Direction, Offset
<1>1. CASE s = "START"
  BY <1>1
<1>2. CASE s = "CW_BEGIN"
  BY <1>2
<1>3. CASE s = "CW_NEXT"
  BY <1>3
<1>4. CASE s = "CW_FINAL"
  BY <1>4
<1>5. CASE s = "CCW_BEGIN"
  BY <1>5
<1>6. CASE s = "CCW_NEXT"
  BY <1>6
<1>7. CASE s = "CCW_FINAL"
  BY <1>7
<1>8. QED
  BY <1>1, <1>2, <1>3, <1>4, <1>5, <1>6, <1>7 DEF States

\* Whatever is read, the table ends in a state for which enough was read, and a
\* click comes only at rest, out of a state for which all was read.
LEMMA TableNeeds ==
  ASSUME NEW s \in States, NEW pins \in 0..3
  PROVE  /\ ttable[s][pins + 1] \in States
         /\ Direction(s, pins) \in {-1, 0, 1}
         /\ pins # 3 => Needed(ttable[s][pins + 1]) \subseteq Needed(s) \cup {pins}
         /\ pins = 3 => ttable[s][pins + 1] = "START"
         /\ Direction(s, pins) # 0 => pins = 3 /\ Needed(s) = 0..2
  BY DEF States, ttable, Direction, Needed

\* One phase changes one contact: a reader that has the other contact from
\* before the move sees the old pattern or the new one.
LEMMA OneContactChanges ==
  ASSUME NEW p \in 0..3
  PROVE  /\ NextPhase(p) \in 0..3 /\ PrevPhase(p) \in 0..3
         /\ Contact2(NextPhase(p)) # Contact2(p) => Contact1(NextPhase(p)) = Contact1(p)
         /\ Contact2(PrevPhase(p)) # Contact2(p) => Contact1(PrevPhase(p)) = Contact1(p)
         /\ Contact1(p) \in {0, 1} /\ Contact2(p) \in {0, 1}
  BY DEF NextPhase, PrevPhase, Contact1, Contact2

-----------------------------------------------------------------------------
(* The invariant. *)

\* The state says how far the knob, as last read, is past the last click; a move
\* that was not read is one phase either way.
CountInv(k) ==
  missed[k] = 0 =>
    /\ sampled[k] = 4 * out[k] + Offset(state[k])
    /\ settled[k] => turned[k] = sampled[k] /\ phase[k] = PhaseOf(state[k])
    /\ ~settled[k] =>
         \/ turned[k] = sampled[k] + 1 /\ phase[k] = NextPhase(PhaseOf(state[k]))
         \/ turned[k] = sampled[k] - 1 /\ phase[k] = PrevPhase(PhaseOf(state[k]))
    /\ rotary = k /\ pin2 # 2 =>
         pin2 = Contact2(phase[k]) \/ pin2 = Contact2(PhaseOf(state[k]))

SeenInv(k) == Needed(state[k]) \subseteq seen[k]

Inv == TypeOK /\ \A k \in Rotaries : CountInv(k) /\ SeenInv(k)

\* At first the knobs are at rest and nothing was read.
LEMMA InitInv == Init => Inv
  BY EncoderAssumption
  DEF EncoderAssumption, Init, Inv, TypeOK, CountInv, SeenInv, States, Rotaries,
      Offset, PhaseOf, Needed

\* Turning preserves types.
LEMMA TypeStep == TypeOK /\ [Next]_vars => TypeOK'
<1> SUFFICES ASSUME TypeOK, [Next]_vars PROVE TypeOK'
  OBVIOUS
<1> USE DEF TypeOK, knobVars, historyVars
<1>1. ASSUME NEW k \in Rotaries, TurnClockwise(k) PROVE TypeOK'
  <2>1. NextPhase(phase[k]) \in 0..3
    BY OneContactChanges
  <2>2. missed' \in [Rotaries -> 0..MaxMissed]
    BY <1>1, EncoderAssumption DEF EncoderAssumption, TurnClockwise, MayMove
  <2>3. settled' \in [Rotaries -> BOOLEAN]
    BY <1>1, Zenon DEF TurnClockwise
  <2>4. QED
    BY <1>1, <2>1, <2>2, <2>3 DEF TurnClockwise
<1>2. ASSUME NEW k \in Rotaries, TurnCounterclockwise(k) PROVE TypeOK'
  <2>1. PrevPhase(phase[k]) \in 0..3
    BY OneContactChanges
  <2>2. missed' \in [Rotaries -> 0..MaxMissed]
    BY <1>2, EncoderAssumption DEF EncoderAssumption, TurnCounterclockwise, MayMove
  <2>3. settled' \in [Rotaries -> BOOLEAN]
    BY <1>2, Zenon DEF TurnCounterclockwise
  <2>4. QED
    BY <1>2, <2>1, <2>2, <2>3 DEF TurnCounterclockwise
<1>3. CASE ReadPin2
  BY <1>3, OneContactChanges DEF ReadPin2
<1>4. CASE ReadPin1
  <2>1. PinState \in 0..3 /\ pin2 \in {0, 1}
    BY <1>4, OneContactChanges DEF ReadPin1, PinState
  <2>2. /\ Decode(state[rotary], PinState).state \in States
        /\ Decode(state[rotary], PinState).direction \in {-1, 0, 1}
    BY <2>1, TableNeeds DEF Decode
  <2>3. state' \in [Rotaries -> States] /\ out' \in [Rotaries -> Int]
    BY <1>4, <2>2 DEF ReadPin1
  <2>4. sampled' \in [Rotaries -> Int]
    BY <1>4 DEF ReadPin1, Standing
  <2>5. settled' \in [Rotaries -> BOOLEAN]
    <3>1. StillAt(rotary) \in BOOLEAN
      BY Zenon DEF StillAt
    <3>2. QED
      BY <1>4, <3>1, Zenon DEF ReadPin1
  <2>6. seen' \in [Rotaries -> SUBSET (0..2)]
    BY <1>4, <2>1 DEF ReadPin1
  <2>7. rotary' \in Rotaries /\ pin2' \in 0..2
    BY <1>4, EncoderAssumption DEF EncoderAssumption, ReadPin1, FollowingRotary, Rotaries
  <2>8. QED
    BY <1>4, <2>3, <2>4, <2>5, <2>6, <2>7 DEF ReadPin1
<1>5. CASE UNCHANGED vars
  BY <1>5 DEF vars
<1>6. QED
  BY <1>1, <1>2, <1>3, <1>4, <1>5 DEF Next

\* A move of a knob preserves the invariant of every knob: the second move
\* before a reading counts as missed.
LEMMA TurnStep ==
  ASSUME Inv, NEW j \in Rotaries, TurnClockwise(j) \/ TurnCounterclockwise(j),
         NEW k \in Rotaries
  PROVE  CountInv(k)' /\ SeenInv(k)'
<1>1. SeenInv(k)'
  BY DEF Inv, SeenInv, TurnClockwise, TurnCounterclockwise
<1>2. TypeOK /\ CountInv(k)
  BY DEF Inv
<1>3. CASE k # j
  BY <1>2, <1>3, <1>1 DEF CountInv, TypeOK, TurnClockwise, TurnCounterclockwise
<1>4. CASE k = j
  <2> SUFFICES ASSUME missed'[k] = 0 PROVE CountInv(k)'
    BY <1>1, <1>4 DEF CountInv
  <2>1. settled[k] /\ missed[k] = 0
    BY <1>2, <1>4 DEF TypeOK, TurnClockwise, TurnCounterclockwise
  <2>2. /\ sampled[k] = 4 * out[k] + Offset(state[k])
        /\ turned[k] = sampled[k] /\ phase[k] = PhaseOf(state[k])
        /\ rotary = k /\ pin2 # 2 => pin2 = Contact2(PhaseOf(state[k]))
    BY <1>2, <2>1 DEF CountInv
  <2>3. /\ UNCHANGED <<rotary, pin2, state, out, sampled>>
        /\ settled'[k] = FALSE
        /\ \/ turned'[k] = turned[k] + 1 /\ phase'[k] = NextPhase(phase[k])
           \/ turned'[k] = turned[k] - 1 /\ phase'[k] = PrevPhase(phase[k])
    BY <1>2, <1>4 DEF TypeOK, TurnClockwise, TurnCounterclockwise
  <2>4. QED
    BY <2>2, <2>3 DEF CountInv
<1>5. QED
  BY <1>1, <1>3, <1>4

\* Reading the second contact preserves the invariant of every knob: the pattern
\* is that of the last position or of the new one, and the table follows.
LEMMA ReadPin1Step ==
  ASSUME Inv, ReadPin1, NEW k \in Rotaries
  PROVE  CountInv(k)' /\ SeenInv(k)'
<1>1. TypeOK /\ CountInv(k) /\ SeenInv(k)
  BY DEF Inv
<1>2. CASE k # rotary
  BY <1>1, <1>2 DEF CountInv, SeenInv, TypeOK, ReadPin1, knobVars
<1>3. CASE k = rotary
  <2> DEFINE s == state[k]
             t == ttable[s][PinState + 1]
             d == Direction(s, PinState)
  <2>1. s \in States /\ pin2 \in {0, 1} /\ PinState \in 0..3
    BY <1>1, <1>3, OneContactChanges DEF TypeOK, ReadPin1, PinState
  <2>2. /\ state'[k] = t /\ out'[k] = out[k] + d
        /\ sampled'[k] = Standing(k) /\ settled'[k] = StillAt(k)
        /\ seen'[k] = IF PinState = 3 THEN {} ELSE seen[k] \cup {PinState}
        /\ pin2' = 2
        /\ UNCHANGED <<turned, phase, missed>>
    BY <1>1, <1>3 DEF TypeOK, ReadPin1, Decode, knobVars
  <2>3. SeenInv(k)'
    <3>1. /\ PinState # 3 => Needed(t) \subseteq Needed(s) \cup {PinState}
          /\ PinState = 3 => t = "START"
      BY <2>1, TableNeeds
    <3>2. QED
      BY <3>1, <2>2, <1>1 DEF SeenInv, Needed
  <2>4. ASSUME missed[k] = 0
        PROVE  CountInv(k)'
    <3> DEFINE p == PhaseOf(s)
    <3>1. p \in 0..3 /\ Offset(s) \in Int /\ out[k] \in Int /\ sampled[k] \in Int
      BY <1>1, <2>1 DEF PhaseOf, Offset, States, TypeOK
    <3>2. sampled[k] = 4 * out[k] + Offset(s)
      BY <1>1, <2>4 DEF CountInv
    <3>3. CASE settled[k]
      <4>1. turned[k] = sampled[k] /\ phase[k] = p /\ pin2 = Contact2(p)
        BY <1>1, <1>3, <2>1, <2>4, <3>3 DEF CountInv
      <4>2. t = s /\ d = 0
        BY <4>1, <2>1, <1>3, TableStays DEF PinState
      <4>3. StillAt(k) /\ Standing(k) = turned[k]
        BY <4>1 DEF Standing, StillAt
      <4>4. sampled'[k] = turned'[k] /\ settled'[k] = TRUE /\ phase'[k] = p
        BY <4>1, <4>3, <2>2, Zenon
      <4>5. state'[k] = s /\ out'[k] = out[k]
        BY <4>2, <2>2, <3>1
      <4>6. sampled'[k] = 4 * out'[k] + Offset(state'[k])
        BY <4>1, <4>3, <4>5, <2>2, <3>2
      <4>7. turned'[k] = sampled'[k] /\ phase'[k] = PhaseOf(state'[k])
        BY <4>4, <4>5, Zenon
      <4>8. QED
        BY <4>4, <4>6, <4>7, <2>2 DEF CountInv
    <3>4. CASE ~settled[k] /\ ~StillAt(k)
      <4>1. /\ pin2 = Contact2(p) /\ pin2 # Contact2(phase[k])
            /\ phase[k] = NextPhase(p) \/ phase[k] = PrevPhase(p)
        BY <1>1, <1>3, <2>1, <2>4, <3>4 DEF CountInv, StillAt
      <4>2. Contact1(phase[k]) = Contact1(p)
        BY <4>1, <3>1, OneContactChanges
      <4>3. t = s /\ d = 0
        BY <4>1, <4>2, <2>1, <1>3, TableStays DEF PinState
      <4>4. QED
        BY <4>3, <1>1, <2>2, <2>4, <3>1, <3>2, <3>4 DEF CountInv, Standing
    <3>5. CASE ~settled[k] /\ StillAt(k)
      <4>1. PinState = 2 * Contact2(phase[k]) + Contact1(phase[k])
        BY <3>5, <1>3 DEF StillAt, PinState
      <4>2. CASE turned[k] = sampled[k] + 1 /\ phase[k] = NextPhase(p)
        <5>1. PhaseOf(t) = phase[k] /\ 4 * d + Offset(t) = Offset(s) + 1
          BY <4>1, <4>2, <2>1, TableForward
        <5>2. t \in States /\ d \in {-1, 0, 1} /\ Offset(t) \in Int
          BY <2>1, TableNeeds DEF Offset, States
        <5>3. QED
          BY <4>2, <5>1, <5>2, <2>2, <3>1, <3>2, <3>5 DEF CountInv, Standing
      <4>3. CASE turned[k] = sampled[k] - 1 /\ phase[k] = PrevPhase(p)
        <5>1. PhaseOf(t) = phase[k] /\ 4 * d + Offset(t) = Offset(s) - 1
          BY <4>1, <4>3, <2>1, TableBackward
        <5>2. t \in States /\ d \in {-1, 0, 1} /\ Offset(t) \in Int
          BY <2>1, TableNeeds DEF Offset, States
        <5>3. QED
          BY <4>3, <5>1, <5>2, <2>2, <3>1, <3>2, <3>5 DEF CountInv, Standing
      <4>4. QED
        BY <4>2, <4>3, <1>1, <2>4, <3>5 DEF CountInv
    <3>6. QED
      BY <3>3, <3>4, <3>5
  <2>5. QED
    BY <2>2, <2>3, <2>4 DEF CountInv
<1>4. QED
  BY <1>2, <1>3

\* Every step preserves the invariant.
LEMMA NextInv == Inv /\ [Next]_vars => Inv'
<1> SUFFICES ASSUME Inv, [Next]_vars PROVE Inv'
  OBVIOUS
<1>1. TypeOK'
  BY TypeStep DEF Inv
<1> SUFFICES ASSUME NEW k \in Rotaries PROVE CountInv(k)' /\ SeenInv(k)'
  BY <1>1 DEF Inv
<1>2. CASE \E j \in Rotaries : TurnClockwise(j) \/ TurnCounterclockwise(j)
  BY <1>2, TurnStep
<1>3. CASE ReadPin2
  <2>1. rotary = k => pin2' = Contact2(phase[k])
    BY <1>3 DEF ReadPin2
  <2>2. CountInv(k) /\ SeenInv(k)
    BY DEF Inv
  <2>3. UNCHANGED <<turned, phase, rotary, state, out, sampled, settled, missed, seen>>
    BY <1>3 DEF ReadPin2, knobVars, historyVars
  <2>4. QED
    BY <2>1, <2>2, <2>3 DEF CountInv, SeenInv
<1>4. CASE ReadPin1
  BY <1>4, ReadPin1Step
<1>5. CASE UNCHANGED vars
  <2>1. CountInv(k) /\ SeenInv(k)
    BY DEF Inv
  <2>2. QED
    BY <1>5, <2>1 DEF CountInv, SeenInv, vars, knobVars, historyVars
<1>6. QED
  BY <1>2, <1>3, <1>4, <1>5 DEF Next

\* The invariant holds throughout.
LEMMA InvHolds == Spec => []Inv
  BY InitInv, NextInv, PTL DEF Spec

\* The indices into the table and into the encoders stay in range, and a direction
\* never leaks into the state.
THEOREM EncoderTypeCorrect == Spec => []TypeOK
<1>1. Inv => TypeOK
  BY DEF Inv
<1>2. QED
  BY <1>1, InvHolds, PTL

\* A knob that is read after every move, and rests, has had as many clicks
\* reported as it was turned.
THEOREM EncoderCountsClicks == Spec => []ClicksAreCounted
<1>1. Inv => ClicksAreCounted
  <2> SUFFICES ASSUME Inv, NEW k \in Rotaries,
                      missed[k] = 0, settled[k], phase[k] = 0
               PROVE  turned[k] = 4 * out[k]
    BY DEF ClicksAreCounted
  <2>1. state[k] \in States /\ out[k] \in Int /\ CountInv(k)
    BY DEF Inv, TypeOK
  <2>2. PhaseOf(state[k]) = 0 /\ turned[k] = 4 * out[k] + Offset(state[k])
    BY <2>1 DEF CountInv
  <2>3. state[k] = "START"
    BY <2>1, <2>2 DEF PhaseOf, States
  <2>4. QED
    BY <2>1, <2>2, <2>3 DEF Offset
<1>2. QED
  BY <1>1, InvHolds, PTL

\* No click is reported but at rest, after the three other patterns were read,
\* however the knob moves and its contacts bounce.
THEOREM EncoderDebounces == Spec => ClickNeedsAllPhases
<1> DEFINE Clicked(k) == out'[k] # out[k] =>
                           /\ seen[k] = 0..2 /\ seen'[k] = {}
                           /\ out'[k] - out[k] \in {-1, 1}
<1>1. Inv /\ [Next]_vars => [\A k \in Rotaries : Clicked(k)]_vars
  <2> SUFFICES ASSUME Inv, Next, NEW k \in Rotaries, out'[k] # out[k]
               PROVE  Clicked(k)
    OBVIOUS
  <2>1. ReadPin1
    BY DEF Next, TurnClockwise, TurnCounterclockwise, ReadPin2
  <2>2. TypeOK /\ SeenInv(k)
    BY DEF Inv
  <2>3. k = rotary
    BY <2>1, <2>2 DEF ReadPin1, TypeOK
  <2>4. PinState \in 0..3 /\ state[k] \in States /\ out[k] \in Int
    BY <2>1, <2>2, OneContactChanges DEF ReadPin1, PinState, TypeOK
  <2>5. out'[k] = out[k] + Direction(state[k], PinState)
    BY <2>1, <2>2, <2>3 DEF ReadPin1, Decode, TypeOK
  <2>6. Direction(state[k], PinState) \in {-1, 1}
    BY <2>4, <2>5, TableNeeds
  <2>7. PinState = 3 /\ Needed(state[k]) = 0..2
    BY <2>4, <2>6, TableNeeds
  <2>8. seen'[k] = {} /\ seen[k] = 0..2
    BY <2>1, <2>2, <2>3, <2>7 DEF ReadPin1, TypeOK, SeenInv
  <2>9. QED
    BY <2>4, <2>5, <2>6, <2>8
<1>2. QED
  BY <1>1, InvHolds, PTL DEF Spec, ClickNeedsAllPhases

=============================================================================
