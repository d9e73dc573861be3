------------------------------ MODULE PanelInputs ------------------------------
(***************************************************************************)
(* The loop of Arduino/promicro-panel-inputs.ino: CheckAllEncoders, which  *)
(* is RotaryEncoder, then CheckAllButtonsJoystick, then CheckAllAxes, which*)
(* passes three analog values on and keeps no state.                       *)
(*                                                                         *)
(* The Keypad library is external: getKeys scans the matrix if the time to *)
(* debounce is over, and keeps a list of LIST_MAX keys with their states.  *)
(* A slot whose kchar is NO_KEY, which is 0, counts as empty; and 0 is also*)
(* what `buttons` gives to the first key, so that any new key may take the *)
(* slot of that one.                                                       *)
(***************************************************************************)
EXTENDS RotaryEncoder, FiniteSets

CONSTANTS
  NumKeys,   \* the keys of the matrix, 20 in the code
  ListMax    \* LIST_MAX of the Keypad library, 10

ASSUME KeypadAssumption == NumKeys \in Nat \ {0} /\ ListMax \in Nat \ {0}

VARIABLES
  loop,      \* "encoders" or "buttons": what the loop is at
  down,      \* the keys that are held down
  key,       \* the list of the Keypad library
  button     \* the joystick buttons that are on

keyVars == <<down, key, button>>
panelVars == <<vars, loop, keyVars>>

Keys == 0..(NumKeys - 1)
Slots == 1..ListMax

KeyStates == {"IDLE", "PRESSED", "HOLD", "RELEASED"}

NO_KEY == 0
FreeSlot == [kcode |-> -1, kstate |-> "IDLE"]

\* buttons[][] gives each key its own number.
Kchar(slot) == IF slot.kcode = -1 THEN NO_KEY ELSE slot.kcode

PanelInit ==
  /\ Init
  /\ loop = "encoders"
  /\ down = {}
  /\ key = [i \in Slots |-> FreeSlot]
  /\ button = {}

-----------------------------------------------------------------------------
(* The Keypad library. *)

\* nextKeyState: `closed` is the contact, `expired` the time to hold.
NextKeyState(kstate, closed, expired) ==
  CASE kstate = "IDLE"     -> IF closed THEN "PRESSED" ELSE "IDLE"
    [] kstate = "PRESSED"  -> IF expired THEN "HOLD"
                              ELSE IF closed THEN "PRESSED" ELSE "RELEASED"
    [] kstate = "HOLD"     -> IF closed THEN "HOLD" ELSE "RELEASED"
    [] kstate = "RELEASED" -> "IDLE"

\* The list without the keys that were idle.
Kept == [i \in Slots |-> IF key[i].kstate = "IDLE" THEN FreeSlot ELSE key[i]]

Listed == {Kept[i].kcode : i \in Slots}
EmptySlots == {i \in Slots : Kchar(Kept[i]) = NO_KEY}

Rank(n, S) == Cardinality({m \in S : m < n})

\* The keys that enter slot i: new keys, in the order of the matrix, take the empty
\* slots from the first on.  Key 0 comes first and leaves its slot empty for the next.
Entering(i) ==
  LET new == down \ Listed
      others == new \ {NO_KEY}
  IN  IF i \notin EmptySlots THEN {}
      ELSE IF others # {} THEN {k \in others : Rank(k, others) = Rank(i, EmptySlots)}
      ELSE {k \in new : Rank(i, EmptySlots) = 0}

\* updateList
UpdateList(expired) ==
  [i \in Slots |->
     IF Entering(i) # {}
     THEN [kcode |-> CHOOSE k \in Entering(i) : TRUE, kstate |-> "PRESSED"]
     ELSE LET k == Kept[i].kcode
          IN  [kcode |-> k, kstate |-> NextKeyState(Kept[i].kstate, k \in down, k \in expired)]]

\* The keys whose time to hold may be over.
Pressed == {key[i].kcode : i \in {j \in Slots : key[j].kstate = "PRESSED"}}

-----------------------------------------------------------------------------
(* The loop. *)

\* rotary_process and the reports, as long as the loop is at the encoders.
CheckEncoder ==
  /\ loop = "encoders"
  /\ \/ ReadPin2 /\ UNCHANGED loop
     \/ ReadPin1 /\ loop' = IF rotary = NumRotaries THEN "buttons" ELSE "encoders"
  /\ UNCHANGED keyVars

\* getKeys returns false without a scan.
NoScan ==
  /\ loop = "buttons"
  /\ loop' = "encoders"
  /\ UNCHANGED <<vars, keyVars>>

\* The slots whose key the scan has put into another state.
Changed(list) == {i \in Slots : list[i] # Kept[i]}

\* Altered: the list is gone through from its second slot on.
SetButtonsPastFirst(list) ==
  LET changed == Changed(list) \ {1}
      on  == {i \in changed : list[i].kstate \in {"PRESSED", "HOLD"}}
      off == changed \ on
  IN  button' = (button \ {Kchar(list[i]) : i \in off}) \cup {Kchar(list[i]) : i \in on}

\* Altered: the case of RELEASED is missing, and IDLE is no change any more.
SetButtonsNoRelease(list) ==
  LET on  == {i \in Changed(list) : list[i].kstate \in {"PRESSED", "HOLD"}}
  IN  button' = button \cup {Kchar(list[i]) : i \in on}

\* The switch of CheckAllButtonsJoystick over the states of the keys that changed.
SetButtons(list) ==
  LET on  == {i \in Changed(list) : list[i].kstate \in {"PRESSED", "HOLD"}}
      off == Changed(list) \ on
  IN  button' = (button \ {Kchar(list[i]) : i \in off}) \cup {Kchar(list[i]) : i \in on}

\* getKeys scans, and the keys that changed are reported.
CheckAllButtonsJoystick ==
  /\ loop = "buttons"
  /\ loop' = "encoders"
  /\ UNCHANGED <<vars, down>>
  /\ \E expired \in SUBSET Pressed :
       key' = UpdateList(expired) /\ SetButtons(key')

PressKey(k) ==
  /\ k \notin down
  /\ down' = down \cup {k}
  /\ UNCHANGED <<vars, loop, key, button>>

ReleaseKey(k) ==
  /\ k \in down
  /\ down' = down \ {k}
  /\ UNCHANGED <<vars, loop, key, button>>

TurnKnob ==
  /\ \E k \in Rotaries : TurnClockwise(k) \/ TurnCounterclockwise(k)
  /\ UNCHANGED <<loop, keyVars>>

Loop == CheckEncoder \/ NoScan \/ CheckAllButtonsJoystick

PanelNext ==
  \/ Loop
  \/ TurnKnob
  \/ \E k \in Keys : PressKey(k) \/ ReleaseKey(k)

PanelSpec == PanelInit /\ [][PanelNext]_panelVars

\* The loop runs for ever, and comes to the buttons after the time to debounce again
\* and again.  Nobody has to touch the panel.
PanelFairSpec ==
  PanelSpec /\ WF_panelVars(CheckEncoder) /\ SF_panelVars(CheckAllButtonsJoystick)

-----------------------------------------------------------------------------
PanelTypeOK ==
  /\ TypeOK
  /\ loop \in {"encoders", "buttons"}
  /\ down \subseteq Keys
  /\ key \in [Slots -> [kcode : Keys \cup {-1}, kstate : KeyStates]]
  /\ button \subseteq Keys

\* However keys come and go in the slots of the list, a button is on exactly while its
\* key is in the list as pressed or held.  Key 0 is left out: a new key may take its
\* slot, and then its button stays on until it is pressed and released once more.
ButtonsFollowList ==
  \A k \in Keys \ {NO_KEY} :
    k \in button <=> \E i \in Slots : key[i].kcode = k /\ key[i].kstate \in {"PRESSED", "HOLD"}

\* A key that is let go of for good has its button go off for good, and one that stays
\* down has it go on for good, unless the list is full for it again and again: two
\* slots are enough for keys that are pressed by turns to keep a third one out, though
\* no more than two are ever down, because a key that was let go of has its slot for two
\* scans more.
ButtonsFollowKeys ==
  \A k \in Keys \ {NO_KEY} :
    /\ <>[](k \notin down) => <>[](k \notin button)
    /\ <>[](k \in down /\ Cardinality(down \cup (Listed \ {-1})) <= ListMax) =>
         <>[](k \in button)

=============================================================================
