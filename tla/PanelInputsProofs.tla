--------------------------- MODULE PanelInputsProofs ---------------------------
(***************************************************************************)
(* Proofs about PanelInputs, for any number of encoders and keys and any   *)
(* length of the list of keys.                                             *)
(***************************************************************************)
EXTENDS PanelInputs, RotaryEncoderProofs, FiniteSetTheorems

-----------------------------------------------------------------------------
(* The encoders.  The rest of the loop is time between two of their reads. *)

\* A step of the loop is a step of the encoders or leaves them alone.
LEMMA EncodersStep == [PanelNext]_panelVars => [Next]_vars
  BY DEF PanelNext, Loop, CheckEncoder, NoScan, CheckAllButtonsJoystick, TurnKnob,
         PressKey, ReleaseKey, panelVars, Next

\* In the whole loop the encoders do what they do alone.
LEMMA PanelImplementsEncoders == PanelSpec => Spec
<1>1. PanelInit => Init
  BY DEF PanelInit
<1>2. QED
  BY <1>1, EncodersStep, PTL DEF PanelSpec, Spec

\* Whatever keys are pressed meanwhile, a knob that is read after every move and rests
\* has had as many clicks reported as it was turned.
THEOREM PanelCountsClicks == PanelSpec => []ClicksAreCounted
  BY PanelImplementsEncoders, EncoderCountsClicks, PTL

\* Nor does the rest of the loop make a click of a bounce.
THEOREM PanelDebounces == PanelSpec => ClickNeedsAllPhases
  BY PanelImplementsEncoders, EncoderDebounces, PTL

-----------------------------------------------------------------------------
(* The list of keys. *)

KeyListTyped == key \in [Slots -> [kcode : Keys \cup {-1}, kstate : KeyStates]]

\* A key other than the first one is in one slot at most.
KeysOnce ==
  \A i, j \in Slots :
    key[i].kcode = key[j].kcode /\ key[i].kcode \in Keys \ {NO_KEY} => i = j

\* A key keeps a state of the library, whatever its contact and its time do.
LEMMA NextKeyStateTyped ==
  ASSUME NEW s \in KeyStates, NEW closed, NEW expired
  PROVE  NextKeyState(s, closed, expired) \in KeyStates
  BY DEF KeyStates, NextKeyState

\* A slot keeps its key or becomes free; a key that stays was in the list and not idle.
LEMMA KeptFacts ==
  ASSUME KeyListTyped, NEW i \in Slots
  PROVE  /\ Kept[i] \in [kcode : Keys \cup {-1}, kstate : KeyStates]
         /\ Kept[i] = key[i] \/ Kept[i].kcode = -1
         /\ Kept[i].kcode \in Keys => Kept[i] = key[i] /\ key[i].kstate # "IDLE"
         /\ Kept[i].kcode \in Listed
  BY KeypadAssumption
  DEF KeypadAssumption, KeyListTyped, Kept, FreeSlot, Listed, Keys, KeyStates

\* Two members of a set have different ranks in it.
LEMMA RanksDiffer ==
  ASSUME NEW S \in SUBSET Nat, IsFiniteSet(S), NEW n \in S, NEW m \in S, n < m
  PROVE  Rank(n, S) # Rank(m, S)
<1> DEFINE A == {x \in S : x < n}
           B == {x \in S : x < m}
<1>1. A \in SUBSET B /\ n \in B /\ n \notin A
  <2>1. n \in Nat /\ m \in Nat
    OBVIOUS
  <2>2. ASSUME NEW x \in S, x < n PROVE x < m
    BY <2>1, <2>2
  <2>3. A \in SUBSET B
    BY <2>2
  <2>4. ~(n < n)
    BY <2>1
  <2>5. QED
    BY <2>3, <2>4
<1>2. IsFiniteSet(B)
  BY FS_Subset
<1>3. Cardinality(A) # Cardinality(B)
  BY <1>1, <1>2, FS_Subset
<1>4. QED
  BY <1>3 DEF Rank

\* A key that enters is down, is not in the list and enters a free slot.
LEMMA EnteringFacts ==
  ASSUME NEW i \in Slots
  PROVE  /\ Entering(i) \subseteq down \ Listed
         /\ Entering(i) # {} => i \in EmptySlots
  BY DEF Entering

\* A key other than the first one enters one slot at most.
LEMMA EntersOnce ==
  ASSUME NEW i \in Slots, NEW j \in Slots, NEW k,
         k \in Entering(i), k \in Entering(j), k # NO_KEY
  PROVE  i = j
<1>1. i \in EmptySlots /\ j \in EmptySlots
  BY EnteringFacts
<1>2. EmptySlots \in SUBSET Nat /\ IsFiniteSet(EmptySlots)
  <2>1. IsFiniteSet(Slots) /\ Slots \in SUBSET Nat
    BY FS_Interval, KeypadAssumption DEF Slots, KeypadAssumption
  <2>2. EmptySlots \in SUBSET Slots
    BY DEF EmptySlots
  <2>3. QED
    BY <2>1, <2>2, FS_Subset
<1>3. k \in (down \ Listed) \ {NO_KEY}
  BY EnteringFacts
<1>4. Rank(i, EmptySlots) = Rank(j, EmptySlots)
  BY <1>1, <1>3 DEF Entering
<1>5. i < j \/ j < i \/ i = j
  BY DEF Slots
<1>6. QED
  BY <1>1, <1>2, <1>4, <1>5, RanksDiffer

\* What is in a slot after a scan: a key that entered, or the one before.
LEMMA SlotAfterScan ==
  ASSUME KeyListTyped, down \subseteq Keys, NEW expired, NEW i \in Slots
  PROVE  LET slot == UpdateList(expired)[i]
         IN  /\ slot \in [kcode : Keys \cup {-1}, kstate : KeyStates]
             /\ \/ /\ slot.kcode \in Entering(i)
                   /\ slot.kstate = "PRESSED"
                \/ /\ Entering(i) = {}
                   /\ slot.kcode = Kept[i].kcode
<1>1. CASE Entering(i) # {}
  BY <1>1, EnteringFacts DEF UpdateList, KeyStates
<1>2. CASE Entering(i) = {}
  <2>1. NextKeyState(Kept[i].kstate, Kept[i].kcode \in down, Kept[i].kcode \in expired)
          \in KeyStates
    BY KeptFacts, NextKeyStateTyped
  <2>2. QED
    BY <1>2, <2>1, KeptFacts DEF UpdateList
<1>3. QED
  BY <1>1, <1>2

\* A scan leaves a list of keys.
LEMMA ScanTyped ==
  ASSUME KeyListTyped, down \subseteq Keys, NEW expired
  PROVE  UpdateList(expired) \in [Slots -> [kcode : Keys \cup {-1}, kstate : KeyStates]]
<1>1. UpdateList(expired) = [i \in Slots |-> UpdateList(expired)[i]]
  BY DEF UpdateList
<1>2. QED
  BY <1>1, SlotAfterScan

\* A scan keeps the keys apart.
LEMMA ScanKeepsOnce ==
  ASSUME KeyListTyped, KeysOnce, down \subseteq Keys, NEW expired,
         NEW i \in Slots, NEW j \in Slots, NEW k \in Keys \ {NO_KEY},
         UpdateList(expired)[i].kcode = k, UpdateList(expired)[j].kcode = k
  PROVE  i = j
<1>1. CASE k \in Entering(i) /\ k \in Entering(j)
  BY <1>1, EntersOnce
<1>2. ASSUME NEW a \in Slots, NEW b \in Slots, k \in Entering(a), Kept[b].kcode = k
      PROVE  FALSE
  BY <1>2, EnteringFacts, KeptFacts
<1>3. CASE Kept[i].kcode = k /\ Kept[j].kcode = k
  BY <1>3, KeptFacts DEF KeysOnce
<1>4. QED
  BY <1>1, <1>2, <1>3, SlotAfterScan

-----------------------------------------------------------------------------
(* The buttons. *)

ButtonFollows(k) ==
  k \in button <=> \E i \in Slots : key[i].kcode = k /\ key[i].kstate \in {"PRESSED", "HOLD"}

\* The button of a key that the scan leaves in the list.
LEMMA ListedButton ==
  ASSUME KeyListTyped, KeysOnce, down \subseteq Keys, NEW expired,
         key' = UpdateList(expired), SetButtons(key'),
         NEW k \in Keys \ {NO_KEY}, ButtonFollows(k),
         NEW i \in Slots, key'[i].kcode = k
  PROVE  k \in button' <=> key'[i].kstate \in {"PRESSED", "HOLD"}
<1> DEFINE on  == {j \in Changed(key') : key'[j].kstate \in {"PRESSED", "HOLD"}}
           off == Changed(key') \ on
<1>1. button' = (button \ {Kchar(key'[j]) : j \in off}) \cup {Kchar(key'[j]) : j \in on}
  BY DEF SetButtons
<1>2. ASSUME NEW j \in Slots, Kchar(key'[j]) = k PROVE j = i
  <2>1. key'[j].kcode = k
    BY <1>2 DEF Kchar
  <2>2. QED
    BY <2>1, ScanKeepsOnce
<1>3. Kchar(key'[i]) = k
  BY DEF Kchar, Keys
<1>4. CASE i \in Changed(key')
  BY <1>1, <1>2, <1>3, <1>4 DEF Changed
<1>5. CASE i \notin Changed(key')
  <2>1. key'[i] = Kept[i] /\ key'[i] = key[i]
    BY <1>5, KeptFacts DEF Changed
  <2>2. k \in button' <=> k \in button
    BY <1>1, <1>2, <1>5 DEF Changed
  <2>3. \A j \in Slots : key[j].kcode = k => j = i
    BY <2>1 DEF KeysOnce
  <2>4. QED
    BY <2>1, <2>2, <2>3 DEF ButtonFollows
<1>6. QED
  BY <1>4, <1>5

\* A key that is not in the list after a scan was not on in the list before, for
\* only idle keys leave it.
LEMMA UnlistedButton ==
  ASSUME KeyListTyped, down \subseteq Keys, NEW expired,
         key' = UpdateList(expired), SetButtons(key'),
         NEW k \in Keys \ {NO_KEY}, ButtonFollows(k),
         \A i \in Slots : key'[i].kcode # k
  PROVE  k \notin button'
<1>1. \A j \in Changed(key') : Kchar(key'[j]) # k
  BY DEF Changed, Kchar
<1>2. k \in button' => k \in button
  BY <1>1 DEF SetButtons
<1>3. ASSUME NEW j \in Slots, key[j].kcode = k, key[j].kstate \in {"PRESSED", "HOLD"}
      PROVE  FALSE
  <2>1. Kept[j].kcode = k
    BY <1>3 DEF Kept
  <2>2. j \notin EmptySlots
    BY <2>1 DEF EmptySlots, Kchar, Keys
  <2>3. QED
    BY <2>1, <2>2, SlotAfterScan, EnteringFacts
<1>4. QED
  BY <1>2, <1>3 DEF ButtonFollows

KeysInv ==
  /\ KeyListTyped
  /\ loop \in {"encoders", "buttons"}
  /\ down \subseteq Keys
  /\ button \subseteq Keys
  /\ KeysOnce
  /\ ButtonsFollowList

\* The board starts with an empty list and no button on.
LEMMA KeysInitInv == PanelInit => KeysInv
  BY KeypadAssumption
  DEF KeypadAssumption, PanelInit, KeysInv, KeyListTyped, FreeSlot, KeyStates, KeysOnce,
      ButtonsFollowList, Keys

\* Only a scan touches the list and the buttons.
LEMMA KeysStep == KeysInv /\ [PanelNext]_panelVars => KeysInv'
<1> SUFFICES ASSUME KeysInv, [PanelNext]_panelVars PROVE KeysInv'
  OBVIOUS
<1> USE DEF KeysInv
<1>1. CASE CheckAllButtonsJoystick
  <2>1. PICK expired \in SUBSET Pressed : key' = UpdateList(expired) /\ SetButtons(key')
    BY <1>1 DEF CheckAllButtonsJoystick
  <2>2. KeyListTyped'
    BY <2>1, ScanTyped DEF KeyListTyped
  <2>3. button' \subseteq Keys
    <3>1. \A i \in Slots : Kchar(key'[i]) \in Keys
      BY <2>2, KeypadAssumption DEF KeyListTyped, Kchar, Keys, NO_KEY, KeypadAssumption
    <3>2. QED
      BY <2>1, <3>1 DEF SetButtons, Changed
  <2>4. KeysOnce'
    BY <2>1, ScanKeepsOnce DEF KeysOnce
  <2>5. ButtonsFollowList'
    <3> SUFFICES ASSUME NEW k \in Keys \ {NO_KEY} PROVE ButtonFollows(k)'
      BY DEF ButtonsFollowList, ButtonFollows
    <3>1. ButtonFollows(k)
      BY DEF ButtonsFollowList, ButtonFollows
    <3>2. CASE \A i \in Slots : key'[i].kcode # k
      BY <2>1, <3>1, <3>2, UnlistedButton DEF ButtonFollows
    <3>3. ASSUME NEW i \in Slots, key'[i].kcode = k PROVE ButtonFollows(k)'
      <4>1. k \in button' <=> key'[i].kstate \in {"PRESSED", "HOLD"}
        BY <2>1, <3>1, <3>3, ListedButton
      <4>2. \A j \in Slots : key'[j].kcode = k => j = i
        BY <2>1, <3>3, ScanKeepsOnce
      <4>3. QED
        BY <3>3, <4>1, <4>2 DEF ButtonFollows
    <3>4. QED
      BY <3>2, <3>3
  <2>6. QED
    BY <1>1, <2>2, <2>3, <2>4, <2>5 DEF CheckAllButtonsJoystick
<1>2. ASSUME UNCHANGED <<key, button>>, loop' \in {"encoders", "buttons"}, down' \subseteq Keys
      PROVE  KeysInv'
  BY <1>2 DEF KeyListTyped, KeysOnce, ButtonsFollowList
<1>3. CASE CheckEncoder
  BY <1>2, <1>3 DEF CheckEncoder, keyVars
<1>4. CASE NoScan
  BY <1>2, <1>4 DEF NoScan, keyVars
<1>5. CASE TurnKnob
  BY <1>2, <1>5 DEF TurnKnob, keyVars
<1>6. ASSUME NEW k \in Keys, PressKey(k) \/ ReleaseKey(k) PROVE KeysInv'
  BY <1>2, <1>6 DEF PressKey, ReleaseKey
<1>7. CASE UNCHANGED panelVars
  BY <1>2, <1>7 DEF panelVars, keyVars
<1>8. QED
  BY <1>1, <1>3, <1>4, <1>5, <1>6, <1>7 DEF PanelNext, Loop

\* The invariant of the keys holds of the whole loop.
LEMMA KeysInvHolds == PanelSpec => []KeysInv
  BY KeysInitInv, KeysStep, PTL DEF PanelSpec

\* The list of keys, the buttons and the encoders keep their types, for any matrix of
\* keys and any length of the list.
THEOREM PanelTypeCorrect == PanelSpec => []PanelTypeOK
<1>1. KeysInv /\ TypeOK => PanelTypeOK
  BY DEF KeysInv, KeyListTyped, PanelTypeOK
<1>2. QED
  BY <1>1, KeysInvHolds, PanelImplementsEncoders, EncoderTypeCorrect, PTL

\* A button is on exactly while its key is in the list as pressed or held, however
\* keys are pressed together, and also when more are down than the list has room for.
THEOREM PanelButtonsFollowList == PanelSpec => []ButtonsFollowList
<1>1. KeysInv => ButtonsFollowList
  BY DEF KeysInv
<1>2. QED
  BY <1>1, KeysInvHolds, PTL

=============================================================================
