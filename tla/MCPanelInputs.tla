----------------------------- MODULE MCPanelInputs -----------------------------
(***************************************************************************)
(* A small instance of PanelInputs for TLC.  A knob that turns by a whole  *)
(* click, with a move missed, and four keys that share two slots give too  *)
(* many states at once: the knob is away from rest beside the first two    *)
(* keys only, and the other keys are pressed while it rests.  The bound is *)
(* on who touches the panel; the loop goes on as it does in PanelInputs.   *)
(***************************************************************************)
EXTENDS PanelInputs

\* Bound: at any moment the knobs rest, or no key but the first two is in play.
KnobOrKeys ==
  \/ \A r \in Rotaries : turned[r] = 0 /\ settled[r] /\ missed[r] = 0
  \/ down \cup {key[i].kcode : i \in Slots} \subseteq {-1, 0, 1}

MCNext ==
  \/ Loop
  \/ TurnKnob /\ KnobOrKeys'
  \/ \E k \in Keys : (PressKey(k) \/ ReleaseKey(k)) /\ KnobOrKeys'

MCFairSpec ==
  /\ PanelInit /\ [][MCNext]_panelVars
  /\ WF_panelVars(CheckEncoder) /\ SF_panelVars(CheckAllButtonsJoystick)

=============================================================================
