------------------------------ MODULE MCPanelLink ------------------------------
(***************************************************************************)
(* A small instance of PanelLink for TLC: the frame the server starts with,*)
(* which has no flap positions, and one with the trim at the end of its    *)
(* range, the flaps up, the gear moving and the brake set.                 *)
(***************************************************************************)
EXTENDS PanelLink

InitialFrame == <<0, 0, 0, 0, 0>>
MovingFrame == <<100, 3, 0, 80, 1>>

MCFrames == {InitialFrame, MovingFrame}
MCAttached == {"trim", "flap"}

=============================================================================
