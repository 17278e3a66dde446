--------------------------- MODULE MCStateMachine ---------------------------
(* StateMachine on three looks: enough to retarget a fade to a look that is *)
(* neither of its two, and to go back to the outgoing one.                  *)
EXTENDS StateMachine

CONSTANTS a, b, c

MCStates == {a, b, c}
NoLiberty == {}
=============================================================================
