----------------------------- MODULE MCDeskLink -----------------------------
(* DeskLink with one or two relics; the values are in the configurations.   *)
EXTENDS DeskLink
=============================================================================
