---------------------------- MODULE MCRelicLink ----------------------------
(* RelicLink with small limits; the values are in the configurations.       *)
EXTENDS RelicLink
=============================================================================
