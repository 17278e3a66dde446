--------------------------- MODULE MCRelicShadow ---------------------------
(* Values of the constants of RelicShadow for TLC: three looks both ends   *)
(* know - the one left, the one named, and one that an answer older than   *)
(* both names - and one only the relic has.                                *)
EXTENDS RelicShadow
=============================================================================
