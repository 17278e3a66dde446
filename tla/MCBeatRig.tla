----------------------------- MODULE MCBeatRig -----------------------------
(* Values of the constants of BeatRig for TLC. A unit of time is a 32nd of *)
(* a beat of the song; there are four frames to a beat. The latency waits  *)
(* a frame.                                                                *)
EXTENDS BeatRig

MCRack == <<"bar", "double">>

MCLatencies == {-8}
=============================================================================
