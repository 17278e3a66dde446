---------------------------- MODULE MCWhiteboard ----------------------------
(* Values of the constants of Whiteboard for TLC: two patterns, and a      *)
(* reconnect on the third tick of the client without a connection.         *)
EXTENDS Whiteboard
=============================================================================
