------------------------------- MODULE MCMidi -------------------------------
(* Values of the constants of Midi for TLC: four ticks to a beat, one to a *)
(* sixteenth, and a slowest beat that a short gap does not reach.          *)
EXTENDS Midi

MCSayable ==
    { Message("NoteOn", 1, 1), Message("NoteOn", 0, 1), Message("ProgramChange", 1, 0),
      Message("SongPosition", 1, 0), Message("SysexStart", 1, 0) }
=============================================================================
