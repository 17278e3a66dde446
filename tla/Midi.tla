-------------------------------- MODULE Midi --------------------------------
(***************************************************************************)
(* The beat off a MIDI cable: emidi::Parser (lib/src/emidi/parser) frames  *)
(* the bytes, MidiInput::handleMessage (desktop/src/midi_input.cpp) sorts  *)
(* the messages and emidi::ClockFollower (lib/src/emidi/clock) counts the  *)
(* ticks. The sequencer at the other end says one message at a time, with  *)
(* running status as it likes, and puts realtime bytes anywhere between    *)
(* the bytes of it. The cable loses bytes.                                 *)
(*                                                                         *)
(* A byte is a status or a data value. Time counts tick intervals.         *)
(***************************************************************************)
EXTENDS Integers, Sequences, FiniteSets

CONSTANTS
    kClocksPerBeat,
    SlowestBeat,     (* of the bpm range: the longest beat, in tick intervals *)
    Values,          (* of data bytes *)
    Sayable,         (* the messages that the sequencer says *)
    BeatNote,        (* the note that is a beat, one of Values *)
    MaxPause,        (* bound: tick intervals without a tick *)
    MaxLost          (* bound: bytes lost, and intervals passed over *)

ASSUME ClocksAssumption == kClocksPerBeat \in Nat \ {0} /\ kClocksPerBeat % 4 = 0
ASSUME ValuesAssumption == Values \subseteq 0..127 /\ {0, BeatNote} \subseteq Values
ASSUME SayableAssumption ==
    /\ Sayable \subseteq [status : {"NoteOn", "ProgramChange", "SongPosition", "SongSelect", "SysexStart"},
                          data1 : Values, data2 : Values]
    /\ \A m \in Sayable : m.status \in {"ProgramChange", "SongSelect"} => m.data2 = 0
ASSUME BoundsAssumption == SlowestBeat \in Nat /\ MaxPause \in Nat /\ MaxLost \in Nat

Realtime == {"Clock", "Start", "Continue", "Stop"}
Channel == {"NoteOn", "ProgramChange"}
System == {"SongPosition", "SongSelect", "SysexStart", "SysexEnd"}
Statuses == Realtime \cup Channel \cup System
None == "none"

Status(s) == [status |-> s, value |-> 0]
Data(v) == [status |-> None, value |-> v]
Message(s, d1, d2) == [status |-> s, data1 |-> d1, data2 |-> d2]
Silence == Message(None, 0, 0)

dataBytesFor(s) ==
    CASE s \in {"SongPosition", "NoteOn"} -> 2
      [] s \in {"SongSelect", "ProgramChange"} -> 1
      [] OTHER -> 0

VARIABLES
    parser,          (* runningStatus, status and first: pending, collected, wanted *)
    follower,        (* tickInBeat, and of each slot of tickTimes how long ago *)
    alignRequested, noteHolds,     (* a note's beat came within kNoteHoldsOffClock *)
    saying,          (* the message the sequencer says, and the bytes to come *)
    spoken,          (* the channel status last said: running status may leave it out *)
    playing, songTick,             (* the song: the tick of the beat that comes next *)
    sinceTick,       (* time since the last tick that arrived *)
    lost,            (* bytes and intervals, towards the bound *)
    framed, inTempo, (* *history*: the last byte completed what was heard with it; the
                        tempo told was the music's *)
    whole,           (* *history*: no byte lost since the last status *)
    astray, idled,   (* *history*: since the song was last located, something other than
                        the song moved the grid; a tick came while it was stopped *)
    uneven           (* *history*: ticks until a gap has left the window *)

inputVars == <<parser, follower, alignRequested, noteHolds>>
songVars == <<playing, songTick, sinceTick>>
senderVars == <<saying, spoken, lost>>
historyVars == <<framed, inTempo, whole, astray, idled, uneven>>
vars == <<inputVars, songVars, senderVars, historyVars>>

Ticks == 0..(kClocksPerBeat - 1)
Longest == SlowestBeat + 1                       (* a longer age is this one *)
Nothing == [beat |-> None, restart |-> FALSE, tempo |-> 0]

TypeOK ==
    /\ parser \in [runningStatus : Channel \cup {None}, status : Statuses \cup {None},
                   first : Values, collected : 0..1, wanted : 0..2]
    /\ follower \in [tickInBeat : Ticks, tickTimes : [Ticks -> 0..Longest],
                     tickCount : 0..kClocksPerBeat, tickWrite : Ticks]
    /\ alignRequested \in BOOLEAN /\ noteHolds \in BOOLEAN
    /\ playing \in BOOLEAN /\ songTick \in Ticks /\ sinceTick \in 0..MaxPause
    /\ lost \in 0..MaxLost

Init ==
    /\ parser = [runningStatus |-> None, status |-> None, first |-> 0,
                 collected |-> 0, wanted |-> 0]
    /\ follower = [tickInBeat |-> 0, tickTimes |-> [t \in Ticks |-> 0],
                   tickCount |-> 0, tickWrite |-> 0]
    /\ alignRequested = FALSE /\ noteHolds = FALSE
    /\ saying = [message |-> Silence, bytes |-> <<>>] /\ spoken = None
    /\ playing = FALSE /\ songTick = 0 /\ sinceTick = 0
    /\ lost = 0
    /\ framed = TRUE /\ inTempo = TRUE /\ whole = TRUE
    /\ astray = TRUE /\ idled = FALSE /\ uneven = 0

-----------------------------------------------------------------------------
(* Parser::feed: the parser after a byte, and the message it completes. *)

feedStatus(s) ==
    [runningStatus |-> IF s \in Channel THEN s ELSE None,
     status |-> IF dataBytesFor(s) = 0 THEN None ELSE s,
     first |-> 0, collected |-> 0, wanted |-> dataBytesFor(s)]

(* A data byte with no message in progress: running status, if any. *)
Resumed(p) ==
    IF p.wanted = 0
      THEN [p EXCEPT !.status = p.runningStatus, !.collected = 0,
                     !.wanted = dataBytesFor(p.runningStatus)]
      ELSE p

(* What was pending of a message is not looked at after it. *)
Idle(p) == [p EXCEPT !.status = None, !.first = 0, !.collected = 0, !.wanted = 0]

feed_RealtimeIsStatus(p, byte) ==   (* mutant: a realtime byte ends the message around it *)
    IF byte.status # None THEN feedStatus(byte.status)
    ELSE IF p.wanted = 0 /\ p.runningStatus = None THEN p
    ELSE LET q == Resumed(p)
         IN  IF q.collected = 0 /\ q.wanted = 2
               THEN [q EXCEPT !.first = byte.value, !.collected = 1]
               ELSE Idle(q)

feed(p, byte) ==
    IF byte.status \in Realtime THEN p
    ELSE IF byte.status # None THEN feedStatus(byte.status)
    ELSE IF p.wanted = 0 /\ p.runningStatus = None THEN p
    ELSE LET q == Resumed(p)
         IN  IF q.collected = 0 /\ q.wanted = 2
               THEN [q EXCEPT !.first = byte.value, !.collected = 1]
               ELSE Idle(q)

Completed(p, byte) ==
    LET q == Resumed(p)
    IN  CASE byte.status \in Realtime -> Message(byte.status, 0, 0)
          [] byte.status = None /\ q.status # None /\ q.wanted = 1 ->
               Message(q.status, byte.value, 0)
          [] byte.status = None /\ q.wanted = 2 /\ q.collected = 1 ->
               Message(q.status, q.first, byte.value)
          [] OTHER -> Silence

-----------------------------------------------------------------------------
(* ClockFollower::handle. *)

Shortest(n) == IF n <= Longest THEN n ELSE Longest

FollowClock_NoWrap(f, gap) ==       (* mutant: the ticks of a beat are counted on *)
    [f EXCEPT !.tickInBeat = @ + 1,
              !.tickTimes = [t \in Ticks |-> Shortest(f.tickTimes[t] + gap)]]

FollowClock(f, gap) ==
    LET ages == [t \in Ticks |-> Shortest(f.tickTimes[t] + gap)]
    IN  [tickInBeat |-> (f.tickInBeat + 1) % kClocksPerBeat,
         tickTimes |-> [ages EXCEPT ![f.tickWrite] = 0],
         tickCount |-> IF f.tickCount < kClocksPerBeat THEN f.tickCount + 1 ELSE f.tickCount,
         tickWrite |-> (f.tickWrite + 1) % kClocksPerBeat]

(* The tick 24 ago was one beat ago. A tempo out of the range is not told. *)
Measured(f, gap) ==
    LET beat == f.tickTimes[f.tickWrite] + gap
    IN  IF f.tickCount = kClocksPerBeat /\ beat <= SlowestBeat THEN beat ELSE 0

FollowStart_WindowKept(f) ==        (* mutant: the window is kept across the gap *)
    [f EXCEPT !.tickInBeat = 0]

FollowStart_PhaseKept(f) ==         (* mutant: the tick within the beat is not reset *)
    [f EXCEPT !.tickCount = 0, !.tickWrite = 0]

FollowStart(f) == [f EXCEPT !.tickInBeat = 0, !.tickCount = 0, !.tickWrite = 0]

(* Sixteenth notes, of which data2 counts 128s. *)
FollowSongPosition(f, m) ==
    [f EXCEPT !.tickInBeat = ((m.data1 + 128 * m.data2) % 4) * (kClocksPerBeat \div 4)]

-----------------------------------------------------------------------------
(* MidiInput::handleMessage. *)

Aligned == IF alignRequested THEN [follower EXCEPT !.tickInBeat = 0] ELSE follower
isBeatNote(m) == m.status = "NoteOn" /\ m.data1 = BeatNote /\ m.data2 > 0

(* The calls on the BeatClock: a beat, a tempo, a restart. *)
Told(m, gap) ==
    CASE m.status = "Clock" /\ ~noteHolds ->
           [Nothing EXCEPT !.tempo = Measured(Aligned, gap),
                           !.beat = IF Aligned.tickInBeat = 0 THEN "clock" ELSE None]
      [] m.status = "Start" -> [Nothing EXCEPT !.restart = TRUE]
      [] isBeatNote(m) -> [Nothing EXCEPT !.beat = "note"]
      [] OTHER -> Nothing

handleMessage(m, gap) ==
    /\ alignRequested' = (alignRequested /\ m.status \notin Realtime \cup {"SongPosition"})
    /\ follower' = CASE m.status = "Clock" -> FollowClock(Aligned, gap)
                     [] m.status = "Start" -> FollowStart(Aligned)
                     [] m.status = "SongPosition" -> FollowSongPosition(Aligned, m)
                     [] m.status \in {"Continue", "Stop"} -> Aligned
                     [] isBeatNote(m) -> [follower EXCEPT !.tickInBeat = 1]
                     [] OTHER -> follower
    /\ noteHolds' = (noteHolds \/ isBeatNote(m))

(* A byte off the cable, through the parser and on; or its loss. *)
Arrive(byte, gap, due) ==
    LET heard == Completed(parser, byte)
    IN  /\ parser' = feed(parser, byte)
        /\ handleMessage(heard, gap)
        /\ framed' = (heard = due)
        /\ inTempo' = (Told(heard, gap).tempo \in {0, kClocksPerBeat})
        /\ UNCHANGED lost

Lose ==
    /\ lost < MaxLost
    /\ lost' = lost + 1
    /\ framed' = TRUE /\ inTempo' = TRUE
    /\ UNCHANGED inputVars

-----------------------------------------------------------------------------
(* The sequencer says a message, byte by byte; a song position while the   *)
(* song is stopped, and that is where it will go on.                       *)

Bytes(m) ==
    CASE dataBytesFor(m.status) = 1 -> <<Status(m.status), Data(m.data1)>>
      [] dataBytesFor(m.status) = 2 -> <<Status(m.status), Data(m.data1), Data(m.data2)>>
      [] m.status = "SysexStart" -> <<Status("SysexStart"), Data(m.data1), Status("SysexEnd")>>

Say(m, running) ==
    /\ saying.bytes = <<>>
    /\ m.status = "SongPosition" => ~playing
    /\ running => m.status = spoken
    /\ saying' = [message |-> m, bytes |-> IF running THEN Tail(Bytes(m)) ELSE Bytes(m)]
    /\ spoken' = IF m.status \in Channel THEN m.status ELSE None
    /\ UNCHANGED <<inputVars, songVars, lost, historyVars>>

(* What arrived puts the grid where the song may not be: a song position   *)
(* out of other bytes, a beat note that does not follow the beat's tick.   *)
Nudged ==
    LET heard == Completed(parser, Head(saying.bytes))
    IN  heard.status = "SongPosition" \/ (isBeatNote(heard) /\ songTick # 1)

SendByte ==
    /\ saying.bytes # <<>>
    /\ LET byte == Head(saying.bytes)
           last == Len(saying.bytes) = 1 /\ saying.message.status # "SysexStart"
           located == last /\ saying.message.status = "SongPosition"
       IN  /\ saying' = [saying EXCEPT !.bytes = Tail(@)]
           /\ songTick' = IF located THEN (saying.message.data1 % 4) * (kClocksPerBeat \div 4)
                          ELSE songTick
           /\ \/ /\ Arrive(byte, 0, IF last THEN saying.message ELSE Silence)
                 /\ whole' = (whole \/ byte.status # None)
                 /\ astray' = IF located /\ whole THEN alignRequested' ELSE astray \/ Nudged
                 /\ idled' = (idled /\ ~located)
              \/ /\ Lose
                 /\ whole' = FALSE
                 /\ astray' = (astray \/ saying.message.status = "SongPosition")
                 /\ UNCHANGED idled
    /\ UNCHANGED <<playing, sinceTick, spoken, uneven>>

(* A tick interval goes by. The clock goes on while the song is stopped,   *)
(* or does not.                                                            *)
Tick ==
    /\ songTick' = IF playing THEN (songTick + 1) % kClocksPerBeat ELSE songTick
    /\ \/ /\ Arrive(Status("Clock"), sinceTick + 1, Message("Clock", 0, 0))
          /\ sinceTick' = 0
          /\ astray' = (astray \/ alignRequested)
          /\ idled' = (idled \/ ~playing)
          /\ uneven' = CASE follower.tickCount = 0 -> 0
                         [] follower.tickCount > 0 /\ sinceTick > 0 -> kClocksPerBeat
                         [] OTHER -> IF uneven > 0 THEN uneven - 1 ELSE 0
       \/ /\ Lose
          /\ sinceTick < MaxPause /\ sinceTick' = sinceTick + 1
          /\ astray' = (astray \/ playing)
          /\ UNCHANGED <<idled, uneven>>
    /\ UNCHANGED <<playing, saying, spoken, whole>>

Pause ==
    /\ ~playing
    /\ sinceTick < MaxPause /\ sinceTick' = sinceTick + 1
    /\ lost < MaxLost /\ lost' = lost + 1
    /\ UNCHANGED <<inputVars, playing, songTick, saying, spoken, historyVars>>

Transport(s) ==
    /\ playing' = (s # "Stop")
    /\ s = "Stop" <=> playing
    /\ saying.message.status = "SongPosition" => saying.bytes = <<>>
    /\ songTick' = IF s = "Start" THEN 0 ELSE songTick
    /\ \/ /\ Arrive(Status(s), 0, Message(s, 0, 0))
          /\ astray' = IF s = "Start" THEN FALSE ELSE astray \/ alignRequested
          /\ idled' = (idled /\ s # "Start")
          /\ uneven' = IF s = "Start" THEN 0 ELSE uneven
       \/ /\ Lose
          /\ astray' = (astray \/ s = "Start")
          /\ UNCHANGED <<idled, uneven>>
    /\ UNCHANGED <<sinceTick, saying, spoken, whole>>

-----------------------------------------------------------------------------
(* MidiInput::alignToNow, on the show's thread. *)
alignToNow ==
    /\ alignRequested' = TRUE /\ noteHolds' = FALSE
    /\ UNCHANGED <<parser, follower, songVars, senderVars, historyVars>>

(* kNoteHoldsOffClock has gone by since the last beat note. *)
NotesLapse ==
    /\ noteHolds
    /\ noteHolds' = FALSE
    /\ UNCHANGED <<parser, follower, alignRequested, songVars, senderVars, historyVars>>

Next ==
    \/ \E m \in Sayable, running \in BOOLEAN : Say(m, running)
    \/ SendByte \/ Tick \/ Pause
    \/ \E s \in Realtime \ {"Clock"} : Transport(s)
    \/ alignToNow \/ NotesLapse

Spec == Init /\ [][Next]_vars

-----------------------------------------------------------------------------
(* parser.h:15: the parser handles running status and realtime bytes       *)
(* arriving inside another message. However the messages are said and      *)
(* whatever lands between their bytes, each is heard at its last byte and  *)
(* nothing else is, from the first status after a lost byte on.            *)
FramesWhatIsSaid ==
    whole => framed

(* clock.h:32: after a Start or a song position the grid is the song's:    *)
(* the tick that the follower takes for the beat is the song's, until a    *)
(* tick is lost, one comes while the song is stopped, or the operator or a *)
(* beat note moves the grid.                                               *)
BeatsInStep ==
    ~astray /\ ~idled => follower.tickInBeat = songTick

(* clock.h:36: the tempo is that of the music. A beat is measured over     *)
(* kClocksPerBeat intervals and never across the gap before a Start.       *)
TempoOfMusic ==
    uneven = 0 => inTempo
=============================================================================
