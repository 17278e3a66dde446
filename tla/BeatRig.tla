------------------------------ MODULE BeatRig ------------------------------
(***************************************************************************)
(* The beat as the desk runs it: the MIDI thread writes the one BeatClock, *)
(* store by store (desktop/src/midi_input.cpp); the show's thread takes    *)
(* the operator's commands, then once a frame lets the TriggerRack         *)
(* (lib/src/ebeat/beat_trigger.cpp) read it, load by load, and decide      *)
(* which beats are hits (desktop/src/main.cpp). Nothing locks.             *)
(*                                                                         *)
(* The song beats every SongPeriod. A message of a beat may be lost, come  *)
(* twice or come late, and a message may come that is no beat.             *)
(***************************************************************************)
EXTENDS BeatClock

CONSTANTS
    SongPeriod,      (* of the music, and of the config *)
    Frame,           (* time between two frames *)
    Late,            (* how late a beat's message may come *)
    Rack,            (* the rates of the triggers in play, in the order of the rack *)
    Tempos,          (* tempos that a command or a note may state *)
    Latencies,       (* latencies that a command may set *)
    MaxTime,         (* bound: time rendered *)
    MaxOther         (* bound: messages that are no beat, commands, tempo notes and
                        Starts, together *)

AllRates == {"bar", "half", "beat", "double"}
Rates == {Rack[i] : i \in DOMAIN Rack}
Threads == {"midi", "main"}
NoHit == [beat |-> -1, at |-> Never]

ASSUME SongAssumption == /\ SongPeriod \in Periods /\ Tempos \subseteq Periods
                         /\ Frame \in Nat \ {0} /\ Late \in Nat /\ Latencies \subseteq Int
ASSUME RackAssumption == Rack \in Seq(AllRates) /\ Rack # <<>>
ASSUME BoundsAssumption == /\ MaxTime \in Nat /\ SongPeriod <= MaxTime
                           /\ MaxOther \in Nat

VARIABLES
    clock,           (* the atomics *)
    todo,            (* the stores each thread has still to make *)
    now,
    rack,            (* the triggers *)
    armed,           (* triggers a look has armed for the next tick *)
    stage,           (* of the show's loop: "commands", "rack", "rendered" *)
    left,            (* triggers the rack has still to evaluate *)
    loaded,          (* what the read under way has loaded *)
    copies,          (* messages of the song's beat at hand so far *)
    strays, calls,   (* count towards the bound *)
    shown,           (* *history*: the beat when nothing was half stored *)
    writing,         (* *history*: what the MIDI thread's last call moves: "grid",
                        "tempo", or "mixed" with a call of the show's thread *)
    torn,            (* *history*: what the stores move that the reads of this
                        frame overlap with *)
    lastHit,         (* *history*: each trigger's last hit on the grid, beat and time,
                        since a store last overlapped with its reads *)
    song, tune       (* *history*: the song's beat last taken, and how far the count
                        was from it when the grid settled on a tempo that fits the
                        song; {} before *)

loopVars == <<stage, left, loaded>>
boundVars == <<copies, strays, calls>>
songVars == <<song, tune>>
vars == <<clock, todo, now, rack, armed, loopVars, boundVars,
          shown, writing, torn, lastHit, songVars>>

Trigger == [started : BOOLEAN, lastBeat : Nat, offbeatFired : BOOLEAN, fired : BOOLEAN]
NoLoad == [at |-> "anchor", anchor |-> 0, number |-> 0, inBar |-> FALSE, from |-> 0]

TypeOK ==
    /\ clock \in Clock
    /\ \A t \in Threads : \A i \in DOMAIN todo[t] : Stored(clock, todo[t][i]) \in Clock
    /\ now \in 0..MaxTime
    /\ rack \in [Rates -> Trigger]
    /\ armed \subseteq Rates
    /\ stage \in {"commands", "rack", "rendered"}
    /\ left \in Seq(Rates) /\ (left # <<>> <=> stage = "rack")
    /\ loaded.at \in {"anchor", "number", "period"}
    /\ strays \in Nat /\ calls \in Nat /\ strays + calls <= MaxOther
    /\ torn \subseteq {"grid", "tempo", "mixed"}

Init ==
    /\ now = SongPeriod
    /\ clock = Fresh(SongPeriod, now)
    /\ todo = [t \in Threads |-> <<>>]
    /\ rack = [r \in Rates |-> [started |-> FALSE, lastBeat |-> 0,
                                offbeatFired |-> FALSE, fired |-> FALSE]]
    /\ armed = {}
    /\ stage = "commands" /\ left = <<>> /\ loaded = NoLoad
    /\ copies = 0 /\ strays = 0 /\ calls = 0
    /\ shown = 0 /\ writing = "grid" /\ torn = {} /\ lastHit = [r \in Rates |-> NoHit]
    /\ song = 0 /\ tune = {}

-----------------------------------------------------------------------------
(* A call leaves its stores to its thread, which makes them one by one. *)
Quiet == \A t \in Threads : todo[t] = <<>>

Moves(stores) == IF Sets(stores, "period") THEN "tempo" ELSE "grid"

Call(t, stores) ==
    /\ todo[t] = <<>>
    /\ todo' = [todo EXCEPT ![t] = stores]
    /\ writing' = IF ~Quiet THEN "mixed" ELSE IF t = "midi" THEN Moves(stores) ELSE writing
    /\ UNCHANGED <<clock, now, rack, loopVars, shown, torn, lastHit>>

Store(t) ==
    /\ todo[t] # <<>>
    /\ clock' = Stored(clock, Head(todo[t]))
    /\ todo' = [todo EXCEPT ![t] = Tail(@)]
    /\ shown' = IF Quiet' THEN Beat(clock', now + clock'.latency) ELSE shown
    /\ torn' = IF t = "midi" /\ stage = "rack" THEN torn \cup {writing} ELSE torn
    /\ UNCHANGED <<now, rack, armed, loopVars, boundVars, writing, lastHit, songVars>>

-----------------------------------------------------------------------------
(* The MIDI thread. *)

NearestBeat == (2 * now + SongPeriod - 1) \div (2 * SongPeriod)   (* of two, the earlier *)
Due == now >= SongPeriod /\ now % SongPeriod <= Late

(* The tempo says about how long the song's beats since the last one took: *)
(* to less than a beat, less the three tenths that the clock lets pass.    *)
Fits ==
    LET off == now - clock.lastBeatAt - (NearestBeat - song) * clock.period
    IN  10 * off < 7 * clock.period /\ -10 * off < 7 * clock.period

(* A beat note, of the song's beat or of none. *)
MidiMessage ==
    LET stores == markMachineBeat(clock, now)
        after == After(clock, stores)
    IN  /\ Call("midi", stores)
        /\ IF ~Sets(stores, "lastBeatAt") THEN UNCHANGED songVars
           ELSE /\ song' = NearestBeat
                /\ tune' = IF after.settled < kSettleBeats \/ todo["main"] # <<>> THEN {}
                           ELSE IF tune # {} /\ Fits THEN tune
                           ELSE IF tune = {} /\ Due THEN {after.lastBeatCount - NearestBeat}
                           ELSE {}
        /\ UNCHANGED <<armed, calls>>

MidiBeat ==
    /\ Due /\ copies < 2
    /\ copies' = copies + 1
    /\ MidiMessage
    /\ UNCHANGED strays

MidiStray ==
    /\ ~Due /\ strays + calls < MaxOther
    /\ strays' = strays + 1
    /\ MidiMessage
    /\ UNCHANGED copies

Bounded == strays + calls < MaxOther /\ calls' = calls + 1

MidiStart ==
    /\ Bounded
    /\ Call("midi", restart(clock, now))
    /\ tune' = {}
    /\ UNCHANGED <<armed, copies, strays, song>>

(* A tempo note, or one tick of a MIDI clock. *)
MidiTempo(period) ==
    /\ Bounded
    /\ Call("midi", setBpm(clock, period, now))
    /\ tune' = {}
    /\ UNCHANGED <<armed, copies, strays, song>>

-----------------------------------------------------------------------------
(* The show's thread: the operator's commands and the beats off the audio  *)
(* bus, then the rack, then the frame.                                     *)

Command(stores) ==
    /\ stage = "commands" /\ Bounded
    /\ Call("main", stores)
    /\ tune' = {}
    /\ UNCHANGED <<armed, copies, strays, song>>

(* One that sets what is set already is left out. *)
Tap == Command(markLooseBeat(clock, now))
Align == Command(restart(clock, now))
SetBpm(period) == Command(setBpm(clock, period, now))
SetTempoHeld(held) == held # clock.tempoHeld /\ Command(<< [tempoHeld |-> held] >>)
SetFreeRun(enable) == enable # clock.freeRun /\ Command(<< [freeRun |-> enable] >>)
SetLatency(seconds) == Command(<< [latency |-> seconds] >>)

(* A look that comes up lit asks for a hit; asking twice is asking once. *)
armEntry(r) ==
    /\ stage = "rendered" /\ r \notin armed /\ Bounded
    /\ armed' = armed \cup {r}
    /\ UNCHANGED <<clock, todo, now, rack, loopVars, copies, strays,
                   shown, writing, torn, lastHit, songVars>>

BeginRack ==
    /\ stage = "commands" /\ todo["main"] = <<>>
    /\ stage' = "rack"
    /\ left' = Rack
    /\ loaded' = [NoLoad EXCEPT !.from = shown]
    /\ torn' = IF todo["midi"] = <<>> THEN {} ELSE {writing}
    /\ UNCHANGED <<clock, todo, now, rack, armed, boundVars, shown, writing, lastHit, songVars>>

(* positionAt loads the anchor, the number, then the period. *)
Load ==
    /\ stage = "rack"
    /\ \/ /\ loaded.at = "anchor"
          /\ loaded' = [loaded EXCEPT !.at = "number", !.anchor = clock.anchor]
       \/ /\ loaded.at = "number"
          /\ loaded' = [loaded EXCEPT !.at = "period", !.number = clock.beatNumber]
    /\ UNCHANGED <<clock, todo, now, rack, armed, stage, left, boundVars,
                   shown, writing, torn, lastHit, songVars>>

Read == BeatFrom(loaded.anchor, loaded.number, clock.period, clock.freeRun, now + clock.latency)
PastHalf == 2 * PartFrom(loaded.anchor, clock.period, clock.freeRun, now + clock.latency)
              >= clock.period

(* The last load and what the trigger makes of the position. *)
beatsPerHit == [bar |-> kBeatsPerBar, half |-> 2, beat |-> 1, double |-> 1]

EndTrigger(r, trigger, hit) ==
    /\ rack' = [rack EXCEPT ![r] = [trigger EXCEPT !.fired = @ \/ r \in armed]]
    /\ left' = Tail(left)
    /\ stage' = IF Tail(left) = <<>> THEN "rendered" ELSE "rack"
    /\ armed' = IF Tail(left) = <<>> THEN {} ELSE armed
    /\ loaded' = [NoLoad EXCEPT !.from = shown]
    /\ lastHit' = CASE torn # {} -> [lastHit EXCEPT ![r] = NoHit]
                    [] torn = {} /\ hit -> [lastHit EXCEPT ![r] = [beat |-> Read, at |-> now]]
                    [] torn = {} /\ ~hit -> lastHit

(* The first read seats the trigger on the grid, without a hit. *)
Seated(t) == [t EXCEPT !.started = TRUE, !.lastBeat = Read, !.offbeatFired = PastHalf]

evaluate_BeatNotKept ==           (* mutant: the beat of a hit is not remembered *)
    /\ stage = "rack" /\ loaded.at = "period" /\ ~loaded.inBar
    /\ LET r == Head(left)
           t == [rack[r] EXCEPT !.fired = FALSE]
       IN  IF t.started
             THEN EndTrigger(r, [t EXCEPT !.fired = Read # t.lastBeat], Read # t.lastBeat)
             ELSE EndTrigger(r, Seated(t), FALSE)
    /\ UNCHANGED <<clock, todo, now, boundVars, shown, writing, torn, songVars>>

evaluate ==
    /\ stage = "rack" /\ loaded.at = "period" /\ ~loaded.inBar
    /\ LET r == Head(left)
           t == [rack[r] EXCEPT !.fired = FALSE]
           crossed == [t EXCEPT !.lastBeat = Read, !.offbeatFired = FALSE]
           half == r = "double" /\ ~t.offbeatFired /\ PastHalf
       IN  \/ ~t.started /\ EndTrigger(r, Seated(t), FALSE)
           \/ /\ t.started /\ Read # t.lastBeat /\ beatsPerHit[r] <= 1
              /\ EndTrigger(r, [crossed EXCEPT !.fired = TRUE], TRUE)
           \/ /\ t.started /\ Read # t.lastBeat /\ beatsPerHit[r] > 1
              /\ rack' = [rack EXCEPT ![r] = crossed]
              /\ loaded' = [NoLoad EXCEPT !.inBar = TRUE, !.from = shown]
              /\ UNCHANGED <<stage, left, armed, lastHit>>
           \/ /\ t.started /\ Read = t.lastBeat
              /\ EndTrigger(r, [t EXCEPT !.offbeatFired = @ \/ half, !.fired = half], FALSE)
    /\ UNCHANGED <<clock, todo, now, boundVars, shown, writing, torn, songVars>>

(* A rate slower than the beat reads the clock again for its place in the bar. *)
evaluateInBar ==
    /\ stage = "rack" /\ loaded.at = "period" /\ loaded.inBar
    /\ LET r == Head(left)
           hit == InBar(Read, clock.downbeat) % beatsPerHit[r] = 0
       IN  EndTrigger(r, [rack[r] EXCEPT !.fired = hit], hit)
    /\ UNCHANGED <<clock, todo, now, boundVars, shown, writing, torn, songVars>>

(* The frame is drawn and sent; a store takes less than that. *)
NextFrame ==
    /\ stage = "rendered" /\ Quiet
    /\ now + Frame <= MaxTime
    /\ now' = now + Frame
    /\ stage' = "commands"
    /\ copies' = IF now' % SongPeriod <= Late /\ now' % SongPeriod >= Frame THEN copies ELSE 0
    /\ shown' = Beat(clock, now' + clock.latency)
    /\ UNCHANGED <<clock, todo, rack, armed, left, loaded, strays, calls,
                   writing, torn, lastHit, songVars>>

Ended == stage = "rendered" /\ Quiet /\ now + Frame > MaxTime /\ UNCHANGED vars

Next ==
    \/ \E t \in Threads : Store(t)
    \/ MidiBeat \/ MidiStray \/ MidiStart
    \/ \E p \in Tempos : MidiTempo(p) \/ SetBpm(p)
    \/ Tap \/ Align
    \/ \E b \in BOOLEAN : SetTempoHeld(b) \/ SetFreeRun(b)
    \/ \E s \in Latencies : SetLatency(s)
    \/ \E r \in Rates : armEntry(r)
    \/ BeginRack \/ Load \/ evaluate \/ evaluateInBar
    \/ NextFrame \/ Ended

Spec == Init /\ [][Next]_vars

-----------------------------------------------------------------------------
(* beat_clock.h:32: the clock counts beats, not messages. From when the    *)
(* grid is settled until something other than the song moves it or a beat  *)
(* comes that its tempo does not fit, the count and the song's own count   *)
(* stay the same distance apart, whatever was lost, doubled, late or stray *)
(* on the wire. (A grid may settle on a wrong tempo, or a beat that comes  *)
(* after several were lost may be nearer to another number of its beats.)  *)
CountsBeats ==
    Quiet /\ tune # {} => tune = {clock.lastBeatCount - song}

(* beat_clock.h:38: nothing locks. A read that overlaps with the stores    *)
(* of a beat or of a restart, when these leave the tempo alone and no call *)
(* of the other thread ran among them, never shows less than the clock     *)
(* showed when the read began: the count is stored before the anchor. (It  *)
(* may show more for that one read. A reader that is led by a latency has  *)
(* seen a beat that the grid may take back.)                               *)
ReadNotBehind ==
    [][(evaluate \/ evaluateInBar) /\ torn \subseteq {"grid"} /\ clock.latency <= 0
          => Read >= loaded.from]_vars

(* beat_trigger.h:52: on a clock that nobody but the song moves, a trigger *)
(* hits once a beat, a bar once a bar: unless a store overlapped with its  *)
(* reads, each hit is of a later beat than the hit before.                 *)
HitsOnce ==
    [][calls = 0 =>
         \A r \in Rates : lastHit'[r] \notin {lastHit[r], NoHit}
            => lastHit'[r].beat > lastHit[r].beat]_vars

(* beat_clock.h:82: "The integer part never goes backwards", with nobody   *)
(* but the song to move the clock, of the beats that a trigger reads.      *)
NeverBackwards ==
    [][calls = 0 =>
         \A r \in Rates : rack[r].started => rack'[r].lastBeat >= rack[r].lastBeat]_vars
=============================================================================
