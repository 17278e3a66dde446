----------------------------- MODULE BeatClock -----------------------------
(***************************************************************************)
(* ebeat::BeatClock (lib/src/ebeat/beat_clock): the beat grid as the       *)
(* record of its atomics, and each of its calls as the sequence of stores  *)
(* it makes. What a call loads, it loads when it starts; the stores that   *)
(* only the writer's own thread looks at share a step with a neighbour.    *)
(*                                                                         *)
(* Times are integers. A position is a beat and how far into it, in the    *)
(* units of the period.                                                    *)
(***************************************************************************)
EXTENDS Integers, Sequences

CONSTANTS
    MinPeriod,          (* 60 / kMaxBpm *)
    MaxPeriod,          (* 60 / kMinBpm *)
    kExternalTimeout,
    kSettleBeats,
    kRelockBeats,
    kBeatsPerBar

ASSUME PeriodAssumption == /\ MinPeriod \in Nat \ {0} /\ MaxPeriod \in Nat
                           /\ MinPeriod <= MaxPeriod
ASSUME CountsAssumption == /\ kExternalTimeout \in Nat
                           /\ kSettleBeats \in Nat \ {0} /\ kRelockBeats \in Nat \ {0}
                           /\ kBeatsPerBar \in Nat \ {0}

Periods == MinPeriod..MaxPeriod
Never == -1                           (* a time before the first *)

(* The atomics. source and externalBeats are only described. *)
Clock == [period : Periods, anchor : Int, beatNumber : Nat,
          lastBeatAt : Int, lastBeatCount : Nat, downbeat : Nat,
          settled : 0..kSettleBeats, strayBeats : 0..(kRelockBeats - 1),
          lastExternal : Int, tempoHeld : BOOLEAN, freeRun : BOOLEAN, latency : Int]

(* After the show has set the tempo of its config. *)
Fresh(period, when) ==
    [period |-> period, anchor |-> when, beatNumber |-> 0,
     lastBeatAt |-> Never, lastBeatCount |-> 0, downbeat |-> 0,
     settled |-> 0, strayBeats |-> 0,
     lastExternal |-> Never, tempoHeld |-> FALSE, freeRun |-> TRUE, latency |-> 0]

-----------------------------------------------------------------------------
(* Reading. *)

Gone_BeforeAnchor(anchor, now) == now - anchor   (* mutant: not held at the beat *)
Gone(anchor, now) == IF now > anchor THEN now - anchor ELSE 0

(* positionAt from three loads: the beat. Without free run the phase is    *)
(* held just short of the next.                                            *)
BeatFrom(anchor, number, period, freeRun, now) ==
    IF freeRun THEN number + (Gone(anchor, now) \div period) ELSE number

(* The part of that beat gone by, in units of the period. *)
PartFrom(anchor, period, freeRun, now) ==
    IF ~freeRun /\ Gone(anchor, now) >= period THEN period - 1
    ELSE Gone(anchor, now) % period

Beat(c, now) == BeatFrom(c.anchor, c.beatNumber, c.period, c.freeRun, now)
Part(c, now) == PartFrom(c.anchor, c.period, c.freeRun, now)

(* beatInBar of a beat: a downbeat may have been declared ahead of it. *)
InBar(beat, downbeat) == (beat - downbeat) % kBeatsPerBar

isLocked(c, now) == c.lastExternal > 0 /\ now - c.lastExternal < kExternalTimeout

-----------------------------------------------------------------------------
(* Writing: sequences of stores, each a record of the fields it sets. A    *)
(* call sets a field once.                                                 *)
Stored(c, store) ==
    [field \in DOMAIN c |-> IF field \in DOMAIN store THEN store[field] ELSE c[field]]

Sets(stores, field) == \E i \in DOMAIN stores : field \in DOMAIN stores[i]

After(c, stores) ==
    [field \in DOMAIN c |->
        IF Sets(stores, field)
          THEN stores[CHOOSE i \in DOMAIN stores : field \in DOMAIN stores[i]][field]
          ELSE c[field]]

AtLeast(a, b) == IF a >= b THEN a ELSE b

(* How a beat may move the count: "Grid" never below the prediction,       *)
(* "Fresh" past it, "Exact" as the beats say.                              *)
NextBeat_NoPrediction(c, when, steps, advance) ==  (* mutant: the prediction is not looked at *)
    c.lastBeatCount + steps

NextBeat(c, when, steps, advance) ==
    CASE advance = "Grid"  -> AtLeast(c.lastBeatCount + steps, Beat(c, when))
      [] advance = "Fresh" -> AtLeast(c.lastBeatCount + steps, Beat(c, when) + 1)
      [] advance = "Exact" -> c.lastBeatCount + steps

takeBeat_AnchorFirst(c, when, steps, advance) ==   (* mutant: the anchor moves before the count *)
    LET next == NextBeat(c, when, steps, advance)
    IN  << [anchor |-> when, strayBeats |-> 0],
           [beatNumber |-> next, lastBeatCount |-> next, lastBeatAt |-> when] >>

takeBeat(c, when, steps, advance) ==
    LET next == NextBeat(c, when, steps, advance)
    IN  << [beatNumber |-> next, lastBeatCount |-> next, lastBeatAt |-> when],
           [anchor |-> when, strayBeats |-> 0] >>

(* A quarter of the gap between beats goes into the tempo. *)
learnPeriod(c, interval) ==
    IF c.tempoHeld \/ interval \notin Periods THEN <<>>
    ELSE << [period |-> (3 * c.period + interval) \div 4] >>

Heard(when) == << [lastExternal |-> when] >>

OneBeat(c, when, elapsed, settled) ==
    << [lastExternal |-> when, settled |-> settled] >>
      \o takeBeat(c, when, 1, "Grid") \o learnPeriod(c, elapsed)

(* On a settled grid a message counts every beat since the last. *)
SettledBeat(c, when, elapsed, steps) ==
    Heard(when) \o takeBeat(c, when, steps, "Grid") \o learnPeriod(c, elapsed \div steps)

(* The nearest number of whole beats, and whether it is near enough: no    *)
(* further off than kSnapWindow, three tenths of a beat.                   *)
Steps(elapsed, period) == (2 * elapsed + period) \div (2 * period)
Agrees(elapsed, period) ==
    LET off == elapsed - Steps(elapsed, period) * period
    IN  10 * off <= 3 * period /\ -10 * off <= 3 * period

(* A beat off the wire, from a MIDI clock or a note. *)
markMachineBeat_CountsMessages(c, when) ==   (* mutant: every message is a beat *)
    OneBeat(c, when, IF c.lastBeatAt > 0 THEN when - c.lastBeatAt ELSE Never, kSettleBeats)

markMachineBeat(c, when) ==
    LET elapsed == IF c.lastBeatAt > 0 THEN when - c.lastBeatAt ELSE Never
        steps == Steps(elapsed, c.period)
        agrees == Agrees(elapsed, c.period)
    IN  CASE ~isLocked(c, when) \/ c.lastBeatAt <= 0 -> OneBeat(c, when, elapsed, 0)
          [] isLocked(c, when) /\ c.lastBeatAt > 0 ->
               CASE elapsed < MinPeriod -> Heard(when)        (* the same beat, sent twice *)
                 [] elapsed >= MinPeriod /\ c.settled < kSettleBeats ->
                      OneBeat(c, when, elapsed,
                              IF agrees /\ steps = 1 THEN c.settled + 1 ELSE 0)
                 [] elapsed >= MinPeriod /\ c.settled >= kSettleBeats /\ ~agrees ->
                      IF c.strayBeats + 1 < kRelockBeats
                        THEN << [lastExternal |-> when, strayBeats |-> c.strayBeats + 1] >>
                        ELSE OneBeat(c, when, elapsed, 0)
                 [] elapsed >= MinPeriod /\ c.settled >= kSettleBeats /\ agrees ->
                      IF steps <= 0 THEN Heard(when)
                      ELSE SettledBeat(c, when, elapsed, steps)

(* A tap, or a detector's beat: one beat whatever the grid says. *)
markLooseBeat(c, when) ==
    << [lastExternal |-> when, settled |-> 0] >> \o takeBeat(c, when, 1, "Exact")
      \o learnPeriod(c, IF c.lastBeatAt > 0 THEN when - c.lastBeatAt ELSE Never)

(* The one is here: a MIDI Start, or an align. *)
restart(c, when) ==
    takeBeat(c, when, 1, "Fresh")
      \o << [downbeat |-> NextBeat(c, when, 1, "Fresh"), settled |-> 0, lastExternal |-> when] >>

(* The tempo changes and the phase is held: the anchor moves back by the   *)
(* part of the beat already gone, at its new length.                       *)
setBpm(c, period, when) ==
    << [period |-> period],
       [beatNumber |-> Beat(c, when)],
       [anchor |-> when - ((Part(c, when) * period) \div c.period)] >>
=============================================================================
