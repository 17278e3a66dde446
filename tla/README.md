# A verification of eclipse-os

eclipse-os drives wearable and sculptural LED "relics" (microcontrollers) and the desk
(a host program) that can take a relic's pixels over a USB cable. This directory holds
TLA+ models of the parts of it that decide *which* picture is shown and *who* draws it,
the TLC configurations that check them, and TLAPS proofs of their most important
properties. Paths below are relative to the repository; `state.cpp:199` means line 199 of
`lib/src/esm/state.cpp`, and files of `elink` are in `lib/src/elink`.

## 1. Inventory

| component | state it keeps | operations | talks to | what is hard | correct means |
|---|---|---|---|---|---|
| `esm::StateMachine` (`state.cpp`) | active look, next look, each look's status, fade time and clock, the blend, "blend from snapshot" | `setActiveState`, `setNextState`, `restartState`, `setBlend`, `transitionTime`, `tick` | called by every relic core, the desk's pattern and the desk's shadow | calls arrive at any moment of a fade; a fade can be retargeted any number of times | the last look named is where it goes; statuses agree with the machine; every fade ends |
| `StateMachine_GenericHSV` (`state_generic.cpp`) | one colour buffer per look, the snapshot | `tick`, `captureBlendSource` | reads the machine's status | which buffer is current depends on statuses set by other calls | never mixes a stale buffer; a fade rises over the picture that was showing |
| `elink` frames (`frame.cpp`) | parser state, lengths, checksum, buffer | `writeFrame`, `push` | cable | bytes lost or damaged anywhere | nothing forged, no overrun, resync |
| `elink::RelicLink` (`relic_link.cpp`) | streaming, silence, typed line, command queue | `tick`, `takeCommand`, a handler per frame type | `FrameReader`, transport, `RelicCore` | desk dies, cable pulled, flood, text and frames share the cable | takeover ends by itself, loop never held, no command out of noise, newest cues kept |
| `eio::RelicCore` + `ObeliskCore` (`relic.cpp`, `src/relics/obelisk/obelisk.cpp`) | the machine, whether it has ticked | `runTick`, `handleCommand` (`state`, `sim`, `switch`, ...) | link, machine, desk | cues arrive while the desk owns the pixels, in mid-fade, resent | a cue puts the machine on its way; no fade left pending under a takeover |
| desk `RelicUsbOutput` + `link`/`base`/`state` commands (`desktop/src/dmx_output.cpp`, `main.cpp`) | streaming, mode, failure count, pending take, retry times | `open`, `sendFrame`, `sendCommand`, `release`, `take` | cable, shadow, command stream | write failures, a device lost in mid-show, two relics, a take waiting for an answer | only a hopeless stream ends the show; a relic let go draws for itself again; a take happens, for every relic |
| desk `RelicShadow` (`relic_shadow.cpp`) | a copy of the relic's machine: look, outgoing look, blend | `setProfile`, `applySim`, `blendTo`, `clear`, `tick` | relic, by cues out and `sim` answers back | answers in flight are older than the copy; the relic moves on while they travel; a write that failed is reported as done | a blend is not cut by an old answer; the copy ends on the relic's look |
| `ebeat` (`beat_clock.cpp`, `beat_trigger.cpp`) | period, anchor, beat number and ten more, each an atomic of its own; four triggers | `markBeat`, `setBpm`, `restart`, `beatPosition`, `evaluate` | MIDI thread and show thread write, the rack reads | torn reads, lost, doubled, late and stray beats | it counts beats, not messages; a trigger hits once a beat; the position never goes back |
| `emidi` (`parser.cpp`, `clock.cpp`) and `MidiInput` (`desktop/src/midi_input.cpp`) | running status, message in progress; tick in the beat, window of 24 ticks | `feed`, `handle`, `handleMessage`, `alignToNow` | MIDI cable, beat clock | realtime bytes in the middle of messages, lost bytes, gaps | messages are those said; the grid and the tempo are the music's |
| `emqtt` + the whiteboard (`mqtt_client.cpp`, `src/relics/todoist_whiteboard`) | reconnect timer; pattern, power, brightness, announced, was connected | `connect`, `tick`, `publish`, `subscribe`; a handler per topic, `next` | broker, Home Assistant, the desk's link | the session goes at any packet; the desk has the pixels meanwhile | subscribed, announced and shown as it is after each reconnect |
| `eosc`, `edmx`, `ebeat::AudioLevel` | none, or a slot counter, or a level and its stamp | decode, render | ports | - | not modelled, see section 8 |
| show loop, devices, layers, latency, python UI, looks, generators, IO | - | - | - | one large sequential render loop | not modelled, see section 8 |

All of a relic's firmware runs in one loop (`RelicCore::runTick`); nothing preempts it, so
a handler is one atomic action and interleaving comes from the order of calls, of bytes and
of ticks. The whiteboard's loop talks to a broker in between, so there each packet is an
action. The desk has threads for MIDI, OSC and stdin that only queue, except for the beat
clock, which is shared between threads without a lock: there each atomic store and load is
an action.

## 2. Modules

| module | models | how |
|---|---|---|
| `Crossfade` | what a machine promises to whoever watches the rig: a fade raises the look asked for over the picture that was showing, whatever that was a mix of | abstract specification: `Fade`, `Cut`, `Rise`, `Land`, `Wander` |
| `StateMachine` | `esm::StateMachine` and its rendering machine | one action per public call, `tick` with its four outcomes: `Advance`, `Land`, `Hold`, `Wander`; with `Renders` it is `StateMachine_GenericHSV`, without it the bare machine |
| `FrameReader` | `writeFrame`, the wire, `FrameReader::push` | one disjunct of `push` per parser state; `Lose` and `Damage` are the wire's |
| `RelicLink` | `RelicLink::tick`, its handlers, queue and holdover | `BeginTick`, `ReadItem` once per item, `EndTick`; `Arrive` and `Unplug` are the other end |
| `Obelisk` | `RelicCore::runTick` around `ObeliskCore` | an INSTANCE of `StateMachine` that does not draw; the loop's phases, `handleState`, `handleSim`, ... |
| `Handover` | what the link promises a sculpture: taken only by a frame from a desk that streams to it | abstract specification |
| `DeskLink` | `RelicUsbOutput`, the `link`, `base`, `state` and `quit` commands and the show's loop around them | one action per command, `BeginFrame`, then `Retry`, `Send` and `Drain` once per device; `Read` and `Lapse` are the relic, `Pull` and `Plug` its cable |
| `RelicShadow` | the desk's copy, the commands and loop steps that move it, the relic it copies | cues and questions go out in order on `cable`, answers come back in order on `answers`, any write may be lost; `BlendLands` and `RelicLands` are the two machines' fades |
| `BeatClock` | `ebeat::BeatClock` | no variables: the clock as the record of its atomics, each call as the sequence of its stores, a read as the function of its loads |
| `BeatRig` | the MIDI thread, the show's thread and `TriggerRack` around one `BeatClock` | a call leaves its stores in `todo`; `Store` makes one; `BeginRack`, `Load`, `evaluate`, `evaluateInBar` are the rack's tick, load by load |
| `Midi` | `emidi::Parser`, `ClockFollower`, `MidiInput::handleMessage`, a sequencer and its cable | `feed` and `Completed` are the parser, `FollowClock`, `FollowStart`, `FollowSongPosition` the follower, `Told` what reaches the beat clock |
| `Whiteboard` | `MqttClient`, `WhiteboardCore`, the sketch's loop and a broker | `phase` is the place in the loop, `todo` the packets of the running call, `Say` one of them |
| `*Proofs` | the theorems of section 6 | EXTENDS the component |
| `MC*` | values of the constants for TLC | |

Variables keep the names of the members they model. Those that do not exist in the code are
marked *history* where they are declared: `asked` (the look the last call named), `last`
(the last frame handed up), `arrivals` and `told` (what the link has handled); `inStep` of
`RelicShadow` (the running blend started with nothing under way and its cue was not lost);
`stuck` of `DeskLink` (the writes that failed since the relic last made room); `shown`,
`writing`, `torn`, `lastHit`, `song` and `tune` of `BeatRig` (what a reader should see,
which stores overlapped with its reads, and how far the count is from the song's); `framed`,
`inTempo`, `whole`, `astray`, `idled` and `uneven` of `Midi` (what the sequencer meant by
the bytes); `taken` of `Whiteboard` (the desk had a loop's pixels while the client knew it
was not connected). `given` and `pulls` of `DeskLink` only count towards bounds. A
definition whose name ends in `_Something` and is marked *mutant* is a plausible bug; it is
used to show that a property can fail.

Abstractions, by module:

* `StateMachine`: time is natural numbers up to `MaxTransition`. A colour is where it came
  from; `strip` is one look, or the mix of two buffers, and `drawn` says which looks drew
  into theirs in the same tick. The frozen picture is the set `frozen` of the looks in it;
  how much of each is in it is left out. Transition tests (`addStateTransition`) may name
  any look at any settled tick, which covers the relics that chain looks by timers and
  buttons. `Liberties` names two calls that the interface allows and callers avoid: setting
  a look in mid-fade, and restarting the outgoing one. Theorems say which they exclude.
* `FrameReader`: a byte is a small number; only checksum bytes carry what they were
  computed over. The checksum never collides. A checksum byte read as anything else is
  just a number, so payload and checksum can be mistaken for headers.
* `RelicLink`: what arrives is items, not bytes: a frame takes effect with its last byte,
  and what `FrameReader` swallows without completing is `midFrame`. The budget of a tick
  and the typed line count items. `silence` saturates at the holdover, the only value it
  is compared with.
* `Obelisk`: what is drawn is left to `StateMachine`. Whether the desk owns the pixels after
  a tick's bytes is an arbitrary choice (`RelicLink` says which choices there are); a
  command is a verb, a look and a list of words, read word by word since each word takes
  effect by itself.
* `DeskLink`: a cable holds `Room` whole frames; a write into a full one fails, as the
  driver's timeout does, and may leave a torn piece that costs the relic the next frame.
  The relic's holdover is a silence of any length once no pixel frame is on the cable. The
  0.75 s of a pending take is `TakeWait` frames. What a cue says is left out, except that
  one was given; the pattern's own machine accepts a cue or does not. `quit` also stands
  for the frame limit. A shadow is live or not: an answer to `sim` makes it live, or drops
  it when no look of that name can be made. `patch` says whether a device's channels make a
  frame at all: `sendFrame` fails on a patch without pixels, and `writeFrame` on one longer
  than a frame (`dmx_output.cpp:561`, `:514`).
* `RelicShadow`: fades have no length, each machine lands when its own loop gets there. The
  values behind a look only set its clocks and are left out. A write is refused, and the
  command ends there, or is reported as done, and then it arrives or is lost (`Written`):
  `sendRaw` reports a failed write as done until twenty in a row have failed
  (`dmx_output.cpp:533`), and a line may also be swallowed behind a torn frame or dropped
  from the relic's queue. Of the pixel frames on the cable one is kept; a second would
  change nothing. One relic; a hello may name any relic at any time.
* `BeatClock`, `BeatRig`: time is an integer, a beat of the song 32 units, so that quarters
  of intervals and a rounded tempo differ. What a call loads it loads when it starts: only
  the writers' own threads write what they load, except where two writers overlap. Such a
  call is marked "mixed" in `writing`, and a read among its stores promises nothing. Stores
  that only the writer looks at share a step with a neighbour. `Tap` is also the beat of an
  audio detector. `tune` begins when a grid settles with a beat of the song, and ends with
  any call but a beat and with a beat that the grid's tempo does not fit (`Fits`).
* `Midi`: a byte is a status or a data value; four ticks to a beat instead of 24, of which
  nothing but the remainder matters. Time is in tick intervals. A lost byte and a lost tick
  interval count together. The follower's window holds ages instead of times.
* `Whiteboard`: `PubSubClient` and the broker are what their calls promise: a clean session,
  packets that reach nobody once the connection is gone, a client that believes in it until
  a keep-alive finds out. The whole call of a handler runs packet by packet. Two of the four
  patterns, three of the four levels that commands can set, and one topic of each handler.

## 3. Runs

| run | instance | shows |
|---|---|---|
| `state_machine` | 3 looks, fades of 0..3, ticks of 0..2, every call between any two ticks | `RunningStatus`, `OthersOff`, `LastCueWins`, `BlendSourcesDrawn`, refinement of `Crossfade` (`FadesFromWhatShows`), every fade ends |
| `frame_wire` | bytes of 8 values, 3 kinds of frame, one of them with the magic in its payload, checksums that read as lengths, 2 faults | `NoForgedFrame`, `Resyncs`; the buffer is never overrun (in `FrameTypeOK`) |
| `relic_link` | queue 2, line 2, budget 2, holdover 2, 2 items waiting, 3 commands, ticks of 0..1 | `NoTypingMidShow`, `BacklogIsNewest`, `LastFrameDecides`, `TakeoverEnds`, `TickEnds` |
| `obelisk` | 2 ambient looks and 1 of the scanner, fades of 0..2, six kinds of command | `StateCueTaken`, `FadesLand`; the machine is never ticked without a look (in `TypeOK`) |
| `named_look` | the same | **violated**: `LookNamedIsTaken` |
| `desk_link` | 1 relic, a patch that makes a frame or not, cable of 2 frames, 2 failures, a wait of 1 frame, 3 commands, 1 pull | `EndsOnlyBlocked`, `HandedBack`, `LostCableEndsShow`, `TakeHappens`, refinement of `Handover` |
| `shadow` | 3 looks both ends know and 1 only the relic has, 2 frames and 1 answer under way, any write lost | `BlendKept`, `Converges` |
| `beat` | beats of 32 units and frames of 8, four beats, a bar of 2, the rates "bar" and "double", tempos of 24 and 48, messages lost, doubled and up to a frame late, and one event more: a stray or a call of any other kind | `CountsBeats`, `ReadNotBehind`, `HitsOnce` |
| `beat_back` | the same | **violated**: `NeverBackwards` |
| `midi` | 4 ticks to a beat, 5 messages, 1 byte lost or interval passed over | `FramesWhatIsSaid`, `BeatsInStep`, `TempoOfMusic` |
| `whiteboard` | 2 patterns, a reconnect on the third tick, 2 connections lost, 2 commands | `SaidAgain`, `Reconnects` |
| `whiteboard_deaf` | the same | **violated**: `Reachable` |

Why the bounds are enough. A fade involves an outgoing, an incoming and a newly named look,
so three looks give every role; a fourth can only repeat one. A fade of three units with
ticks of one or two has a tick that starts it, one inside, one that lands exactly on its
time and one past it. Two faults can hit the two halves of one frame's checksum or two
frames in a row, and one lost byte is enough to enter a fake frame in the payload that holds
the magic. A queue and a line of two can be empty, partly full, full and over full,
and three commands overflow the queue. A holdover of two and ticks of one separate "reset
this tick" from "reset last tick". Two failures are one that is forgiven and one that ends
the show, a cable of two frames can be empty, half full and full, and three commands are a
take, what cuts across it, and what comes after. The loops over several relics, which
return at the first refusal, are in the proofs for any number of them; on one relic TLC
cannot see them, and with two relics the run is too large for more than one command.

Two frames and one answer under way let a cue overtake an answer, an answer of before a cue
meet the copy after it, and a lost cue leave the copy blending with a question and its answer
on their way. Three common looks are the one left, the one named and one that an answer
older than both names; the answer that cuts a blend whose cue was lost is of that kind, and
TLC finds it at once if `inStep` does not ask that the cue arrived.

The beat run lasts from the song's first beat to its fourth, so that a grid settles on the
second (one agreeing beat, `kSettleBeats` 1), the third is missed, and the fourth is taken
with two steps; a stray is taken, passed over, or with a late beat behind it relocks
(`kRelockBeats` 2); a tempo stated before the second beat makes the grid settle on one that
does not fit; "bar" is read through the bar and "double" through the half beat, and between
them they take every branch of `evaluate`. One call is every pair of two threads' stores.
Four ticks to a beat are the fewest for which a sixteenth is a whole tick; a slowest beat of
5 tells a window across a gap of one interval (told) from one of two (out of range). Two
connections are one that is lost again in the middle of the announcement of the other; three
ticks of wait separate a timer that is put back from one that is not. The proofs of section
6 do not depend on these bounds.

`CHECK_DEADLOCK FALSE` is set where the system really stops: for `relic_link`, where a
relic may be rebooted into its boot loader, and for `desk_link`, whose show ends.

## 4. Fairness

* `StateMachine`: weak fairness of a tick that takes time. The firmware's loop calls `tick`
  for as long as it runs (`relic.cpp:103`) with the measured time since the last frame.
  Calls are not fair: a caller may resend, retime or retarget for ever.
* `FrameReader`: a streaming desk keeps sending, and the cable carries what is written. The
  wire's faults are bounded, since no reader resyncs on a wire that never stops failing.
  `Resyncs` supposes that from some moment on the frames sent hold the magic only where they
  start (`Bare`); section 5 says what happens otherwise.
* `RelicLink`: weak fairness of each step of the loop, strong fairness of a tick that ends
  with time passed: the loop's clock advances, though any number of ticks may round to 0.
* `Obelisk`: the loop never stops; strong fairness of `EndTick`, because one tick takes at
  most the commands of the queue (`MAX_QUEUED_COMMANDS`) and so does not take commands for
  ever, and of an `EndTick` that takes time while the desk is not streaming. `FadesLand` is
  conditional on the desk letting go again and again: under a takeover a pending fade is
  frozen by design (`obelisk.cpp:243`).
* `DeskLink`: the desk's loop does not stop by itself (weak fairness of `Loop`), each device
  is due again and again, since `nextSendAt` advances by one period (`main.cpp:6282`; strong
  fairness of `Send`), and a relic keeps reading its cable and counting its silence. No
  fairness for the operator, for plugging a cable in, or for a retry that succeeds.
* `RelicShadow`: weak fairness of each step of either loop: both run for as long as the
  program does, the desk asks again every five seconds (`main.cpp:6374`), and the cable does
  not lose every question for ever: a question that is lost is no step of the model, so the
  fairness of `AskAgain` is of one that gets through. None for the operator, for a hello, for
  the pixel frames or for the holdover; `Converges` supposes that the operator
  stops and the stream goes on.
* `Whiteboard`: weak fairness of the sketch's loop, which the Arduino core calls for ever,
  and of the keep-alive that notices a dead connection. None for the network, for Home
  Assistant, or for the desk's letting go of the pixels; `Reconnects` supposes a broker that
  stays reachable.
* `BeatRig` and `Midi` check safety only and state none.

## 5. Findings

Each is a disagreement between a comment and what the code does, found by a run.

1. `state.h:119`, `state.cpp:208`: the active look is a legal target in mid-fade, but
   `obelisk.cpp:396` filters that cue out and answers it as taken (`named_look`).
2. `obelisk.cpp:413` "sets it: that look ... with no blend": when the look named is the one
   fading out, line 438 does nothing and the fade to the other look stays pending
   (`named_look`; TLC reports the shortest trace, the others differ in the command).
3. `obelisk.cpp:384` "so the look lands now": under a takeover that began in mid-fade, line
   389 does nothing for the look fading out, and the fade plays at the handback
   (`named_look`).
4. `beat_clock.h:82` "The integer part never goes backwards": the beat's number is stored
   before its anchor, and a frame between the two reads up to a beat more than the clock
   shows a moment later; the next frame reads the smaller beat again (`beat_back`). The
   order the code has is the better one: with the anchor first a read may fall behind, which
   is what `ReadNotBehind` excludes.
5. `todoist_whiteboard.cpp:437` "A reconnect is a new session ... Say it all again": the
   relic looks for the reconnect in its own tick, which does not run while the desk has the
   pixels. A session lost and found within one takeover leaves it connected and subscribed
   to nothing (`whiteboard_deaf`).

Seen while modelling, without a run of their own:

* `frame.h:24` "two bytes so pixel data cannot fake a frame start": pixel bytes are not
  escaped; after one lost byte, a still picture that holds the magic and a plausible header
  keeps the reader inside fake frames for as long as that same picture is streamed. So
  "resyncs on the magic after garbage" (`frame.h:94`) is not true of every stream: `Resyncs`
  without `BareStream` is violated in the instance of `frame_wire`, whose payloads and
  checksums hold the magic and headers the reader accepts. No forged frame is handed up
  meanwhile (`NoForgedFrame`, in the same instance).
* `relic_link.cpp:67` "a frame that arrived this tick resets it": the tick's whole
  `deltaTime` is added after the reset, so a tick as long as the holdover drops the takeover
  it has just renewed. `LastFrameDecidesWhenQuick` assumes shorter ticks.
* `desktop/readme.md:2779`: `link pixels` after `link cue` takes the relic again; it only
  sets the mode, and the stream stays off until a `link take`.
* `dmx_output.cpp:520` "Ending a show over one slow frame would be absurd": so it is for a
  slow relic, but a patch that resolves to no pixels, or to more than a frame holds, ends the
  show with its first frame over a cable that takes everything; with `start = "released"`
  that is the first frame after the take. `Hopeless` names it.
* `main.cpp:3838`, `link bootsel`, "The show keeps running": the output stays live over a
  shut port, and the next frame's failure ends the show.
* `main.cpp:3496` "A `link` command applies to all of them": the first relic the loop visits
  clears the pending take. One shadow serves all relics.
* A take asked for while streaming, or followed by `link cue`, stays pending and fires
  later, in cue mode too. A device lost in mid-show is never offered to the retry loop of
  `main.cpp:6168`, whose comment names it.
* `midi_input.h:57` "Start, Continue and Song Position Pointer ... we honour all three":
  `clock.cpp:72` does nothing on a Continue, so the grid goes on from wherever ticks sent
  while the song was stopped have left it (`idled`).
* The period's store may be read with the anchor and number of before, and then a read may
  be behind; a `bpm` command whose stores overlap a MIDI beat's mixes the two, and the read
  between them may be behind even where each call alone would not let it; `beat` and
  `midi align` come from the show's thread while MIDI beats come from theirs, and each takes
  `lastBeatCount` without looking at the other. With a latency above zero the position a
  reader has seen may be taken back by the next beat. `ReadNotBehind` leaves these three out.
* `beat_clock.h:32` "counts beats, not messages" is true of a grid whose tempo fits. A grid
  may settle on one that does not: `kSettleBeats` beats that agree with it settle it, and a
  stray between two beats can be what agrees after a `bpm` command. A lost beat is then
  counted as none or two; and after several lost beats a tempo that is a little off can be
  nearer to another number of them. `CountsBeats` ends there (`Fits`).
* `link cmd state ...` reaches the relic and not the copy, which follows at the next answer
  to `sim`; after the copy is cleared, nothing asks again. An answer older than the one look
  that `outgoingName` remembers cuts a running blend.
* `dmx_output.cpp:533`: `base` blends the copy over a cue whose write failed, since `sendRaw`
  reports it as done. The copy is then on its way to a look the relic never hears of, and an
  answer that names a third look - the relic was in a fade of its own - cuts the blend. The
  question of five seconds later mends the copy (`Converges`); the cue itself is not sent
  again, though `base` has answered OK.
* The whiteboard's discovery advertises a colour topic that is not subscribed
  (`todoist_whiteboard.cpp:288`), and a restart of Home Assistant alone, with the broker up,
  is not noticed by the relic.

## 6. Proofs

Assumptions are the named ASSUMEs of the modules: constants are naturals in range, a null
look is no look, the checksum is ideal by construction of the model. All theorems hold for
any number of looks, any frames, widths, limits and bounds.

* `StateMachineProofs`. The inductive invariant `Inv` is `TypeOK /\ RunningStatus`: without
  `RunningStatus` nothing relates a status to the two pointers, and `setNextState` reads
  both. Without mid-fade cuts `Tidy` adds `OthersOff` and `LastCueWins`, which give the
  refinement of `Crossfade` step by step: a cue that starts a fade is a `Fade`, over the
  settled look or over what shows; one that lands at once is a `Cut`; a tick is a `Rise`, a
  `Land` or a `Wander`. What is under a retargeted fade is `frozen`, so the step that
  matters is `captureBlendSource`: it has to run at each retarget, the second in a row too.
  The theorem is of a machine with nodes to draw on (`Renders`). `BlendSourcesDrawn` needs
  only `Inv`, because a tick rewrites `drawn` and `strip` together.
* `LinkProofs`, the relic's end of the cable. Of `FrameReader`: `Covers` says what the
  running checksum covers in each parser state: type, two length bytes and the payload so
  far, in the layout `writeFrame` used. A match then makes type, length and payload those of
  one written frame (`MatchIsSent`), whatever the wire did. Of `RelicLink`: `FreshFrame` says
  that within a tick the last frame, if of pixels, leaves streaming on and silence at 0, and
  if a release, streaming off; the queue facts are in `QueueCommandKeeps`.
  `LastFrameDecidesWhenQuick` assumes
  `MaxDelta < Holdover`; section 5 says why it must.
* `ObeliskProofs`. Every step of the loop is a step of `StateMachine` or a stutter - it is
  written that way, and the lemma `ObeliskUsesMachine` only says so - and therefore
  `RunningStatus` follows from `StateMachineProofs` by instantiation, and so does the
  machine's half of `TypeCorrect`; the loop's own half (`LoopTypeOK`) and "there is a look
  to tick" are inductive by themselves. `StateCueTakenHolds` is an action property from the
  type invariant: a cue either is the next look already, or goes through `setNextState` or
  `setActiveState`, both of which end at the look named (`CueIsTaken`).
* `DeskLinkProofs`, for any number of devices. `Follows` says what any operation makes of an
  output: well formed, and a picture on its cable only if one was there or the desk
  streams; each command's loop, each step of the frame and each step of the relic is shown
  to be one (`NextWires`). Type correctness and the refinement of `Handover` follow from it.
  `EndsBlocked` needs that only `quit` and a failed frame end a show (`EndingStep`) and an
  invariant between two counts: the code's count of failures, which a write that succeeds
  resets, and `stuck`, which also starts again when the relic makes room. While a cable is
  full the first is at most the second (`Honest`), so a count that has reached its limit is
  of writes that all found the cable full, with no room made between them.
* `RelicShadowProofs`. The cable is in order both ways, so answers and the cue are behind or
  ahead of one another for good. `InStep` says where the relic is while a blend that started
  in step, its cue not lost, runs: either the cue is the next frame it reads, it is on the
  outgoing look or on its way there, and no answer is under way (`CueComes`); or it has read
  the cue and is between the two looks (`CueTaken`). Every answer under way names one of the
  two (`Between`), and neither cuts the blend.
* `WhiteboardProofs`. `Covered` says of an open session that the relic's tick has yet to see
  it, or a discovery is queued, or each thing to be said is known as it is or still queued;
  each handler queues what it changes (`HandlerSays`), and an announcement says everything
  (`AnnounceSaysAll`). That a new session is one the relic's tick has yet to see is `Waits`:
  the client opens none in the tick that finds the old one gone, so the relic's tick comes in
  between. This is where the interval of at least two ticks is needed.
* `MidiProofs`. `Ready` relates the parser to the bytes the sequencer has yet to say, so that
  each byte completes what it completes for the sequencer (`ByteKeepsFraming`); `Located`
  says that a song position of which a byte is lost puts the grid astray, so one that is
  believed was heard whole. `Window` says that each slot of `tickTimes` written since the
  last gap is as old as the ticks since; the slot about to be overwritten is then a beat old
  (`ClockKeepsWindow`).

* `BeatRigProofs`, for any song, tempos, lateness, latencies, rack and bounds. A call is a
  sequence of stores that sets a field once, so what the clock will be when it is done
  (`After`) does not change while they are made (`AfterStep`); the calls have five shapes
  (`Silent`, `Beaten`, `Restarted`, `Retimed`, `Single`), and everything else is said of
  shapes. On top of the types (`Typed`) three invariants stand side by side.
  `NotBehind`: a beat or a restart that runs alone stores a number no less than the beat
  shown, and its anchor only after that (`Ordered`), so the clock after each of its stores,
  and each split of the loads of a read over them (`WouldRead`), gives no less than was shown
  when the read began.
  `Hits`: with no call but beats, what the clock will show never falls below what it shows
  (`SongOnly`); a trigger's last hit is no later than the beat it keeps, which is no later
  than the beat shown (`Kept`), and between the two reads of a bar rate it is earlier
  (`Crossed`).
  `Counting`: while `tune` holds, the clock to come is settled, its anchor and its last beat
  are the same, and its count is `tune` off the song's (`Tuned`). That the next beat keeps it
  so needs two facts of arithmetic: the nearest whole number of tempo beats is the number of
  the song's beats gone by (`StepsOfBeats`), and the grid's own prediction is at most that
  many (`PredictionBehind`), both for any tempo that fits.

Every safety property that a passing run checks is also a theorem here, under its own name.
Only model-checked is everything live (`FadesEnd`, `Resyncs`, `TakeoverEnds`, `TickEnds`,
`FadesLand`, `HandedBack`, `LostCableEndsShow`, `TakeHappens`, `Converges`, `Reconnects`),
since the prover has neither fairness nor ENABLED. Some have a hypothesis of their own, as
above: `LastFrameDecidesWhenQuick` one on the length of a tick, four theorems of
`StateMachineProofs` one on `Liberties`, and one of those `Renders`.

## 7. Plan

What is left, most important first; theorems marked *.

1. `DeskLink` with two relics in TLC: it needs a smaller abstraction of the cable's failures.
   The theorems about it hold for any number.
2. Lemmas* that carry the liveness properties as far as the prover goes: that a fade's, a
   takeover's and an announcement's measure falls with each step that fairness promises.
3. `edmx` UART input: the slot counter against breaks in the middle of a frame.
4. Several `RelicShadow`s on one command stream, as `link cmd` addresses them.

## 8. Not modelled, and why

Rendering (looks, generators, colours, curves), geometry, fixture arithmetic and OSC
decoding are data without control worth checking; most of the repository's lines are
pictures as arrays, looks and shaders of this kind. Sockets, WiFi, serial ports and the
python application are wrappers around external systems; the serial MQTT bridge cannot be
built together with the link (`eclipse-os.ino:56`). `ebeat::AudioLevel` is a level and a
stamp per channel: looks draw with them, and `BusClock` (`main.cpp:252`) reads the level and
the liveness of two channels and calls `setTempoHeld`, `setBpm` and `markBeat` of the beat
clock by them; `BeatRig` makes those calls at any time, whatever the level. The other relics
run the same `StateMachine` with other looks and buttons, which its arbitrary calls and
transition tests cover. Floating point time is modelled as natural numbers; rounding,
infinities and NaN (a cue such as `state x inf`) are not. `State::timeStateActive` is
uninitialised until a look first lands, but nothing reads it before. The counters of
`FrameReader`, `RelicLink`, `BeatClock` and the follower are only printed.
