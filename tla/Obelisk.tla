------------------------------ MODULE Obelisk ------------------------------
(***************************************************************************)
(* The obelisk's loop: RelicCore::runTick (lib/src/eio/relic.cpp) around   *)
(* ObeliskCore (src/relics/obelisk/obelisk.cpp), which answers the cues a  *)
(* desk or a human sends with calls on its state machine, and leaves the   *)
(* machine alone while the desk owns the pixels.                           *)
(*                                                                         *)
(* The link is RelicLink reduced to what the loop asks of it: whether the  *)
(* desk owns the pixels after this tick's bytes, and the next command. A   *)
(* command is read word by word, as handleCommand does.                    *)
(***************************************************************************)
EXTENDS Integers, Sequences

CONSTANTS
    AmbientLooks,    (* the looks the relic shows on its own *)
    ScannerLooks,    (* the scanner's, by afterglow state tag *)
    blobs,           (* the look it starts on *)
    seasons,         (* the look of `switch` *)
    None,            (* a null look, and a name that is no look *)
    Commands,        (* what may arrive: records [verb, look, words] *)
    MaxTransition,
    MaxDelta

Looks == AmbientLooks \cup ScannerLooks
Verbs == {"state", "sim", "ask", "switch", "other"}   (* "ask" is a bare `sim` *)

ASSUME LooksAssumption == /\ AmbientLooks \cap ScannerLooks = {}
                          /\ {blobs, seasons} \subseteq AmbientLooks
                          /\ None \notin Looks
ASSUME NamesAssumption == {"kSnapshotBuffer", "kNoBuffer"} \cap (Looks \cup {None}) = {}
ASSUME BoundsAssumption == MaxTransition \in Nat /\ MaxDelta \in Nat \ {0}

(* The words behind a state's name: seconds, the name of a blend, or noise. *)
Words == [kind : {"seconds"}, value : -1..MaxTransition]
           \cup [kind : {"blend"}, value : BOOLEAN]
           \cup [kind : {"unknown"}, value : {None}]
ASSUME CommandsAssumption ==
    \A c \in Commands : /\ c = [verb |-> c.verb, look |-> c.look, words |-> c.words]
                        /\ c.verb \in Verbs
                        /\ c.look \in Looks \cup {None}
                        /\ c.words \in Seq(Words)
                        /\ c.verb # "state" => c.words = <<>>

NoCommand == [verb |-> "none", look |-> None, words |-> <<>>]

VARIABLES
    ActiveState, NextState, status, transitionTime, currentTransitionTime,
    instantBlend, bBlendFromSnapshot, asked,   (* the machine *)
    owned,        (* getLink().ownsPixels() *)
    phase,        (* where runTick is *)
    command,      (* the command being handled, its unread words *)
    hasTicked

machineState == <<ActiveState, NextState, status, transitionTime, currentTransitionTime,
                  instantBlend, bBlendFromSnapshot, asked>>
loopVars == <<owned, phase, command, hasTicked>>
vars == <<machineState, loopVars>>

(* The constructor sets a starting look and `sim` any look in mid-fade.    *)
(* What it draws is left out: under a takeover the strip is the desk's.    *)
Machine == INSTANCE StateMachine
             WITH States <- Looks, Liberties <- {"cutMidFade"}, Renders <- FALSE,
                  frozen <- {}, drawn <- {}, strip <- [kind |-> "dark"]

(* state.cpp:331: tick() reads through ActiveState whenever nothing is on  *)
(* its way in, so no tick may find the machine without an active look.     *)
NeverTicksNull == phase # "constructor" => ActiveState # None

TypeOK ==
    /\ Machine!TypeOK
    /\ owned \in BOOLEAN
    /\ phase \in {"constructor", "link", "commands", "handle"}
    /\ command.verb \in Verbs \cup {"none"}
    /\ command.look \in Looks \cup {None}
    /\ command.words \in Seq(Words)
    /\ hasTicked \in BOOLEAN
    /\ NeverTicksNull

Init ==
    /\ Machine!Init
    /\ owned = FALSE
    /\ phase = "constructor"
    /\ command = NoCommand
    /\ hasTicked = FALSE

Constructor_Fades ==         (* mutant: the first look is faded to *)
    /\ phase = "constructor"
    /\ Machine!setNextState(blobs)
    /\ phase' = "link"
    /\ UNCHANGED <<owned, command, hasTicked>>

Constructor ==
    /\ phase = "constructor"
    /\ Machine!setActiveState(blobs)
    /\ phase' = "link"
    /\ UNCHANGED <<owned, command, hasTicked>>

-----------------------------------------------------------------------------
(* runTick reads the link, then drains its commands, then ticks. *)
ReadLink ==
    /\ phase = "link"
    /\ phase' = "commands"
    /\ owned' \in BOOLEAN
    /\ UNCHANGED <<machineState, command, hasTicked>>

TakeCommand(c) ==
    /\ phase = "commands"
    /\ command' = c
    /\ phase' = "handle"
    /\ UNCHANGED <<machineState, owned, hasTicked>>

Done == /\ phase' = "commands"
        /\ command' = NoCommand
        /\ UNCHANGED <<owned, hasTicked>>

handleSwitch ==
    /\ phase = "handle" /\ command.verb = "switch"
    /\ Machine!setNextState(seasons)
    /\ Done

handleOther ==
    /\ phase = "handle"
    /\ \/ command.verb \in {"ask", "other"}
       \/ command.verb \in {"state", "sim"} /\ command.look = None /\ command.words = <<>>
    /\ UNCHANGED machineState
    /\ Done

(* One word behind `state <name>`; it sticks, whatever becomes of the name. *)
handleWord ==
    /\ phase = "handle" /\ command.verb = "state" /\ command.words # <<>>
    /\ command' = [command EXCEPT !.words = Tail(@)]
    /\ LET word == Head(command.words)
       IN  \/ word.kind = "seconds" /\ word.value >= 0 /\ Machine!SetTransitionTime(word.value)
           \/ word.kind = "blend" /\ Machine!setBlend(word.value)
           \/ /\ word.kind = "unknown" \/ (word.kind = "seconds" /\ word.value < 0)
              /\ UNCHANGED machineState
    /\ UNCHANGED <<owned, phase, hasTicked>>

(* The look of `state <name>`. An ambient look named under a takeover lands *)
(* at once; any other blends, unless the machine is on it or on its way.    *)
handleState_AlwaysBlends == (* mutant: the takeover makes no difference *)
    /\ phase = "handle" /\ command.verb = "state" /\ command.words = <<>>
    /\ command.look # None
    /\ \/ /\ command.look \notin {ActiveState, NextState}
          /\ Machine!setNextState(command.look)
       \/ /\ command.look \in {ActiveState, NextState}
          /\ UNCHANGED machineState
    /\ Done

LandsNow == command.look \in AmbientLooks /\ owned

handleState ==
    /\ phase = "handle" /\ command.verb = "state" /\ command.words = <<>>
    /\ command.look # None
    /\ \/ /\ LandsNow /\ command.look # ActiveState
          /\ Machine!setActiveState(command.look)
       \/ /\ ~LandsNow /\ command.look \notin {ActiveState, NextState}
          /\ Machine!setNextState(command.look)
       \/ /\ command.look = ActiveState \/ (~LandsNow /\ command.look = NextState)
          /\ UNCHANGED machineState
    /\ Done

(* `sim <name>` puts the relic on that look, `sim` only asks. *)
handleSim ==
    /\ phase = "handle" /\ command.verb = "sim" /\ command.look # None
    /\ \/ command.look # ActiveState /\ Machine!setActiveState(command.look)
       \/ command.look = ActiveState /\ UNCHANGED machineState
    /\ Done

(* The delta preTick measured: nothing on the very first frame. *)
preTick_NeverTicked(dt) ==  (* mutant: hasTicked is never set *)
    /\ ~hasTicked => dt = 0
    /\ UNCHANGED hasTicked

preTick(dt) ==
    /\ ~hasTicked => dt = 0
    /\ hasTicked' = TRUE

(* tickWhileLinked: clocks only. *)
tickWhileLinked(dt) == UNCHANGED machineState

(* No look of the obelisk names a successor, so the machine never wanders. *)
tick(dt) ==
    /\ UNCHANGED <<transitionTime, instantBlend>>
    /\ Machine!Advance(dt) \/ Machine!Land(dt) \/ Machine!Hold

EndTick(dt) ==
    /\ phase = "commands"
    /\ phase' = "link"
    /\ preTick(dt)
    /\ \/ owned /\ tickWhileLinked(dt)
       \/ ~owned /\ tick(dt)
    /\ UNCHANGED <<owned, command>>

Handle == handleSwitch \/ handleOther \/ handleWord \/ handleState \/ handleSim

Next ==
    \/ Constructor \/ ReadLink \/ Handle
    \/ \E c \in Commands : TakeCommand(c)
    \/ \E dt \in 0..MaxDelta : EndTick(dt)

Spec == Init /\ [][Next]_vars

(* The loop never stops. One tick takes no more commands than the queue    *)
(* holds, and not every frame is too short for the machine's clock.        *)
FairSpec == Spec /\ WF_vars(ReadLink) /\ WF_vars(Handle)
                 /\ SF_vars(\E dt \in 0..MaxDelta : EndTick(dt))
                 /\ SF_vars(\E dt \in 1..MaxDelta : ~owned /\ EndTick(dt))

-----------------------------------------------------------------------------
destination == IF NextState # None THEN NextState ELSE ActiveState
Handled(verb) == command.verb = verb /\ phase = "handle" /\ phase' = "commands"

(* state.h: a settled look is Active and an incoming one on its way in, on *)
(* the obelisk as on any machine - whatever cue cut its fade short.        *)
RunningStatus == Machine!RunningStatus

(* obelisk.cpp:406: `state <name>` of any look but the outgoing one puts   *)
(* the machine on its way there, whatever fades run and whoever owns the   *)
(* pixels - and under a takeover leaves no fade pending.                   *)
StateCueTaken ==
    [][(Handled("state") /\ command.look \notin {None, ActiveState})
          => /\ destination' = command.look
             /\ LandsNow => NextState' = None]_vars

(* obelisk.cpp:386: a fade ends if the desk lets go of the pixels now and  *)
(* then, however often cues are resent and the fade time is changed.       *)
FadesLand == []<>~owned => \A s \in Looks : (NextState = s) ~> (NextState # s)

(* state.h:119, obelisk.cpp:384, obelisk.cpp:413: the active look is a     *)
(* legal target in mid-fade, and a look set by `sim` or named under the     *)
(* takeover is there at once: the look named last is where the relic goes.  *)
LookNamedIsTaken ==
    [][((Handled("state") \/ Handled("sim")) /\ command.look # None)
          => destination' = command.look]_vars
=============================================================================
