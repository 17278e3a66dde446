---------------------------- MODULE StateMachine ----------------------------
(***************************************************************************)
(* esm::StateMachine (lib/src/esm/state.cpp) and the rendering machine     *)
(* every relic runs, StateMachine_GenericHSV (lib/src/esm/state_generic):  *)
(* one active look, at most one look fading in over it, and the frozen     *)
(* picture a fade retargeted half way starts from.                         *)
(*                                                                         *)
(* Time is discrete. A colour is abstracted to where it came from: the     *)
(* strip shows one look, or the mix of a source buffer and the buffer of   *)
(* the incoming look, and a buffer is only known to be current if its look *)
(* drew into it during the tick that mixed it.  The frozen picture is the  *)
(* set of the looks that were in it.                                       *)
(***************************************************************************)
EXTENDS Naturals

CONSTANTS
    States,          (* the State objects of one machine *)
    None,            (* a null std::shared_ptr<State> *)
    MaxTransition,   (* bound: the longest transitionTime a caller sets *)
    MaxDelta,        (* bound: the longest tick *)
    Liberties,       (* calls the interface allows that few callers make *)
    Renders          (* StateMachine_GenericHSV; else the bare machine, which *)
                     (* has no nodes and whose captureBlendSource is empty   *)

(* "cutMidFade": setActiveState while a fade runs (the obelisk's `sim`).   *)
(* "restartOutgoing": restartState of the look that is fading out.         *)
AllLiberties == {"cutMidFade", "restartOutgoing"}

ASSUME NoneAssumption == None \notin States
ASSUME BoundsAssumption == MaxTransition \in Nat /\ MaxDelta \in Nat \ {0}
ASSUME LibertiesAssumption == Liberties \subseteq AllLiberties
ASSUME RendersAssumption == Renders \in BOOLEAN

Snapshot == "kSnapshotBuffer"
NoBuffer == "kNoBuffer"
ASSUME BuffersAssumption == {Snapshot, NoBuffer} \cap (States \cup {None}) = {}

StateStatus == {"Off", "TransitionIn", "TransitionOut", "Active"}

VARIABLES
    ActiveState,
    NextState,
    status,                  (* State::status of every state *)
    transitionTime,
    currentTransitionTime,
    instantBlend,            (* blend->isInstant() *)
    bBlendFromSnapshot,
    frozen,                  (* the looks in the picture of kSnapshotBuffer *)
    drawn,                   (* looks that drew into their buffer last tick *)
    strip,                   (* what the strip shows since the last tick *)
    asked                    (* history: the look the last call named *)

machineVars == <<ActiveState, NextState, status, currentTransitionTime,
                 bBlendFromSnapshot, frozen>>
settingVars == <<transitionTime, instantBlend>>
pictureVars == <<drawn, strip>>
vars == <<machineVars, settingVars, pictureVars, asked>>

Look(s) == [kind |-> "look", of |-> s]
Mix(from, to, alpha) == [kind |-> "mix", from |-> from, to |-> to, alpha |-> alpha]
Dark == [kind |-> "dark"]
Picture == {Dark} \cup {Look(s) : s \in States}
             \cup {Mix(f, t, p) : f \in States \cup {Snapshot, NoBuffer},
                                  t \in States, p \in {"zero", "positive"}}

(* The looks in a picture, the incoming one only once it has some weight.  *)
Contributors(picture) ==
    CASE picture.kind = "dark" -> {}
      [] picture.kind = "look" -> {picture.of}
      [] picture.kind = "mix" ->
           (IF picture.from = Snapshot THEN frozen ELSE {picture.from} \ {NoBuffer})
             \cup IF picture.alpha = "positive" THEN {picture.to} ELSE {}

TypeOK ==
    /\ ActiveState \in States \cup {None}
    /\ NextState \in States \cup {None}
    /\ status \in [States -> StateStatus]
    /\ transitionTime \in 0..MaxTransition
    /\ currentTransitionTime \in 0..MaxTransition
    /\ instantBlend \in BOOLEAN
    /\ bBlendFromSnapshot \in BOOLEAN
    /\ frozen \in SUBSET States
    /\ drawn \in SUBSET States
    /\ strip \in Picture
    /\ asked \in States \cup {None}

Init ==
    /\ ActiveState = None
    /\ NextState = None
    /\ status = [s \in States |-> "Off"]
    /\ transitionTime \in 0..MaxTransition
    /\ currentTransitionTime = 0
    /\ instantBlend = FALSE
    /\ bBlendFromSnapshot = FALSE
    /\ frozen = {}
    /\ drawn = {}
    /\ strip = Dark
    /\ asked = None

isInTransition == NextState # None

-----------------------------------------------------------------------------
(* The body of setActiveState behind its checks; gone are the states that  *)
(* setNextState has sent Off before it came here.                          *)
Enter_KeepsSnapshot(s, gone) ==   (* mutant: the frozen picture outlives its fade *)
    /\ status' = [t \in States |-> CASE t = s -> "Active"
                                    [] t # s /\ t \in gone \cup {ActiveState} -> "Off"
                                    [] OTHER -> status[t]]
    /\ ActiveState' = s
    /\ NextState' = None
    /\ currentTransitionTime' = 0
    /\ UNCHANGED bBlendFromSnapshot

Enter(s, gone) ==
    /\ status' = [t \in States |-> CASE t = s -> "Active"
                                    [] t # s /\ t \in gone \cup {ActiveState} -> "Off"
                                    [] OTHER -> status[t]]
    /\ ActiveState' = s
    /\ NextState' = None
    /\ currentTransitionTime' = 0
    /\ bBlendFromSnapshot' = FALSE

(* setActiveState: the look already active is refused, a fade or not. *)
Activate(s) ==
    IF s = ActiveState THEN UNCHANGED machineVars ELSE Enter(s, {}) /\ UNCHANGED frozen

(* Start the fade to s from the settled active look. *)
FadeFromActive(s) ==
    /\ status' = [t \in States |->
                    CASE t = s -> "TransitionIn"
                      [] t # s /\ t = ActiveState /\ status[t] # "Off" -> "TransitionOut"
                      [] OTHER -> status[t]]
    /\ NextState' = s
    /\ currentTransitionTime' = 0
    /\ bBlendFromSnapshot' = FALSE
    /\ UNCHANGED <<ActiveState, frozen>>

(* What every node shows now goes into kSnapshotBuffer.                    *)
captureBlendSource_Once ==   (* mutant: a fade that rises over a snapshot keeps it *)
    frozen' = IF bBlendFromSnapshot \/ ~Renders THEN frozen ELSE Contributors(strip)

captureBlendSource == frozen' = IF Renders THEN Contributors(strip) ELSE frozen

(* Retarget the running fade to s: the mix is frozen, both looks of the    *)
(* old fade go Off, and the dropped one stays on as the Off placeholder.   *)
FadeFromSnapshot_OutgoingLeftOn(s) ==   (* mutant: only the incoming look goes Off *)
    /\ status' = [status EXCEPT ![NextState] = "Off", ![s] = "TransitionIn"]
    /\ ActiveState' = NextState
    /\ NextState' = s
    /\ currentTransitionTime' = 0
    /\ bBlendFromSnapshot' = TRUE

FadeFromSnapshot_NotFrozen(s) ==        (* mutant: the flag is not raised *)
    /\ status' = [t \in States |-> IF t = s THEN "TransitionIn"
                                   ELSE IF t \in {ActiveState, NextState} THEN "Off"
                                   ELSE status[t]]
    /\ ActiveState' = NextState
    /\ NextState' = s
    /\ currentTransitionTime' = 0
    /\ bBlendFromSnapshot' = FALSE

FadeFromSnapshot(s) ==
    /\ status' = [t \in States |->
                    CASE t = s -> "TransitionIn"
                      [] t # s /\ t \in {ActiveState, NextState} -> "Off"
                      [] OTHER -> status[t]]
    /\ ActiveState' = NextState
    /\ NextState' = s
    /\ currentTransitionTime' = 0
    /\ bBlendFromSnapshot' = TRUE

Instant == instantBlend \/ transitionTime = 0

Retarget_ActiveRefused(s) ==   (* mutant: the active look is no legal target in mid-fade *)
    \/ s \in {NextState, ActiveState} /\ UNCHANGED machineVars
    \/ /\ s \notin {NextState, ActiveState}
       /\ IF isInTransition
            THEN /\ captureBlendSource
                 /\ IF Instant THEN Enter(s, {NextState}) ELSE FadeFromSnapshot(s)
            ELSE IF Instant THEN Activate(s) ELSE FadeFromActive(s)

Retarget_ResendRestarts(s) ==  (* mutant: a resent cue restarts the fade's clock *)
    \/ /\ s = NextState
       /\ currentTransitionTime' = 0
       /\ UNCHANGED <<ActiveState, NextState, status, bBlendFromSnapshot, frozen>>
    \/ /\ ~isInTransition /\ s # ActiveState
       /\ IF Instant THEN Activate(s) ELSE FadeFromActive(s)

(* setNextState, its refusals included. *)
Retarget(s) ==
    \/ /\ s = NextState \/ (s = ActiveState /\ ~isInTransition)
       /\ UNCHANGED machineVars
    \/ /\ s # NextState
       /\ IF isInTransition
            THEN /\ captureBlendSource
                 /\ IF Instant THEN Enter(s, {NextState}) ELSE FadeFromSnapshot(s)
            ELSE s # ActiveState /\ IF Instant THEN Activate(s) ELSE FadeFromActive(s)

-----------------------------------------------------------------------------
(* The public calls. *)

setActiveState(s) ==
    /\ isInTransition => "cutMidFade" \in Liberties
    /\ Activate(s)
    /\ asked' = s
    /\ UNCHANGED <<settingVars, pictureVars>>

setNextState(s) ==
    /\ Retarget(s)
    /\ asked' = s
    /\ UNCHANGED <<settingVars, pictureVars>>

(* Re-enters a state that is showing or arriving, through Off. *)
restartState(s) ==
    /\ s \in {ActiveState, NextState}
    /\ ~(s = ActiveState /\ status[s] = "Off")
    /\ (isInTransition /\ s = ActiveState) => "restartOutgoing" \in Liberties
    /\ status' = [status EXCEPT ![s] = IF s = NextState THEN "TransitionIn" ELSE "Active"]
    /\ UNCHANGED <<ActiveState, NextState, currentTransitionTime,
                   bBlendFromSnapshot, frozen, settingVars, pictureVars, asked>>

(* setBlend by name, and the public transitionTime: callers set both just  *)
(* before the cue they are for, or at any other time.                      *)
setBlend(instant) ==
    /\ instantBlend' = instant
    /\ UNCHANGED <<machineVars, transitionTime, pictureVars, asked>>

SetTransitionTime(t) ==
    /\ transitionTime' = t
    /\ UNCHANGED <<machineVars, instantBlend, pictureVars, asked>>

-----------------------------------------------------------------------------
(* One tick: the fade advances or lands, or the settled look's own         *)
(* transition tests may name another; then the looks that are on draw, and *)
(* while a fade runs the two buffers are mixed onto the strip.             *)

getBlendSourceBuffer ==
    IF bBlendFromSnapshot THEN Snapshot
    ELSE IF ActiveState = None THEN NoBuffer ELSE ActiveState

(* The sign of getTransitionProgress() while a fade runs. *)
alphaSign == IF currentTransitionTime > 0 \/ transitionTime = 0 THEN "positive" ELSE "zero"

(* State_GenericHSV::tick for the looks in ticked, then the blend. *)
Draw(ticked) ==
    /\ drawn' = {s \in ticked : status'[s] \in {"TransitionIn", "TransitionOut"}}
    /\ strip' = IF NextState' # None
                  THEN Mix(getBlendSourceBuffer', NextState', alphaSign')
                  ELSE IF status'[ActiveState'] = "Active" THEN Look(ActiveState')
                  ELSE strip

Render(ticked) == IF Renders THEN Draw(ticked) ELSE UNCHANGED <<drawn, strip>>

TickActive == {ActiveState} \cap {s \in States : status[s] # "Off"}

Advance_NeverLands(dt) ==   (* mutant: the clock runs past the end of the fade *)
    /\ isInTransition
    /\ currentTransitionTime' = currentTransitionTime + dt
    /\ UNCHANGED <<ActiveState, NextState, status, bBlendFromSnapshot, frozen, asked>>
    /\ Render({NextState} \cup TickActive)

Advance(dt) ==
    /\ isInTransition
    /\ currentTransitionTime + dt <= transitionTime
    /\ currentTransitionTime' = currentTransitionTime + dt
    /\ UNCHANGED <<ActiveState, NextState, status, bBlendFromSnapshot, frozen, asked>>
    /\ Render({NextState} \cup TickActive)

Land(dt) ==
    /\ isInTransition
    /\ currentTransitionTime + dt > transitionTime
    /\ Activate(NextState)
    /\ Render(TickActive')
    /\ UNCHANGED asked

(* The settled look's transition tests: none passes, or one names s. *)
Hold ==
    /\ ~isInTransition /\ ActiveState # None
    /\ UNCHANGED <<machineVars, asked>>
    /\ Render(TickActive)

Wander(s) ==
    /\ ~isInTransition /\ ActiveState # None
    /\ Retarget(s)
    /\ asked' = s
    /\ Render(TickActive')

tick(dt) ==
    /\ UNCHANGED settingVars
    /\ Advance(dt) \/ Land(dt) \/ Hold \/ \E s \in States : Wander(s)

-----------------------------------------------------------------------------
Call ==
    \/ \E s \in States : setActiveState(s) \/ setNextState(s) \/ restartState(s)
    \/ \E b \in BOOLEAN : setBlend(b)
    \/ \E t \in 0..MaxTransition : SetTransitionTime(t)

Tick == \E dt \in 0..MaxDelta : tick(dt)

Next == Call \/ Tick

Spec == Init /\ [][Next]_vars

-----------------------------------------------------------------------------
(***************************************************************************)
(* Invariants. The first is inductive without any liberty assumed away.    *)
(***************************************************************************)

(* A settled machine has its look Active. A fading one has another look on *)
(* the way in over an outgoing look that is TransitionOut - or Off, and    *)
(* then it is the placeholder of a retargeted fade, whose source is the    *)
(* frozen picture - or Active again if a caller restarted it.              *)
RunningStatus ==
    /\ (~isInTransition /\ ActiveState # None) => status[ActiveState] = "Active"
    /\ ~isInTransition => currentTransitionTime = 0 /\ ~bBlendFromSnapshot
    /\ isInTransition => /\ NextState # ActiveState
                         /\ status[NextState] = "TransitionIn"
                         /\ bBlendFromSnapshot => ActiveState # None
    /\ (isInTransition /\ ActiveState # None) =>
          \/ bBlendFromSnapshot /\ status[ActiveState] = "Off"
          \/ ~bBlendFromSnapshot /\ status[ActiveState] = "TransitionOut"
          \/ ~bBlendFromSnapshot /\ status[ActiveState] = "Active"
                /\ "restartOutgoing" \in Liberties

(* Every look the machine no longer holds has been told it is Off, however *)
(* many fades were retargeted: no look keeps a status from a fade that     *)
(* never landed.                                                           *)
OthersOff == \A s \in States \ {ActiveState, NextState} : status[s] = "Off"

(* state.h:119: a transition starts from wherever the machine is, mid-fade *)
(* included; the rig is always on, or on its way to, the look named last.  *)
LastCueWins == asked = IF isInTransition THEN NextState ELSE ActiveState

(* state_generic.cpp:100: whatever the strip mixes was drawn in the same   *)
(* tick or is the frozen picture; a look with no weight yet may be older.  *)
BlendSourcesDrawn ==
    strip.kind = "mix" =>
        /\ strip.from \in States => strip.from \in drawn
        /\ strip.alpha = "positive" => strip.to \in drawn

(* state.h:118: a transition starts from the picture showing. From frame   *)
(* to frame nothing joins the rig's picture but the look asked for, nothing *)
(* leaves it but by a landing or a cut, and a fade retargeted in mid-fade  *)
(* rises over exactly what was showing - a second and a third time too.    *)
under == IF bBlendFromSnapshot THEN frozen ELSE {ActiveState} \ {None}
shown == Contributors(strip)
Rig == INSTANCE Crossfade WITH Looks <- States
FadesFromWhatShows == Rig!Spec

(* Every fade comes to an end - it lands or is retargeted - even if the    *)
(* caller keeps resending its cue or keeps changing the fade time.         *)
FadesEnd == \A s \in States : (NextState = s) ~> (NextState # s)

(* The loop ticks the machine for as long as the program runs, and time    *)
(* passes between two ticks.                                               *)
FairSpec == Spec /\ WF_vars(\E dt \in 1..MaxDelta : tick(dt))
=============================================================================
