------------------------- MODULE StateMachineProofs -------------------------
(***************************************************************************)
(* What is proved of StateMachine for every set of looks, every bound and  *)
(* every set of liberties.  Type correctness and RunningStatus are         *)
(* inductive together: which status the outgoing look may have depends on  *)
(* the snapshot flag, and every call and tick reads one to write the other.*)
(***************************************************************************)
EXTENDS StateMachine, TLAPS

Inv == TypeOK /\ RunningStatus

(* Assumptions on the constants, used by every step. *)
LEMMA Constants == /\ None \notin States
                   /\ MaxTransition \in Nat
                   /\ MaxDelta \in Nat \ {0}
  BY NoneAssumption, BoundsAssumption

(* The part of the invariant about the machine's own variables. *)
MachineTypeOK ==
    /\ ActiveState \in States \cup {None}
    /\ NextState \in States \cup {None}
    /\ status \in [States -> StateStatus]
    /\ currentTransitionTime \in 0..MaxTransition
    /\ bBlendFromSnapshot \in BOOLEAN

MachineInv == MachineTypeOK /\ RunningStatus

(* Entering a look settles the machine on it. *)
LEMMA EnterSettles ==
  ASSUME MachineInv, NEW s \in States, NEW gone, Enter(s, gone)
  PROVE  MachineInv' /\ ActiveState' = s /\ NextState' = None /\ status'[s] = "Active"
<1>1. ActiveState' = s /\ NextState' = None /\ status'[s] = "Active"
  BY DEF Enter
<1>2. status' \in [States -> StateStatus]
  BY DEF Enter, MachineInv, MachineTypeOK, StateStatus
<1>3. currentTransitionTime' = 0 /\ ~bBlendFromSnapshot' /\ bBlendFromSnapshot' \in BOOLEAN
  BY DEF Enter
<1>4. MachineTypeOK'
  BY <1>1, <1>2, <1>3, Constants DEF MachineTypeOK
<1>5. RunningStatus'
  BY <1>1, <1>3, Constants DEF RunningStatus, isInTransition
<1> QED BY <1>1, <1>4, <1>5 DEF MachineInv

LEMMA ActivateKeeps ==
  ASSUME MachineInv, NEW s \in States, Activate(s)
  PROVE  MachineInv'
<1>1. CASE s = ActiveState
  BY <1>1 DEF Activate, machineVars, MachineInv, MachineTypeOK, RunningStatus, isInTransition
<1>2. CASE s # ActiveState
  BY <1>2, EnterSettles DEF Activate
<1> QED BY <1>1, <1>2

LEMMA FadeFromActiveKeeps ==
  ASSUME MachineInv, NEW s \in States, ~isInTransition, s # ActiveState, FadeFromActive(s)
  PROVE  MachineInv'
  BY Constants DEF MachineInv, MachineTypeOK, RunningStatus, isInTransition, FadeFromActive,
                   StateStatus

LEMMA FadeFromSnapshotKeeps ==
  ASSUME MachineInv, NEW s \in States, isInTransition, s # NextState, FadeFromSnapshot(s)
  PROVE  MachineInv'
  BY Constants DEF MachineInv, MachineTypeOK, RunningStatus, isInTransition, FadeFromSnapshot,
                   StateStatus

(* setNextState, whichever way it goes. *)
LEMMA RetargetKeeps ==
  ASSUME MachineInv, NEW s \in States, Retarget(s)
  PROVE  MachineInv'
<1>1. CASE UNCHANGED machineVars
  BY <1>1 DEF machineVars, MachineInv, MachineTypeOK, RunningStatus, isInTransition
<1>2. CASE isInTransition /\ s # NextState /\ Enter(s, {NextState})
  BY <1>2, EnterSettles
<1>3. CASE isInTransition /\ s # NextState /\ FadeFromSnapshot(s)
  BY <1>3, FadeFromSnapshotKeeps
<1>4. CASE ~isInTransition /\ s # ActiveState /\ Activate(s)
  BY <1>4, ActivateKeeps
<1>5. CASE ~isInTransition /\ s # ActiveState /\ FadeFromActive(s)
  BY <1>5, FadeFromActiveKeeps
<1> QED BY <1>1, <1>2, <1>3, <1>4, <1>5 DEF Retarget

-----------------------------------------------------------------------------
(* The other half of the type invariant: settings, pictures and history.    *)
RestTypeOK ==
    /\ transitionTime \in 0..MaxTransition
    /\ instantBlend \in BOOLEAN
    /\ frozen \in SUBSET States
    /\ drawn \in SUBSET States
    /\ strip \in Picture
    /\ asked \in States \cup {None}

LEMMA InvSplits == /\ Inv <=> MachineInv /\ RestTypeOK
                   /\ Inv' <=> MachineInv' /\ RestTypeOK'
  BY DEF Inv, TypeOK, MachineInv, MachineTypeOK, RestTypeOK

LEMMA InitInv == Init => Inv
<1> SUFFICES ASSUME Init PROVE MachineInv /\ RestTypeOK
  BY InvSplits
<1>1. MachineInv
  <2>1. MachineTypeOK
    <3>1. status \in [States -> StateStatus]
      BY DEF Init, StateStatus
    <3>2. currentTransitionTime \in 0..MaxTransition
      BY Constants DEF Init
    <3>3. bBlendFromSnapshot \in BOOLEAN
      BY DEF Init
    <3> QED BY <3>1, <3>2, <3>3 DEF Init, MachineTypeOK
  <2>2. RunningStatus
    BY Constants DEF Init, RunningStatus, isInTransition
  <2> QED BY <2>1, <2>2 DEF MachineInv
<1>2. strip \in Picture
  BY DEF Init, Picture
<1>3. RestTypeOK
  BY <1>2, Constants DEF Init, RestTypeOK
<1> QED BY <1>1, <1>3

(* The looks in what the strip shows are looks of this machine.             *)
LEMMA ContributorsTyped ==
  ASSUME strip \in Picture, frozen \in SUBSET States
  PROVE  Contributors(strip) \in SUBSET States
<1>1. CASE strip = Dark
  BY <1>1 DEF Dark, Contributors
<1>2. ASSUME NEW s \in States, strip = Look(s) PROVE Contributors(strip) \in SUBSET States
  BY <1>2 DEF Look, Contributors
<1>3. ASSUME NEW f \in States \cup {Snapshot, NoBuffer}, NEW t \in States,
             NEW p \in {"zero", "positive"}, strip = Mix(f, t, p)
      PROVE  Contributors(strip) \in SUBSET States
  <2>1. /\ strip.kind = "mix"
        /\ strip.from \in States \cup {Snapshot, NoBuffer} /\ strip.to \in States
    BY <1>3 DEF Mix
  <2> QED BY <2>1 DEF Contributors
<1> QED BY <1>1, <1>2, <1>3 DEF Picture

(* A call leaves the frozen picture alone or freezes what shows.            *)
LEMMA RetargetFreezes ==
  ASSUME NEW s, Retarget(s)
  PROVE  frozen' \in {frozen, Contributors(strip)}
BY DEF Retarget, machineVars, captureBlendSource, Activate, FadeFromActive

LEMMA RetargetFrozenTyped ==
  ASSUME RestTypeOK, NEW s, Retarget(s)
  PROVE  frozen' \in SUBSET States
BY RetargetFreezes, ContributorsTyped DEF RestTypeOK

(* What a tick draws is a picture of looks of this machine. *)
LEMMA RenderTypeOK ==
  ASSUME MachineInv', drawn \in SUBSET States, strip \in Picture,
         NextState' # None \/ ActiveState' # None,
         NEW ticked, ticked \subseteq States, Render(ticked)
  PROVE  drawn' \in SUBSET States /\ strip' \in Picture
<1>0. CASE ~Renders
  BY <1>0 DEF Render
<1> SUFFICES ASSUME Draw(ticked) PROVE drawn' \in SUBSET States /\ strip' \in Picture
  BY <1>0 DEF Render
<1>1. drawn' \in SUBSET States
  BY DEF Draw
<1>2. CASE NextState' # None
  <2>1. NextState' \in States
    BY <1>2 DEF MachineInv, MachineTypeOK
  <2>2. (getBlendSourceBuffer)' \in States \cup {Snapshot, NoBuffer}
    BY <1>2 DEF MachineInv, MachineTypeOK, getBlendSourceBuffer
  <2>3. (alphaSign)' \in {"zero", "positive"}
    BY DEF alphaSign
  <2>4. strip' = Mix((getBlendSourceBuffer)', NextState', (alphaSign)')
    BY <1>2 DEF Draw
  <2>5. strip' \in Picture
    BY <2>1, <2>2, <2>3, <2>4 DEF Picture
  <2> QED BY <1>1, <2>5
<1>3. CASE NextState' = None
  <2>1. ActiveState' \in States
    BY <1>3 DEF MachineInv, MachineTypeOK
  <2>2. strip' = Look(ActiveState') \/ strip' = strip
    BY <1>3 DEF Draw
  <2>3. strip' \in Picture
    BY <2>1, <2>2 DEF Picture
  <2> QED BY <1>1, <2>3
<1> QED BY <1>2, <1>3

LEMMA CallKeeps == Inv /\ Call => Inv'
<1> SUFFICES ASSUME MachineInv, RestTypeOK, Call PROVE MachineInv' /\ RestTypeOK'
  BY InvSplits
<1>1. ASSUME NEW s \in States, setActiveState(s) PROVE MachineInv' /\ RestTypeOK'
  <2>1. frozen' = frozen
    BY <1>1 DEF setActiveState, Activate, machineVars
  <2> QED BY <1>1, <2>1, ActivateKeeps DEF setActiveState, RestTypeOK, settingVars, pictureVars
<1>2. ASSUME NEW s \in States, setNextState(s) PROVE MachineInv' /\ RestTypeOK'
  <2>1. frozen' \in SUBSET States
    BY <1>2, RetargetFrozenTyped DEF setNextState
  <2> QED BY <1>2, <2>1, RetargetKeeps DEF setNextState, RestTypeOK, settingVars, pictureVars
<1>3. ASSUME NEW s \in States, restartState(s) PROVE MachineInv' /\ RestTypeOK'
  <2>1. MachineInv'
    BY <1>3, Constants DEF restartState, MachineInv, MachineTypeOK, RunningStatus,
                           isInTransition, StateStatus
  <2> QED BY <1>3, <2>1 DEF restartState, RestTypeOK, settingVars, pictureVars
<1>4. ASSUME NEW i \in BOOLEAN, setBlend(i) PROVE MachineInv' /\ RestTypeOK'
  BY <1>4 DEF setBlend, machineVars, pictureVars, RestTypeOK, MachineInv, MachineTypeOK,
              RunningStatus, isInTransition
<1>5. ASSUME NEW t \in 0..MaxTransition, SetTransitionTime(t) PROVE MachineInv' /\ RestTypeOK'
  BY <1>5 DEF SetTransitionTime, machineVars, pictureVars, RestTypeOK, MachineInv,
              MachineTypeOK, RunningStatus, isInTransition
<1> QED BY <1>1, <1>2, <1>3, <1>4, <1>5 DEF Call

LEMMA TickKeeps == Inv /\ Tick => Inv'
<1> SUFFICES ASSUME MachineInv, RestTypeOK, NEW dt \in 0..MaxDelta, tick(dt)
             PROVE  MachineInv' /\ RestTypeOK'
  BY InvSplits DEF Tick
<1>1. CASE Advance(dt)
  <2>1. MachineInv'
    BY <1>1, Constants DEF Advance, MachineInv, MachineTypeOK, RunningStatus, isInTransition,
                           RestTypeOK
  <2>2. drawn' \in SUBSET States /\ strip' \in Picture
    <3>1. {NextState} \cup TickActive \subseteq States
      BY <1>1 DEF Advance, isInTransition, MachineInv, MachineTypeOK, TickActive
    <3>2. NextState' # None
      BY <1>1 DEF Advance, isInTransition
    <3> QED BY <1>1, <2>1, <3>1, <3>2, RenderTypeOK DEF Advance, RestTypeOK
  <2> QED BY <1>1, <2>1, <2>2 DEF Advance, RestTypeOK, tick, settingVars
<1>2. CASE Land(dt)
  <2>1. NextState \in States /\ NextState # ActiveState
    BY <1>2 DEF Land, isInTransition, MachineInv, MachineTypeOK, RunningStatus
  <2>2. MachineInv' /\ ActiveState' \in States /\ frozen' = frozen
    BY <1>2, <2>1, EnterSettles DEF Land, Activate
  <2>3. drawn' \in SUBSET States /\ strip' \in Picture
    BY <1>2, <2>2, Constants, RenderTypeOK DEF Land, TickActive, RestTypeOK
  <2> QED BY <1>2, <2>2, <2>3 DEF Land, RestTypeOK, tick, settingVars
<1>3. CASE Hold
  <2>1. MachineInv'
    BY <1>3 DEF Hold, machineVars, MachineInv, MachineTypeOK, RunningStatus, isInTransition
  <2>2. drawn' \in SUBSET States /\ strip' \in Picture
    BY <1>3, <2>1, RenderTypeOK DEF Hold, machineVars, TickActive, RestTypeOK
  <2> QED BY <1>3, <2>1, <2>2 DEF Hold, machineVars, RestTypeOK, tick, settingVars
<1>4. ASSUME NEW s \in States, Wander(s) PROVE MachineInv' /\ RestTypeOK'
  <2>1. MachineInv'
    BY <1>4, RetargetKeeps DEF Wander
  <2>2. ActiveState' # None
    BY <1>4, Constants DEF Wander, Retarget, machineVars, isInTransition, Activate, Enter,
                           FadeFromActive, MachineInv, MachineTypeOK
  <2>3. drawn' \in SUBSET States /\ strip' \in Picture
    BY <1>4, <2>1, <2>2, RenderTypeOK DEF Wander, TickActive, RestTypeOK
  <2>4. frozen' \in SUBSET States
    BY <1>4, RetargetFrozenTyped DEF Wander
  <2> QED BY <1>4, <2>1, <2>3, <2>4 DEF Wander, RestTypeOK, tick, settingVars
<1> QED BY <1>1, <1>2, <1>3, <1>4 DEF tick

LEMMA InvStep == Inv /\ [Next]_vars => Inv'
<1>1. Inv /\ UNCHANGED vars => Inv'
  BY DEF Inv, TypeOK, RunningStatus, isInTransition, vars, machineVars, settingVars,
         pictureVars
<1> QED BY <1>1, CallKeeps, TickKeeps DEF Next

(* The invariant of the machine, for any looks, bounds and liberties.       *)
THEOREM MachineInvariant == Spec => []Inv
  BY InitInv, InvStep, PTL DEF Spec

(* Type correctness: a fade's clock, above all, stays within the longest    *)
(* time a caller sets, whatever is retimed or retargeted under it.          *)
THEOREM TypeCorrect == Spec => []TypeOK
<1>1. Inv => TypeOK
  BY DEF Inv
<1> QED BY <1>1, MachineInvariant, PTL

(* A fading machine knows which of its looks is out, which is arriving and  *)
(* whether it blends from the frozen picture.                               *)
THEOREM RunningStatusHolds == Spec => []RunningStatus
<1>1. Inv => RunningStatus
  BY DEF Inv
<1> QED BY <1>1, MachineInvariant, PTL

-----------------------------------------------------------------------------
(***************************************************************************)
(* Without a cut in mid-fade nothing is left behind: every look the        *)
(* machine no longer holds is Off, and the look it holds or is heading for *)
(* is the one named last.                                                  *)
(***************************************************************************)
Tidy == MachineInv /\ RestTypeOK /\ OthersOff /\ LastCueWins

LEMMA RetargetTidy ==
  ASSUME MachineInv, OthersOff, NEW s \in States, Retarget(s), asked' = s
  PROVE  OthersOff' /\ LastCueWins'
<1> USE Constants DEF MachineInv, MachineTypeOK, RunningStatus, isInTransition, OthersOff,
                      LastCueWins
<1>1. CASE UNCHANGED machineVars /\ (s = NextState \/ (s = ActiveState /\ ~isInTransition))
  BY <1>1 DEF machineVars
<1>2. CASE isInTransition /\ s # NextState /\ Enter(s, {NextState})
  BY <1>2 DEF Enter
<1>3. CASE isInTransition /\ s # NextState /\ FadeFromSnapshot(s)
  BY <1>3 DEF FadeFromSnapshot
<1>4. CASE ~isInTransition /\ s # ActiveState /\ Activate(s)
  BY <1>4 DEF Activate, Enter
<1>5. CASE ~isInTransition /\ s # ActiveState /\ FadeFromActive(s)
  BY <1>5 DEF FadeFromActive
<1> QED BY <1>1, <1>2, <1>3, <1>4, <1>5 DEF Retarget

LEMMA TidyStep ==
  ASSUME "cutMidFade" \notin Liberties
  PROVE  Tidy /\ [Next]_vars => Tidy'
<1> SUFFICES ASSUME Tidy, [Next]_vars PROVE OthersOff' /\ LastCueWins'
  <2>1. Inv /\ [Next]_vars => Inv'
    BY InvStep
  <2> QED BY <2>1, InvSplits DEF Tidy
<1> USE Constants DEF Tidy, MachineInv, MachineTypeOK, RunningStatus, isInTransition, OthersOff,
                      LastCueWins
<1>1. ASSUME NEW s \in States, setActiveState(s) PROVE OthersOff' /\ LastCueWins'
  <2>1. ~isInTransition
    BY <1>1 DEF setActiveState
  <2>2. CASE s = ActiveState
    BY <1>1, <2>1, <2>2 DEF setActiveState, Activate, machineVars
  <2>3. CASE s # ActiveState
    BY <1>1, <2>1, <2>3 DEF setActiveState, Activate, Enter
  <2> QED BY <2>2, <2>3
<1>2. ASSUME NEW s \in States, setNextState(s) PROVE OthersOff' /\ LastCueWins'
  BY <1>2, RetargetTidy DEF setNextState
<1>3. ASSUME NEW s \in States, restartState(s) PROVE OthersOff' /\ LastCueWins'
  BY <1>3 DEF restartState
<1>4. ASSUME NEW i \in BOOLEAN, setBlend(i) PROVE OthersOff' /\ LastCueWins'
  BY <1>4 DEF setBlend, machineVars
<1>5. ASSUME NEW t \in 0..MaxTransition, SetTransitionTime(t) PROVE OthersOff' /\ LastCueWins'
  BY <1>5 DEF SetTransitionTime, machineVars
<1>6. ASSUME NEW dt \in 0..MaxDelta, tick(dt) PROVE OthersOff' /\ LastCueWins'
  <2>1. CASE Advance(dt)
    BY <2>1 DEF Advance
  <2>2. CASE Land(dt)
    BY <2>2 DEF Land, Activate, Enter
  <2>3. CASE Hold
    BY <2>3 DEF Hold, machineVars
  <2>4. ASSUME NEW s \in States, Wander(s) PROVE OthersOff' /\ LastCueWins'
    BY <2>4, RetargetTidy DEF Wander
  <2> QED BY <1>6, <2>1, <2>2, <2>3, <2>4 DEF tick
<1>7. CASE UNCHANGED vars
  BY <1>7 DEF vars, machineVars
<1> QED BY <1>1, <1>2, <1>3, <1>4, <1>5, <1>6, <1>7 DEF Next, Call, Tick

LEMMA InitTidy == Init => Tidy
<1> SUFFICES ASSUME Init PROVE OthersOff /\ LastCueWins
  BY InitInv, InvSplits DEF Tidy
<1> QED BY DEF Init, OthersOff, LastCueWins, isInTransition

LEMMA AlwaysTidy ==
  ASSUME "cutMidFade" \notin Liberties
  PROVE  Spec => []Tidy
  BY InitTidy, TidyStep, PTL DEF Spec

(* state.cpp:213: a look whose fade was dropped, or which faded out, is Off *)
(* from then on.                                                            *)
THEOREM OthersOffHolds ==
  ASSUME "cutMidFade" \notin Liberties
  PROVE  Spec => []OthersOff
<1>1. Tidy => OthersOff
  BY DEF Tidy
<1> QED BY <1>1, AlwaysTidy, PTL

(* state.h:119: whatever was asked for last is where the machine is, or     *)
(* where it is going.                                                       *)
THEOREM LastCueWinsHolds ==
  ASSUME "cutMidFade" \notin Liberties
  PROVE  Spec => []LastCueWins
<1>1. Tidy => LastCueWins
  BY DEF Tidy
<1> QED BY <1>1, AlwaysTidy, PTL

-----------------------------------------------------------------------------
(***************************************************************************)
(* The machine shows what Crossfade promises.  Beside Tidy the mapping     *)
(* needs two facts: nothing shows before the first cue, and a fade that    *)
(* rises over the frozen picture shows that picture, with or without the   *)
(* look on its way in - so the picture a retarget freezes next is again    *)
(* the one that shows.                                                     *)
(***************************************************************************)
RisesOverFrozen ==
    /\ asked = None => strip = Dark
    /\ bBlendFromSnapshot => shown \in {frozen, frozen \cup {NextState}}

(* Freezing what shows changes nothing that shows, though the picture may   *)
(* itself be a mix over the frozen one.                                     *)
LEMMA FreezingShowsTheSame ==
  ASSUME strip \in Picture, strip' = strip, frozen' \in {frozen, Contributors(strip)}
  PROVE  (shown)' = shown
<1>1. CASE frozen' = frozen
  BY <1>1 DEF shown, Contributors
<1>2. CASE frozen' = Contributors(strip)
  <2>1. CASE strip.kind = "mix" /\ strip.from = Snapshot
    <3> DEFINE incoming == IF strip.alpha = "positive" THEN {strip.to} ELSE {}
    <3>1. shown = frozen \cup incoming
      BY <2>1 DEF shown, Contributors
    <3>2. (shown)' = frozen' \cup incoming
      BY <2>1 DEF shown, Contributors
    <3> QED BY <1>2, <3>1, <3>2 DEF shown
  <2>2. CASE ~(strip.kind = "mix" /\ strip.from = Snapshot)
    BY <2>2 DEF shown, Contributors
  <2> QED BY <2>1, <2>2
<1> QED BY <1>1, <1>2

(* What a frame shows: the fade's look over what the fade rises over, or    *)
(* the settled look alone.                                                  *)
LEMMA FrameShows ==
  ASSUME MachineInv', NEW ticked, Draw(ticked), NextState' # None \/ ActiveState' # None
  PROVE  /\ NextState' # None => (shown)' \in {(under)', (under)' \cup {NextState'}}
         /\ NextState' = None => (shown)' = {ActiveState'} /\ (under)' = {ActiveState'}
<1> USE Constants, BuffersAssumption
    DEF MachineInv, MachineTypeOK, RunningStatus, isInTransition
<1>1. CASE NextState' # None
  <2>1. strip' = Mix((getBlendSourceBuffer)', NextState', (alphaSign)')
    BY <1>1 DEF Draw
  <2>2. /\ strip'.kind = "mix" /\ strip'.from = (getBlendSourceBuffer)'
        /\ strip'.to = NextState'
    BY <2>1 DEF Mix
  <2>3. (IF strip'.from = Snapshot THEN frozen' ELSE {strip'.from} \ {NoBuffer}) = (under)'
    <3>1. CASE bBlendFromSnapshot'
      BY <2>2, <3>1 DEF getBlendSourceBuffer, under
    <3>2. CASE ~bBlendFromSnapshot' /\ ActiveState' = None
      <4>1. strip'.from = NoBuffer /\ (under)' = {}
        BY <2>2, <3>2 DEF getBlendSourceBuffer, under
      <4>2. NoBuffer # Snapshot
        BY DEF NoBuffer, Snapshot
      <4> QED BY <4>1, <4>2
    <3>3. CASE ~bBlendFromSnapshot' /\ ActiveState' # None
      <4>1. strip'.from = ActiveState' /\ (under)' = {ActiveState'}
        BY <2>2, <3>3 DEF getBlendSourceBuffer, under
      <4>2. ActiveState' \notin {NoBuffer, Snapshot}
        BY <3>3
      <4> QED BY <4>1, <4>2
    <3> QED BY <3>1, <3>2, <3>3
  <2>4. (shown)' \in {(under)', (under)' \cup {NextState'}}
    BY <2>2, <2>3 DEF shown, Contributors
  <2> QED BY <1>1, <2>4
<1>2. CASE NextState' = None
  <2>1. status'[ActiveState'] = "Active" /\ ActiveState' \in States
    BY <1>2
  <2>2. strip' = Look(ActiveState')
    BY <1>2, <2>1 DEF Draw
  <2>3. (shown)' = {ActiveState'}
    BY <2>2 DEF shown, Contributors, Look
  <2>4. (under)' = {ActiveState'}
    BY <1>2, <2>1 DEF under
  <2> QED BY <1>2, <2>3, <2>4
<1> QED BY <1>1, <1>2

(* A settled machine that has a look rises over it, and was asked for it.   *)
LEMMA SettledUnder ==
  ASSUME Tidy, ~isInTransition
  PROVE  /\ asked = ActiveState /\ ~bBlendFromSnapshot
         /\ under = {ActiveState} \ {None}
BY DEF Tidy, MachineInv, RunningStatus, LastCueWins, under

(* Entering a look is a cut to it.                                          *)
LEMMA EnterCuts ==
  ASSUME NEW s \in States, NEW gone, Enter(s, gone), asked' = s, s # asked,
         (shown)' = shown
  PROVE  Rig!Cut(s) /\ ~bBlendFromSnapshot'
BY Constants DEF Enter, under, Rig!Cut

(* setNextState is a request for a fade or a cut, or asks for nothing new.  *)
LEMMA RetargetRequests ==
  ASSUME Tidy, RisesOverFrozen, Renders, NEW s \in States, setNextState(s)
  PROVE  ([Rig!Next]_(Rig!vars)) /\ RisesOverFrozen'
<1> USE Constants DEF Tidy, MachineInv, MachineTypeOK, RunningStatus, isInTransition, LastCueWins
<1>1. asked' = s /\ strip' = strip /\ frozen' \in {frozen, Contributors(strip)} /\ Retarget(s)
  BY RetargetFreezes DEF setNextState, pictureVars
<1>2. (shown)' = shown
  BY <1>1, FreezingShowsTheSame DEF RestTypeOK
<1>3. CASE UNCHANGED machineVars /\ (s = NextState \/ (s = ActiveState /\ ~isInTransition))
  <2>1. asked = s
    BY <1>3
  <2>2. (under)' = under
    BY <1>3 DEF machineVars, under
  <2> QED BY <1>1, <1>2, <1>3, <2>1, <2>2 DEF Rig!vars, RisesOverFrozen, machineVars
<1>4. CASE isInTransition /\ s # NextState /\ Enter(s, {NextState})
  BY <1>1, <1>2, <1>4, EnterCuts DEF Rig!Next, RisesOverFrozen
<1>5. CASE isInTransition /\ s # NextState /\ captureBlendSource /\ FadeFromSnapshot(s)
  <2>1. bBlendFromSnapshot' /\ NextState' = s
    BY <1>5 DEF FadeFromSnapshot
  <2>2. frozen' = shown /\ (under)' = shown
    BY <1>5, <2>1 DEF captureBlendSource, under, shown
  <2>3. s # asked
    BY <1>5
  <2>4. CASE under = {asked}
    <3>1. bBlendFromSnapshot /\ frozen = {NextState}
      BY <1>5, <2>4 DEF under
    <3>2. shown = under
      BY <2>4, <3>1 DEF RisesOverFrozen, under
    <3> QED BY <1>1, <1>2, <2>1, <2>2, <2>3, <3>2
            DEF Rig!Next, Rig!Fade, Rig!Settled, RisesOverFrozen
  <2>5. CASE under # {asked}
    BY <1>1, <1>2, <2>1, <2>2, <2>3, <2>5
       DEF Rig!Next, Rig!Fade, Rig!Settled, RisesOverFrozen
  <2> QED BY <2>4, <2>5
<1>6. CASE ~isInTransition /\ s # ActiveState /\ Activate(s)
  <2>1. asked = ActiveState
    BY <1>6
  <2> QED BY <1>1, <1>2, <1>6, <2>1, EnterCuts DEF Activate, Rig!Next, RisesOverFrozen
<1>7. CASE ~isInTransition /\ s # ActiveState /\ FadeFromActive(s)
  <2>1. asked = ActiveState /\ under = {ActiveState} \ {None}
    BY <1>7, SettledUnder
  <2>2. (under)' = {ActiveState} \ {None} /\ ~bBlendFromSnapshot'
    BY <1>7 DEF FadeFromActive, under
  <2>3. CASE ActiveState = None
    <3>1. shown = {}
      BY <2>1, <2>3 DEF RisesOverFrozen, shown, Contributors, Dark
    <3> QED BY <1>1, <1>2, <1>7, <2>1, <2>2, <2>3, <3>1
            DEF Rig!Next, Rig!Fade, Rig!Settled, RisesOverFrozen
  <2>4. CASE ActiveState # None
    BY <1>1, <1>2, <1>7, <2>1, <2>2, <2>4
       DEF Rig!Next, Rig!Fade, Rig!Settled, RisesOverFrozen
  <2> QED BY <2>3, <2>4
<1> QED BY <1>1, <1>3, <1>4, <1>5, <1>6, <1>7 DEF Retarget

(* A tick is a frame: the fade rises or lands, or a settled machine moves   *)
(* on and shows it.                                                         *)
LEMMA TickIsFrame ==
  ASSUME Tidy, RisesOverFrozen, Renders, MachineInv', NEW dt \in 0..MaxDelta, tick(dt)
  PROVE  ([Rig!Next]_(Rig!vars)) /\ RisesOverFrozen'
<1> USE Constants DEF Tidy, MachineInv, MachineTypeOK, RunningStatus, isInTransition, LastCueWins
<1>1. CASE Advance(dt)
  <2>1. /\ UNCHANGED <<ActiveState, NextState, bBlendFromSnapshot, frozen, asked>>
        /\ NextState # None /\ asked = NextState
        /\ Draw({NextState} \cup TickActive)
    BY <1>1 DEF Advance, Render
  <2>2. (under)' = under
    BY <2>1 DEF under
  <2>3. (shown)' \in {under, under \cup {asked}}
    BY <2>1, <2>2, FrameShows
  <2> QED BY <2>1, <2>2, <2>3 DEF Rig!Next, Rig!Rise, RisesOverFrozen, under
<1>2. CASE Land(dt)
  <2>1. /\ NextState' = None /\ ActiveState' = NextState /\ NextState \in States
        /\ ~bBlendFromSnapshot' /\ asked' = asked /\ asked = NextState
        /\ Draw(TickActive')
    BY <1>2 DEF Land, Activate, Enter, Render
  <2>2. (shown)' = {asked} /\ (under)' = {asked}
    BY <2>1, FrameShows
  <2> QED BY <2>1, <2>2 DEF Rig!Next, Rig!Land, RisesOverFrozen
<1>3. CASE Hold
  <2>1. /\ UNCHANGED <<ActiveState, NextState, bBlendFromSnapshot, asked>>
        /\ NextState = None /\ ActiveState # None /\ asked = ActiveState
        /\ ~bBlendFromSnapshot
        /\ Draw(TickActive)
    BY <1>3 DEF Hold, machineVars, Render
  <2>2. (shown)' = {asked} /\ (under)' = {asked}
    BY <2>1, FrameShows
  <2> QED BY <2>1, <2>2 DEF Rig!Next, Rig!Land, RisesOverFrozen
<1>4. ASSUME NEW s \in States, Wander(s)
      PROVE  ([Rig!Next]_(Rig!vars)) /\ RisesOverFrozen'
  <2>1. /\ ~isInTransition /\ ActiveState # None /\ asked' = s /\ s # None
        /\ asked = ActiveState /\ under = {ActiveState} /\ Draw(TickActive') /\ Retarget(s)
    BY <1>4, SettledUnder DEF Wander, Render
  <2>2. CASE UNCHANGED machineVars /\ s = ActiveState
    <3>1. (shown)' = {asked} /\ (under)' = {asked}
      BY <2>1, <2>2, FrameShows DEF machineVars
    <3> QED BY <2>1, <2>2, <3>1 DEF machineVars, Rig!Next, Rig!Land, RisesOverFrozen
  <2>3. CASE s # ActiveState /\ Activate(s)
    <3>1. NextState' = None /\ ActiveState' = s /\ ~bBlendFromSnapshot'
      BY <2>3 DEF Activate, Enter
    <3>2. (shown)' = {s} /\ (under)' = {s}
      BY <2>1, <3>1, FrameShows
    <3> QED BY <2>1, <2>3, <3>1, <3>2
            DEF Rig!Next, Rig!Wander, Rig!Settled, RisesOverFrozen
  <2>4. CASE s # ActiveState /\ FadeFromActive(s)
    <3>1. NextState' = s /\ ActiveState' = ActiveState /\ ~bBlendFromSnapshot'
      BY <2>4 DEF FadeFromActive
    <3>2. (under)' = under
      BY <2>1, <3>1 DEF under
    <3>3. (shown)' \in {under, under \cup {s}}
      BY <2>1, <3>1, <3>2, FrameShows
    <3> QED BY <2>1, <2>4, <3>1, <3>2, <3>3
            DEF Rig!Next, Rig!Wander, Rig!Settled, RisesOverFrozen
  <2> QED BY <2>1, <2>2, <2>3, <2>4 DEF Retarget
<1> QED BY <1>1, <1>2, <1>3, <1>4 DEF tick

LEMMA CrossfadeStep ==
  ASSUME "cutMidFade" \notin Liberties, Renders, Tidy, RisesOverFrozen, [Next]_vars
  PROVE  ([Rig!Next]_(Rig!vars)) /\ RisesOverFrozen'
<1> USE DEF Rig!vars
<1>1. ASSUME UNCHANGED <<ActiveState, NextState, bBlendFromSnapshot, frozen, strip, asked>>
      PROVE  UNCHANGED <<asked, under, shown>> /\ RisesOverFrozen'
  BY <1>1 DEF under, shown, Contributors, RisesOverFrozen
<1>2. ASSUME NEW s \in States, setActiveState(s)
      PROVE  ([Rig!Next]_(Rig!vars)) /\ RisesOverFrozen'
  <2>1. ~isInTransition /\ asked' = s /\ Activate(s) /\ strip' = strip /\ frozen' = frozen
    BY <1>2 DEF setActiveState, pictureVars, Activate, machineVars
  <2>2. asked = ActiveState
    BY <2>1, SettledUnder
  <2>3. CASE s = ActiveState
    BY <1>1, <2>1, <2>2, <2>3 DEF Activate, machineVars
  <2>4. CASE s # ActiveState
    <3>1. (shown)' = shown
      BY <2>1 DEF shown, Contributors
    <3> QED BY <2>1, <2>2, <2>4, <3>1, EnterCuts, Constants
            DEF Activate, Rig!Next, RisesOverFrozen
  <2> QED BY <2>3, <2>4
<1>3. ASSUME NEW s \in States, setNextState(s)
      PROVE  ([Rig!Next]_(Rig!vars)) /\ RisesOverFrozen'
  BY <1>3, RetargetRequests
<1>4. ASSUME NEW s \in States, restartState(s)
      PROVE  ([Rig!Next]_(Rig!vars)) /\ RisesOverFrozen'
  BY <1>1, <1>4 DEF restartState, pictureVars
<1>5. ASSUME NEW i \in BOOLEAN, setBlend(i)
      PROVE  ([Rig!Next]_(Rig!vars)) /\ RisesOverFrozen'
  BY <1>1, <1>5 DEF setBlend, machineVars, pictureVars
<1>6. ASSUME NEW t \in 0..MaxTransition, SetTransitionTime(t)
      PROVE  ([Rig!Next]_(Rig!vars)) /\ RisesOverFrozen'
  BY <1>1, <1>6 DEF SetTransitionTime, machineVars, pictureVars
<1>7. ASSUME NEW dt \in 0..MaxDelta, tick(dt)
      PROVE  ([Rig!Next]_(Rig!vars)) /\ RisesOverFrozen'
  <2>1. MachineInv'
    BY InvStep, InvSplits DEF Tidy
  <2> QED BY <1>7, <2>1, TickIsFrame
<1>8. CASE UNCHANGED vars
  BY <1>1, <1>8 DEF vars, machineVars, pictureVars
<1> QED BY <1>2, <1>3, <1>4, <1>5, <1>6, <1>7, <1>8 DEF Next, Call, Tick

(* state.h:118: from frame to frame the rendering machine shows only the    *)
(* look asked for, rising over the picture that was showing when it was     *)
(* asked for - a mix of any number of dropped fades included - unless it    *)
(* was cut to.                                                              *)
THEOREM FadesFromWhatShowsHolds ==
  ASSUME "cutMidFade" \notin Liberties, Renders
  PROVE  Spec => FadesFromWhatShows
<1>1. Init => Rig!Init /\ RisesOverFrozen
  BY DEF Init, Rig!Init, RisesOverFrozen, under, shown, Contributors, Dark
<1>2. Tidy /\ RisesOverFrozen /\ [Next]_vars
        => ([Rig!Next]_(Rig!vars)) /\ RisesOverFrozen'
  BY CrossfadeStep
<1> QED BY <1>1, <1>2, AlwaysTidy, PTL DEF Spec, Rig!Spec, FadesFromWhatShows

-----------------------------------------------------------------------------
(* A tick that leaves a fade running mixes what that same tick drew.        *)
LEMMA RenderDraws ==
  ASSUME MachineInv', BlendSourcesDrawn, "restartOutgoing" \notin Liberties,
         NEW ticked, Render(ticked),
         {ActiveState', NextState'} \cap States \cap {s \in States : status'[s] # "Off"}
           \subseteq ticked \/ (currentTransitionTime' = 0 /\ transitionTime' # 0
                                /\ {ActiveState'} \cap {s \in States : status'[s] # "Off"}
                                     \subseteq ticked),
         NextState' = None => status'[ActiveState'] = "Active"
  PROVE  BlendSourcesDrawn'
<1> USE Constants, BuffersAssumption
    DEF MachineInv, MachineTypeOK, RunningStatus, isInTransition
<1>0. CASE ~Renders
  BY <1>0 DEF Render, BlendSourcesDrawn
<1> SUFFICES ASSUME Draw(ticked) PROVE BlendSourcesDrawn'
  BY <1>0 DEF Render
<1>1. CASE NextState' = None
  BY <1>1 DEF Draw, Look, BlendSourcesDrawn
<1>2. CASE NextState' # None
  <2>1. strip' = Mix((getBlendSourceBuffer)', NextState', (alphaSign)')
    BY <1>2 DEF Draw
  <2>2. (getBlendSourceBuffer)' \in States => (getBlendSourceBuffer)' \in drawn'
    <3> SUFFICES ASSUME (getBlendSourceBuffer)' \in States
                 PROVE  (getBlendSourceBuffer)' \in drawn'
      OBVIOUS
    <3>1. (getBlendSourceBuffer)' = ActiveState' /\ ActiveState' \in States
          /\ ~bBlendFromSnapshot'
      BY DEF getBlendSourceBuffer
    <3>2. status'[ActiveState'] = "TransitionOut"
      BY <1>2, <3>1
    <3> QED BY <3>1, <3>2 DEF Draw
  <2>3. (alphaSign)' = "positive" => NextState' \in drawn'
    BY <1>2 DEF alphaSign, Draw
  <2> QED BY <2>1, <2>2, <2>3 DEF BlendSourcesDrawn, Mix
<1> QED BY <1>1, <1>2

LEMMA BlendSourcesStep ==
  ASSUME "restartOutgoing" \notin Liberties
  PROVE  Inv /\ BlendSourcesDrawn /\ [Next]_vars => BlendSourcesDrawn'
<1> SUFFICES ASSUME Inv, BlendSourcesDrawn, [Next]_vars PROVE BlendSourcesDrawn'
  OBVIOUS
<1>1. MachineInv /\ RestTypeOK /\ MachineInv'
  BY InvStep, InvSplits
<1>2. CASE UNCHANGED pictureVars
  BY <1>2 DEF pictureVars, BlendSourcesDrawn
<1>3. ASSUME NEW dt \in 0..MaxDelta, tick(dt) PROVE BlendSourcesDrawn'
  <2> USE <1>1, Constants DEF MachineInv, MachineTypeOK, RunningStatus, isInTransition
  <2>1. CASE Advance(dt)
    BY <2>1, RenderDraws DEF Advance, TickActive
  <2>2. CASE Land(dt)
    <3>1. NextState' = None /\ status'[ActiveState'] = "Active"
      BY <2>2, EnterSettles DEF Land, Activate
    <3> QED BY <2>2, <3>1, RenderDraws DEF Land, TickActive
  <2>3. CASE Hold
    <3>1. NextState' = None /\ status'[ActiveState'] = "Active"
      BY <2>3 DEF Hold, machineVars
    <3> QED BY <2>3, <3>1, RenderDraws DEF Hold, machineVars, TickActive
  <2>4. ASSUME NEW s \in States, Wander(s) PROVE BlendSourcesDrawn'
    <3>1. CASE NextState' = None
      <4>1. status'[ActiveState'] = "Active"
        BY <2>4, <3>1 DEF Wander, Retarget, machineVars, Activate, Enter, FadeFromActive
      <4> QED BY <2>4, <3>1, <4>1, RenderDraws DEF Wander, TickActive
    <3>2. CASE NextState' # None
      <4>1. currentTransitionTime' = 0 /\ transitionTime # 0
        BY <2>4, <3>2 DEF Wander, Retarget, machineVars, Activate, Enter, FadeFromActive, Instant
      <4>2. transitionTime' # 0
        BY <1>3, <4>1 DEF tick, settingVars
      <4> QED BY <2>4, <3>2, <4>1, <4>2, RenderDraws DEF Wander, TickActive
    <3> QED BY <3>1, <3>2
  <2> QED BY <1>3, <2>1, <2>2, <2>3, <2>4 DEF tick
<1>4. CASE Call
  <2>1. UNCHANGED pictureVars
    BY <1>4 DEF Call, setActiveState, setNextState, restartState, setBlend, SetTransitionTime,
                pictureVars
  <2> QED BY <1>2, <2>1
<1>5. CASE UNCHANGED vars
  BY <1>2, <1>5 DEF vars
<1> QED BY <1>3, <1>4, <1>5 DEF Next, Tick

(* state_generic.cpp:100: no fade mixes a buffer its look did not draw in   *)
(* the same tick, unless the outgoing look is restarted under the fade.     *)
THEOREM BlendSourcesDrawnHolds ==
  ASSUME "restartOutgoing" \notin Liberties
  PROVE  Spec => []BlendSourcesDrawn
<1>1. Init => BlendSourcesDrawn
  BY DEF Init, BlendSourcesDrawn, Dark
<1> QED BY <1>1, BlendSourcesStep, MachineInvariant, PTL DEF Spec
=============================================================================
