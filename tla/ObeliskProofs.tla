--------------------------- MODULE ObeliskProofs ---------------------------
(***************************************************************************)
(* The obelisk, for every set of looks and of commands: its loop drives    *)
(* the machine as StateMachine specifies it, so what StateMachineProofs    *)
(* proves of every machine holds of the obelisk's; and the machine always  *)
(* has an active look to tick.                                             *)
(***************************************************************************)
EXTENDS Obelisk, TLAPS

CommandSet == [verb : Verbs \cup {"none"}, look : Looks \cup {None}, words : Seq(Words)]

LoopTypeOK == /\ owned \in BOOLEAN
              /\ phase \in {"constructor", "link", "commands", "handle"}
              /\ hasTicked \in BOOLEAN

Inv == command \in CommandSet /\ NeverTicksNull

LEMMA CommandsTyped == /\ Commands \subseteq CommandSet
                       /\ NoCommand \in CommandSet
<1>1. ASSUME NEW c \in Commands PROVE c \in CommandSet
  BY CommandsAssumption DEF CommandSet
<1>2. NoCommand \in CommandSet
  BY DEF NoCommand, CommandSet
<1> QED BY <1>1, <1>2

(* A call that ends on a look leaves the machine with an active one.        *)
LEMMA CallsKeepActive ==
  ASSUME NEW s \in Looks,
         Machine!setActiveState(s) \/ (Machine!setNextState(s) /\ ActiveState # None)
  PROVE  ActiveState' # None
<1>1. s # None
  BY LooksAssumption DEF Looks
<1> QED BY <1>1 DEF Machine!setActiveState, Machine!setNextState, Machine!Activate,
                    Machine!Retarget, Machine!Enter, Machine!FadeFromActive,
                    Machine!FadeFromSnapshot, Machine!machineVars, Machine!isInTransition

LEMMA InitInv == Init => Inv
  BY CommandsTyped DEF Init, Inv, NeverTicksNull

(* What a step of the handler does to the command it handles.               *)
LEMMA HandleSteps ==
  ASSUME Inv, Handle
  PROVE  /\ command' \in CommandSet
         /\ phase = "handle" /\ phase' \in {"handle", "commands"}
<1>1. CASE handleWord
  <2>1. Tail(command.words) \in Seq(Words)
    BY <1>1 DEF handleWord, Inv, CommandSet
  <2> QED BY <1>1, <2>1 DEF handleWord, Inv, CommandSet
<1>2. CASE handleSwitch \/ handleOther \/ handleState \/ handleSim
  BY <1>2, CommandsTyped DEF handleSwitch, handleOther, handleState, handleSim, Done
<1> QED BY <1>1, <1>2 DEF Handle

LEMMA HandleKeepsActive ==
  ASSUME Inv, Handle
  PROVE  ActiveState' # None
<1>0. ActiveState # None /\ command.look \in Looks \cup {None}
  BY HandleSteps DEF Inv, NeverTicksNull, CommandSet
<1>1. CASE handleSwitch
  BY <1>0, <1>1, CallsKeepActive, LooksAssumption DEF handleSwitch, Looks
<1>2. CASE handleOther
  BY <1>0, <1>2 DEF handleOther, machineState
<1>3. CASE handleWord
  BY <1>0, <1>3 DEF handleWord, machineState, Machine!SetTransitionTime, Machine!setBlend,
                    Machine!machineVars
<1>4. CASE handleState
  BY <1>0, <1>4, CallsKeepActive DEF handleState, machineState
<1>5. CASE handleSim
  BY <1>0, <1>5, CallsKeepActive DEF handleSim, machineState
<1> QED BY <1>1, <1>2, <1>3, <1>4, <1>5 DEF Handle

LEMMA StepInv == Inv /\ [Next]_vars => Inv'
<1> SUFFICES ASSUME Inv, [Next]_vars PROVE Inv'
  OBVIOUS
<1>1. CASE Constructor
  <2>1. ActiveState' # None
    BY <1>1, CallsKeepActive, LooksAssumption DEF Constructor, Looks
  <2> QED BY <1>1, <2>1 DEF Constructor, Inv, NeverTicksNull
<1>2. CASE ReadLink
  BY <1>2 DEF ReadLink, machineState, Inv, NeverTicksNull
<1>3. ASSUME NEW c \in Commands, TakeCommand(c) PROVE Inv'
  BY <1>3, CommandsTyped DEF TakeCommand, machineState, Inv, NeverTicksNull
<1>4. CASE Handle
  BY <1>4, HandleSteps, HandleKeepsActive DEF Inv, NeverTicksNull
<1>5. ASSUME NEW dt \in 0..MaxDelta, EndTick(dt) PROVE Inv'
  <2>1. ActiveState # None /\ command' = command
    BY <1>5 DEF EndTick, Inv, NeverTicksNull
  <2>2. ActiveState' # None
    <3>1. CASE tickWhileLinked(dt)
      BY <2>1, <3>1 DEF tickWhileLinked, machineState
    <3>2. CASE tick(dt)
      BY <2>1, <3>2 DEF tick, Machine!Advance, Machine!Land, Machine!Hold, Machine!Activate,
                        Machine!Enter, Machine!machineVars, Machine!isInTransition
    <3> QED BY <1>5, <3>1, <3>2 DEF EndTick
  <2> QED BY <2>1, <2>2 DEF Inv, NeverTicksNull
<1>6. CASE UNCHANGED vars
  BY <1>6 DEF vars, machineState, loopVars, Inv, NeverTicksNull
<1> QED BY <1>1, <1>2, <1>3, <1>4, <1>5, <1>6 DEF Next

LEMMA LoopTypes == Spec => []LoopTypeOK
<1>1. Init => LoopTypeOK
  BY DEF Init, LoopTypeOK
<1>2. LoopTypeOK /\ [Next]_vars => LoopTypeOK'
  <2> SUFFICES ASSUME LoopTypeOK, [Next]_vars PROVE LoopTypeOK'
    OBVIOUS
  <2> USE DEF LoopTypeOK
  <2>1. CASE Constructor \/ ReadLink
    BY <2>1 DEF Constructor, ReadLink
  <2>2. ASSUME NEW c \in Commands, TakeCommand(c) PROVE LoopTypeOK'
    BY <2>2 DEF TakeCommand
  <2>3. CASE Handle
    BY <2>3 DEF Handle, handleSwitch, handleOther, handleWord, handleState, handleSim, Done
  <2>4. ASSUME NEW dt \in 0..MaxDelta, EndTick(dt) PROVE LoopTypeOK'
    BY <2>4 DEF EndTick, preTick
  <2>5. CASE UNCHANGED vars
    BY <2>5 DEF vars, loopVars
  <2> QED BY <2>1, <2>2, <2>3, <2>4, <2>5 DEF Next
<1> QED BY <1>1, <1>2, PTL DEF Spec

LEMMA AlwaysInv == Spec => []Inv
  BY InitInv, StepInv, PTL DEF Spec

(* state.cpp:331: no tick of the obelisk meets a machine without an active  *)
(* look.                                                                    *)
THEOREM NeverTicksNullHolds == Spec => []NeverTicksNull
<1>1. Inv => NeverTicksNull
  BY DEF Inv
<1> QED BY <1>1, AlwaysInv, PTL

-----------------------------------------------------------------------------
LEMMA Idle == UNCHANGED machineState => UNCHANGED Machine!vars
  BY DEF machineState, Machine!vars, Machine!machineVars, Machine!settingVars,
         Machine!pictureVars

LEMMA LookCalls ==
  ASSUME NEW s \in Looks, Machine!setActiveState(s) \/ Machine!setNextState(s)
  PROVE  Machine!Next
  BY DEF Machine!Next, Machine!Call

LEMMA HandleMapsToMachine == Inv /\ Handle => [Machine!Next]_Machine!vars
<1> SUFFICES ASSUME Inv, Handle PROVE [Machine!Next]_Machine!vars
  OBVIOUS
<1>0. command.look \in Looks \cup {None} /\ command.words \in Seq(Words)
  BY DEF Inv, CommandSet
<1>1. CASE handleSwitch
  BY <1>1, LookCalls, LooksAssumption DEF handleSwitch, Looks
<1>2. CASE handleOther
  BY <1>2, Idle DEF handleOther
<1>3. CASE handleWord
  <2> DEFINE word == Head(command.words)
  <2>1. word \in Words
    BY <1>0, <1>3 DEF handleWord
  <2>2. CASE word.kind = "seconds" /\ word.value >= 0 /\ Machine!SetTransitionTime(word.value)
    <3>1. word.value \in -1..MaxTransition
      BY <2>1, <2>2 DEF Words
    <3>2. word.value \in 0..MaxTransition
      BY <2>2, <3>1, BoundsAssumption
    <3> HIDE DEF word
    <3> QED BY <2>2, <3>2 DEF Machine!Next, Machine!Call
  <2>3. CASE word.kind = "blend" /\ Machine!setBlend(word.value)
    <3>1. word.value \in BOOLEAN
      BY <2>1, <2>3 DEF Words
    <3> HIDE DEF word
    <3> QED BY <2>3, <3>1 DEF Machine!Next, Machine!Call
  <2>4. CASE UNCHANGED machineState
    BY <2>4, Idle
  <2> QED BY <1>3, <2>2, <2>3, <2>4 DEF handleWord
<1>4. CASE handleState
  BY <1>0, <1>4, LookCalls, Idle DEF handleState
<1>5. CASE handleSim
  BY <1>0, <1>5, LookCalls, Idle DEF handleSim
<1> QED BY <1>1, <1>2, <1>3, <1>4, <1>5 DEF Handle

LEMMA StepMapsToMachine == Inv /\ [Next]_vars => [Machine!Next]_Machine!vars
<1> SUFFICES ASSUME Inv, [Next]_vars PROVE [Machine!Next]_Machine!vars
  OBVIOUS
<1>1. CASE Constructor
  BY <1>1, LookCalls, LooksAssumption DEF Constructor, Looks
<1>2. CASE ReadLink
  BY <1>2, Idle DEF ReadLink
<1>3. ASSUME NEW c \in Commands, TakeCommand(c) PROVE [Machine!Next]_Machine!vars
  BY <1>3, Idle DEF TakeCommand
<1>4. CASE Handle
  BY <1>4, HandleMapsToMachine
<1>5. ASSUME NEW dt \in 0..MaxDelta, EndTick(dt) PROVE [Machine!Next]_Machine!vars
  <2>1. CASE tickWhileLinked(dt)
    BY <2>1, Idle DEF tickWhileLinked
  <2>2. CASE tick(dt)
    <3>1. Machine!tick(dt)
      BY <2>2 DEF tick, Machine!tick, Machine!settingVars
    <3> QED BY <3>1 DEF Machine!Next, Machine!Tick
  <2> QED BY <1>5, <2>1, <2>2 DEF EndTick
<1>6. CASE UNCHANGED vars
  BY <1>6, Idle DEF vars
<1> QED BY <1>1, <1>2, <1>3, <1>4, <1>5, <1>6 DEF Next

(* Every step of the obelisk is a step of its machine or leaves it alone.   *)
LEMMA ObeliskUsesMachine == Spec => Machine!Spec
<1>1. Init => Machine!Init
  BY DEF Init
<1> QED BY <1>1, StepMapsToMachine, AlwaysInv, PTL DEF Spec, Machine!Spec

-----------------------------------------------------------------------------
Proofs == INSTANCE StateMachineProofs
            WITH States <- Looks, Liberties <- {"cutMidFade"}, Renders <- FALSE,
                 frozen <- {}, drawn <- {}, strip <- [kind |-> "dark"]

(* The machine of the obelisk and the machine StateMachineProofs proves     *)
(* about are one: the same definitions over the same variables.             *)
LEMMA ProofsApply ==
  /\ Proofs!NoneAssumption /\ Proofs!BoundsAssumption
  /\ Proofs!LibertiesAssumption /\ Proofs!RendersAssumption /\ Proofs!BuffersAssumption
  BY LooksAssumption, BoundsAssumption, NamesAssumption
     DEF Proofs!NoneAssumption, Proofs!BoundsAssumption, Proofs!LibertiesAssumption,
         Proofs!RendersAssumption, Proofs!BuffersAssumption, Proofs!AllLiberties, Proofs!Snapshot, Proofs!NoBuffer

LEMMA SameMachine == Machine!Spec <=> Proofs!Spec
<1>1. Machine!Init <=> Proofs!Init
  BY DEF Machine!Init, Proofs!Init, Machine!Dark, Proofs!Dark
<1>2. [Machine!Next]_Machine!vars <=> [Proofs!Next]_Proofs!vars
  BY DEF Machine!machineVars, Proofs!machineVars, Machine!settingVars, 
         Proofs!settingVars, Machine!pictureVars, Proofs!pictureVars, Machine!vars, 
         Proofs!vars, Machine!isInTransition, Proofs!isInTransition, Machine!Enter, 
         Proofs!Enter, Machine!Activate, Proofs!Activate, Machine!FadeFromActive, 
         Proofs!FadeFromActive, Machine!FadeFromSnapshot, Proofs!FadeFromSnapshot, 
         Machine!Instant, Proofs!Instant, Machine!Retarget, Proofs!Retarget, 
         Machine!setActiveState, Proofs!setActiveState, Machine!setNextState, 
         Proofs!setNextState, Machine!restartState, Proofs!restartState, 
         Machine!setBlend, Proofs!setBlend, Machine!SetTransitionTime, 
         Proofs!SetTransitionTime, Machine!getBlendSourceBuffer, 
         Proofs!getBlendSourceBuffer, Machine!alphaSign, Proofs!alphaSign, 
         Machine!Render, Proofs!Render, Machine!captureBlendSource,
         Proofs!captureBlendSource, Machine!TickActive, Proofs!TickActive, 
         Machine!Advance, Proofs!Advance, Machine!Land, Proofs!Land, Machine!Hold, 
         Proofs!Hold, Machine!Wander, Proofs!Wander, Machine!tick, Proofs!tick, 
         Machine!Call, Proofs!Call, Machine!Tick, Proofs!Tick, Machine!Next, 
         Proofs!Next, Machine!Look, Proofs!Look, Machine!Mix, Proofs!Mix, 
         Machine!Snapshot, Proofs!Snapshot, Machine!NoBuffer, Proofs!NoBuffer
<1> QED BY <1>1, <1>2, PTL DEF Machine!Spec, Proofs!Spec

(* What StateMachineProofs shows of every machine, of the obelisk's.        *)
THEOREM RunningStatusHolds == Spec => []RunningStatus
<1>1. Proofs!Spec => []Proofs!RunningStatus
  BY ProofsApply, Proofs!RunningStatusHolds
<1>2. Machine!RunningStatus <=> Proofs!RunningStatus
  BY DEF Machine!RunningStatus, Proofs!RunningStatus, Machine!isInTransition,
         Proofs!isInTransition
<1> QED BY <1>1, <1>2, SameMachine, ObeliskUsesMachine, PTL DEF RunningStatus

(* The loop and its machine keep their types: what is handled is a command  *)
(* of the cable with words still to read, a fade's clock stays within the   *)
(* longest time a command sets, and no tick meets a machine without an      *)
(* active look.                                                             *)
THEOREM TypeCorrect == Spec => []TypeOK
<1>1. Proofs!Spec => []Proofs!TypeOK
  BY ProofsApply, Proofs!TypeCorrect
<1>2. Machine!TypeOK <=> Proofs!TypeOK
  BY DEF Machine!TypeOK, Proofs!TypeOK, Machine!StateStatus, Proofs!StateStatus,
         Machine!Picture, Proofs!Picture, Machine!Look, Proofs!Look, Machine!Mix,
         Proofs!Mix, Machine!Dark, Proofs!Dark, Machine!Snapshot, Proofs!Snapshot,
         Machine!NoBuffer, Proofs!NoBuffer
<1>3. Inv /\ LoopTypeOK /\ Machine!TypeOK => TypeOK
  BY DEF Inv, LoopTypeOK, TypeOK, CommandSet
<1> QED BY <1>1, <1>2, <1>3, SameMachine, ObeliskUsesMachine, AlwaysInv, LoopTypes, PTL

-----------------------------------------------------------------------------
(* A cue for a look the machine is not leaving sends it there.              *)
LEMMA CueIsTaken ==
  ASSUME Inv, [Next]_vars, Handled("state"), command.look \notin {None, ActiveState}
  PROVE  destination' = command.look /\ (LandsNow => NextState' = None)
<1>0. command.look \in Looks /\ command.look # None
  BY LooksAssumption DEF Inv, CommandSet
<1>1. handleState
  <2>1. phase' # phase
    BY DEF Handled
  <2>2. command.verb = "state" /\ phase = "handle" /\ phase' = "commands"
    BY DEF Handled
  <2> QED BY <1>0, <2>1, <2>2
          DEF Next, Constructor, ReadLink, TakeCommand, EndTick, Handle, handleSwitch,
              handleOther, handleWord, handleSim, vars, loopVars
<1>2. CASE LandsNow /\ Machine!setActiveState(command.look)
  BY <1>0, <1>2 DEF destination, Machine!setActiveState, Machine!Activate, Machine!Enter
<1>3. CASE /\ ~LandsNow /\ command.look \notin {ActiveState, NextState}
           /\ Machine!setNextState(command.look)
  BY <1>0, <1>3 DEF destination, Machine!setNextState, Machine!Retarget, Machine!Activate,
                    Machine!Enter, Machine!FadeFromActive, Machine!FadeFromSnapshot,
                    Machine!isInTransition
<1>4. CASE ~LandsNow /\ command.look = NextState /\ UNCHANGED machineState
  BY <1>0, <1>4 DEF destination, machineState
<1> QED BY <1>1, <1>2, <1>3, <1>4 DEF handleState

(* obelisk.cpp:406: whatever fades run and whoever owns the pixels, `state` *)
(* of a look other than the outgoing one is taken, and under a takeover     *)
(* leaves no fade pending.                                                  *)
THEOREM StateCueTakenHolds == Spec => StateCueTaken
<1>1. Inv /\ [Next]_vars =>
        [(Handled("state") /\ command.look \notin {None, ActiveState})
            => /\ destination' = command.look
               /\ LandsNow => NextState' = None]_vars
  BY CueIsTaken
<1> QED BY <1>1, AlwaysInv, PTL DEF Spec, StateCueTaken
=============================================================================
