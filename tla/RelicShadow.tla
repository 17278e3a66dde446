---------------------------- MODULE RelicShadow ----------------------------
(***************************************************************************)
(* The desk's copy of the relic's look (desktop/src/relic_shadow.cpp), the *)
(* commands of the show that move it (`base`, `link take`, `link cmd`),    *)
(* and the relic at the other end of the cable: cues and `sim` questions   *)
(* go out in order, answers come back in order, and either end may move on *)
(* while they are under way. A write the desk is told went well may be     *)
(* lost: the desk goes on as if it had not been.                           *)
(*                                                                         *)
(* Fades have no length here: each of the two machines lands its own when  *)
(* its own loop gets there, and a fade of no length, or a "cut", lands at  *)
(* once. A look is its name; the values behind it only set clocks.         *)
(***************************************************************************)
EXTENDS Naturals, Sequences

CONSTANTS
    AmbientLooks,    (* the looks the profile can make, and the relic's own *)
    ScannerLooks,    (* looks of the relic that the profile has not *)
    blobs,           (* the look the relic starts on *)
    None,
    MaxCable,        (* bound: frames under way to the relic *)
    MaxAnswers       (* bound: answers under way to the desk *)

Looks == AmbientLooks \cup ScannerLooks

ASSUME LooksAssumption == /\ AmbientLooks \cap ScannerLooks = {}
                          /\ blobs \in AmbientLooks
                          /\ None \notin Looks
ASSUME BoundsAssumption == MaxCable \in Nat /\ MaxAnswers \in Nat

VARIABLES
    profile,         (* whether the shadow has the relic's profile *)
    lookName,        (* the look the copy shows or blends to; None: not live *)
    outgoingName,
    isBlending,
    streaming,       (* RelicUsbOutput::streaming *)
    takePending,
    ActiveState,     (* the relic's machine *)
    NextState,
    owned,           (* the relic has given its pixels to the desk *)
    cable,           (* frames to the relic *)
    answers,         (* the looks that `sim` answers to the desk name *)
    inStep           (* *history*: the running blend started with nothing under *)
                     (* way, and its cue was not lost                           *)

copyVars == <<profile, lookName, outgoingName, isBlending, inStep>>
showVars == <<streaming, takePending>>
relicVars == <<ActiveState, NextState, owned>>
vars == <<copyVars, showVars, relicVars, cable, answers>>

Frame == [kind : {"state"}, look : Looks]
            \cup [kind : {"sim", "pixels", "release"}, look : {None}]
Cue(l) == [kind |-> "state", look |-> l]
Word(k) == [kind |-> k, look |-> None]

TypeOK ==
    /\ profile \in BOOLEAN
    /\ lookName \in AmbientLooks \cup {None}
    /\ outgoingName \in AmbientLooks \cup {None}
    /\ isBlending \in BOOLEAN
    /\ isBlending => lookName # None /\ outgoingName \notin {None, lookName}
    /\ lookName # None => profile
    /\ streaming \in BOOLEAN /\ takePending \in BOOLEAN
    /\ ActiveState \in Looks
    /\ NextState \in Looks \cup {None}
    /\ owned \in BOOLEAN
    /\ cable \in Seq(Frame) /\ Len(cable) <= MaxCable
    /\ answers \in Seq(Looks) /\ Len(answers) <= MaxAnswers
    /\ inStep \in BOOLEAN

Init ==
    /\ profile = FALSE
    /\ lookName = None
    /\ outgoingName = None
    /\ isBlending = FALSE
    /\ streaming \in BOOLEAN /\ takePending = FALSE
    /\ ActiveState = blobs
    /\ NextState = None
    /\ owned = FALSE
    /\ cable = <<>> /\ answers = <<>>
    /\ inStep = FALSE

isLive == lookName # None
Destination == IF NextState # None THEN NextState ELSE ActiveState

-----------------------------------------------------------------------------
(* The copy. *)

clear_MachineKept ==               (* mutant: the machine is not torn down *)
    /\ lookName' = None
    /\ outgoingName' = None
    /\ inStep' = FALSE
    /\ UNCHANGED isBlending

clear ==
    /\ lookName' = None
    /\ outgoingName' = None
    /\ isBlending' = FALSE
    /\ inStep' = FALSE

(* A fresh machine on the look, or none if the profile cannot make it. *)
spawn(l) ==
    IF profile /\ l \in AmbientLooks
      THEN /\ lookName' = l
           /\ outgoingName' = None
           /\ isBlending' = FALSE
           /\ inStep' = FALSE
      ELSE clear

UnchangedCopy == UNCHANGED <<lookName, outgoingName, isBlending, inStep>>

setProfile(known) ==
    /\ profile' = known
    /\ IF known # profile THEN clear ELSE UnchangedCopy

(* The answer of a `sim`. The outgoing look of a running blend is not cut  *)
(* back to.                                                                *)
applySim_BlendIgnored(l) ==        (* mutant: an old answer is taken in mid-blend *)
    /\ IF ~isLive \/ l # lookName THEN spawn(l) ELSE UnchangedCopy
    /\ UNCHANGED profile

applySim(l) ==
    /\ IF (isBlending /\ l = outgoingName) \/ l = lookName
         THEN UnchangedCopy
         ELSE spawn(l)
    /\ UNCHANGED profile

(* The copy follows a `base`: nothing live starts on the look, a look it   *)
(* does not know or a blend that is none (~known) leaves it alone, and a   *)
(* second change retargets the blend that runs. sent: the relic gets the   *)
(* cue, which the desk cannot tell and only inStep looks at.               *)
blendTo(l, known, instant, sent) ==
    /\ CASE ~isLive -> spawn(l)
         [] isLive /\ (l = lookName \/ l \notin AmbientLooks \/ ~known) ->
              /\ inStep' = (inStep /\ (l = lookName \/ ~sent))
              /\ UNCHANGED <<lookName, outgoingName, isBlending>>
         [] OTHER -> /\ outgoingName' = lookName
                     /\ lookName' = l
                     /\ isBlending' = ~instant
                     /\ inStep' = (/\ sent /\ cable = <<>> /\ answers = <<>>
                                   /\ lookName = Destination)
    /\ UNCHANGED profile

(* RelicShadow::tick landing the blend; before that it only advances it. *)
BlendLands ==
    /\ isBlending
    /\ isBlending' = FALSE
    /\ UNCHANGED <<profile, lookName, outgoingName, inStep, showVars, relicVars, cable, answers>>

-----------------------------------------------------------------------------
(* The show: commands of the operator, and what its loop does by itself. *)

(* What a frame leaves on the cable. sendRaw reports a failed write as done *)
(* until many fail in a row, a frame behind one cut short is swallowed, and *)
(* a line may be dropped from the relic's full queue: it then comes to     *)
(* nothing, and the desk does not know.                                    *)
Written(frame) == {<<frame>>, <<>>}

Put(frames) ==
    /\ Len(cable) + Len(frames) <= MaxCable
    /\ cable' = cable \o frames

Send(frame) == \E frames \in Written(frame) : Put(frames)

(* `base`: the cue, the question, and the copy blends.                     *)
Base(l, known, instant) ==
    /\ \E cue \in Written(Cue(l)), sim \in Written(Word("sim")) :
         /\ Put(cue \o sim)
         /\ IF profile THEN blendTo(l, known, instant, cue # <<>>) ELSE UNCHANGED copyVars
    /\ UNCHANGED <<showVars, relicVars, answers>>

(* The second write is refused: the command ends, the cue perhaps sent. *)
BaseFailsHalfWay(l) ==
    /\ \E cue \in Written(Cue(l)) : Put(cue) /\ inStep' = (inStep /\ cue = <<>>)
    /\ UNCHANGED <<profile, lookName, outgoingName, isBlending, showVars, relicVars, answers>>

(* `link cmd state ...` goes past the shadow. *)
LinkCmd(l) == BaseFailsHalfWay(l)

LinkSim ==
    /\ Send(Word("sim"))
    /\ UNCHANGED <<copyVars, showVars, relicVars, answers>>

LinkTake ==
    /\ Send(Word("sim"))
    /\ takePending' = TRUE
    /\ UNCHANGED <<copyVars, streaming, relicVars, answers>>

LinkRelease ==
    /\ Send(Word("release"))
    /\ takePending' = FALSE
    /\ streaming' = FALSE
    /\ UNCHANGED <<copyVars, relicVars, answers>>

Operator ==
    \/ \E l \in Looks : \/ \E known, instant \in BOOLEAN : Base(l, known, instant)
                        \/ BaseFailsHalfWay(l)
                        \/ LinkCmd(l)
    \/ LinkSim \/ LinkTake \/ LinkRelease

(* The loop: the take that waited for the copy, or for three quarters of a *)
(* second; while it streams it asks again every few seconds.               *)
Take ==
    /\ takePending /\ ~streaming
    /\ streaming' = TRUE
    /\ takePending' = FALSE
    /\ UNCHANGED <<copyVars, relicVars, cable, answers>>

(* A frame of the show. A second one behind it would change nothing. *)
Flying == \E i \in 1..Len(cable) : cable[i].kind = "pixels"

SendFrame ==
    /\ streaming /\ ~Flying
    /\ Send(Word("pixels"))
    /\ UNCHANGED <<copyVars, showVars, relicVars, answers>>

AskAgain_Never ==                  (* mutant: only the first answer is asked for *)
    FALSE /\ UNCHANGED vars

AskAgain ==
    /\ streaming /\ isLive
    /\ Send(Word("sim"))
    /\ UNCHANGED <<copyVars, showVars, relicVars, answers>>

(* A line of the relic: who it is (or that it is no relic the desk knows), *)
(* or a `sim` answer.                                                      *)
DrainHello(known) ==
    /\ setProfile(known)
    /\ UNCHANGED <<showVars, relicVars, cable, answers>>

DrainSim ==
    /\ answers # <<>>
    /\ applySim(Head(answers))
    /\ answers' = Tail(answers)
    /\ UNCHANGED <<showVars, relicVars, cable>>

-----------------------------------------------------------------------------
(* The relic: see StateMachine and Obelisk for the whole of it. *)

SwitchTo(active, next) ==
    /\ ActiveState' = active
    /\ NextState' = next

(* `state <look>`: at once for an ambient look under a takeover, else as a *)
(* fade, which retargets the one that runs.                                *)
handleState(l) ==
    IF owned /\ l \in AmbientLooks
      THEN IF l = ActiveState THEN UNCHANGED <<ActiveState, NextState>>
                              ELSE SwitchTo(l, None)
      ELSE IF l \in {ActiveState, NextState} THEN UNCHANGED <<ActiveState, NextState>>
           ELSE \/ SwitchTo(Destination, l)
                \/ SwitchTo(l, None)         \* a cut

RelicReads ==
    /\ cable # <<>>
    /\ cable' = Tail(cable)
    /\ LET frame == Head(cable)
       IN  \/ /\ frame.kind = "state"
              /\ handleState(frame.look)
              /\ UNCHANGED <<owned, answers>>
           \/ /\ frame.kind = "sim"
              /\ Len(answers) < MaxAnswers
              /\ answers' = Append(answers, ActiveState)
              /\ UNCHANGED relicVars
           \/ /\ frame.kind \in {"pixels", "release"}
              /\ owned' = (frame.kind = "pixels")
              /\ UNCHANGED <<ActiveState, NextState, answers>>
    /\ UNCHANGED <<copyVars, showVars>>

(* The holdover: no frame has come for half a second. *)
Lapse ==
    /\ owned /\ ~Flying
    /\ owned' = FALSE
    /\ UNCHANGED <<copyVars, showVars, ActiveState, NextState, cable, answers>>

(* Nothing ticks the machine while the desk has the pixels. *)
RelicLands ==
    /\ ~owned /\ NextState # None
    /\ SwitchTo(NextState, None)
    /\ UNCHANGED <<copyVars, showVars, owned, cable, answers>>

Program ==
    \/ BlendLands \/ Take \/ SendFrame \/ AskAgain \/ DrainSim
    \/ RelicReads \/ Lapse \/ RelicLands

Next == Operator \/ Program \/ \E known \in BOOLEAN : DrainHello(known)

Spec == Init /\ [][Next]_vars

(* Both loops run as long as the program does; the operator owes nothing.  *)
(* An AskAgain whose write is lost changes nothing and is no step: what is *)
(* asked of the cable is that it does not lose every question for ever.    *)
FairSpec ==
    /\ Spec
    /\ WF_vars(BlendLands) /\ WF_vars(Take) /\ WF_vars(AskAgain)
    /\ WF_vars(DrainSim) /\ WF_vars(RelicReads) /\ WF_vars(RelicLands)

-----------------------------------------------------------------------------
(* relic_shadow.h:112, main.cpp:880: a base change that started with the   *)
(* copy in step and nothing under way, and whose cue the relic gets, blends *)
(* undisturbed: whatever else is lost and whatever answers come while it   *)
(* runs, of before or after the relic took the cue, none of them takes the *)
(* copy off its way to the new look.                                       *)
BlendKept ==
    [][DrainSim /\ isBlending /\ inStep => UNCHANGED <<lookName, isBlending>>]_vars

(* relic_shadow.h:72: the desk asks again every few seconds. Once the      *)
(* operator is quiet and the show streams, a live copy ends on the look    *)
(* the relic has, whatever was lost before, a cue the copy blended for     *)
(* among it, and however cues and answers crossed.                         *)
Converges ==
    (<>[][Program]_vars /\ <>[]streaming) => <>[](isLive => lookName = ActiveState)
=============================================================================
