-------------------------- MODULE RelicShadowProofs --------------------------
(***************************************************************************)
(* What is proved of RelicShadow for any looks and any length of the cable *)
(* and of the answers under way: the copy is well formed, and a blend that *)
(* started in step is not disturbed by any answer.                         *)
(***************************************************************************)
EXTENDS RelicShadow, TLAPS

LEMMA Constants == /\ None \notin Looks /\ blobs \in AmbientLooks
                   /\ AmbientLooks \subseteq Looks
                   /\ MaxCable \in Nat /\ MaxAnswers \in Nat
  BY LooksAssumption, BoundsAssumption DEF Looks

-----------------------------------------------------------------------------
(* The type invariant in three parts: the copy, the two machines, the cable. *)

CopyTypeOK ==
    /\ profile \in BOOLEAN
    /\ lookName \in AmbientLooks \cup {None}
    /\ outgoingName \in AmbientLooks \cup {None}
    /\ isBlending \in BOOLEAN
    /\ isBlending => lookName # None /\ outgoingName \notin {None, lookName}
    /\ lookName # None => profile
    /\ inStep \in BOOLEAN

RelicTypeOK ==
    /\ ActiveState \in Looks
    /\ NextState \in Looks \cup {None}
    /\ owned \in BOOLEAN
    /\ streaming \in BOOLEAN /\ takePending \in BOOLEAN

CableTypeOK ==
    /\ cable \in Seq(Frame) /\ Len(cable) <= MaxCable
    /\ answers \in Seq(Looks) /\ Len(answers) <= MaxAnswers

LEMMA TypeSplits == /\ TypeOK <=> CopyTypeOK /\ RelicTypeOK /\ CableTypeOK
                    /\ TypeOK' <=> CopyTypeOK' /\ RelicTypeOK' /\ CableTypeOK'
  BY DEF TypeOK, CopyTypeOK, RelicTypeOK, CableTypeOK

LEMMA FramesAreFrames ==
  /\ \A l \in Looks : Cue(l) \in Frame /\ Cue(l).kind = "state" /\ Cue(l).look = l
  /\ \A k \in {"sim", "pixels", "release"} : Word(k) \in Frame /\ Word(k).kind = k
  BY DEF Cue, Word, Frame

LEMMA FrameFields ==
  ASSUME NEW f \in Frame
  PROVE  /\ f.kind \in {"state", "sim", "pixels", "release"}
         /\ f.kind = "state" => f.look \in Looks
  BY Constants DEF Frame

-----------------------------------------------------------------------------
(* The operations of the copy. *)

LEMMA ClearKeeps ==
  ASSUME CopyTypeOK, clear, profile' \in BOOLEAN
  PROVE  CopyTypeOK' /\ ~isBlending'
  BY Constants DEF CopyTypeOK, clear

LEMMA SpawnKeeps ==
  ASSUME CopyTypeOK, NEW l \in Looks, spawn(l), profile' = profile
  PROVE  CopyTypeOK' /\ ~isBlending'
  BY Constants DEF CopyTypeOK, clear, spawn, Looks

LEMMA SetProfileKeeps ==
  ASSUME CopyTypeOK, NEW known \in BOOLEAN, setProfile(known)
  PROVE  CopyTypeOK'
<1>1. CASE known # profile
  BY <1>1, ClearKeeps DEF setProfile
<1>2. CASE known = profile
  BY <1>2 DEF setProfile, UnchangedCopy, CopyTypeOK
<1> QED BY <1>1, <1>2

LEMMA ApplySimKeeps ==
  ASSUME CopyTypeOK, NEW l \in Looks, applySim(l)
  PROVE  CopyTypeOK'
<1>1. CASE UnchangedCopy
  BY <1>1 DEF applySim, UnchangedCopy, CopyTypeOK
<1>2. CASE spawn(l)
  BY <1>2, SpawnKeeps DEF applySim
<1> QED BY <1>1, <1>2 DEF applySim

LEMMA BlendToKeeps ==
  ASSUME CopyTypeOK, NEW l \in Looks, NEW known \in BOOLEAN, NEW instant \in BOOLEAN,
         NEW sent \in BOOLEAN, blendTo(l, known, instant, sent)
  PROVE  CopyTypeOK'
<1>1. CASE ~isLive
  BY <1>1, SpawnKeeps DEF blendTo
<1>2. CASE isLive /\ (l = lookName \/ l \notin AmbientLooks \/ ~known)
  BY <1>2 DEF blendTo, CopyTypeOK
<1>3. CASE isLive /\ l # lookName /\ l \in AmbientLooks /\ known
  <2>1. /\ outgoingName' = lookName /\ lookName' = l /\ isBlending' = ~instant
        /\ inStep' = (sent /\ cable = <<>> /\ answers = <<>> /\ lookName = Destination)
        /\ profile' = profile
    BY <1>3 DEF blendTo
  <2>2. inStep' \in BOOLEAN /\ isBlending' \in BOOLEAN
    BY <2>1
  <2> QED BY <1>3, <2>1, <2>2, Constants DEF CopyTypeOK, isLive
<1> QED BY <1>1, <1>2, <1>3 DEF isLive

-----------------------------------------------------------------------------
(* The cable and the relic. *)

LEMMA PutKeeps ==
  ASSUME CableTypeOK, NEW frames \in Seq(Frame), Put(frames), UNCHANGED answers
  PROVE  CableTypeOK'
  BY Constants DEF CableTypeOK, Put

(* What a write leaves of a frame: the frame, or nothing. *)
LEMMA WrittenFrames ==
  ASSUME NEW f \in Frame, NEW frames \in Written(f)
  PROVE  /\ frames \in Seq(Frame)
         /\ frames = <<>> \/ frames = <<f>>
<1>1. frames = <<>> \/ frames = <<f>>
  BY DEF Written
<1>2. <<>> \in Seq(Frame) /\ <<f>> \in Seq(Frame)
  OBVIOUS
<1> QED BY <1>1, <1>2

LEMMA RelicReadsKeeps ==
  ASSUME RelicTypeOK, CableTypeOK, RelicReads
  PROVE  RelicTypeOK' /\ CableTypeOK'
<1> DEFINE frame == Head(cable)
<1>1. frame \in Frame /\ cable' \in Seq(Frame) /\ Len(cable') <= MaxCable
  BY Constants DEF RelicReads, CableTypeOK
<1>2. frame.kind = "state" => frame.look \in Looks
  BY <1>1, FrameFields
<1>3. CASE frame.kind = "state" /\ handleState(frame.look) /\ UNCHANGED <<owned, answers>>
  <2>1. RelicTypeOK'
    BY <1>2, <1>3, Constants DEF RelicReads, RelicTypeOK, handleState, SwitchTo, Destination, showVars
  <2> QED BY <1>1, <1>3, <2>1 DEF CableTypeOK
<1>4. CASE frame.kind = "sim" /\ Len(answers) < MaxAnswers
           /\ answers' = Append(answers, ActiveState) /\ UNCHANGED relicVars
  <2>1. answers' \in Seq(Looks) /\ Len(answers') <= MaxAnswers
    BY <1>4, Constants DEF CableTypeOK, RelicTypeOK
  <2> QED BY <1>1, <1>4, <2>1 DEF RelicReads, CableTypeOK, RelicTypeOK, relicVars, showVars
<1>5. CASE frame.kind \in {"pixels", "release"} /\ owned' = (frame.kind = "pixels")
           /\ UNCHANGED <<ActiveState, NextState, answers>>
  BY <1>1, <1>5 DEF RelicReads, CableTypeOK, RelicTypeOK, showVars
<1> QED BY <1>3, <1>4, <1>5 DEF RelicReads

LEMMA InitTypes == Init => TypeOK
<1> SUFFICES ASSUME Init PROVE CopyTypeOK /\ RelicTypeOK /\ CableTypeOK
  BY TypeSplits
<1>1. CopyTypeOK /\ RelicTypeOK
  BY Constants DEF Init, CopyTypeOK, RelicTypeOK
<1>2. cable \in Seq(Frame) /\ Len(cable) = 0 /\ answers \in Seq(Looks) /\ Len(answers) = 0
  BY DEF Init
<1> QED BY <1>1, <1>2, Constants DEF CableTypeOK

-----------------------------------------------------------------------------
(* Each step, and type correctness. *)

LEMMA BaseKeeps ==
  ASSUME TypeOK, NEW l \in Looks, NEW known \in BOOLEAN, NEW instant \in BOOLEAN,
         Base(l, known, instant)
  PROVE  TypeOK'
<1>4. PICK cue \in Written(Cue(l)), sim \in Written(Word("sim")) :
        /\ Put(cue \o sim)
        /\ IF profile THEN blendTo(l, known, instant, cue # <<>>) ELSE UNCHANGED copyVars
  BY DEF Base
<1>5. cue \in Seq(Frame) /\ sim \in Seq(Frame)
  BY FramesAreFrames, WrittenFrames
<1>1. CopyTypeOK'
  <2>1. CASE profile
    <3>1. (cue # <<>>) \in BOOLEAN /\ blendTo(l, known, instant, cue # <<>>)
      BY <1>4, <2>1
    <3> QED BY <3>1, BlendToKeeps, TypeSplits
  <2>2. CASE ~profile
    BY <1>4, <2>2, TypeSplits DEF copyVars, CopyTypeOK
  <2> QED BY <2>1, <2>2
<1>2. cue \o sim \in Seq(Frame)
  BY <1>5
<1>3. CableTypeOK'
  BY <1>2, <1>4, PutKeeps, TypeSplits DEF Base
<1> QED BY <1>1, <1>3, TypeSplits DEF Base, RelicTypeOK, relicVars, showVars

LEMMA HalfBaseKeeps ==
  ASSUME TypeOK, NEW l \in Looks, BaseFailsHalfWay(l)
  PROVE  TypeOK'
<1>4. PICK cue \in Written(Cue(l)) : Put(cue) /\ inStep' = (inStep /\ cue = <<>>)
  BY DEF BaseFailsHalfWay
<1>1. CopyTypeOK'
  <2>1. inStep' \in BOOLEAN
    BY <1>4
  <2> QED BY <2>1, TypeSplits DEF BaseFailsHalfWay, CopyTypeOK
<1>2. cue \in Seq(Frame)
  BY FramesAreFrames, WrittenFrames
<1>3. CableTypeOK'
  BY <1>2, <1>4, PutKeeps, TypeSplits DEF BaseFailsHalfWay
<1> QED BY <1>1, <1>3, TypeSplits DEF BaseFailsHalfWay, RelicTypeOK, relicVars, showVars

LEMMA OneWord ==
  ASSUME TypeOK, NEW k \in {"sim", "pixels", "release"}, Send(Word(k)),
         UNCHANGED <<copyVars, relicVars, answers>>,
         streaming' \in BOOLEAN, takePending' \in BOOLEAN
  PROVE  TypeOK'
<1>1. PICK frames \in Written(Word(k)) : Put(frames)
  BY DEF Send
<1>4. frames \in Seq(Frame)
  BY FramesAreFrames, WrittenFrames
<1>2. CableTypeOK'
  BY <1>1, <1>4, PutKeeps, TypeSplits
<1>3. CopyTypeOK' /\ RelicTypeOK'
  BY TypeSplits DEF copyVars, relicVars, CopyTypeOK, RelicTypeOK
<1> QED BY <1>2, <1>3, TypeSplits

LEMMA StepKeepsTypes == TypeOK /\ [Next]_vars => TypeOK'
<1> SUFFICES ASSUME TypeOK, [Next]_vars PROVE TypeOK'
  OBVIOUS
<1>1. ASSUME NEW l \in Looks, NEW known \in BOOLEAN, NEW instant \in BOOLEAN,
             Base(l, known, instant)
      PROVE  TypeOK'
  BY <1>1, BaseKeeps
<1>2. ASSUME NEW l \in Looks, BaseFailsHalfWay(l) \/ LinkCmd(l) PROVE TypeOK'
  BY <1>2, HalfBaseKeeps DEF LinkCmd
<1>3. CASE LinkSim \/ LinkTake \/ LinkRelease \/ SendFrame \/ AskAgain
  <2>1. streaming \in BOOLEAN /\ takePending \in BOOLEAN
    BY DEF TypeOK
  <2>2. /\ streaming' \in BOOLEAN /\ takePending' \in BOOLEAN
        /\ UNCHANGED <<copyVars, relicVars, answers>>
    BY <1>3, <2>1 DEF LinkSim, LinkTake, LinkRelease, SendFrame, AskAgain, showVars
  <2>3. \E k \in {"sim", "pixels", "release"} : Send(Word(k))
    BY <1>3 DEF LinkSim, LinkTake, LinkRelease, SendFrame, AskAgain
  <2> QED BY <2>2, <2>3, OneWord
<1>4. CASE BlendLands
  BY <1>4 DEF BlendLands, TypeOK, showVars, relicVars
<1>5. ASSUME NEW known \in BOOLEAN, DrainHello(known) PROVE TypeOK'
  BY <1>5, SetProfileKeeps, TypeSplits DEF DrainHello, RelicTypeOK, CableTypeOK, relicVars, showVars
<1>6. CASE DrainSim
  <2>1. Head(answers) \in Looks /\ answers' \in Seq(Looks) /\ Len(answers') <= MaxAnswers
    BY <1>6, Constants DEF DrainSim, TypeOK
  <2>2. CopyTypeOK'
    BY <1>6, <2>1, ApplySimKeeps, TypeSplits DEF DrainSim
  <2> QED BY <1>6, <2>1, <2>2, TypeSplits DEF DrainSim, RelicTypeOK, CableTypeOK, relicVars, showVars
<1>7. CASE RelicReads
  BY <1>7, RelicReadsKeeps, TypeSplits DEF RelicReads, CopyTypeOK, copyVars
<1>8. CASE RelicLands
  BY <1>8 DEF RelicLands, SwitchTo, TypeOK, copyVars, showVars
<1>9. CASE UNCHANGED vars
  BY <1>9 DEF vars, copyVars, showVars, relicVars, TypeOK
<1>10. CASE Take \/ Lapse
  <2>1. RelicTypeOK'
    <3>1. CASE Take
      BY <3>1, TypeSplits DEF Take, relicVars, RelicTypeOK
    <3>2. CASE Lapse
      BY <3>2, TypeSplits DEF Lapse, showVars, RelicTypeOK
    <3> QED BY <1>10, <3>1, <3>2
  <2>2. UNCHANGED <<copyVars, cable, answers>>
    BY <1>10 DEF Take, Lapse
  <2>3. CopyTypeOK' /\ CableTypeOK'
    BY <2>2, TypeSplits DEF copyVars, CopyTypeOK, CableTypeOK
  <2> QED BY <2>1, <2>3, TypeSplits
<1> QED BY <1>1, <1>2, <1>3, <1>4, <1>5, <1>6, <1>7, <1>8, <1>9, <1>10
    DEF Next, Operator, Program

(* The copy blends only from one look to another, and has a look only of a *)
(* relic it knows; neither end overruns what is under way                  *)
(* (relic_shadow.cpp).                                                     *)
THEOREM TypeCorrect == Spec => []TypeOK
  BY InitTypes, StepKeepsTypes, PTL DEF Spec

-----------------------------------------------------------------------------
(* The blend that started in step. While it runs no cue but its own is     *)
(* under way, and the relic, if its cue has come, is between the look left *)
(* and the look named: so every answer names one of the two.               *)

Between == {outgoingName, lookName}

OwnCue == \A i \in 1..Len(cable) : cable[i].kind = "state" => cable[i].look = lookName

CueTaken == ActiveState \in Between /\ NextState \in Between \cup {None}

CueComes == /\ cable # <<>> /\ Head(cable).kind = "state"
            /\ Destination = outgoingName
            /\ answers = <<>>

InStep ==
    isBlending /\ inStep =>
        /\ OwnCue
        /\ \A i \in 1..Len(answers) : answers[i] \in Between
        /\ CueTaken \/ CueComes

(* No running blend in step, nothing to show. *)
LEMMA OutOfStep == ~isBlending' \/ ~inStep' => InStep'
  BY DEF InStep

(* A frame that is no cue of another look goes out; the rest stays. *)
LEMMA PutInStep ==
  ASSUME TypeOK, InStep, NEW frames \in Seq(Frame), Put(frames),
         UNCHANGED <<lookName, outgoingName, isBlending, answers, ActiveState, NextState>>,
         inStep' => inStep,
         \A i \in 1..Len(frames) : frames[i].kind = "state" => frames[i].look = lookName
  PROVE  InStep'
<1> SUFFICES ASSUME isBlending, inStep PROVE InStep'
  BY OutOfStep
<1>1. cable \in Seq(Frame) /\ cable' = cable \o frames
  BY DEF TypeOK, Put
<1>2. OwnCue /\ (CueTaken \/ CueComes) /\ \A i \in 1..Len(answers) : answers[i] \in Between
  BY DEF InStep
<1>3. OwnCue'
  BY <1>1, <1>2 DEF OwnCue
<1>4. ASSUME CueComes PROVE CueComes'
  <2>1. cable' # <<>> /\ Head(cable') = Head(cable)
    BY <1>1, <1>4 DEF CueComes
  <2> QED BY <1>4, <2>1 DEF CueComes, Destination
<1>5. ASSUME CueTaken PROVE CueTaken'
  BY <1>5 DEF CueTaken, Between
<1> QED BY <1>2, <1>3, <1>4, <1>5 DEF InStep, Between

(* A base change begins the blend, or names the look it goes to already. *)
LEMMA BaseInStep ==
  ASSUME TypeOK, InStep, NEW l \in Looks, NEW known \in BOOLEAN, NEW instant \in BOOLEAN,
         Base(l, known, instant)
  PROVE  InStep'
<1>7. PICK cue \in Written(Cue(l)), sim \in Written(Word("sim")) :
        /\ Put(cue \o sim)
        /\ IF profile THEN blendTo(l, known, instant, cue # <<>>) ELSE UNCHANGED copyVars
  BY DEF Base
<1> DEFINE frames == cue \o sim
<1>1. /\ frames \in Seq(Frame)
      /\ \A i \in 1..Len(frames) : frames[i].kind = "state" => cue # <<>> /\ frames[i].look = l
      /\ cue # <<>> => frames # <<>> /\ Head(frames).kind = "state"
  <2>1. /\ cue = <<>> \/ cue = <<Cue(l)>>
        /\ sim = <<>> \/ sim = <<Word("sim")>>
    BY FramesAreFrames, WrittenFrames
  <2>2. /\ Cue(l) \in Frame /\ Cue(l).kind = "state" /\ Cue(l).look = l
        /\ Word("sim") \in Frame /\ Word("sim").kind = "sim"
    BY FramesAreFrames
  <2>3. CASE cue = <<>>
    <3>1. CASE sim = <<>>
      <4>1. frames \in Seq(Frame) /\ Len(frames) = 0
        BY <2>3, <3>1
      <4> QED BY <2>3, <4>1
    <3>2. CASE sim = <<Word("sim")>>
      <4>1. frames \in Seq(Frame) /\ Len(frames) = 1 /\ frames[1] = Word("sim")
        BY <2>2, <2>3, <3>2
      <4>2. \A i \in 1..Len(frames) : frames[i].kind # "state"
        BY <2>2, <4>1
      <4> QED BY <2>3, <4>1, <4>2
    <3> QED BY <2>1, <3>1, <3>2
  <2>4. CASE cue = <<Cue(l)>> /\ sim = <<>>
    BY <2>2, <2>4
  <2>5. CASE cue = <<Cue(l)>> /\ sim = <<Word("sim")>>
    BY <2>2, <2>5
  <2> QED BY <2>1, <2>3, <2>4, <2>5
<1>2. Put(frames) /\ UNCHANGED <<answers, ActiveState, NextState>>
  BY <1>7 DEF Base, relicVars
<1> HIDE DEF frames
<1>3. CASE ~profile
  <2>1. ~isBlending /\ UNCHANGED isBlending
    BY <1>3, <1>7 DEF copyVars, TypeOK
  <2> QED BY <2>1, OutOfStep
<1>4. CASE profile /\ ~isLive
  <2>1. ~inStep'
    BY <1>4, <1>7 DEF blendTo, spawn, clear
  <2> QED BY <2>1, OutOfStep
<1>5. CASE profile /\ isLive /\ (l = lookName \/ l \notin AmbientLooks \/ ~known)
  <2>1. /\ inStep' = (inStep /\ (l = lookName \/ cue = <<>>))
        /\ UNCHANGED <<lookName, outgoingName, isBlending>>
    BY <1>5, <1>7 DEF blendTo
  <2>2. CASE l = lookName \/ cue = <<>>
    <3>1. \A i \in 1..Len(frames) : frames[i].kind = "state" => frames[i].look = lookName
      BY <1>1, <2>2
    <3> QED BY <1>1, <1>2, <2>1, <3>1, PutInStep
  <2>3. CASE l # lookName /\ cue # <<>>
    BY <2>1, <2>3, OutOfStep
  <2> QED BY <2>2, <2>3
<1>6. CASE profile /\ isLive /\ l # lookName /\ l \in AmbientLooks /\ known
  <2> DEFINE step == cue # <<>> /\ cable = <<>> /\ answers = <<>> /\ lookName = Destination
  <2>1. outgoingName' = lookName /\ lookName' = l /\ inStep' = step
    BY <1>6, <1>7 DEF blendTo
  <2>2. CASE step
    <3>1. cable' = frames
      BY <1>1, <1>2, <2>2 DEF Put
    <3>2. OwnCue'
      BY <1>1, <2>1, <3>1 DEF OwnCue
    <3>3. CueComes'
      <4>1. cable' # <<>> /\ Head(cable').kind = "state"
        BY <1>1, <2>2, <3>1
      <4> QED BY <1>2, <2>1, <2>2, <4>1 DEF CueComes, Destination
    <3>4. Len(answers') = 0
      BY <1>2, <2>2
    <3> QED BY <3>2, <3>3, <3>4 DEF InStep
  <2>3. CASE ~step
    BY <2>1, <2>3, OutOfStep
  <2> QED BY <2>2, <2>3
<1> QED BY <1>3, <1>4, <1>5, <1>6 DEF isLive

(* In step, an answer changes nothing of the copy. *)
LEMMA AnswerInStep ==
  ASSUME TypeOK, InStep, DrainSim, isBlending, inStep
  PROVE  UNCHANGED <<lookName, outgoingName, isBlending, inStep>>
<1>1. Head(answers) \in Between
  BY DEF DrainSim, InStep, TypeOK
<1> QED BY <1>1 DEF DrainSim, applySim, UnchangedCopy, Between

LEMMA DrainInStep ==
  ASSUME TypeOK, InStep, DrainSim
  PROVE  InStep'
<1>1. CASE isBlending /\ inStep
  <2>1. UNCHANGED <<lookName, outgoingName, isBlending, inStep>>
    BY <1>1, AnswerInStep
  <2>2. UNCHANGED <<cable, ActiveState, NextState>> /\ answers # <<>> /\ answers' = Tail(answers)
    BY DEF DrainSim, relicVars
  <2>3. \A i \in 1..Len(answers) : answers[i] \in Between
    BY <1>1 DEF InStep
  <2>4. \A i \in 1..Len(answers') : answers'[i] \in Between'
    BY <2>1, <2>2, <2>3 DEF TypeOK, Between
  <2>5. OwnCue' /\ CueTaken'
    BY <1>1, <2>1, <2>2 DEF InStep, OwnCue, CueTaken, CueComes, Between
  <2> QED BY <2>4, <2>5 DEF InStep
<1>2. CASE ~(isBlending /\ inStep)
  <2>1. ~isBlending' \/ ~inStep'
    BY <1>2 DEF DrainSim, applySim, UnchangedCopy, spawn, clear
  <2> QED BY <2>1, OutOfStep
<1> QED BY <1>1, <1>2

(* The relic takes the cue of the blend from wherever it was. *)
LEMMA CueInStep ==
  ASSUME TypeOK, OwnCue, CueTaken \/ CueComes, isBlending, cable # <<>>,
         Head(cable).kind = "state", handleState(Head(cable).look),
         UNCHANGED <<lookName, outgoingName>>
  PROVE  CueTaken'
<1>1. Head(cable).look = lookName
  BY DEF TypeOK, OwnCue
<1>2. lookName \in AmbientLooks /\ outgoingName \in AmbientLooks /\ lookName # outgoingName
  BY DEF TypeOK
<1>3. CASE CueTaken
  BY <1>1, <1>2, <1>3 DEF CueTaken, Between, handleState, SwitchTo, Destination
<1>4. CASE CueComes
  <2>1. ActiveState = lookName => NextState = outgoingName
    BY <1>2, <1>4 DEF CueComes, Destination
  <2>2. NextState # lookName
    BY <1>2, <1>4, Constants DEF CueComes, Destination
  <2> QED BY <1>1, <1>2, <1>4, <2>1, <2>2, Constants
          DEF CueTaken, CueComes, Between, handleState, SwitchTo, Destination
<1> QED BY <1>3, <1>4

LEMMA ReadsInStep ==
  ASSUME TypeOK, InStep, RelicReads
  PROVE  InStep'
<1> SUFFICES ASSUME isBlending, inStep PROVE InStep'
  BY OutOfStep DEF RelicReads, copyVars
<1>1. UNCHANGED <<lookName, outgoingName>> /\ cable # <<>> /\ cable' = Tail(cable)
  BY DEF RelicReads, copyVars
<1>2. OwnCue /\ (CueTaken \/ CueComes) /\ \A i \in 1..Len(answers) : answers[i] \in Between
  BY DEF InStep
<1>3. OwnCue'
  BY <1>1, <1>2 DEF OwnCue, TypeOK
<1>4. CASE Head(cable).kind = "state"
  <2>1. handleState(Head(cable).look) /\ UNCHANGED answers
    BY <1>4 DEF RelicReads
  <2>2. CueTaken'
    BY <1>1, <1>2, <1>4, <2>1, CueInStep
  <2> QED BY <1>1, <1>2, <1>3, <2>1, <2>2 DEF InStep, Between
<1>5. CASE Head(cable).kind # "state"
  <2>1. CueTaken /\ UNCHANGED <<ActiveState, NextState>>
    BY <1>2, <1>5 DEF RelicReads, CueComes, relicVars
  <2>2. answers' = answers \/ answers' = Append(answers, ActiveState)
    BY <1>5 DEF RelicReads
  <2>3. \A i \in 1..Len(answers') : answers'[i] \in Between'
    BY <1>1, <1>2, <2>1, <2>2 DEF TypeOK, CueTaken, Between
  <2>4. CueTaken'
    BY <1>1, <2>1 DEF CueTaken, Between
  <2> QED BY <1>3, <2>3, <2>4 DEF InStep
<1> QED BY <1>4, <1>5

LEMMA LandsInStep ==
  ASSUME TypeOK, InStep, RelicLands
  PROVE  InStep'
  BY DEF RelicLands, SwitchTo, InStep, OwnCue, CueTaken, CueComes, Between, Destination, copyVars

LEMMA StepKeepsInStep == TypeOK /\ InStep /\ [Next]_vars => InStep'
<1> SUFFICES ASSUME TypeOK, InStep, [Next]_vars PROVE InStep'
  OBVIOUS
<1>1. ASSUME NEW l \in Looks, NEW known \in BOOLEAN, NEW instant \in BOOLEAN,
             Base(l, known, instant)
      PROVE  InStep'
  BY <1>1, BaseInStep
<1>2. ASSUME NEW l \in Looks, BaseFailsHalfWay(l) \/ LinkCmd(l) PROVE InStep'
  <2>1. PICK cue \in Written(Cue(l)) : Put(cue) /\ inStep' = (inStep /\ cue = <<>>)
    BY <1>2 DEF LinkCmd, BaseFailsHalfWay
  <2>2. UNCHANGED <<lookName, outgoingName, isBlending, answers, ActiveState, NextState>>
    BY <1>2 DEF LinkCmd, BaseFailsHalfWay, relicVars
  <2>3. CASE cue = <<>>
    <3>1. cue \in Seq(Frame) /\ Len(cue) = 0
      BY <2>3
    <3>2. \A i \in 1..Len(cue) : cue[i].kind = "state" => cue[i].look = lookName
      BY <3>1
    <3>3. Put(cue) /\ (inStep' => inStep)
      BY <2>1
    <3> QED BY <2>2, <3>1, <3>2, <3>3, PutInStep
  <2>4. CASE cue # <<>>
    BY <2>1, <2>4, OutOfStep
  <2> QED BY <2>3, <2>4
<1>3. CASE LinkSim \/ LinkTake \/ LinkRelease \/ SendFrame \/ AskAgain
  <2>1. UNCHANGED <<copyVars, relicVars, answers>>
    BY <1>3 DEF LinkSim, LinkTake, LinkRelease, SendFrame, AskAgain
  <2>2. PICK k \in {"sim", "pixels", "release"} : Send(Word(k))
    BY <1>3 DEF LinkSim, LinkTake, LinkRelease, SendFrame, AskAgain
  <2>3. Word(k) \in Frame /\ Word(k).kind # "state"
    BY FramesAreFrames
  <2>4. PICK frames \in Written(Word(k)) : Put(frames)
    BY <2>2 DEF Send
  <2>5. frames \in Seq(Frame) /\ \A i \in 1..Len(frames) : frames[i].kind # "state"
    BY <2>3, WrittenFrames
  <2> QED BY <2>1, <2>4, <2>5, PutInStep DEF copyVars, relicVars
<1>4. CASE BlendLands
  BY <1>4, OutOfStep DEF BlendLands
<1>5. ASSUME NEW known \in BOOLEAN, DrainHello(known) PROVE InStep'
  <2>1. CASE known # profile
    BY <1>5, <2>1, OutOfStep DEF DrainHello, setProfile, clear
  <2>2. CASE known = profile
    BY <1>5, <2>2 DEF DrainHello, setProfile, UnchangedCopy, relicVars, InStep, OwnCue,
                      CueTaken, CueComes, Between, Destination
  <2> QED BY <2>1, <2>2
<1>6. CASE DrainSim
  BY <1>6, DrainInStep
<1>7. CASE RelicReads
  BY <1>7, ReadsInStep
<1>8. CASE RelicLands
  BY <1>8, LandsInStep
<1>9. CASE UNCHANGED vars
  BY <1>9 DEF vars, copyVars, relicVars, InStep, OwnCue, CueTaken, CueComes, Between, Destination
<1>10. CASE Take \/ Lapse
  BY <1>10 DEF Take, Lapse, copyVars, relicVars,
               InStep, OwnCue, CueTaken, CueComes, Between, Destination
<1> QED BY <1>1, <1>2, <1>3, <1>4, <1>5, <1>6, <1>7, <1>8, <1>9, <1>10
    DEF Next, Operator, Program

LEMMA InitInStep == Init => InStep
  BY DEF Init, InStep

(* relic_shadow.h:112: no answer, of before or after the relic took the    *)
(* cue, takes a copy that was in step off its way to the new look, whatever *)
(* of the other frames is lost: of the writes of the desk only the cue must *)
(* come through.                                                           *)
THEOREM BlendKeptHolds == Spec => BlendKept
<1>1. Init => TypeOK /\ InStep
  BY InitTypes, InitInStep
<1>2. TypeOK /\ InStep /\ [Next]_vars => (TypeOK /\ InStep)'
  BY StepKeepsTypes, StepKeepsInStep
<1>3. TypeOK /\ InStep /\ [Next]_vars
        => [DrainSim /\ isBlending /\ inStep => UNCHANGED <<lookName, isBlending>>]_vars
  BY AnswerInStep
<1> QED BY <1>1, <1>2, <1>3, PTL DEF Spec, BlendKept
=============================================================================
