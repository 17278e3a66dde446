--------------------------- MODULE DeskLinkProofs ---------------------------
(***************************************************************************)
(* DeskLink for any number of devices, size of cable, limit of failures    *)
(* and wait: type correctness, that the link is a Handover, and that only  *)
(* a hopeless stream ends a show.                                          *)
(***************************************************************************)
EXTENDS DeskLink, SequenceTheorems, TLAPS

Good(l) ==
    /\ l \in Outputs
    /\ Len(l.cable) <= Room + 1
    /\ l.live \/ l.port = "closed"

(* While a cable has no room every write fails, so its count of failures is *)
(* of writes that all found the cable full.                                *)
Honest(l) == l.port = "open" /\ ~HasRoom(l) => l.failures <= l.stuck

(* m is l after a write that puts no picture on the cable, or one picture   *)
(* from a desk that streams.                                               *)
Calm(l, m) ==
    Good(m) /\ m.live = l.live /\ (Flying(m) => Flying(l)) /\ (Honest(l) => Honest(m))
Follows(l, m) ==
    Good(m) /\ (Flying(m) => Flying(l) \/ isStreaming(l)) /\ (Honest(l) => Honest(m))

(* A write changes the cable and the two counts.                            *)
Written(l, cable, failures, stuck) ==
    [l EXCEPT !.cable = cable, !.failures = failures, !.stuck = stuck]

Writes(l, m, cable, failures, stuck) ==
    /\ m \in Outputs
    /\ m.cable = cable /\ m.failures = failures /\ m.stuck = stuck
    /\ m.live = l.live /\ m.mode = l.mode /\ m.streaming = l.streaming
    /\ m.port = l.port

LEMMA WriteFields ==
  ASSUME NEW l \in Outputs, NEW cable \in Seq(Frames \cup {"torn"}),
         NEW failures \in 0..MAX_CONSECUTIVE_FAILURES,
         NEW stuck \in 0..MAX_CONSECUTIVE_FAILURES
  PROVE  Writes(l, Written(l, cable, failures, stuck), cable, failures, stuck)
BY DEF Writes, Written, Outputs

(* sendRaw keeps an output well formed, and only a pixel frame makes one fly. *)
LEMMA SendRawKeeps ==
  ASSUME NEW l, Good(l), NEW frame \in Frames, NEW torn \in BOOLEAN
  PROVE  LET m == sendRaw(l, frame, torn)
         IN  /\ Good(m)
             /\ m.live = l.live /\ m.mode = l.mode /\ m.streaming = l.streaming
             /\ m.port = l.port
             /\ Flying(m) => Flying(l) \/ frame = "pixels"
             /\ Honest(l) => Honest(m)
<1> DEFINE m == sendRaw(l, frame, torn)
<1>1. /\ l \in Outputs /\ Room \in Nat /\ MAX_CONSECUTIVE_FAILURES \in Nat \ {0}
      /\ l.cable \in Seq(Frames \cup {"torn"}) /\ Len(l.cable) \in Nat
      /\ l.failures \in 0..MAX_CONSECUTIVE_FAILURES
      /\ l.stuck \in 0..MAX_CONSECUTIVE_FAILURES
  BY LimitsAssumption DEF Good, Outputs
<1>2. CASE l.port = "closed"
  BY <1>2 DEF sendRaw
<1>3. CASE l.port # "closed" /\ HasRoom(l)
  <2>1. m = [l EXCEPT !.cable = Append(@, frame), !.failures = 0, !.stuck = 0]
    BY <1>3 DEF sendRaw
  <2>2. /\ Append(l.cable, frame) \in Seq(Frames \cup {"torn"})
        /\ Len(Append(l.cable, frame)) = Len(l.cable) + 1
        /\ \A i \in 1..Len(l.cable) : Append(l.cable, frame)[i] = l.cable[i]
        /\ Append(l.cable, frame)[Len(l.cable) + 1] = frame
    BY <1>1
  <2> DEFINE cable == Append(l.cable, frame)
  <2>6. /\ cable \in Seq(Frames \cup {"torn"})
        /\ m = Written(l, cable, 0, 0)
    BY <2>1, <2>2 DEF Written
  <2>7. 0 \in 0..MAX_CONSECUTIVE_FAILURES
    BY <1>1
  <2> HIDE DEF m, cable
  <2>8. /\ m \in Outputs /\ m.cable = cable /\ m.failures = 0 /\ m.stuck = 0
        /\ m.live = l.live /\ m.mode = l.mode /\ m.streaming = l.streaming /\ m.port = l.port
    <3>1. Writes(l, m, cable, 0, 0)
      BY <1>1, <2>6, <2>7, WriteFields, Zenon
    <3> QED BY <3>1 DEF Writes
  <2> USE DEF cable
  <2>3. /\ m \in Outputs /\ m.cable = Append(l.cable, frame)
        /\ m.failures = 0 /\ m.stuck = 0
        /\ m.live = l.live /\ m.mode = l.mode /\ m.streaming = l.streaming /\ m.port = l.port
    BY <2>8
  <2>4. Len(m.cable) <= Room + 1
    BY <1>1, <1>3, <2>2, <2>3 DEF HasRoom
  <2>5. Flying(m) => Flying(l) \/ frame = "pixels"
    BY <1>1, <2>2, <2>3 DEF Flying
  <2>9. Honest(m)
    BY <2>3 DEF Honest
  <2> QED BY <2>3, <2>4, <2>5, <2>9 DEF Good, m
<1>4. CASE l.port # "closed" /\ ~HasRoom(l)
  <2> DEFINE failures == OneMore(l.failures)
             stuck == OneMore(l.stuck)
             full == torn /\ l.port = "open" /\ Len(l.cable) = Room
             cable == IF full THEN Append(l.cable, "torn") ELSE l.cable
  <2>1. m = Written(l, cable, failures, stuck)
    BY <1>4 DEF sendRaw, Overrun, Written
  <2>2. /\ failures \in 0..MAX_CONSECUTIVE_FAILURES /\ stuck \in 0..MAX_CONSECUTIVE_FAILURES
        /\ l.failures <= l.stuck => failures <= stuck
    BY <1>1 DEF OneMore
  <2>3. /\ cable \in Seq(Frames \cup {"torn"})
        /\ Len(cable) <= Room + 1
        /\ \A i \in 1..Len(cable) : cable[i] = "pixels" => i \in 1..Len(l.cable)
                                                          /\ l.cable[i] = "pixels"
    <3>1. CASE full
      <4>1. /\ cable \in Seq(Frames \cup {"torn"})
            /\ Len(cable) = Len(l.cable) + 1
            /\ \A i \in 1..Len(l.cable) : cable[i] = l.cable[i]
            /\ cable[Len(l.cable) + 1] = "torn"
        BY <1>1, <3>1
      <4> QED BY <1>1, <3>1, <4>1
    <3>2. CASE ~full
      BY <1>1, <3>2 DEF Good
    <3> QED BY <3>1, <3>2
  <2> HIDE DEF m, failures, stuck, cable
  <2>4. /\ m \in Outputs /\ m.cable = cable /\ m.failures = failures /\ m.stuck = stuck
        /\ m.live = l.live /\ m.mode = l.mode /\ m.streaming = l.streaming /\ m.port = l.port
    <3>1. Writes(l, m, cable, failures, stuck)
      BY <1>1, <2>1, <2>2, <2>3, WriteFields, Zenon
    <3> QED BY <3>1 DEF Writes
  <2>5. Flying(m) => Flying(l)
    BY <2>3, <2>4 DEF Flying
  <2>6. Honest(l) => Honest(m)
    BY <1>4, <2>2, <2>4 DEF Honest, HasRoom
  <2> QED BY <2>3, <2>4, <2>5, <2>6 DEF Good, m
<1> QED BY <1>2, <1>3, <1>4

(* Changing the switches of an output, or shutting its port, changes neither *)
(* its cable nor what makes it well formed.                                *)
LEMMA SwitchKeeps ==
  ASSUME NEW l, Good(l), NEW s \in BOOLEAN, NEW k \in {"pixels", "cue"}
  PROVE  /\ Calm(l, [l EXCEPT !.streaming = s])
         /\ Calm(l, [l EXCEPT !.mode = k])
         /\ Calm(l, [l EXCEPT !.port = "closed"])
BY DEF Good, Calm, Outputs, Flying, Honest, HasRoom

LEMMA CalmSend ==
  ASSUME NEW l, Good(l), NEW frame \in Frames \ {"pixels"}, NEW torn \in BOOLEAN
  PROVE  Calm(l, sendRaw(l, frame, torn))
BY SendRawKeeps DEF Calm, Frames

LEMMA CalmTwice ==
  ASSUME NEW l, NEW m, NEW n, Calm(l, m), Calm(m, n)
  PROVE  Calm(l, n)
BY DEF Calm

LEMMA CalmFollows ==
  ASSUME NEW l, NEW m, Calm(l, m)
  PROVE  Follows(l, m)
BY DEF Calm, Follows

(* release puts no picture on the cable. *)
LEMMA ReleaseCalm ==
  ASSUME NEW l, Good(l), NEW torn \in BOOLEAN
  PROVE  Calm(l, release(l, torn))
<1> DEFINE still == [l EXCEPT !.streaming = FALSE]
<1>1. Calm(l, still)
  BY SwitchKeeps
<1>2. Calm(still, sendRaw(still, "release", torn))
  BY <1>1, CalmSend DEF Calm, Frames
<1> QED BY <1>1, <1>2, CalmTwice DEF release

(* rebootToBootloader neither. *)
LEMMA RebootCalm ==
  ASSUME NEW l, Good(l), NEW torn \in BOOLEAN
  PROVE  Calm(l, rebootToBootloader(l, torn))
<1> DEFINE sent == sendRaw(l, "reboot", torn)
<1>1. Calm(l, sent)
  BY CalmSend DEF Frames
<1>2. Calm(sent, [sent EXCEPT !.port = "closed"])
  BY <1>1, SwitchKeeps DEF Calm
<1> QED BY <1>1, <1>2, CalmTwice DEF rebootToBootloader

(* sendFrame puts a picture on the cable only when the desk streams.        *)
LEMMA SendFrameFollows ==
  ASSUME NEW l, Good(l), NEW torn \in BOOLEAN
  PROVE  LET m == sendFrame(l, torn)
         IN  /\ Follows(l, m)
             /\ m.live = l.live /\ m.mode = l.mode /\ m.streaming = l.streaming
<1>1. CASE ~(Sends(l) /\ l.patch)
  BY <1>1 DEF sendFrame, Follows
<1>2. CASE Sends(l) /\ l.patch
  <2>1. sendFrame(l, torn) = sendRaw(l, "pixels", torn) /\ isStreaming(l)
    BY <1>2 DEF sendFrame, Sends, isStreaming
  <2>2. "pixels" \in Frames
    BY DEF Frames
  <2> QED BY <2>1, <2>2, SendRawKeeps DEF Follows
<1> QED BY <1>1, <1>2

(* The end of the show shuts every port and adds at most a dark frame to a  *)
(* stream.                                                                 *)
LEMMA ShutFollows ==
  ASSUME NEW l, Good(l), NEW torn \in BOOLEAN
  PROVE  Follows(l, Shut(l, torn)) /\ Shut(l, torn).port = "closed"
<1>1. CASE ~l.live
  BY <1>1 DEF Shut, Follows, Good
<1>2. CASE l.live
  <2> DEFINE dark == sendFrame(l, torn)
             given2 == release(dark, torn)
             shut == [given2 EXCEPT !.port = "closed"]
  <2>1. Follows(l, dark)
    BY SendFrameFollows
  <2>2. Calm(dark, given2)
    BY <2>1, ReleaseCalm DEF Follows
  <2>3. Calm(given2, shut)
    BY <2>2, SwitchKeeps DEF Calm
  <2>5. Follows(l, shut)
    BY <2>1, <2>2, <2>3 DEF Calm, Follows
  <2>6. given2 \in Outputs
    BY <2>2 DEF Calm, Good
  <2> HIDE DEF given2
  <2>4. shut.port = "closed"
    BY <2>6 DEF Outputs
  <2> USE DEF given2
  <2> QED BY <1>2, <2>4, <2>5 DEF Shut
<1> QED BY <1>1, <1>2

(* A device brought up has its Hello on the cable and nothing else.         *)
LEMMA AttachGood ==
  ASSUME NEW d \in Devices, NEW patch \in BOOLEAN
  PROVE  LET off == Offline(d, patch)
             on == attachWire(d, patch)
         IN  /\ Good(off) /\ ~Flying(off) /\ Honest(off)
             /\ Good(on) /\ ~Flying(on) /\ Honest(on)
<1> DEFINE l == [Offline(d, patch) EXCEPT !.live = TRUE, !.port = "open"]
<1>3. /\ MAX_CONSECUTIVE_FAILURES \in Nat /\ Room \in Nat
      /\ <<>> \in Seq(Frames \cup {"torn"}) /\ Len(<<>>) = 0
      /\ 0 \in 0..MAX_CONSECUTIVE_FAILURES
      /\ (d \notin ReleasedDevices) \in BOOLEAN
  BY LimitsAssumption
<1> DEFINE off == Offline(d, patch)
<1>4. /\ off \in Outputs /\ off.cable = <<>> /\ off.port = "closed"
      /\ off.failures = 0 /\ off.stuck = 0
  BY <1>3 DEF Offline, Outputs
<1> HIDE DEF off, l
<1>5. l \in Outputs /\ l.cable = <<>> /\ l.live /\ l.failures = 0 /\ l.stuck = 0
  BY <1>4 DEF Outputs, off, l
<1>1. /\ Good(off) /\ ~Flying(off) /\ Honest(off)
      /\ Good(l) /\ ~Flying(l) /\ Honest(l)
  BY <1>3, <1>4, <1>5 DEF Good, Flying, Honest
<1>2. Calm(l, sendRaw(l, "hello", FALSE))
  BY <1>1, CalmSend DEF Frames
<1> QED BY <1>1, <1>2 DEF attachWire, Calm, off, l

-----------------------------------------------------------------------------
(* What every step keeps of the outputs.                                    *)
Wired ==
    /\ link' = [d \in Devices |-> link'[d]]
    /\ \A d \in Devices : Follows(link[d], link'[d])

LEMMA AllGood ==
  ASSUME TypeOK
  PROVE  \A d \in Devices : Good(link[d]) /\ Follows(link[d], link[d])
BY DEF TypeOK, Good, Follows

(* A loop over the relics does to each what after says, or nothing.         *)
LEMMA UntilRefusedWires ==
  ASSUME TypeOK, NEW after, NEW refusing, link' = UntilRefused(after, refusing),
         \A d \in Devices : Follows(link[d], after[d])
  PROVE  Wired
<1>1. \A d \in Devices : link'[d] = after[d] \/ link'[d] = link[d]
  BY DEF UntilRefused
<1>2. link' = [d \in Devices |-> link'[d]]
  BY DEF UntilRefused
<1> QED BY <1>1, <1>2, AllGood DEF Wired

(* A step that touches one output.                                          *)
LEMMA OneWires ==
  ASSUME TypeOK, NEW t \in Devices, NEW l, link' = [link EXCEPT ![t] = l],
         Follows(link[t], l)
  PROVE  Wired
<1>1. \A d \in Devices : link'[d] = IF d = t THEN l ELSE link[d]
  BY DEF TypeOK
<1>2. link' = [d \in Devices |-> link'[d]]
  BY DEF TypeOK
<1> QED BY <1>1, <1>2, AllGood DEF Wired

LEMMA SameWires ==
  ASSUME TypeOK, UNCHANGED link
  PROVE  Wired
<1>1. link' = [d \in Devices |-> link'[d]]
  BY DEF TypeOK
<1> QED BY <1>1, AllGood DEF Wired

(* The commands.                                                            *)
LEMMA CommandWires ==
  ASSUME TypeOK, handleCommand
  PROVE  Wired
<1> USE AllGood
<1>1. ASSUME NEW torn \in BOOLEAN, NEW frame \in Frames \ {"pixels"}, NEW d \in Devices
      PROVE  Follows(link[d], sendRaw(link[d], frame, torn))
  BY CalmSend, CalmFollows
<1>f. {"hello", "release", "sim", "command", "reboot"} = Frames \ {"pixels"}
  BY DEF Frames
<1>2. CASE linkTake
  <2>1. PICK torn \in BOOLEAN :
          LET refusing == {d \in relicLinks : link[d].mode = "cue" \/ Refuses(link[d])}
              after == [d \in Devices |-> IF link[d].mode = "cue" THEN link[d]
                                          ELSE sendRaw(link[d], "sim", torn)]
          IN  link' = UntilRefused(after, refusing)
    BY <1>2 DEF linkTake
  <2> DEFINE after == [d \in Devices |-> IF link[d].mode = "cue" THEN link[d]
                                         ELSE sendRaw(link[d], "sim", torn)]
  <2>2. \A d \in Devices : Follows(link[d], after[d])
    BY <1>1, <1>f
  <2> QED BY <2>1, <2>2, UntilRefusedWires
<1>3. CASE \E frame \in {"sim", "command"} : linkSend(frame)
  <2>1. PICK frame \in {"sim", "command"} : linkSend(frame)
    BY <1>3
  <2>2. PICK torn \in BOOLEAN :
          link' = UntilRefused([d \in Devices |-> sendRaw(link[d], frame, torn)],
                               {d \in relicLinks : Refuses(link[d])})
    BY <2>1 DEF linkSend
  <2> DEFINE after == [d \in Devices |-> sendRaw(link[d], frame, torn)]
  <2>3. \A d \in Devices : Follows(link[d], after[d])
    BY <1>1, <1>f
  <2> QED BY <2>2, <2>3, UntilRefusedWires
<1>4. CASE linkPixels
  <2> DEFINE after == [d \in Devices |-> [link[d] EXCEPT !.mode = "pixels"]]
  <2>1. \A d \in Devices : Follows(link[d], after[d])
    BY SwitchKeeps, CalmFollows
  <2> QED BY <1>4, <2>1, UntilRefusedWires DEF linkPixels
<1>5. CASE linkCue
  <2>1. PICK torn \in BOOLEAN :
          link' = UntilRefused([d \in Devices |->
                                  release([link[d] EXCEPT !.mode = "cue"], torn)], {})
    BY <1>5 DEF linkCue
  <2> DEFINE after == [d \in Devices |-> release([link[d] EXCEPT !.mode = "cue"], torn)]
  <2>2. ASSUME NEW d \in Devices PROVE Follows(link[d], after[d])
    <3> DEFINE l == [link[d] EXCEPT !.mode = "cue"]
    <3>1. Calm(link[d], l)
      BY SwitchKeeps
    <3>2. Calm(l, release(l, torn))
      BY <3>1, ReleaseCalm DEF Calm
    <3> QED BY <3>1, <3>2, CalmTwice, CalmFollows
  <2> QED BY <2>1, <2>2, UntilRefusedWires
<1>6. CASE linkRelease
  <2>1. PICK torn \in BOOLEAN :
          link' = UntilRefused([d \in Devices |-> release(link[d], torn)],
                               {d \in relicLinks : Refuses(link[d])})
    BY <1>6 DEF linkRelease
  <2> DEFINE after == [d \in Devices |-> release(link[d], torn)]
  <2>2. \A d \in Devices : Follows(link[d], after[d])
    BY ReleaseCalm, CalmFollows
  <2> QED BY <2>1, <2>2, UntilRefusedWires
<1>7. CASE linkBootsel
  <2>1. PICK torn \in BOOLEAN :
          link' = UntilRefused([d \in Devices |-> rebootToBootloader(link[d], torn)],
                               {d \in relicLinks : Refuses(link[d])})
    BY <1>7 DEF linkBootsel
  <2> DEFINE after == [d \in Devices |-> rebootToBootloader(link[d], torn)]
  <2>2. \A d \in Devices : Follows(link[d], after[d])
    BY RebootCalm, CalmFollows
  <2> QED BY <2>1, <2>2, UntilRefusedWires
<1>8. CASE base
  <2>1. PICK torn \in BOOLEAN :
          LET cue == [d \in Devices |-> sendRaw(link[d], "command", torn)]
              refusing == {d \in relicLinks : Refuses(link[d]) \/ Refuses(cue[d])}
              after == [d \in Devices |-> IF Refuses(link[d]) THEN cue[d]
                                          ELSE sendRaw(cue[d], "sim", torn)]
          IN  link' = UntilRefused(after, refusing)
    BY <1>8 DEF base
  <2> DEFINE cue == [d \in Devices |-> sendRaw(link[d], "command", torn)]
             after == [d \in Devices |-> IF Refuses(link[d]) THEN cue[d]
                                         ELSE sendRaw(cue[d], "sim", torn)]
  <2>2. ASSUME NEW d \in Devices PROVE Follows(link[d], after[d])
    <3>1. Calm(link[d], cue[d])
      BY <1>f, CalmSend
    <3>2. Calm(cue[d], sendRaw(cue[d], "sim", torn))
      BY <1>f, <3>1, CalmSend DEF Calm
    <3> HIDE DEF cue
    <3> QED BY <3>1, <3>2, CalmTwice, CalmFollows
  <2> QED BY <2>1, <2>2, UntilRefusedWires
<1>9. CASE state
  <2>1. PICK torn \in BOOLEAN :
          LET cueRelics == {d \in relicLinks : link[d].mode = "cue"}
              refusing == {d \in cueRelics : Refuses(link[d])}
              after == [d \in Devices |-> IF d \in cueRelics
                                          THEN sendRaw(link[d], "command", torn) ELSE link[d]]
          IN  link' = UntilRefused(after, refusing)
    BY <1>9 DEF state
  <2> DEFINE after == [d \in Devices |-> IF d \in {e \in relicLinks : link[e].mode = "cue"}
                                         THEN sendRaw(link[d], "command", torn) ELSE link[d]]
  <2>2. \A d \in Devices : Follows(link[d], after[d])
    BY <1>1, <1>f
  <2> QED BY <2>1, <2>2, UntilRefusedWires
<1>10. CASE Quit
  <2>1. PICK torn \in BOOLEAN : link' = [d \in Devices |-> Shut(link[d], torn)]
    BY <1>10 DEF Quit, EndShow
  <2> QED BY <2>1, ShutFollows DEF Wired
<1> QED BY <1>2, <1>3, <1>4, <1>5, <1>6, <1>7, <1>8, <1>9, <1>10 DEF handleCommand

(* The rest of a frame.                                                     *)
LEMMA LoopWires ==
  ASSUME TypeOK, Loop
  PROVE  Wired
<1> USE AllGood
<1>0. turn \in Devices
  BY DEF TypeOK
<1>1. CASE BeginFrame \/ NotDue
  BY <1>1, SameWires DEF BeginFrame, NotDue
<1>2. CASE Retry /\ UNCHANGED link
  BY <1>2, SameWires
<1>3. CASE Retry /\ Attach
  <2> DEFINE l == attachWire(turn, link[turn].patch)
             m == IF l.mode = "cue" /\ cued THEN sendRaw(l, "command", FALSE) ELSE l
  <2>1. link' = [link EXCEPT ![turn] = m]
    BY <1>3 DEF Attach
  <2>6. link[turn].patch \in BOOLEAN
    BY <1>0 DEF TypeOK, Outputs
  <2>2. Good(l) /\ ~Flying(l) /\ Honest(l)
    BY <1>0, <2>6, AttachGood
  <2>3. "command" \in Frames \ {"pixels"} /\ FALSE \in BOOLEAN
    BY DEF Frames
  <2> HIDE DEF l
  <2>4. Calm(l, sendRaw(l, "command", FALSE))
    BY <2>2, <2>3, CalmSend
  <2>5. Follows(link[turn], m)
    BY <2>2, <2>4 DEF Calm, Follows
  <2> QED BY <1>0, <2>1, <2>5, OneWires
<1>4. CASE Send
  <2>1. PICK torn \in BOOLEAN :
          LET l == link[turn]
              links == [link EXCEPT ![turn] = sendFrame(l, torn)]
          IN  IF FrameFails(l)
              THEN EndShow(links, torn) /\ UNCHANGED turn
              ELSE link' = links /\ Onward("drain")
    BY <1>4 DEF Send
  <2> DEFINE sent == sendFrame(link[turn], torn)
             links == [link EXCEPT ![turn] = sent]
  <2>2. Follows(link[turn], sent) /\ (isStreaming(sent) => isStreaming(link[turn]))
    BY <1>0, SendFrameFollows DEF isStreaming
  <2>3. CASE link' = links
    BY <1>0, <2>2, <2>3, OneWires
  <2>4. CASE link' = [d \in Devices |-> Shut(links[d], torn)]
    <3> HIDE DEF sent
    <3>1. \A d \in Devices : links[d] = IF d = turn THEN sent ELSE link[d]
      BY <1>0 DEF TypeOK
    <3>2. Follows(link[turn], Shut(sent, torn))
      BY <2>2, ShutFollows DEF Follows
    <3>3. \A d \in Devices : Follows(link[d], Shut(link[d], torn))
      BY ShutFollows
    <3>4. \A d \in Devices : Follows(link[d], link'[d])
      BY <2>4, <3>1, <3>2, <3>3
    <3> QED BY <2>4, <3>4 DEF Wired
  <2> QED BY <2>1, <2>3, <2>4 DEF EndShow
<1>5. CASE Drain
  <2>1. CASE UNCHANGED link
    BY <2>1, SameWires
  <2>2. CASE link' = [link EXCEPT ![turn].streaming = TRUE]
    <3> DEFINE l == [link[turn] EXCEPT !.streaming = TRUE]
    <3>1. link' = [link EXCEPT ![turn] = l]
      BY <2>2
    <3>2. Follows(link[turn], l)
      BY <1>0, SwitchKeeps, CalmFollows
    <3> QED BY <1>0, <3>1, <3>2, OneWires
  <2>3. CASE \E torn \in BOOLEAN :
               link' = [link EXCEPT ![turn] = sendRaw(@, "sim", torn)]
    <3>1. PICK torn \in BOOLEAN :
            link' = [link EXCEPT ![turn] = sendRaw(link[turn], "sim", torn)]
      BY <2>3
    <3>2. "sim" \in Frames \ {"pixels"}
      BY DEF Frames
    <3>3. Follows(link[turn], sendRaw(link[turn], "sim", torn))
      BY <1>0, <3>2, CalmSend, CalmFollows
    <3> QED BY <1>0, <3>1, <3>3, OneWires
  <2> QED BY <1>5, <2>1, <2>2, <2>3 DEF Drain
<1> QED BY <1>1, <1>2, <1>3, <1>4, <1>5 DEF Loop, Retry

(* What is read or lost from a cable leaves no new picture on it.           *)
LEMMA ShorterFollows ==
  ASSUME NEW l, Good(l), l.cable # <<>>
  PROVE  /\ Follows(l, Drained(l, <<>>))
         /\ Follows(l, Drained(l, Tail(l.cable)))
         /\ Tail(l.cable) # <<>> => Follows(l, Drained(l, Tail(Tail(l.cable))))
         /\ Head(l.cable) = "pixels" => Flying(l)
         /\ Head(l.cable) \in Frames \cup {"torn"}
<1> DEFINE F == Frames \cup {"torn"}
<1>1. /\ l \in Outputs /\ l.cable \in Seq(F) /\ Len(l.cable) \in Nat /\ Room \in Nat
      /\ l.stuck \in 0..MAX_CONSECUTIVE_FAILURES /\ 0 \in 0..MAX_CONSECUTIVE_FAILURES
  BY LimitsAssumption DEF Good, Outputs
<1>2. ASSUME NEW c \in Seq(F), Len(c) <= Len(l.cable),
             \A i \in 1..Len(c) : \E j \in 1..Len(l.cable) : c[i] = l.cable[j]
      PROVE  Follows(l, Drained(l, c))
  <2> DEFINE stuck == IF Len(c) < Room THEN 0 ELSE l.stuck
             m == [l EXCEPT !.cable = c, !.stuck = stuck]
  <2>5. stuck \in 0..MAX_CONSECUTIVE_FAILURES /\ m = Drained(l, c)
    BY <1>1 DEF Drained
  <2> HIDE DEF stuck
  <2>1. /\ m \in Outputs /\ m.cable = c /\ m.live = l.live /\ m.port = l.port
        /\ m.failures = l.failures /\ m.stuck = stuck
    BY <1>1, <1>2, <2>5 DEF Outputs
  <2> HIDE DEF m
  <2>2. Len(m.cable) <= Room + 1
    BY <1>1, <1>2, <2>1 DEF Good
  <2>3. Flying(m) => Flying(l)
    BY <1>2, <2>1 DEF Flying
  <2>6. Honest(l) => Honest(m)
    BY <1>1, <1>2, <2>1 DEF Honest, HasRoom, stuck
  <2>4. Follows(l, m)
    BY <2>1, <2>2, <2>3, <2>6 DEF Good, Follows
  <2> QED BY <2>4, <2>5
<1>3. ASSUME NEW c \in Seq(F), c # <<>>
      PROVE  /\ Tail(c) \in Seq(F) /\ Len(Tail(c)) = Len(c) - 1 /\ Len(c) \in Nat
             /\ \A i \in 1..Len(Tail(c)) : i + 1 \in 1..Len(c) /\ Tail(c)[i] = c[i + 1]
             /\ Head(c) = c[1] /\ 1 \in 1..Len(c)
  BY <1>3
<1> HIDE DEF F
<1>4. Follows(l, Drained(l, <<>>))
  <2> DEFINE t == <<>>
  <2>1. t \in Seq(F) /\ Len(t) = 0
    OBVIOUS
  <2> HIDE DEF t
  <2>2. Len(t) <= Len(l.cable) /\ \A i \in 1..Len(t) : \E j \in 1..Len(l.cable) : t[i] = l.cable[j]
    BY <1>1, <2>1
  <2>3. Follows(l, Drained(l, t))
    BY <1>2, <2>1, <2>2
  <2> QED BY <2>3 DEF t
<1>5. Follows(l, Drained(l, Tail(l.cable)))
  <2> DEFINE t == Tail(l.cable)
  <2>1. /\ t \in Seq(F) /\ Len(t) = Len(l.cable) - 1
        /\ \A i \in 1..Len(t) : i + 1 \in 1..Len(l.cable) /\ t[i] = l.cable[i + 1]
    BY <1>1, <1>3
  <2> HIDE DEF t
  <2>2. Len(t) <= Len(l.cable) /\ \A i \in 1..Len(t) : \E j \in 1..Len(l.cable) : t[i] = l.cable[j]
    BY <1>1, <2>1
  <2>3. Follows(l, Drained(l, t))
    BY <1>2, <2>1, <2>2
  <2> QED BY <2>3 DEF t
<1>6. ASSUME Tail(l.cable) # <<>>
      PROVE  Follows(l, Drained(l, Tail(Tail(l.cable))))
  <2> DEFINE s == Tail(l.cable)
             t == Tail(s)
  <2>1. /\ s \in Seq(F) /\ Len(s) = Len(l.cable) - 1
        /\ \A i \in 1..Len(s) : i + 1 \in 1..Len(l.cable) /\ s[i] = l.cable[i + 1]
    BY <1>1, <1>3
  <2>2. /\ t \in Seq(F) /\ Len(t) = Len(s) - 1
        /\ \A i \in 1..Len(t) : i + 1 \in 1..Len(s) /\ t[i] = s[i + 1]
    BY <1>3, <1>6, <2>1
  <2> HIDE DEF s, t
  <2>3. Len(t) <= Len(l.cable)
    BY <1>1, <2>1, <2>2
  <2>4. \A i \in 1..Len(t) : \E j \in 1..Len(l.cable) : t[i] = l.cable[j]
    BY <2>1, <2>2
  <2>5. Follows(l, Drained(l, t))
    BY <1>2, <2>2, <2>3, <2>4
  <2> QED BY <2>5 DEF s, t
<1>7. Head(l.cable) = l.cable[1] /\ 1 \in 1..Len(l.cable)
  BY <1>1, <1>3
<1> QED BY <1>1, <1>4, <1>5, <1>6, <1>7 DEF F, Flying

LEMMA RelicWires ==
  ASSUME TypeOK, NEW d \in Devices, Read(d) \/ Lapse(d) \/ Pull(d) \/ Plug(d)
  PROVE  Wired
<1> USE AllGood
<1>1. CASE Lapse(d) \/ Plug(d)
  BY <1>1, SameWires DEF Lapse, Plug
<1>2. CASE Read(d)
  <2> DEFINE c == link[d].cable
             l(x) == Drained(link[d], x)
  <2>1. c # <<>>
    BY <1>2 DEF Read
  <2>3. \/ link' = [link EXCEPT ![d] = l(<<>>)]
        \/ link' = [link EXCEPT ![d] = l(Tail(c))]
        \/ Tail(c) # <<>> /\ link' = [link EXCEPT ![d] = l(Tail(Tail(c)))]
    BY <1>2 DEF Read
  <2>4. /\ Follows(link[d], l(<<>>)) /\ Follows(link[d], l(Tail(c)))
        /\ Tail(c) # <<>> => Follows(link[d], l(Tail(Tail(c))))
    BY <2>1, ShorterFollows
  <2> QED BY <2>3, <2>4, OneWires
<1>3. CASE Pull(d)
  <2> DEFINE port == IF link[d].port = "open" THEN "lost" ELSE link[d].port
             l == [link[d] EXCEPT !.cable = <<>>, !.port = port]
  <2>1. link' = [link EXCEPT ![d] = l]
    BY <1>3 DEF Pull, TypeOK
  <2>2. Good(l) /\ ~Flying(l) /\ Honest(l)
    <3>1. /\ <<>> \in Seq(Frames \cup {"torn"}) /\ Len(<<>>) = 0 /\ Room \in Nat
          /\ link[d] \in Outputs /\ port \in {"closed", "open", "lost"}
          /\ link[d].live \/ port = "closed"
          /\ port # "open"
      BY LimitsAssumption DEF Good, Outputs
    <3> HIDE DEF port
    <3>2. l \in Outputs /\ l.cable = <<>> /\ l.live = link[d].live /\ l.port = port
      BY <3>1 DEF Outputs
    <3> QED BY <3>1, <3>2 DEF Good, Flying, Honest
  <2> QED BY <2>1, <2>2, OneWires DEF Follows
<1> QED BY <1>1, <1>2, <1>3

LEMMA NextWires ==
  ASSUME TypeOK, [Next]_vars
  PROVE  Wired
BY CommandWires, LoopWires, RelicWires, SameWires DEF Next, vars

-----------------------------------------------------------------------------
(* The rest of TypeOK: all but the outputs.                                 *)
ShowOK ==
    /\ phase \in Phases
    /\ turn \in Devices
    /\ takePending \in BOOLEAN
    /\ waited \in 0..(TakeWait + 1)
    /\ shadow \in BOOLEAN
    /\ cued \in BOOLEAN
    /\ quit \in BOOLEAN
    /\ plugged \in [Devices -> BOOLEAN]
    /\ owned \in [Devices -> BOOLEAN]
    /\ said \in [Devices -> {"nothing", "hello", "sim"}]
    /\ given \in 0..MaxCommands
    /\ pulls \in 0..MaxPulls

Ports == phase = "ended" => \A d \in Devices : link[d].port = "closed"

LEMMA OnwardKeeps ==
  ASSUME turn \in Devices, phase \in Phases, NEW next \in Phases, Onward(next)
  PROVE  turn' \in Devices /\ phase' \in Phases
<1>1. N \in Nat \ {0} /\ turn \in 1..N
  BY ConfigAssumption DEF Devices
<1>2. turn' \in 1..N
  BY <1>1 DEF Onward
<1> QED BY <1>2 DEF Onward, Devices

LEMMA ShowKeeps ==
  ASSUME TypeOK, [Next]_vars
  PROVE  ShowOK'
<1>0. /\ ShowOK /\ TakeWait \in Nat /\ MaxCommands \in Nat /\ MaxPulls \in Nat
      /\ N \in Nat \ {0}
      /\ {"commands", "retry", "send", "drain", "ended"} = Phases
  BY LimitsAssumption, BoundsAssumption, ConfigAssumption DEF TypeOK, ShowOK, Phases
<1>1. CASE handleCommand
  <2>6. given < MaxCommands /\ given' = given + 1
    BY <1>1 DEF handleCommand, Give, Quit, linkTake, linkSend, linkPixels, linkCue,
                linkRelease, linkBootsel, base, state
  <2>1. given' \in 0..MaxCommands
    BY <1>0, <2>6 DEF ShowOK
  <2>2. phase' \in Phases /\ turn' \in Devices
    BY <1>0, <1>1 DEF handleCommand, Give, Quit, EndShow, linkTake, linkSend, linkPixels,
                      linkCue, linkRelease, linkBootsel, base, state, ShowOK
  <2>3. /\ plugged' \in [Devices -> BOOLEAN] /\ owned' \in [Devices -> BOOLEAN]
        /\ said' \in [Devices -> {"nothing", "hello", "sim"}] /\ pulls' \in 0..MaxPulls
    BY <1>0, <1>1 DEF handleCommand, Give, Quit, linkTake, linkSend, linkPixels, linkCue,
                      linkRelease, linkBootsel, base, state, ShowOK, relicVars
  <2>7. /\ takePending' \in {takePending, TRUE, FALSE} /\ waited' \in {waited, 0}
        /\ quit' \in {quit, TRUE}
    BY <1>1 DEF handleCommand, Quit, linkTake, linkSend, linkPixels, linkCue,
                linkRelease, linkBootsel, base, state
  <2>8. shadow' \in {shadow, TRUE}
    <3>1. CASE base
      BY <3>1 DEF base
    <3>2. CASE ~base
      BY <1>1, <3>2 DEF handleCommand, Quit, linkTake, linkSend, linkPixels, linkCue,
                        linkRelease, linkBootsel, state
    <3> QED BY <3>1, <3>2
  <2>9. waited' \in 0..(TakeWait + 1)
    BY <1>0, <2>7 DEF ShowOK
  <2>4. /\ takePending' \in BOOLEAN /\ waited' \in 0..(TakeWait + 1)
        /\ shadow' \in BOOLEAN /\ quit' \in BOOLEAN
    BY <1>0, <2>7, <2>8, <2>9, Zenon DEF ShowOK
  <2>5. cued' \in BOOLEAN
    <3>1. CASE state
      BY <1>0, <3>1, Zenon DEF state, ShowOK
    <3>2. CASE ~state
      BY <1>0, <1>1, <3>2 DEF handleCommand, Quit, linkTake, linkSend, linkPixels, linkCue,
                              linkRelease, linkBootsel, base, ShowOK
    <3> QED BY <3>1, <3>2
  <2> QED BY <2>1, <2>2, <2>3, <2>4, <2>5 DEF ShowOK
<1>2. CASE BeginFrame
  BY <1>0, <1>2 DEF BeginFrame, ShowOK, relicVars, bounds
<1>3. CASE Retry \/ NotDue
  <2>1. turn' \in Devices /\ phase' \in Phases
    BY <1>0, <1>3, OnwardKeeps DEF Retry, NotDue, ShowOK
  <2> QED BY <1>0, <1>3, <2>1 DEF Retry, NotDue, ShowOK, relicVars, bounds
<1>4. CASE Send
  <2>1. turn' \in Devices /\ phase' \in Phases
    BY <1>0, <1>4, OnwardKeeps DEF Send, EndShow, ShowOK
  <2> QED BY <1>0, <1>4, <2>1 DEF Send, ShowOK, relicVars, bounds
<1>5. CASE Drain
  <2>1. turn' \in Devices /\ phase' \in Phases
    BY <1>0, <1>5, OnwardKeeps DEF Drain, ShowOK
  <2>2. shadow' \in BOOLEAN
    BY <1>0, <1>5 DEF Drain, Heard, ShowOK
  <2>5. takePending' \in {takePending, FALSE} /\ waited' \in {waited, 1}
    <3>1. CASE ~link[turn].live
      BY <1>5, <3>1 DEF Drain
    <3>2. CASE link[turn].live
      <4> DEFINE stamped == IF takePending /\ waited = 0 THEN 1 ELSE waited
      <4>1. waited' = stamped
        BY <1>5, <3>2 DEF Drain
      <4>2. takePending' = FALSE \/ UNCHANGED takePending
        BY <1>5, <3>2 DEF Drain
      <4> QED BY <4>1, <4>2
    <3> QED BY <3>1, <3>2
  <2>6. waited' \in 0..(TakeWait + 1)
    BY <1>0, <2>5 DEF ShowOK
  <2>3. takePending' \in BOOLEAN /\ waited' \in 0..(TakeWait + 1)
    BY <1>0, <2>5, <2>6, Zenon DEF ShowOK
  <2>4. said' \in [Devices -> {"nothing", "hello", "sim"}]
    BY <1>0, <1>5 DEF Drain, ShowOK
  <2> QED BY <1>0, <1>5, <2>1, <2>2, <2>3, <2>4 DEF Drain, ShowOK, bounds
<1>6. ASSUME NEW d \in Devices, Read(d) \/ Lapse(d) \/ Pull(d) \/ Plug(d)
      PROVE  ShowOK'
  <2>1. plugged' \in [Devices -> BOOLEAN] /\ owned' \in [Devices -> BOOLEAN]
    BY <1>0, <1>6 DEF Read, Lapse, Pull, Plug, ShowOK
  <2>2. said' \in [Devices -> {"nothing", "hello", "sim"}]
    BY <1>0, <1>6 DEF Read, Lapse, Pull, Plug, ShowOK
  <2>4. /\ UNCHANGED showVars /\ UNCHANGED given
        /\ UNCHANGED pulls \/ (pulls < MaxPulls /\ pulls' = pulls + 1)
    BY <1>6 DEF Read, Lapse, Pull, Plug, bounds
  <2>3. UNCHANGED showVars /\ given' \in 0..MaxCommands /\ pulls' \in 0..MaxPulls
    BY <1>0, <2>4 DEF ShowOK
  <2> QED BY <1>0, <2>1, <2>2, <2>3 DEF ShowOK, showVars
<1>7. CASE UNCHANGED vars
  BY <1>0, <1>7 DEF vars, showVars, relicVars, bounds, ShowOK
<1> QED BY <1>1, <1>2, <1>3, <1>4, <1>5, <1>6, <1>7 DEF Next, Loop

(* Only `quit` and a refused frame end a show.                              *)
LEMMA EndingStep ==
  ASSUME [Next]_vars, phase # "ended", phase' = "ended"
  PROVE  Quit \/ Send
BY DEF Next, Loop, handleCommand, Give, linkTake, linkSend, linkPixels, linkCue,
       linkRelease, linkBootsel, base, state, BeginFrame, Retry, NotDue, Drain,
       Onward, Read, Lapse, Pull, Plug, showVars, vars

(* The show that ends has shut every port, and no port opens after it.      *)
LEMMA PortsKeep ==
  ASSUME TypeOK, [Next]_vars
  PROVE  Ports'
<1> USE AllGood
<1>1. CASE phase # "ended" /\ phase' = "ended"
  <2>1. turn \in Devices /\ phase \in Phases /\ link \in [Devices -> Outputs]
    BY DEF TypeOK
  <2>2. CASE Quit
    <3>1. PICK torn \in BOOLEAN : link' = [d \in Devices |-> Shut(link[d], torn)]
      BY <2>2 DEF Quit, EndShow
    <3> QED BY <3>1, ShutFollows DEF Ports
  <2>3. CASE Send
    <3>1. PICK torn \in BOOLEAN :
            LET links == [link EXCEPT ![turn] = sendFrame(link[turn], torn)]
            IN  link' = [d \in Devices |-> Shut(links[d], torn)]
      BY <1>1, <2>3 DEF Send, EndShow, Onward
    <3> DEFINE links == [link EXCEPT ![turn] = sendFrame(link[turn], torn)]
    <3>2. \A d \in Devices : Good(links[d])
      BY <2>1, SendFrameFollows DEF Follows
    <3> HIDE DEF links
    <3>3. \A d \in Devices : Shut(links[d], torn).port = "closed"
      BY <3>2, ShutFollows
    <3>4. link' = [d \in Devices |-> Shut(links[d], torn)]
      BY <3>1 DEF links
    <3> QED BY <3>3, <3>4 DEF Ports
  <2> QED BY <1>1, <2>2, <2>3, EndingStep
<1>2. CASE phase = "ended"
  <2>1. \/ \E d \in Devices : Read(d) \/ Lapse(d) \/ Pull(d) \/ Plug(d)
        \/ UNCHANGED link
    BY <1>2 DEF Next, Loop, handleCommand, Give, Quit, linkTake, linkSend, linkPixels, linkCue,
                linkRelease, linkBootsel, base, state, BeginFrame, Retry, NotDue, Send, Drain,
                vars
  <2>2. \A d \in Devices : link[d].port = "closed" /\ link[d] \in Outputs
    BY <1>2 DEF TypeOK
  <2>3. ASSUME NEW d \in Devices, Read(d) \/ Pull(d)
        PROVE  \A e \in Devices : link'[e].port = "closed"
    <3> DEFINE l(c, p) == [link[d] EXCEPT !.cable = c, !.port = p]
    <3>1. \E c : link' = [link EXCEPT ![d] = Drained(link[d], c)]
                \/ link' = [link EXCEPT ![d] = l(c, "closed")]
      <4>1. CASE Read(d)
        BY <4>1 DEF Read
      <4>2. CASE Pull(d)
        BY <2>2, <4>2 DEF Pull
      <4> QED BY <2>3, <4>1, <4>2
    <3>2. link \in [Devices -> Outputs]
      BY DEF TypeOK
    <3>3. PICK c : link' = [link EXCEPT ![d] = Drained(link[d], c)]
                   \/ link' = [link EXCEPT ![d] = l(c, "closed")]
      BY <3>1
    <3>4. ASSUME NEW e \in Devices PROVE link'[e].port = "closed"
      <4>1. CASE e # d
        BY <2>2, <3>2, <3>3, <4>1
      <4>2. CASE e = d
        <5>1. /\ Drained(link[d], c).port = link[d].port
              /\ l(c, "closed").port = "closed"
          BY <3>2 DEF Outputs, Drained
        <5> HIDE DEF l
        <5> QED BY <2>2, <3>2, <3>3, <4>2, <5>1
      <4> QED BY <4>1, <4>2
    <3> QED BY <3>4
  <2>4. ASSUME UNCHANGED link PROVE Ports'
    BY <2>2, <2>4 DEF Ports
  <2> QED BY <2>1, <2>3, <2>4 DEF Ports, Lapse, Plug
<1>3. CASE phase' # "ended"
  BY <1>3 DEF Ports
<1> QED BY <1>1, <1>2, <1>3

LEMMA InitGood ==
  ASSUME Init
  PROVE  TypeOK /\ \A d \in Devices : ~Flying(link[d]) /\ Honest(link[d])
<1>1. /\ 1 \in Devices /\ 0 \in 0..(TakeWait + 1)
      /\ 0 \in 0..MaxCommands /\ 0 \in 0..MaxPulls
  BY ConfigAssumption, LimitsAssumption, BoundsAssumption DEF Devices
<1>4. PICK patch \in [Devices -> BOOLEAN] :
        link = [d \in Devices |-> IF plugged[d] THEN attachWire(d, patch[d])
                                  ELSE Offline(d, patch[d])]
  BY DEF Init
<1>2. \A d \in Devices : Good(link[d]) /\ ~Flying(link[d]) /\ Honest(link[d])
  BY <1>4, AttachGood
<1>3. link \in [Devices -> Outputs]
  BY <1>2, <1>4 DEF Good
<1> QED BY <1>1, <1>2, <1>3 DEF Init, TypeOK, Phases, Good

LEMMA TypeKeeps ==
  ASSUME TypeOK, [Next]_vars
  PROVE  TypeOK'
<1>1. \A d \in Devices : Good(link'[d])
  BY NextWires DEF Wired, Follows
<1>2. link' \in [Devices -> Outputs]
  BY <1>1, NextWires DEF Wired, Good
<1> QED BY <1>1, <1>2, ShowKeeps, PortsKeep DEF TypeOK, ShowOK, Ports, Good

(* Every variable keeps its type, no cable holds more than its buffers and  *)
(* one torn piece, and an ended show has shut every port.                   *)
THEOREM TypeCorrect == Spec => []TypeOK
<1>1. Init => TypeOK
  BY InitGood
<1>2. TypeOK /\ [Next]_vars => TypeOK'
  BY TypeKeeps
<1> QED BY <1>1, <1>2, PTL DEF Spec

(* The count a refusal is judged by is of writes that all found the cable   *)
(* full: the strengthening EndsOnlyBlocked needs.                           *)
AllHonest == \A d \in Devices : Honest(link[d])

LEMMA HonestAlways == Spec => []AllHonest
<1>1. Init => AllHonest
  BY InitGood DEF AllHonest
<1>2. TypeOK /\ AllHonest /\ [Next]_vars => AllHonest'
  BY NextWires DEF Wired, Follows, AllHonest
<1> QED BY <1>1, <1>2, TypeCorrect, PTL DEF Spec

(* The show ends by itself only over a stream that is hopeless, never over  *)
(* one whose relic is merely behind, for any number of devices, any size of *)
(* cable and any limit of failures.                                        *)
THEOREM EndsBlocked == Spec => EndsOnlyBlocked
<1>1. ASSUME TypeOK, AllHonest, [Next]_vars, phase # "ended", phase' = "ended", ~quit'
      PROVE  \E d \in Devices : Hopeless(link[d])
  <2> DEFINE l == link[turn]
  <2>1. Send
    BY <1>1, EndingStep DEF Quit
  <2>2. FrameFails(l)
    BY <1>1, <2>1 DEF Send, Onward
  <2>3. /\ turn \in Devices /\ Honest(l) /\ MAX_CONSECUTIVE_FAILURES \in Nat
        /\ l.failures \in Nat /\ l.stuck \in Nat
    BY <1>1, LimitsAssumption DEF TypeOK, AllHonest, Outputs
  <2> HIDE DEF l
  <2>4. Hopeless(l)
    BY <2>2, <2>3 DEF FrameFails, Sends, Refuses, Hopeless, isStreaming, HasRoom, Honest
  <2> QED BY <2>3, <2>4 DEF l
<1> QED BY <1>1, TypeCorrect, HonestAlways, PTL DEF Spec, EndsOnlyBlocked

(* Only a picture on its cable takes a relic.                               *)
LEMMA TakenByPicture ==
  ASSUME TypeOK, [Next]_vars, NEW d \in Devices, owned'[d]
  PROVE  owned[d] \/ Flying(link[d])
<1>0. owned \in [Devices -> BOOLEAN]
  BY DEF TypeOK
<1>1. ASSUME NEW e \in Devices, Read(e)
      PROVE  owned[d] \/ Flying(link[d])
  <2>1. link[e].cable # <<>>
    BY <1>1 DEF Read
  <2>2. owned' = [owned EXCEPT ![e] = CASE Head(link[e].cable) = "pixels" -> TRUE
                                       [] Head(link[e].cable) \in {"release", "reboot"} -> FALSE
                                       [] OTHER -> @]
    BY <1>1 DEF Read
  <2>3. Head(link[e].cable) = "pixels" => Flying(link[e])
    BY <2>1, AllGood, ShorterFollows
  <2>4. CASE Head(link[e].cable) = "pixels"
    BY <1>0, <2>2, <2>3, <2>4
  <2>5. CASE Head(link[e].cable) # "pixels"
    BY <1>0, <2>2, <2>5
  <2> QED BY <2>4, <2>5
<1>2. ASSUME NEW e \in Devices, Lapse(e) \/ Pull(e)
      PROVE  owned[d]
  BY <1>0, <1>2 DEF Lapse, Pull
<1>3. \/ \E e \in Devices : Read(e) \/ Lapse(e) \/ Pull(e)
      \/ UNCHANGED owned
  BY DEF Next, Loop, handleCommand, Give, Quit, linkTake, linkSend, linkPixels, linkCue,
         linkRelease, linkBootsel, base, state, BeginFrame, Retry, NotDue, Send, Drain,
         Plug, relicVars, vars
<1> QED BY <1>1, <1>2, <1>3

(* No relic is taken but by a frame from a desk that was streaming to it:   *)
(* the detailed link implements Handover.                                  *)
THEOREM HandoverImplemented == Spec => ImplementsHandover
<1> DEFINE wanted == [d \in Devices |-> isStreaming(link[d])]
           flying == [d \in Devices |-> Flying(link[d])]
<1>1. ASSUME TypeOK PROVE wanted \in [Devices -> BOOLEAN] /\ flying \in [Devices -> BOOLEAN]
  BY <1>1 DEF isStreaming, Flying, TypeOK, Outputs
<1>2. Init => Abstract!Init
  <2> SUFFICES ASSUME Init PROVE Abstract!Init
    OBVIOUS
  <2>1. wanted \in [Devices -> BOOLEAN]
    BY <1>1, InitGood
  <2>2. flying = [d \in Devices |-> FALSE]
    <3>1. \A d \in Devices : Flying(link[d]) = FALSE
      BY InitGood DEF Flying
    <3> QED BY <3>1, Zenon
  <2>3. owned = [d \in Devices |-> FALSE]
    BY DEF Init
  <2> QED BY <2>1, <2>2, <2>3 DEF Abstract!Init, Abstract!Flags
<1>3. TypeOK /\ [Next]_vars => Abstract!Next
  <2> SUFFICES ASSUME TypeOK, [Next]_vars PROVE Abstract!Next
    OBVIOUS
  <2>1. TypeOK'
    BY TypeKeeps
  <2>2. wanted' \in [Devices -> BOOLEAN] /\ flying' \in [Devices -> BOOLEAN]
    BY <2>1 DEF isStreaming, Flying, TypeOK, Outputs
  <2>3. owned' \in [Devices -> BOOLEAN]
    BY <2>1 DEF TypeOK
  <2>4. ASSUME NEW d \in Devices
        PROVE  /\ flying'[d] => flying[d] \/ wanted[d]
               /\ owned'[d] => owned[d] \/ flying[d]
    <3>1. Flying(link'[d]) => Flying(link[d]) \/ isStreaming(link[d])
      BY NextWires DEF Wired, Follows
    <3>2. flying'[d] = Flying(link'[d]) /\ flying[d] = Flying(link[d])
          /\ wanted[d] = isStreaming(link[d])
      BY Zenon
    <3> QED BY <3>1, <3>2, TakenByPicture, Zenon
  <2> QED BY <2>2, <2>3, <2>4 DEF Abstract!Next, Abstract!Flags
<1> QED BY <1>2, <1>3, TypeCorrect, PTL DEF Spec, ImplementsHandover, Abstract!Spec
=============================================================================
