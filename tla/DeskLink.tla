------------------------------ MODULE DeskLink ------------------------------
(***************************************************************************)
(* The desk's end of the link: the RelicUsbOutput of each device           *)
(* (desktop/src/dmx_output.cpp) and the show's loop around them            *)
(* (desktop/src/main.cpp), which takes the operator's `link` commands,     *)
(* looks for devices without a wire, sends each a frame, reads what the    *)
(* relics say and starts a take that was waiting for it.                   *)
(*                                                                         *)
(* The loop is one thread and visits its devices in order, one step each;  *)
(* a relic reads its cable, and a cable is pulled, between any two steps.  *)
(* A relic is reduced to what RelicLink says of it: a pixel frame takes    *)
(* it, a release or a silence gives it back.                               *)
(***************************************************************************)
EXTENDS Integers, Sequences

CONSTANTS
    N,                          (* devices, each with a relic's output *)
    CueDevices,                 (* configured as relic_usb_cue *)
    ReleasedDevices,            (* configured with start = "released" *)
    MAX_CONSECUTIVE_FAILURES,
    Room,                       (* frames a cable's buffers hold *)
    TakeWait,                   (* frames in the 0.75 s a take waits *)
    MaxCommands,                (* bound: commands the operator gives *)
    MaxPulls                    (* bound: times a cable is pulled *)

Devices == 1..N

ASSUME ConfigAssumption == /\ N \in Nat \ {0}
                           /\ CueDevices \subseteq Devices
                           /\ ReleasedDevices \subseteq Devices
ASSUME LimitsAssumption == /\ MAX_CONSECUTIVE_FAILURES \in Nat \ {0}
                           /\ Room \in Nat \ {0}
                           /\ TakeWait \in Nat
ASSUME BoundsAssumption == MaxCommands \in Nat /\ MaxPulls \in Nat

Frames == {"hello", "pixels", "release", "sim", "command", "reboot"}

VARIABLES
    link,         (* each device's output *)
    phase,        (* where the loop is, and whether the show has ended *)
    turn,         (* the device it is at *)
    takePending,
    waited,       (* frames since takeAskedAt, plus one; 0 is unstamped *)
    shadow,       (* show.shadow.isLive() *)
    cued,         (* show.lastCue is set *)
    quit,         (* show.shouldQuit *)
    plugged,      (* a relic runs at the end of the cable *)
    owned,        (* the relic shows the desk's frames *)
    said,         (* what the relic has said and the desk not read *)
    given,        (* commands given so far *)
    pulls         (* cables pulled so far *)

showVars == <<phase, turn, takePending, waited, shadow, cued, quit>>
relicVars == <<plugged, owned, said>>
bounds == <<given, pulls>>
vars == <<link, showVars, relicVars, bounds>>

Phases == {"commands", "retry", "send", "drain", "ended"}
Outputs == [live : BOOLEAN,                     (* output != nullptr *)
            port : {"closed", "open", "lost"},  (* lost: its device is gone *)
            mode : {"pixels", "cue"},
            streaming : BOOLEAN,
            patch : BOOLEAN,      (* its pixels make a frame: some, and few enough *)
            failures : 0..MAX_CONSECUTIVE_FAILURES,
            stuck : 0..MAX_CONSECUTIVE_FAILURES,    (* history: see sendRaw *)
            cable : Seq(Frames \cup {"torn"})]

TypeOK ==
    /\ link \in [Devices -> Outputs]
    /\ \A d \in Devices : /\ Len(link[d].cable) <= Room + 1
                          /\ link[d].live \/ link[d].port = "closed"
    /\ phase \in Phases
    /\ phase = "ended" => \A d \in Devices : link[d].port = "closed"
    /\ turn \in Devices
    /\ takePending \in BOOLEAN
    /\ waited \in 0..(TakeWait + 1)
    /\ shadow \in BOOLEAN
    /\ cued \in BOOLEAN
    /\ quit \in BOOLEAN
    /\ plugged \in [Devices -> BOOLEAN]
    /\ owned \in [Devices -> BOOLEAN]
    /\ said \in [Devices -> {"nothing", "hello", "sim"}]
    /\ given \in 0..MaxCommands
    /\ pulls \in 0..MaxPulls

-----------------------------------------------------------------------------
(* RelicUsbOutput. l is an output; torn says that a write which runs out   *)
(* of room has put a part of its frame on the cable.                       *)

isStreaming(l) == l.mode = "pixels" /\ l.streaming

HasRoom(l) == l.port = "open" /\ Len(l.cable) < Room

Flying(l) == \E i \in 1..Len(l.cable) : l.cable[i] = "pixels"

(* sendRaw returns false: the port is shut, or this is one failure too many. *)
Refuses_Never(l) == l.port = "closed"    (* mutant: sustained failure is no error *)

Refuses(l) ==
    \/ l.port = "closed"
    \/ ~HasRoom(l) /\ l.failures + 1 >= MAX_CONSECUTIVE_FAILURES

(* sendRaw. Both counts stop at the limit, above which nothing tells them   *)
(* apart. failures is the code's, of the writes that failed since one went  *)
(* through; stuck is of those that failed since the relic last made room.  *)
OneMore(count) == IF count < MAX_CONSECUTIVE_FAILURES THEN count + 1 ELSE count

Overrun(l, torn) ==
    [l EXCEPT !.cable = IF torn /\ l.port = "open" /\ Len(@) = Room
                        THEN Append(@, "torn") ELSE @,
              !.failures = OneMore(@), !.stuck = OneMore(@)]

sendRaw_NeverReset(l, frame, torn) ==    (* mutant: a write that succeeds clears no count *)
    IF l.port = "closed" THEN l
    ELSE IF HasRoom(l) THEN [l EXCEPT !.cable = Append(@, frame), !.stuck = 0]
    ELSE Overrun(l, torn)

sendRaw(l, frame, torn) ==
    IF l.port = "closed" THEN l
    ELSE IF HasRoom(l) THEN [l EXCEPT !.cable = Append(@, frame), !.failures = 0, !.stuck = 0]
    ELSE Overrun(l, torn)

(* The relic reads, and leaves rest on its cable. *)
Drained(l, rest) == [l EXCEPT !.cable = rest, !.stuck = IF Len(rest) < Room THEN 0 ELSE @]

(* sendFrame has a frame to send. *)
Sends_Released(l) == l.mode = "pixels"   (* mutant: a released relic is sent frames *)
Sends(l) == l.mode = "pixels" /\ l.streaming

(* It returns false when its patch makes no frame, and nothing is written. *)
FrameFails(l) == Sends(l) /\ (~l.patch \/ Refuses(l))

sendFrame(l, torn) == IF Sends(l) /\ l.patch THEN sendRaw(l, "pixels", torn) ELSE l

release(l, torn) == sendRaw([l EXCEPT !.streaming = FALSE], "release", torn)

(* rebootToBootloader: the port is shut whenever the write was not refused. *)
rebootToBootloader(l, torn) ==
    IF Refuses(l) THEN sendRaw(l, "reboot", torn)
    ELSE [sendRaw(l, "reboot", torn) EXCEPT !.port = "closed"]

(* The end of the show: one dark frame, then close(). *)
Shut_LeavesPort(l, torn) == release(sendFrame(l, torn), torn)   (* mutant: the port stays open *)

Shut(l, torn) ==
    IF l.live THEN [release(sendFrame(l, torn), torn) EXCEPT !.port = "closed"] ELSE l

(* attachWire with a relic that answers: a new output, opened, its Hello sent. *)
Offline(d, patch) ==
    [live |-> FALSE, port |-> "closed",
     mode |-> IF d \in CueDevices THEN "cue" ELSE "pixels",
     streaming |-> d \notin ReleasedDevices, patch |-> patch,
     failures |-> 0, stuck |-> 0, cable |-> <<>>]

attachWire(d, patch) ==
    sendRaw([Offline(d, patch) EXCEPT !.live = TRUE, !.port = "open"], "hello", FALSE)

Init ==
    /\ plugged \in [Devices -> BOOLEAN]
    /\ \E patch \in [Devices -> BOOLEAN] :
         link = [d \in Devices |-> IF plugged[d] THEN attachWire(d, patch[d])
                                   ELSE Offline(d, patch[d])]
    /\ phase = "commands"
    /\ turn = 1
    /\ takePending = FALSE
    /\ waited = 0
    /\ shadow = FALSE
    /\ cued = FALSE
    /\ quit = FALSE
    /\ owned = [d \in Devices |-> FALSE]
    /\ said = [d \in Devices |-> "nothing"]
    /\ given = 0
    /\ pulls = 0

-----------------------------------------------------------------------------
(* handleCommand: `link`, `base`, `state` and `quit`. *)

relicLinks == {d \in Devices : link[d].live}

(* A loop over the relics that returns at the first one in refusing. *)
UntilRefused(after, refusing) ==
    [d \in Devices |-> IF d \in relicLinks /\ \A e \in refusing : d <= e
                       THEN after[d] ELSE link[d]]

Give ==
    /\ phase = "commands" /\ given < MaxCommands
    /\ given' = given + 1
    /\ UNCHANGED <<phase, turn, relicVars, pulls>>

linkTake ==
    /\ Give
    /\ relicLinks # {}
    /\ \E torn \in BOOLEAN :
         LET refusing == {d \in relicLinks : link[d].mode = "cue" \/ Refuses(link[d])}
             after == [d \in Devices |-> IF link[d].mode = "cue" THEN link[d]
                                         ELSE sendRaw(link[d], "sim", torn)]
         IN  /\ link' = UntilRefused(after, refusing)
             /\ IF refusing = {} THEN takePending' = TRUE /\ waited' = 0
                ELSE UNCHANGED <<takePending, waited>>
    /\ UNCHANGED <<shadow, cued, quit>>

(* `link sim`, `link hello` and `link cmd`: a line for the relic. *)
linkSend(frame) ==
    /\ Give
    /\ \E torn \in BOOLEAN :
         link' = UntilRefused([d \in Devices |-> sendRaw(link[d], frame, torn)],
                              {d \in relicLinks : Refuses(link[d])})
    /\ UNCHANGED <<takePending, waited, shadow, cued, quit>>

linkPixels ==
    /\ Give
    /\ link' = UntilRefused([d \in Devices |-> [link[d] EXCEPT !.mode = "pixels"]], {})
    /\ UNCHANGED <<takePending, waited, shadow, cued, quit>>

linkCue ==
    /\ Give
    /\ \E torn \in BOOLEAN :
         link' = UntilRefused([d \in Devices |->
                                 release([link[d] EXCEPT !.mode = "cue"], torn)], {})
    /\ UNCHANGED <<takePending, waited, shadow, cued, quit>>

linkRelease ==
    /\ Give
    /\ relicLinks # {}
    /\ takePending' = FALSE
    /\ \E torn \in BOOLEAN :
         link' = UntilRefused([d \in Devices |-> release(link[d], torn)],
                              {d \in relicLinks : Refuses(link[d])})
    /\ UNCHANGED <<waited, shadow, cued, quit>>

linkBootsel ==
    /\ Give
    /\ \E torn \in BOOLEAN :
         link' = UntilRefused([d \in Devices |-> rebootToBootloader(link[d], torn)],
                              {d \in relicLinks : Refuses(link[d])})
    /\ UNCHANGED <<takePending, waited, shadow, cued, quit>>

(* `base`: a cue and a sim for each; the shadow may spawn the look. *)
base ==
    /\ Give
    /\ relicLinks # {}
    /\ \E torn \in BOOLEAN :
         LET cue == [d \in Devices |-> sendRaw(link[d], "command", torn)]
             refusing == {d \in relicLinks : Refuses(link[d]) \/ Refuses(cue[d])}
             after == [d \in Devices |-> IF Refuses(link[d]) THEN cue[d]
                                         ELSE sendRaw(cue[d], "sim", torn)]
         IN  /\ link' = UntilRefused(after, refusing)
             /\ shadow' \in IF refusing = {} THEN {shadow, TRUE} ELSE {shadow}
    /\ UNCHANGED <<takePending, waited, cued, quit>>

(* `state`: the cue goes to the relics in cue mode, then to the desk's own  *)
(* machine, which may not know the name; it is the last cue if somebody did. *)
state ==
    /\ Give
    /\ \E torn, known \in BOOLEAN :
         LET cueRelics == {d \in relicLinks : link[d].mode = "cue"}
             refusing == {d \in cueRelics : Refuses(link[d])}
             after == [d \in Devices |-> IF d \in cueRelics
                                         THEN sendRaw(link[d], "command", torn) ELSE link[d]]
         IN  /\ link' = UntilRefused(after, refusing)
             /\ cued' = (cued \/ (refusing = {} /\ known))
    /\ UNCHANGED <<takePending, waited, shadow, quit>>

EndShow(links, torn) ==
    /\ phase' = "ended"
    /\ link' = [d \in Devices |-> Shut(links[d], torn)]

Quit ==
    /\ phase = "commands" /\ given < MaxCommands
    /\ given' = given + 1
    /\ quit' = TRUE
    /\ \E torn \in BOOLEAN : EndShow(link, torn)
    /\ UNCHANGED <<turn, takePending, waited, shadow, cued, relicVars, pulls>>

handleCommand ==
    \/ linkTake
    \/ \E frame \in {"sim", "command"} : linkSend(frame)
    \/ linkPixels \/ linkCue \/ linkRelease \/ linkBootsel
    \/ base \/ state \/ Quit

-----------------------------------------------------------------------------
(* The rest of a frame. *)

Onward(next) ==
    /\ turn' = IF turn < N THEN turn + 1 ELSE 1
    /\ phase' = IF turn < N THEN phase ELSE next

(* The queue of commands is empty; the frame's clock is read. *)
BeginFrame ==
    /\ phase = "commands"
    /\ phase' = "retry"
    /\ waited' = IF takePending /\ waited \in 1..TakeWait THEN waited + 1 ELSE waited
    /\ UNCHANGED <<link, turn, takePending, shadow, cued, quit, relicVars, bounds>>

(* A device without a wire, when its time to ask has come and a relic answers. *)
Attach ==
    /\ ~link[turn].live /\ plugged[turn]
    /\ LET l == attachWire(turn, link[turn].patch)
       IN  link' = [link EXCEPT ![turn] = IF l.mode = "cue" /\ cued
                                          THEN sendRaw(l, "command", FALSE) ELSE l]

Retry ==
    /\ phase = "retry"
    /\ Onward("send")
    /\ Attach \/ UNCHANGED link
    /\ UNCHANGED <<takePending, waited, shadow, cued, quit, relicVars, bounds>>

NotDue ==
    /\ phase = "send"
    /\ Onward("drain")
    /\ UNCHANGED <<link, takePending, waited, shadow, cued, quit, relicVars, bounds>>

Send ==
    /\ phase = "send" /\ link[turn].live
    /\ \E torn \in BOOLEAN :
         LET l == link[turn]
             links == [link EXCEPT ![turn] = sendFrame(l, torn)]
         IN  IF FrameFails(l)
             THEN EndShow(links, torn) /\ UNCHANGED turn
             ELSE link' = links /\ Onward("drain")
    /\ UNCHANGED <<takePending, waited, shadow, cued, quit, relicVars, bounds>>

(* drainRelicLines: a hello names the profile and may drop the shadow, a   *)
(* sim spawns it, or drops it when no look of that name can be made.       *)
Heard ==
    IF ~link[turn].live \/ link[turn].port # "open" THEN {shadow}
    ELSE CASE said[turn] = "nothing" -> {shadow}
           [] said[turn] = "hello" -> {shadow, FALSE}
           [] said[turn] = "sim" -> {TRUE, FALSE}

TakeDue_ShadowOnly(live, w) == live     (* mutant: no way out without an answer *)
TakeDue(live, w) == live \/ w > TakeWait

(* Read the relic, stamp and start a pending take, and every few seconds   *)
(* ask a streaming relic for its clocks again.                             *)
Drain ==
    /\ phase = "drain"
    /\ Onward("commands")
    /\ shadow' \in Heard
    /\ said' = IF link[turn].live /\ link[turn].port = "open"
               THEN [said EXCEPT ![turn] = "nothing"] ELSE said
    /\ IF ~link[turn].live THEN UNCHANGED <<link, takePending, waited>>
       ELSE LET stamped == IF takePending /\ waited = 0 THEN 1 ELSE waited
            IN  /\ waited' = stamped
                /\ IF takePending /\ ~isStreaming(link[turn]) /\ TakeDue(shadow', stamped)
                   THEN /\ link' = [link EXCEPT ![turn].streaming = TRUE]
                        /\ takePending' = FALSE
                   ELSE /\ \/ UNCHANGED link
                           \/ /\ isStreaming(link[turn]) /\ shadow'
                              /\ \E torn \in BOOLEAN :
                                   link' = [link EXCEPT ![turn] = sendRaw(@, "sim", torn)]
                        /\ UNCHANGED takePending
    /\ UNCHANGED <<cued, quit, plugged, owned, bounds>>

-----------------------------------------------------------------------------
(* The relics and their cables. *)

(* A relic reads what is next on its cable. Behind a torn frame its reader *)
(* may take the next one for the rest of it. A sim may be dropped from a   *)
(* full queue of commands.                                                 *)
Read(d) ==
    /\ plugged[d] /\ link[d].cable # <<>>
    /\ LET frame == Head(link[d].cable)
           rest == Tail(link[d].cable)
       IN  /\ \/ link' = [link EXCEPT ![d] = Drained(@, IF frame = "reboot" THEN <<>> ELSE rest)]
              \/ /\ frame = "torn" /\ rest # <<>>
                 /\ link' = [link EXCEPT ![d] = Drained(@, Tail(rest))]
           /\ owned' = [owned EXCEPT ![d] = CASE frame = "pixels" -> TRUE
                                              [] frame \in {"release", "reboot"} -> FALSE
                                              [] OTHER -> @]
           /\ plugged' = [plugged EXCEPT ![d] = frame # "reboot"]
           /\ said' \in CASE frame = "hello" /\ said[d] = "nothing" ->
                                  {[said EXCEPT ![d] = "hello"]}
                          [] frame = "sim" -> {said, [said EXCEPT ![d] = "sim"]}
                          [] OTHER -> {said}
    /\ UNCHANGED <<showVars, bounds>>

(* The holdover: no pixel frame for half a second. *)
Lapse_Plugged(d) ==     (* mutant: only counted while the cable is in *)
    /\ plugged[d]
    /\ owned[d] /\ ~Flying(link[d])
    /\ owned' = [owned EXCEPT ![d] = FALSE]
    /\ UNCHANGED <<link, showVars, plugged, said, bounds>>

Lapse(d) ==
    /\ owned[d] /\ ~Flying(link[d])
    /\ owned' = [owned EXCEPT ![d] = FALSE]
    /\ UNCHANGED <<link, showVars, plugged, said, bounds>>

(* The cable is pulled; a relic that lives on its power starts afresh.     *)
Pull(d) ==
    /\ plugged[d] /\ pulls < MaxPulls
    /\ pulls' = pulls + 1
    /\ plugged' = [plugged EXCEPT ![d] = FALSE]
    /\ owned' \in {owned, [owned EXCEPT ![d] = FALSE]}
    /\ said' = [said EXCEPT ![d] = "nothing"]
    /\ link' = [link EXCEPT ![d].cable = <<>>,
                            ![d].port = IF @ = "open" THEN "lost" ELSE @]
    /\ UNCHANGED <<showVars, given>>

(* It is put in, or a relic comes back from its boot loader. *)
Plug(d) ==
    /\ ~plugged[d]
    /\ plugged' = [plugged EXCEPT ![d] = TRUE]
    /\ UNCHANGED <<link, showVars, owned, said, bounds>>

Loop == BeginFrame \/ Retry \/ NotDue \/ Send \/ Drain

Next ==
    \/ handleCommand
    \/ Loop
    \/ \E d \in Devices : Read(d) \/ Lapse(d) \/ Pull(d) \/ Plug(d)

Spec == Init /\ [][Next]_vars

(* The loop never stops by itself, a device's time to be sent a frame comes *)
(* round, and a relic keeps reading and counting.                          *)
FairSpec ==
    /\ Spec
    /\ WF_vars(Loop)
    /\ \A d \in Devices : /\ SF_vars(Send /\ turn = d)
                          /\ WF_vars(Read(d))
                          /\ WF_vars(Lapse(d))

-----------------------------------------------------------------------------
(* A stream the show may end over: its patch makes no frame, its cable is  *)
(* out, or this is the last of MAX_CONSECUTIVE_FAILURES writes that found   *)
(* no room, and the relic made none between them.                          *)
Hopeless(l) ==
    /\ isStreaming(l)
    /\ \/ ~l.patch
       \/ l.port # "open"
       \/ ~HasRoom(l) /\ l.stuck + 1 >= MAX_CONSECUTIVE_FAILURES

(* The show ends by itself only over a stream that is hopeless. A relic in *)
(* cue mode or a released one cannot end it, however its writes fail, nor   *)
(* one that is merely behind: as long as a relic makes room now and then,  *)
(* the writes that fail in between never add up (sendRaw, sendFrame).      *)
EndsOnlyBlocked ==
    [][phase' = "ended" /\ phase # "ended" /\ ~quit' =>
         \E d \in Devices : Hopeless(link[d])]_vars

(* A relic the desk does not stream to draws for itself again, whatever    *)
(* was lost on the way and also after the show (release, close, holdover). *)
HandedBack ==
    \A d \in Devices :
        ~isStreaming(link[d]) \/ phase = "ended" ~>
            ~owned[d] \/ (isStreaming(link[d]) /\ phase # "ended")

(* A show that streams into a cable that is out says so by ending: it is   *)
(* not left rendering for nobody (sendRaw, MAX_CONSECUTIVE_FAILURES).      *)
LostCableEndsShow ==
    \A d \in Devices :
        isStreaming(link[d]) /\ link[d].port = "lost" ~>
            phase = "ended" \/ ~isStreaming(link[d])

(* A take does not wait for ever for a relic that does not answer `sim`    *)
(* (main.cpp, the frame loop's 0.75 s).                                    *)
TakeHappens ==
    takePending /\ (\E d \in Devices : link[d].live /\ ~isStreaming(link[d])) ~>
        ~takePending \/ phase = "ended" \/ \A d \in relicLinks : isStreaming(link[d])

(* The desk's link is a Handover: no relic is taken but by a frame from a  *)
(* desk that was streaming to it.                                          *)
Abstract == INSTANCE Handover WITH
    Sculptures <- Devices,
    wanted <- [d \in Devices |-> isStreaming(link[d])],
    flying <- [d \in Devices |-> Flying(link[d])],
    taken <- owned

ImplementsHandover == Abstract!Spec
=============================================================================
