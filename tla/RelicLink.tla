----------------------------- MODULE RelicLink -----------------------------
(***************************************************************************)
(* The relic's end of the link, elink::RelicLink                           *)
(* (lib/src/elink/relic_link.cpp): it takes the bytes that have arrived    *)
(* within a budget, hands whole frames to their handlers and idle bytes to *)
(* the line a human types, and drops the desk's ownership of the pixels    *)
(* when no pixel frame has come for the holdover.                          *)
(*                                                                         *)
(* What arrives is a sequence of items rather than of bytes: a frame that  *)
(* passes FrameReader (its last byte is where it takes effect), bytes the  *)
(* reader swallows in mid frame without ever completing one, and the bytes *)
(* it is idle for. Budget and typed line count items. A command is the     *)
(* number of its arrival.                                                  *)
(***************************************************************************)
EXTENDS Integers, Sequences

CONSTANTS
    MAX_ITEMS_PER_TICK,     (* MAX_BYTES_PER_TICK, in items *)
    MAX_QUEUED_COMMANDS,
    MAX_TYPED_LINE,
    Holdover,               (* holdoverSeconds, in units of time *)
    MaxDelta,               (* bound: the longest tick *)
    MaxInbox,               (* bound: items waiting in the transport *)
    MaxCommands             (* bound: commands that ever get queued *)

ASSUME LimitsAssumption == /\ MAX_ITEMS_PER_TICK \in Nat \ {0}
                           /\ MAX_QUEUED_COMMANDS \in Nat \ {0}
                           /\ MAX_TYPED_LINE \in Nat \ {0}
                           /\ Holdover \in Nat \ {0}
ASSUME BoundsAssumption == /\ MaxDelta \in Nat \ {0}
                           /\ MaxInbox \in Nat \ {0}
                           /\ MaxCommands \in Nat

(* What only the desk writes, and what a human or a broken frame leaves.   *)
FrameItems == {"pixels", "badPixels", "command", "hello", "release", "reboot"}
LooseItems == {"midFrame", "newline", "printable", "unprintable"}
Items == FrameItems \cup LooseItems

VARIABLES
    inbox,        (* what readByte() has yet to return *)
    plugged,      (* the desk and its cable are there *)
    up,           (* the relic has not rebooted into the bootloader *)
    reading,      (* tick() is in its loop *)
    budget,       (* what the loop may still read *)
    streaming,
    silence,      (* saturates at the holdover, the only value it meets *)
    typed,        (* typed.size() *)
    commands,
    arrivals,     (* history: commands queued so far *)
    told          (* history: the last frame of this tick that takes or gives back *)

wireVars == <<inbox, plugged>>
loopVars == <<reading, budget>>
linkVars == <<streaming, silence, typed, commands>>
vars == <<wireVars, up, loopVars, linkVars, arrivals, told>>

TypeOK ==
    /\ inbox \in Seq(Items)
    /\ plugged \in BOOLEAN
    /\ up \in BOOLEAN
    /\ reading \in BOOLEAN
    /\ budget \in 0..MAX_ITEMS_PER_TICK
    /\ streaming \in BOOLEAN
    /\ silence \in 0..Holdover
    /\ typed \in 0..MAX_TYPED_LINE
    /\ commands \in Seq(Nat)
    /\ Len(commands) <= MAX_QUEUED_COMMANDS
    /\ arrivals \in Nat
    /\ told \in {"nothing", "pixels", "release"}

Init ==
    /\ inbox = <<>>
    /\ plugged = TRUE
    /\ up = TRUE
    /\ reading = FALSE
    /\ budget = 0
    /\ streaming = FALSE
    /\ silence = 0
    /\ typed = 0
    /\ commands = <<>>
    /\ arrivals = 0
    /\ told = "nothing"

-----------------------------------------------------------------------------
(* queueCommand: on a backlog the oldest is dropped. *)
queueCommand_RefusesNewest ==    (* mutant: a full queue turns the new one away *)
    /\ commands' = IF Len(commands) >= MAX_QUEUED_COMMANDS THEN commands
                   ELSE Append(commands, arrivals + 1)
    /\ arrivals' = arrivals + 1

queueCommand_Unbounded ==        (* mutant: nothing is dropped *)
    /\ commands' = Append(commands, arrivals + 1)
    /\ arrivals' = arrivals + 1

queueCommand ==
    /\ commands' = Append(IF Len(commands) >= MAX_QUEUED_COMMANDS THEN Tail(commands)
                          ELSE commands, arrivals + 1)
    /\ arrivals' = arrivals + 1

NoCommand == UNCHANGED <<commands, arrivals>>

(* applyPixels of a frame whose header parses, whatever strip it names. *)
applyPixels_KeepsSilence ==      (* mutant: later frames do not push the holdover out *)
    /\ streaming' = TRUE
    /\ silence' = IF streaming THEN silence ELSE 0
    /\ NoCommand
    /\ UNCHANGED up

applyPixels ==
    /\ streaming' = TRUE
    /\ silence' = 0
    /\ NoCommand
    /\ UNCHANGED up

(* handleFrame, and the typed line dropped after it. *)
handleFrame(type) ==
    /\ typed' = 0
    /\ told' = IF type \in {"pixels", "release"} THEN type ELSE told
    /\ \/ type = "pixels" /\ applyPixels
       \/ type = "command" /\ queueCommand /\ UNCHANGED <<streaming, silence, up>>
       \/ type = "release" /\ streaming' = FALSE /\ NoCommand /\ UNCHANGED <<silence, up>>
       \/ type = "reboot" /\ up' = FALSE /\ NoCommand /\ UNCHANGED <<streaming, silence>>
       \/ type \in {"badPixels", "hello"} /\ NoCommand /\ UNCHANGED <<streaming, silence, up>>

(* collectTyped, for a byte the reader was idle for. *)
collectTyped_MidShow(byte) ==    (* mutant: the line is gathered in a show as well *)
    /\ UNCHANGED <<streaming, silence, up, told>>
    /\ \/ byte = "newline" /\ typed > 0 /\ typed' = 0 /\ queueCommand
       \/ byte = "newline" /\ typed = 0 /\ UNCHANGED typed /\ NoCommand
       \/ byte = "unprintable" /\ typed' = 0 /\ NoCommand
       \/ /\ byte = "printable"
          /\ typed' = IF typed >= MAX_TYPED_LINE THEN 0 ELSE typed + 1
          /\ NoCommand

collectTyped(byte) ==
    /\ UNCHANGED <<streaming, silence, up, told>>
    /\ \/ byte = "newline" /\ typed > 0 /\ typed' = 0 /\ queueCommand
       \/ byte = "newline" /\ typed = 0 /\ UNCHANGED typed /\ NoCommand
       \/ byte = "unprintable" /\ typed' = 0 /\ NoCommand
       \/ /\ byte = "printable"
          /\ typed' = IF streaming \/ typed >= MAX_TYPED_LINE THEN 0 ELSE typed + 1
          /\ NoCommand

(* Bytes in mid frame: anything the line held was noise around it. *)
midFrame ==
    /\ typed' = 0
    /\ NoCommand
    /\ UNCHANGED <<streaming, silence, up, told>>

-----------------------------------------------------------------------------
(* tick(): the loop, item by item, then the holdover. *)
BeginTick ==
    /\ up /\ ~reading
    /\ reading' = TRUE
    /\ budget' = MAX_ITEMS_PER_TICK
    /\ told' = "nothing"
    /\ UNCHANGED <<wireVars, up, linkVars, arrivals>>

ReadItem_NoBudget ==             (* mutant: the loop drains whatever there is *)
    /\ up /\ reading /\ inbox # <<>>
    /\ inbox' = Tail(inbox)
    /\ \/ Head(inbox) \in FrameItems /\ handleFrame(Head(inbox))
       \/ Head(inbox) = "midFrame" /\ midFrame
       \/ Head(inbox) \in LooseItems \ {"midFrame"} /\ collectTyped(Head(inbox))
    /\ UNCHANGED <<plugged, reading, budget>>

ReadItem ==
    /\ up /\ reading /\ budget > 0 /\ inbox # <<>>
    /\ budget' = budget - 1
    /\ inbox' = Tail(inbox)
    /\ \/ Head(inbox) \in FrameItems /\ handleFrame(Head(inbox))
       \/ Head(inbox) = "midFrame" /\ midFrame
       \/ Head(inbox) \in LooseItems \ {"midFrame"} /\ collectTyped(Head(inbox))
    /\ UNCHANGED <<plugged, reading>>

Saturated(time) == IF time > Holdover THEN Holdover ELSE time

EndTick_HoldoverNotCounted(dt) ==  (* mutant: silence is only counted on a quiet tick *)
    /\ up /\ reading /\ (budget = 0 \/ inbox = <<>>)
    /\ reading' = FALSE
    /\ silence' = IF budget < MAX_ITEMS_PER_TICK THEN silence ELSE Saturated(silence + dt)
    /\ streaming' = (streaming /\ silence' < Holdover)
    /\ UNCHANGED <<wireVars, up, budget, typed, commands, arrivals, told>>

EndTick(dt) ==
    /\ up /\ reading /\ (budget = 0 \/ inbox = <<>>)
    /\ reading' = FALSE
    /\ silence' = Saturated(silence + dt)
    /\ streaming' = (streaming /\ silence' < Holdover)
    /\ UNCHANGED <<wireVars, up, budget, typed, commands, arrivals, told>>

(* Between two ticks the relic takes commands, oldest first. *)
takeCommand ==
    /\ up /\ ~reading /\ commands # <<>>
    /\ commands' = Tail(commands)
    /\ UNCHANGED <<wireVars, up, loopVars, streaming, silence, typed, arrivals, told>>

-----------------------------------------------------------------------------
(* The other end: bytes arrive at any time, the desk's until it is gone.   *)
CommandsAhead == Len(SelectSeq(inbox, LAMBDA i : i \in {"command", "newline"}))

Arrive(item) ==
    /\ Len(inbox) < MaxInbox
    /\ item \in FrameItems => plugged
    /\ item \in {"command", "newline"} => arrivals + CommandsAhead < MaxCommands
    /\ inbox' = Append(inbox, item)
    /\ UNCHANGED <<plugged, up, loopVars, linkVars, arrivals, told>>

(* The cable is pulled or the desk dies; what was on the way may be lost. *)
Unplug ==
    /\ plugged
    /\ plugged' = FALSE
    /\ \E kept \in 0..Len(inbox) : inbox' = SubSeq(inbox, 1, kept)
    /\ UNCHANGED <<up, loopVars, linkVars, arrivals, told>>

Next ==
    \/ BeginTick \/ ReadItem \/ (\E dt \in 0..MaxDelta : EndTick(dt)) \/ takeCommand
    \/ (\E item \in Items : Arrive(item)) \/ Unplug

Spec == Init /\ [][Next]_vars

(* The loop runs as long as the relic does, and not every tick is too      *)
(* short for its clock.                                                    *)
FairSpec == Spec /\ WF_vars(BeginTick) /\ WF_vars(ReadItem)
                 /\ WF_vars(\E dt \in 0..MaxDelta : EndTick(dt))
                 /\ SF_vars(\E dt \in 1..MaxDelta : EndTick(dt))

-----------------------------------------------------------------------------
(* relic_link.cpp:212: in a show nothing builds up in the typed line, so   *)
(* no newline among the pixel bytes can turn it into a command.            *)
NoTypingMidShow == streaming => typed = 0

(* relic_link.cpp:240: on a backlog the newest cues are the ones kept, in  *)
(* the order they came, with no gap: the queue is the end of what arrived. *)
BacklogIsNewest ==
    \A i \in 1..Len(commands) : commands[i] = arrivals - Len(commands) + i

(* relic_link.cpp:67, 101: of the pixel frames and releases that one tick   *)
(* reads the last decides who has the pixels when the tick ends: the       *)
(* silence before it does not take them back from a frame that has just    *)
(* come, nor does an earlier frame keep them from a release.               *)
LastFrameDecides ==
    [][reading /\ ~reading' /\ told # "nothing" => streaming' = (told = "pixels")]_vars

(* relic_link.h: a takeover ends on its own. Once the desk is gone the     *)
(* relic has its pixels back, whatever noise the dead cable still makes.   *)
TakeoverEnds == ~plugged ~> (~streaming \/ ~up)

(* relic_link.cpp:17: no sender, however fast, holds the loop in a tick.   *)
TickEnds == reading ~> (~reading \/ ~up)
=============================================================================
