------------------------------ MODULE Crossfade ------------------------------
(***************************************************************************)
(* What a machine that fades between looks promises to whoever watches the *)
(* rig: the picture is a set of looks; a fade raises the look asked for    *)
(* over the picture that was showing, whatever that was a mix of; a cut is *)
(* the only other way to change the picture.  Which state objects, buffers *)
(* and snapshots do it is not said.  esm::StateMachine is shown to         *)
(* implement it (StateMachine.tla).                                        *)
(***************************************************************************)
CONSTANTS
    Looks,   (* the looks the machine can be asked for *)
    None     (* no look *)

VARIABLES
    asked,   (* the look named by the last request *)
    under,   (* the looks of the picture a fade rises over *)
    shown    (* the looks of the picture on the rig *)

vars == <<asked, under, shown>>

TypeOK ==
    /\ asked \in Looks \cup {None}
    /\ under \in SUBSET Looks
    /\ shown \in SUBSET Looks

Init ==
    /\ asked = None
    /\ under = {}
    /\ shown = {}

Settled == under = {asked}

(* A request changes no frame already drawn: it says what the next ones    *)
(* rise over - what the rig has settled on, or the mix it is showing.      *)
Fade(s) ==
    /\ s # asked
    /\ asked' = s
    /\ under' = IF Settled THEN under ELSE shown
    /\ UNCHANGED shown

Cut(s) ==
    /\ s # asked
    /\ asked' = s
    /\ under' = {s}
    /\ UNCHANGED shown

(* A frame: the look asked for not yet or partly over the rest, or alone.  *)
Rise ==
    /\ asked # None
    /\ shown' \in {under, under \cup {asked}}
    /\ UNCHANGED <<asked, under>>

Land ==
    /\ asked # None
    /\ under' = {asked}
    /\ shown' = {asked}
    /\ UNCHANGED asked

(* A settled rig may move on by itself, and shows so in the same frame.    *)
Wander(s) ==
    /\ Settled /\ s # asked
    /\ asked' = s
    /\ \/ under' = under /\ shown' \in {under, under \cup {s}}
       \/ under' = {s} /\ shown' = {s}

Next == Rise \/ Land \/ \E s \in Looks : Fade(s) \/ Cut(s) \/ Wander(s)

Spec == Init /\ [][Next]_vars
=============================================================================
