------------------------------ MODULE Handover ------------------------------
(***************************************************************************)
(* What the desk's link promises a sculpture, for any number of them: it   *)
(* is taken only by a frame on its cable, and a frame is on its cable only *)
(* from a desk that was streaming to it. Whether the desk wants it, and    *)
(* when the sculpture is its own again, are free.                          *)
(***************************************************************************)
CONSTANT Sculptures

VARIABLES
    wanted,     (* the desk streams to it *)
    flying,     (* a frame is on its way to it *)
    taken       (* the desk draws it *)

vars == <<wanted, flying, taken>>

Flags == [Sculptures -> BOOLEAN]

Init ==
    /\ wanted \in Flags
    /\ flying = [s \in Sculptures |-> FALSE]
    /\ taken = [s \in Sculptures |-> FALSE]

Next ==
    /\ wanted' \in Flags
    /\ flying' \in Flags
    /\ taken' \in Flags
    /\ \A s \in Sculptures :
         /\ flying'[s] => flying[s] \/ wanted[s]
         /\ taken'[s] => taken[s] \/ flying[s]

Spec == Init /\ [][Next]_vars
=============================================================================
