----------------------------- MODULE MCObelisk -----------------------------
(* An obelisk of two ambient looks and one of the scanner's.                *)
EXTENDS Obelisk
CONSTANTS arm

Ambient == {blobs, seasons}
Scanner == {arm}

Seconds(t) == [kind |-> "seconds", value |-> t]
Blend(instant) == [kind |-> "blend", value |-> instant]
Noise == [kind |-> "unknown", value |-> None]

(* `state` alone, with a time, with a blend, with both, and with what is    *)
(* neither; a name no look has; `sim` with and without a name; `switch`.    *)
Overrides == {<<>>, <<Seconds(2)>>, <<Seconds(-1), Noise>>, <<Blend(TRUE)>>,
              <<Seconds(0), Blend(FALSE)>>}
Cues == [verb : {"state"}, look : {blobs, seasons, arm}, words : Overrides]
          \cup [verb : {"state"}, look : {None}, words : {<<Seconds(1)>>}]
          \cup [verb : {"sim"}, look : {blobs, arm, None}, words : {<<>>}]
          \cup [verb : {"ask", "switch", "other"}, look : {None}, words : {<<>>}]
=============================================================================
