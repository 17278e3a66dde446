---------------------------- MODULE FrameReader ----------------------------
(***************************************************************************)
(* elink frames: writeFrame at the desk, a wire that loses and damages     *)
(* bytes, and the byte-at-a-time FrameReader of the relic                  *)
(* (lib/src/elink/frame.cpp).                                              *)
(*                                                                         *)
(* A byte is its value and, for the two checksum bytes of a frame, the     *)
(* half of the checksum it is and what that checksum was computed over.    *)
(* The checksum is ideal: two halves match exactly the bytes they were     *)
(* computed over. Read as anything else a checksum byte is just its value. *)
(***************************************************************************)
EXTENDS Integers, Sequences

CONSTANTS
    ByteValues,   (* bound: bytes take the values 0..ByteValues-1 *)
    MAGIC_0,
    MAGIC_1,
    MAX_PAYLOAD,
    Hello,        (* FrameType::Hello, the type the reader starts with *)
    Frames,       (* what the desk sends: records of a type and a payload *)
    CrcValues,    (* the values of the low and the high checksum byte *)
    MaxFaults     (* bound: the bytes the wire loses or damages *)

Byte == 0..(ByteValues - 1)

ASSUME MagicAssumption == /\ ByteValues \in Nat
                          /\ MAGIC_0 \in Byte /\ MAGIC_1 \in Byte
                          /\ MAGIC_0 # MAGIC_1
                          /\ Hello \in Byte
ASSUME PayloadAssumption == /\ MAX_PAYLOAD \in Nat \ {0}
                            /\ MAX_PAYLOAD < ByteValues * ByteValues
                            /\ MaxFaults \in Nat
ASSUME FramesAssumption ==
    /\ \A f \in Frames : /\ f.type \in Byte
                         /\ f.payload \in Seq(Byte)
                         /\ Len(f.payload) <= MAX_PAYLOAD
                         /\ f = [type |-> f.type, payload |-> f.payload]
    /\ CrcValues \in Byte \X Byte

VARIABLES
    pending,       (* the rest of the frame the desk is writing *)
    faults,        (* how many bytes the wire may still lose or damage *)
    state,
    frameType,
    payloadLength,
    buffer,        (* buffer[0..received), as values *)
    runningCrc,    (* the bytes the running checksum covers *)
    statedCrc,     (* the low checksum byte read *)
    returned,      (* push() returned true for the last byte *)
    last           (* history: the frame it last returned true for *)

cableVars == <<pending, faults>>
readerVars == <<state, frameType, payloadLength, buffer, runningCrc, statedCrc, returned, last>>
frameVars == <<cableVars, readerVars>>

NoFrame == [type |-> -1, payload |-> <<>>]
NoSeal == [half |-> 0, over |-> <<>>]

States == {"Magic0", "Magic1", "Type", "LengthLow", "LengthHigh", "Payload",
           "CrcLow", "CrcHigh"}

-----------------------------------------------------------------------------
(* writeFrame. *)
Plain(v) == [value |-> v, seal |-> NoSeal]
Covered(f) == <<f.type, Len(f.payload) % ByteValues, Len(f.payload) \div ByteValues>> \o f.payload
writeFrame(f) ==
    [i \in 1..(Len(Covered(f)) + 4) |->
        IF i = 1 THEN Plain(MAGIC_0)
        ELSE IF i = 2 THEN Plain(MAGIC_1)
        ELSE IF i <= Len(Covered(f)) + 2 THEN Plain(Covered(f)[i - 2])
        ELSE LET half == i - Len(Covered(f)) - 2
             IN  [value |-> CrcValues[half], seal |-> [half |-> half, over |-> Covered(f)]]]

(* The checksum halves that exist at all, and the bytes there can be. *)
Seals == {NoSeal} \cup {[half |-> h, over |-> Covered(f)] : h \in 1..2, f \in Frames}
WireByte == [value : Byte, seal : Seals]

(* frame.cpp:184: the reader never writes past its buffer, whatever length *)
(* a damaged or misread header claims.                                     *)
BufferInBounds ==
    /\ Len(buffer) <= MAX_PAYLOAD
    /\ state = "Payload" => Len(buffer) < payloadLength /\ payloadLength <= MAX_PAYLOAD

FrameTypeOK ==
    /\ pending \in Seq(WireByte)
    /\ faults \in 0..MaxFaults
    /\ state \in States
    /\ frameType \in Byte
    /\ payloadLength \in Nat
    /\ buffer \in Seq(Byte)
    /\ runningCrc \in Seq(Byte)
    /\ statedCrc \in Seals
    /\ returned \in BOOLEAN
    /\ BufferInBounds

-----------------------------------------------------------------------------
FrameInit ==
    /\ pending = <<>>
    /\ faults = MaxFaults
    /\ state = "Magic0"
    /\ frameType = Hello
    /\ payloadLength = 0
    /\ buffer = <<>>
    /\ runningCrc = <<>>
    /\ statedCrc = NoSeal
    /\ returned = FALSE
    /\ last = NoFrame

(* FrameReader::push, one disjunct for each state it can be in. *)
Magic0(b) ==
    /\ state = "Magic0"
    /\ state' = IF b.value = MAGIC_0 THEN "Magic1" ELSE "Magic0"
    /\ returned' = FALSE
    /\ UNCHANGED <<frameType, payloadLength, buffer, runningCrc, statedCrc, last>>

Magic1(b) ==
    /\ state = "Magic1"
    /\ state' = IF b.value = MAGIC_1 THEN "Type"
                ELSE IF b.value = MAGIC_0 THEN "Magic1" ELSE "Magic0"
    /\ runningCrc' = IF b.value = MAGIC_1 THEN <<>> ELSE runningCrc
    /\ returned' = FALSE
    /\ UNCHANGED <<frameType, payloadLength, buffer, statedCrc, last>>

Type_NotCovered(b) ==        (* mutant: the checksum does not take in the type *)
    /\ state = "Type"
    /\ state' = "LengthLow"
    /\ frameType' = b.value
    /\ runningCrc' = Append(runningCrc, 1)
    /\ returned' = FALSE
    /\ UNCHANGED <<payloadLength, buffer, statedCrc, last>>

Type(b) ==
    /\ state = "Type"
    /\ state' = "LengthLow"
    /\ frameType' = b.value
    /\ runningCrc' = Append(runningCrc, b.value)
    /\ returned' = FALSE
    /\ UNCHANGED <<payloadLength, buffer, statedCrc, last>>

LengthLow(b) ==
    /\ state = "LengthLow"
    /\ state' = "LengthHigh"
    /\ payloadLength' = b.value
    /\ runningCrc' = Append(runningCrc, b.value)
    /\ returned' = FALSE
    /\ UNCHANGED <<frameType, buffer, statedCrc, last>>

LengthHigh_AnyLength(b) ==   (* mutant: a length is not checked against the buffer *)
    /\ state = "LengthHigh"
    /\ payloadLength' = payloadLength + ByteValues * b.value
    /\ runningCrc' = Append(runningCrc, b.value)
    /\ state' = IF payloadLength' = 0 THEN "CrcLow" ELSE "Payload"
    /\ buffer' = <<>>
    /\ returned' = FALSE
    /\ UNCHANGED <<frameType, statedCrc, last>>

LengthHigh(b) ==
    /\ state = "LengthHigh"
    /\ payloadLength' = payloadLength + ByteValues * b.value
    /\ runningCrc' = Append(runningCrc, b.value)
    /\ IF payloadLength' > MAX_PAYLOAD
         THEN state' = "Magic0" /\ UNCHANGED buffer
         ELSE /\ state' = IF payloadLength' = 0 THEN "CrcLow" ELSE "Payload"
              /\ buffer' = <<>>
    /\ returned' = FALSE
    /\ UNCHANGED <<frameType, statedCrc, last>>

Payload(b) ==
    /\ state = "Payload"
    /\ buffer' = Append(buffer, b.value)
    /\ runningCrc' = Append(runningCrc, b.value)
    /\ state' = IF Len(buffer') >= payloadLength THEN "CrcLow" ELSE "Payload"
    /\ returned' = FALSE
    /\ UNCHANGED <<frameType, payloadLength, statedCrc, last>>

CrcLow(b) ==
    /\ state = "CrcLow"
    /\ state' = "CrcHigh"
    /\ statedCrc' = b.seal
    /\ returned' = FALSE
    /\ UNCHANGED <<frameType, payloadLength, buffer, runningCrc, last>>

(* statedCrc == runningCrc *)
Matches(low, high) ==
    /\ low = [half |-> 1, over |-> runningCrc]
    /\ high = [half |-> 2, over |-> runningCrc]

CrcHigh_Stuck(b) ==          (* mutant: a rejected frame is not left behind *)
    /\ state = "CrcHigh"
    /\ returned' = Matches(statedCrc, b.seal)
    /\ state' = IF returned' THEN "Magic0" ELSE "CrcHigh"
    /\ last' = IF returned' THEN [type |-> frameType, payload |-> buffer] ELSE last
    /\ UNCHANGED <<frameType, payloadLength, buffer, runningCrc, statedCrc>>

CrcHigh(b) ==
    /\ state = "CrcHigh"
    /\ state' = "Magic0"
    /\ returned' = Matches(statedCrc, b.seal)
    /\ last' = IF returned' THEN [type |-> frameType, payload |-> buffer] ELSE last
    /\ UNCHANGED <<frameType, payloadLength, buffer, runningCrc, statedCrc>>

push(b) ==
    \/ Magic0(b) \/ Magic1(b) \/ Type(b) \/ LengthLow(b) \/ LengthHigh(b)
    \/ Payload(b) \/ CrcLow(b) \/ CrcHigh(b)

isIdle == state = "Magic0"

-----------------------------------------------------------------------------
(* The wire. *)
Send(f) ==
    /\ pending = <<>>
    /\ pending' = writeFrame(f)
    /\ UNCHANGED <<faults, readerVars>>

Deliver ==
    /\ pending # <<>>
    /\ push(Head(pending))
    /\ pending' = Tail(pending)
    /\ UNCHANGED faults

(* The cable drops bytes, or was plugged in late: the relic never sees them. *)
Lose ==
    /\ pending # <<>> /\ faults > 0
    /\ pending' = Tail(pending)
    /\ faults' = faults - 1
    /\ UNCHANGED readerVars

Damage(v) ==
    /\ pending # <<>> /\ faults > 0
    /\ v # Head(pending).value
    /\ push(Plain(v))
    /\ pending' = Tail(pending)
    /\ faults' = faults - 1

FrameNext ==
    \/ \E f \in Frames : Send(f)
    \/ Deliver
    \/ Lose
    \/ \E v \in Byte : Damage(v)

FrameSpec == FrameInit /\ [][FrameNext]_frameVars

(* A desk that streams keeps writing frames, and the wire carries them. *)
FairFrameSpec == FrameSpec /\ WF_frameVars(\E f \in Frames : Send(f)) /\ WF_frameVars(Deliver)

-----------------------------------------------------------------------------
(* frame.h:24, frame.cpp:63: no loss or damage on the wire makes the       *)
(* reader hand up a frame that the desk did not write.                     *)
NoForgedFrame == last \in Frames \cup {NoFrame}

(* No magic pair behind the frame's own header, payload and checksum       *)
(* included: nothing in it a reader that starts late could take for one.   *)
Bare(f) == LET bytes == writeFrame(f)
           IN  \A i \in 3..(Len(bytes) - 1) :
                   ~(bytes[i].value = MAGIC_0 /\ bytes[i + 1].value = MAGIC_1)
BareStream == <>[](\A f \in Frames : pending = writeFrame(f) => Bare(f))

(* frame.h:94: the reader resyncs after garbage, a pulled cable or a       *)
(* mid-frame connect, and out of any frame it has imagined inside another, *)
(* once the desk's frames hold the magic only where they start. It need    *)
(* not while they go on holding it: a still picture may keep the reader in *)
(* imagined frames for ever (frame.h:24 says pixel data cannot fake one).  *)
Resyncs == BareStream => []<>returned
=============================================================================
