----------------------------- MODULE LinkProofs -----------------------------
(***************************************************************************)
(* The relic's end of the cable, from the bytes up: the reader that makes  *)
(* frames of them (FrameReader), and the link that acts on frames and on   *)
(* the bytes between them (RelicLink).                                     *)
(*                                                                         *)
(* The reader, for every alphabet, buffer size, set of frames and number   *)
(* of faults, stays inside its buffer and never hands up a frame the desk  *)
(* did not write. The strengthening says what the running checksum covers  *)
(* while a frame is read: the type, the two length bytes and the payload   *)
(* so far, in the layout in which the desk computed its own.               *)
(*                                                                         *)
(* The link, for every limit, holdover and stream of items: the typed line *)
(* is empty in a show, the command queue is the end of what arrived, and   *)
(* on a relic whose ticks are shorter than the holdover a pixel frame      *)
(* holds the pixels through its tick.                                      *)
(***************************************************************************)
EXTENDS FrameReader, RelicLink, SequenceTheorems, TLAPS

LEMMA ByteFacts == /\ ByteValues \in Nat
                   /\ Byte \subseteq Int
                   /\ \A v \in Byte : v >= 0 /\ v < ByteValues
                   /\ MAGIC_0 \in Byte /\ MAGIC_1 \in Byte
                   /\ MAX_PAYLOAD \in Nat
                   /\ MaxFaults \in Nat
  BY MagicAssumption, PayloadAssumption DEF Byte

(* What a checksum covers: a type, a length, low byte first, and bytes. *)
Framed(type, low, high, bytes) == <<type, low, high>> \o bytes

Covers ==
    CASE state = "LengthLow" -> runningCrc = <<frameType>>
      [] state = "LengthHigh" -> runningCrc = <<frameType, payloadLength>>
      [] state \in {"Payload", "CrcLow", "CrcHigh"} ->
           \E low, high \in Byte : runningCrc = Framed(frameType, low, high, buffer)
      [] state = "Type" -> runningCrc = <<>>
      [] OTHER -> TRUE

IInv ==
    /\ FrameTypeOK
    /\ BufferInBounds
    /\ NoForgedFrame
    /\ Covers

(* Sequences that agree behind three elements agree in front of them too.   *)
LEMMA SameHeader ==
  \A a1, a2, a3, b1, b2, b3 : \A s, t \in Seq(Byte) :
    Framed(a1, a2, a3, s) = Framed(b1, b2, b3, t) => a1 = b1 /\ s = t
<1> USE DEF Framed
<1> TAKE a1, a2, a3, b1, b2, b3
<1> TAKE s, t \in Seq(Byte)
<1> HAVE Framed(a1, a2, a3, s) = Framed(b1, b2, b3, t)
<1> DEFINE x == <<a1, a2, a3>> \o s
           y == <<b1, b2, b3>> \o t
<1>1. x[1] = a1 /\ y[1] = b1
  OBVIOUS
<1>2. Len(x) = 3 + Len(s) /\ Len(y) = 3 + Len(t)
  OBVIOUS
<1>3. Len(s) = Len(t)
  BY <1>2
<1>4. ASSUME NEW i \in 1..Len(s) PROVE s[i] = t[i]
  <2>1. x[i + 3] = s[i] /\ y[i + 3] = t[i]
    BY <1>3
  <2> QED BY <2>1
<1>5. s = t
  BY <1>3, <1>4, SeqEqual
<1> QED BY <1>1, <1>5

LEMMA AppendOne ==
  ASSUME NEW S, NEW a \in S, NEW b \in S
  PROVE  Append(<<a>>, b) = <<a, b>>
<1> DEFINE x == Append(<<a>>, b)
           y == <<a, b>>
<1>1. x \in Seq(S) /\ y \in Seq(S) /\ Len(x) = 2 /\ Len(y) = 2
  OBVIOUS
<1>2. x[1] = y[1] /\ x[2] = y[2]
  OBVIOUS
<1> HIDE DEF x, y
<1>3. \A i \in 1..Len(x) : x[i] = y[i]
  BY <1>1, <1>2
<1>4. x = y
  BY <1>1, <1>3, SeqEqual
<1> QED BY <1>4 DEF x, y

LEMMA AppendTwo ==
  ASSUME NEW S, NEW a \in S, NEW b \in S, NEW c \in S
  PROVE  Append(<<a, b>>, c) = <<a, b, c>>
<1> DEFINE x == Append(<<a, b>>, c)
           y == <<a, b, c>>
<1>1. x \in Seq(S) /\ y \in Seq(S) /\ Len(x) = 3 /\ Len(y) = 3
  OBVIOUS
<1>2. x[1] = y[1] /\ x[2] = y[2] /\ x[3] = y[3]
  OBVIOUS
<1> HIDE DEF x, y
<1>3. \A i \in 1..Len(x) : x[i] = y[i]
  BY <1>1, <1>2
<1>4. x = y
  BY <1>1, <1>3, SeqEqual
<1> QED BY <1>4 DEF x, y

-----------------------------------------------------------------------------
(* What the desk writes is a sequence of bytes whose seals are its own.     *)
LEMMA LengthBytes ==
  ASSUME NEW n \in Nat, NEW b \in Nat, n < b * b
  PROVE  n % b \in 0..(b - 1) /\ n \div b \in 0..(b - 1)
<1>1. b \in Nat \ {0}
  OBVIOUS
<1> DEFINE q == n \div b
           r == n % b
<1>2. q \in Nat /\ r \in 0..(b - 1) /\ n = q * b + r
  BY <1>1
<1>3. q < b
  <2>1. ASSUME q >= b PROVE FALSE
    <3>1. q * b >= b * b
      BY <1>1, <1>2, <2>1
    <3> QED BY <1>2, <3>1
  <2> QED BY <1>2, <2>1
<1> QED BY <1>2, <1>3

LEMMA CoveredTypeOK ==
  ASSUME NEW f \in Frames
  PROVE  /\ Covered(f) \in Seq(Byte)
         /\ Len(Covered(f)) = Len(f.payload) + 3
         /\ f.payload \in Seq(Byte)
<1>1. f.type \in Byte /\ f.payload \in Seq(Byte) /\ Len(f.payload) \in Nat
      /\ Len(f.payload) <= MAX_PAYLOAD
  BY FramesAssumption
<1>2. Len(f.payload) % ByteValues \in Byte /\ Len(f.payload) \div ByteValues \in Byte
  <2>1. Len(f.payload) < ByteValues * ByteValues
    <3>1. ByteValues * ByteValues \in Nat
      BY ByteFacts
    <3> QED BY <1>1, <3>1, PayloadAssumption
  <2> QED BY <1>1, <2>1, LengthBytes, ByteFacts DEF Byte
<1> QED BY <1>1, <1>2 DEF Covered

LEMMA WriteFrameTypeOK ==
  ASSUME NEW f \in Frames
  PROVE  writeFrame(f) \in Seq(WireByte)
<1> DEFINE n == Len(Covered(f))
<1>1. n \in Nat /\ \A i \in 1..n : Covered(f)[i] \in Byte
  BY CoveredTypeOK
<1>2. ASSUME NEW v \in Byte PROVE Plain(v) \in WireByte
  BY DEF Plain, WireByte, Seals
<1>3. ASSUME NEW i \in 1..(n + 4) PROVE writeFrame(f)[i] \in WireByte
  <2>1. CASE i = 1
    <3>1. writeFrame(f)[i] = Plain(MAGIC_0)
      BY <2>1, <1>1 DEF writeFrame
    <3> QED BY <3>1, <1>2, ByteFacts
  <2>2. CASE i = 2
    <3>1. writeFrame(f)[i] = Plain(MAGIC_1)
      BY <2>2, <1>1 DEF writeFrame
    <3> QED BY <3>1, <1>2, ByteFacts
  <2>3. CASE i \in 3..(n + 2)
    <3>1. writeFrame(f)[i] = Plain(Covered(f)[i - 2]) /\ i - 2 \in 1..n
      BY <2>3, <1>1 DEF writeFrame
    <3> QED BY <3>1, <1>1, <1>2
  <2>4. CASE i \in (n + 3)..(n + 4)
    <3> DEFINE half == i - n - 2
    <3>1. half \in 1..2
      BY <2>4, <1>1
    <3>2. writeFrame(f)[i] = [value |-> CrcValues[half],
                              seal |-> [half |-> half, over |-> Covered(f)]]
      BY <2>4, <1>1 DEF writeFrame
    <3>3. CrcValues[half] \in Byte
      BY <3>1, FramesAssumption
    <3>4. [half |-> half, over |-> Covered(f)] \in Seals
      BY <3>1 DEF Seals
    <3> QED BY <3>2, <3>3, <3>4 DEF WireByte
  <2> QED BY <1>1, <2>1, <2>2, <2>3, <2>4
<1>4. writeFrame(f) \in [1..(n + 4) -> WireByte]
  BY <1>3 DEF writeFrame
<1> QED BY <1>1, <1>4

-----------------------------------------------------------------------------
(* The reader's share of the invariant, which push() keeps.                 *)
ReaderTypeOK ==
    /\ state \in States
    /\ frameType \in Byte
    /\ payloadLength \in Nat
    /\ buffer \in Seq(Byte)
    /\ runningCrc \in Seq(Byte)
    /\ statedCrc \in Seals
    /\ returned \in BOOLEAN

ReaderInv == ReaderTypeOK /\ BufferInBounds /\ NoForgedFrame /\ Covers

LEMMA IInvSplits == /\ IInv <=> /\ pending \in Seq(WireByte)
                                /\ faults \in 0..MaxFaults
                                /\ ReaderInv
                    /\ IInv' <=> /\ pending' \in Seq(WireByte)
                                 /\ faults' \in 0..MaxFaults
                                 /\ ReaderInv'
  BY DEF IInv, FrameTypeOK, ReaderInv, ReaderTypeOK

(* A checksum that matches was computed over a frame of the desk's, and the *)
(* reader holds that frame.                                                 *)
LEMMA MatchIsSent ==
  ASSUME ReaderInv, state = "CrcHigh", NEW b \in WireByte, Matches(statedCrc, b.seal)
  PROVE  [type |-> frameType, payload |-> buffer] \in Frames
<1>1. PICK low, high \in Byte : runningCrc = Framed(frameType, low, high, buffer)
  BY DEF ReaderInv, Covers
<1>2. statedCrc \in Seals /\ statedCrc # NoSeal
  BY DEF ReaderInv, ReaderTypeOK, Matches, NoSeal
<1>3. PICK f \in Frames : statedCrc.over = Covered(f)
  BY <1>2 DEF Seals
<1>4. runningCrc = Covered(f)
  BY <1>3 DEF Matches
<1>5. frameType = f.type /\ buffer = f.payload
  <2> DEFINE lo == Len(f.payload) % ByteValues
             hi == Len(f.payload) \div ByteValues
  <2>1. Covered(f) = Framed(f.type, lo, hi, f.payload)
    BY DEF Covered, Framed
  <2>2. buffer \in Seq(Byte) /\ f.payload \in Seq(Byte)
    BY CoveredTypeOK DEF ReaderInv, ReaderTypeOK
  <2>3. Framed(frameType, low, high, buffer) = Framed(f.type, lo, hi, f.payload)
    BY <1>1, <1>4, <2>1
  <2> HIDE DEF lo, hi
  <2> QED BY <2>2, <2>3, SameHeader
<1> QED BY <1>5, FramesAssumption

(* A payload byte that joins the buffer and the checksum keeps them in step. *)
LEMMA CoversGrows ==
  ASSUME NEW v \in Byte, NEW low \in Byte, NEW high \in Byte,
         frameType \in Byte, buffer \in Seq(Byte),
         runningCrc = Framed(frameType, low, high, buffer),
         runningCrc' = Append(runningCrc, v), buffer' = Append(buffer, v)
  PROVE  runningCrc' = Framed(frameType, low, high, buffer')
<1> DEFINE x == Append(<<frameType, low, high>> \o buffer, v)
           y == <<frameType, low, high>> \o Append(buffer, v)
<1>1. x \in Seq(Byte) /\ y \in Seq(Byte)
  OBVIOUS
<1>2. Len(x) = Len(buffer) + 4 /\ Len(y) = Len(buffer) + 4
  OBVIOUS
<1>3. \A i \in 1..Len(x) : x[i] = y[i]
  BY <1>2
<1>4. runningCrc' = x /\ Framed(frameType, low, high, buffer') = y
  BY DEF Framed
<1> HIDE DEF x, y
<1>5. x = y
  BY <1>1, <1>2, <1>3, SeqEqual
<1> QED BY <1>4, <1>5

LEMMA PushKeeps ==
  ASSUME ReaderInv, NEW b \in WireByte, push(b)
  PROVE  ReaderInv'
<1> USE ByteFacts DEF ReaderInv, ReaderTypeOK, States
<1>0. b.value \in Byte /\ b.seal \in Seals
  BY DEF WireByte
<1>a. returned' \in BOOLEAN
  BY DEF push, Magic0, Magic1, Type, LengthLow, LengthHigh, Payload, CrcLow, CrcHigh, Matches
<1>b. <<>> \in Seq(Byte) /\ Append(runningCrc, b.value) \in Seq(Byte)
      /\ Append(buffer, b.value) \in Seq(Byte) /\ Len(Append(buffer, b.value)) = Len(buffer) + 1
  BY <1>0
<1>c. b.value \in Nat
  BY <1>0 DEF Byte
<1>1. CASE Magic0(b)
  BY <1>1 DEF Magic0, BufferInBounds, NoForgedFrame, Covers
<1>2. CASE Magic1(b)
  <2>1. ReaderTypeOK'
    BY <1>2, <1>a, <1>b DEF Magic1
  <2> QED BY <1>2, <2>1 DEF Magic1, BufferInBounds, NoForgedFrame, Covers
<1>3. CASE Type(b)
  <2>1. ReaderTypeOK'
    BY <1>0, <1>3, <1>a, <1>b DEF Type
  <2>2. runningCrc' = <<b.value>>
    BY <1>0, <1>3 DEF Type, Covers
  <2> QED BY <1>3, <2>1, <2>2 DEF Type, BufferInBounds, NoForgedFrame, Covers
<1>4. CASE LengthLow(b)
  <2>1. ReaderTypeOK'
    BY <1>0, <1>4, <1>a, <1>b, <1>c DEF LengthLow
  <2>2. runningCrc' = <<frameType', payloadLength'>>
    <3>1. runningCrc = <<frameType>>
      BY <1>4 DEF LengthLow, Covers
    <3>2. runningCrc' = Append(<<frameType>>, b.value) /\ payloadLength' = b.value
          /\ frameType' = frameType
      BY <1>4, <3>1 DEF LengthLow
    <3>3. Append(<<frameType>>, b.value) = <<frameType, b.value>>
      BY <1>0, AppendOne
    <3> QED BY <3>2, <3>3, Zenon
  <2> QED BY <1>4, <2>1, <2>2 DEF LengthLow, BufferInBounds, NoForgedFrame, Covers
<1>5. CASE LengthHigh(b)
  <2>1. payloadLength' \in Nat
    <3>1. payloadLength + ByteValues * b.value \in Nat
      BY <1>c
    <3> QED BY <1>5, <3>1 DEF LengthHigh
  <2>2. ReaderTypeOK'
    BY <1>5, <2>1, <1>a, <1>b DEF LengthHigh
  <2>3. BufferInBounds'
    BY <1>5, <2>1 DEF LengthHigh, BufferInBounds
  <2>4. Covers'
    <3>1. CASE state' = "Magic0"
      BY <3>1 DEF Covers
    <3>2. CASE state' # "Magic0"
      <4>1. state' \in {"Payload", "CrcLow"} /\ buffer' = <<>> /\ frameType' = frameType
        BY <1>5, <3>2 DEF LengthHigh
      <4>2. runningCrc = <<frameType, payloadLength>>
        BY <1>5 DEF LengthHigh, Covers
      <4>3. payloadLength \in Byte
        <5>1. runningCrc[2] = payloadLength /\ 2 \in 1..Len(runningCrc)
          BY <4>2
        <5> QED BY <5>1, ElementOfSeq
      <4>4. runningCrc' = Append(<<frameType, payloadLength>>, b.value)
        BY <1>5, <4>2 DEF LengthHigh
      <4>5. Append(<<frameType, payloadLength>>, b.value)
              = <<frameType, payloadLength, b.value>> \o <<>>
        <5>1. Append(<<frameType, payloadLength>>, b.value) = <<frameType, payloadLength, b.value>>
          BY <1>0, <4>3, AppendTwo
        <5>2. <<frameType, payloadLength, b.value>> \in Seq(Nat)
          BY <1>c, <1>0 DEF Byte
        <5> QED BY <5>1, <5>2, ConcatEmptySeq
      <4>6. runningCrc' = Framed(frameType', payloadLength, b.value, buffer')
        BY <4>1, <4>4, <4>5 DEF Framed
      <4> QED BY <1>0, <4>1, <4>3, <4>6 DEF Covers
    <3> QED BY <3>1, <3>2
  <2> QED BY <1>5, <2>2, <2>3, <2>4 DEF LengthHigh, NoForgedFrame
<1>6. CASE Payload(b)
  <2>1. ReaderTypeOK'
    BY <1>6, <1>a, <1>b DEF Payload
  <2>2. BufferInBounds'
    <3>1. Len(buffer') = Len(buffer) + 1 /\ Len(buffer) \in Nat
      BY <1>6, <1>b DEF Payload
    <3> QED BY <1>6, <3>1 DEF Payload, BufferInBounds
  <2>3. Covers'
    <3>1. PICK low, high \in Byte : runningCrc = Framed(frameType, low, high, buffer)
      BY <1>6 DEF Payload, Covers
    <3>2. runningCrc' = Append(runningCrc, b.value) /\ buffer' = Append(buffer, b.value)
      BY <1>6 DEF Payload
    <3>3. runningCrc' = Framed(frameType, low, high, buffer')
      BY <1>0, <3>1, <3>2, CoversGrows
    <3>4. frameType' = frameType /\ state' \in {"Payload", "CrcLow"}
      BY <1>6 DEF Payload
    <3> QED BY <3>1, <3>3, <3>4 DEF Covers
  <2> QED BY <1>6, <2>1, <2>2, <2>3 DEF Payload, NoForgedFrame
<1>7. CASE CrcLow(b)
  <2>1. ReaderTypeOK' /\ BufferInBounds' /\ NoForgedFrame'
    BY <1>0, <1>7, <1>a DEF CrcLow, BufferInBounds, NoForgedFrame
  <2> QED BY <1>7, <2>1 DEF CrcLow, Covers
<1>8. CASE CrcHigh(b)
  <2>2. ReaderTypeOK' /\ BufferInBounds' /\ Covers'
    BY <1>8, <1>a DEF CrcHigh, BufferInBounds, Covers
  <2>3. NoForgedFrame'
    BY <1>8, MatchIsSent DEF CrcHigh, NoForgedFrame
  <2> QED BY <2>2, <2>3
<1> QED BY <1>1, <1>2, <1>3, <1>4, <1>5, <1>6, <1>7, <1>8 DEF push

LEMMA InitIInv == FrameInit => IInv
<1> SUFFICES ASSUME FrameInit PROVE IInv
  OBVIOUS
<1>1. FrameTypeOK
  <2>1. statedCrc \in Seals
    BY DEF FrameInit, Seals
  <2>2. returned \in BOOLEAN
    BY DEF FrameInit
  <2>3. pending \in Seq(WireByte) /\ buffer \in Seq(Byte) /\ runningCrc \in Seq(Byte)
    BY DEF FrameInit
  <2>4. faults \in 0..MaxFaults /\ payloadLength \in Nat
    BY ByteFacts DEF FrameInit
  <2>5. frameType \in Byte
    BY MagicAssumption DEF FrameInit
  <2> QED BY <2>1, <2>2, <2>3, <2>4, <2>5, ByteFacts
             DEF FrameInit, FrameTypeOK, BufferInBounds, States
<1> QED BY <1>1, ByteFacts DEF FrameInit, IInv, BufferInBounds, NoForgedFrame, Covers

LEMMA StepIInv == IInv /\ [FrameNext]_frameVars => IInv'
<1> SUFFICES ASSUME IInv, [FrameNext]_frameVars PROVE IInv'
  OBVIOUS
<1>0. pending \in Seq(WireByte) /\ faults \in 0..MaxFaults /\ ReaderInv
  BY IInvSplits
<1>2. ASSUME NEW f \in Frames, Send(f) PROVE IInv'
  <2>1. ReaderInv'
    BY <1>0, <1>2 DEF Send, readerVars, ReaderInv, ReaderTypeOK, BufferInBounds,
                      NoForgedFrame, Covers
  <2> QED BY <1>0, <1>2, <2>1, WriteFrameTypeOK, IInvSplits DEF Send
<1>3. CASE Deliver
  <2>1. Head(pending) \in WireByte /\ Tail(pending) \in Seq(WireByte)
    BY <1>0, <1>3 DEF Deliver
  <2> QED BY <1>0, <1>3, <2>1, PushKeeps, IInvSplits DEF Deliver
<1>4. CASE Lose
  <2>1. ReaderInv'
    BY <1>0, <1>4 DEF Lose, readerVars, ReaderInv, ReaderTypeOK, BufferInBounds,
                      NoForgedFrame, Covers
  <2> QED BY <1>0, <1>4, <2>1, ByteFacts, IInvSplits DEF Lose
<1>5. ASSUME NEW v \in Byte, Damage(v) PROVE IInv'
  <2>1. Plain(v) \in WireByte
    BY DEF Plain, WireByte, Seals
  <2>2. ReaderInv'
    BY <1>0, <1>5, <2>1, PushKeeps DEF Damage
  <2> QED BY <1>0, <1>5, <2>2, ByteFacts, IInvSplits DEF Damage
<1>6. CASE UNCHANGED frameVars
  BY <1>0, <1>6, IInvSplits DEF frameVars, cableVars, readerVars, ReaderInv, ReaderTypeOK,
                                BufferInBounds, NoForgedFrame, Covers
<1> QED BY <1>2, <1>3, <1>4, <1>5, <1>6 DEF FrameNext

LEMMA AlwaysIInv == FrameSpec => []IInv
  BY InitIInv, StepIInv, PTL DEF FrameSpec

(* Type correctness: what is read is bytes, and a stated checksum is one    *)
(* the desk computed or none.                                               *)
THEOREM FrameTypeCorrect == FrameSpec => []FrameTypeOK
<1>1. IInv => FrameTypeOK
  BY DEF IInv
<1> QED BY <1>1, AlwaysIInv, PTL

(* frame.cpp:184: buffer[received++] stays inside the buffer for any bytes. *)
THEOREM BufferNeverOverrun == FrameSpec => []BufferInBounds
<1>1. IInv => BufferInBounds
  BY DEF IInv
<1> QED BY <1>1, AlwaysIInv, PTL

(* frame.cpp:63: what passes the checksum was written by the desk, however  *)
(* many bytes the wire lost or damaged.                                     *)
THEOREM OnlySentFrames == FrameSpec => []NoForgedFrame
<1>1. IInv => NoForgedFrame
  BY DEF IInv
<1> QED BY <1>1, AlwaysIInv, PTL

-----------------------------------------------------------------------------
(* The last frame handled in this tick has left its mark until it ends.     *)
FreshFrame ==
    reading => /\ told = "pixels" => streaming /\ silence = 0
               /\ told = "release" => ~streaming

Inv ==
    /\ TypeOK
    /\ NoTypingMidShow
    /\ BacklogIsNewest
    /\ FreshFrame

(* What queueing one more command makes of the queue.                       *)
LEMMA QueueCommandKeeps ==
  ASSUME TypeOK, BacklogIsNewest, queueCommand
  PROVE  /\ commands' \in Seq(Nat) /\ Len(commands') <= MAX_QUEUED_COMMANDS
         /\ arrivals' \in Nat
         /\ BacklogIsNewest'
<1> DEFINE kept == IF Len(commands) >= MAX_QUEUED_COMMANDS THEN Tail(commands) ELSE commands
           dropped == IF Len(commands) >= MAX_QUEUED_COMMANDS THEN 1 ELSE 0
<1>1. commands \in Seq(Nat) /\ arrivals \in Nat /\ MAX_QUEUED_COMMANDS \in Nat \ {0}
      /\ Len(commands) \in Nat /\ Len(commands) <= MAX_QUEUED_COMMANDS
  BY LimitsAssumption DEF TypeOK
<1>2. /\ kept \in Seq(Nat)
      /\ Len(kept) = Len(commands) - dropped
      /\ \A i \in 1..Len(kept) : kept[i] = commands[i + dropped]
      /\ Len(kept) < MAX_QUEUED_COMMANDS
      /\ dropped \in Nat /\ Len(kept) \in Nat
  BY <1>1
<1> HIDE DEF kept
<1>3. commands' = Append(kept, arrivals + 1) /\ arrivals' = arrivals + 1
  BY DEF queueCommand, kept
<1>4. /\ commands' \in Seq(Nat)
      /\ Len(commands') = Len(kept) + 1
      /\ commands'[Len(kept) + 1] = arrivals + 1
      /\ \A i \in 1..Len(kept) : commands'[i] = kept[i]
  BY <1>1, <1>2, <1>3
<1> HIDE DEF dropped
<1>7. /\ arrivals' = arrivals + 1 /\ Len(commands') = Len(kept) + 1
      /\ Len(kept) = Len(commands) - dropped
      /\ arrivals \in Nat /\ Len(kept) \in Nat /\ Len(commands) \in Nat /\ dropped \in Nat
  BY <1>1, <1>2, <1>3, <1>4
<1>5. ASSUME NEW i \in 1..Len(commands') PROVE commands'[i] = arrivals' - Len(commands') + i
  <2>1. CASE i = Len(kept) + 1
    <3>1. commands'[i] = arrivals + 1
      BY <1>4, <2>1
    <3>2. arrivals' - Len(commands') + i = arrivals + 1
      BY <1>7, <2>1
    <3> QED BY <3>1, <3>2
  <2>2. CASE i \in 1..Len(kept)
    <3>1. i + dropped \in 1..Len(commands)
      BY <1>1, <1>2, <2>2
    <3>2. commands[i + dropped] = arrivals - Len(commands) + (i + dropped)
      BY <3>1 DEF BacklogIsNewest
    <3>3. commands'[i] = commands[i + dropped]
      BY <1>2, <1>4, <2>2
    <3>4. arrivals' - Len(commands') + i = arrivals - Len(commands) + (i + dropped)
      BY <1>7, <2>2
    <3> QED BY <3>2, <3>3, <3>4
  <2>3. i = Len(kept) + 1 \/ i \in 1..Len(kept)
    BY <1>7
  <2> QED BY <2>1, <2>2, <2>3
<1>6. BacklogIsNewest'
  BY <1>5 DEF BacklogIsNewest
<1> QED BY <1>1, <1>2, <1>3, <1>4, <1>6

LEMMA InitInv == Init => Inv
<1> SUFFICES ASSUME Init PROVE Inv
  OBVIOUS
<1>1. inbox \in Seq(Items) /\ commands \in Seq(Nat) /\ Len(commands) = 0
  BY DEF Init
<1>2. plugged \in BOOLEAN /\ up \in BOOLEAN /\ reading \in BOOLEAN /\ streaming \in BOOLEAN
  BY DEF Init
<1>3. TypeOK
  BY <1>1, <1>2, LimitsAssumption DEF Init, TypeOK
<1> QED BY <1>1, <1>3 DEF Init, Inv, NoTypingMidShow, BacklogIsNewest, FreshFrame

(* The share of the invariant one item of the loop can disturb.             *)
ItemInv ==
    /\ streaming \in BOOLEAN /\ silence \in 0..Holdover /\ typed \in 0..MAX_TYPED_LINE
    /\ up \in BOOLEAN /\ told \in {"nothing", "pixels", "release"}
    /\ commands \in Seq(Nat) /\ Len(commands) <= MAX_QUEUED_COMMANDS /\ arrivals \in Nat
    /\ NoTypingMidShow /\ BacklogIsNewest
    /\ told = "pixels" => streaming /\ silence = 0
    /\ told = "release" => ~streaming

LEMMA QueueKept == ASSUME ItemInv, TypeOK, NoCommand \/ queueCommand
                   PROVE  /\ commands' \in Seq(Nat) /\ Len(commands') <= MAX_QUEUED_COMMANDS
                          /\ arrivals' \in Nat /\ BacklogIsNewest'
<1>1. CASE NoCommand
  BY <1>1 DEF ItemInv, NoCommand, BacklogIsNewest
<1>2. CASE queueCommand
  BY <1>2, QueueCommandKeeps DEF ItemInv
<1> QED BY <1>1, <1>2

LEMMA HandleFrameKeeps ==
  ASSUME ItemInv, TypeOK, NEW type \in FrameItems, handleFrame(type)
  PROVE  ItemInv'
<1>1. NoCommand \/ queueCommand
  BY DEF handleFrame, applyPixels
<1>2. /\ typed' = 0 /\ 0 \in 0..MAX_TYPED_LINE /\ 0 \in 0..Holdover
      /\ told' = IF type \in {"pixels", "release"} THEN type ELSE told
  BY LimitsAssumption DEF handleFrame
<1>3. up' \in BOOLEAN /\ streaming' \in BOOLEAN /\ silence' \in 0..Holdover
  BY <1>2 DEF handleFrame, applyPixels, ItemInv
<1>4. /\ told' = "pixels" => streaming' /\ silence' = 0
      /\ told' = "release" => ~streaming'
  BY <1>2 DEF handleFrame, applyPixels, ItemInv
<1> QED BY <1>1, <1>2, <1>3, <1>4, QueueKept DEF ItemInv, NoTypingMidShow

LEMMA LooseByteKeeps ==
  ASSUME ItemInv, TypeOK, NEW byte, collectTyped(byte) \/ midFrame
  PROVE  ItemInv'
<1>1. NoCommand \/ queueCommand
  BY DEF collectTyped, midFrame
<1>2. UNCHANGED <<streaming, silence, up, told>>
  BY DEF collectTyped, midFrame
<1>3. typed' \in 0..MAX_TYPED_LINE /\ (streaming => typed' = 0)
  BY LimitsAssumption DEF collectTyped, midFrame, ItemInv, NoTypingMidShow
<1> QED BY <1>1, <1>2, <1>3, QueueKept DEF ItemInv, NoTypingMidShow

LEMMA StepInv == Inv /\ [Next]_vars => Inv'
<1> SUFFICES ASSUME Inv, [Next]_vars PROVE Inv'
  OBVIOUS
<1> USE LimitsAssumption, BoundsAssumption
<1>1. CASE BeginTick
  BY <1>1 DEF BeginTick, wireVars, linkVars, Inv, TypeOK, NoTypingMidShow, BacklogIsNewest,
              FreshFrame
<1>2. CASE ReadItem
  <2>1. ItemInv
    BY <1>2 DEF ReadItem, Inv, TypeOK, FreshFrame, ItemInv
  <2>2. Head(inbox) \in Items /\ Tail(inbox) \in Seq(Items)
    BY <1>2 DEF ReadItem, Inv, TypeOK
  <2>3. ItemInv'
    BY <1>2, <2>1, HandleFrameKeeps, LooseByteKeeps DEF ReadItem, Inv
  <2>4. inbox' \in Seq(Items) /\ budget' \in 0..MAX_ITEMS_PER_TICK
        /\ plugged' \in BOOLEAN /\ reading' \in BOOLEAN
    <3>1. budget - 1 \in 0..MAX_ITEMS_PER_TICK
      BY <1>2 DEF ReadItem, Inv, TypeOK
    <3> QED BY <1>2, <2>2, <3>1 DEF ReadItem, Inv, TypeOK
  <2> QED BY <2>3, <2>4 DEF ItemInv, Inv, TypeOK, FreshFrame
<1>3. ASSUME NEW dt \in 0..MaxDelta, EndTick(dt) PROVE Inv'
  <2>1. silence' \in 0..Holdover
    BY <1>3 DEF EndTick, Saturated, Inv, TypeOK
  <2>2. streaming' \in BOOLEAN /\ (streaming' => streaming) /\ ~reading'
    BY <1>3 DEF EndTick, Inv, TypeOK
  <2> QED BY <1>3, <2>1, <2>2 DEF EndTick, wireVars, Inv, TypeOK, NoTypingMidShow,
                                   BacklogIsNewest, FreshFrame
<1>4. CASE takeCommand
  <2>1. /\ commands' \in Seq(Nat) /\ Len(commands') = Len(commands) - 1
        /\ Len(commands) \in Nat /\ arrivals \in Nat
        /\ \A i \in 1..Len(commands') : commands'[i] = commands[i + 1]
    BY <1>4 DEF takeCommand, Inv, TypeOK
  <2>2. BacklogIsNewest'
    BY <1>4, <2>1 DEF takeCommand, Inv, BacklogIsNewest
  <2>3. TypeOK'
    BY <1>4, <2>1 DEF takeCommand, wireVars, loopVars, Inv, TypeOK
  <2> QED BY <1>4, <2>2, <2>3 DEF takeCommand, wireVars, loopVars, Inv, NoTypingMidShow, FreshFrame
<1>5. ASSUME NEW item \in Items, Arrive(item) PROVE Inv'
  <2>1. TypeOK'
    BY <1>5 DEF Arrive, loopVars, linkVars, Inv, TypeOK
  <2> QED BY <1>5, <2>1 DEF Arrive, loopVars, linkVars, Inv, NoTypingMidShow, BacklogIsNewest,
                            FreshFrame
<1>6. CASE Unplug
  <2>1. inbox' \in Seq(Items)
    <3>1. PICK kept \in 0..Len(inbox) : inbox' = SubSeq(inbox, 1, kept)
      BY <1>6 DEF Unplug
    <3> QED BY <3>1 DEF Inv, TypeOK
  <2>2. TypeOK'
    BY <1>6, <2>1 DEF Unplug, loopVars, linkVars, Inv, TypeOK
  <2> QED BY <1>6, <2>2 DEF Unplug, loopVars, linkVars, Inv, NoTypingMidShow, BacklogIsNewest,
                            FreshFrame
<1>7. CASE UNCHANGED vars
  BY <1>7 DEF vars, wireVars, loopVars, linkVars, Inv, TypeOK, NoTypingMidShow,
              BacklogIsNewest, FreshFrame
<1> QED BY <1>1, <1>2, <1>3, <1>4, <1>5, <1>6, <1>7 DEF Next

LEMMA AlwaysInv == Spec => []Inv
  BY InitInv, StepInv, PTL DEF Spec

(* Type correctness: the queue, the typed line and the budget keep their    *)
(* limits, whatever the cable carries.                                      *)
THEOREM TypeCorrect == Spec => []TypeOK
<1>1. Inv => TypeOK
  BY DEF Inv
<1> QED BY <1>1, AlwaysInv, PTL

(* relic_link.cpp:212: no line builds up while a desk streams, whatever     *)
(* bytes arrive and however the ticks cut them.                             *)
THEOREM NoTypingMidShowHolds == Spec => []NoTypingMidShow
<1>1. Inv => NoTypingMidShow
  BY DEF Inv
<1> QED BY <1>1, AlwaysInv, PTL

(* relic_link.cpp:240: the queue is the end of what arrived, in order, and  *)
(* within its cap.                                                          *)
THEOREM BacklogIsNewestHolds == Spec => []BacklogIsNewest
<1>1. Inv => BacklogIsNewest
  BY DEF Inv
<1> QED BY <1>1, AlwaysInv, PTL

(* relic_link.cpp:67, 101, on a relic that always ticks faster than its     *)
(* holdover: the last pixel frame or release of a tick decides who has the  *)
(* pixels at its end.                                                      *)
THEOREM LastFrameDecidesWhenQuick ==
  ASSUME MaxDelta < Holdover
  PROVE  Spec => LastFrameDecides
<1>1. ASSUME Inv, [Next]_vars, reading /\ ~reading', told # "nothing"
      PROVE  streaming' = (told = "pixels")
  <2>1. PICK dt \in 0..MaxDelta : EndTick(dt)
    BY <1>1 DEF Next, BeginTick, ReadItem, takeCommand, Arrive, Unplug, vars, loopVars
  <2>2. CASE told = "pixels"
    <3>1. streaming /\ silence = 0
      BY <1>1, <2>2 DEF Inv, FreshFrame
    <3>2. silence' < Holdover
      BY <2>1, <3>1, LimitsAssumption, BoundsAssumption DEF EndTick, Saturated
    <3> QED BY <2>1, <2>2, <3>1, <3>2 DEF EndTick
  <2>3. CASE told = "release"
    BY <1>1, <2>1, <2>3 DEF Inv, FreshFrame, EndTick
  <2> QED BY <1>1, <2>2, <2>3 DEF Inv, TypeOK
<1>2. Inv /\ [Next]_vars
        => [reading /\ ~reading' /\ told # "nothing" => streaming' = (told = "pixels")]_vars
  BY <1>1
<1> QED BY <1>2, AlwaysInv, PTL DEF Spec, LastFrameDecides
=============================================================================
