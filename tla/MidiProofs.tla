----------------------------- MODULE MidiProofs -----------------------------
(***************************************************************************)
(* What is proved of Midi for any ticks to a beat, any messages and any    *)
(* losses: it is well typed, each message is heard at its last byte, the   *)
(* grid is the song's and the tempo the music's.                           *)
(***************************************************************************)
EXTENDS Midi, TLAPS

(* A status that can be pending in the parser, a byte, what can be heard. *)
Framed == {"NoteOn", "ProgramChange", "SongPosition", "SongSelect"}
Byte == [status : Statuses \cup {None}, value : Values]
Heard == [status : Framed \cup Realtime \cup {None}, data1 : Values, data2 : Values]

ParserState == [runningStatus : Channel \cup {None}, status : Framed \cup {None},
                first : Values, collected : 0..1, wanted : 0..2]
ParserOK == parser \in ParserState

FollowerOK ==
    /\ follower \in [tickInBeat : Ticks, tickTimes : [Ticks -> 0..Longest],
                     tickCount : 0..kClocksPerBeat, tickWrite : Ticks]
    /\ alignRequested \in BOOLEAN /\ noteHolds \in BOOLEAN

SongOK ==
    /\ playing \in BOOLEAN /\ songTick \in Ticks /\ sinceTick \in 0..MaxPause
    /\ lost \in 0..MaxLost

LEMMA Clocks ==
  /\ kClocksPerBeat \in Nat /\ kClocksPerBeat >= 4
  /\ kClocksPerBeat = 4 * (kClocksPerBeat \div 4)
  /\ 0 \in Ticks /\ 1 \in Ticks
  /\ \A i \in Ticks : (i + 1) % kClocksPerBeat \in Ticks
<1>1. /\ kClocksPerBeat \in Nat /\ kClocksPerBeat >= 4
      /\ kClocksPerBeat = 4 * (kClocksPerBeat \div 4)
  BY ClocksAssumption
<1> QED BY <1>1 DEF Ticks

LEMMA Bounds == SlowestBeat \in Nat /\ MaxPause \in Nat /\ MaxLost \in Nat /\ Longest \in Nat
  BY BoundsAssumption DEF Longest

(* A sixteenth of the song is a tick of the beat. *)
LEMMA Sixteenths == \A n \in Nat : (n % 4) * (kClocksPerBeat \div 4) \in Ticks
<1> DEFINE q == kClocksPerBeat \div 4
<1>1. q \in Nat /\ q >= 1 /\ kClocksPerBeat = 4 * q /\ kClocksPerBeat \in Nat
  BY Clocks
<1> HIDE DEF q
<1> SUFFICES ASSUME NEW n \in Nat PROVE (n % 4) * q \in 0 .. (kClocksPerBeat - 1)
  BY DEF q, Ticks
<1>2. n % 4 \in {0, 1, 2, 3}
  OBVIOUS
<1>3. CASE n % 4 = 0
  BY <1>1, <1>3
<1>4. CASE n % 4 = 1
  BY <1>1, <1>4
<1>5. CASE n % 4 = 2
  BY <1>1, <1>5
<1>6. CASE n % 4 = 3
  BY <1>1, <1>6
<1> QED BY <1>2, <1>3, <1>4, <1>5, <1>6

LEMMA ByteShapes ==
  /\ \A s \in Statuses : Status(s) \in Byte /\ Status(s).status = s
  /\ \A v \in Values : Data(v) \in Byte /\ Data(v).status = None /\ Data(v).value = v
  BY ValuesAssumption DEF Status, Data, Byte

-----------------------------------------------------------------------------
(* The parser. *)

LEMMA DataBytes ==
  /\ \A s : dataBytesFor(s) \in 0..2
  /\ \A s \in Channel \cup System : dataBytesFor(s) # 0 => s \in Framed
  /\ \A s \in Channel : dataBytesFor(s) # 0
  /\ dataBytesFor(None) = 0
  BY DEF dataBytesFor, Framed, Channel, System, None

LEMMA ParserFields ==
  ASSUME NEW r \in Channel \cup {None}, NEW s \in Framed \cup {None}, NEW f \in Values,
         NEW c \in 0..1, NEW w \in 0..2
  PROVE  [runningStatus |-> r, status |-> s, first |-> f, collected |-> c, wanted |-> w]
            \in ParserState
  BY DEF ParserState

LEMMA FieldsOfParser ==
  ASSUME NEW p \in ParserState
  PROVE  /\ p.runningStatus \in Channel \cup {None} /\ p.status \in Framed \cup {None}
         /\ p.first \in Values /\ p.collected \in 0..1 /\ p.wanted \in 0..2
  BY DEF ParserState

(* A parser with some of its fields set anew is a parser. *)
LEMMA ParserSet ==
  ASSUME NEW p \in ParserState, NEW s \in Framed \cup {None}, NEW f \in Values,
         NEW c \in 0..1, NEW w \in 0..2
  PROVE  /\ [p EXCEPT !.status = s, !.first = f, !.collected = c, !.wanted = w] \in ParserState
         /\ [p EXCEPT !.first = f, !.collected = c] \in ParserState
  BY DEF ParserState

LEMMA ParserPending ==
  ASSUME NEW p \in ParserState, NEW s \in Framed \cup {None}, NEW c \in 0..1, NEW w \in 0..2
  PROVE  [p EXCEPT !.status = s, !.collected = c, !.wanted = w] \in ParserState
  BY DEF ParserState

LEMMA Small == 0 \in 0..1 /\ 1 \in 0..1 /\ 0 \in 0..2 /\ 0 \in Values
  BY ValuesAssumption

LEMMA ResumedTypes ==
  ASSUME NEW p \in ParserState
  PROVE  /\ Resumed(p) \in ParserState
         /\ Resumed(p).runningStatus = p.runningStatus /\ Resumed(p).first = p.first
         /\ p.wanted = 0 => /\ Resumed(p).status = p.runningStatus /\ Resumed(p).collected = 0
                            /\ Resumed(p).wanted = dataBytesFor(p.runningStatus)
         /\ p.wanted # 0 => Resumed(p) = p
<1>1. CASE p.wanted # 0
  BY <1>1 DEF Resumed
<1>2. CASE p.wanted = 0
  <2>1. p.runningStatus \in Framed \cup {None}
    BY DEF ParserState, Channel, Framed
  <2>2. dataBytesFor(p.runningStatus) \in 0..2
    BY DataBytes
  <2>3. Resumed(p) = [p EXCEPT !.status = p.runningStatus, !.collected = 0,
                               !.wanted = dataBytesFor(p.runningStatus)]
    BY <1>2 DEF Resumed
  <2>4. Resumed(p) \in ParserState
    <3> DEFINE s == p.runningStatus
               w == dataBytesFor(p.runningStatus)
    <3>1. s \in Framed \cup {None} /\ w \in 0..2 /\ 0 \in 0..1
      BY <2>1, <2>2
    <3>2. Resumed(p) = [p EXCEPT !.status = s, !.collected = 0, !.wanted = w]
      BY <2>3
    <3> HIDE DEF s, w
    <3>3. [p EXCEPT !.status = s, !.collected = 0, !.wanted = w] \in ParserState
      BY <3>1, ParserPending
    <3> QED BY <3>2, <3>3
  <2>5. /\ Resumed(p).runningStatus = p.runningStatus /\ Resumed(p).first = p.first
        /\ Resumed(p).status = p.runningStatus /\ Resumed(p).collected = 0
        /\ Resumed(p).wanted = dataBytesFor(p.runningStatus)
    BY <2>3 DEF ParserState
  <2> QED BY <1>2, <2>4, <2>5
<1> QED BY <1>1, <1>2

LEMMA FeedTypes ==
  ASSUME ParserOK, NEW byte \in Byte
  PROVE  feed(parser, byte) \in ParserState
<1>1. CASE byte.status \in Realtime
  BY <1>1 DEF feed, ParserOK
<1>2. CASE byte.status \notin Realtime /\ byte.status # None
  <2>1. byte.status \in Channel \cup System
    BY <1>2 DEF Byte, Statuses
  <2>2. feedStatus(byte.status) \in ParserState
    <3>1. IF dataBytesFor(byte.status) = 0 THEN None \in Framed \cup {None}
                                           ELSE byte.status \in Framed
      BY <2>1, DataBytes
    <3>2. (IF byte.status \in Channel THEN byte.status ELSE None) \in Channel \cup {None}
      OBVIOUS
    <3>3. (IF dataBytesFor(byte.status) = 0 THEN None ELSE byte.status) \in Framed \cup {None}
      BY <3>1
    <3>4. 0 \in Values /\ 0 \in 0..1 /\ dataBytesFor(byte.status) \in 0..2
      BY DataBytes, ValuesAssumption
    <3> QED BY <3>2, <3>3, <3>4, ParserFields DEF feedStatus
  <2> QED BY <1>2, <2>2 DEF feed
<1>3. CASE byte.status \notin Realtime /\ byte.status = None
  <2>1. Resumed(parser) \in ParserState
    BY ResumedTypes DEF ParserOK
  <2> DEFINE q == Resumed(parser)
  <2>2. [q EXCEPT !.first = byte.value, !.collected = 1] \in ParserState
    <3> HIDE DEF q
    <3>1. q \in ParserState
      BY <2>1 DEF q
    <3>2. byte.value \in Values
      BY DEF Byte
    <3> QED BY <3>1, <3>2, FieldsOfParser, ParserSet, Small
  <2>3. Idle(q) \in ParserState
    <3> HIDE DEF q
    <3>1. q \in ParserState
      BY <2>1 DEF q
    <3> QED BY <3>1, FieldsOfParser, ParserSet, Small DEF Idle
  <2>4. feed(parser, byte) \in {parser, [q EXCEPT !.first = byte.value, !.collected = 1], Idle(q)}
    <3> HIDE DEF q
    <3>1. feed(parser, byte) = IF parser.wanted = 0 /\ parser.runningStatus = None THEN parser
                               ELSE IF q.collected = 0 /\ q.wanted = 2
                               THEN [q EXCEPT !.first = byte.value, !.collected = 1]
                               ELSE Idle(q)
      BY <1>3 DEF feed, q
    <3> QED BY <3>1
  <2> QED BY <2>2, <2>3, <2>4 DEF ParserOK
<1> QED BY <1>1, <1>2, <1>3

(* Only a realtime byte is heard as a realtime message. *)
LEMMA HeardTypes ==
  ASSUME ParserOK, NEW byte \in Byte
  PROVE  /\ Completed(parser, byte) \in Heard
         /\ byte.status \notin Realtime => Completed(parser, byte).status \notin Realtime
<1> DEFINE q == Resumed(parser)
<1>1. q.status \in Framed \cup {None} /\ q.first \in Values
  BY ResumedTypes DEF ParserOK, ParserState
<1>2. byte.value \in Values /\ 0 \in Values
  BY ValuesAssumption DEF Byte
<1>3. Completed(parser, byte) \in
         {IF byte.status \in Realtime THEN Message(byte.status, 0, 0) ELSE Silence,
          Message(q.status, byte.value, 0), Message(q.status, q.first, byte.value)}
  <2> HIDE DEF q
  <2>1. Completed(parser, byte) =
          CASE byte.status \in Realtime -> Message(byte.status, 0, 0)
            [] byte.status = None /\ q.status # None /\ q.wanted = 1 ->
                 Message(q.status, byte.value, 0)
            [] byte.status = None /\ q.wanted = 2 /\ q.collected = 1 ->
                 Message(q.status, q.first, byte.value)
            [] OTHER -> Silence
    BY DEF Completed, q
  <2>2. CASE byte.status \in Realtime
    BY <2>1, <2>2 DEF Realtime, None
  <2> QED BY <2>1, <2>2
<1> HIDE DEF q
<1>4. \A s \in Framed \cup Realtime \cup {None}, v \in Values, w \in Values :
         Message(s, v, w) \in Heard /\ Message(s, v, w).status = s
  BY DEF Message, Heard
<1>5. Silence \in Heard /\ Silence.status = None
  BY <1>2, <1>4 DEF Silence
<1>6. \A s \in Framed \cup {None} : s \notin Realtime
  BY DEF Framed, Realtime, None
<1>7. Completed(parser, byte) \in Heard
  <2>1. /\ Message(q.status, byte.value, 0) \in Heard
        /\ Message(q.status, q.first, byte.value) \in Heard
    BY <1>1, <1>2, <1>4
  <2>2. byte.status \in Realtime => Message(byte.status, 0, 0) \in Heard
    BY <1>2, <1>4
  <2> QED BY <1>3, <1>5, <2>1, <2>2
<1>8. ASSUME byte.status \notin Realtime PROVE Completed(parser, byte).status \notin Realtime
  BY <1>1, <1>2, <1>3, <1>4, <1>5, <1>6, <1>8
<1> QED BY <1>7, <1>8

-----------------------------------------------------------------------------
(* The follower and the messages it is handed. *)

FollowerState == [tickInBeat : Ticks, tickTimes : [Ticks -> 0..Longest],
                  tickCount : 0..kClocksPerBeat, tickWrite : Ticks]

LEMMA ShortestTypes == \A n \in Nat : Shortest(n) \in 0..Longest
  BY Bounds DEF Shortest

LEMMA FollowTypes ==
  ASSUME NEW f \in FollowerState
  PROVE  /\ \A gap \in Nat : FollowClock(f, gap) \in FollowerState
         /\ FollowStart(f) \in FollowerState
         /\ \A m \in Heard : FollowSongPosition(f, m) \in FollowerState
         /\ \A t \in Ticks : [f EXCEPT !.tickInBeat = t] \in FollowerState
<1>1. /\ f.tickInBeat \in Ticks /\ f.tickTimes \in [Ticks -> 0..Longest]
      /\ f.tickCount \in 0..kClocksPerBeat /\ f.tickWrite \in Ticks
  BY DEF FollowerState
<1>2. ASSUME NEW gap \in Nat PROVE FollowClock(f, gap) \in FollowerState
  <2> DEFINE ages == [t \in Ticks |-> Shortest(f.tickTimes[t] + gap)]
  <2>1. \A t \in Ticks : Shortest(f.tickTimes[t] + gap) \in 0..Longest
    <3> TAKE t \in Ticks
    <3>1. f.tickTimes[t] \in 0..Longest
      BY <1>1
    <3>2. f.tickTimes[t] + gap \in Nat
      BY <3>1, Bounds
    <3> QED BY <3>2, ShortestTypes
  <2>2. ages \in [Ticks -> 0..Longest]
    BY <2>1
  <2> HIDE DEF ages
  <2>3. 0 \in 0..Longest
    BY Bounds
  <2>4. [ages EXCEPT ![f.tickWrite] = 0] \in [Ticks -> 0..Longest]
    BY <2>2, <2>3
  <2>5. (IF f.tickCount < kClocksPerBeat THEN f.tickCount + 1 ELSE f.tickCount)
          \in 0..kClocksPerBeat
    BY <1>1, Clocks
  <2>6. (f.tickInBeat + 1) % kClocksPerBeat \in Ticks /\ (f.tickWrite + 1) % kClocksPerBeat \in Ticks
    BY <1>1, Clocks
  <2> QED BY <2>4, <2>5, <2>6 DEF FollowClock, FollowerState, ages
<1>3. FollowStart(f) \in FollowerState
  <2>1. 0 \in Ticks /\ 0 \in 0..kClocksPerBeat
    BY Clocks
  <2> QED BY <2>1 DEF FollowStart, FollowerState
<1>4. \A t \in Ticks : [f EXCEPT !.tickInBeat = t] \in FollowerState
  BY DEF FollowerState
<1>5. ASSUME NEW m \in Heard PROVE FollowSongPosition(f, m) \in FollowerState
  <2>1. m.data1 + 128 * m.data2 \in Nat
    <3>1. m.data1 \in 0..127 /\ m.data2 \in 0..127
      BY ValuesAssumption DEF Heard
    <3>2. \A a, b \in 0..127 : a + 128 * b \in Nat
      OBVIOUS
    <3> QED BY <3>1, <3>2
  <2>2. ((m.data1 + 128 * m.data2) % 4) * (kClocksPerBeat \div 4) \in Ticks
    BY <2>1, Sixteenths
  <2> DEFINE t == ((m.data1 + 128 * m.data2) % 4) * (kClocksPerBeat \div 4)
  <2>3. t \in Ticks /\ FollowSongPosition(f, m) = [f EXCEPT !.tickInBeat = t]
    BY <2>2 DEF FollowSongPosition
  <2> HIDE DEF t
  <2> QED BY <2>3 DEF FollowerState
<1> QED BY <1>2, <1>3, <1>4, <1>5

LEMMA AlignedTypes ==
  ASSUME FollowerOK
  PROVE  /\ follower \in FollowerState /\ Aligned \in FollowerState
         /\ Aligned.tickTimes = follower.tickTimes /\ Aligned.tickCount = follower.tickCount
         /\ Aligned.tickWrite = follower.tickWrite
<1>1. follower \in FollowerState /\ [follower EXCEPT !.tickInBeat = 0] \in FollowerState
  BY Clocks, FollowTypes DEF FollowerOK, FollowerState
<1> QED BY <1>1 DEF Aligned, FollowerState

LEMMA HandleTypes ==
  ASSUME FollowerOK, NEW m \in Heard, NEW gap \in Nat, handleMessage(m, gap)
  PROVE  FollowerOK'
<1> DEFINE S == {FollowClock(Aligned, gap), FollowStart(Aligned), FollowSongPosition(Aligned, m),
                 Aligned, [follower EXCEPT !.tickInBeat = 1], follower}
<1>1. follower' \in S
  BY DEF handleMessage
<1>2. \A f \in S : f \in FollowerState
  BY AlignedTypes, FollowTypes, Clocks
<1>3. follower' \in FollowerState
  BY <1>1, <1>2
<1>4. alignRequested' \in BOOLEAN
  BY DEF handleMessage
<1>5. noteHolds' \in BOOLEAN
  BY DEF handleMessage
<1> QED BY <1>3, <1>4, <1>5 DEF FollowerOK, FollowerState

(* A message that is no tick, no start and no place in the song.            *)
LEMMA HandleKeepsWindow ==
  ASSUME FollowerOK, NEW m \in Heard, NEW gap, handleMessage(m, gap),
         m.status \notin {"Clock", "Start"}
  PROVE  /\ follower'.tickTimes = follower.tickTimes /\ follower'.tickCount = follower.tickCount
         /\ follower'.tickWrite = follower.tickWrite /\ Told(m, gap).tempo = 0
         /\ ~isBeatNote(m) /\ m.status \in Framed \cup {None} /\ m.status # "SongPosition"
              => follower' = follower
<1>1. follower' \in {FollowSongPosition(Aligned, m), Aligned,
                     [follower EXCEPT !.tickInBeat = 1], follower}
  BY DEF handleMessage
<1>2. Told(m, gap).tempo = 0
  BY DEF Told, Nothing
<1>3. /\ follower'.tickTimes = follower.tickTimes /\ follower'.tickCount = follower.tickCount
      /\ follower'.tickWrite = follower.tickWrite
  BY <1>1, AlignedTypes DEF FollowSongPosition, FollowerState
<1>4. ASSUME ~isBeatNote(m), m.status \in Framed \cup {None}, m.status # "SongPosition"
      PROVE  follower' = follower
  BY <1>4 DEF handleMessage, Framed, None
<1> QED BY <1>2, <1>3, <1>4

-----------------------------------------------------------------------------
(* A byte that arrives. *)

LEMMA RealtimeArrives ==
  ASSUME ParserOK, NEW s \in Realtime, NEW gap, Arrive(Status(s), gap, Message(s, 0, 0))
  PROVE  /\ parser' = parser /\ framed' = TRUE /\ lost' = lost
         /\ handleMessage(Message(s, 0, 0), gap)
         /\ inTempo' = (Told(Message(s, 0, 0), gap).tempo \in {0, kClocksPerBeat})
         /\ Message(s, 0, 0) \in Heard /\ Message(s, 0, 0).status = s
<1>1. Status(s).status = s /\ s \notin {None}
  BY DEF Status, Realtime, None
<1>2. Completed(parser, Status(s)) = Message(s, 0, 0)
  BY <1>1 DEF Completed
<1>3. feed(parser, Status(s)) = parser
  BY <1>1 DEF feed
<1>4. Message(s, 0, 0) \in Heard /\ Message(s, 0, 0).status = s
  BY ValuesAssumption DEF Message, Heard
<1> QED BY <1>2, <1>3, <1>4 DEF Arrive

LEMMA OtherArrives ==
  ASSUME ParserOK, FollowerOK, NEW byte \in Byte, byte.status \notin Realtime, NEW due,
         Arrive(byte, 0, due)
  PROVE  LET heard == Completed(parser, byte)
         IN  /\ ParserOK' /\ FollowerOK' /\ inTempo' = TRUE /\ lost' = lost
             /\ heard \in Heard /\ heard.status \in Framed \cup {None}
             /\ handleMessage(heard, 0) /\ parser' = feed(parser, byte) /\ framed' = (heard = due)
             /\ follower'.tickTimes = follower.tickTimes
             /\ follower'.tickCount = follower.tickCount
             /\ follower'.tickWrite = follower.tickWrite
             /\ ~isBeatNote(heard) /\ heard.status # "SongPosition" => follower' = follower
<1> DEFINE heard == Completed(parser, byte)
<1>1. heard \in Heard /\ heard.status \notin Realtime
  BY HeardTypes
<1>2. heard.status \in Framed \cup {None} /\ heard.status \notin {"Clock", "Start"}
  BY <1>1 DEF Heard, Realtime
<1>3. /\ parser' = feed(parser, byte) /\ framed' = (heard = due) /\ lost' = lost
      /\ handleMessage(heard, 0)
      /\ inTempo' = (Told(heard, 0).tempo \in {0, kClocksPerBeat})
  BY DEF Arrive
<1> HIDE DEF heard
<1>4. ParserOK'
  BY <1>3, FeedTypes DEF ParserOK
<1>5. FollowerOK'
  BY <1>1, <1>3, HandleTypes
<1>6. /\ follower'.tickTimes = follower.tickTimes
      /\ follower'.tickCount = follower.tickCount
      /\ follower'.tickWrite = follower.tickWrite
      /\ Told(heard, 0).tempo = 0
      /\ ~isBeatNote(heard) /\ heard.status # "SongPosition" => follower' = follower
  BY <1>1, <1>2, <1>3, HandleKeepsWindow
<1>7. inTempo' = TRUE
  BY <1>3, <1>6
<1> QED BY <1>1, <1>2, <1>3, <1>4, <1>5, <1>6, <1>7 DEF heard

-----------------------------------------------------------------------------
(* What the sequencer has yet to say of its message, and the parser that    *)
(* is ready for it.                                                         *)

(* The bytes to come are the last ones of the message's. *)
SayingOK ==
    /\ saying \in [message : Sayable \cup {Silence}, bytes : Seq(Byte)]
    /\ spoken \in Channel \cup {None}
    /\ saying.bytes # <<>> =>
         LET m == saying.message
             n == Len(Bytes(m))
         IN  /\ m \in Sayable
             /\ spoken = IF m.status \in Channel THEN m.status ELSE None
             /\ Len(saying.bytes) <= n
             /\ \A i \in 1 .. Len(saying.bytes) :
                   saying.bytes[i] = Bytes(m)[n - Len(saying.bytes) + i]

ReadyFor(p, m, left, running) ==
    LET k == dataBytesFor(m.status)
        q == Resumed(p)
    IN  /\ left = 0 => p.wanted = 0
        /\ left > 0 /\ k > 0 /\ left = k => q.status = m.status /\ q.wanted = k /\ q.collected = 0
        /\ left = 1 /\ k = 2 =>
             p.status = m.status /\ p.first = m.data1 /\ p.wanted = 2 /\ p.collected = 1
        /\ k = 0 /\ left \in {1, 2} => p.wanted = 0
        /\ left = 0 \/ left <= k \/ (k = 0 /\ left <= 2) => p.runningStatus = running

Ready == ReadyFor(parser, saying.message, Len(saying.bytes), spoken)

Framing == whole => framed /\ Ready

LEMMA SayableTypes ==
  ASSUME NEW m \in Sayable
  PROVE  /\ m.status \in Framed \cup {"SysexStart"} /\ m.data1 \in Values /\ m.data2 \in Values
         /\ m = Message(m.status, m.data1, m.data2)
         /\ dataBytesFor(m.status) = 1 => m.data2 = 0
<1>1. m \in [status : {"NoteOn", "ProgramChange", "SongPosition", "SongSelect", "SysexStart"},
             data1 : Values, data2 : Values]
  BY SayableAssumption
<1>2. m.status \in {"ProgramChange", "SongSelect"} => m.data2 = 0
  BY SayableAssumption
<1>3. dataBytesFor(m.status) = 1 => m.status \in {"ProgramChange", "SongSelect"}
  BY DEF dataBytesFor
<1> QED BY <1>1, <1>2, <1>3 DEF Framed, Message

(* The bytes of a message: its status, its data, or a sysex. *)
LEMMA BytesOf ==
  ASSUME NEW m \in Sayable
  PROVE  LET k == dataBytesFor(m.status)
             b == Bytes(m)
         IN  /\ b \in Seq(Byte) /\ b[1] = Status(m.status) /\ Len(b) \in {2, 3}
             /\ m.status # "SysexStart" => k \in {1, 2} /\ Len(b) = k + 1 /\ b[2] = Data(m.data1)
             /\ k = 2 => b[3] = Data(m.data2)
             /\ m.status = "SysexStart" => k = 0 /\ Len(b) = 3 /\ b[2] = Data(m.data1)
                                           /\ b[3] = Status("SysexEnd")
<1>1. Status(m.status) \in Byte /\ Data(m.data1) \in Byte /\ Data(m.data2) \in Byte
      /\ Status("SysexEnd") \in Byte
  BY SayableTypes, ByteShapes DEF Statuses, Framed, Channel, System
<1>2. CASE m.status \in {"SongSelect", "ProgramChange"}
  <2>1. dataBytesFor(m.status) = 1
    BY <1>2 DEF dataBytesFor
  <2>2. Bytes(m) = <<Status(m.status), Data(m.data1)>>
    BY <1>2, <2>1 DEF Bytes
  <2> QED BY <1>1, <1>2, <2>1, <2>2
<1>3. CASE m.status \in {"SongPosition", "NoteOn"}
  <2>1. dataBytesFor(m.status) = 2
    BY <1>3 DEF dataBytesFor
  <2>2. Bytes(m) = <<Status(m.status), Data(m.data1), Data(m.data2)>>
    BY <1>3, <2>1 DEF Bytes
  <2> QED BY <1>1, <1>3, <2>1, <2>2
<1>4. CASE m.status = "SysexStart"
  <2>1. dataBytesFor(m.status) = 0
    BY <1>4 DEF dataBytesFor
  <2>2. Bytes(m) = <<Status("SysexStart"), Data(m.data1), Status("SysexEnd")>>
    BY <1>4, <2>1 DEF Bytes
  <2> QED BY <1>1, <1>4, <2>1, <2>2
<1> QED BY <1>2, <1>3, <1>4, SayableTypes DEF Framed

LEMMA UpToThree ==
  \A n \in {2, 3}, l \in Nat : l >= 1 /\ l <= n => l = 1 \/ l = 2 \/ (l = 3 /\ n = 3)
  OBVIOUS

(* The byte that comes next. *)
LEMMA NextByte ==
  ASSUME SayingOK, saying.bytes # <<>>
  PROVE  LET m == saying.message
             k == dataBytesFor(m.status)
             left == Len(saying.bytes)
             byte == Head(saying.bytes)
         IN  /\ m \in Sayable /\ byte \in Byte
             /\ left \in {1, 2, 3} /\ k \in {0, 1, 2}
             /\ \/ k > 0 /\ left = k + 1 /\ byte = Status(m.status)
                \/ k > 0 /\ left = k /\ byte = Data(m.data1)
                \/ k = 2 /\ left = 1 /\ byte = Data(m.data2)
                \/ k = 0 /\ left = 3 /\ byte = Status(m.status)
                \/ k = 0 /\ left = 2 /\ byte = Data(m.data1)
                \/ k = 0 /\ left = 1 /\ byte = Status("SysexEnd")
             /\ k = 0 <=> m.status = "SysexStart"
<1> DEFINE m == saying.message
           b == saying.bytes
           k == dataBytesFor(m.status)
           n == Len(Bytes(m))
<1>1. /\ m \in Sayable /\ b \in Seq(Byte) /\ b # <<>> /\ Len(b) <= n
      /\ \A i \in 1 .. Len(b) : b[i] = Bytes(m)[n - Len(b) + i]
  BY DEF SayingOK
<1> HIDE DEF b, m
<1>2. Len(b) \in Nat /\ Len(b) >= 1 /\ Head(b) = b[1] /\ Head(b) \in Byte
  BY <1>1
<1>2a. Len(b) \in Nat /\ Len(b) >= 1 /\ Len(b) <= n
  BY <1>1, <1>2
<1>3. n \in {2, 3}
  BY <1>1, BytesOf
<1>4. Head(b) = Bytes(m)[n - Len(b) + 1]
  BY <1>1, <1>2, <1>3
<1>5. CASE m.status = "SysexStart"
  <2>1. /\ k = 0 /\ n = 3 /\ Bytes(m)[1] = Status(m.status) /\ Bytes(m)[2] = Data(m.data1)
        /\ Bytes(m)[3] = Status("SysexEnd")
    BY <1>1, <1>5, BytesOf
  <2> HIDE DEF k, n
  <2>2. Len(b) = 1 \/ Len(b) = 2 \/ Len(b) = 3
    <3>1. n \in {2, 3}
      BY <2>1
    <3> QED BY <1>2a, <3>1, UpToThree
  <2>3. CASE Len(b) = 1
    BY <1>1, <1>2, <1>4, <1>5, <2>1, <2>3 DEF b, m, k
  <2>4. CASE Len(b) = 2
    BY <1>1, <1>2, <1>4, <1>5, <2>1, <2>4 DEF b, m, k
  <2>5. CASE Len(b) = 3
    BY <1>1, <1>2, <1>4, <1>5, <2>1, <2>5 DEF b, m, k
  <2> QED BY <2>2, <2>3, <2>4, <2>5
<1>6. CASE m.status # "SysexStart"
  <2>1. /\ k \in {1, 2} /\ n = k + 1 /\ Bytes(m)[1] = Status(m.status)
        /\ Bytes(m)[2] = Data(m.data1) /\ (k = 2 => Bytes(m)[3] = Data(m.data2))
    BY <1>1, <1>6, BytesOf
  <2> HIDE DEF k, n
  <2>2. Len(b) = 1 \/ Len(b) = 2 \/ Len(b) = 3
    <3>1. n \in {2, 3}
      BY <2>1
    <3> QED BY <1>2a, <3>1, UpToThree
  <2>3. CASE Len(b) = 1
    <3>1. CASE k = 1
      <4>1. Head(b) = Data(m.data1)
        BY <1>4, <2>1, <2>3, <3>1
      <4> QED BY <1>1, <1>2, <1>6, <2>3, <3>1, <4>1 DEF b, m, k
    <3>2. CASE k = 2
      <4>1. Head(b) = Data(m.data2)
        BY <1>4, <2>1, <2>3, <3>2
      <4> QED BY <1>1, <1>2, <1>6, <2>3, <3>2, <4>1 DEF b, m, k
    <3> QED BY <2>1, <3>1, <3>2
  <2>4. CASE Len(b) = 2
    <3>1. CASE k = 1
      <4>1. Head(b) = Status(m.status)
        BY <1>4, <2>1, <2>4, <3>1
      <4> QED BY <1>1, <1>2, <1>6, <2>4, <3>1, <4>1 DEF b, m, k
    <3>2. CASE k = 2
      <4>1. Head(b) = Data(m.data1)
        BY <1>4, <2>1, <2>4, <3>2
      <4> QED BY <1>1, <1>2, <1>6, <2>4, <3>2, <4>1 DEF b, m, k
    <3> QED BY <2>1, <3>1, <3>2
  <2>5. CASE Len(b) = 3
    <3>1. n = 3 /\ k = 2
      BY <1>2a, <2>1, <2>5, UpToThree
    <3>2. Head(b) = Status(m.status)
      BY <1>4, <2>1, <2>5, <3>1
    <3> QED BY <1>1, <1>2, <1>6, <2>5, <3>1, <3>2 DEF b, m, k
  <2> QED BY <2>2, <2>3, <2>4, <2>5
<1> QED BY <1>5, <1>6

(* The bytes of a message are none of the realtime ones. *)
LEMMA SentByte ==
  ASSUME SayingOK, saying.bytes # <<>>
  PROVE  Head(saying.bytes) \in Byte /\ Head(saying.bytes).status \notin Realtime
<1> DEFINE m == saying.message
           byte == Head(saying.bytes)
<1>1. \/ byte = Status(m.status) \/ byte = Data(m.data1)
      \/ byte = Data(m.data2) \/ byte = Status("SysexEnd")
  BY NextByte
<1>2. m \in Sayable /\ byte \in Byte
  BY NextByte
<1>3. m.status \notin Realtime /\ "SysexEnd" \notin Realtime /\ None \notin Realtime
  BY <1>2, SayableTypes DEF Framed, Realtime, None
<1> QED BY <1>1, <1>2, <1>3 DEF Status, Data

(* What is left after it. *)
LEMMA BytesLeft ==
  ASSUME SayingOK, saying.bytes # <<>>, saying' = [saying EXCEPT !.bytes = Tail(@)],
         spoken' = spoken
  PROVE  SayingOK' /\ saying'.message = saying.message
         /\ Len(saying'.bytes) = Len(saying.bytes) - 1
<1> DEFINE m == saying.message
           b == saying.bytes
           n == Len(Bytes(m))
<1>1. /\ m \in Sayable /\ b \in Seq(Byte) /\ b # <<>> /\ Len(b) <= n
      /\ \A i \in 1 .. Len(b) : b[i] = Bytes(m)[n - Len(b) + i]
      /\ spoken = IF m.status \in Channel THEN m.status ELSE None
      /\ spoken \in Channel \cup {None}
  BY DEF SayingOK
<1>2. /\ saying'.message = m /\ saying'.bytes = Tail(b)
      /\ saying' \in [message : Sayable \cup {Silence}, bytes : Seq(Byte)]
  <2>1. saying \in [message : Sayable \cup {Silence}, bytes : Seq(Byte)]
    BY DEF SayingOK
  <2> DEFINE t == Tail(b)
  <2>2. t \in Seq(Byte) /\ saying' = [saying EXCEPT !.bytes = t]
    BY <1>1
  <2> HIDE DEF t
  <2>3. saying'.message = m /\ saying'.bytes = t
    BY <2>1, <2>2
  <2>4. saying' \in [message : Sayable \cup {Silence}, bytes : Seq(Byte)]
    BY <2>1, <2>2
  <2> QED BY <2>3, <2>4 DEF t
<1> HIDE DEF b, m
<1>3. n \in {2, 3}
  BY <1>1, BytesOf
<1>4. Tail(b) \in Seq(Byte) /\ Len(Tail(b)) = Len(b) - 1 /\ Len(b) \in Nat
  BY <1>1
<1> HIDE DEF n
<1>5. ASSUME NEW i \in 1 .. Len(Tail(b))
      PROVE  Tail(b)[i] = Bytes(m)[n - Len(Tail(b)) + i]
  <2>1. Tail(b)[i] = b[i + 1] /\ i + 1 \in 1 .. Len(b)
    BY <1>1, <1>4
  <2>2. b[i + 1] = Bytes(m)[n - Len(b) + (i + 1)]
    BY <1>1, <2>1
  <2>3. n - Len(b) + (i + 1) = n - Len(Tail(b)) + i
    BY <1>3, <1>4
  <2> QED BY <2>1, <2>2, <2>3
<1>6. Len(Tail(b)) <= n
  BY <1>1, <1>3, <1>4
<1>7. SayingOK'
  BY <1>1, <1>2, <1>5, <1>6 DEF SayingOK, n
<1> QED BY <1>2, <1>4, <1>7 DEF b, m

-----------------------------------------------------------------------------
(* The parser on each byte. *)

(* A status other than a realtime one: nothing is heard, and the parser     *)
(* waits for the data of it.                                                *)
LEMMA StatusFed ==
  ASSUME ParserOK, NEW s \in Channel \cup System
  PROVE  /\ Completed(parser, Status(s)) = Silence
         /\ feed(parser, Status(s)) = feedStatus(s)
<1>1. Status(s).status = s /\ s \notin Realtime /\ s # None
  BY DEF Status, Channel, System, Realtime, None
<1> QED BY <1>1 DEF Completed, feed

LEMMA FeedStatusFields ==
  \A s : LET p == feedStatus(s)
         IN  /\ p.runningStatus = IF s \in Channel THEN s ELSE None
             /\ p.status = IF dataBytesFor(s) = 0 THEN None ELSE s
             /\ p.collected = 0 /\ p.wanted = dataBytesFor(s)
  BY DEF feedStatus

(* Data with nothing in progress is dropped. *)
LEMMA DataDropped ==
  ASSUME ParserOK, NEW v \in Values, parser.wanted = 0, parser.runningStatus = None
  PROVE  Completed(parser, Data(v)) = Silence /\ feed(parser, Data(v)) = parser
<1>1. Data(v).status = None /\ None \notin Realtime
  BY DEF Data, Realtime, None
<1>2. Resumed(parser).status = None /\ Resumed(parser).wanted = 0
  BY ResumedTypes, DataBytes DEF ParserOK
<1> QED BY <1>1, <1>2 DEF Completed, feed

(* The first of two. *)
LEMMA FirstOfTwo ==
  ASSUME ParserOK, NEW v \in Values,
         Resumed(parser).wanted = 2, Resumed(parser).collected = 0,
         Resumed(parser).status # None
  PROVE  LET p == feed(parser, Data(v))
             q == Resumed(parser)
         IN  /\ Completed(parser, Data(v)) = Silence
             /\ p.status = q.status /\ p.first = v /\ p.collected = 1 /\ p.wanted = 2
             /\ p.runningStatus = parser.runningStatus
<1>1. Data(v).status = None /\ None \notin Realtime /\ Data(v).value = v
  BY DEF Data, Realtime, None
<1>2. ~(parser.wanted = 0 /\ parser.runningStatus = None)
  BY ResumedTypes DEF ParserOK
<1>3. Resumed(parser) \in ParserState /\ Resumed(parser).runningStatus = parser.runningStatus
  BY ResumedTypes DEF ParserOK
<1> DEFINE q == Resumed(parser)
<1>4. feed(parser, Data(v)) = [q EXCEPT !.first = v, !.collected = 1]
  BY <1>1, <1>2 DEF feed
<1>5. Completed(parser, Data(v)) = Silence
  BY <1>1 DEF Completed
<1> HIDE DEF q
<1>6. q \in ParserState
  BY <1>3 DEF q
<1>7. LET p == [q EXCEPT !.first = v, !.collected = 1]
      IN  /\ p.status = q.status /\ p.first = v /\ p.collected = 1 /\ p.wanted = q.wanted
          /\ p.runningStatus = q.runningStatus
  BY <1>6 DEF ParserState
<1> QED BY <1>3, <1>4, <1>5, <1>7 DEF q

(* The last byte of a message. *)
LEMMA LastFed ==
  ASSUME ParserOK, NEW v \in Values,
         Resumed(parser).status # None,
         \/ Resumed(parser).wanted = 1
         \/ Resumed(parser).wanted = 2 /\ Resumed(parser).collected = 1
  PROVE  LET p == feed(parser, Data(v))
             q == Resumed(parser)
         IN  /\ Completed(parser, Data(v)) = IF q.wanted = 1 THEN Message(q.status, v, 0)
                                                            ELSE Message(q.status, q.first, v)
             /\ p.wanted = 0 /\ p.runningStatus = parser.runningStatus
<1>1. Data(v).status = None /\ None \notin Realtime /\ Data(v).value = v
  BY DEF Data, Realtime, None
<1>2. ~(parser.wanted = 0 /\ parser.runningStatus = None)
  BY ResumedTypes DEF ParserOK
<1>3. Resumed(parser) \in ParserState /\ Resumed(parser).runningStatus = parser.runningStatus
  BY ResumedTypes DEF ParserOK
<1> DEFINE q == Resumed(parser)
<1>4. feed(parser, Data(v)) = Idle(q)
  BY <1>1, <1>2 DEF feed
<1>5. Completed(parser, Data(v)) = IF q.wanted = 1 THEN Message(q.status, v, 0)
                                                  ELSE Message(q.status, q.first, v)
  BY <1>1 DEF Completed
<1> HIDE DEF q
<1>6. q \in ParserState
  BY <1>3 DEF q
<1>7. Idle(q).wanted = 0 /\ Idle(q).runningStatus = q.runningStatus
  BY <1>6 DEF ParserState, Idle
<1> QED BY <1>3, <1>4, <1>5, <1>7 DEF q

-----------------------------------------------------------------------------
(* Framing, one step at a time. *)

(* What a byte of the sequencer's completes, as far as the sequencer goes. *)
Due == IF Len(saying.bytes) = 1 /\ saying.message.status # "SysexStart"
         THEN saying.message ELSE Silence

LEMMA ByteKeepsFraming ==
  ASSUME ParserOK, FollowerOK, SayingOK, Framing, saying.bytes # <<>>,
         saying' = [saying EXCEPT !.bytes = Tail(@)], spoken' = spoken,
         Arrive(Head(saying.bytes), 0, Due),
         whole' = (whole \/ Head(saying.bytes).status # None)
  PROVE  Framing'
<1> DEFINE m == saying.message
           byte == Head(saying.bytes)
           left == Len(saying.bytes)
           k == dataBytesFor(m.status)
           q == Resumed(parser)
<1>1. /\ m \in Sayable /\ left \in {1, 2, 3} /\ k \in {0, 1, 2}
      /\ k = 0 <=> m.status = "SysexStart"
  BY NextByte
<1>2. /\ m.status \in Framed \cup {"SysexStart"} /\ m.data1 \in Values /\ m.data2 \in Values
      /\ m = Message(m.status, m.data1, m.data2) /\ (k = 1 => m.data2 = 0)
  BY <1>1, SayableTypes
<1>3. saying'.message = m /\ Len(saying'.bytes) = left - 1
  BY BytesLeft
<1>4. spoken' = IF m.status \in Channel THEN m.status ELSE None
  BY DEF SayingOK
<1>5. parser' = feed(parser, byte) /\ framed' = (Completed(parser, byte) = Due)
  BY DEF Arrive
<1>6. Due = IF left = 1 /\ k # 0 THEN m ELSE Silence
  BY <1>1 DEF Due
<1>7. parser' \in ParserState
  <2>1. byte \in Byte
    BY NextByte
  <2> QED BY <1>5, <2>1, FeedTypes
<1>8. byte.status = None => (whole' => whole)
  BY Zenon
<1>9. m.status # None /\ m.status \in Channel \cup System
  BY <1>2 DEF Framed, Channel, System, None
<1>5a. Completed(parser, byte) = Due => framed'
  BY <1>5
<1> HIDE DEF m, left, k, byte
<1>10. whole => Ready
  BY DEF Framing
<1>10a. Ready' <=> ReadyFor(parser', m, left - 1, spoken')
  BY <1>3 DEF Ready
<1>10b. left = 1 => (Ready' <=> parser'.wanted = 0 /\ parser'.runningStatus = spoken')
  <2>1. ASSUME left = 1 PROVE ReadyFor(parser', m, 0, spoken') <=>
                              parser'.wanted = 0 /\ parser'.runningStatus = spoken'
    BY <1>1 DEF ReadyFor, k
  <2> QED BY <1>10a, <2>1
<1>11. CASE k > 0 /\ left = k + 1 /\ byte = Status(m.status)
  <2>1. Completed(parser, byte) = Silence /\ parser' = feedStatus(m.status)
    BY <1>5, <1>9, <1>11, StatusFed
  <2>2. Completed(parser, byte) = Due
    BY <1>1, <1>5, <1>6, <1>11, <2>1
  <2>3. /\ parser'.status = m.status /\ parser'.collected = 0 /\ parser'.wanted = k
        /\ parser'.runningStatus = spoken'
    BY <1>1, <1>4, <1>11, <2>1, FeedStatusFields DEF k
  <2>4. Resumed(parser') = parser'
    BY <1>7, <1>11, <2>3, ResumedTypes, <1>1
  <2>5. Ready'
    BY <1>1, <1>11, <1>10a, <2>3, <2>4 DEF ReadyFor, k
  <2> QED BY <1>5a, <2>2, <2>5, Zenon DEF Framing
<1>12. CASE k > 0 /\ left = k /\ byte = Data(m.data1)
  <2> SUFFICES ASSUME whole PROVE Completed(parser, byte) = Due /\ Ready'
    <3>1. byte.status = None
      BY <1>12, <1>2, ByteShapes
    <3> QED BY <1>8, <1>5a, <3>1, Zenon DEF Framing
  <2>1. /\ q.status = m.status /\ q.wanted = k /\ q.collected = 0
        /\ parser.runningStatus = spoken
    BY <1>1, <1>10, <1>12 DEF Ready, ReadyFor, m, left, k
  <2>2. CASE k = 1
    <3>1. /\ Completed(parser, byte) = Message(m.status, m.data1, 0)
          /\ parser'.wanted = 0 /\ parser'.runningStatus = spoken'
      BY <1>2, <1>5, <1>9, <1>12, <2>1, <2>2, LastFed
    <3>2. Completed(parser, byte) = Due
      BY <1>2, <1>5, <1>6, <1>12, <2>2, <3>1
    <3> QED BY <1>12, <1>10b, <2>2, <3>1, <3>2
  <2>3. CASE k = 2
    <3>1. /\ Completed(parser, byte) = Silence
          /\ parser'.status = m.status /\ parser'.first = m.data1 /\ parser'.collected = 1
          /\ parser'.wanted = 2 /\ parser'.runningStatus = spoken'
      BY <1>2, <1>5, <1>9, <1>12, <2>1, <2>3, FirstOfTwo
    <3>2. Completed(parser, byte) = Due
      BY <1>5, <1>6, <1>12, <2>3, <3>1
    <3>3. ReadyFor(parser', m, 1, spoken')
      BY <2>3, <3>1 DEF ReadyFor, k
    <3> QED BY <1>12, <1>10a, <2>3, <3>2, <3>3
  <2> QED BY <1>1, <1>12, <2>2, <2>3
<1>13. CASE k = 2 /\ left = 1 /\ byte = Data(m.data2)
  <2> SUFFICES ASSUME whole PROVE Completed(parser, byte) = Due /\ Ready'
    <3>1. byte.status = None
      BY <1>13, <1>2, ByteShapes
    <3> QED BY <1>8, <1>5a, <3>1, Zenon DEF Framing
  <2>1. /\ parser.status = m.status /\ parser.first = m.data1
        /\ parser.wanted = 2 /\ parser.collected = 1 /\ parser.runningStatus = spoken
    BY <1>10, <1>13 DEF Ready, ReadyFor, m, left, k
  <2>2. q = parser
    BY <2>1, ResumedTypes DEF ParserOK
  <2>3. /\ Completed(parser, byte) = Message(m.status, m.data1, m.data2)
        /\ parser'.wanted = 0 /\ parser'.runningStatus = spoken'
    BY <1>2, <1>5, <1>9, <1>13, <2>1, <2>2, LastFed
  <2>4. Completed(parser, byte) = Due
    BY <1>2, <1>5, <1>6, <1>13, <2>3
  <2> QED BY <1>13, <1>10b, <2>3, <2>4
<1>14. CASE k = 0 /\ left = 3 /\ byte = Status(m.status)
  <2>1. Completed(parser, byte) = Silence /\ parser' = feedStatus(m.status)
    BY <1>5, <1>9, <1>14, StatusFed
  <2>2. Completed(parser, byte) = Due
    BY <1>5, <1>6, <1>14, <2>1
  <2>3. parser'.wanted = 0 /\ parser'.runningStatus = spoken'
    BY <1>4, <1>14, <2>1, FeedStatusFields DEF k
  <2>5. Ready'
    BY <1>14, <1>10a, <2>3 DEF ReadyFor, k
  <2> QED BY <1>5a, <2>2, <2>5, Zenon DEF Framing
<1>15. CASE k = 0 /\ left = 2 /\ byte = Data(m.data1)
  <2> SUFFICES ASSUME whole PROVE Completed(parser, byte) = Due /\ Ready'
    <3>1. byte.status = None
      BY <1>15, <1>2, ByteShapes
    <3> QED BY <1>8, <1>5a, <3>1, Zenon DEF Framing
  <2>1. parser.wanted = 0 /\ parser.runningStatus = spoken
    BY <1>10, <1>15 DEF Ready, ReadyFor, m, left, k
  <2>2. spoken' = spoken /\ spoken = None
    BY <1>1, <1>4, <1>15 DEF Channel
  <2>3. Completed(parser, byte) = Silence /\ parser' = parser
    BY <1>2, <1>5, <1>15, <2>1, <2>2, DataDropped
  <2>4. Completed(parser, byte) = Due
    BY <1>5, <1>6, <1>15, <2>3
  <2>5. ReadyFor(parser', m, 1, spoken')
    BY <1>15, <2>1, <2>2, <2>3 DEF ReadyFor, k
  <2> QED BY <1>15, <1>10a, <2>4, <2>5
<1>16. CASE k = 0 /\ left = 1 /\ byte = Status("SysexEnd")
  <2>1. Completed(parser, byte) = Silence /\ parser' = feedStatus("SysexEnd")
    BY <1>5, <1>16, StatusFed DEF System
  <2>2. Completed(parser, byte) = Due
    BY <1>5, <1>6, <1>16, <2>1
  <2>3. spoken' = None
    BY <1>1, <1>4, <1>16 DEF Channel
  <2>4. parser'.wanted = 0 /\ parser'.runningStatus = None
    BY <2>1, FeedStatusFields DEF Channel, dataBytesFor
  <2>6. Ready'
    BY <1>16, <1>10b, <2>3, <2>4
  <2> QED BY <1>5a, <2>2, <2>6, Zenon DEF Framing
<1>17. \/ k > 0 /\ left = k + 1 /\ byte = Status(m.status)
       \/ k > 0 /\ left = k /\ byte = Data(m.data1)
       \/ k = 2 /\ left = 1 /\ byte = Data(m.data2)
       \/ k = 0 /\ left = 3 /\ byte = Status(m.status)
       \/ k = 0 /\ left = 2 /\ byte = Data(m.data1)
       \/ k = 0 /\ left = 1 /\ byte = Status("SysexEnd")
  BY NextByte DEF m, left, k, byte
<1> QED BY <1>11, <1>12, <1>13, <1>14, <1>15, <1>16, <1>17

LEMMA SendKeepsFraming ==
  ASSUME ParserOK, FollowerOK, SayingOK, Framing, SendByte
  PROVE  SayingOK' /\ Framing'
<1>1. /\ saying.bytes # <<>> /\ spoken' = spoken
      /\ saying' = [saying EXCEPT !.bytes = Tail(@)]
  BY DEF SendByte
<1>2. SayingOK'
  BY <1>1, BytesLeft
<1>3. ASSUME Arrive(Head(saying.bytes), 0, Due),
             whole' = (whole \/ Head(saying.bytes).status # None)
      PROVE  Framing'
  BY <1>1, <1>3, ByteKeepsFraming, Zenon
<1>4. ASSUME whole' = FALSE PROVE Framing'
  BY <1>4, Zenon DEF Framing
<1> QED BY <1>2, <1>3, <1>4, Zenon DEF SendByte, Due

LEMMA SayKeepsFraming ==
  ASSUME ParserOK, SayingOK, Framing, NEW m \in Sayable, NEW running \in BOOLEAN, Say(m, running)
  PROVE  SayingOK' /\ Framing'
<1> DEFINE k == dataBytesFor(m.status)
           b == IF running THEN Tail(Bytes(m)) ELSE Bytes(m)
<1>1. /\ saying.bytes = <<>> /\ (running => m.status = spoken)
      /\ saying' = [message |-> m, bytes |-> b]
      /\ spoken' = IF m.status \in Channel THEN m.status ELSE None
      /\ UNCHANGED <<parser, whole, framed>>
  BY DEF Say, inputVars, historyVars
<1>2. /\ Bytes(m) \in Seq(Byte) /\ Len(Bytes(m)) \in {2, 3}
      /\ m.status # "SysexStart" => k \in {1, 2} /\ Len(Bytes(m)) = k + 1
      /\ m.status = "SysexStart" => k = 0 /\ Len(Bytes(m)) = 3
  BY BytesOf
<1> DEFINE n == Len(Bytes(m))
<1>3. /\ b \in Seq(Byte) /\ Len(b) = IF running THEN n - 1 ELSE n
      /\ \A i \in 1 .. Len(b) : b[i] = Bytes(m)[n - Len(b) + i]
  <2> DEFINE B == Bytes(m)
  <2>1. B \in Seq(Byte) /\ Len(B) \in Nat /\ B # <<>>
    BY <1>2
  <2> HIDE DEF B
  <2>2. /\ Tail(B) \in Seq(Byte) /\ Len(Tail(B)) = Len(B) - 1
        /\ \A i \in 1 .. Len(Tail(B)) : Tail(B)[i] = B[i + 1]
    BY <2>1
  <2>3. CASE running
    BY <2>1, <2>2, <2>3 DEF B
  <2>4. CASE ~running
    BY <2>1, <2>4 DEF B
  <2> QED BY <2>3, <2>4
<1>4. saying'.message = m /\ saying'.bytes = b
  BY <1>1
<1>5. saying' \in [message : Sayable \cup {Silence}, bytes : Seq(Byte)]
  BY <1>1, <1>3
<1>6. spoken' \in Channel \cup {None}
  BY <1>1
<1>7. Len(b) <= n
  BY <1>2, <1>3
<1> HIDE DEF b
<1>8. SayingOK'
  BY <1>1, <1>3, <1>4, <1>5, <1>6, <1>7 DEF SayingOK
<1>9. ASSUME whole PROVE Ready'
  <2>1. parser.wanted = 0 /\ parser.runningStatus = spoken
    BY <1>1, <1>9 DEF Framing, Ready, ReadyFor
  <2>2. CASE running
    <3>1. m.status = spoken /\ m.status # "SysexStart" /\ k \in {1, 2} /\ Len(b) = k
      <4>1. m.status = spoken /\ m.status # None
        BY <1>1, <2>2, SayableTypes DEF Framed, None
      <4>2. m.status # "SysexStart"
        BY <4>1 DEF SayingOK, Channel
      <4>3. k \in {1, 2} /\ n = k + 1
        BY <1>2, <4>2
      <4> HIDE DEF k, n
      <4>4. Len(b) = n - 1
        BY <1>3, <2>2 DEF n
      <4> QED BY <4>1, <4>2, <4>3, <4>4
    <3>2. spoken' = spoken
      BY <1>1, <3>1 DEF SayingOK, None
    <3>3. /\ Resumed(parser).status = m.status /\ Resumed(parser).wanted = k
          /\ Resumed(parser).collected = 0
      BY <2>1, <3>1, ResumedTypes DEF ParserOK
    <3>4. ReadyFor(parser, m, Len(b), spoken')
      <4> DEFINE l == Len(b)
      <4>1. l = k /\ k \in {1, 2}
        BY <3>1
      <4> HIDE DEF k, l
      <4>2. ReadyFor(parser, m, l, spoken')
        BY <2>1, <3>2, <3>3, <4>1 DEF ReadyFor, k
      <4> QED BY <4>2 DEF l
    <3> QED BY <1>1, <1>4, <3>4 DEF Ready
  <2>3. CASE ~running
    <3>1. n \in {2, 3} /\ ((k \in {1, 2} /\ n = k + 1) \/ (k = 0 /\ n = 3))
      BY <1>2
    <3>2. Len(b) = n
      BY <1>3, <2>3
    <3> HIDE DEF k, n
    <3>3. ReadyFor(parser, m, n, spoken')
      BY <3>1 DEF ReadyFor, k
    <3> QED BY <1>1, <1>4, <3>2, <3>3 DEF Ready
  <2> QED BY <2>2, <2>3
<1>10. Framing'
  BY <1>1, <1>9 DEF Framing
<1> QED BY <1>8, <1>10

(* The steps that change nothing of the parser, the message or the history. *)
LEMMA ParserKept ==
  ASSUME SayingOK, Framing, UNCHANGED <<parser, saying, spoken, whole>>, whole' => framed' \/ framed' = framed
  PROVE  SayingOK' /\ Framing'
<1>1. SayingOK'
  BY DEF SayingOK
<1>2. Ready' <=> Ready
  BY DEF Ready
<1> QED BY <1>1, <1>2 DEF Framing

-----------------------------------------------------------------------------
(* The grid. *)

(* A song position of which a byte is lost has put the grid astray, its     *)
(* status being the first of its three bytes.                               *)
Located ==
    saying.bytes # <<>> /\ saying.message.status = "SongPosition" =>
       whole \/ astray \/ Len(saying.bytes) = 3

Typed == /\ ParserOK /\ FollowerOK /\ SongOK /\ SayingOK
         /\ uneven \in 0..kClocksPerBeat

LEMMA SendKeepsLocated ==
  ASSUME Typed, Located, SendByte
  PROVE  Located'
<1> DEFINE byte == Head(saying.bytes)
<1>1. /\ saying.bytes # <<>> /\ saying' = [saying EXCEPT !.bytes = Tail(@)] /\ spoken' = spoken
  BY DEF SendByte
<1>2. saying'.message = saying.message /\ Len(saying'.bytes) = Len(saying.bytes) - 1
  BY <1>1, BytesLeft DEF Typed
<1> SUFFICES ASSUME saying.message.status = "SongPosition", saying'.bytes # <<>>
             PROVE  whole' \/ astray'
  BY <1>2 DEF Located
<1>3. dataBytesFor(saying.message.status) = 2
  BY DEF dataBytesFor
<1>4. Len(saying.bytes) # 1
  <2>1. saying' \in [message : Sayable \cup {Silence}, bytes : Seq(Byte)]
    BY <1>1, BytesLeft DEF Typed, SayingOK
  <2>2. saying'.bytes \in Seq(Byte)
    BY <2>1
  <2>3. \A b \in Seq(Byte) : b # <<>> => Len(b) >= 1
    OBVIOUS
  <2>4. Len(saying'.bytes) >= 1
    BY <2>2, <2>3
  <2>5. Len(saying.bytes) \in Nat
    BY DEF Typed, SayingOK
  <2> DEFINE l == Len(saying.bytes)
             r == Len(saying'.bytes)
  <2>6. r = l - 1 /\ r >= 1 /\ l \in Nat
    BY <1>2, <2>4, <2>5
  <2> HIDE DEF l, r
  <2>7. l # 1
    BY <2>6
  <2> QED BY <2>7 DEF l
<1>5. \/ Len(saying.bytes) = 3 /\ byte = Status(saying.message.status)
      \/ Len(saying.bytes) = 2
  BY <1>1, <1>3, <1>4, NextByte DEF Typed
<1>6. CASE Len(saying.bytes) = 3 /\ byte = Status(saying.message.status)
  <2>1. byte.status # None
    BY <1>6 DEF Status, None
  <2>2. ASSUME whole' = (whole \/ byte.status # None) PROVE whole'
    BY <2>1, <2>2
  <2>3. ASSUME astray' = (astray \/ saying.message.status = "SongPosition") PROVE astray'
    BY <2>3
  <2> QED BY <2>2, <2>3, Zenon DEF SendByte
<1>7. CASE Len(saying.bytes) = 2
  <2>1. whole \/ astray
    BY <1>1, <1>7 DEF Located
  <2>2. ASSUME whole' = (whole \/ byte.status # None),
               astray' = (astray \/ Nudged)
        PROVE  whole' \/ astray'
    BY <2>1, <2>2, Zenon
  <2>3. ASSUME astray' = (astray \/ saying.message.status = "SongPosition") PROVE astray'
    BY <2>3
  <2>4. ~(Len(saying.bytes) = 1)
    BY <1>7
  <2> QED BY <2>2, <2>3, <2>4, Zenon DEF SendByte
<1> QED BY <1>5, <1>6, <1>7

(* A song position that is heard as it was said is where the song is.       *)
LEMMA SongIsThere ==
  ASSUME FollowerOK, NEW m \in Sayable, m.status = "SongPosition", handleMessage(m, 0)
  PROVE  /\ follower'.tickInBeat = (m.data1 % 4) * (kClocksPerBeat \div 4)
         /\ alignRequested' = FALSE
<1>1. follower' = FollowSongPosition(Aligned, m)
  BY DEF handleMessage, isBeatNote
<1>2. Aligned \in FollowerState
  BY AlignedTypes
<1>3. follower'.tickInBeat = ((m.data1 + 128 * m.data2) % 4) * (kClocksPerBeat \div 4)
  BY <1>1, <1>2 DEF FollowSongPosition, FollowerState
<1>4. (m.data1 + 128 * m.data2) % 4 = m.data1 % 4
  <2>1. m.data1 \in 0..127 /\ m.data2 \in 0..127
    BY SayableTypes, ValuesAssumption
  <2>2. \A a, b \in 0..127 : (a + 128 * b) % 4 = a % 4
    OBVIOUS
  <2> QED BY <2>1, <2>2
<1>5. alignRequested' = FALSE
  BY DEF handleMessage
<1> QED BY <1>3, <1>4, <1>5

LEMMA SendKeepsGrid ==
  ASSUME Typed, Framing, Located, BeatsInStep, SendByte
  PROVE  BeatsInStep'
<1> DEFINE m == saying.message
           byte == Head(saying.bytes)
           heard == Completed(parser, byte)
           located == Len(saying.bytes) = 1 /\ m.status # "SysexStart" /\ m.status = "SongPosition"
<1>1. /\ saying.bytes # <<>> /\ saying' = [saying EXCEPT !.bytes = Tail(@)] /\ spoken' = spoken
      /\ songTick' = IF located THEN (m.data1 % 4) * (kClocksPerBeat \div 4) ELSE songTick
  BY Zenon DEF SendByte
<1>2. CASE /\ Lose
           /\ astray' = (astray \/ m.status = "SongPosition")
           /\ idled' = idled
  <2>1. ASSUME ~astray', ~idled' PROVE follower'.tickInBeat = songTick'
    <3>1. ~astray /\ ~idled /\ m.status # "SongPosition"
      BY <1>2, <2>1
    <3>2. follower' = follower /\ songTick' = songTick
      BY <1>1, <1>2, <3>1 DEF Lose, inputVars
    <3> QED BY <3>1, <3>2 DEF BeatsInStep
  <2> QED BY <2>1 DEF BeatsInStep
<1>3. CASE /\ Arrive(byte, 0, Due)
           /\ whole' = (whole \/ byte.status # None)
           /\ astray' = IF located /\ whole THEN alignRequested' ELSE astray \/ Nudged
           /\ idled' = (idled /\ ~located)
  <2>1. byte \in Byte /\ byte.status \notin Realtime
    BY <1>1, SentByte DEF Typed
  <2>2. /\ handleMessage(heard, 0) /\ framed' = (heard = Due)
        /\ ~isBeatNote(heard) /\ heard.status # "SongPosition" => follower' = follower
    BY <1>3, <2>1, OtherArrives DEF Typed
  <2>3. CASE located /\ whole
    <3>1. whole' /\ Framing'
      <4>1. whole'
        BY <1>3, <2>3
      <4>2. Framing'
        BY <1>1, <1>3, ByteKeepsFraming, Zenon DEF Typed
      <4> QED BY <4>1, <4>2
    <3>2. heard = Due
      BY <2>2, <3>1 DEF Framing
    <3>3. Due = m /\ m \in Sayable /\ m.status = "SongPosition"
      BY <1>1, <2>3, NextByte DEF Due, Typed
    <3>4. follower'.tickInBeat = (m.data1 % 4) * (kClocksPerBeat \div 4)
      BY <2>2, <3>2, <3>3, SongIsThere DEF Typed
    <3> QED BY <1>1, <2>3, <3>4 DEF BeatsInStep
  <2>4. CASE located /\ ~whole
    <3>1. astray
      BY <1>1, <2>4 DEF Located
    <3>2. astray'
      BY <1>3, <2>4, <3>1, Zenon
    <3> QED BY <3>2 DEF BeatsInStep
  <2>5. CASE ~located
    <3>1. songTick' = songTick
      BY <1>1, <2>5
    <3>2. SUFFICES ASSUME ~astray', ~idled' PROVE follower'.tickInBeat = songTick
      BY <3>1 DEF BeatsInStep
    <3>3. ~astray /\ ~Nudged /\ ~idled
      <4>1. astray' = (astray \/ Nudged)
        BY <1>3, <2>5, Zenon
      <4>2. ~astray /\ ~Nudged
        BY <3>2, <4>1, Zenon
      <4>3. ~idled
        BY <1>3, <2>5, <3>2, Zenon
      <4> QED BY <4>2, <4>3
    <3>4. follower.tickInBeat = songTick
      BY <3>3 DEF BeatsInStep
    <3>5. heard.status # "SongPosition" /\ (isBeatNote(heard) => songTick = 1)
      BY <3>3, Zenon DEF Nudged
    <3>6. CASE isBeatNote(heard)
      <4>1. heard.status = "NoteOn"
        BY <3>6 DEF isBeatNote
      <4>2. follower' = [follower EXCEPT !.tickInBeat = 1]
        BY <2>2, <3>6, <4>1 DEF handleMessage
      <4> QED BY <3>5, <3>6, <4>2 DEF Typed, FollowerOK
    <3>7. CASE ~isBeatNote(heard)
      BY <2>2, <3>4, <3>5, <3>7
    <3> QED BY <3>6, <3>7
  <2> QED BY <2>3, <2>4, <2>5
<1> QED BY <1>2, <1>3, Zenon DEF SendByte, Due

LEMMA TickKeepsGrid ==
  ASSUME Typed, BeatsInStep, Tick
  PROVE  BeatsInStep'
<1>1. songTick' = IF playing THEN (songTick + 1) % kClocksPerBeat ELSE songTick
  BY DEF Tick
<1> SUFFICES ASSUME ~astray', ~idled' PROVE follower'.tickInBeat = songTick'
  BY DEF BeatsInStep
<1>2. CASE /\ Arrive(Status("Clock"), sinceTick + 1, Message("Clock", 0, 0))
           /\ astray' = (astray \/ alignRequested)
           /\ idled' = (idled \/ ~playing)
  <2>1. ~astray /\ ~alignRequested /\ ~idled /\ playing
    BY <1>2, Zenon
  <2>2. handleMessage(Message("Clock", 0, 0), sinceTick + 1)
    BY <1>2, RealtimeArrives DEF Typed, Realtime
  <2>3. Message("Clock", 0, 0).status = "Clock" /\ Aligned = follower
    BY <2>1 DEF Message, Aligned
  <2>4. follower' = FollowClock(follower, sinceTick + 1)
    BY <2>2, <2>3 DEF handleMessage, isBeatNote
  <2>5. follower'.tickInBeat = (follower.tickInBeat + 1) % kClocksPerBeat
    BY <2>4 DEF FollowClock
  <2> QED BY <1>1, <2>1, <2>5 DEF BeatsInStep
<1>3. CASE /\ Lose
           /\ astray' = (astray \/ playing)
           /\ idled' = idled
  <2>1. ~astray /\ ~playing /\ ~idled
    BY <1>3, Zenon
  <2>2. follower' = follower
    BY <1>3 DEF Lose, inputVars
  <2> QED BY <1>1, <2>1, <2>2 DEF BeatsInStep
<1> QED BY <1>2, <1>3, Zenon DEF Tick

LEMMA TransportKeepsGrid ==
  ASSUME Typed, BeatsInStep, NEW s \in Realtime \ {"Clock"}, Transport(s)
  PROVE  BeatsInStep'
<1> SUFFICES ASSUME ~astray', ~idled' PROVE follower'.tickInBeat = songTick'
  BY DEF BeatsInStep
<1>1. songTick' = IF s = "Start" THEN 0 ELSE songTick
  BY DEF Transport
<1>2. CASE /\ Arrive(Status(s), 0, Message(s, 0, 0))
           /\ astray' = IF s = "Start" THEN FALSE ELSE astray \/ alignRequested
           /\ idled' = (idled /\ s # "Start")
  <2>1. handleMessage(Message(s, 0, 0), 0) /\ Message(s, 0, 0).status = s
    BY <1>2, RealtimeArrives DEF Typed
  <2>2. CASE s = "Start"
    <3>1. follower' = FollowStart(Aligned)
      BY <2>1, <2>2 DEF handleMessage, isBeatNote
    <3> QED BY <1>1, <2>2, <3>1, AlignedTypes DEF FollowStart, FollowerState, Typed
  <2>3. CASE s # "Start"
    <3>1. ~astray /\ ~alignRequested /\ ~idled
      BY <1>2, <2>3, Zenon
    <3>2. Aligned = follower
      BY <3>1 DEF Aligned
    <3>3. s \in {"Continue", "Stop"}
      BY <2>3 DEF Realtime
    <3>4. follower' = follower
      BY <2>1, <3>2, <3>3 DEF handleMessage, isBeatNote
    <3> QED BY <1>1, <2>3, <3>1, <3>4 DEF BeatsInStep
  <2> QED BY <2>2, <2>3
<1>3. CASE /\ Lose
           /\ astray' = (astray \/ s = "Start")
           /\ idled' = idled
  <2>1. ~astray /\ s # "Start" /\ ~idled
    BY <1>3, Zenon
  <2>2. follower' = follower
    BY <1>3 DEF Lose, inputVars
  <2> QED BY <1>1, <2>1, <2>2 DEF BeatsInStep
<1> QED BY <1>2, <1>3, Zenon DEF Transport

-----------------------------------------------------------------------------
(* The window of the tempo. *)

(* How many ticks before the last one slot t of tickTimes was written.      *)
Back(w, t) == IF t < w THEN w - 1 - t ELSE w - 1 - t + kClocksPerBeat

(* A slot written since the last gap is as old as the ticks since.          *)
Even(f, u) ==
    \A t \in Ticks :
       Back(f.tickWrite, t) < f.tickCount
         /\ (u = 0 \/ Back(f.tickWrite, t) <= kClocksPerBeat - u)
       => f.tickTimes[t] = Shortest(Back(f.tickWrite, t))

Window == Even(follower, uneven)

LEMMA BackSteps ==
  ASSUME NEW w \in Ticks
  PROVE  /\ \A t \in Ticks : Back(w, t) \in Ticks
         /\ Back(w, w) = kClocksPerBeat - 1
         /\ Back((w + 1) % kClocksPerBeat, w) = 0
         /\ \A t \in Ticks : t # w => Back((w + 1) % kClocksPerBeat, t) = Back(w, t) + 1
<1> DEFINE k == kClocksPerBeat
<1>1. k \in Nat /\ k >= 4 /\ Ticks = 0 .. (k - 1)
  BY Clocks DEF Ticks
<1>2. (w + 1) % k = IF w = k - 1 THEN 0 ELSE w + 1
  BY <1>1
<1> QED BY <1>1, <1>2 DEF Back

LEMMA ShortestSteps == \A n \in Nat : Shortest(Shortest(n) + 1) = Shortest(n + 1)
  BY Bounds DEF Shortest

LEMMA ClockKeepsWindow ==
  ASSUME NEW f \in FollowerState, NEW u \in 0..kClocksPerBeat, NEW gap \in Nat \ {0}, Even(f, u),
         NEW v, v = CASE f.tickCount = 0 -> 0
                      [] f.tickCount > 0 /\ gap > 1 -> kClocksPerBeat
                      [] OTHER -> IF u > 0 THEN u - 1 ELSE 0
  PROVE  /\ Even(FollowClock(f, gap), v) /\ v \in 0..kClocksPerBeat
         /\ v = 0 => Measured(f, gap) \in {0, kClocksPerBeat}
<1> DEFINE k == kClocksPerBeat
           w == f.tickWrite
           n == f.tickCount
           g == FollowClock(f, gap)
<1>1. /\ w \in Ticks /\ f.tickTimes \in [Ticks -> 0..Longest] /\ n \in 0 .. k
      /\ k \in Nat /\ k >= 4
  BY Clocks DEF FollowerState
<1>2. /\ g.tickWrite = (w + 1) % k
      /\ g.tickCount = IF n < k THEN n + 1 ELSE n
      /\ g.tickTimes = [[t \in Ticks |-> Shortest(f.tickTimes[t] + gap)] EXCEPT ![w] = 0]
  BY DEF FollowClock
<1>3. /\ g.tickTimes[w] = 0
      /\ \A t \in Ticks : t # w => g.tickTimes[t] = Shortest(f.tickTimes[t] + gap)
  BY <1>1, <1>2
<1>4. v \in 0 .. k /\ (v = 0 /\ n # 0 => gap = 1 /\ u \in {0, 1})
  BY <1>1
<1>5. n > 0 /\ gap > 1 => v = k
  BY <1>1
<1>6. n > 0 /\ gap = 1 => v = IF u > 0 THEN u - 1 ELSE 0
  BY <1>1
<1> HIDE DEF g, w, n, k
<1>7. ASSUME NEW t \in Ticks, Back(g.tickWrite, t) < g.tickCount,
             v = 0 \/ Back(g.tickWrite, t) <= k - v
      PROVE  g.tickTimes[t] = Shortest(Back(g.tickWrite, t))
  <2>1. CASE t = w
    BY <1>1, <1>2, <1>3, <2>1, BackSteps, Bounds DEF Shortest, k
  <2>2. CASE t # w
    <3> DEFINE b == Back(w, t)
    <3>1. b \in Ticks /\ b \in Nat /\ Back(g.tickWrite, t) = b + 1
      BY <1>1, <1>2, <2>2, BackSteps DEF k, Ticks
    <3> HIDE DEF b
    <3>2. b < n /\ n > 0
      BY <1>1, <1>2, <1>7, <3>1
    <3>3. gap = 1
      BY <1>1, <1>5, <1>7, <3>1, <3>2
    <3>4. u = 0 \/ b <= k - u
      <4>1. b <= k - 1
        BY <3>1, <1>1 DEF Ticks, k
      <4> QED BY <1>1, <1>6, <1>7, <3>1, <3>2, <3>3, <4>1 DEF k
    <3>5. f.tickTimes[t] = Shortest(b)
      BY <3>2, <3>4 DEF Even, b, n, w, k
    <3>6. g.tickTimes[t] = Shortest(Shortest(b) + 1)
      BY <1>3, <2>2, <3>3, <3>5
    <3> QED BY <3>1, <3>6, ShortestSteps
  <2> QED BY <2>1, <2>2
<1>8. Even(g, v)
  BY <1>7 DEF Even, k
<1>9. ASSUME v = 0 PROVE Measured(f, gap) \in {0, k}
  <2>1. CASE n # k
    BY <2>1 DEF Measured, n, k
  <2>2. CASE n = k
    <3>1. gap = 1 /\ u \in {0, 1}
      BY <1>1, <1>4, <1>9, <2>2
    <3>2. Back(w, w) = k - 1
      BY <1>1, BackSteps DEF k
    <3>3. f.tickTimes[w] = Shortest(k - 1)
      BY <1>1, <2>2, <3>1, <3>2 DEF Even, n, w, k
    <3>4. Shortest(k - 1) + 1 <= SlowestBeat => Shortest(k - 1) + 1 = k
      BY <1>1, Bounds DEF Shortest, Longest
    <3>5. Measured(f, gap) = IF Shortest(k - 1) + 1 <= SlowestBeat THEN Shortest(k - 1) + 1 ELSE 0
      BY <2>2, <3>1, <3>3 DEF Measured, n, w, k
    <3> QED BY <3>4, <3>5
  <2> QED BY <2>1, <2>2
<1> QED BY <1>4, <1>8, <1>9 DEF g, k

(* A step that leaves the window and its gap alone. *)
LEMMA WindowKept ==
  ASSUME Window, follower'.tickTimes = follower.tickTimes,
         follower'.tickCount = follower.tickCount, follower'.tickWrite = follower.tickWrite,
         uneven' = uneven
  PROVE  Window'
  BY DEF Window, Even

LEMMA TickKeepsWindow ==
  ASSUME Typed, Window, TempoOfMusic, Tick
  PROVE  Window' /\ TempoOfMusic' /\ uneven' \in 0..kClocksPerBeat
<1>1. CASE /\ Arrive(Status("Clock"), sinceTick + 1, Message("Clock", 0, 0))
           /\ uneven' = CASE follower.tickCount = 0 -> 0
                          [] follower.tickCount > 0 /\ sinceTick > 0 -> kClocksPerBeat
                          [] OTHER -> IF uneven > 0 THEN uneven - 1 ELSE 0
  <2> DEFINE m == Message("Clock", 0, 0)
             gap == sinceTick + 1
  <2>1. /\ handleMessage(m, gap) /\ m.status = "Clock"
        /\ inTempo' = (Told(m, gap).tempo \in {0, kClocksPerBeat})
    BY <1>1, RealtimeArrives DEF Typed, Realtime
  <2>2. follower' = FollowClock(Aligned, gap)
    BY <2>1 DEF handleMessage, isBeatNote
  <2>3. /\ Aligned \in FollowerState /\ follower \in FollowerState
        /\ Aligned.tickTimes = follower.tickTimes /\ Aligned.tickCount = follower.tickCount
        /\ Aligned.tickWrite = follower.tickWrite
    BY AlignedTypes DEF Typed
  <2>4. Even(Aligned, uneven)
    BY <2>3 DEF Window, Even
  <2>5. gap \in Nat \ {0} /\ (gap > 1 <=> sinceTick > 0)
    BY Bounds DEF Typed, SongOK
  <2>6. Told(m, gap).tempo \in {0, Measured(Aligned, gap)}
    BY <2>1 DEF Told, Nothing, isBeatNote
  <2> HIDE DEF m, gap
  <2>7. uneven' = CASE Aligned.tickCount = 0 -> 0
                    [] Aligned.tickCount > 0 /\ gap > 1 -> kClocksPerBeat
                    [] OTHER -> IF uneven > 0 THEN uneven - 1 ELSE 0
    BY <1>1, <2>3, <2>5
  <2>8. uneven \in 0..kClocksPerBeat
    BY DEF Typed
  <2>9. /\ Even(FollowClock(Aligned, gap), uneven') /\ uneven' \in 0..kClocksPerBeat
        /\ uneven' = 0 => Measured(Aligned, gap) \in {0, kClocksPerBeat}
    BY <2>3, <2>4, <2>5, <2>7, <2>8, ClockKeepsWindow
  <2>10. Window'
    BY <2>2, <2>9 DEF Window
  <2>11. TempoOfMusic'
    BY <2>1, <2>6, <2>9 DEF TempoOfMusic
  <2> QED BY <2>9, <2>10, <2>11
<1>2. CASE Lose /\ uneven' = uneven
  <2>1. follower' = follower /\ inTempo' = TRUE
    BY <1>2 DEF Lose, inputVars
  <2>2. Window' /\ uneven' \in 0..kClocksPerBeat
    BY <1>2, <2>1, WindowKept DEF Typed
  <2> QED BY <2>1, <2>2, Zenon DEF TempoOfMusic
<1> QED BY <1>1, <1>2, Zenon DEF Tick

LEMMA TransportKeepsWindow ==
  ASSUME Typed, Window, NEW s \in Realtime \ {"Clock"}, Transport(s)
  PROVE  Window' /\ TempoOfMusic' /\ uneven' \in 0..kClocksPerBeat
<1>1. CASE /\ Arrive(Status(s), 0, Message(s, 0, 0))
           /\ uneven' = IF s = "Start" THEN 0 ELSE uneven
  <2> DEFINE m == Message(s, 0, 0)
  <2>1. /\ handleMessage(m, 0) /\ m.status = s /\ m \in Heard
        /\ inTempo' = (Told(m, 0).tempo \in {0, kClocksPerBeat})
    BY <1>1, RealtimeArrives DEF Typed
  <2>2. Told(m, 0).tempo = 0
    BY <2>1 DEF Told, Nothing, isBeatNote
  <2>3. TempoOfMusic'
    BY <2>1, <2>2 DEF TempoOfMusic
  <2>4. uneven' \in 0..kClocksPerBeat
    BY <1>1, Clocks DEF Typed
  <2>5. CASE s = "Start"
    <3>1. follower' = FollowStart(Aligned)
      BY <2>1, <2>5 DEF handleMessage, isBeatNote
    <3>2. follower'.tickCount = 0 /\ follower'.tickWrite = 0
      BY <3>1, AlignedTypes DEF FollowStart, FollowerState, Typed
    <3>3. \A t \in Ticks : ~(Back(0, t) < 0)
      BY BackSteps, Clocks DEF Ticks
    <3> QED BY <2>3, <2>4, <3>2, <3>3 DEF Window, Even
  <2>6. CASE s # "Start"
    <3> QED BY <1>1, <2>1, <2>3, <2>4, <2>6, HandleKeepsWindow, WindowKept DEF Typed
  <2> QED BY <2>5, <2>6
<1>2. CASE Lose /\ uneven' = uneven
  <2>1. follower' = follower /\ inTempo' = TRUE
    BY <1>2 DEF Lose, inputVars
  <2>2. Window' /\ uneven' \in 0..kClocksPerBeat
    BY <1>2, <2>1, WindowKept DEF Typed
  <2> QED BY <2>1, <2>2, Zenon DEF TempoOfMusic
<1> QED BY <1>1, <1>2, Zenon DEF Transport

LEMMA SendKeepsWindow ==
  ASSUME Typed, Window, SendByte
  PROVE  Window' /\ TempoOfMusic' /\ uneven' \in 0..kClocksPerBeat
<1> DEFINE byte == Head(saying.bytes)
<1>1. saying.bytes # <<>> /\ uneven' = uneven
  BY DEF SendByte
<1>2. CASE Arrive(byte, 0, Due)
  <2>1. byte \in Byte /\ byte.status \notin Realtime
    BY <1>1, SentByte DEF Typed
  <2>2. /\ inTempo' = TRUE /\ follower'.tickTimes = follower.tickTimes
        /\ follower'.tickCount = follower.tickCount /\ follower'.tickWrite = follower.tickWrite
    BY <1>2, <2>1, OtherArrives DEF Typed
  <2>3. Window' /\ uneven' \in 0..kClocksPerBeat
    BY <1>1, <2>2, WindowKept DEF Typed
  <2> QED BY <2>2, <2>3, Zenon DEF TempoOfMusic
<1>3. CASE Lose
  <2>1. follower' = follower /\ inTempo' = TRUE
    BY <1>3 DEF Lose, inputVars
  <2>2. Window' /\ uneven' \in 0..kClocksPerBeat
    BY <1>1, <2>1, WindowKept DEF Typed
  <2> QED BY <2>1, <2>2, Zenon DEF TempoOfMusic
<1> QED BY <1>2, <1>3, Zenon DEF SendByte, Due

-----------------------------------------------------------------------------
(* The inductive invariant: the types, the parser ready for the bytes to    *)
(* come, song positions, the grid and the window.                           *)

Inv == Typed /\ Framing /\ Located /\ BeatsInStep /\ Window /\ TempoOfMusic

LEMMA LoseTypes ==
  ASSUME ParserOK, FollowerOK, lost \in 0..MaxLost, Lose
  PROVE  ParserOK' /\ FollowerOK' /\ lost' \in 0..MaxLost /\ framed'
<1>1. UNCHANGED inputVars /\ framed' = TRUE /\ lost < MaxLost /\ lost' = lost + 1
  BY DEF Lose
<1>2. lost' \in 0..MaxLost
  BY <1>1, Bounds
<1> QED BY <1>1, <1>2 DEF inputVars, ParserOK, FollowerOK

LEMMA SendStep == ASSUME Inv, SendByte PROVE Inv'
<1>1. Typed /\ Framing /\ Located /\ BeatsInStep /\ Window /\ TempoOfMusic
  BY DEF Inv
<1>2. SayingOK' /\ Framing'
  BY <1>1, SendKeepsFraming DEF Typed
<1>3. Located' /\ BeatsInStep'
  BY <1>1, SendKeepsLocated, SendKeepsGrid
<1>4. Window' /\ TempoOfMusic' /\ uneven' \in 0..kClocksPerBeat
  BY <1>1, SendKeepsWindow
<1>5. ParserOK' /\ FollowerOK' /\ lost' \in 0..MaxLost
  <2>1. saying.bytes # <<>> /\ (Arrive(Head(saying.bytes), 0, Due) \/ Lose)
    BY Zenon DEF SendByte, Due
  <2>2. CASE Arrive(Head(saying.bytes), 0, Due)
    BY <1>1, <2>1, <2>2, SentByte, OtherArrives DEF Typed, SongOK
  <2>3. CASE Lose
    BY <1>1, <2>3, LoseTypes DEF Typed, SongOK
  <2> QED BY <2>1, <2>2, <2>3
<1>6. songTick' \in Ticks
  <2>1. songTick' \in {songTick, (saying.message.data1 % 4) * (kClocksPerBeat \div 4)}
    BY DEF SendByte
  <2>2. saying.message.data1 \in Nat
    <3>1. saying.message \in Sayable
      BY <1>1, NextByte DEF SendByte, Typed
    <3>2. saying.message.data1 \in Values
      BY <3>1, SayableTypes
    <3>3. \A v \in Values : v \in Nat
      BY ValuesAssumption
    <3> QED BY <3>2, <3>3
  <2>3. (saying.message.data1 % 4) * (kClocksPerBeat \div 4) \in Ticks
    BY <2>2, Sixteenths
  <2> QED BY <1>1, <2>1, <2>3 DEF Typed, SongOK
<1>7. SongOK'
  BY <1>1, <1>5, <1>6 DEF SendByte, Typed, SongOK
<1> QED BY <1>2, <1>3, <1>4, <1>5, <1>7 DEF Inv, Typed

LEMMA TickSong == ASSUME SongOK, Tick PROVE songTick' \in Ticks
  BY Clocks DEF Tick, SongOK

LEMMA TickStep == ASSUME Inv, Tick PROVE Inv'
<1>1. Typed /\ Framing /\ Located /\ BeatsInStep /\ Window /\ TempoOfMusic
  BY DEF Inv
<1>2. BeatsInStep' /\ Window' /\ TempoOfMusic' /\ uneven' \in 0..kClocksPerBeat
  BY <1>1, TickKeepsGrid, TickKeepsWindow
<1>3. UNCHANGED <<playing, saying, spoken, whole>>
  BY DEF Tick
<1>4. CASE /\ Arrive(Status("Clock"), sinceTick + 1, Message("Clock", 0, 0))
           /\ sinceTick' = 0 /\ astray' = (astray \/ alignRequested)
  <2>1. sinceTick + 1 \in Nat /\ sinceTick' \in 0..MaxPause
    BY <1>1, <1>4, Bounds DEF Typed, SongOK
  <2>2. /\ parser' = parser /\ framed' = TRUE /\ lost' = lost
        /\ handleMessage(Message("Clock", 0, 0), sinceTick + 1)
        /\ Message("Clock", 0, 0) \in Heard
    BY <1>1, <1>4, RealtimeArrives DEF Typed, Realtime
  <2>3. FollowerOK'
    BY <1>1, <2>1, <2>2, HandleTypes DEF Typed
  <2>4. SayingOK' /\ Framing'
    BY <1>1, <1>3, <2>2, ParserKept, Zenon DEF Typed
  <2>5. astray => astray'
    BY <1>4, Zenon
  <2>6. Located'
    BY <1>1, <1>3, <2>5, Zenon DEF Located
  <2>7. ParserOK' /\ lost' \in 0..MaxLost
    BY <1>1, <2>2 DEF Typed, ParserOK, SongOK
  <2> QED BY <1>2, <2>1, <2>3, <2>4, <2>6, <2>7, <1>1, <1>3, TickSong DEF Inv, Typed, SongOK
<1>5. CASE Lose /\ sinceTick < MaxPause /\ sinceTick' = sinceTick + 1 /\ astray' = (astray \/ playing)
  <2>1. sinceTick' \in 0..MaxPause
    BY <1>1, <1>5, Bounds DEF Typed, SongOK
  <2>2. ParserOK' /\ FollowerOK' /\ lost' \in 0..MaxLost /\ framed'
    BY <1>1, <1>5, LoseTypes DEF Typed, SongOK
  <2>3. parser' = parser
    BY <1>5 DEF Lose, inputVars
  <2>4. SayingOK' /\ Framing'
    BY <1>1, <1>3, <2>2, <2>3, ParserKept, Zenon DEF Typed
  <2>5. astray => astray'
    BY <1>5, Zenon
  <2>6. Located'
    BY <1>1, <1>3, <2>5, Zenon DEF Located
  <2> QED BY <1>2, <2>1, <2>2, <2>4, <2>6, <1>1, <1>3, TickSong DEF Inv, Typed, SongOK
<1> QED BY <1>4, <1>5, Zenon DEF Tick

LEMMA TransportStep == ASSUME Inv, NEW s \in Realtime \ {"Clock"}, Transport(s) PROVE Inv'
<1>1. Typed /\ Framing /\ Located /\ BeatsInStep /\ Window /\ TempoOfMusic
  BY DEF Inv
<1>2. BeatsInStep' /\ Window' /\ TempoOfMusic' /\ uneven' \in 0..kClocksPerBeat
  BY <1>1, TransportKeepsGrid, TransportKeepsWindow
<1>3. /\ UNCHANGED <<sinceTick, saying, spoken, whole>>
      /\ playing' \in BOOLEAN /\ songTick' \in {0, songTick}
      /\ saying.message.status = "SongPosition" => saying.bytes = <<>>
  BY DEF Transport
<1>4. Located'
  BY <1>3, Zenon DEF Located
<1>5. SongOK' <=> lost' \in 0..MaxLost
  BY <1>1, <1>3, Clocks DEF Typed, SongOK
<1>6. CASE Arrive(Status(s), 0, Message(s, 0, 0))
  <2>1. /\ parser' = parser /\ framed' = TRUE /\ lost' = lost
        /\ handleMessage(Message(s, 0, 0), 0) /\ Message(s, 0, 0) \in Heard
    BY <1>1, <1>6, RealtimeArrives DEF Typed
  <2>2. FollowerOK'
    BY <1>1, <2>1, HandleTypes DEF Typed
  <2>3. SayingOK' /\ Framing'
    BY <1>1, <1>3, <2>1, ParserKept, Zenon DEF Typed
  <2>4. ParserOK' /\ lost' \in 0..MaxLost
    BY <1>1, <2>1 DEF Typed, ParserOK, SongOK
  <2> QED BY <1>2, <1>4, <1>5, <2>2, <2>3, <2>4 DEF Inv, Typed
<1>7. CASE Lose
  <2>1. ParserOK' /\ FollowerOK' /\ lost' \in 0..MaxLost /\ framed'
    BY <1>1, <1>7, LoseTypes DEF Typed, SongOK
  <2>2. parser' = parser
    BY <1>7 DEF Lose, inputVars
  <2>3. SayingOK' /\ Framing'
    BY <1>1, <1>3, <2>1, <2>2, ParserKept, Zenon DEF Typed
  <2> QED BY <1>2, <1>4, <1>5, <2>1, <2>3 DEF Inv, Typed
<1> QED BY <1>6, <1>7, Zenon DEF Transport

LEMMA SayStep ==
  ASSUME Inv, NEW m \in Sayable, NEW running \in BOOLEAN, Say(m, running)
  PROVE  Inv'
<1>1. Typed /\ Framing /\ Located /\ BeatsInStep /\ Window /\ TempoOfMusic
  BY DEF Inv
<1>2. SayingOK' /\ Framing'
  BY <1>1, SayKeepsFraming DEF Typed
<1>3. /\ UNCHANGED <<inputVars, songVars, lost, historyVars>>
      /\ saying' = [message |-> m, bytes |-> IF running THEN Tail(Bytes(m)) ELSE Bytes(m)]
      /\ running => m.status = spoken
  BY DEF Say
<1>4. Located'
  <2> SUFFICES ASSUME m.status = "SongPosition" PROVE Len(saying'.bytes) = 3
    BY <1>3 DEF Located
  <2>1. ~running
    BY <1>1, <1>3 DEF Typed, SayingOK, Channel, None
  <2>2. dataBytesFor(m.status) = 2
    BY DEF dataBytesFor
  <2>3. Len(Bytes(m)) = 3
    BY <2>2, BytesOf
  <2> QED BY <1>3, <2>1, <2>3
<1>5. Typed' /\ BeatsInStep' /\ Window' /\ TempoOfMusic'
  BY <1>1, <1>2, <1>3 DEF Typed, ParserOK, FollowerOK, SongOK, BeatsInStep, Window, TempoOfMusic,
                          inputVars, songVars, historyVars
<1> QED BY <1>2, <1>4, <1>5 DEF Inv

LEMMA QuietStep ==
  ASSUME Inv, Pause \/ alignToNow \/ NotesLapse \/ UNCHANGED vars
  PROVE  Inv'
<1>1. Typed /\ Framing /\ Located /\ BeatsInStep /\ Window /\ TempoOfMusic
  BY DEF Inv
<1>2. UNCHANGED <<parser, follower, playing, songTick, saying, spoken, historyVars>>
  BY DEF Pause, alignToNow, NotesLapse, vars, inputVars, songVars, senderVars, historyVars
<1>3. alignRequested' \in BOOLEAN /\ noteHolds' \in BOOLEAN
  BY <1>1 DEF Pause, alignToNow, NotesLapse, vars, inputVars, Typed, FollowerOK
<1>4. sinceTick' \in 0..MaxPause /\ lost' \in 0..MaxLost
  <2>1. CASE Pause
    BY <1>1, <2>1, Bounds DEF Pause, Typed, SongOK
  <2>2. CASE UNCHANGED <<sinceTick, lost>>
    BY <1>1, <2>2 DEF Typed, SongOK
  <2> QED BY <2>1, <2>2 DEF alignToNow, NotesLapse, vars, songVars, senderVars
<1>5. SayingOK' /\ Framing'
  BY <1>1, <1>2, ParserKept, Zenon DEF Typed, historyVars
<1>6. ParserOK' /\ FollowerOK' /\ SongOK' /\ uneven' \in 0..kClocksPerBeat
  BY <1>1, <1>2, <1>3, <1>4 DEF Typed, ParserOK, FollowerOK, SongOK, historyVars
<1>7. Located' /\ BeatsInStep' /\ Window' /\ TempoOfMusic'
  BY <1>1, <1>2 DEF Located, BeatsInStep, Window, TempoOfMusic, historyVars
<1> QED BY <1>5, <1>6, <1>7 DEF Inv, Typed

LEMMA InitInv == Init => Inv
<1> SUFFICES ASSUME Init PROVE Inv
  OBVIOUS
<1>1. ParserOK
  BY Small DEF Init, ParserOK, ParserState
<1>2. FollowerOK
  <2>1. 0 \in 0..Longest /\ 0 \in 0..kClocksPerBeat /\ 0 \in Ticks
    BY Bounds, Clocks
  <2>2. [t \in Ticks |-> 0] \in [Ticks -> 0..Longest]
    BY <2>1
  <2> QED BY <2>1, <2>2 DEF Init, FollowerOK
<1>3. SongOK /\ uneven \in 0..kClocksPerBeat
  <2>1. 0 \in 0..MaxPause /\ 0 \in 0..MaxLost /\ 0 \in 0..kClocksPerBeat /\ 0 \in Ticks
    BY Bounds, Clocks
  <2> QED BY <2>1 DEF Init, SongOK
<1>4. SayingOK
  <2>1. <<>> \in Seq(Byte)
    OBVIOUS
  <2> QED BY <2>1 DEF Init, SayingOK
<1>5. Framing
  <2>1. saying.message = Silence /\ Len(saying.bytes) = 0 /\ parser.wanted = 0
        /\ parser.runningStatus = spoken
    BY DEF Init
  <2>2. ReadyFor(parser, saying.message, 0, spoken)
    BY <2>1 DEF ReadyFor
  <2> QED BY <2>1, <2>2 DEF Framing, Ready, Init
<1>6. Located /\ BeatsInStep /\ TempoOfMusic
  BY DEF Init, Located, BeatsInStep, TempoOfMusic
<1>7. Window
  <2>1. \A t \in Ticks : ~(Back(0, t) < 0)
    BY BackSteps, Clocks DEF Ticks
  <2>2. follower.tickWrite = 0 /\ follower.tickCount = 0
    BY DEF Init
  <2> QED BY <2>1, <2>2 DEF Window, Even
<1> QED BY <1>1, <1>2, <1>3, <1>4, <1>5, <1>6, <1>7 DEF Inv, Typed

LEMMA StepKeepsInv == Inv /\ [Next]_vars => Inv'
  BY SayStep, SendStep, TickStep, TransportStep, QuietStep DEF Next

LEMMA InvTypes == Inv => TypeOK
  BY DEF Inv, Typed, ParserOK, ParserState, FollowerOK, SongOK, TypeOK, Framed, Statuses, Channel,
         System

(* The parser, the follower's window and the song's clock are well formed   *)
(* (parser.cpp, clock.cpp).                                                 *)
THEOREM TypeCorrect == Spec => []TypeOK
  BY InitInv, StepKeepsInv, InvTypes, PTL DEF Spec

(* parser.h: running status, and realtime bytes inside another message: of  *)
(* what arrives whole, each message is heard at its last byte.              *)
THEOREM FramesWhatIsSaidHolds == Spec => []FramesWhatIsSaid
<1>1. Inv => FramesWhatIsSaid
  BY DEF Inv, Framing, FramesWhatIsSaid
<1> QED BY <1>1, InitInv, StepKeepsInv, PTL DEF Spec

(* clock.h: after a Start or a song position the follower's beat is the     *)
(* song's, until something other than the song moves one of them.           *)
THEOREM BeatsInStepHolds == Spec => []BeatsInStep
<1>1. Inv => BeatsInStep
  BY DEF Inv
<1> QED BY <1>1, InitInv, StepKeepsInv, PTL DEF Spec

(* clock.h: over a window without a gap, the tempo told is one beat of      *)
(* ticks: the slot that is read is the one written a beat ago.              *)
THEOREM TempoOfMusicHolds == Spec => []TempoOfMusic
<1>1. Inv => TempoOfMusic
  BY DEF Inv
<1> QED BY <1>1, InitInv, StepKeepsInv, PTL DEF Spec
=============================================================================
