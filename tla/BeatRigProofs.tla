--------------------------- MODULE BeatRigProofs ---------------------------
(***************************************************************************)
(* BeatRig for every tempo range, latency, order of the rack and bound.    *)
(*                                                                         *)
(* A call is a sequence of stores of which each sets its fields once, so   *)
(* what the clock will be when the call is done (After) does not change    *)
(* while its stores are made; and a beat stores its number before its      *)
(* anchor, so the beat shown is never less on the way.                     *)
(***************************************************************************)
EXTENDS BeatRig, TLAPS

Fields == {"period", "anchor", "beatNumber", "lastBeatAt", "lastBeatCount", "downbeat",
           "settled", "strayBeats", "lastExternal", "tempoHeld", "freeRun", "latency"}

(* A store of values that the clock's fields may have. *)
GoodStore(s) ==
    /\ "period" \in DOMAIN s => s.period \in Periods
    /\ "anchor" \in DOMAIN s => s.anchor \in Int
    /\ "beatNumber" \in DOMAIN s => s.beatNumber \in Nat
    /\ "lastBeatAt" \in DOMAIN s => s.lastBeatAt \in Int
    /\ "lastBeatCount" \in DOMAIN s => s.lastBeatCount \in Nat
    /\ "downbeat" \in DOMAIN s => s.downbeat \in Nat
    /\ "settled" \in DOMAIN s => s.settled \in 0..kSettleBeats
    /\ "strayBeats" \in DOMAIN s => s.strayBeats \in 0..(kRelockBeats - 1)
    /\ "lastExternal" \in DOMAIN s => s.lastExternal \in Int
    /\ "tempoHeld" \in DOMAIN s => s.tempoHeld \in BOOLEAN
    /\ "freeRun" \in DOMAIN s => s.freeRun \in BOOLEAN
    /\ "latency" \in DOMAIN s => s.latency \in Int

Stores == {s \in UNION {[F -> Int \cup BOOLEAN] : F \in SUBSET Fields} : GoodStore(s)}

LEMMA Constants ==
  /\ MinPeriod \in Nat /\ MinPeriod >= 1 /\ MaxPeriod \in Nat
  /\ kSettleBeats \in Nat /\ kSettleBeats >= 1 /\ kRelockBeats \in Nat /\ kRelockBeats >= 1
  /\ kBeatsPerBar \in Nat /\ kBeatsPerBar >= 1 /\ kExternalTimeout \in Nat
  /\ \A p \in Periods : p \in Nat /\ p >= 1
  BY PeriodAssumption, CountsAssumption DEF Periods

LEMMA ClockFields ==
  ASSUME NEW c \in Clock
  PROVE  /\ c.period \in Periods /\ c.period \in Nat /\ c.period >= 1
         /\ c.anchor \in Int /\ c.beatNumber \in Nat /\ c.lastBeatAt \in Int
         /\ c.lastBeatCount \in Nat /\ c.downbeat \in Nat
         /\ c.settled \in 0..kSettleBeats /\ c.strayBeats \in 0..(kRelockBeats - 1)
         /\ c.lastExternal \in Int /\ c.tempoHeld \in BOOLEAN /\ c.freeRun \in BOOLEAN
         /\ c.latency \in Int /\ DOMAIN c = Fields
  BY Constants DEF Clock, Fields

-----------------------------------------------------------------------------
(* Reading the clock. *)
LEMMA BeatFromFacts ==
  ASSUME NEW anchor \in Int, NEW number \in Nat, NEW period \in Periods,
         NEW freeRun, NEW when \in Int
  PROVE  /\ BeatFrom(anchor, number, period, freeRun, when) \in Nat
         /\ BeatFrom(anchor, number, period, freeRun, when) >= number
         /\ when <= anchor => BeatFrom(anchor, number, period, freeRun, when) = number
         /\ \A later \in Int : when <= later =>
              BeatFrom(anchor, number, period, freeRun, when)
                <= BeatFrom(anchor, number, period, freeRun, later)
<1>1. period \in Nat /\ period >= 1
  BY Constants
<1>2. /\ Gone(anchor, when) \in Nat
      /\ when <= anchor => Gone(anchor, when) = 0
      /\ \A later \in Int : when <= later =>
            Gone(anchor, later) \in Nat /\ Gone(anchor, when) <= Gone(anchor, later)
  BY DEF Gone
<1>3. \A a, b \in Nat : /\ a \div period \in Nat
                        /\ a <= b => a \div period <= b \div period
                        /\ 0 \div period = 0
  BY <1>1
<1>4. \A later \in Int : when <= later =>
         Gone(anchor, when) \div period <= Gone(anchor, later) \div period
  BY <1>2, <1>3
<1>5. CASE freeRun
  BY <1>2, <1>3, <1>4, <1>5 DEF BeatFrom
<1>6. CASE ~freeRun
  BY <1>6 DEF BeatFrom
<1> QED BY <1>5, <1>6

LEMMA BeatType ==
  ASSUME NEW c \in Clock, NEW when \in Int
  PROVE  Beat(c, when) \in Nat
  BY ClockFields, BeatFromFacts DEF Beat

LEMMA PartType ==
  ASSUME NEW c \in Clock, NEW when \in Int
  PROVE  Part(c, when) \in 0..(c.period - 1)
<1>1. Gone(c.anchor, when) \in Nat
  BY ClockFields DEF Gone
<1>2. Gone(c.anchor, when) % c.period \in 0..(c.period - 1)
  BY <1>1, ClockFields
<1> QED BY <1>2, ClockFields DEF Part, PartFrom

LEMMA NextBeatFacts ==
  ASSUME NEW c \in Clock, NEW when \in Int, NEW steps \in Nat,
         NEW advance \in {"Grid", "Fresh", "Exact"}
  PROVE  /\ NextBeat(c, when, steps, advance) \in Nat
         /\ advance # "Exact" => NextBeat(c, when, steps, advance) >= Beat(c, when)
  BY ClockFields, BeatType DEF NextBeat, AtLeast

-----------------------------------------------------------------------------
(* Making stores. *)
LEMMA StoredType ==
  ASSUME NEW c \in Clock, NEW s \in Stores
  PROVE  Stored(c, s) \in Clock
  BY DEF Stores, GoodStore, Stored, Clock

LEMMA StoredFields ==
  ASSUME NEW c \in Clock, NEW s, NEW f \in Fields
  PROVE  Stored(c, s)[f] = IF f \in DOMAIN s THEN s[f] ELSE c[f]
  BY DEF Clock, Stored, Fields

(* A call sets a field once. *)
Once(q) == \A f \in Fields : \A i, j \in DOMAIN q :
              f \in DOMAIN q[i] /\ f \in DOMAIN q[j] => i = j

LEMMA AfterAt ==
  ASSUME NEW c \in Clock, NEW q \in Seq(Stores), Once(q), NEW i \in DOMAIN q,
         NEW f \in Fields, f \in DOMAIN q[i]
  PROVE  After(c, q)[f] = q[i][f]
<1>1. Sets(q, f)
  BY DEF Sets
<1>2. (CHOOSE j \in DOMAIN q : f \in DOMAIN q[j]) = i
  BY DEF Once
<1> QED BY <1>1, <1>2, ClockFields DEF After

LEMMA AfterUnset ==
  ASSUME NEW c \in Clock, NEW q, NEW f \in Fields, ~Sets(q, f)
  PROVE  After(c, q)[f] = c[f]
  BY ClockFields DEF After

LEMMA AfterNone ==
  ASSUME NEW c \in Clock
  PROVE  After(c, <<>>) = c
<1>1. \A f \in Fields : ~Sets(<<>>, f)
  BY DEF Sets
<1>2. After(c, <<>>) = [f \in DOMAIN c |-> c[f]]
  BY <1>1, ClockFields DEF After
<1>3. c = [f \in DOMAIN c |-> c[f]]
  BY DEF Clock
<1> QED BY <1>2, <1>3

LEMMA AfterType ==
  ASSUME NEW c \in Clock, NEW q \in Seq(Stores), Once(q)
  PROVE  After(c, q) \in Clock
<1>1. ASSUME NEW f \in Fields
      PROVE  \/ After(c, q)[f] = c[f]
             \/ \E s \in Stores : f \in DOMAIN s /\ After(c, q)[f] = s[f]
  <2>1. CASE ~Sets(q, f)
    BY <2>1, AfterUnset
  <2>2. CASE Sets(q, f)
    <3>1. PICK i \in DOMAIN q : f \in DOMAIN q[i]
      BY <2>2 DEF Sets
    <3> QED BY <3>1, AfterAt
  <2> QED BY <2>1, <2>2
<1> DEFINE a == After(c, q)
<1>2. DOMAIN a = Fields /\ a = [f \in Fields |-> a[f]]
  BY ClockFields DEF After
<1> HIDE DEF a
<1>3. \A f \in Fields : a[f] = c[f] \/ \E s \in Stores : f \in DOMAIN s /\ a[f] = s[f]
  BY <1>1 DEF a
<1>4. /\ a.period \in Periods /\ a.anchor \in Int /\ a.beatNumber \in Nat
      /\ a.lastBeatAt \in Int /\ a.lastBeatCount \in Nat /\ a.downbeat \in Nat
  BY <1>3, ClockFields DEF Fields, Stores, GoodStore
<1>5. /\ a.settled \in 0..kSettleBeats /\ a.strayBeats \in 0..(kRelockBeats - 1)
      /\ a.lastExternal \in Int
  BY <1>3, ClockFields DEF Fields, Stores, GoodStore
<1>6. a.tempoHeld \in BOOLEAN /\ a.freeRun \in BOOLEAN /\ a.latency \in Int
  BY <1>3, ClockFields DEF Fields, Stores, GoodStore
<1>7. a \in Clock
  BY <1>2, <1>4, <1>5, <1>6 DEF Clock, Fields
<1> QED BY <1>7 DEF a

(* What the clock will be does not change while the stores are made.        *)
LEMMA AfterStep ==
  ASSUME NEW c \in Clock, NEW q \in Seq(Stores), q # <<>>, Once(q)
  PROVE  /\ After(Stored(c, Head(q)), Tail(q)) = After(c, q)
         /\ Once(Tail(q)) /\ Tail(q) \in Seq(Stores)
<1> DEFINE s == Head(q)
           r == Tail(q)
           d == Stored(c, s)
<1>1. /\ r \in Seq(Stores) /\ s \in Stores /\ s = q[1] /\ 1 \in DOMAIN q
      /\ \A i \in DOMAIN r : i + 1 \in DOMAIN q /\ r[i] = q[i + 1] /\ i + 1 # 1
      /\ \A i \in DOMAIN q : i # 1 => i - 1 \in DOMAIN r /\ r[i - 1] = q[i]
      /\ \A i \in DOMAIN r : i \in Int
      /\ \A i \in DOMAIN q : i \in Int
  OBVIOUS
<1> HIDE DEF s, r
<1>2. Once(r)
  BY <1>1 DEF Once
<1>3. d \in Clock
  BY <1>1, StoredType
<1>4. ASSUME NEW f \in Fields PROVE After(d, r)[f] = After(c, q)[f]
  <2>1. CASE f \in DOMAIN s
    <3>1. ~Sets(r, f)
      BY <1>1, <2>1 DEF Sets, Once
    <3>2. After(d, r)[f] = s[f]
      BY <3>1, <2>1, <1>3, AfterUnset, StoredFields
    <3> QED BY <3>2, <2>1, <1>1, AfterAt
  <2>2. CASE f \notin DOMAIN s /\ Sets(r, f)
    <3>1. PICK i \in DOMAIN r : f \in DOMAIN r[i]
      BY <2>2 DEF Sets
    <3>2. After(d, r)[f] = r[i][f]
      BY <3>1, <1>1, <1>2, <1>3, AfterAt
    <3>3. i + 1 \in DOMAIN q /\ q[i + 1] = r[i]
      BY <1>1
    <3>4. After(c, q)[f] = q[i + 1][f]
      BY <3>1, <3>3, AfterAt
    <3> QED BY <3>2, <3>3, <3>4
  <2>3. CASE f \notin DOMAIN s /\ ~Sets(r, f)
    <3>1. ~Sets(q, f)
      BY <2>3, <1>1 DEF Sets
    <3>2. After(d, r)[f] = c[f]
      BY <2>3, <1>3, AfterUnset, StoredFields
    <3> QED BY <3>1, <3>2, AfterUnset
  <2> QED BY <2>1, <2>2, <2>3
<1>5. /\ After(d, r) = [f \in Fields |-> After(d, r)[f]]
      /\ After(c, q) = [f \in Fields |-> After(c, q)[f]]
  BY <1>3, ClockFields DEF After
<1>6. After(d, r) = After(c, q)
  BY <1>4, <1>5
<1> QED BY <1>1, <1>2, <1>6 DEF s, r

-----------------------------------------------------------------------------
(* What the stores of each call are. *)
Silent(q) ==
    /\ q \in Seq(Stores) /\ Len(q) = 1
    /\ DOMAIN q[1] \subseteq {"lastExternal", "strayBeats"}

Beaten(q, next, when) ==
    /\ q \in Seq(Stores) /\ Len(q) \in 3..4
    /\ DOMAIN q[1] \subseteq {"lastExternal", "settled"}
    /\ DOMAIN q[2] = {"beatNumber", "lastBeatCount", "lastBeatAt"}
    /\ q[2].beatNumber = next /\ q[2].lastBeatCount = next /\ q[2].lastBeatAt = when
    /\ DOMAIN q[3] = {"anchor", "strayBeats"} /\ q[3].anchor = when
    /\ Len(q) = 4 => DOMAIN q[4] = {"period"}

Restarted(q, next, when) ==
    /\ q \in Seq(Stores) /\ Len(q) = 3
    /\ DOMAIN q[1] = {"beatNumber", "lastBeatCount", "lastBeatAt"}
    /\ q[1].beatNumber = next
    /\ DOMAIN q[2] = {"anchor", "strayBeats"} /\ q[2].anchor = when
    /\ DOMAIN q[3] = {"downbeat", "settled", "lastExternal"}

Retimed(q) ==
    /\ q \in Seq(Stores) /\ Len(q) = 3
    /\ DOMAIN q[1] = {"period"} /\ DOMAIN q[2] = {"beatNumber"} /\ DOMAIN q[3] = {"anchor"}

Single(q) == q \in Seq(Stores) /\ Len(q) = 1

LEMMA BeatenOnce ==
  ASSUME NEW q, NEW next, NEW when, Beaten(q, next, when)
  PROVE  Once(q)
<1>1. \A i \in DOMAIN q : i = 1 \/ i = 2 \/ i = 3 \/ (i = 4 /\ Len(q) = 4)
  BY DEF Beaten
<1> QED BY <1>1 DEF Beaten, Once

LEMMA RestartedOnce ==
  ASSUME NEW q, NEW next, NEW when, Restarted(q, next, when)
  PROVE  Once(q)
<1>1. \A i \in DOMAIN q : i = 1 \/ i = 2 \/ i = 3
  BY DEF Restarted
<1> QED BY <1>1 DEF Restarted, Once

LEMMA RetimedOnce ==
  ASSUME NEW q, Retimed(q)
  PROVE  Once(q)
<1>1. \A i \in DOMAIN q : i = 1 \/ i = 2 \/ i = 3
  BY DEF Retimed
<1> QED BY <1>1 DEF Retimed, Once

LEMMA SingleOnce ==
  ASSUME NEW q, Single(q)
  PROVE  Once(q)
<1>1. \A i \in DOMAIN q : i = 1
  BY DEF Single
<1> QED BY <1>1 DEF Once

(* The stores themselves. *)
LEMMA NumberStore ==
  ASSUME NEW next \in Nat, NEW when \in Int
  PROVE  [beatNumber |-> next, lastBeatCount |-> next, lastBeatAt |-> when] \in Stores
<1> DEFINE s == [beatNumber |-> next, lastBeatCount |-> next, lastBeatAt |-> when]
<1>1. s \in [{"beatNumber", "lastBeatCount", "lastBeatAt"} -> Int \cup BOOLEAN]
  OBVIOUS
<1>2. GoodStore(s)
  BY DEF GoodStore
<1> QED BY <1>1, <1>2 DEF Stores, Fields

LEMMA AnchorStore ==
  ASSUME NEW when \in Int
  PROVE  [anchor |-> when, strayBeats |-> 0] \in Stores
<1> DEFINE s == [anchor |-> when, strayBeats |-> 0]
<1>1. s \in [{"anchor", "strayBeats"} -> Int \cup BOOLEAN]
  OBVIOUS
<1>2. GoodStore(s)
  BY Constants DEF GoodStore
<1> QED BY <1>1, <1>2 DEF Stores, Fields

LEMMA HeardStore ==
  ASSUME NEW when \in Int
  PROVE  [lastExternal |-> when] \in Stores
<1> DEFINE s == [lastExternal |-> when]
<1>1. s \in [{"lastExternal"} -> Int \cup BOOLEAN]
  OBVIOUS
<1>2. GoodStore(s)
  BY DEF GoodStore
<1> QED BY <1>1, <1>2 DEF Stores, Fields

LEMMA SettledStore ==
  ASSUME NEW when \in Int, NEW settled \in 0..kSettleBeats
  PROVE  [lastExternal |-> when, settled |-> settled] \in Stores
<1> DEFINE s == [lastExternal |-> when, settled |-> settled]
<1>1. s \in [{"lastExternal", "settled"} -> Int \cup BOOLEAN]
  BY Constants
<1>2. GoodStore(s)
  BY DEF GoodStore
<1> QED BY <1>1, <1>2 DEF Stores, Fields

LEMMA StrayStore ==
  ASSUME NEW when \in Int, NEW stray \in 0..(kRelockBeats - 1)
  PROVE  [lastExternal |-> when, strayBeats |-> stray] \in Stores
<1> DEFINE s == [lastExternal |-> when, strayBeats |-> stray]
<1>1. s \in [{"lastExternal", "strayBeats"} -> Int \cup BOOLEAN]
  BY Constants
<1>2. GoodStore(s)
  BY DEF GoodStore
<1> QED BY <1>1, <1>2 DEF Stores, Fields

LEMMA PeriodStore ==
  ASSUME NEW period \in Periods
  PROVE  [period |-> period] \in Stores
<1> DEFINE s == [period |-> period]
<1>1. s \in [{"period"} -> Int \cup BOOLEAN]
  BY Constants
<1>2. GoodStore(s)
  BY DEF GoodStore
<1> QED BY <1>1, <1>2 DEF Stores, Fields

LEMMA RetimeStores ==
  ASSUME NEW number \in Nat, NEW anchor \in Int
  PROVE  [beatNumber |-> number] \in Stores /\ [anchor |-> anchor] \in Stores
<1> DEFINE s == [beatNumber |-> number]
           u == [anchor |-> anchor]
<1>1. s \in [{"beatNumber"} -> Int \cup BOOLEAN] /\ u \in [{"anchor"} -> Int \cup BOOLEAN]
  OBVIOUS
<1>2. GoodStore(s) /\ GoodStore(u)
  BY DEF GoodStore
<1> QED BY <1>1, <1>2 DEF Stores, Fields

LEMMA RestartStore ==
  ASSUME NEW next \in Nat, NEW when \in Int
  PROVE  [downbeat |-> next, settled |-> 0, lastExternal |-> when] \in Stores
<1> DEFINE s == [downbeat |-> next, settled |-> 0, lastExternal |-> when]
<1>1. s \in [{"downbeat", "settled", "lastExternal"} -> Int \cup BOOLEAN]
  OBVIOUS
<1>2. GoodStore(s)
  BY Constants DEF GoodStore
<1> QED BY <1>1, <1>2 DEF Stores, Fields

LEMMA SettingStores ==
  ASSUME NEW b \in BOOLEAN, NEW seconds \in Int
  PROVE  /\ [tempoHeld |-> b] \in Stores /\ [freeRun |-> b] \in Stores
         /\ [latency |-> seconds] \in Stores
<1> DEFINE s == [tempoHeld |-> b]
           u == [freeRun |-> b]
           v == [latency |-> seconds]
<1>1. /\ s \in [{"tempoHeld"} -> Int \cup BOOLEAN] /\ u \in [{"freeRun"} -> Int \cup BOOLEAN]
      /\ v \in [{"latency"} -> Int \cup BOOLEAN]
  OBVIOUS
<1>2. GoodStore(s) /\ GoodStore(u) /\ GoodStore(v)
  BY DEF GoodStore
<1> QED BY <1>1, <1>2 DEF Stores, Fields

(* A tempo learned lies between the old one and the gap. *)
LEMMA learnPeriodShape ==
  ASSUME NEW c \in Clock, NEW interval \in Int
  PROVE  \/ learnPeriod(c, interval) = <<>>
         \/ \E s \in Stores : DOMAIN s = {"period"} /\ learnPeriod(c, interval) = <<s>>
<1>1. CASE c.tempoHeld \/ interval \notin Periods
  BY <1>1 DEF learnPeriod
<1>2. CASE ~c.tempoHeld /\ interval \in Periods
  <2> DEFINE p == (3 * c.period + interval) \div 4
  <2>1. p \in Periods
    BY <1>2, ClockFields, Constants DEF Periods
  <2>2. learnPeriod(c, interval) = <<[period |-> p]>>
    BY <1>2 DEF learnPeriod
  <2> QED BY <2>1, <2>2, PeriodStore
<1> QED BY <1>1, <1>2

LEMMA learnPeriodType ==
  ASSUME NEW c \in Clock, NEW interval \in Int
  PROVE  learnPeriod(c, interval) \in Seq(Stores)
<1>1. CASE learnPeriod(c, interval) = <<>>
  BY <1>1
<1>2. ASSUME NEW s \in Stores, learnPeriod(c, interval) = <<s>>
      PROVE  learnPeriod(c, interval) \in Seq(Stores)
  BY <1>2
<1> QED BY <1>1, <1>2, learnPeriodShape

LEMMA BeatenStores ==
  ASSUME NEW head \in Stores, DOMAIN head \subseteq {"lastExternal", "settled"},
         NEW c \in Clock, NEW when \in Int, NEW steps \in Nat,
         NEW advance \in {"Grid", "Fresh", "Exact"}, NEW interval \in Int
  PROVE  Beaten(<<head>> \o takeBeat(c, when, steps, advance) \o learnPeriod(c, interval),
                NextBeat(c, when, steps, advance), when)
<1> DEFINE next == NextBeat(c, when, steps, advance)
           n == [beatNumber |-> next, lastBeatCount |-> next, lastBeatAt |-> when]
           a == [anchor |-> when, strayBeats |-> 0]
<1>1. next \in Nat
  BY NextBeatFacts
<1> HIDE DEF next
<1>2. n \in Stores /\ a \in Stores
  BY <1>1, NumberStore, AnchorStore
<1>3. /\ DOMAIN n = {"beatNumber", "lastBeatCount", "lastBeatAt"}
      /\ n.beatNumber = next /\ n.lastBeatCount = next /\ n.lastBeatAt = when
      /\ DOMAIN a = {"anchor", "strayBeats"} /\ a.anchor = when
  OBVIOUS
<1>4. takeBeat(c, when, steps, advance) = <<n, a>>
  BY DEF takeBeat, next
<1> HIDE DEF n, a
<1>5. CASE learnPeriod(c, interval) = <<>>
  <2> DEFINE q == <<head>> \o <<n, a>> \o <<>>
  <2>1. q \in Seq(Stores) /\ Len(q) = 3 /\ q[1] = head /\ q[2] = n /\ q[3] = a
    BY <1>2
  <2> HIDE DEF q
  <2>2. Beaten(q, next, when)
    BY <2>1, <1>3 DEF Beaten
  <2> QED BY <2>2, <1>4, <1>5 DEF q, next
<1>6. ASSUME NEW s \in Stores, DOMAIN s = {"period"}, learnPeriod(c, interval) = <<s>>
      PROVE  Beaten(<<head>> \o takeBeat(c, when, steps, advance) \o learnPeriod(c, interval),
                    NextBeat(c, when, steps, advance), when)
  <2> DEFINE q == <<head>> \o <<n, a>> \o <<s>>
  <2>1. q \in Seq(Stores) /\ Len(q) = 4 /\ q[1] = head /\ q[2] = n /\ q[3] = a /\ q[4] = s
    BY <1>2
  <2> HIDE DEF q
  <2>2. Beaten(q, next, when)
    BY <2>1, <1>3, <1>6 DEF Beaten
  <2> QED BY <2>2, <1>4, <1>6 DEF q, next
<1> QED BY <1>5, <1>6, learnPeriodShape

LEMMA OneBeatShape ==
  ASSUME NEW c \in Clock, NEW when \in Int, NEW elapsed \in Int, NEW settled \in 0..kSettleBeats
  PROVE  /\ Beaten(OneBeat(c, when, elapsed, settled), NextBeat(c, when, 1, "Grid"), when)
         /\ OneBeat(c, when, elapsed, settled)[1] = [lastExternal |-> when, settled |-> settled]
<1> DEFINE head == [lastExternal |-> when, settled |-> settled]
<1>1. head \in Stores
  BY SettledStore
<1>2. DOMAIN head \subseteq {"lastExternal", "settled"}
  OBVIOUS
<1> HIDE DEF head
<1>3. Beaten(<<head>> \o takeBeat(c, when, 1, "Grid") \o learnPeriod(c, elapsed),
             NextBeat(c, when, 1, "Grid"), when)
  BY <1>1, <1>2, BeatenStores
<1>4. OneBeat(c, when, elapsed, settled)
        = <<head>> \o takeBeat(c, when, 1, "Grid") \o learnPeriod(c, elapsed)
  BY DEF OneBeat, head
<1>5. takeBeat(c, when, 1, "Grid") \in Seq(Stores)
  BY NextBeatFacts, NumberStore, AnchorStore DEF takeBeat
<1>6. learnPeriod(c, elapsed) \in Seq(Stores)
  BY learnPeriodType
<1>7. (<<head>> \o takeBeat(c, when, 1, "Grid") \o learnPeriod(c, elapsed))[1] = head
  BY <1>1, <1>5, <1>6
<1> QED BY <1>3, <1>4, <1>7 DEF head

LEMMA HeardSilent ==
  ASSUME NEW when \in Int
  PROVE  Silent(Heard(when))
<1>1. [lastExternal |-> when] \in Stores
  BY HeardStore
<1>2. DOMAIN [lastExternal |-> when] = {"lastExternal"}
  OBVIOUS
<1> QED BY <1>1, <1>2 DEF Heard, Silent

LEMMA StraySilent ==
  ASSUME NEW when \in Int, NEW stray \in 0..(kRelockBeats - 1)
  PROVE  Silent(<< [lastExternal |-> when, strayBeats |-> stray] >>)
<1> DEFINE s == [lastExternal |-> when, strayBeats |-> stray]
<1>1. s \in Stores
  BY StrayStore
<1>2. DOMAIN s = {"lastExternal", "strayBeats"}
  OBVIOUS
<1> HIDE DEF s
<1>3. Silent(<<s>>)
  BY <1>1, <1>2 DEF Silent
<1> QED BY <1>3 DEF s

LEMMA StepsType ==
  ASSUME NEW elapsed \in Int, NEW period \in Periods
  PROVE  Steps(elapsed, period) \in Int
  BY Constants DEF Steps

Elapsed(c, when) == IF c.lastBeatAt > 0 THEN when - c.lastBeatAt ELSE Never

(* A beat off the wire, case by case: what the clock makes of it. *)
LEMMA markMachineBeatCases ==
  ASSUME NEW c \in Clock, NEW when \in Int
  PROVE  LET q == markMachineBeat(c, when)
             elapsed == Elapsed(c, when)
             steps == Steps(elapsed, c.period)
         IN  \/ Silent(q)
             \/ \E settled \in 0..kSettleBeats :
                  /\ Beaten(q, NextBeat(c, when, 1, "Grid"), when)
                  /\ q[1] = [lastExternal |-> when, settled |-> settled]
                  /\ settled # 0 => c.settled < kSettleBeats
             \/ /\ isLocked(c, when) /\ c.lastBeatAt > 0 /\ c.settled >= kSettleBeats
                /\ elapsed >= MinPeriod /\ Agrees(elapsed, c.period) /\ steps > 0
                /\ Beaten(q, NextBeat(c, when, steps, "Grid"), when)
                /\ q[1] = [lastExternal |-> when]
<1> DEFINE q == markMachineBeat(c, when)
           elapsed == Elapsed(c, when)
           steps == Steps(elapsed, c.period)
           agrees == Agrees(elapsed, c.period)
           One(settled) == /\ Beaten(q, NextBeat(c, when, 1, "Grid"), when)
                           /\ q[1] = [lastExternal |-> when, settled |-> settled]
<1>1. elapsed \in Int /\ steps \in Int
  BY ClockFields, StepsType DEF Elapsed, Never
<1>2. \A settled \in 0..kSettleBeats : q = OneBeat(c, when, elapsed, settled) => One(settled)
  BY <1>1, OneBeatShape
<1>3. 0 \in 0..kSettleBeats
  BY Constants
<1>4. CASE ~isLocked(c, when) \/ c.lastBeatAt <= 0
  <2>1. q = OneBeat(c, when, elapsed, 0)
    BY <1>4, <1>1, ClockFields, Constants DEF markMachineBeat, Elapsed
  <2> QED BY <2>1, <1>2, <1>3
<1>5. CASE isLocked(c, when) /\ c.lastBeatAt > 0 /\ elapsed < MinPeriod
  <2>1. ~(elapsed >= MinPeriod)
    BY <1>5, <1>1, Constants
  <2>2. q = Heard(when)
    BY <1>5, <1>1, ClockFields, Constants DEF markMachineBeat, Elapsed, Never, Heard, isLocked
  <2> QED BY <2>2, HeardSilent
<1>6. CASE isLocked(c, when) /\ c.lastBeatAt > 0 /\ elapsed >= MinPeriod /\ c.settled < kSettleBeats
  <2>1. c.settled + 1 \in 0..kSettleBeats
    BY <1>6, ClockFields, Constants
  <2>2. q = OneBeat(c, when, elapsed, IF agrees /\ steps = 1 THEN c.settled + 1 ELSE 0)
    BY <1>6, <1>1, ClockFields, Constants DEF markMachineBeat, Elapsed
  <2> QED BY <2>1, <2>2, <1>2, <1>3, <1>6
<1>7. CASE /\ isLocked(c, when) /\ c.lastBeatAt > 0 /\ elapsed >= MinPeriod
           /\ c.settled >= kSettleBeats /\ ~agrees
  <2>1. CASE c.strayBeats + 1 < kRelockBeats
    <3>1. q = << [lastExternal |-> when, strayBeats |-> c.strayBeats + 1] >>
      BY <1>7, <2>1, <1>1, ClockFields, Constants DEF markMachineBeat, Elapsed
    <3>2. c.strayBeats + 1 \in 0..(kRelockBeats - 1)
      BY <2>1, ClockFields, Constants
    <3> QED BY <3>1, <3>2, StraySilent
  <2>2. CASE ~(c.strayBeats + 1 < kRelockBeats)
    <3>1. q = OneBeat(c, when, elapsed, 0)
      BY <1>7, <2>2, <1>1, ClockFields, Constants DEF markMachineBeat, Elapsed
    <3> QED BY <3>1, <1>2, <1>3
  <2> QED BY <2>1, <2>2
<1>8. CASE /\ isLocked(c, when) /\ c.lastBeatAt > 0 /\ elapsed >= MinPeriod
           /\ c.settled >= kSettleBeats /\ agrees
  <2>1. CASE steps <= 0
    <3>1. q = Heard(when)
      BY <1>8, <2>1, <1>1, ClockFields, Constants DEF markMachineBeat, Elapsed
    <3> QED BY <3>1, HeardSilent
  <2>2. CASE steps > 0
    <3> DEFINE head == [lastExternal |-> when]
    <3>1. q = <<head>> \o takeBeat(c, when, steps, "Grid") \o learnPeriod(c, elapsed \div steps)
      <4>1. q = SettledBeat(c, when, elapsed, steps)
        BY <1>8, <2>2, <1>1, ClockFields, Constants DEF markMachineBeat, Elapsed
      <4> QED BY <4>1 DEF SettledBeat, Heard
    <3>2. head \in Stores
      BY HeardStore
    <3>3. DOMAIN head \subseteq {"lastExternal", "settled"}
      OBVIOUS
    <3> HIDE DEF head
    <3>4. steps \in Nat /\ elapsed \div steps \in Int
      BY <1>1, <2>2
    <3> HIDE DEF steps, elapsed
    <3>5. Beaten(q, NextBeat(c, when, steps, "Grid"), when)
      BY <3>1, <3>2, <3>3, <3>4, BeatenStores
    <3>6. takeBeat(c, when, steps, "Grid") \in Seq(Stores)
      BY <3>4, NextBeatFacts, NumberStore, AnchorStore DEF takeBeat
    <3>7. learnPeriod(c, elapsed \div steps) \in Seq(Stores)
      BY <3>4, learnPeriodType
    <3>8. q[1] = head
      BY <3>1, <3>2, <3>6, <3>7
    <3> QED BY <3>5, <3>8, <1>8, <2>2 DEF steps, elapsed, head
  <2>3. steps <= 0 \/ steps > 0
    BY <1>1
  <2> QED BY <2>1, <2>2, <2>3
<1>9. c.settled < kSettleBeats \/ c.settled >= kSettleBeats
  BY ClockFields, Constants
<1>10. c.lastBeatAt > 0 \/ c.lastBeatAt <= 0
  BY ClockFields
<1>11. elapsed < MinPeriod \/ elapsed >= MinPeriod
  BY <1>1, Constants
<1> QED BY <1>4, <1>5, <1>6, <1>7, <1>8, <1>9, <1>10, <1>11

LEMMA markLooseBeatShape ==
  ASSUME NEW c \in Clock, NEW when \in Int
  PROVE  Beaten(markLooseBeat(c, when), NextBeat(c, when, 1, "Exact"), when)
<1> DEFINE head == [lastExternal |-> when, settled |-> 0]
<1>1. head \in Stores
  BY Constants, SettledStore
<1>2. DOMAIN head \subseteq {"lastExternal", "settled"}
  OBVIOUS
<1>3. Elapsed(c, when) \in Int
  BY ClockFields DEF Elapsed, Never
<1> HIDE DEF head
<1>4. Beaten(<<head>> \o takeBeat(c, when, 1, "Exact") \o learnPeriod(c, Elapsed(c, when)),
             NextBeat(c, when, 1, "Exact"), when)
  BY <1>1, <1>2, <1>3, BeatenStores
<1> QED BY <1>4 DEF markLooseBeat, Elapsed, head

LEMMA restartShape ==
  ASSUME NEW c \in Clock, NEW when \in Int
  PROVE  Restarted(restart(c, when), NextBeat(c, when, 1, "Fresh"), when)
<1> DEFINE next == NextBeat(c, when, 1, "Fresh")
           n == [beatNumber |-> next, lastBeatCount |-> next, lastBeatAt |-> when]
           a == [anchor |-> when, strayBeats |-> 0]
           d == [downbeat |-> next, settled |-> 0, lastExternal |-> when]
<1>1. next \in Nat
  BY NextBeatFacts
<1> HIDE DEF next
<1>2. n \in Stores /\ a \in Stores /\ d \in Stores
  BY <1>1, NumberStore, AnchorStore, RestartStore
<1>3. /\ DOMAIN n = {"beatNumber", "lastBeatCount", "lastBeatAt"} /\ n.beatNumber = next
      /\ DOMAIN a = {"anchor", "strayBeats"} /\ a.anchor = when
      /\ DOMAIN d = {"downbeat", "settled", "lastExternal"}
  OBVIOUS
<1>4. restart(c, when) = <<n, a>> \o <<d>>
  BY DEF restart, takeBeat, next
<1> HIDE DEF n, a, d
<1> DEFINE q == <<n, a>> \o <<d>>
<1>5. q \in Seq(Stores) /\ Len(q) = 3 /\ q[1] = n /\ q[2] = a /\ q[3] = d
  BY <1>2
<1> HIDE DEF q
<1>6. Restarted(q, next, when)
  BY <1>5, <1>3 DEF Restarted
<1> QED BY <1>4, <1>6 DEF q, next

LEMMA setBpmShape ==
  ASSUME NEW c \in Clock, NEW period \in Periods, NEW when \in Int
  PROVE  Retimed(setBpm(c, period, when))
<1> DEFINE beat == Beat(c, when)
           anchor == when - ((Part(c, when) * period) \div c.period)
           p == [period |-> period]
           n == [beatNumber |-> beat]
           a == [anchor |-> anchor]
<1>1. beat \in Nat
  BY BeatType
<1>2. anchor \in Int
  <2>1. Part(c, when) \in Nat /\ c.period \in Nat /\ c.period >= 1 /\ period \in Nat
    BY PartType, ClockFields, Constants
  <2>2. Part(c, when) * period \in Nat
    BY <2>1
  <2> QED BY <2>1, <2>2
<1> HIDE DEF beat, anchor
<1>3. p \in Stores /\ n \in Stores /\ a \in Stores
  BY <1>1, <1>2, PeriodStore, RetimeStores
<1>4. DOMAIN p = {"period"} /\ DOMAIN n = {"beatNumber"} /\ DOMAIN a = {"anchor"}
  OBVIOUS
<1>5. setBpm(c, period, when) = <<p, n, a>>
  BY DEF setBpm, beat, anchor
<1> HIDE DEF p, n, a
<1> DEFINE q == <<p, n, a>>
<1>6. q \in Seq(Stores) /\ Len(q) = 3 /\ q[1] = p /\ q[2] = n /\ q[3] = a
  BY <1>3
<1> HIDE DEF q
<1> QED BY <1>4, <1>5, <1>6 DEF Retimed, q

LEMMA SettingShapes ==
  ASSUME NEW b \in BOOLEAN, NEW seconds \in Int
  PROVE  /\ Single(<< [tempoHeld |-> b] >>) /\ Single(<< [freeRun |-> b] >>)
         /\ Single(<< [latency |-> seconds] >>)
<1>1. \A s \in Stores : Single(<<s>>)
  BY DEF Single
<1> QED BY <1>1, SettingStores

LEMMA MidiKeeps ==
  ASSUME NEW q, NEW next, NEW when,
         Silent(q) \/ Beaten(q, next, when) \/ Restarted(q, next, when) \/ Retimed(q)
  PROVE  ~Sets(q, "latency") /\ ~Sets(q, "freeRun") /\ ~Sets(q, "tempoHeld")
<1>1. \A i \in DOMAIN q : i = 1 \/ i = 2 \/ i = 3 \/ (i = 4 /\ Len(q) = 4)
  BY DEF Silent, Beaten, Restarted, Retimed
<1>2. CASE Silent(q)
  <2>1. \A i \in DOMAIN q : i = 1
    BY <1>2 DEF Silent
  <2> QED BY <2>1, <1>2 DEF Silent, Sets
<1>3. CASE Beaten(q, next, when)
  BY <1>1, <1>3 DEF Beaten, Sets
<1>4. CASE Restarted(q, next, when)
  BY <1>1, <1>4 DEF Restarted, Sets
<1>5. CASE Retimed(q)
  BY <1>1, <1>5 DEF Retimed, Sets
<1> QED BY <1>2, <1>3, <1>4, <1>5

(* What every call leaves to its thread. *)
Callable(q) == q \in Seq(Stores) /\ q # <<>> /\ Once(q)

LEMMA CallableShapes ==
  ASSUME NEW q, NEW next, NEW when,
         Silent(q) \/ Beaten(q, next, when) \/ Restarted(q, next, when) \/ Retimed(q) \/ Single(q)
  PROVE  Callable(q)
<1>1. CASE Silent(q)
  BY <1>1, SingleOnce DEF Silent, Single, Callable
<1>2. CASE Beaten(q, next, when)
  BY <1>2, BeatenOnce DEF Beaten, Callable
<1>3. CASE Restarted(q, next, when)
  BY <1>3, RestartedOnce DEF Restarted, Callable
<1>4. CASE Retimed(q)
  BY <1>4, RetimedOnce DEF Retimed, Callable
<1>5. CASE Single(q)
  <2>1. Once(q)
    BY <1>5, SingleOnce
  <2>2. q \in Seq(Stores) /\ Len(q) = 1
    BY <1>5 DEF Single
  <2> QED BY <2>1, <2>2 DEF Callable
<1> QED BY <1>1, <1>2, <1>3, <1>4, <1>5

LEMMA markMachineBeatCallable ==
  ASSUME NEW c \in Clock, NEW when \in Int
  PROVE  Callable(markMachineBeat(c, when))
<1>1. \A q : Silent(q) => Callable(q)
  BY CallableShapes
<1>2. \A q, next : Beaten(q, next, when) => Callable(q)
  BY CallableShapes
<1> QED BY <1>1, <1>2, markMachineBeatCases

LEMMA ShowCallable ==
  ASSUME NEW c \in Clock, NEW when \in Int
  PROVE  Callable(markLooseBeat(c, when)) /\ Callable(restart(c, when))
<1>1. Callable(markLooseBeat(c, when))
  BY markLooseBeatShape, CallableShapes
<1>2. Callable(restart(c, when))
  BY restartShape, CallableShapes
<1> QED BY <1>1, <1>2

LEMMA setBpmCallable ==
  ASSUME NEW c \in Clock, NEW period \in Periods, NEW when \in Int
  PROVE  Callable(setBpm(c, period, when))
  BY setBpmShape, CallableShapes

LEMMA SettingCallable ==
  ASSUME NEW b \in BOOLEAN, NEW seconds \in Int
  PROVE  /\ Callable(<< [tempoHeld |-> b] >>) /\ Callable(<< [freeRun |-> b] >>)
         /\ Callable(<< [latency |-> seconds] >>)
<1>1. \A q : Single(q) => Callable(q)
  BY CallableShapes
<1> QED BY <1>1, SettingShapes

-----------------------------------------------------------------------------
(* Types. *)
Loads == [at : {"anchor", "number", "period"}, anchor : Int, number : Nat,
          inBar : BOOLEAN, from : Nat]
Kinds == {"grid", "tempo", "mixed"}

TodoType == todo \in [Threads -> Seq(Stores)] /\ \A t \in Threads : Once(todo[t])
RackType ==
    /\ rack \in [Rates -> Trigger] /\ armed \subseteq Rates
    /\ lastHit \in [Rates -> [beat : Int, at : Int]]
LoopType ==
    /\ stage \in {"commands", "rack", "rendered"}
    /\ left \in Seq(Rates) /\ (left # <<>> <=> stage = "rack")
    /\ loaded \in Loads
    /\ stage # "commands" => todo["main"] = <<>>

Typed ==
    /\ clock \in Clock /\ TodoType /\ RackType /\ LoopType
    /\ now \in 0..MaxTime
    /\ strays \in Nat /\ calls \in Nat /\ strays + calls <= MaxOther
    /\ shown \in Nat /\ writing \in Kinds /\ torn \subseteq Kinds

LEMMA TypedFacts ==
  ASSUME Typed
  PROVE  /\ clock \in Clock /\ now \in Int /\ shown \in Nat /\ loaded \in Loads
         /\ now + clock.latency \in Int
         /\ stage = "rack" => Head(left) \in Rates /\ left # <<>>
         /\ \A t \in Threads : todo[t] \in Seq(Stores) /\ Once(todo[t])
         /\ "midi" \in Threads /\ "main" \in Threads
<1>1. now \in Int
  BY BoundsAssumption DEF Typed
<1>2. left \in Seq(Rates) /\ (stage = "rack" => left # <<>>)
  BY DEF Typed, LoopType
<1>3. stage = "rack" => Head(left) \in Rates
  BY <1>2
<1>4. clock \in Clock /\ clock.latency \in Int
  BY ClockFields DEF Typed
<1> QED BY <1>1, <1>2, <1>3, <1>4 DEF Typed, TodoType, LoopType, Threads

LEMMA ReadType ==
  ASSUME Typed
  PROVE  Read \in Nat
<1>1. /\ loaded.anchor \in Int /\ loaded.number \in Nat /\ clock.period \in Periods
      /\ now + clock.latency \in Int
  BY TypedFacts, ClockFields DEF Loads
<1> QED BY <1>1, BeatFromFacts DEF Read

LEMMA FreshLoad ==
  ASSUME Typed
  PROVE  /\ [NoLoad EXCEPT !.from = shown] \in Loads
         /\ [NoLoad EXCEPT !.inBar = TRUE, !.from = shown] \in Loads
<1>1. NoLoad \in Loads
  BY DEF NoLoad, Loads
<1> QED BY <1>1 DEF Loads, Typed

LEMMA TypedInit == Init => Typed
<1> SUFFICES ASSUME Init PROVE Typed
  OBVIOUS
<1>1. SongPeriod \in 0..MaxTime
  BY SongAssumption, BoundsAssumption, Constants
<1>2. clock \in Clock
  BY <1>1, SongAssumption, CountsAssumption, BoundsAssumption, Constants
  DEF Init, Fresh, Clock, Never
<1>3. TodoType
  <2>1. <<>> \in Seq(Stores) /\ Once(<<>>)
    BY DEF Once
  <2> QED BY <2>1 DEF Init, TodoType
<1>4. RackType
  BY DEF Init, RackType, Trigger, NoHit, Never
<1>5. LoopType
  BY DEF Init, LoopType, Loads, NoLoad, Threads
<1> QED BY <1>1, <1>2, <1>3, <1>4, <1>5, BoundsAssumption DEF Init, Typed, Kinds

LEMMA TypedCall ==
  ASSUME Typed, NEW t \in Threads, NEW q, Callable(q), Call(t, q),
         t = "main" => stage = "commands",
         strays' \in Nat, calls' \in Nat, strays' + calls' <= MaxOther, armed' = armed
  PROVE  Typed'
<1>1. TodoType'
  BY DEF Typed, TodoType, Call, Callable
<1>2. LoopType'
  <2>1. todo'["main"] = IF t = "main" THEN q ELSE todo["main"]
    BY DEF Typed, TodoType, Call, Threads
  <2> QED BY <2>1 DEF Typed, LoopType, Call, loopVars, Threads
<1>3. writing' \in Kinds
  BY DEF Typed, Call, Moves, Kinds
<1> QED BY <1>1, <1>2, <1>3 DEF Typed, RackType, Call

LEMMA TypedStore ==
  ASSUME Typed, NEW t \in Threads, Store(t)
  PROVE  Typed'
<1> DEFINE q == todo[t]
<1>1. q \in Seq(Stores) /\ q # <<>> /\ Once(q) /\ clock \in Clock
  BY TypedFacts DEF Store
<1>2. Head(q) \in Stores
  BY <1>1
<1>3. clock' \in Clock
  BY <1>1, <1>2, StoredType DEF Store
<1>4. Tail(q) \in Seq(Stores) /\ Once(Tail(q))
  BY <1>1, AfterStep
<1>5. TodoType'
  BY <1>4 DEF Typed, TodoType, Store
<1>6. shown' \in Nat
  <2>1. now + clock'.latency \in Int
    BY <1>3, ClockFields, TypedFacts
  <2>2. Beat(clock', now + clock'.latency) \in Nat
    BY <1>3, <2>1, BeatType
  <2> QED BY <2>2 DEF Typed, Store
<1>7. LoopType'
  BY DEF Typed, LoopType, TodoType, Store, loopVars, Threads
<1>8. torn' \subseteq Kinds
  BY DEF Typed, Store
<1> QED BY <1>3, <1>5, <1>6, <1>7, <1>8 DEF Typed, RackType, Store, boundVars

LEMMA TypedEndTrigger ==
  ASSUME Typed, stage = "rack", NEW trigger \in Trigger, NEW hit,
         EndTrigger(Head(left), trigger, hit),
         UNCHANGED <<clock, todo, now, boundVars, shown, writing, torn>>
  PROVE  Typed'
<1> DEFINE r == Head(left)
<1>1. r \in Rates /\ left \in Seq(Rates) /\ left # <<>>
  BY TypedFacts DEF Typed, LoopType
<1>2. Tail(left) \in Seq(Rates)
  BY <1>1
<1>3. Read \in Nat /\ now \in Int
  BY ReadType, TypedFacts
<1>4. [trigger EXCEPT !.fired = @ \/ r \in armed] \in Trigger
  BY DEF Trigger
<1>5. rack' \in [Rates -> Trigger]
  BY <1>1, <1>4 DEF EndTrigger, Typed, RackType
<1>6. lastHit' \in [Rates -> [beat : Int, at : Int]]
  <2> DEFINE new == [beat |-> Read, at |-> now]
  <2>1. new \in [beat : Int, at : Int] /\ NoHit \in [beat : Int, at : Int]
    BY <1>3 DEF NoHit, Never
  <2> HIDE DEF new
  <2>2. \/ lastHit' = [lastHit EXCEPT ![r] = NoHit]
        \/ lastHit' = [lastHit EXCEPT ![r] = new]
        \/ lastHit' = lastHit
    BY DEF EndTrigger, new
  <2> QED BY <2>1, <2>2, <1>1 DEF Typed, RackType
<1>7. armed' \subseteq Rates
  BY DEF EndTrigger, Typed, RackType
<1>8. loaded' \in Loads
  BY FreshLoad DEF EndTrigger
<1>9. LoopType'
  BY <1>2, <1>8 DEF LoopType, EndTrigger, Typed
<1> QED BY <1>5, <1>6, <1>7, <1>9 DEF Typed, TodoType, RackType, boundVars

LEMMA TypedEvaluate ==
  ASSUME Typed, evaluate
  PROVE  Typed'
<1> DEFINE r == Head(left)
           t == [rack[r] EXCEPT !.fired = FALSE]
           crossed == [t EXCEPT !.lastBeat = Read, !.offbeatFired = FALSE]
           half == r = "double" /\ ~t.offbeatFired /\ PastHalf
<1>0. stage = "rack" /\ UNCHANGED <<clock, todo, now, boundVars, shown, writing, torn>>
  BY DEF evaluate
<1>1. r \in Rates /\ Read \in Nat
  BY <1>0, TypedFacts, ReadType
<1>2. rack[r] \in Trigger
  BY <1>1 DEF Typed, RackType
<1>3. t \in Trigger
  BY <1>2 DEF Trigger
<1>4. Seated(t) \in Trigger
  <2>1. PastHalf \in BOOLEAN
    BY DEF PastHalf
  <2> QED BY <1>1, <1>3, <2>1 DEF Seated, Trigger
<1>5. crossed \in Trigger /\ [crossed EXCEPT !.fired = TRUE] \in Trigger
  BY <1>1, <1>3 DEF Trigger
<1>6. [t EXCEPT !.offbeatFired = @ \/ half, !.fired = half] \in Trigger
  <2>1. half \in BOOLEAN
    OBVIOUS
  <2> HIDE DEF half
  <2> QED BY <1>3, <2>1 DEF Trigger
<1>7. CASE EndTrigger(r, Seated(t), FALSE)
  BY <1>0, <1>4, <1>7, TypedEndTrigger
<1>8. CASE EndTrigger(r, [crossed EXCEPT !.fired = TRUE], TRUE)
  BY <1>0, <1>5, <1>8, TypedEndTrigger
<1>9. CASE /\ rack' = [rack EXCEPT ![r] = crossed]
           /\ loaded' = [NoLoad EXCEPT !.inBar = TRUE, !.from = shown]
           /\ UNCHANGED <<stage, left, armed, lastHit>>
  <2>1. rack' \in [Rates -> Trigger]
    BY <1>1, <1>5, <1>9 DEF Typed, RackType
  <2>2. loaded' \in Loads
    BY <1>9, FreshLoad
  <2> QED BY <1>0, <1>9, <2>1, <2>2 DEF Typed, RackType, LoopType, TodoType, boundVars
<1>10. CASE EndTrigger(r, [t EXCEPT !.offbeatFired = @ \/ half, !.fired = half], FALSE)
  BY <1>0, <1>6, <1>10, TypedEndTrigger
<1> QED BY <1>7, <1>8, <1>9, <1>10 DEF evaluate

LEMMA TypedEvaluateInBar ==
  ASSUME Typed, evaluateInBar
  PROVE  Typed'
<1> DEFINE r == Head(left)
           hit == InBar(Read, clock.downbeat) % beatsPerHit[r] = 0
<1>0. stage = "rack" /\ UNCHANGED <<clock, todo, now, boundVars, shown, writing, torn>>
  BY DEF evaluateInBar
<1>1. EndTrigger(r, [rack[r] EXCEPT !.fired = hit], hit)
  BY DEF evaluateInBar
<1>2. rack[r] \in Trigger
  BY <1>0, TypedFacts DEF Typed, RackType
<1>3. hit \in BOOLEAN
  OBVIOUS
<1> HIDE DEF hit
<1>4. [rack[r] EXCEPT !.fired = hit] \in Trigger
  BY <1>2, <1>3 DEF Trigger
<1> QED BY <1>0, <1>1, <1>4, TypedEndTrigger

LEMMA TypedStep == Typed /\ [Next]_vars => Typed'
<1> SUFFICES ASSUME Typed, [Next]_vars PROVE Typed'
  OBVIOUS
<1> USE TypedFacts
<1>1. ASSUME NEW t \in Threads, Store(t) PROVE Typed'
  BY <1>1, TypedStore
<1>2. ASSUME NEW t \in Threads, NEW q, Callable(q), Call(t, q), t = "main" => stage = "commands",
             Bounded, UNCHANGED <<armed, strays>>
      PROVE  Typed'
  <2>1. calls' \in Nat /\ strays' \in Nat /\ strays' + calls' <= MaxOther
    BY <1>2, BoundsAssumption DEF Bounded, Typed
  <2> QED BY <1>2, <2>1, TypedCall
<1>3. CASE MidiBeat
  BY <1>3, markMachineBeatCallable, TypedCall DEF MidiBeat, MidiMessage, Typed
<1>4. CASE MidiStray
  <2>1. strays' \in Nat /\ calls' \in Nat /\ strays' + calls' <= MaxOther
    BY <1>4, BoundsAssumption DEF MidiStray, MidiMessage, Typed
  <2> QED BY <1>4, <2>1, markMachineBeatCallable, TypedCall DEF MidiStray, MidiMessage, Typed
<1>5. CASE MidiStart
  BY <1>5, <1>2, ShowCallable DEF MidiStart
<1>6. ASSUME NEW p \in Tempos, MidiTempo(p) PROVE Typed'
  BY <1>6, <1>2, setBpmCallable, SongAssumption DEF MidiTempo
<1>7. ASSUME NEW q, Callable(q), Command(q) PROVE Typed'
  BY <1>7, <1>2 DEF Command
<1>8. ASSUME NEW p \in Tempos, SetBpm(p) PROVE Typed'
  BY <1>8, <1>7, setBpmCallable, SongAssumption DEF SetBpm
<1>9. CASE Tap
  BY <1>9, <1>7, ShowCallable DEF Tap
<1>10. CASE Align
  BY <1>10, <1>7, ShowCallable DEF Align
<1>11. ASSUME NEW b \in BOOLEAN, SetTempoHeld(b) PROVE Typed'
  BY <1>11, <1>7, SettingCallable DEF SetTempoHeld
<1>12. ASSUME NEW b \in BOOLEAN, SetFreeRun(b) PROVE Typed'
  BY <1>12, <1>7, SettingCallable DEF SetFreeRun
<1>13. ASSUME NEW s \in Latencies, SetLatency(s) PROVE Typed'
  BY <1>13, <1>7, SettingCallable, SongAssumption DEF SetLatency
<1>14. ASSUME NEW r \in Rates, armEntry(r) PROVE Typed'
  <2>1. calls' \in Nat /\ strays' = strays /\ strays' + calls' <= MaxOther
    BY <1>14, BoundsAssumption DEF armEntry, Bounded, Typed
  <2> QED BY <1>14, <2>1 DEF armEntry, Typed, TodoType, RackType, LoopType, loopVars
<1>15. CASE BeginRack
  <2>1. Rack \in Seq(Rates) /\ Rack # <<>>
    BY RackAssumption DEF Rates
  <2>2. LoopType'
    BY <1>15, <2>1, FreshLoad DEF BeginRack, Typed, LoopType
  <2>3. torn' \subseteq Kinds
    BY <1>15 DEF BeginRack, Typed
  <2> QED BY <1>15, <2>2, <2>3 DEF BeginRack, Typed, TodoType, RackType, boundVars
<1>16. CASE Load
  <2>1. loaded' \in Loads
    BY <1>16, ClockFields DEF Load, Loads
  <2> QED BY <1>16, <2>1 DEF Load, Typed, TodoType, RackType, LoopType, boundVars
<1>17. CASE NextFrame
  <2>1. now' \in 0..MaxTime /\ now' \in Int
    BY <1>17, SongAssumption, BoundsAssumption DEF NextFrame, Typed
  <2>2. shown' \in Nat
    <3>1. now' + clock.latency \in Int
      BY <2>1, ClockFields
    <3> QED BY <1>17, <3>1, BeatType DEF NextFrame
  <2> QED BY <1>17, <2>1, <2>2 DEF NextFrame, Typed, TodoType, RackType, LoopType
<1>18. CASE UNCHANGED vars
  BY <1>18 DEF vars, loopVars, boundVars, Typed, TodoType, RackType, LoopType
<1>19. CASE Ended
  BY <1>19, <1>18 DEF Ended
<1> QED
  BY <1>1, <1>3, <1>4, <1>5, <1>6, <1>8, <1>9, <1>10, <1>11, <1>12, <1>13, <1>14, <1>15, <1>16,
     <1>17, <1>18, <1>19, TypedEvaluate, TypedEvaluateInBar
  DEF Next

(* Every field of the clock keeps its range whatever is stored next, a     *)
(* trigger's beat is a natural number, and the rack has triggers left to   *)
(* evaluate just while it runs.                                            *)
THEOREM TypeCorrect == Spec => []TypeOK
<1>1. Typed => TypeOK
  <2> SUFFICES ASSUME Typed PROVE TypeOK
    OBVIOUS
  <2>1. \A t \in Threads : \A i \in DOMAIN todo[t] : todo[t][i] \in Stores
    BY TypedFacts
  <2>2. \A t \in Threads : \A i \in DOMAIN todo[t] : Stored(clock, todo[t][i]) \in Clock
    BY <2>1, TypedFacts, StoredType
  <2>3. loaded.at \in {"anchor", "number", "period"}
    BY TypedFacts DEF Loads
  <2> QED BY <2>2, <2>3 DEF Typed, RackType, LoopType, Kinds, TypeOK
<1> QED BY TypedInit, TypedStep, <1>1, PTL DEF Spec

-----------------------------------------------------------------------------
(* ReadNotBehind. The stores pending of a call that leaves the tempo alone *)
(* put no beat below the beat shown, and move the anchor only after the    *)
(* count is there.                                                         *)
Ordered(q, c, low) ==
    /\ ~Sets(q, "period") /\ ~Sets(q, "freeRun") /\ ~Sets(q, "latency")
    /\ \A i \in DOMAIN q : "beatNumber" \in DOMAIN q[i] =>
          q[i].beatNumber >= low /\ "anchor" \notin DOMAIN q[i]
    /\ \A i \in DOMAIN q : "anchor" \in DOMAIN q[i] =>
          \/ c.beatNumber >= low
          \/ \E j \in DOMAIN q : j < i /\ "beatNumber" \in DOMAIN q[j]

LEMMA OrderedStep ==
  ASSUME NEW c \in Clock, NEW q \in Seq(Stores), q # <<>>, NEW low \in Nat,
         Ordered(q, c, low), NEW when \in Int, Beat(c, when) >= low
  PROVE  LET d == Stored(c, Head(q))
         IN  /\ Ordered(Tail(q), d, low)
             /\ Beat(d, when) >= low
             /\ d.period = c.period /\ d.freeRun = c.freeRun /\ d.latency = c.latency
             /\ d.beatNumber = c.beatNumber \/ d.beatNumber >= low
<1> DEFINE s == Head(q)
           r == Tail(q)
           d == Stored(c, s)
<1>1. /\ r \in Seq(Stores) /\ s \in Stores /\ s = q[1] /\ 1 \in DOMAIN q
      /\ \A i \in DOMAIN r : i + 1 \in DOMAIN q /\ r[i] = q[i + 1]
      /\ \A i \in DOMAIN q : i # 1 => i - 1 \in DOMAIN r /\ r[i - 1] = q[i]
      /\ \A i \in DOMAIN r : i \in Int /\ i >= 1
      /\ \A i \in DOMAIN q : i \in Int /\ i >= 1
  OBVIOUS
<1> HIDE DEF s, r
<1>2. /\ ~Sets(r, "period") /\ ~Sets(r, "freeRun") /\ ~Sets(r, "latency")
      /\ "period" \notin DOMAIN s /\ "freeRun" \notin DOMAIN s /\ "latency" \notin DOMAIN s
  BY <1>1 DEF Ordered, Sets
<1>3. /\ d \in Clock
      /\ d.period = c.period /\ d.freeRun = c.freeRun /\ d.latency = c.latency
      /\ d.beatNumber = IF "beatNumber" \in DOMAIN s THEN s.beatNumber ELSE c.beatNumber
      /\ d.anchor = IF "anchor" \in DOMAIN s THEN s.anchor ELSE c.anchor
  BY <1>1, <1>2, StoredType, StoredFields DEF Fields
<1> HIDE DEF d
<1>4. "beatNumber" \in DOMAIN s => s.beatNumber >= low /\ "anchor" \notin DOMAIN s
  BY <1>1 DEF Ordered
<1>5. "anchor" \in DOMAIN s => c.beatNumber >= low
  <2>1. ~\E j \in DOMAIN q : j < 1
    BY <1>1
  <2> QED BY <1>1, <2>1 DEF Ordered
<1>6. d.beatNumber = c.beatNumber \/ d.beatNumber >= low
  BY <1>3, <1>4
<1>7. Beat(d, when) >= low
  <2>1. d.beatNumber >= low => Beat(d, when) >= low
    BY <1>3, ClockFields, BeatFromFacts DEF Beat
  <2>2. CASE d.beatNumber # c.beatNumber \/ "anchor" \in DOMAIN s
    BY <2>1, <2>2, <1>3, <1>4, <1>5
  <2>3. CASE d.beatNumber = c.beatNumber /\ "anchor" \notin DOMAIN s
    BY <2>3, <1>3 DEF Beat
  <2> QED BY <2>2, <2>3
<1>8. ASSUME NEW i \in DOMAIN r, "beatNumber" \in DOMAIN r[i]
      PROVE  r[i].beatNumber >= low /\ "anchor" \notin DOMAIN r[i]
  BY <1>1, <1>8 DEF Ordered
<1>9. ASSUME NEW i \in DOMAIN r, "anchor" \in DOMAIN r[i], ~(d.beatNumber >= low)
      PROVE  \E j \in DOMAIN r : j < i /\ "beatNumber" \in DOMAIN r[j]
  <2>1. ~(c.beatNumber >= low) /\ "beatNumber" \notin DOMAIN s
    BY <1>3, <1>4, <1>9
  <2>2. i + 1 \in DOMAIN q /\ "anchor" \in DOMAIN q[i + 1]
    BY <1>1, <1>9
  <2>3. PICK j \in DOMAIN q : j < i + 1 /\ "beatNumber" \in DOMAIN q[j]
    BY <2>1, <2>2 DEF Ordered
  <2>4. j # 1
    BY <2>1, <2>3, <1>1
  <2>5. j - 1 \in DOMAIN r /\ r[j - 1] = q[j]
    BY <2>4, <1>1
  <2>6. j \in Int /\ i \in Int
    BY <1>1
  <2>7. j - 1 < i
    BY <2>3, <2>6
  <2> QED BY <2>3, <2>5, <2>7
<1>10. Ordered(r, d, low)
  BY <1>2, <1>8, <1>9 DEF Ordered
<1> QED BY <1>3, <1>6, <1>7, <1>10 DEF s, r, d

LEMMA SilentOrdered ==
  ASSUME NEW q, Silent(q), NEW c, NEW low
  PROVE  Ordered(q, c, low)
<1>1. \A i \in DOMAIN q : i = 1
  BY DEF Silent
<1> QED BY <1>1 DEF Silent, Ordered, Sets

LEMMA BeatenOrdered ==
  ASSUME NEW q, NEW next \in Nat, NEW when, Beaten(q, next, when), ~Sets(q, "period"),
         NEW low \in Nat, next >= low, NEW c
  PROVE  Ordered(q, c, low)
<1>1. Len(q) = 3
  <2>1. Len(q) = 4 => 4 \in DOMAIN q
    BY DEF Beaten
  <2> QED BY <2>1 DEF Beaten, Sets
<1>2. \A i \in DOMAIN q : i = 1 \/ i = 2 \/ i = 3
  BY <1>1 DEF Beaten
<1>3. 2 \in DOMAIN q /\ 2 < 3
  BY <1>1 DEF Beaten
<1> QED BY <1>2, <1>3 DEF Beaten, Ordered, Sets

LEMMA RestartedOrdered ==
  ASSUME NEW q, NEW next \in Nat, NEW when, Restarted(q, next, when),
         NEW low \in Nat, next >= low, NEW c
  PROVE  Ordered(q, c, low)
<1>1. \A i \in DOMAIN q : i = 1 \/ i = 2 \/ i = 3
  BY DEF Restarted
<1>2. 1 \in DOMAIN q /\ 1 < 2
  BY DEF Restarted
<1> QED BY <1>1, <1>2 DEF Restarted, Ordered, Sets

(* A beat or a restart called while the clock shows low.                    *)
LEMMA GridCallsOrdered ==
  ASSUME NEW c \in Clock, NEW when \in Int, NEW low \in Nat, Beat(c, when) >= low
  PROVE  /\ ~Sets(markMachineBeat(c, when), "period")
               => Ordered(markMachineBeat(c, when), c, low)
         /\ Ordered(restart(c, when), c, low)
<1>1. ASSUME NEW steps \in Nat, NEW advance \in {"Grid", "Fresh"}
      PROVE  /\ NextBeat(c, when, steps, advance) \in Nat
             /\ NextBeat(c, when, steps, advance) >= low
  BY NextBeatFacts, BeatType
<1>2. \A q : Silent(q) => Ordered(q, c, low)
  BY SilentOrdered
<1>3. \A q : \A next \in Nat : next >= low /\ Beaten(q, next, when) /\ ~Sets(q, "period")
                                => Ordered(q, c, low)
  BY BeatenOrdered
<1>4. ~Sets(markMachineBeat(c, when), "period") => Ordered(markMachineBeat(c, when), c, low)
  <2> DEFINE steps == Steps(Elapsed(c, when), c.period)
  <2>1. steps \in Int
    <3>1. Elapsed(c, when) \in Int
      BY ClockFields DEF Elapsed, Never
    <3> QED BY <3>1, StepsType, ClockFields
  <2>2. \/ Silent(markMachineBeat(c, when))
        \/ Beaten(markMachineBeat(c, when), NextBeat(c, when, 1, "Grid"), when)
        \/ /\ steps > 0
           /\ Beaten(markMachineBeat(c, when), NextBeat(c, when, steps, "Grid"), when)
    BY markMachineBeatCases
  <2> QED BY <2>1, <2>2, <1>1, <1>2, <1>3
<1>5. Ordered(restart(c, when), c, low)
  BY <1>1, restartShape, RestartedOrdered
<1> QED BY <1>4, <1>5

(* The MIDI thread sets no setting, and nothing of the show's thread is     *)
(* pending while its call is not "mixed".                                  *)
Settings == {"latency", "freeRun", "tempoHeld"}
Alone ==
    /\ \A f \in Settings : ~Sets(todo["midi"], f)
    /\ todo["midi"] # <<>> /\ writing # "mixed" => todo["main"] = <<>>

Showing == Quiet => shown = Beat(clock, now + clock.latency)

Pending ==
    todo["midi"] # <<>> /\ writing = "grid" /\ clock.latency <= 0
      => /\ Ordered(todo["midi"], clock, shown)
         /\ Beat(clock, now + clock.latency) >= shown

(* The read under way, if its first load was the anchor's and the rest are *)
(* made of the clock as it is.                                             *)
WouldRead ==
    CASE loaded.at = "anchor" -> Beat(clock, now + clock.latency)
      [] loaded.at = "number" ->
           BeatFrom(loaded.anchor, clock.beatNumber, clock.period, clock.freeRun,
                    now + clock.latency)
      [] loaded.at = "period" -> Read

Reading ==
    stage = "rack" /\ torn \subseteq {"grid"} /\ clock.latency <= 0
      => /\ loaded.from <= shown
         /\ Beat(clock, now + clock.latency) >= shown
         /\ WouldRead >= loaded.from

NotBehind == Alone /\ Showing /\ Pending /\ Reading

LEMMA NotBehindInit == Init => NotBehind
<1> SUFFICES ASSUME Init PROVE NotBehind
  OBVIOUS
<1>1. todo["midi"] = <<>> /\ todo["main"] = <<>> /\ stage = "commands"
  BY DEF Init, Threads
<1>3. \A f \in Settings : ~Sets(<<>>, f)
  BY DEF Sets
<1>2. Beat(clock, now + clock.latency) = 0
  <2>1. now \in Nat /\ clock.anchor = now /\ clock.beatNumber = 0 /\ clock.period = now
        /\ clock.freeRun /\ clock.latency = 0 /\ now >= 1
    BY SongAssumption, Constants DEF Init, Fresh
  <2>2. Gone(now, now + 0) = 0 /\ 0 \div now = 0
    BY <2>1 DEF Gone
  <2> QED BY <2>1, <2>2 DEF Beat, BeatFrom
<1> QED BY <1>1, <1>2, <1>3 DEF Init, NotBehind, Alone, Showing, Pending, Reading

LEMMA KeepStep ==
  ASSUME NEW c \in Clock, NEW q \in Seq(Stores), q # <<>>, NEW f \in Fields, ~Sets(q, f)
  PROVE  ~Sets(Tail(q), f) /\ Stored(c, Head(q))[f] = c[f]
<1>1. /\ Head(q) = q[1] /\ 1 \in DOMAIN q
      /\ \A i \in DOMAIN Tail(q) : i + 1 \in DOMAIN q /\ Tail(q)[i] = q[i + 1]
  OBVIOUS
<1> QED BY <1>1, StoredFields DEF Sets

(* The two calls of the MIDI thread, and the one of the show's. *)
LEMMA NotBehindMidiCall ==
  ASSUME Typed, NotBehind, NEW q, q # <<>>, Call("midi", q),
         ~Sets(q, "latency") /\ ~Sets(q, "freeRun") /\ ~Sets(q, "tempoHeld"),
         Beat(clock, now) >= shown /\ ~Sets(q, "period") => Ordered(q, clock, shown)
  PROVE  NotBehind'
<1>1. todo'["midi"] = q /\ todo'["main"] = todo["main"] /\ todo["midi"] = <<>>
  BY DEF Call, Typed, TodoType, Threads
<1>2. /\ UNCHANGED <<clock, now, stage, loaded, shown, torn>>
      /\ ~Quiet => writing' = "mixed"
      /\ Quiet => writing' = Moves(q)
  BY DEF Call, loopVars
<1>3. Quiet <=> todo["main"] = <<>>
  BY <1>1 DEF Quiet, Threads
<1>4. Alone'
  BY <1>1, <1>2, <1>3 DEF Alone, Settings
<1>5. Showing'
  BY <1>1 DEF Showing, Quiet, Threads
<1>6. ASSUME writing' = "grid", clock.latency <= 0
      PROVE  Ordered(q, clock, shown) /\ Beat(clock, now + clock.latency) >= shown
  <2>1. Quiet /\ ~Sets(q, "period")
    BY <1>2, <1>6 DEF Moves
  <2>2. shown = Beat(clock, now + clock.latency)
    BY <2>1 DEF NotBehind, Showing
  <2>3. Beat(clock, now + clock.latency) <= Beat(clock, now)
    BY <1>6, TypedFacts, ClockFields, BeatFromFacts DEF Beat
  <2>4. shown \in Nat /\ Beat(clock, now) \in Nat
    BY TypedFacts, BeatType
  <2> QED BY <2>1, <2>2, <2>3, <2>4
<1>7. Pending'
  BY <1>1, <1>2, <1>6 DEF Pending
<1>8. Reading'
  BY <1>2 DEF NotBehind, Reading, WouldRead, Read
<1> QED BY <1>4, <1>5, <1>7, <1>8 DEF NotBehind

LEMMA NotBehindMainCall ==
  ASSUME Typed, NotBehind, NEW q, q # <<>>, Call("main", q), stage = "commands"
  PROVE  NotBehind'
<1>1. todo'["main"] = q /\ todo'["midi"] = todo["midi"]
  BY DEF Call, Typed, TodoType, Threads
<1>2. /\ UNCHANGED <<clock, now, stage, loaded, shown, torn>>
      /\ todo["midi"] # <<>> => writing' = "mixed"
  BY DEF Call, loopVars, Quiet, Threads
<1>3. Alone' /\ Showing' /\ Pending'
  BY <1>1, <1>2 DEF NotBehind, Alone, Showing, Quiet, Threads, Pending
<1>4. Reading'
  BY <1>2 DEF Reading
<1> QED BY <1>3, <1>4 DEF NotBehind

LEMMA NotBehindMainStore ==
  ASSUME Typed, NotBehind, Store("main")
  PROVE  NotBehind'
<1>1. todo["main"] # <<>> /\ todo'["midi"] = todo["midi"] /\ stage' = "commands"
  BY DEF Store, Typed, TodoType, LoopType, Threads, loopVars
<1>2. writing' = writing /\ (Quiet' => shown' = Beat(clock', now + clock'.latency)) /\ now' = now
  BY DEF Store
<1>3. todo["midi"] = <<>> \/ writing = "mixed"
  BY <1>1 DEF NotBehind, Alone
<1>4. Alone'
  BY <1>1, <1>2, <1>3 DEF NotBehind, Alone
<1>5. Showing'
  BY <1>2 DEF Showing
<1>6. Pending' /\ Reading'
  BY <1>1, <1>2, <1>3 DEF Pending, Reading
<1> QED BY <1>4, <1>5, <1>6 DEF NotBehind

LEMMA NotBehindMidiStore ==
  ASSUME Typed, NotBehind, Store("midi")
  PROVE  NotBehind'
<1> DEFINE q == todo["midi"]
           when == now + clock.latency
<1>1. /\ q \in Seq(Stores) /\ q # <<>> /\ clock \in Clock /\ shown \in Nat
      /\ when \in Int /\ loaded \in Loads
  BY TypedFacts DEF Store
<1>2. /\ todo'["midi"] = Tail(q) /\ todo'["main"] = todo["main"]
      /\ clock' = Stored(clock, Head(q))
      /\ UNCHANGED <<now, stage, loaded, writing>>
      /\ shown' = IF Quiet' THEN Beat(clock', now + clock'.latency) ELSE shown
      /\ stage = "rack" => torn' = torn \cup {writing}
  BY DEF Store, Typed, TodoType, Threads, loopVars
<1>3. clock'.latency = clock.latency
  BY <1>1, <1>2, KeepStep DEF NotBehind, Alone, Settings, Fields
<1>4. Alone'
  <2>1. \A f \in Settings : ~Sets(Tail(q), f)
    BY <1>1, KeepStep DEF NotBehind, Alone, Settings, Fields
  <2> QED BY <2>1, <1>2, <1>1 DEF NotBehind, Alone
<1>5. Showing'
  BY <1>2 DEF Showing
<1>6. ASSUME writing = "grid", clock.latency <= 0
      PROVE  /\ Ordered(Tail(q), clock', shown)
             /\ Beat(clock', when) >= shown
             /\ clock'.period = clock.period /\ clock'.freeRun = clock.freeRun
             /\ clock'.beatNumber = clock.beatNumber \/ clock'.beatNumber >= shown
  <2>1. Ordered(q, clock, shown) /\ Beat(clock, when) >= shown
    BY <1>1, <1>6 DEF NotBehind, Pending
  <2> QED BY <1>1, <1>2, <2>1, OrderedStep
<1>7. Pending'
  <2> SUFFICES ASSUME Tail(q) # <<>>, writing = "grid", clock.latency <= 0
               PROVE  /\ Ordered(Tail(q), clock', shown')
                      /\ Beat(clock', when) >= shown'
    BY <1>2, <1>3 DEF Pending
  <2>1. shown' = shown
    BY <1>2 DEF Quiet, Threads
  <2> QED BY <2>1, <1>6
<1>8. Reading'
  <2> SUFFICES ASSUME stage = "rack", torn \cup {writing} \subseteq {"grid"}, clock.latency <= 0
               PROVE  /\ loaded.from <= shown'
                      /\ Beat(clock', when) >= shown'
                      /\ WouldRead' >= loaded.from
    BY <1>2, <1>3 DEF Reading
  <2>1. /\ writing = "grid" /\ torn \subseteq {"grid"} /\ clock' \in Clock
        /\ loaded.from \in Nat /\ loaded.anchor \in Int
    <3>1. Stored(clock, Head(q)) \in Clock
      BY <1>1, StoredType
    <3> QED BY <3>1, <1>1, <1>2 DEF Loads
  <2>2. loaded.from <= shown /\ WouldRead >= loaded.from
    BY <2>1 DEF NotBehind, Reading
  <2>3. /\ Beat(clock', when) >= shown
        /\ clock'.period = clock.period /\ clock'.freeRun = clock.freeRun
        /\ clock'.beatNumber = clock.beatNumber \/ clock'.beatNumber >= shown
    BY <1>6, <2>1
  <2>4. Beat(clock', when) \in Nat
    BY <2>1, <1>1, BeatType
  <2>5. Beat(clock', when) >= shown' /\ shown' >= shown /\ shown' \in Nat
    BY <1>1, <1>2, <1>3, <2>3, <2>4
  <2>6. loaded.from <= shown' /\ Beat(clock', when) >= loaded.from
    BY <2>1, <2>2, <2>4, <2>5, <1>1
  <2>7. WouldRead' >= loaded.from
    <3>1. CASE loaded.at = "anchor"
      BY <3>1, <2>6, <1>2, <1>3 DEF WouldRead
    <3>2. CASE loaded.at = "number"
      <4> DEFINE read(number) ==
                   BeatFrom(loaded.anchor, number, clock.period, clock.freeRun, when)
      <4>1. WouldRead' = read(clock'.beatNumber) /\ WouldRead = read(clock.beatNumber)
        BY <3>2, <1>2, <1>3, <2>3 DEF WouldRead
      <4>2. CASE clock'.beatNumber = clock.beatNumber
        BY <4>1, <4>2, <2>2
      <4>3. CASE clock'.beatNumber >= shown
        <5>1. clock'.beatNumber \in Nat /\ clock.period \in Periods
          BY <1>1, <2>1, ClockFields
        <5>2. read(clock'.beatNumber) \in Nat /\ read(clock'.beatNumber) >= clock'.beatNumber
          BY <5>1, <1>1, <2>1, BeatFromFacts
        <5> QED BY <4>1, <4>3, <5>1, <5>2, <1>1, <2>1, <2>2
      <4> QED BY <4>2, <4>3, <2>3
    <3>3. CASE loaded.at = "period"
      <4>1. WouldRead' = WouldRead
        BY <3>3, <1>2, <1>3, <2>3 DEF WouldRead, Read
      <4> QED BY <4>1, <2>2
    <3> QED BY <3>1, <3>2, <3>3, <1>1 DEF Loads
  <2> QED BY <2>5, <2>6, <2>7
<1> QED BY <1>4, <1>5, <1>7, <1>8 DEF NotBehind

(* The calls, shape by shape. *)
LEMMA MidiCalls ==
  ASSUME NEW c \in Clock, NEW when \in Int, NEW low \in Nat
  PROVE  /\ LET q == markMachineBeat(c, when)
            IN  /\ Callable(q)
                /\ ~Sets(q, "latency") /\ ~Sets(q, "freeRun") /\ ~Sets(q, "tempoHeld")
                /\ Beat(c, when) >= low /\ ~Sets(q, "period") => Ordered(q, c, low)
         /\ LET q == restart(c, when)
            IN  /\ Callable(q)
                /\ ~Sets(q, "latency") /\ ~Sets(q, "freeRun") /\ ~Sets(q, "tempoHeld")
                /\ Beat(c, when) >= low /\ ~Sets(q, "period") => Ordered(q, c, low)
<1>1. \A q : Silent(q) => ~Sets(q, "latency") /\ ~Sets(q, "freeRun") /\ ~Sets(q, "tempoHeld")
  BY MidiKeeps
<1>2. \A q, next : Beaten(q, next, when)
                     => ~Sets(q, "latency") /\ ~Sets(q, "freeRun") /\ ~Sets(q, "tempoHeld")
  BY MidiKeeps
<1>3. \A q, next : Restarted(q, next, when)
                     => ~Sets(q, "latency") /\ ~Sets(q, "freeRun") /\ ~Sets(q, "tempoHeld")
  BY MidiKeeps
<1>4. LET q == markMachineBeat(c, when)
      IN  ~Sets(q, "latency") /\ ~Sets(q, "freeRun") /\ ~Sets(q, "tempoHeld")
  BY <1>1, <1>2, markMachineBeatCases
<1>5. LET q == restart(c, when)
      IN  ~Sets(q, "latency") /\ ~Sets(q, "freeRun") /\ ~Sets(q, "tempoHeld")
  BY <1>3, restartShape
<1>6. /\ Beat(c, when) >= low /\ ~Sets(markMachineBeat(c, when), "period")
            => Ordered(markMachineBeat(c, when), c, low)
      /\ Beat(c, when) >= low => Ordered(restart(c, when), c, low)
  BY GridCallsOrdered
<1>7. Callable(markMachineBeat(c, when)) /\ Callable(restart(c, when))
  BY markMachineBeatCallable, ShowCallable
<1> QED BY <1>4, <1>5, <1>6, <1>7

LEMMA TempoCall ==
  ASSUME NEW c \in Clock, NEW period \in Periods, NEW when \in Int
  PROVE  LET q == setBpm(c, period, when)
         IN  /\ Callable(q) /\ Sets(q, "period")
             /\ ~Sets(q, "latency") /\ ~Sets(q, "freeRun") /\ ~Sets(q, "tempoHeld")
<1> DEFINE q == setBpm(c, period, when)
<1>1. Retimed(q) /\ Callable(q)
  BY setBpmShape, setBpmCallable
<1> HIDE DEF q
<1>2. Sets(q, "period")
  BY <1>1 DEF Retimed, Sets
<1>3. ~Sets(q, "latency") /\ ~Sets(q, "freeRun") /\ ~Sets(q, "tempoHeld")
  BY <1>1, MidiKeeps
<1> QED BY <1>1, <1>2, <1>3 DEF q

(* A step that leaves the clock and what is shown, and the read or ends it. *)
LEMMA NotBehindRead ==
  ASSUME Typed, NotBehind, stage = "rack",
         UNCHANGED <<clock, todo, now, shown, writing, torn>>,
         loaded'.at = "anchor" /\ loaded'.from = shown
  PROVE  NotBehind'
<1>1. Alone' /\ Showing' /\ Pending'
  BY DEF NotBehind, Alone, Showing, Pending, Quiet
<1>2. Reading'
  <2> SUFFICES ASSUME torn \subseteq {"grid"}, clock.latency <= 0
               PROVE  /\ shown <= shown
                      /\ Beat(clock, now + clock.latency) >= shown
                      /\ WouldRead' >= shown
    BY DEF Reading
  <2>1. Beat(clock, now + clock.latency) >= shown
    BY DEF NotBehind, Reading
  <2>2. WouldRead' = Beat(clock, now + clock.latency)
    BY DEF WouldRead
  <2> QED BY <2>1, <2>2, TypedFacts
<1> QED BY <1>1, <1>2 DEF NotBehind

(* A load changes nothing about the read under way. *)
LEMMA LoadKeepsRead ==
  ASSUME Typed, Load
  PROVE  WouldRead' = WouldRead /\ loaded'.from = loaded.from /\ loaded'.inBar = loaded.inBar
<1>1. UNCHANGED <<clock, now>> /\ loaded \in Loads
  BY TypedFacts DEF Load
<1>2. CASE /\ loaded.at = "anchor"
           /\ loaded' = [loaded EXCEPT !.at = "number", !.anchor = clock.anchor]
  <2>1. /\ loaded'.at = "number" /\ loaded'.anchor = clock.anchor
        /\ loaded'.from = loaded.from /\ loaded'.inBar = loaded.inBar
    BY <1>1, <1>2 DEF Loads
  <2> QED BY <1>1, <1>2, <2>1 DEF WouldRead, Beat
<1>3. CASE /\ loaded.at = "number"
           /\ loaded' = [loaded EXCEPT !.at = "period", !.number = clock.beatNumber]
  <2>1. /\ loaded'.at = "period" /\ loaded'.number = clock.beatNumber
        /\ loaded'.anchor = loaded.anchor
        /\ loaded'.from = loaded.from /\ loaded'.inBar = loaded.inBar
    BY <1>1, <1>3 DEF Loads
  <2> QED BY <1>1, <1>3, <2>1 DEF WouldRead, Read
<1> QED BY <1>2, <1>3 DEF Load

LEMMA NotBehindLoad ==
  ASSUME Typed, NotBehind, Load
  PROVE  NotBehind'
<1>1. Alone' /\ Showing' /\ Pending'
  BY DEF NotBehind, Alone, Showing, Pending, Quiet, Load
<1>2. UNCHANGED <<clock, now, shown, torn, stage>>
  BY DEF Load
<1>3. Reading'
  BY <1>2, LoadKeepsRead DEF NotBehind, Reading
<1> QED BY <1>1, <1>3 DEF NotBehind

LEMMA NotBehindBegin ==
  ASSUME Typed, NotBehind, BeginRack
  PROVE  NotBehind'
<1>1. Alone' /\ Showing' /\ Pending'
  BY DEF NotBehind, Alone, Showing, Pending, Quiet, BeginRack
<1>2. /\ UNCHANGED <<clock, now, shown, writing>> /\ todo["main"] = <<>>
      /\ loaded'.from = shown /\ loaded'.at = "anchor"
      /\ torn' = IF todo["midi"] = <<>> THEN {} ELSE {writing}
  BY DEF BeginRack, NoLoad
<1>3. ASSUME torn' \subseteq {"grid"}, clock.latency <= 0
      PROVE  Beat(clock, now + clock.latency) >= shown
  <2>1. CASE todo["midi"] = <<>>
    <3>1. shown = Beat(clock, now + clock.latency) /\ shown \in Nat
      BY <2>1, <1>2, TypedFacts DEF NotBehind, Showing, Quiet, Threads
    <3> QED BY <3>1
  <2>2. CASE todo["midi"] # <<>>
    BY <2>2, <1>2, <1>3 DEF NotBehind, Pending
  <2> QED BY <2>1, <2>2
<1>4. WouldRead' = Beat(clock, now + clock.latency)
  BY <1>2 DEF WouldRead
<1>5. Reading'
  BY <1>2, <1>3, <1>4, TypedFacts DEF Reading
<1> QED BY <1>1, <1>5 DEF NotBehind

LEMMA EndTriggerReads ==
  ASSUME NEW r, NEW trigger, NEW hit, EndTrigger(r, trigger, hit)
  PROVE  loaded'.at = "anchor" /\ loaded'.from = shown /\ loaded'.inBar = FALSE
  BY DEF EndTrigger, NoLoad

LEMMA NotBehindStep == Typed /\ NotBehind /\ [Next]_vars => NotBehind'
<1> SUFFICES ASSUME Typed, NotBehind, [Next]_vars PROVE NotBehind'
  OBVIOUS
<1> USE TypedFacts
<1>1. ASSUME NEW t \in Threads, Store(t) PROVE NotBehind'
  BY <1>1, NotBehindMidiStore, NotBehindMainStore DEF Threads
<1>2. CASE MidiMessage
  BY <1>2, MidiCalls, NotBehindMidiCall DEF MidiMessage, Callable
<1>3. CASE MidiBeat \/ MidiStray
  BY <1>2, <1>3 DEF MidiBeat, MidiStray
<1>4. CASE MidiStart
  BY <1>4, MidiCalls, NotBehindMidiCall DEF MidiStart, Callable
<1>5. ASSUME NEW p \in Tempos, MidiTempo(p) PROVE NotBehind'
  BY <1>5, SongAssumption, TempoCall, NotBehindMidiCall DEF MidiTempo, Callable
<1>6. ASSUME NEW q, Callable(q), Command(q) PROVE NotBehind'
  BY <1>6, NotBehindMainCall DEF Command, Callable
<1>7. ASSUME NEW p \in Tempos, SetBpm(p) PROVE NotBehind'
  BY <1>6, <1>7, SongAssumption, setBpmCallable DEF SetBpm
<1>8. CASE Tap
  BY <1>6, <1>8, ShowCallable DEF Tap
<1>9. CASE Align
  BY <1>6, <1>9, ShowCallable DEF Align
<1>10. ASSUME NEW b \in BOOLEAN, SetTempoHeld(b) PROVE NotBehind'
  BY <1>6, <1>10, SettingCallable DEF SetTempoHeld
<1>11. ASSUME NEW b \in BOOLEAN, SetFreeRun(b) PROVE NotBehind'
  BY <1>6, <1>11, SettingCallable DEF SetFreeRun
<1>12. ASSUME NEW s \in Latencies, SetLatency(s) PROVE NotBehind'
  BY <1>6, <1>12, SongAssumption, SettingCallable DEF SetLatency
<1>13. CASE UNCHANGED <<clock, todo, now, loopVars, shown, writing, torn>>
  BY <1>13 DEF NotBehind, Alone, Showing, Pending, Reading, Quiet, WouldRead, Read, loopVars
<1>14. ASSUME NEW r \in Rates, armEntry(r) PROVE NotBehind'
  BY <1>13, <1>14 DEF armEntry
<1>15. CASE evaluate
  <2>1. stage = "rack" /\ UNCHANGED <<clock, todo, now, shown, writing, torn>>
    BY <1>15 DEF evaluate
  <2>2. loaded'.at = "anchor" /\ loaded'.from = shown
    BY <1>15, EndTriggerReads DEF evaluate, NoLoad
  <2> QED BY <2>1, <2>2, NotBehindRead
<1>16. CASE evaluateInBar
  <2>1. stage = "rack" /\ UNCHANGED <<clock, todo, now, shown, writing, torn>>
    BY <1>16 DEF evaluateInBar
  <2>2. loaded'.at = "anchor" /\ loaded'.from = shown
    BY <1>16, EndTriggerReads DEF evaluateInBar
  <2> QED BY <2>1, <2>2, NotBehindRead
<1>17. CASE NextFrame
  <2>1. /\ todo["midi"] = <<>> /\ stage' = "commands" /\ UNCHANGED <<clock, todo>>
        /\ shown' = Beat(clock', now' + clock'.latency)
    BY <1>17 DEF NextFrame, Quiet, Threads
  <2> QED BY <2>1 DEF NotBehind, Alone, Showing, Pending, Reading
<1>18. CASE UNCHANGED vars
  BY <1>13, <1>18 DEF vars
<1> QED
  BY <1>1, <1>3, <1>4, <1>5, <1>7, <1>8, <1>9, <1>10, <1>11, <1>12, <1>14, <1>15, <1>16, <1>17,
     <1>18, NotBehindBegin, NotBehindLoad
  DEF Next, Ended

(* Nothing locks, and still a read that overlaps with the stores of a beat *)
(* or of a restart never shows less than the clock showed when the read    *)
(* began: the number is stored before the anchor, and the anchor is loaded *)
(* before the number.                                                      *)
THEOREM NeverBehind == Spec => ReadNotBehind
<1>1. Typed /\ NotBehind =>
        ((evaluate \/ evaluateInBar) /\ torn \subseteq {"grid"} /\ clock.latency <= 0
            => Read >= loaded.from)
  BY DEF NotBehind, Reading, WouldRead, evaluate, evaluateInBar
<1> QED
  BY TypedInit, TypedStep, NotBehindInit, NotBehindStep, <1>1, PTL DEF Spec, ReadNotBehind

-----------------------------------------------------------------------------
(* HitsOnce. While nothing overlaps, a read shows the beat shown; and with *)
(* nobody but the song to move the clock, that beat never goes back.       *)
Unmoved ==
    stage = "rack" /\ torn = {}
      => shown = Beat(clock, now + clock.latency) /\ WouldRead = shown

SongOnly ==
    calls = 0 =>
      /\ clock.latency = 0 /\ clock.freeRun = TRUE /\ todo["main"] = <<>>
      /\ Beat(After(clock, todo["midi"]), now) >= shown

(* A trigger between its two reads of a bar has taken the beat already. *)
BarRead(r) == stage = "rack" /\ loaded.inBar /\ r = Head(left)

Kept ==
    calls = 0 =>
      \A r \in Rates : lastHit[r] # NoHit =>
         \/ BarRead(r) /\ torn # {}
         \/ lastHit[r].beat <= rack[r].lastBeat /\ rack[r].lastBeat <= shown

Crossed ==
    calls = 0 /\ torn = {} =>
      \A r \in Rates : BarRead(r) =>
         /\ rack[r].lastBeat = shown
         /\ lastHit[r] # NoHit => lastHit[r].beat < shown

Hits == Unmoved /\ SongOnly /\ Kept /\ Crossed

LEMMA HitsInit == Init => Hits
<1> SUFFICES ASSUME Init PROVE Hits
  OBVIOUS
<1>1. Typed
  BY TypedInit
<1>2. Showing /\ Quiet
  BY NotBehindInit DEF NotBehind, Init, Quiet
<1>3. todo["midi"] = <<>> /\ todo["main"] = <<>> /\ stage = "commands"
  BY DEF Init, Threads
<1>4. clock.latency = 0 /\ clock.freeRun = TRUE
  BY DEF Init, Fresh
<1>5. Beat(After(clock, todo["midi"]), now) >= shown
  <2>1. After(clock, todo["midi"]) = clock
    BY <1>1, <1>3, AfterNone, TypedFacts
  <2>2. now + clock.latency = now /\ shown \in Nat
    BY <1>1, <1>4, TypedFacts
  <2> QED BY <1>2, <2>1, <2>2 DEF Showing
<1>6. \A r \in Rates : lastHit[r] = NoHit
  BY DEF Init
<1> QED BY <1>3, <1>4, <1>5, <1>6 DEF Hits, Unmoved, SongOnly, Kept, Crossed, BarRead

(* What a beat off the wire makes of the beat shown. *)
LEMMA BeatAfterBeat ==
  ASSUME NEW c \in Clock, NEW when \in Int
  PROVE  Beat(After(c, markMachineBeat(c, when)), when) >= Beat(c, when)
<1> DEFINE q == markMachineBeat(c, when)
           f == After(c, q)
           steps == Steps(Elapsed(c, when), c.period)
<1>1. q \in Seq(Stores) /\ Once(q)
  BY markMachineBeatCallable DEF Callable
<1>2. f \in Clock /\ Beat(c, when) \in Nat /\ Beat(f, when) \in Nat
  BY <1>1, AfterType, BeatType
<1>3. \/ Silent(q)
      \/ Beaten(q, NextBeat(c, when, 1, "Grid"), when)
      \/ steps > 0 /\ Beaten(q, NextBeat(c, when, steps, "Grid"), when)
  BY markMachineBeatCases
<1>4. steps \in Int
  <2>1. Elapsed(c, when) \in Int
    BY ClockFields DEF Elapsed, Never
  <2> QED BY <2>1, StepsType, ClockFields
<1> HIDE DEF q, steps
<1>5. CASE Silent(q)
  <2>1. \A g \in {"period", "anchor", "beatNumber", "freeRun"} : ~Sets(q, g)
    <3>1. \A i \in DOMAIN q : i = 1
      BY <1>5 DEF Silent
    <3> QED BY <3>1, <1>5 DEF Silent, Sets
  <2>2. /\ f.period = c.period /\ f.anchor = c.anchor /\ f.beatNumber = c.beatNumber
        /\ f.freeRun = c.freeRun
    BY <2>1, AfterUnset DEF Fields
  <2>3. Beat(f, when) = Beat(c, when)
    BY <2>2 DEF Beat
  <2> QED BY <2>3, <1>2 DEF q
<1>6. ASSUME NEW n \in Nat, n >= 1, Beaten(q, NextBeat(c, when, n, "Grid"), when)
      PROVE  Beat(f, when) >= Beat(c, when)
  <2>1. 2 \in DOMAIN q /\ "beatNumber" \in DOMAIN q[2]
        /\ q[2].beatNumber = NextBeat(c, when, n, "Grid")
    BY <1>6 DEF Beaten
  <2>2. f.beatNumber = NextBeat(c, when, n, "Grid")
    BY <2>1, <1>1, AfterAt DEF Fields
  <2>3. f.beatNumber >= Beat(c, when)
    BY <2>2, NextBeatFacts
  <2>4. Beat(f, when) >= f.beatNumber /\ f.beatNumber \in Nat
    BY <1>2, ClockFields, BeatFromFacts DEF Beat
  <2> QED BY <2>3, <2>4, <1>2
<1> QED BY <1>3, <1>4, <1>5, <1>6 DEF q

(* The beat shown never goes back while only the song moves the clock. *)
LEMMA SongOnlyStep ==
  ASSUME Typed, NotBehind, SongOnly, [Next]_vars
  PROVE  SongOnly' /\ (calls' = 0 => calls = 0 /\ shown' >= shown)
<1> USE TypedFacts
<1>1. CASE calls' # 0
  BY <1>1 DEF SongOnly
<1>2. CASE calls' = 0 /\ calls # 0
  <2>1. calls' = calls \/ calls' = calls + 1
    BY DEF Next, Store, MidiBeat, MidiStray, MidiMessage, MidiStart, MidiTempo, Command, Tap, Align,
           SetBpm, SetTempoHeld, SetFreeRun, SetLatency, armEntry, BeginRack, Load, evaluate,
           evaluateInBar, NextFrame, Ended, Bounded, boundVars, vars
  <2>2. calls \in Nat
    BY BoundsAssumption DEF Typed
  <2> QED BY <1>2, <2>1, <2>2
<1>3. CASE calls' = 0 /\ calls = 0
  <2>1. /\ clock.latency = 0 /\ clock.freeRun = TRUE /\ todo["main"] = <<>>
        /\ Beat(After(clock, todo["midi"]), now) >= shown
    BY <1>3 DEF SongOnly
  <2>2. ~Bounded
    BY <1>3 DEF Bounded
  <2>3. CASE MidiMessage
    <3> DEFINE q == markMachineBeat(clock, now)
    <3>1. /\ todo'["midi"] = q /\ todo'["main"] = <<>> /\ todo["midi"] = <<>>
          /\ UNCHANGED <<clock, now, shown>>
      BY <2>1, <2>3 DEF MidiMessage, Call, Typed, TodoType, Threads
    <3>2. shown = Beat(clock, now)
      BY <2>1, <3>1 DEF NotBehind, Showing, Quiet, Threads
    <3>3. Beat(After(clock, q), now) >= shown
      BY <3>2, BeatAfterBeat
    <3> QED BY <2>1, <3>1, <3>3, <1>3 DEF SongOnly
  <2>4. ASSUME NEW t \in Threads, Store(t) PROVE SongOnly' /\ shown' >= shown
    <3> DEFINE q == todo["midi"]
               c == After(clock, q)
    <3>1. t = "midi" /\ q # <<>> /\ q \in Seq(Stores) /\ Once(q)
      BY <2>1, <2>4 DEF Store, Threads
    <3>2. /\ todo'["midi"] = Tail(q) /\ todo'["main"] = <<>> /\ now' = now
          /\ clock' = Stored(clock, Head(q))
          /\ shown' = IF Quiet' THEN Beat(clock', now + clock'.latency) ELSE shown
      BY <2>1, <2>4, <3>1 DEF Store, Typed, TodoType, Threads
    <3>3. clock'.latency = 0 /\ clock'.freeRun = TRUE
      BY <2>1, <3>1, <3>2, KeepStep DEF NotBehind, Alone, Settings, Fields
    <3>4. After(clock', Tail(q)) = c
      BY <3>1, <3>2, AfterStep
    <3>5. clock' \in Clock
      BY <2>4, TypedStore DEF Typed
    <3>6. CASE Tail(q) = <<>>
      <4>1. clock' = c
        BY <3>4, <3>5, <3>6, AfterNone
      <4>2. Quiet'
        BY <3>2, <3>6 DEF Quiet, Threads
      <4>3. shown' = Beat(clock', now) /\ shown' \in Nat
        <5>1. now \in Int /\ now + clock'.latency = now
          BY <3>3
        <5>2. Beat(clock', now) \in Nat
          BY <3>5, <5>1, BeatType
        <5> QED BY <3>2, <4>2, <5>1, <5>2
      <4>4. shown' >= shown
        BY <2>1, <4>1, <4>3
      <4> QED BY <1>3, <3>2, <3>3, <3>4, <4>1, <4>3, <4>4 DEF SongOnly
    <3>7. CASE Tail(q) # <<>>
      <4>1. shown' = shown
        BY <3>2, <3>7 DEF Quiet, Threads
      <4> QED BY <1>3, <2>1, <3>2, <3>3, <3>4, <4>1 DEF SongOnly
    <3> QED BY <3>6, <3>7
  <2>5. CASE NextFrame
    <3>1. todo["midi"] = <<>> /\ UNCHANGED <<clock, todo>> /\ now' = now + Frame
          /\ shown' = Beat(clock, now' + clock.latency)
      BY <2>5 DEF NextFrame, Quiet, Threads
    <3>2. now' \in Int /\ now <= now' /\ now' + clock.latency = now'
      BY <3>1, <2>1, SongAssumption
    <3>3. shown = Beat(clock, now)
      BY <2>1, <3>1 DEF NotBehind, Showing, Quiet, Threads
    <3>4. Beat(clock, now) <= Beat(clock, now')
      BY <3>2, ClockFields, BeatFromFacts DEF Beat
    <3>5. After(clock, todo["midi"]) = clock
      BY <3>1, AfterNone
    <3>6. Beat(clock, now') \in Nat
      BY <3>2, BeatType
    <3> QED BY <1>3, <2>1, <3>1, <3>2, <3>3, <3>4, <3>5, <3>6 DEF SongOnly
  <2>6. CASE UNCHANGED <<clock, todo, now, shown>>
    BY <1>3, <2>1, <2>6 DEF SongOnly
  <2>7. BeginRack \/ Load \/ evaluate \/ evaluateInBar \/ UNCHANGED vars
           => UNCHANGED <<clock, todo, now, shown>>
    BY DEF BeginRack, Load, evaluate, evaluateInBar, vars
  <2> QED
    BY <1>3, <2>2, <2>3, <2>4, <2>5, <2>6, <2>7
    DEF Next, MidiBeat, MidiStray, MidiStart, MidiTempo, Command, Tap, Align, SetBpm, SetTempoHeld,
        SetFreeRun, SetLatency, armEntry, Ended
<1> QED BY <1>1, <1>2, <1>3

LEMMA UnmovedStep ==
  ASSUME Typed, NotBehind, Unmoved, [Next]_vars
  PROVE  Unmoved'
<1>1. ASSUME UNCHANGED <<clock, now, stage, loaded, shown, torn>> PROVE Unmoved'
  BY <1>1 DEF Unmoved, WouldRead, Read
<1>2. ASSUME stage' # "rack" PROVE Unmoved'
  BY <1>2 DEF Unmoved
<1>3. ASSUME NEW t \in Threads, NEW q, Call(t, q) PROVE Unmoved'
  BY <1>1, <1>3 DEF Call, loopVars
<1>4. ASSUME NEW t \in Threads, Store(t) PROVE Unmoved'
  <2>1. CASE stage = "rack"
    <3>1. t = "midi"
      BY <1>4, <2>1 DEF Store, Typed, LoopType, Threads
    <3>2. torn' = torn \cup {writing}
      BY <1>4, <2>1, <3>1 DEF Store
    <3> QED BY <3>2 DEF Unmoved
  <2>2. CASE stage # "rack"
    BY <1>2, <1>4, <2>2 DEF Store, loopVars
  <2> QED BY <2>1, <2>2
<1>5. ASSUME UNCHANGED <<clock, now, shown, torn>>, stage = "rack", loaded'.at = "anchor"
      PROVE  Unmoved'
  BY <1>5 DEF Unmoved, WouldRead
<1>6. CASE evaluate
  <2>1. loaded'.at = "anchor"
    BY <1>6, EndTriggerReads DEF evaluate, NoLoad
  <2> QED BY <1>5, <1>6, <2>1 DEF evaluate
<1>7. CASE evaluateInBar
  <2>1. loaded'.at = "anchor"
    BY <1>7, EndTriggerReads DEF evaluateInBar
  <2> QED BY <1>5, <1>7, <2>1 DEF evaluateInBar
<1>8. CASE BeginRack
  <2>1. UNCHANGED <<clock, todo, now, shown>> /\ todo["main"] = <<>> /\ loaded'.at = "anchor"
    BY <1>8 DEF BeginRack, NoLoad
  <2>2. CASE todo["midi"] = <<>>
    <3>1. shown = Beat(clock, now + clock.latency)
      BY <2>1, <2>2 DEF NotBehind, Showing, Quiet, Threads
    <3> QED BY <2>1, <3>1 DEF Unmoved, WouldRead
  <2>3. CASE todo["midi"] # <<>>
    <3>1. torn' = {writing}
      BY <1>8, <2>3 DEF BeginRack
    <3> QED BY <3>1 DEF Unmoved
  <2> QED BY <2>2, <2>3
<1>9. CASE Load
  <2>1. UNCHANGED <<clock, now, stage, shown, torn>> /\ WouldRead' = WouldRead
    BY <1>9, LoadKeepsRead DEF Load
  <2> QED BY <2>1 DEF Unmoved
<1>10. CASE NextFrame
  BY <1>2, <1>10 DEF NextFrame
<1>11. CASE UNCHANGED vars
  BY <1>1, <1>11 DEF vars, loopVars
<1>12. ASSUME NEW r, armEntry(r) PROVE Unmoved'
  BY <1>1, <1>12 DEF armEntry, loopVars
<1> QED
  BY <1>3, <1>4, <1>6, <1>7, <1>8, <1>9, <1>10, <1>11, <1>12
  DEF Next, MidiBeat, MidiStray, MidiMessage, MidiStart, MidiTempo, Command, Tap, Align, SetBpm,
      SetTempoHeld, SetFreeRun, SetLatency, Ended, Threads

(* The end of a trigger's evaluation keeps its last hit at or behind its   *)
(* beat, and the hit it makes is of a later beat.                          *)
LEMMA HitsEndTrigger ==
  ASSUME Typed, Kept, Crossed, calls = 0, stage = "rack", UNCHANGED <<calls, shown, torn>>,
         NEW trigger \in Trigger, NEW hit \in BOOLEAN, EndTrigger(Head(left), trigger, hit),
         torn = {} /\ hit => Read = shown /\ trigger.lastBeat = shown,
         torn = {} /\ hit => (lastHit[Head(left)] # NoHit => lastHit[Head(left)].beat < shown),
         torn = {} => trigger.lastBeat <= shown,
         torn = {} /\ lastHit[Head(left)] # NoHit => lastHit[Head(left)].beat <= trigger.lastBeat
  PROVE  /\ Kept' /\ Crossed'
         /\ \A r \in Rates : lastHit'[r] \notin {lastHit[r], NoHit}
               => lastHit'[r].beat > lastHit[r].beat
<1> DEFINE r == Head(left)
           new == [beat |-> Read, at |-> now]
<1>1. r \in Rates /\ shown \in Nat /\ Read \in Nat
  BY TypedFacts, ReadType
<1>2. rack \in [Rates -> Trigger] /\ lastHit \in [Rates -> [beat : Int, at : Int]]
  BY DEF Typed, RackType
<1>3. rack'[r].lastBeat = trigger.lastBeat /\ \A s \in Rates : s # r => rack'[s] = rack[s]
  BY <1>1, <1>2 DEF EndTrigger, Trigger
<1>4. loaded'.inBar = FALSE
  BY EndTriggerReads
<1>5. new.beat = Read
  OBVIOUS
<1> HIDE DEF new, r
<1>6. /\ torn # {} => lastHit' = [lastHit EXCEPT ![r] = NoHit]
      /\ torn = {} /\ hit => lastHit' = [lastHit EXCEPT ![r] = new]
      /\ torn = {} /\ ~hit => lastHit' = lastHit
  BY DEF EndTrigger, new, r
<1>7. \A s \in Rates : s # r => lastHit'[s] = lastHit[s]
  BY <1>2, <1>6
<1>8. /\ torn # {} => lastHit'[r] = NoHit
      /\ torn = {} /\ hit => lastHit'[r] = new
      /\ torn = {} /\ ~hit => lastHit'[r] = lastHit[r]
  BY <1>1, <1>2, <1>6
<1>9. ASSUME NEW s \in Rates, lastHit'[s] # NoHit
      PROVE  lastHit'[s].beat <= rack'[s].lastBeat /\ rack'[s].lastBeat <= shown
  <2>1. CASE s # r
    <3>1. ~BarRead(s)
      BY <2>1 DEF BarRead, r
    <3> QED BY <1>3, <1>7, <1>9, <2>1, <3>1 DEF Kept
  <2>2. CASE s = r
    <3>1. torn = {}
      BY <1>8, <1>9, <2>2
    <3>2. rack'[s].lastBeat <= shown
      BY <1>3, <2>2, <3>1 DEF r
    <3>3. CASE hit
      <4>1. Read = shown /\ trigger.lastBeat = shown /\ lastHit'[s] = new
        BY Zenon, <1>8, <2>2, <3>1, <3>3
      <4> QED BY <1>1, <1>3, <1>5, <2>2, <4>1
    <3>4. CASE ~hit
      BY <1>3, <1>8, <1>9, <2>2, <3>1, <3>2, <3>4 DEF r
    <3> QED BY <3>3, <3>4
  <2> QED BY <2>1, <2>2
<1>10. Kept'
  BY <1>9 DEF Kept
<1>11. Crossed'
  BY <1>4 DEF Crossed, BarRead
<1>12. ASSUME NEW s \in Rates, lastHit'[s] \notin {lastHit[s], NoHit}
       PROVE  lastHit'[s].beat > lastHit[s].beat
  <2>1. s = r /\ torn = {} /\ hit /\ lastHit'[s] = new
    BY <1>7, <1>8, <1>12
  <2>2. lastHit'[s].beat = shown /\ (lastHit[s] # NoHit => lastHit[s].beat < shown)
    <3>1. Read = shown /\ (lastHit[s] # NoHit => lastHit[s].beat < shown)
      BY Zenon, <2>1 DEF r
    <3> QED BY <3>1, <2>1, <1>5
  <2>3. CASE lastHit[s] # NoHit
    <3>1. lastHit[s].beat < shown /\ lastHit[s].beat \in Int
      BY <2>2, <2>3, <1>2
    <3> QED BY <2>2, <3>1, <1>1
  <2>4. CASE lastHit[s] = NoHit
    <3>1. NoHit.beat = -1
      BY DEF NoHit
    <3> QED BY <2>2, <2>4, <3>1, <1>1
  <2> QED BY <2>3, <2>4
<1> QED BY <1>10, <1>11, <1>12

Later == \A r \in Rates : lastHit'[r] \notin {lastHit[r], NoHit}
                               => lastHit'[r].beat > lastHit[r].beat

LEMMA HitsEvaluate ==
  ASSUME Typed, Hits, calls = 0, evaluate
  PROVE  Kept' /\ Crossed' /\ Later
<1> DEFINE r == Head(left)
           t == [rack[r] EXCEPT !.fired = FALSE]
           crossed == [t EXCEPT !.lastBeat = Read, !.offbeatFired = FALSE]
           half == r = "double" /\ ~t.offbeatFired /\ PastHalf
           sounded == [t EXCEPT !.offbeatFired = @ \/ half, !.fired = half]
<1>1. /\ stage = "rack" /\ loaded.at = "period" /\ ~loaded.inBar
      /\ UNCHANGED <<calls, shown, torn>>
  BY DEF evaluate, boundVars
<1>2. /\ r \in Rates /\ Read \in Nat /\ shown \in Nat
      /\ rack[r] \in Trigger /\ rack \in [Rates -> Trigger]
      /\ lastHit \in [Rates -> [beat : Int, at : Int]]
  BY <1>1, TypedFacts, ReadType DEF Typed, RackType
<1>3. torn = {} => Read = shown
  BY <1>1 DEF Hits, Unmoved, WouldRead
<1>4. ASSUME NEW s \in Rates, lastHit[s] # NoHit
      PROVE  lastHit[s].beat <= rack[s].lastBeat /\ rack[s].lastBeat <= shown
  BY <1>1, <1>4 DEF Hits, Kept, BarRead
<1>5. /\ t \in Trigger /\ t.lastBeat = rack[r].lastBeat
      /\ crossed \in Trigger /\ crossed.lastBeat = Read
      /\ [crossed EXCEPT !.fired = TRUE] \in Trigger
      /\ [crossed EXCEPT !.fired = TRUE].lastBeat = Read
  BY <1>2 DEF Trigger
<1>6. Seated(t) \in Trigger /\ Seated(t).lastBeat = Read
  <2>1. PastHalf \in BOOLEAN
    BY DEF PastHalf
  <2> QED BY <1>2, <1>5, <2>1 DEF Seated, Trigger
<1>7. sounded \in Trigger /\ sounded.lastBeat = rack[r].lastBeat
  <2>1. half \in BOOLEAN
    OBVIOUS
  <2> HIDE DEF half
  <2> QED BY <1>5, <2>1 DEF Trigger
<1>8. rack[r].lastBeat \in Nat /\ lastHit[r].beat \in Int
  BY <1>2 DEF Trigger
<1>9. lastHit[r] # NoHit => lastHit[r].beat <= rack[r].lastBeat /\ rack[r].lastBeat <= shown
  BY <1>2, <1>4
<1>10. torn = {} /\ lastHit[r] # NoHit => lastHit[r].beat <= shown
  BY <1>2, <1>8, <1>9
<1>11. Kept /\ Crossed
  BY DEF Hits
<1>12. CASE EndTrigger(r, Seated(t), FALSE)
  <2> DEFINE trigger == Seated(t)
  <2>1. trigger \in Trigger /\ trigger.lastBeat = Read
    BY <1>6
  <2> HIDE DEF trigger
  <2>2. EndTrigger(r, trigger, FALSE)
    BY <1>12 DEF trigger
  <2>3. /\ torn = {} => trigger.lastBeat <= shown
        /\ torn = {} /\ lastHit[r] # NoHit => lastHit[r].beat <= trigger.lastBeat
    BY <2>1, <1>2, <1>3, <1>10
  <2> QED BY <1>1, <1>11, <2>1, <2>2, <2>3, HitsEndTrigger DEF Later
<1>13. CASE rack[r].lastBeat # Read /\ EndTrigger(r, [crossed EXCEPT !.fired = TRUE], TRUE)
  <2> DEFINE trigger == [crossed EXCEPT !.fired = TRUE]
  <2>1. trigger \in Trigger /\ trigger.lastBeat = Read
    BY <1>5
  <2> HIDE DEF trigger
  <2>2. EndTrigger(r, trigger, TRUE)
    BY <1>13 DEF trigger
  <2>3. /\ torn = {} => Read = shown /\ trigger.lastBeat = shown /\ trigger.lastBeat <= shown
        /\ torn = {} /\ lastHit[r] # NoHit => lastHit[r].beat <= trigger.lastBeat
    BY <2>1, <1>2, <1>3, <1>10
  <2>4. torn = {} => (lastHit[r] # NoHit => lastHit[r].beat < shown)
    BY <1>2, <1>3, <1>8, <1>9, <1>13
  <2> QED BY <1>1, <1>11, <2>1, <2>2, <2>3, <2>4, HitsEndTrigger DEF Later
<1>14. CASE /\ rack[r].lastBeat # Read
            /\ rack' = [rack EXCEPT ![r] = crossed]
            /\ loaded' = [NoLoad EXCEPT !.inBar = TRUE, !.from = shown]
            /\ UNCHANGED <<stage, left, armed, lastHit>>
  <2>1. rack'[r].lastBeat = Read /\ \A s \in Rates : s # r => rack'[s] = rack[s]
    BY <1>2, <1>5, <1>14
  <2>2. loaded'.inBar = TRUE
    BY <1>14 DEF NoLoad
  <2>3. \A s \in Rates : BarRead(s)' <=> s = r
    BY <1>1, <1>14, <2>2 DEF BarRead
  <2>4. ASSUME NEW s \in Rates, lastHit[s] # NoHit
        PROVE  \/ s = r /\ torn # {}
               \/ lastHit[s].beat <= rack'[s].lastBeat /\ rack'[s].lastBeat <= shown
    <3>1. CASE s # r
      BY <1>4, <2>1, <2>4, <3>1
    <3>2. CASE s = r /\ torn = {}
      BY <1>2, <1>3, <1>10, <2>1, <2>4, <3>2
    <3> QED BY <3>1, <3>2
  <2>5. Kept'
    BY <1>1, <1>14, <2>3, <2>4 DEF Kept
  <2>6. torn = {} => /\ rack'[r].lastBeat = shown
                     /\ lastHit[r] # NoHit => lastHit[r].beat < shown
    <3>1. rack[r].lastBeat # Read
      BY <1>14
    <3>2. torn = {} => (lastHit[r] # NoHit => lastHit[r].beat < shown)
      BY <1>2, <1>3, <1>8, <1>9, <3>1
    <3> QED BY <1>3, <2>1, <3>2
  <2>7. Crossed'
    BY <1>1, <1>14, <2>3, <2>6 DEF Crossed
  <2> QED BY <1>14, <2>5, <2>7 DEF Later
<1>15. CASE EndTrigger(r, sounded, FALSE) /\ rack[r].lastBeat = Read
  <2>1. sounded \in Trigger /\ sounded.lastBeat = rack[r].lastBeat
    BY <1>7
  <2> HIDE DEF sounded
  <2>2. /\ torn = {} => sounded.lastBeat <= shown
        /\ torn = {} /\ lastHit[r] # NoHit => lastHit[r].beat <= sounded.lastBeat
    BY <2>1, <1>2, <1>3, <1>9, <1>15
  <2> QED BY <1>1, <1>11, <1>15, <2>1, <2>2, HitsEndTrigger DEF Later
<1>16. t.lastBeat = rack[r].lastBeat
  BY <1>5
<1> QED BY <1>12, <1>13, <1>14, <1>15, <1>16 DEF evaluate

LEMMA HitsEvaluateInBar ==
  ASSUME Typed, Hits, calls = 0, evaluateInBar
  PROVE  Kept' /\ Crossed' /\ Later
<1> DEFINE r == Head(left)
           hit == InBar(Read, clock.downbeat) % beatsPerHit[r] = 0
           trigger == [rack[r] EXCEPT !.fired = hit]
<1>1. /\ stage = "rack" /\ loaded.at = "period" /\ loaded.inBar
      /\ UNCHANGED <<calls, shown, torn>>
      /\ EndTrigger(r, trigger, hit)
  BY DEF evaluateInBar, boundVars
<1>2. /\ r \in Rates /\ Read \in Nat /\ shown \in Nat
      /\ rack[r] \in Trigger /\ lastHit[r] \in [beat : Int, at : Int]
  BY <1>1, TypedFacts, ReadType DEF Typed, RackType
<1>3. torn = {} => Read = shown
  BY <1>1 DEF Hits, Unmoved, WouldRead
<1>4. torn = {} => /\ rack[r].lastBeat = shown
                   /\ lastHit[r] # NoHit => lastHit[r].beat < shown
  BY <1>1, <1>2 DEF Hits, Crossed, BarRead
<1>5. hit \in BOOLEAN
  OBVIOUS
<1> HIDE DEF hit
<1>6. trigger \in Trigger /\ trigger.lastBeat = rack[r].lastBeat
  BY <1>2, <1>5 DEF Trigger
<1> HIDE DEF trigger
<1>7. /\ torn = {} => trigger.lastBeat = shown /\ trigger.lastBeat <= shown
      /\ torn = {} => (lastHit[r] # NoHit => lastHit[r].beat < shown)
      /\ torn = {} /\ lastHit[r] # NoHit => lastHit[r].beat <= trigger.lastBeat
  BY <1>2, <1>4, <1>6
<1>8. Kept /\ Crossed
  BY DEF Hits
<1> QED BY <1>1, <1>3, <1>5, <1>6, <1>7, <1>8, HitsEndTrigger DEF Later

LEMMA HitsStep == Typed /\ NotBehind /\ Hits /\ [Next]_vars => Hits' /\ (calls = 0 => Later)
<1> SUFFICES ASSUME Typed, NotBehind, Hits, [Next]_vars
             PROVE  Kept' /\ Crossed' /\ (calls = 0 => Later)
  BY UnmovedStep, SongOnlyStep DEF Hits
<1>1. calls' = 0 => calls = 0 /\ shown' >= shown
  BY SongOnlyStep DEF Hits
<1>2. CASE calls = 0 /\ evaluate
  BY <1>2, HitsEvaluate
<1>3. CASE calls = 0 /\ evaluateInBar
  BY <1>3, HitsEvaluateInBar
<1>4. CASE calls # 0
  BY <1>1, <1>4 DEF Kept, Crossed
<1>5. ASSUME UNCHANGED <<rack, lastHit>>, calls = 0,
             \/ UNCHANGED <<stage, loaded, left>> /\ (torn # {} => torn' # {})
             \/ stage # "rack",
             stage' = "rack" /\ torn' = {} =>
                (stage = "rack" /\ shown' = shown) \/ loaded'.inBar = FALSE
      PROVE  Kept' /\ Crossed' /\ Later
  <2>1. ASSUME calls' = 0, NEW r \in Rates, lastHit[r] # NoHit
        PROVE  \/ BarRead(r)' /\ torn' # {}
               \/ lastHit[r].beat <= rack[r].lastBeat /\ rack[r].lastBeat <= shown'
    <3>1. CASE BarRead(r) /\ torn # {}
      BY <1>5, <3>1 DEF BarRead
    <3>2. CASE lastHit[r].beat <= rack[r].lastBeat /\ rack[r].lastBeat <= shown
      <4>1. shown' \in Nat /\ shown \in Nat /\ rack[r].lastBeat \in Nat
        BY TypedStep DEF Typed, RackType, Trigger
      <4> QED BY <1>1, <2>1, <3>2, <4>1
    <3> QED BY <3>1, <3>2, <1>5, <2>1 DEF Hits, Kept
  <2>2. Kept'
    BY <1>5, <2>1 DEF Kept
  <2>3. Crossed'
    BY <1>5 DEF Hits, Crossed, BarRead
  <2> QED BY <2>2, <2>3, <1>5 DEF Later
<1>6. ASSUME calls = 0, UNCHANGED <<rack, lastHit, stage, loaded, left, torn, shown>>
      PROVE  Kept' /\ Crossed' /\ Later
  BY <1>5, <1>6
<1>7. ASSUME calls = 0, NEW t \in Threads, NEW q, Call(t, q) PROVE Kept' /\ Crossed' /\ Later
  BY <1>6, <1>7 DEF Call, loopVars
<1>8. ASSUME calls = 0, NEW t \in Threads, Store(t) PROVE Kept' /\ Crossed' /\ Later
  <2>1. stage = "rack" => t = "midi" /\ torn' = torn \cup {writing}
    BY <1>8 DEF Store, Typed, LoopType, Threads
  <2>2. stage = "rack" => torn' # {}
    BY <2>1
  <2> QED BY <1>5, <1>8, <2>2 DEF Store, loopVars
<1>9. ASSUME calls = 0, BeginRack PROVE Kept' /\ Crossed' /\ Later
  <2>1. loaded'.inBar = FALSE
    BY <1>9 DEF BeginRack, NoLoad
  <2> QED BY <1>5, <1>9, <2>1 DEF BeginRack
<1>10. ASSUME calls = 0, Load PROVE Kept' /\ Crossed' /\ Later
  <2>1. UNCHANGED <<rack, lastHit, stage, left, torn, shown>> /\ loaded'.inBar = loaded.inBar
    BY <1>10, LoadKeepsRead DEF Load
  <2>2. \A r : BarRead(r)' <=> BarRead(r)
    BY <2>1 DEF BarRead
  <2> QED BY <1>1, <2>1, <2>2 DEF Hits, Kept, Crossed, Later
<1>11. ASSUME calls = 0, NextFrame PROVE Kept' /\ Crossed' /\ Later
  BY <1>5, <1>11 DEF NextFrame
<1>12. ASSUME calls = 0, NEW r, armEntry(r) PROVE Kept' /\ Crossed' /\ Later
  BY <1>6, <1>12 DEF armEntry, loopVars
<1>13. ASSUME calls = 0, UNCHANGED vars PROVE Kept' /\ Crossed' /\ Later
  BY <1>6, <1>13 DEF vars, loopVars
<1> QED
  BY <1>2, <1>3, <1>4, <1>7, <1>8, <1>9, <1>10, <1>11, <1>12, <1>13
  DEF Next, MidiBeat, MidiStray, MidiMessage, MidiStart, MidiTempo, Command, Tap, Align, SetBpm,
      SetTempoHeld, SetFreeRun, SetLatency, Ended, Threads

(* On a clock that nobody but the song moves, a trigger whose reads no     *)
(* store overlapped hits each time on a later beat than the time before,   *)
(* whatever was lost, doubled or stray on the wire.                        *)
THEOREM HitsOnLaterBeats == Spec => HitsOnce
<1>1. (calls = 0 => Later) =>
        (calls = 0 => \A r \in Rates : lastHit'[r] \notin {lastHit[r], NoHit}
                                         => lastHit'[r].beat > lastHit[r].beat)
  BY DEF Later
<1> QED
  BY TypedInit, TypedStep, NotBehindInit, NotBehindStep, HitsInit, HitsStep, <1>1, PTL
  DEF Spec, HitsOnce

-----------------------------------------------------------------------------
(* CountsBeats. Beats whose time since the last is known to three tenths   *)
(* of a period are counted as the tempo says, and the prediction, which    *)
(* rounds down, never says more.                                           *)
LEMMA Multiples ==
  ASSUME NEW m \in Int, NEW n \in Int, NEW period \in Nat, n >= m + 1
  PROVE  n * period >= m * period + period
<1>1. n - m - 1 \in Nat
  OBVIOUS
<1>2. (n - m - 1) * period >= 0
  BY <1>1
<1>3. (n - m - 1) * period = n * period - m * period - period
  OBVIOUS
<1>4. n * period \in Int /\ m * period \in Int
  OBVIOUS
<1> QED BY <1>2, <1>3, <1>4

LEMMA StepsOfBeats ==
  ASSUME NEW elapsed \in Int, NEW period \in Periods, NEW beats \in Int,
         Agrees(elapsed, period),
         10 * (elapsed - beats * period) < 7 * period,
         -10 * (elapsed - beats * period) < 7 * period
  PROVE  Steps(elapsed, period) = beats
<1> DEFINE steps == Steps(elapsed, period)
           a == steps * period
           b == beats * period
<1>1. steps \in Int /\ period \in Nat /\ period >= 1
  BY StepsType, Constants
<1>2. 10 * (elapsed - a) <= 3 * period /\ -10 * (elapsed - a) <= 3 * period
  BY DEF Agrees
<1>3. 10 * (elapsed - b) < 7 * period /\ -10 * (elapsed - b) < 7 * period
  OBVIOUS
<1> HIDE DEF steps
<1>4. a \in Int /\ b \in Int
  BY <1>1
<1>5. steps >= beats + 1 => a >= b + period
  BY <1>1, Multiples
<1>6. beats >= steps + 1 => b >= a + period
  BY <1>1, Multiples
<1> HIDE DEF a, b
<1>7. ~(a >= b + period) /\ ~(b >= a + period)
  BY <1>1, <1>2, <1>3, <1>4
<1>8. ~(steps >= beats + 1) /\ ~(beats >= steps + 1)
  BY <1>5, <1>6, <1>7
<1> QED BY <1>1, <1>8 DEF steps

LEMMA PredictionBehind ==
  ASSUME NEW elapsed \in Nat, NEW period \in Periods
  PROVE  elapsed \div period <= Steps(elapsed, period)
<1> DEFINE d == elapsed \div period
           w == 2 * period
           x == 2 * elapsed + period
           steps == x \div w
<1>1. period \in Nat /\ period >= 1
  BY Constants
<1>2. d \in Nat /\ d * period <= elapsed
  BY <1>1
<1>3. x \in Nat /\ w \in Nat /\ w >= 1
  BY <1>1
<1> HIDE DEF d, x, w
<1>4. steps \in Int /\ x < steps * w + w
  BY <1>3
<1>5. steps * w \in Int /\ d * w \in Int
  BY <1>2, <1>3, <1>4
<1> HIDE DEF steps
<1>6. d >= steps + 1 => d * w >= steps * w + w
  BY <1>2, <1>3, <1>4, Multiples
<1>7. d * w <= x
  <2>1. d * w = 2 * (d * period)
    BY <1>1, <1>2 DEF w
  <2>2. d * period \in Int
    BY <1>1, <1>2
  <2> QED BY <1>1, <1>2, <2>1, <2>2 DEF x
<1>8. ~(d >= steps + 1)
  BY <1>3, <1>4, <1>5, <1>6, <1>7
<1> QED BY <1>2, <1>4, <1>8 DEF d, x, w, steps, Steps

(* On a settled grid, what a beat that the tempo fits makes of the count.   *)
LEMMA SettledCount ==
  ASSUME NEW c \in Clock, NEW when \in Int, NEW beats \in Int,
         c.lastBeatAt > 0, c.anchor = c.lastBeatAt, c.beatNumber = c.lastBeatCount,
         Agrees(when - c.lastBeatAt, c.period), Steps(when - c.lastBeatAt, c.period) > 0,
         when - c.lastBeatAt >= MinPeriod,
         10 * (when - c.lastBeatAt - beats * c.period) < 7 * c.period,
         -10 * (when - c.lastBeatAt - beats * c.period) < 7 * c.period
  PROVE  NextBeat(c, when, Steps(when - c.lastBeatAt, c.period), "Grid") = c.lastBeatCount + beats
<1> DEFINE elapsed == when - c.lastBeatAt
           steps == Steps(elapsed, c.period)
<1>1. /\ elapsed \in Nat /\ c.period \in Periods /\ c.period \in Nat /\ c.period >= 1
      /\ c.lastBeatCount \in Nat
  BY ClockFields, Constants
<1>2. Agrees(elapsed, c.period) /\ steps > 0
  OBVIOUS
<1>3. Gone(c.anchor, when) = elapsed
  BY <1>1, ClockFields, Constants DEF Gone
<1> HIDE DEF elapsed
<1>4. steps = beats
  BY <1>1, <1>2, StepsOfBeats DEF elapsed
<1>5. elapsed \div c.period <= steps /\ elapsed \div c.period \in Nat /\ steps \in Int
  BY <1>1, PredictionBehind, StepsType
<1> HIDE DEF steps
<1>6. Beat(c, when) <= c.lastBeatCount + steps
  <2>1. CASE c.freeRun
    BY <2>1, <1>1, <1>3, <1>5 DEF Beat, BeatFrom
  <2>2. CASE ~c.freeRun
    BY <2>2, <1>1, <1>2, <1>5 DEF Beat, BeatFrom
  <2> QED BY <2>1, <2>2
<1>7. Beat(c, when) \in Nat
  BY BeatType
<1>8. NextBeat(c, when, steps, "Grid") = c.lastBeatCount + steps
  BY <1>1, <1>5, <1>6, <1>7 DEF NextBeat, AtLeast
<1> QED BY <1>4, <1>8 DEF steps, elapsed

(* When its stores are made, a settled clock stands at its last beat, as   *)
(* far from the song's own count as when it settled.                       *)
Settled(f) ==
    /\ f.settled = kSettleBeats
    /\ f.anchor = f.lastBeatAt /\ f.beatNumber = f.lastBeatCount

Tuned ==
    tune # {} =>
      /\ todo["main"] = <<>>
      /\ Settled(After(clock, todo["midi"]))
      /\ tune = {After(clock, todo["midi"]).lastBeatCount - song}

Counting == song \in Int /\ Tuned

LEMMA CountingInit == Init => Counting
  BY DEF Init, Counting, Tuned

LEMMA NearestType ==
  ASSUME Typed
  PROVE  NearestBeat \in Int
<1>1. now \in Int /\ SongPeriod \in Nat /\ SongPeriod >= 1
  BY TypedFacts, SongAssumption, Constants
<1>2. 2 * now + SongPeriod - 1 \in Int /\ 2 * SongPeriod \in Nat /\ 2 * SongPeriod >= 1
  BY <1>1
<1> QED BY <1>2 DEF NearestBeat

(* The clock after a beat that counts. *)
LEMMA AfterBeaten ==
  ASSUME NEW c \in Clock, NEW q, NEW next \in Nat, NEW when \in Int, Beaten(q, next, when)
  PROVE  LET f == After(c, q)
         IN  /\ Sets(q, "lastBeatAt")
             /\ f.lastBeatAt = when /\ f.anchor = when
             /\ f.beatNumber = next /\ f.lastBeatCount = next
             /\ \A settled : q[1] = [lastExternal |-> when, settled |-> settled]
                               => f.settled = settled
             /\ f \in Clock
<1> DEFINE f == After(c, q)
<1>1. q \in Seq(Stores) /\ Once(q)
  BY BeatenOnce DEF Beaten
<1>2. /\ 1 \in DOMAIN q /\ 2 \in DOMAIN q /\ 3 \in DOMAIN q
      /\ "lastBeatAt" \in DOMAIN q[2] /\ "beatNumber" \in DOMAIN q[2]
      /\ "lastBeatCount" \in DOMAIN q[2] /\ "anchor" \in DOMAIN q[3]
      /\ q[2].lastBeatAt = when /\ q[2].beatNumber = next /\ q[2].lastBeatCount = next
      /\ q[3].anchor = when
  BY DEF Beaten
<1>3. Sets(q, "lastBeatAt")
  BY <1>2 DEF Sets
<1>4. f.lastBeatAt = when /\ f.beatNumber = next /\ f.lastBeatCount = next
  BY <1>1, <1>2, AfterAt DEF Fields
<1>5. f.anchor = when
  BY <1>1, <1>2, AfterAt DEF Fields
<1>6. ASSUME NEW settled, q[1] = [lastExternal |-> when, settled |-> settled]
      PROVE  f.settled = settled
  <2>1. "settled" \in DOMAIN q[1] /\ q[1].settled = settled
    BY <1>6
  <2> QED BY <1>1, <1>2, <2>1, AfterAt DEF Fields
<1> QED BY <1>1, <1>3, <1>4, <1>5, <1>6, AfterType

LEMMA CountingMessage ==
  ASSUME Typed, Counting, MidiMessage
  PROVE  Counting'
<1> DEFINE q == markMachineBeat(clock, now)
           f == After(clock, q)
           steps == Steps(Elapsed(clock, now), clock.period)
<1>1. /\ todo["midi"] = <<>> /\ todo'["midi"] = q /\ todo'["main"] = todo["main"]
      /\ clock' = clock
  BY DEF MidiMessage, Call, Typed, TodoType, Threads
<1>2. clock \in Clock /\ now \in Int /\ NearestBeat \in Int /\ song \in Int
  BY TypedFacts, NearestType DEF Counting
<1>3. tune # {} => Settled(clock) /\ todo["main"] = <<>> /\ tune = {clock.lastBeatCount - song}
  BY <1>1, <1>2, AfterNone DEF Counting, Tuned
<1>4. CASE Silent(q)
  <2>1. \A g \in {"settled", "anchor", "lastBeatAt", "beatNumber", "lastBeatCount"} : ~Sets(q, g)
    <3>1. \A i \in DOMAIN q : i = 1
      BY <1>4 DEF Silent
    <3> QED BY <3>1, <1>4 DEF Silent, Sets
  <2>2. UNCHANGED <<song, tune>>
    BY <2>1 DEF MidiMessage, songVars
  <2>3. /\ f.settled = clock.settled /\ f.anchor = clock.anchor
        /\ f.lastBeatAt = clock.lastBeatAt /\ f.beatNumber = clock.beatNumber
        /\ f.lastBeatCount = clock.lastBeatCount
    BY <2>1, <1>2, AfterUnset DEF Fields
  <2>4. tune # {} => Settled(f) /\ tune = {f.lastBeatCount - song}
    BY <1>3, <2>3 DEF Settled
  <2> QED BY <1>1, <1>2, <1>3, <2>2, <2>4 DEF Counting, Tuned
<1>5. ASSUME NEW next \in Nat, Beaten(q, next, now),
             f.settled = kSettleBeats /\ tune # {} /\ Fits
               => next = clock.lastBeatCount + (NearestBeat - song)
      PROVE  Counting'
  <2>1. /\ Sets(q, "lastBeatAt") /\ f \in Clock
        /\ f.lastBeatAt = now /\ f.anchor = now /\ f.beatNumber = next /\ f.lastBeatCount = next
    BY <1>2, <1>5, AfterBeaten
  <2>2. /\ song' = NearestBeat
        /\ tune' = IF f.settled < kSettleBeats \/ todo["main"] # <<>> THEN {}
                   ELSE IF tune # {} /\ Fits THEN tune
                   ELSE IF tune = {} /\ Due THEN {f.lastBeatCount - NearestBeat}
                   ELSE {}
    BY <2>1 DEF MidiMessage
  <2>3. f.settled \in 0..kSettleBeats
    BY <2>1, ClockFields
  <2>4. ASSUME tune' # {}
        PROVE  /\ todo["main"] = <<>> /\ f.settled = kSettleBeats
               /\ tune' = {f.lastBeatCount - NearestBeat}
    <3>1. todo["main"] = <<>> /\ ~(f.settled < kSettleBeats)
      BY <2>2, <2>4
    <3>2. f.settled = kSettleBeats
      BY <3>1, <2>3, Constants
    <3>3. CASE tune # {} /\ Fits
      <4>1. next = clock.lastBeatCount + (NearestBeat - song)
        BY <1>5, <3>2, <3>3
      <4>2. clock.lastBeatCount - song = next - NearestBeat
        BY <4>1, <1>2, ClockFields
      <4> QED BY <1>3, <2>1, <2>2, <3>1, <3>2, <3>3, <4>2
    <3>4. CASE ~(tune # {} /\ Fits)
      BY <2>2, <2>4, <3>1, <3>2, <3>4
    <3> QED BY <3>3, <3>4
  <2>5. tune' # {} => Settled(f)
    BY <2>1, <2>4 DEF Settled
  <2> QED BY <1>1, <1>2, <2>2, <2>4, <2>5 DEF Counting, Tuned
<1>6. ASSUME NEW settled \in 0..kSettleBeats,
             Beaten(q, NextBeat(clock, now, 1, "Grid"), now),
             q[1] = [lastExternal |-> now, settled |-> settled],
             settled # 0 => clock.settled < kSettleBeats
      PROVE  Counting'
  <2> DEFINE next == NextBeat(clock, now, 1, "Grid")
  <2>1. next \in Nat
    BY <1>2, NextBeatFacts
  <2>2. f.settled = settled
    BY <1>2, <1>6, <2>1, AfterBeaten
  <2>3. ~(f.settled = kSettleBeats /\ tune # {})
    <3>1. tune # {} => ~(clock.settled < kSettleBeats)
      BY <1>3, Constants DEF Settled
    <3> QED BY <1>6, <2>2, <3>1, Constants
  <2> HIDE DEF next
  <2> QED BY <1>5, <1>6, <2>1, <2>3 DEF next
<1>7. ASSUME isLocked(clock, now), clock.lastBeatAt > 0, clock.settled >= kSettleBeats,
             Elapsed(clock, now) >= MinPeriod, Agrees(Elapsed(clock, now), clock.period),
             steps > 0, Beaten(q, NextBeat(clock, now, steps, "Grid"), now)
      PROVE  Counting'
  <2> DEFINE next == NextBeat(clock, now, steps, "Grid")
             beats == NearestBeat - song
  <2>1. Elapsed(clock, now) = now - clock.lastBeatAt /\ Elapsed(clock, now) \in Int
    BY <1>2, <1>7, ClockFields DEF Elapsed
  <2>2. steps \in Nat
    BY <1>2, <1>7, <2>1, ClockFields, StepsType
  <2>3. next \in Nat
    BY <1>2, <2>2, NextBeatFacts
  <2>4. beats \in Int
    BY <1>2
  <2>5. ASSUME tune # {}, Fits PROVE next = clock.lastBeatCount + beats
    <3>1. clock.anchor = clock.lastBeatAt /\ clock.beatNumber = clock.lastBeatCount
      BY <1>3, <2>5 DEF Settled
    <3>2. /\ 10 * (now - clock.lastBeatAt - beats * clock.period) < 7 * clock.period
          /\ -10 * (now - clock.lastBeatAt - beats * clock.period) < 7 * clock.period
      BY <2>5 DEF Fits
    <3> HIDE DEF beats
    <3>3. NextBeat(clock, now, Steps(now - clock.lastBeatAt, clock.period), "Grid")
            = clock.lastBeatCount + beats
      BY <1>2, <1>7, <2>1, <2>4, <3>1, <3>2, SettledCount
    <3> QED BY <2>1, <3>3
  <2> HIDE DEF next
  <2> QED BY <1>5, <1>7, <2>3, <2>5 DEF next
<1> QED BY <1>2, <1>4, <1>6, <1>7, markMachineBeatCases

LEMMA CountingStep == Typed /\ Counting /\ [Next]_vars => Counting'
<1> SUFFICES ASSUME Typed, Counting, [Next]_vars PROVE Counting'
  OBVIOUS
<1>1. ASSUME song' = song, tune' = {} PROVE Counting'
  BY <1>1 DEF Counting, Tuned
<1>2. ASSUME UNCHANGED <<clock, todo, song, tune>> PROVE Counting'
  BY <1>2 DEF Counting, Tuned
<1>3. ASSUME NEW t \in Threads, Store(t) PROVE Counting'
  <2>1. UNCHANGED <<song, tune>>
    BY <1>3 DEF Store, songVars
  <2>2. CASE tune = {}
    BY <1>1, <2>1, <2>2
  <2>3. CASE tune # {}
    <3> DEFINE q == todo["midi"]
    <3>1. t = "midi" /\ q # <<>> /\ q \in Seq(Stores) /\ Once(q) /\ clock \in Clock
      BY <1>3, <2>3, TypedFacts DEF Store, Threads, Counting, Tuned
    <3>2. /\ todo'["midi"] = Tail(q) /\ todo'["main"] = todo["main"]
          /\ clock' = Stored(clock, Head(q))
      BY <1>3, <3>1 DEF Store, Typed, TodoType, Threads
    <3>3. After(clock', todo'["midi"]) = After(clock, q)
      BY <3>1, <3>2, AfterStep
    <3> QED BY <2>1, <2>3, <3>2, <3>3 DEF Counting, Tuned
  <2> QED BY <2>2, <2>3
<1>4. CASE MidiBeat \/ MidiStray
  BY <1>4, CountingMessage DEF MidiBeat, MidiStray
<1>5. MidiStart => song' = song /\ tune' = {}
  BY DEF MidiStart
<1>6. \A period : MidiTempo(period) => song' = song /\ tune' = {}
  BY DEF MidiTempo
<1>7. \A stores : Command(stores) => song' = song /\ tune' = {}
  BY DEF Command
<1>8. \A r : armEntry(r) => UNCHANGED <<clock, todo, song, tune>>
  BY DEF armEntry, songVars
<1>9. BeginRack \/ Load \/ evaluate \/ evaluateInBar \/ NextFrame \/ UNCHANGED vars
        => UNCHANGED <<clock, todo, song, tune>>
  BY DEF BeginRack, Load, evaluate, evaluateInBar, NextFrame, vars, songVars
<1> QED
  BY <1>1, <1>2, <1>3, <1>4, <1>5, <1>6, <1>7, <1>8, <1>9
  DEF Next, Tap, Align, SetBpm, SetTempoHeld, SetFreeRun, SetLatency, Ended

(* The clock counts beats, not messages: on a settled grid whose tempo the *)
(* song's beats fit, the count keeps its distance from the song's own,     *)
(* however many messages were lost, doubled, late or stray, and whatever   *)
(* tempo it has learned from them.                                         *)
THEOREM BeatsCounted == Spec => []CountsBeats
<1>1. Typed /\ Counting => CountsBeats
  <2> SUFFICES ASSUME Typed, Counting, Quiet, tune # {}
               PROVE  tune = {clock.lastBeatCount - song}
    BY DEF CountsBeats
  <2>1. todo["midi"] = <<>> /\ clock \in Clock
    BY TypedFacts DEF Quiet
  <2>2. After(clock, todo["midi"]) = clock
    BY <2>1, AfterNone
  <2> QED BY <2>2 DEF Counting, Tuned
<1> QED BY TypedInit, TypedStep, CountingInit, CountingStep, <1>1, PTL DEF Spec
====
