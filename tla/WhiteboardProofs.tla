-------------------------- MODULE WhiteboardProofs --------------------------
(***************************************************************************)
(* What is proved of Whiteboard for any number of patterns, any wait of at *)
(* least two ticks and any number of lost connections: it is well typed,   *)
(* and whatever is lost wherever, after a loop of its own the relic is     *)
(* known to the broker that it believes it is connected to.                *)
(***************************************************************************)
EXTENDS Whiteboard, TLAPS

LEMMA Constants == /\ Patterns \in 1 .. 4 /\ ReconnectTicks \in Nat /\ ReconnectTicks >= 2
                   /\ MaxDrops \in Nat /\ MaxCommands \in Nat /\ MaxInbox \in Nat
  BY WhiteboardAssumption

Relic == [currentPattern : Pattern, bPowerOn : BOOLEAN, currentBrightness : EBrightness,
          bDiscoveryPublished : BOOLEAN, bWasConnected : BOOLEAN]

(* The type invariant in three parts: the broker's side, the client's and  *)
(* the relic's.                                                            *)
BrokerTypeOK ==
    /\ up \in BOOLEAN
    /\ session \in {"down", "open", "dead"}
    /\ subscribed \subseteq Topics
    /\ retained \subseteq {"config", "online"}
    /\ shown \in Shown
    /\ inbox \in Seq(Command) /\ Len(inbox) <= MaxInbox
    /\ drops \in 0 .. MaxDrops /\ commands \in 0 .. MaxCommands
    /\ session = "open" => up
    /\ subscribed # {} => session = "open"
    /\ inbox # <<>> => session # "down"

LoopTypeOK ==
    /\ timeSinceLastReconnect \in 0 .. ReconnectTicks - 1
    /\ owned \in BOOLEAN
    /\ phase \in {"connect", "configure", "client", "link", "core"}
    /\ taken \in BOOLEAN

RelicTypeOK == relic \in Relic /\ todo \in Seq(Steps)

LEMMA TypeSplits == /\ TypeOK <=> BrokerTypeOK /\ LoopTypeOK /\ RelicTypeOK
                    /\ TypeOK' <=> BrokerTypeOK' /\ LoopTypeOK' /\ RelicTypeOK'
  BY DEF TypeOK, BrokerTypeOK, LoopTypeOK, RelicTypeOK, Relic, isConnected

-----------------------------------------------------------------------------
(* The packets of each call are steps. *)

LEMMA CallsAreSteps ==
  /\ subscribeTopics \in Seq(Steps) /\ publishState \in Seq(Steps)
  /\ publishModeState \in Seq(Steps) /\ setupMQTT \in Seq(Steps)
  /\ <<"discovery">> \in Seq(Steps) /\ announce \in Seq(Steps)
<1>1. {"set", "brightness/set", "effect/set", "mode/set", "config", "online", "power",
       "effect", "brightness", "mode", "discovery", "published"} = Steps
  BY DEF Steps, Said, Topics, States
<1>2. /\ subscribeTopics \in Seq(Steps) /\ publishState \in Seq(Steps)
      /\ publishModeState \in Seq(Steps) /\ setupMQTT \in Seq(Steps)
  BY <1>1 DEF subscribeTopics, publishState, publishModeState, setupMQTT
<1>3. /\ <<"config">> \in Seq(Steps) /\ <<"online">> \in Seq(Steps)
      /\ <<"published">> \in Seq(Steps) /\ <<"discovery">> \in Seq(Steps)
  BY <1>1
<1> QED BY <1>2, <1>3 DEF announce

LEMMA Levels == /\ {"NIGHTTRIP", "MIN", "MED", "HIGH"} = EBrightness
                /\ Unknown \in {"unknown"}
  BY DEF EBrightness, Unknown

LEMMA PatternNames == \A i \in 1 .. Patterns : patternName[i] \in Pattern
  BY DEF Pattern

(* The relic's own state is something that can be shown of it. *)
LEMMA ActualIsShown ==
  ASSUME relic \in Relic
  PROVE  /\ Actual \in Shown
         /\ \A s \in States : shown \in Shown => [shown EXCEPT ![s] = Actual[s]] \in Shown
<1>1. /\ Actual \in Shown
      /\ Actual.power \in {"ON", "OFF", Unknown} /\ Actual.effect \in Pattern \cup {Unknown}
      /\ Actual.brightness \in EBrightness \cup {Unknown}
      /\ Actual.mode \in Pattern \cup {Unknown}
  BY DEF Relic, Actual, Shown
<1>2. ASSUME NEW s \in States, shown \in Shown
      PROVE  [shown EXCEPT ![s] = Actual[s]] \in Shown
  <2>1. CASE s = "power"
    BY <1>1, <1>2, <2>1 DEF Shown
  <2>2. CASE s = "effect"
    BY <1>1, <1>2, <2>2 DEF Shown
  <2>3. CASE s = "brightness"
    BY <1>1, <1>2, <2>3 DEF Shown
  <2>4. CASE s = "mode"
    BY <1>1, <1>2, <2>4 DEF Shown
  <2> QED BY <2>1, <2>2, <2>3, <2>4 DEF States
<1> QED BY <1>1, <1>2

-----------------------------------------------------------------------------
(* Handlers. *)

LEMMA SetPatternTypes ==
  ASSUME relic \in Relic, NEW p \in Pattern, setPattern(p)
  PROVE  RelicTypeOK' /\ relic'.bWasConnected = relic.bWasConnected
<1>1. relic' \in Relic /\ relic'.bWasConnected = relic.bWasConnected
  BY DEF Relic, setPattern
<1>2. publishModeState \o publishState \in Seq(Steps)
  BY CallsAreSteps
<1> QED BY <1>1, <1>2 DEF RelicTypeOK, setPattern

LEMMA NextTypes ==
  ASSUME relic \in Relic, next
  PROVE  RelicTypeOK' /\ relic'.bWasConnected = relic.bWasConnected
<1>1. PICK i \in 1 .. Patterns : setPattern(patternName[(i % Patterns) + 1])
  BY DEF next
<1>2. (i % Patterns) + 1 \in 1 .. Patterns
  BY Constants
<1> QED BY <1>1, <1>2, PatternNames, SetPatternTypes

LEMMA HandlerTypes ==
  ASSUME relic \in Relic, NEW m \in Command, handleMessage(m)
  PROVE  RelicTypeOK' /\ relic'.bWasConnected = relic.bWasConnected
<1>1. CASE m.topic = "set"
  BY <1>1, CallsAreSteps, Levels DEF Relic, RelicTypeOK, handleMessage, onPowerCommand
<1>2. CASE m.topic = "brightness/set"
  BY <1>2, CallsAreSteps, Levels DEF Relic, RelicTypeOK, handleMessage, onBrightnessCommand, Command
<1>3. CASE m.topic \notin {"set", "brightness/set"}
  BY <1>3, SetPatternTypes DEF handleMessage, Command
<1> QED BY <1>1, <1>2, <1>3

-----------------------------------------------------------------------------
(* Steps. *)

LEMMA SayTypes == ASSUME TypeOK, Say PROVE TypeOK'
<1>1. RelicTypeOK' /\ LoopTypeOK'
  BY TypeSplits DEF Say, RelicTypeOK, LoopTypeOK
<1>2. CASE session # "open"
  BY <1>1, <1>2, TypeSplits DEF Say, BrokerTypeOK, boundVars
<1>3. CASE session = "open"
  <2>1. shown' \in Shown
    BY <1>3, TypeSplits, ActualIsShown DEF Say, say, BrokerTypeOK, RelicTypeOK
  <2>2. subscribed' \subseteq Topics /\ retained' \subseteq {"config", "online"}
    BY <1>3, TypeSplits DEF Say, say, BrokerTypeOK
  <2> QED BY <1>1, <1>3, <2>1, <2>2, TypeSplits DEF Say, BrokerTypeOK, boundVars
<1> QED BY <1>2, <1>3

LEMMA DiscoveryTypes == ASSUME TypeOK, publishDiscovery PROVE TypeOK'
<1>1. BrokerTypeOK' /\ LoopTypeOK'
  BY TypeSplits DEF publishDiscovery, BrokerTypeOK, LoopTypeOK, brokerVars, boundVars
<1>2. Tail(todo) \in Seq(Steps) /\ announce \o Tail(todo) \in Seq(Steps)
  <2>1. Tail(todo) \in Seq(Steps)
    BY TypeSplits DEF publishDiscovery, RelicTypeOK
  <2> QED BY <2>1, CallsAreSteps
<1>3. relic' \in Relic
  BY TypeSplits DEF publishDiscovery, RelicTypeOK, Relic
<1>4. todo' \in Seq(Steps)
  BY <1>2 DEF publishDiscovery
<1> QED BY <1>1, <1>3, <1>4, TypeSplits DEF RelicTypeOK

LEMMA PublishedTypes == ASSUME TypeOK, Published PROVE TypeOK'
<1>1. BrokerTypeOK' /\ LoopTypeOK'
  BY TypeSplits DEF Published, BrokerTypeOK, LoopTypeOK, brokerVars, boundVars
<1>2. RelicTypeOK'
  <2>1. todo' \in Seq(Steps)
    BY TypeSplits DEF Published, RelicTypeOK
  <2>2. relic' \in Relic
    BY TypeSplits DEF Published, RelicTypeOK, Relic
  <2> QED BY <2>1, <2>2 DEF RelicTypeOK
<1> QED BY <1>1, <1>2, TypeSplits

LEMMA SetupTypes == ASSUME TypeOK, Connect \/ setHomeAssistantConfig PROVE TypeOK'
<1>1. CASE Connect
  <2>1. session' \in {session, "open", "down"} /\ (session' = "down" => session = "down")
        /\ (session' = "open" => up)
    BY <1>1, TypeSplits DEF Connect, connect, isConnected, BrokerTypeOK
  <2>2. BrokerTypeOK'
    BY <1>1, <2>1, TypeSplits DEF Connect, connect, isConnected, BrokerTypeOK, brokerVars, boundVars
  <2> QED BY <1>1, <2>2, TypeSplits DEF Connect, LoopTypeOK, RelicTypeOK
<1>2. CASE setHomeAssistantConfig
  <2>1. todo' \in Seq(Steps)
    BY <1>2, CallsAreSteps DEF setHomeAssistantConfig
  <2> QED BY <1>2, <2>1, TypeSplits
          DEF setHomeAssistantConfig, BrokerTypeOK, LoopTypeOK, RelicTypeOK, brokerVars, boundVars
<1> QED BY <1>1, <1>2

LEMMA ConnectedTypes == ASSUME TypeOK, TickConnected PROVE TypeOK'
<1>1. inbox' \in Seq(Command) /\ Len(inbox') <= MaxInbox /\ session # "down"
  BY TypeSplits, Constants DEF TickConnected, BrokerTypeOK, isConnected
<1>2. BrokerTypeOK' /\ LoopTypeOK'
  BY <1>1, TypeSplits DEF TickConnected, BrokerTypeOK, LoopTypeOK, brokerVars, boundVars
<1>3. RelicTypeOK'
  <2>1. CASE inbox = <<>>
    BY <2>1, TypeSplits DEF TickConnected, RelicTypeOK
  <2>2. CASE inbox # <<>>
    BY <2>2, TypeSplits, HandlerTypes DEF TickConnected, BrokerTypeOK, RelicTypeOK
  <2> QED BY <2>1, <2>2
<1> QED BY <1>2, <1>3, TypeSplits

LEMMA DisconnectedTypes == ASSUME TypeOK, TickDisconnected PROVE TypeOK'
<1>1. session = "down" /\ session' \in {"down", "open"} /\ (session' = "open" => up)
  BY TypeSplits DEF TickDisconnected, connect, isConnected, BrokerTypeOK
<1>2. timeSinceLastReconnect' \in 0 .. ReconnectTicks - 1
  BY TypeSplits, Constants DEF TickDisconnected, LoopTypeOK, waited
<1> QED BY <1>1, <1>2, TypeSplits
        DEF TickDisconnected, BrokerTypeOK, LoopTypeOK, RelicTypeOK, brokerVars, boundVars

LEMMA RelicLoopTypes == ASSUME TypeOK, readLink \/ tickWhileLinked \/ tick PROVE TypeOK'
<1>1. BrokerTypeOK'
  BY TypeSplits DEF readLink, tickWhileLinked, tick, BrokerTypeOK, brokerVars, boundVars
<1>2. CASE readLink
  <2>1. RelicTypeOK'
    BY <1>2, TypeSplits, NextTypes DEF readLink, RelicTypeOK
  <2> QED BY <1>1, <1>2, <2>1, TypeSplits DEF readLink, LoopTypeOK
<1>3. CASE tickWhileLinked
  <2>1. taken' \in BOOLEAN
    BY <1>3 DEF tickWhileLinked, isConnected
  <2> QED BY <1>1, <1>3, <2>1, TypeSplits DEF tickWhileLinked, LoopTypeOK, RelicTypeOK
<1>4. CASE tick
  <2>1. relic' \in Relic
    BY <1>4, TypeSplits DEF tick, RelicTypeOK, Relic, isConnected
  <2>2. todo' \in Seq(Steps)
    BY <1>4, CallsAreSteps DEF tick
  <2> QED BY <1>1, <1>4, <2>1, <2>2, TypeSplits DEF tick, LoopTypeOK, RelicTypeOK
<1> QED BY <1>2, <1>3, <1>4

LEMMA NetworkTypes == ASSUME TypeOK, Lose \/ Return \/ Notice \/ Ask PROVE TypeOK'
<1>1. RelicTypeOK' /\ LoopTypeOK'
  BY TypeSplits DEF Lose, Return, Notice, Ask, RelicTypeOK, LoopTypeOK
<1>2. CASE Lose
  <2>1. Nothing \in Shown
    BY DEF Nothing, Shown, States
  <2>2. drops' \in 0 .. MaxDrops
    BY <1>2, TypeSplits, Constants DEF Lose, BrokerTypeOK
  <2>3. shown' \in Shown /\ retained' \subseteq {"config", "online"}
    BY <1>2, <2>1, TypeSplits DEF Lose, BrokerTypeOK
  <2>4. /\ session' \in {"down", "open", "dead"} /\ session' # "open"
        /\ (session' = "down" => session = "down")
    BY <1>2, TypeSplits DEF Lose, BrokerTypeOK
  <2>5. /\ up' \in BOOLEAN /\ subscribed' = {} /\ UNCHANGED <<inbox, commands>>
    BY <1>2 DEF Lose
  <2>6. BrokerTypeOK'
    BY <2>2, <2>3, <2>4, <2>5, TypeSplits DEF BrokerTypeOK
  <2> QED BY <1>1, <2>6, TypeSplits
<1>3. CASE Return
  BY <1>1, <1>3, TypeSplits DEF Return, BrokerTypeOK, boundVars
<1>4. CASE Notice
  BY <1>1, <1>4, TypeSplits, Constants DEF Notice, BrokerTypeOK, boundVars, brokerVars
<1>5. CASE Ask
  <2>1. inbox' \in Seq(Command) /\ Len(inbox') <= MaxInbox
    BY <1>5, TypeSplits, Constants DEF Ask, BrokerTypeOK
  <2>2. commands' \in 0 .. MaxCommands
    BY <1>5, TypeSplits, Constants DEF Ask, BrokerTypeOK
  <2> QED BY <1>1, <1>5, <2>1, <2>2, TypeSplits DEF Ask, BrokerTypeOK, brokerVars
<1> QED BY <1>2, <1>3, <1>4, <1>5

LEMMA InitTypes == Init => TypeOK
<1> SUFFICES ASSUME Init PROVE BrokerTypeOK /\ LoopTypeOK /\ RelicTypeOK
  BY TypeSplits
<1>1. Nothing \in Shown
  BY DEF Nothing, Shown, States
<1>2. "noise" \in Pattern
  BY Constants DEF Pattern, patternName
<1>3. BrokerTypeOK
  BY <1>1, Constants DEF Init, BrokerTypeOK
<1>4. LoopTypeOK
  <2>1. 0 \in 0 .. ReconnectTicks - 1
    BY Constants
  <2> QED BY <2>1 DEF Init, LoopTypeOK
<1>5. RelicTypeOK
  BY <1>2, Levels DEF Init, RelicTypeOK, Relic
<1> QED BY <1>3, <1>4, <1>5

LEMMA StepKeepsTypes == TypeOK /\ [Next]_vars => TypeOK'
<1> SUFFICES ASSUME TypeOK, [Next]_vars PROVE TypeOK'
  OBVIOUS
<1>1. CASE UNCHANGED vars
  BY <1>1 DEF vars, brokerVars, boundVars, TypeOK, isConnected
<1> QED BY <1>1, SayTypes, DiscoveryTypes, PublishedTypes, SetupTypes, ConnectedTypes,
           DisconnectedTypes, RelicLoopTypes, NetworkTypes DEF Next, Loop

(* The reconnect timer never passes its interval, nothing is subscribed or  *)
(* waits at the socket without a session (mqtt_client.cpp).                 *)
THEOREM TypeCorrect == Spec => []TypeOK
  BY InitTypes, StepKeepsTypes, PTL DEF Spec

-----------------------------------------------------------------------------
(* What a call has queued. *)

In(x, s) == \E i \in 1 .. Len(s) : s[i] = x

LEMMA InConcat ==
  ASSUME NEW x, NEW s \in Seq(Steps), NEW t \in Seq(Steps), In(x, s) \/ In(x, t)
  PROVE  In(x, s \o t)
<1>1. CASE In(x, s)
  <2>1. PICK i \in 1 .. Len(s) : s[i] = x
    BY <1>1 DEF In
  <2>2. i \in 1 .. Len(s \o t) /\ (s \o t)[i] = x
    BY <2>1
  <2> QED BY <2>2 DEF In
<1>2. CASE In(x, t)
  <2>1. PICK i \in 1 .. Len(t) : t[i] = x
    BY <1>2 DEF In
  <2>2. Len(s) + i \in 1 .. Len(s \o t) /\ (s \o t)[Len(s) + i] = x
    BY <2>1
  <2> QED BY <2>2 DEF In
<1> QED BY <1>1, <1>2

LEMMA InTail ==
  ASSUME NEW x, NEW s \in Seq(Steps), s # <<>>, In(x, s), Head(s) # x
  PROVE  In(x, Tail(s))
<1>1. PICK i \in 1 .. Len(s) : s[i] = x
  BY DEF In
<1>2. i # 1 /\ i - 1 \in 1 .. Len(Tail(s)) /\ Tail(s)[i - 1] = x
  BY <1>1
<1> QED BY <1>2 DEF In

LEMMA NothingIn == \A x : ~In(x, <<>>)
  BY DEF In

LEMMA CallsSay ==
  /\ \A x \in Topics : In(x, subscribeTopics)
  /\ \A x \in {"power", "effect", "brightness"} : In(x, publishState)
  /\ In("mode", publishModeState)
  /\ In("discovery", setupMQTT \o <<"discovery">>) /\ In("discovery", <<"discovery">>)
<1>1. /\ subscribeTopics[1] = "set" /\ subscribeTopics[2] = "brightness/set"
      /\ subscribeTopics[3] = "effect/set" /\ subscribeTopics[4] = "mode/set"
      /\ Len(subscribeTopics) = 4
  BY DEF subscribeTopics
<1>2. \A x \in Topics : In(x, subscribeTopics)
  BY <1>1 DEF Topics, In
<1>3. /\ publishState[1] = "power" /\ publishState[2] = "effect"
      /\ publishState[3] = "brightness" /\ Len(publishState) = 3
      /\ publishModeState[1] = "mode" /\ Len(publishModeState) = 1
  BY DEF publishState, publishModeState
<1>4. /\ \A x \in {"power", "effect", "brightness"} : In(x, publishState)
      /\ In("mode", publishModeState)
  BY <1>3 DEF In
<1>5. In("discovery", <<"discovery">>)
  BY DEF In
<1>6. In("discovery", setupMQTT \o <<"discovery">>)
  BY <1>5, CallsAreSteps, InConcat
<1> QED BY <1>2, <1>4, <1>5, <1>6

LEMMA ModeCallSays ==
  \A x \in States : In(x, publishModeState \o publishState)
<1> SUFFICES ASSUME NEW x \in States PROVE In(x, publishModeState \o publishState)
  OBVIOUS
<1>1. In(x, publishModeState) \/ In(x, publishState)
  BY CallsSay DEF States
<1> QED BY <1>1, CallsAreSteps, InConcat

LEMMA AnnounceSaysAll ==
  ASSUME NEW t \in Seq(Steps)
  PROVE  \A x \in Said : In(x, announce \o t)
<1>1. /\ <<"config">> \in Seq(Steps) /\ <<"online">> \in Seq(Steps)
      /\ <<"published">> \in Seq(Steps)
  <2>1. "config" \in Steps /\ "online" \in Steps /\ "published" \in Steps
    BY DEF Steps, Said
  <2> QED BY <2>1
<1>2. In("config", <<"config">>) /\ In("online", <<"online">>)
  BY DEF In
<1> DEFINE a == <<"config">> \o subscribeTopics
           b == a \o <<"online">>
           c == b \o publishState
           d == c \o publishModeState
<1>3. a \in Seq(Steps) /\ b \in Seq(Steps) /\ c \in Seq(Steps) /\ d \in Seq(Steps)
  BY <1>1, CallsAreSteps
<1>4. announce = d \o <<"published">>
  BY DEF announce
<1>5. \A x \in Topics \cup {"config"} : In(x, a)
  BY <1>1, <1>2, CallsAreSteps, CallsSay, InConcat
<1> HIDE DEF a
<1>6. \A x \in Topics \cup {"config", "online"} : In(x, b)
  BY <1>1, <1>2, <1>3, <1>5, InConcat
<1> HIDE DEF b
<1>7. \A x \in Topics \cup {"config", "online", "power", "effect", "brightness"} : In(x, c)
  BY <1>3, <1>6, CallsAreSteps, CallsSay, InConcat
<1> HIDE DEF c
<1>8. \A x \in Said : In(x, d)
  BY <1>3, <1>7, CallsAreSteps, CallsSay, InConcat DEF Said, States
<1> HIDE DEF d
<1>9. \A x \in Said : In(x, announce)
  BY <1>1, <1>3, <1>4, <1>8, InConcat
<1> QED BY <1>9, CallsAreSteps, InConcat

-----------------------------------------------------------------------------
(* The inductive invariant of SaidAgain.                                    *)

(* The broker knows x as it is. *)
Told(x) == /\ x \in Topics => x \in subscribed
           /\ x \in {"config", "online"} => x \in retained
           /\ x \in States => shown[x] = Actual[x]

(* The relic's tick has yet to see this session, and will before the loop   *)
(* is done.                                                                 *)
Unseen == ~relic.bWasConnected /\ (phase = "client" => owned)

SaysAll == \A x \in Said : Told(x) \/ In(x, todo)

Covered == session = "open" /\ ~taken => Unseen \/ In("discovery", todo) \/ SaysAll

(* While the client waits, a tick of the relic has seen the session gone    *)
(* before a second tick of the client can open another.                     *)
Waits ==
    /\ session # "down" => timeSinceLastReconnect = 0
    /\ phase = "client" /\ session = "down" /\ timeSinceLastReconnect > 0
         => taken \/ ~relic.bWasConnected
    /\ phase \in {"connect", "configure"}
         => timeSinceLastReconnect = 0 /\ ~relic.bWasConnected

Inv == TypeOK /\ Waits /\ Covered

LEMMA WaitsStep == ASSUME TypeOK, TypeOK', Waits, [Next]_vars PROVE Waits'
<1>0. timeSinceLastReconnect \in Nat /\ session \in {"down", "open", "dead"} /\ taken \in BOOLEAN
  BY Constants, TypeSplits DEF LoopTypeOK, BrokerTypeOK
<1>1. CASE UNCHANGED vars \/ Say \/ setHomeAssistantConfig \/ Lose \/ Return \/ Ask
  BY <1>0, <1>1 DEF Waits, vars, brokerVars, boundVars, Say, setHomeAssistantConfig, Lose,
                    Return, Ask, At
<1>2. CASE publishDiscovery \/ Published
  <2>1. relic'.bWasConnected = relic.bWasConnected
    BY <1>2, TypeSplits DEF publishDiscovery, Published, RelicTypeOK, Relic
  <2> QED BY <1>2, <2>1 DEF Waits, publishDiscovery, Published
<1>3. CASE Connect
  BY <1>0, <1>3 DEF Waits, Connect, At
<1>4. CASE TickConnected
  BY <1>0, <1>4 DEF Waits, TickConnected, At, isConnected
<1>5. CASE TickDisconnected
  BY <1>0, <1>5, Constants DEF Waits, TickDisconnected, At, isConnected, connect, waited
<1>6. CASE readLink
  BY <1>0, <1>6 DEF Waits, readLink, At
<1>7. CASE tickWhileLinked
  BY <1>0, <1>7 DEF Waits, tickWhileLinked, At, isConnected
<1>8. CASE tick
  <2>1. relic'.bWasConnected = isConnected
    BY <1>8, TypeSplits DEF tick, RelicTypeOK, Relic
  <2> QED BY <1>0, <1>8, <2>1 DEF Waits, tick, At, isConnected
<1>9. CASE Notice
  BY <1>0, <1>9 DEF Waits, Notice, brokerVars
<1> QED BY <1>1, <1>2, <1>3, <1>4, <1>5, <1>6, <1>7, <1>8, <1>9 DEF Next, Loop

-----------------------------------------------------------------------------
(* Covered, one step at a time. *)

(* Whatever leaves the relic's three fields alone leaves what it would say. *)
LEMMA ActualKept ==
  ASSUME relic'.bPowerOn = relic.bPowerOn, relic'.currentPattern = relic.currentPattern,
         relic'.currentBrightness = relic.currentBrightness
  PROVE  Actual' = Actual
  BY DEF Actual

LEMMA SayCovered == ASSUME TypeOK, Covered, Say PROVE Covered'
<1> SUFFICES ASSUME session = "open", ~taken
             PROVE  (Unseen \/ In("discovery", todo) \/ SaysAll)'
  BY DEF Say, Covered
<1>1. todo \in Seq(Steps) /\ todo # <<>> /\ Head(todo) \in Said /\ todo' = Tail(todo)
  BY TypeSplits DEF Say, RelicTypeOK
<1>2. CASE Unseen
  BY <1>2 DEF Unseen, Say
<1>3. CASE In("discovery", todo)
  <2>1. Head(todo) # "discovery"
    BY <1>1 DEF Said, Topics, States
  <2> QED BY <1>1, <1>3, <2>1, InTail
<1>4. CASE SaysAll
  <2>1. say(Head(todo)) /\ Actual' = Actual
    BY DEF Say, Actual
  <2>2. shown \in Shown
    BY TypeSplits DEF BrokerTypeOK
  <2>3. \A x \in Said : Told(x) \/ x = Head(todo) => Told(x)'
    BY <1>1, <2>1, <2>2 DEF Told, say, Shown, States
  <2>4. \A x \in Said : In(x, todo) /\ x # Head(todo) => In(x, todo')
    BY <1>1, InTail
  <2>5. SaysAll'
    BY <1>4, <2>3, <2>4 DEF SaysAll
  <2> QED BY <2>5
<1> QED BY <1>2, <1>3, <1>4 DEF Covered

LEMMA DiscoveryCovered == ASSUME TypeOK, Covered, publishDiscovery PROVE Covered'
<1>1. CASE session = "open"
  <2>1. Tail(todo) \in Seq(Steps) /\ todo' = announce \o Tail(todo)
    BY <1>1, TypeSplits DEF publishDiscovery, RelicTypeOK, isConnected
  <2>2. \A x \in Said : In(x, todo')
    BY <2>1, AnnounceSaysAll
  <2>3. SaysAll'
    BY <2>2 DEF SaysAll
  <2> QED BY <2>3 DEF Covered
<1>2. CASE session # "open"
  BY <1>2 DEF publishDiscovery, Covered
<1> QED BY <1>1, <1>2

LEMMA PublishedCovered == ASSUME TypeOK, Covered, Published PROVE Covered'
<1> SUFFICES ASSUME session = "open", ~taken
             PROVE  (Unseen \/ In("discovery", todo) \/ SaysAll)'
  BY DEF Published, Covered
<1>1. /\ todo \in Seq(Steps) /\ todo # <<>> /\ Head(todo) = "published"
      /\ todo' = Tail(todo)
  BY TypeSplits DEF Published, RelicTypeOK
<1>2. /\ relic'.bWasConnected = relic.bWasConnected
      /\ relic'.bPowerOn = relic.bPowerOn /\ relic'.currentPattern = relic.currentPattern
      /\ relic'.currentBrightness = relic.currentBrightness
  BY TypeSplits DEF Published, RelicTypeOK, Relic
<1>3. CASE Unseen
  BY <1>2, <1>3 DEF Unseen, Published
<1>4. CASE In("discovery", todo)
  BY <1>1, <1>4, InTail
<1>5. CASE SaysAll
  <2>1. "published" \notin Said
    BY DEF Said, Topics, States
  <2>2. Actual' = Actual
    BY <1>2, ActualKept
  <2>3. \A x \in Said : (Told(x) => Told(x)') /\ (In(x, todo) => In(x, todo'))
    BY <1>1, <2>1, <2>2, InTail DEF Told, Published, brokerVars
  <2>4. SaysAll'
    BY <1>5, <2>3 DEF SaysAll
  <2> QED BY <2>4
<1> QED BY <1>3, <1>4, <1>5 DEF Covered

LEMMA SetupCovered == ASSUME TypeOK, Waits, Connect \/ setHomeAssistantConfig PROVE Covered'
<1>1. CASE Connect
  <2>1. Unseen'
    BY <1>1 DEF Connect, At, Waits, Unseen
  <2> QED BY <2>1 DEF Covered
<1>2. CASE setHomeAssistantConfig
  <2>1. In("discovery", todo')
    BY <1>2, CallsSay DEF setHomeAssistantConfig
  <2> QED BY <2>1 DEF Covered
<1> QED BY <1>1, <1>2

(* A handler says again whatever it changed. *)
LEMMA SetPatternSays ==
  ASSUME relic \in Relic, NEW p \in Pattern, setPattern(p)
  PROVE  \A x \in States : In(x, todo')
  BY ModeCallSays DEF setPattern

LEMMA NextSays ==
  ASSUME relic \in Relic, next
  PROVE  \A x \in States : In(x, todo')
<1>1. PICK i \in 1 .. Patterns : setPattern(patternName[(i % Patterns) + 1])
  BY DEF next
<1>2. (i % Patterns) + 1 \in 1 .. Patterns
  BY Constants
<1> QED BY <1>1, <1>2, PatternNames, SetPatternSays

LEMMA HandlerSays ==
  ASSUME relic \in Relic, NEW m \in Command, handleMessage(m)
  PROVE  \A x \in States : In(x, todo') \/ Actual'[x] = Actual[x]
<1>1. CASE m.topic \in {"set", "brightness/set"}
  <2>1. todo' = publishState /\ relic'.currentPattern = relic.currentPattern
    BY <1>1 DEF handleMessage, onPowerCommand, onBrightnessCommand, Relic
  <2>2. Actual'["mode"] = Actual["mode"]
    BY <2>1 DEF Actual
  <2> QED BY <2>1, <2>2, CallsSay DEF States
<1>2. CASE m.topic \notin {"set", "brightness/set"}
  BY <1>2, SetPatternSays DEF handleMessage, Command
<1> QED BY <1>1, <1>2

(* A step that leaves the broker alone and queues what it changes, begun    *)
(* with nothing queued.                                                     *)
LEMMA HandlerKeepsSaysAll ==
  ASSUME SaysAll, todo = <<>>, UNCHANGED brokerVars,
         \A x \in States : In(x, todo') \/ Actual'[x] = Actual[x]
  PROVE  SaysAll'
<1>1. \A x \in Said : Told(x)
  BY NothingIn DEF SaysAll
<1>2. \A x \in Said : Told(x)' \/ In(x, todo')
  BY <1>1 DEF Told, brokerVars
<1> QED BY <1>2 DEF SaysAll

LEMMA ConnectedCovered == ASSUME TypeOK, Covered, TickConnected PROVE Covered'
<1> SUFFICES ASSUME session = "open", ~taken
             PROVE  (Unseen \/ In("discovery", todo) \/ SaysAll)'
  BY DEF TickConnected, Covered
<1>1. relic \in Relic /\ inbox \in Seq(Command) /\ todo = <<>> /\ UNCHANGED brokerVars
  BY TypeSplits DEF TickConnected, RelicTypeOK, BrokerTypeOK, At
<1>2. ~In("discovery", todo)
  BY <1>1, NothingIn
<1>3. CASE inbox = <<>>
  <2>1. UNCHANGED <<relic, todo>> /\ phase' = "link"
    BY <1>3 DEF TickConnected
  <2>2. \A x \in States : Actual'[x] = Actual[x]
    BY <2>1 DEF Actual
  <2>3. SaysAll => SaysAll'
    BY <1>1, <2>2, HandlerKeepsSaysAll
  <2>4. Unseen => Unseen'
    BY <2>1 DEF Unseen
  <2> QED BY <1>2, <2>3, <2>4 DEF Covered
<1>4. CASE inbox # <<>>
  <2>1. Head(inbox) \in Command /\ handleMessage(Head(inbox)) /\ phase' = "link"
    BY <1>1, <1>4 DEF TickConnected
  <2>2. relic'.bWasConnected = relic.bWasConnected
    BY <1>1, <2>1, HandlerTypes
  <2>3. \A x \in States : In(x, todo') \/ Actual'[x] = Actual[x]
    BY <1>1, <2>1, HandlerSays
  <2>4. SaysAll => SaysAll'
    BY <1>1, <2>3, HandlerKeepsSaysAll
  <2>5. Unseen => Unseen'
    BY <2>1, <2>2 DEF Unseen
  <2> QED BY <1>2, <2>4, <2>5 DEF Covered
<1> QED BY <1>3, <1>4

LEMMA DisconnectedCovered == ASSUME TypeOK, Waits, TickDisconnected PROVE Covered'
<1> SUFFICES ASSUME session' = "open", ~taken'
             PROVE  Unseen'
  BY DEF Covered
<1>1. session = "down" /\ phase = "client" /\ phase' = "link"
  BY TypeSplits DEF TickDisconnected, BrokerTypeOK, isConnected, At
<1>2. timeSinceLastReconnect > 0
  BY <1>1, TypeSplits, Constants DEF TickDisconnected, LoopTypeOK, waited
<1>3. UNCHANGED <<relic, taken>>
  BY DEF TickDisconnected, boundVars
<1> QED BY <1>1, <1>2, <1>3 DEF Waits, Unseen

LEMMA ReadLinkCovered == ASSUME TypeOK, Covered, readLink PROVE Covered'
<1> SUFFICES ASSUME session = "open", ~taken
             PROVE  (Unseen \/ In("discovery", todo) \/ SaysAll)'
  BY DEF readLink, Covered
<1>1. relic \in Relic /\ todo = <<>> /\ UNCHANGED brokerVars /\ phase' = "core"
  BY TypeSplits DEF readLink, RelicTypeOK, At
<1>2. ~In("discovery", todo)
  BY <1>1, NothingIn
<1>3. CASE UNCHANGED <<relic, todo>>
  <2>1. \A x \in States : Actual'[x] = Actual[x]
    BY <1>3 DEF Actual
  <2>2. SaysAll => SaysAll'
    BY <1>1, <2>1, HandlerKeepsSaysAll
  <2>3. Unseen => Unseen'
    BY <1>1, <1>3 DEF Unseen
  <2> QED BY <1>2, <2>2, <2>3 DEF Covered
<1>4. CASE next
  <2>1. relic'.bWasConnected = relic.bWasConnected
    BY <1>1, <1>4, NextTypes
  <2>2. \A x \in States : In(x, todo')
    BY <1>1, <1>4, NextSays
  <2>3. SaysAll => SaysAll'
    BY <1>1, <2>2, HandlerKeepsSaysAll
  <2>4. Unseen => Unseen'
    BY <1>1, <2>1 DEF Unseen
  <2> QED BY <1>2, <2>3, <2>4 DEF Covered
<1> QED BY <1>3, <1>4 DEF readLink

LEMMA OwnedCovered == ASSUME TypeOK, Covered, tickWhileLinked PROVE Covered'
<1> SUFFICES ASSUME session = "open", ~taken
             PROVE  (Unseen \/ In("discovery", todo) \/ SaysAll)'
  BY DEF tickWhileLinked, Covered, isConnected
<1>1. /\ todo = <<>> /\ UNCHANGED <<brokerVars, relic, owned, todo>>
      /\ owned
  BY DEF tickWhileLinked, At
<1>2. ~In("discovery", todo)
  BY <1>1, NothingIn
<1>3. \A x \in States : Actual'[x] = Actual[x]
  BY <1>1 DEF Actual
<1>4. SaysAll => SaysAll'
  BY <1>1, <1>3, HandlerKeepsSaysAll
<1>5. Unseen => Unseen'
  BY <1>1 DEF Unseen
<1> QED BY <1>2, <1>4, <1>5 DEF Covered

LEMMA TickCovered == ASSUME TypeOK, Covered, tick PROVE Covered'
<1> SUFFICES ASSUME session = "open", ~taken
             PROVE  (Unseen \/ In("discovery", todo) \/ SaysAll)'
  BY DEF tick, Covered
<1>1. relic \in Relic /\ todo = <<>> /\ UNCHANGED brokerVars /\ ~owned /\ phase = "core"
  BY TypeSplits DEF tick, RelicTypeOK, At
<1>2. CASE relic.bWasConnected /\ relic.bDiscoveryPublished
  <2>1. SaysAll
    BY <1>1, <1>2, NothingIn DEF Covered, Unseen
  <2>2. \A x \in States : Actual'[x] = Actual[x]
    BY <1>1 DEF tick, Relic, Actual
  <2>3. SaysAll'
    BY <1>1, <2>1, <2>2, HandlerKeepsSaysAll
  <2> QED BY <2>3
<1>3. CASE ~(relic.bWasConnected /\ relic.bDiscoveryPublished)
  <2>1. todo' = <<"discovery">>
    BY <1>1, <1>3 DEF tick, isConnected
  <2> QED BY <2>1, CallsSay
<1> QED BY <1>2, <1>3

LEMMA NetworkCovered == ASSUME TypeOK, Covered, Lose \/ Return \/ Notice \/ Ask PROVE Covered'
<1>1. CASE Lose
  <2>1. session' # "open"
    BY <1>1 DEF Lose
  <2> QED BY <2>1 DEF Covered
<1>2. CASE Notice
  <2>1. session' # "open"
    BY <1>2 DEF Notice
  <2> QED BY <2>1 DEF Covered
<1>3. CASE Return \/ Ask
  <2>1. UNCHANGED <<session, subscribed, retained, shown, relic, owned, phase, todo, taken>>
    BY <1>3 DEF Return, Ask, brokerVars, boundVars
  <2> QED BY <2>1 DEF Covered, Unseen, SaysAll, Told, In, Actual
<1> QED BY <1>1, <1>2, <1>3

LEMMA StepKeepsInv == Inv /\ [Next]_vars => Inv'
<1> SUFFICES ASSUME Inv, [Next]_vars PROVE Inv'
  OBVIOUS
<1>1. TypeOK /\ Waits /\ Covered
  BY DEF Inv
<1>2. TypeOK'
  BY <1>1, StepKeepsTypes
<1>3. Waits'
  BY <1>1, <1>2, WaitsStep
<1>4. Covered'
  <2>1. CASE UNCHANGED vars
    BY <1>1, <2>1 DEF vars, brokerVars, Covered, Unseen, SaysAll, Told, In, Actual
  <2> QED BY <1>1, <2>1, SayCovered, DiscoveryCovered, PublishedCovered, SetupCovered,
             ConnectedCovered, DisconnectedCovered, ReadLinkCovered, OwnedCovered,
             TickCovered, NetworkCovered DEF Next, Loop
<1> QED BY <1>2, <1>3, <1>4 DEF Inv

LEMMA InitInv == Init => Inv
<1> SUFFICES ASSUME Init PROVE Waits /\ Covered
  BY InitTypes DEF Inv
<1> QED BY DEF Init, Waits, Covered

(* With nothing queued the relic is known as it is. *)
LEMMA InvSaid == Inv => SaidAgain
<1> SUFFICES ASSUME Inv, LoopDone, session = "open", ~taken PROVE Known
  BY DEF SaidAgain
<1>1. todo = <<>> /\ phase = "client" /\ ~owned
  BY DEF LoopDone, At
<1>2. \A x \in Said : Told(x)
  BY <1>1, NothingIn DEF Inv, Covered, Unseen, SaysAll
<1>3. subscribed \subseteq Topics /\ retained \subseteq {"config", "online"} /\ shown \in Shown
  BY TypeSplits DEF Inv, BrokerTypeOK
<1>4. subscribed = Topics /\ retained = {"config", "online"}
  BY <1>2, <1>3 DEF Told, Said
<1>5. /\ shown.power = Actual.power /\ shown.effect = Actual.effect
      /\ shown.brightness = Actual.brightness /\ shown.mode = Actual.mode
  BY <1>2 DEF Told, Said, States
<1>6. shown = Actual
  BY <1>3, <1>5 DEF Shown, Actual
<1> QED BY <1>4, <1>6 DEF Known

(* After every loop of its own over a session that carries, the relic is    *)
(* subscribed, announced and shown as it is, wherever a connection was lost *)
(* before, unless a takeover hid the loss from its tick (WhiteboardCore).   *)
THEOREM SaidAgainHolds == Spec => []SaidAgain
  BY InitInv, StepKeepsInv, InvSaid, PTL DEF Spec
=============================================================================
