----------------------------- MODULE Whiteboard -----------------------------
(***************************************************************************)
(* The whiteboard on the wall and Home Assistant: the MQTT client and its  *)
(* reconnects (lib/src/emqtt/mqtt_client.cpp), the relic's handlers and    *)
(* announcements (src/relics/todoist_whiteboard), and the loop they share  *)
(* with the desk's link, which may take the pixels at any time.            *)
(*                                                                         *)
(* One loop is the client's tick, the read of the link with its commands,  *)
(* and the relic's own tick unless the desk owns the pixels.  Everything   *)
(* the loop says to the broker goes out one packet at a time, each with no *)
(* effect when the session is gone.  The connection can go at any point of *)
(* it; the client believes in it until its library notices.                *)
(***************************************************************************)
EXTENDS Naturals, Sequences

CONSTANTS
    Patterns,         (* the patterns in use, at most WhiteboardPattern::MAX *)
    ReconnectTicks,   (* reconnectInterval, in ticks of the client *)
    MaxDrops,         (* bound: connections lost *)
    MaxCommands,      (* bound: commands of Home Assistant *)
    MaxInbox          (* bound: packets waiting at the relic's socket *)

ASSUME WhiteboardAssumption ==
    /\ Patterns \in 1 .. 4
    /\ ReconnectTicks \in Nat \ {0, 1}
    /\ MaxDrops \in Nat /\ MaxCommands \in Nat /\ MaxInbox \in Nat

VARIABLES
    up,                (* the broker and Home Assistant can be reached *)
    session,           (* "down", "open", or "dead": lost, and not yet noticed *)
    subscribed,        (* the topics of this session *)
    retained,          (* what the broker holds of the device *)
    shown,             (* what Home Assistant shows of the light and the select *)
    inbox,             (* packets waiting at the relic's socket *)
    timeSinceLastReconnect,
    relic,             (* the fields of WhiteboardCore, and the light it drives *)
    owned,             (* RelicLink::ownsPixels at this loop *)
    phase,             (* what the sketch does next *)
    todo,              (* the packets of the running call still to be said *)
    drops, commands,   (* *bounds* *)
    taken              (* *history*: the desk had a loop's pixels while the
                          client knew it was not connected *)

brokerVars == <<up, subscribed, retained, shown>>
boundVars == <<drops, commands>>
vars == <<brokerVars, session, inbox, timeSinceLastReconnect, relic, owned,
          phase, todo, boundVars, taken>>

(* WhiteboardPattern by its names, and EBrightness by the levels in use.    *)
patternName == <<"noise", "monocolor", "rainbow", "fire">>
Pattern == {patternName[i] : i \in 1 .. Patterns}
EBrightness == {"NIGHTTRIP", "MIN", "MED", "HIGH"}
Unknown == "unknown"

(* The topics the relic listens on.  The three older names have the same    *)
(* handlers and are left out.                                               *)
Topics == {"set", "brightness/set", "effect/set", "mode/set"}
Command == [topic : {"set"}, payload : {"ON", "OFF"}]
              \cup [topic : {"brightness/set"}, payload : {"MIN", "MED", "HIGH"}]
              \cup [topic : {"effect/set", "mode/set"}, payload : Pattern]

States == {"power", "effect", "brightness", "mode"}
Said == Topics \cup {"config", "online"} \cup States
Steps == Said \cup {"discovery", "published"}

Shown == [power : {"ON", "OFF", Unknown}, effect : Pattern \cup {Unknown},
          brightness : EBrightness \cup {Unknown}, mode : Pattern \cup {Unknown}]
Nothing == [s \in States |-> Unknown]

(* What the relic would say of its own state. *)
Actual == [power |-> IF relic.bPowerOn THEN "ON" ELSE "OFF", effect |-> relic.currentPattern,
           brightness |-> relic.currentBrightness, mode |-> relic.currentPattern]

isConnected == session # "down"

TypeOK ==
    /\ up \in BOOLEAN
    /\ session \in {"down", "open", "dead"}
    /\ subscribed \subseteq Topics
    /\ retained \subseteq {"config", "online"}
    /\ shown \in Shown
    /\ inbox \in Seq(Command) /\ Len(inbox) <= MaxInbox
    /\ timeSinceLastReconnect \in 0 .. ReconnectTicks - 1
    /\ relic \in [currentPattern : Pattern, bPowerOn : BOOLEAN,
                  currentBrightness : EBrightness,
                  bDiscoveryPublished : BOOLEAN, bWasConnected : BOOLEAN]
    /\ owned \in BOOLEAN
    /\ phase \in {"connect", "configure", "client", "link", "core"}
    /\ todo \in Seq(Steps)
    /\ drops \in 0 .. MaxDrops /\ commands \in 0 .. MaxCommands
    /\ taken \in BOOLEAN
    /\ session = "open" => up
    /\ subscribed # {} => session = "open"
    /\ inbox # <<>> => isConnected

Init ==
    /\ up \in BOOLEAN
    /\ session = "down" /\ subscribed = {} /\ retained = {} /\ shown = Nothing
    /\ inbox = <<>> /\ timeSinceLastReconnect = 0
    /\ relic = [currentPattern |-> "noise", bPowerOn |-> TRUE, currentBrightness |-> "HIGH",
                bDiscoveryPublished |-> FALSE, bWasConnected |-> FALSE]
    /\ owned = FALSE /\ phase = "connect" /\ todo = <<>>
    /\ drops = 0 /\ commands = 0 /\ taken = FALSE

-----------------------------------------------------------------------------
(* What the calls of the relic say, in order. *)

subscribeTopics == <<"set", "brightness/set", "effect/set", "mode/set">>
publishState == <<"power", "effect", "brightness">>
publishModeState == <<"mode">>
setupMQTT == subscribeTopics

(* The rest of publishDiscovery, once it has found a connection. *)
announce == <<"config">> \o subscribeTopics \o <<"online">>
               \o publishState \o publishModeState \o <<"published">>

(* MqttClient::connect: a clean session, so nothing is subscribed, and the  *)
(* client has no topics of its own to subscribe.                            *)
connect == session' = IF isConnected THEN session ELSE IF up THEN "open" ELSE "down"

(* One step of the running call.  The broker hears a packet only over a     *)
(* session that still carries.                                              *)
say(s) ==
    /\ subscribed' = IF s \in Topics THEN subscribed \cup {s} ELSE subscribed
    /\ retained' = IF s \in {"config", "online"} THEN retained \cup {s} ELSE retained
    /\ shown' = IF s \in States THEN [shown EXCEPT ![s] = Actual[s]] ELSE shown

Say ==
    /\ todo # <<>> /\ Head(todo) \in Said
    /\ IF session = "open" THEN say(Head(todo))
                           ELSE UNCHANGED <<subscribed, retained, shown>>
    /\ todo' = Tail(todo)
    /\ UNCHANGED <<up, session, inbox, timeSinceLastReconnect, relic, owned,
                   phase, boundVars, taken>>

publishDiscovery ==
    /\ todo # <<>> /\ Head(todo) = "discovery"
    /\ IF isConnected
         THEN todo' = announce \o Tail(todo) /\ UNCHANGED relic
         ELSE todo' = Tail(todo) /\ relic' = [relic EXCEPT !.bDiscoveryPublished = FALSE]
    /\ UNCHANGED <<brokerVars, session, inbox, timeSinceLastReconnect, owned,
                   phase, boundVars, taken>>

Published ==
    /\ todo # <<>> /\ Head(todo) = "published"
    /\ relic' = [relic EXCEPT !.bDiscoveryPublished = TRUE]
    /\ todo' = Tail(todo)
    /\ UNCHANGED <<brokerVars, session, inbox, timeSinceLastReconnect, owned,
                   phase, boundVars, taken>>

At(p) == phase = p /\ todo = <<>>

-----------------------------------------------------------------------------
(* setup() of the sketch. *)

Connect ==
    /\ At("connect")
    /\ connect
    /\ phase' = "configure"
    /\ UNCHANGED <<brokerVars, inbox, timeSinceLastReconnect, relic, owned, todo,
                   boundVars, taken>>

setHomeAssistantConfig ==
    /\ At("configure")
    /\ todo' = setupMQTT \o <<"discovery">>
    /\ phase' = "client"
    /\ UNCHANGED <<brokerVars, session, inbox, timeSinceLastReconnect, relic, owned,
                   boundVars, taken>>

-----------------------------------------------------------------------------
(* MqttClient::tick, and the handler of the one packet its library takes.   *)

setPattern(p) == /\ relic' = [relic EXCEPT !.currentPattern = p]
                 /\ todo' = publishModeState \o publishState

(* The `next` command of the link and the console. *)
next == \E i \in 1 .. Patterns : /\ relic.currentPattern = patternName[i]
                                 /\ setPattern(patternName[(i % Patterns) + 1])

onPowerCommand(on) ==
    /\ relic' = [relic EXCEPT !.bPowerOn = on,
                              !.currentBrightness = IF on THEN "HIGH" ELSE "NIGHTTRIP"]
    /\ todo' = publishState

onBrightnessCommand(b) == /\ relic' = [relic EXCEPT !.currentBrightness = b]
                          /\ todo' = publishState

handleMessage(m) ==
    CASE m.topic = "set"            -> onPowerCommand(m.payload = "ON")
      [] m.topic = "brightness/set" -> onBrightnessCommand(m.payload)
      [] OTHER                      -> setPattern(m.payload)

TickConnected ==
    /\ At("client") /\ isConnected
    /\ IF inbox = <<>> THEN UNCHANGED <<inbox, relic, todo>>
                       ELSE handleMessage(Head(inbox)) /\ inbox' = Tail(inbox)
    /\ phase' = "link"
    /\ UNCHANGED <<brokerVars, session, timeSinceLastReconnect, owned, boundVars, taken>>

(* The wait of the client, and what it does when the wait is over. *)
waited == timeSinceLastReconnect + 1

(* Mutant: the timer is not put back before the next wait. *)
TickDisconnected_TimerRuns ==
    /\ At("client") /\ ~isConnected
    /\ timeSinceLastReconnect' = waited
    /\ IF waited >= ReconnectTicks THEN connect ELSE UNCHANGED session
    /\ phase' = "link"
    /\ UNCHANGED <<brokerVars, inbox, relic, owned, todo, boundVars, taken>>

(* Mutant: the client reconnects in the very tick that finds it not         *)
(* connected, so the relic's tick never sees a client that is not.          *)
TickDisconnected_AtOnce ==
    /\ At("client") /\ ~isConnected
    /\ connect
    /\ phase' = "link"
    /\ UNCHANGED <<brokerVars, inbox, timeSinceLastReconnect, relic, owned, todo,
                   boundVars, taken>>

(* Mutant: the wait is begun again on every tick without a connection. *)
TickDisconnected_WaitRestarts ==
    /\ At("client") /\ ~isConnected
    /\ timeSinceLastReconnect' = 0
    /\ IF timeSinceLastReconnect >= ReconnectTicks THEN connect ELSE UNCHANGED session
    /\ phase' = "link"
    /\ UNCHANGED <<brokerVars, inbox, relic, owned, todo, boundVars, taken>>

TickDisconnected ==
    /\ At("client") /\ ~isConnected
    /\ IF waited >= ReconnectTicks
         THEN timeSinceLastReconnect' = 0 /\ connect
         ELSE timeSinceLastReconnect' = waited /\ UNCHANGED session
    /\ phase' = "link"
    /\ UNCHANGED <<brokerVars, inbox, relic, owned, todo, boundVars, taken>>

-----------------------------------------------------------------------------
(* RelicCore::runTick: the link first (RelicLink), then its commands, then  *)
(* the relic's own tick or, while the desk has the pixels, nothing.         *)

readLink ==
    /\ At("link")
    /\ owned' \in BOOLEAN
    /\ phase' = "core"
    /\ \/ UNCHANGED <<relic, todo>>
       \/ next
    /\ UNCHANGED <<brokerVars, session, inbox, timeSinceLastReconnect, boundVars, taken>>

tickWhileLinked ==
    /\ At("core") /\ owned
    /\ phase' = "client"
    /\ taken' = (taken \/ ~isConnected)
    /\ UNCHANGED <<brokerVars, session, inbox, timeSinceLastReconnect, relic, owned,
                   todo, boundVars>>

(* A reconnect is a new session: say it all again. *)
tick ==
    LET connected == isConnected
        known == relic.bDiscoveryPublished /\ (connected => relic.bWasConnected)
    IN /\ At("core") /\ ~owned
       /\ relic' = [relic EXCEPT !.bDiscoveryPublished = known, !.bWasConnected = connected]
       /\ todo' = IF connected /\ ~known THEN <<"discovery">> ELSE <<>>
       /\ phase' = "client"
       /\ UNCHANGED <<brokerVars, session, inbox, timeSinceLastReconnect, owned,
                      boundVars, taken>>

-----------------------------------------------------------------------------
(* The network, the broker and Home Assistant.  A connection lost may take  *)
(* the broker's memory and Home Assistant's with it.                        *)

Lose ==
    /\ up /\ drops < MaxDrops
    /\ up' = FALSE
    /\ session' = IF session = "open" THEN "dead" ELSE session
    /\ subscribed' = {}
    /\ \/ UNCHANGED <<retained, shown>>
       \/ retained' = {} /\ shown' = Nothing
    /\ drops' = drops + 1
    /\ UNCHANGED <<inbox, timeSinceLastReconnect, relic, owned, phase, todo, commands, taken>>

Return ==
    /\ ~up
    /\ up' = TRUE
    /\ UNCHANGED <<session, subscribed, retained, shown, inbox, timeSinceLastReconnect,
                   relic, owned, phase, todo, boundVars, taken>>

(* The library finds the socket closed, or a ping unanswered. *)
Notice ==
    /\ session = "dead"
    /\ session' = "down" /\ inbox' = <<>>
    /\ taken' = FALSE
    /\ UNCHANGED <<brokerVars, timeSinceLastReconnect, relic, owned, phase, todo, boundVars>>

(* A command published on a topic of the session.  On any other topic it    *)
(* reaches nobody.                                                          *)
Ask ==
    /\ session = "open" /\ commands < MaxCommands /\ Len(inbox) < MaxInbox
    /\ \E c \in Command : c.topic \in subscribed /\ inbox' = Append(inbox, c)
    /\ commands' = commands + 1
    /\ UNCHANGED <<brokerVars, session, timeSinceLastReconnect, relic, owned, phase,
                   todo, drops, taken>>

Loop == \/ Say \/ publishDiscovery \/ Published
        \/ Connect \/ setHomeAssistantConfig
        \/ TickConnected \/ TickDisconnected
        \/ readLink \/ tickWhileLinked \/ tick

Next == Loop \/ Lose \/ Return \/ Notice \/ Ask

Spec == Init /\ [][Next]_vars

(* The sketch loops for ever, and the library's keep-alive finds every dead *)
(* connection in the end.  Nobody owes the desk's releasing the pixels.     *)
FairSpec == Spec /\ WF_vars(Loop) /\ WF_vars(Notice)

-----------------------------------------------------------------------------
(* The relic as the broker and Home Assistant should know it. *)
Known == /\ subscribed = Topics
         /\ retained = {"config", "online"}
         /\ shown = Actual

(* At the end of a loop that the relic's own tick ran. *)
LoopDone == At("client") /\ ~owned

(* After every loop of its own, over a session that still carries, the relic *)
(* is subscribed to all its topics, announced, and shown as it is, whatever  *)
(* was lost before and wherever: provided no takeover hid the lost session   *)
(* from the relic's tick.                                                    *)
SaidAgain == LoopDone /\ session = "open" /\ ~taken => Known

(* Once the broker stays reachable the relic gets a session and keeps it,    *)
(* and from then on is subscribed to its topics, unless the desk holds the   *)
(* pixels or held them while the session was down.                           *)
Reconnects == <>[]up => <>[](session = "open" /\ (subscribed = Topics \/ owned \/ taken))

(* What the comment on WhiteboardCore::tick says of every reconnect, with no *)
(* word of the desk: the relic is known again after a loop of its own.       *)
(* "Before this, one WiFi blip on the wall and HA could see the lights but   *)
(* never reach them again."                                                  *)
Reachable == LoopDone /\ session = "open" => Known

=============================================================================
