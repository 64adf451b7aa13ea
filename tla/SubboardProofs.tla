----------------------------- MODULE SubboardProofs -----------------------------
(***************************************************************************)
(* Proofs about the sub-board: SubboardLink for any delays, any number of  *)
(* waiting events and any number of faults, then SubboardSampling for any  *)
(* number of channels, any readings and limits, and any number of commands *)
(* and losses, and Firmware, which implements them both.                   *)
(***************************************************************************)
EXTENDS Firmware, SequenceTheorems, TLAPS

MainPcs == {"connect", "flag", "start", "done"}
HandlerPcs == {"idle", "stop", "notify", "reset"}
BackoffPcs == {"wait", "choose", "delay", "double", "store", "compare", "cap"}
MqttPcs == {"idle", "connected", "subscribe", "status", "disconnected"}
Pcs == [main : MainPcs, handler : HandlerPcs, backoff : BackoffPcs, mqtt : MqttPcs]

\* What a step of one task does to the four program counters.
LEMMA StepMain ==
  ASSUME pc \in Pcs, NEW f, NEW t \in MainPcs, Step("main", f, t)
  PROVE  /\ pc.main = f /\ pc' \in Pcs /\ pc'.main = t
         /\ pc'.handler = pc.handler /\ pc'.backoff = pc.backoff /\ pc'.mqtt = pc.mqtt
BY DEF Step, Pcs

\* The same of the event task.
LEMMA StepHandler ==
  ASSUME pc \in Pcs, NEW f, NEW t \in HandlerPcs, Step("handler", f, t)
  PROVE  /\ pc.handler = f /\ pc' \in Pcs /\ pc'.handler = t
         /\ pc'.main = pc.main /\ pc'.backoff = pc.backoff /\ pc'.mqtt = pc.mqtt
BY DEF Step, Pcs

\* The same of the backoff task.
LEMMA StepBackoff ==
  ASSUME pc \in Pcs, NEW f, NEW t \in BackoffPcs, Step("backoff", f, t)
  PROVE  /\ pc.backoff = f /\ pc' \in Pcs /\ pc'.backoff = t
         /\ pc'.main = pc.main /\ pc'.handler = pc.handler /\ pc'.mqtt = pc.mqtt
BY DEF Step, Pcs

\* The same of the esp-mqtt task.
LEMMA StepMqtt ==
  ASSUME pc \in Pcs, NEW f, NEW t \in MqttPcs, Step("mqtt", f, t)
  PROVE  /\ pc.mqtt = f /\ pc' \in Pcs /\ pc'.mqtt = t
         /\ pc'.main = pc.main /\ pc'.handler = pc.handler /\ pc'.backoff = pc.backoff
BY DEF Step, Pcs

-----------------------------------------------------------------------------
(* What the steps of each task do.                                         *)

\* What only the tasks around the client write.
Mqtt == <<mqtt_connected, session, subscribed, status, will>>

\* app_main moves its own program counter, raises the Wi-Fi flag and starts the
\* client.
LEMMA MainEffects ==
  ASSUME LinkTypeOK, AppMain
  PROVE  /\ pc' \in Pcs /\ pc'.backoff = pc.backoff /\ pc'.mqtt = pc.mqtt
         /\ \/ UNCHANGED <<wifi_connected, late>>
            \/ wifi_connected' = TRUE /\ late' = (assoc # "up" /\ wifiEvents = <<>>)
         /\ session' \in {session, "idle"}
         /\ UNCHANGED <<mqtt_connected, subscribed, status, will, delays, wifi, faults>>
<1>0. pc \in Pcs
  BY DEF LinkTypeOK, Pcs, MainPcs, HandlerPcs, BackoffPcs, MqttPcs
<1>1. CASE GotAddress
  BY <1>0, <1>1, StepMain DEF GotAddress, MainPcs, flags, broker, past
<1>2. CASE GaveUp
  BY <1>0, <1>2, StepMain DEF GaveUp, MainPcs, flags, broker, past
<1>3. CASE SetConnected
  BY <1>0, <1>3, StepMain DEF SetConnected, MainPcs, broker
<1>4. CASE MqttAppStart
  BY <1>0, <1>4, StepMain DEF MqttAppStart, MainPcs, flags, past
<1> QED
  BY <1>1, <1>2, <1>3, <1>4 DEF AppMain

\* The event task takes events, stops the client, wakes the backoff task or resets
\* the delay.
LEMMA HandlerEffects ==
  ASSUME LinkTypeOK, HandleWifiEvent
  PROVE  /\ pc' \in Pcs /\ pc'.backoff = pc.backoff
         /\ \/ pc'.mqtt = pc.mqtt /\ UNCHANGED <<session, subscribed>>
            \/ pc'.mqtt \in {pc.mqtt, "disconnected"} /\ session' = "stopped" /\ subscribed' = "no"
         /\ \/ UNCHANGED <<wifi_connected, late, wifiEvents>>
            \/ /\ wifiEvents # <<>> /\ wifiEvents' = Tail(wifiEvents) /\ late' = FALSE
               /\ \/ Head(wifiEvents) = "connected" /\ wifi_connected' = TRUE
                  \/ Head(wifiEvents) = "disconnected" /\ wifi_connected' = FALSE
         /\ wifi_backoff_ms' \in {wifi_backoff_ms, BackoffBase}
         /\ notified' \in {notified, TRUE}
         /\ UNCHANGED <<mqtt_connected, delay_ms, doubled, assoc, status, will, faults>>
<1>0. pc \in Pcs
  BY DEF LinkTypeOK, Pcs, MainPcs, HandlerPcs, BackoffPcs, MqttPcs
<1>1. CASE StaDisconnected
  BY <1>0, <1>1, StepHandler DEF StaDisconnected, Take, HandlerPcs, delays, broker
<1>2. CASE StaConnected
  BY <1>0, <1>2, StepHandler DEF StaConnected, Take, HandlerPcs, delays, broker
<1>3. CASE StopMqtt
  <2>1. CASE Step("handler", "stop", "notify")
    BY <1>0, <1>3, <2>1, StepHandler DEF StopMqtt, HandlerPcs, flags, delays, wifi, past
  <2>2. CASE pc' = [pc EXCEPT !.handler = "notify", !.mqtt = "disconnected"]
    <3>1. pc' \in Pcs /\ pc'.backoff = pc.backoff /\ pc'.mqtt = "disconnected"
      BY <1>0, <2>2 DEF Pcs, HandlerPcs, MqttPcs
    <3>2. CASE session' = "stopped" /\ subscribed' = "no"
      BY <1>3, <3>1, <3>2 DEF StopMqtt, flags, delays, wifi, past
    <3>3. CASE Step("handler", "stop", "notify")
      BY <2>1, <3>3
    <3> QED
      BY <1>3, <3>2, <3>3 DEF StopMqtt
  <2> QED
    BY <1>3, <2>1, <2>2 DEF StopMqtt
<1>4. CASE NotifyBackoff
  BY <1>0, <1>4, StepHandler DEF NotifyBackoff, HandlerPcs, flags, wifi, broker, past
<1>5. CASE ResetBackoff
  BY <1>0, <1>5, StepHandler DEF ResetBackoff, HandlerPcs, flags, wifi, broker, past
<1> QED
  BY <1>1, <1>2, <1>3, <1>4, <1>5 DEF HandleWifiEvent

\* The backoff task asks for another attempt and doubles and caps the delay.
LEMMA BackoffEffects ==
  ASSUME LinkTypeOK, BackoffTask
  PROVE  /\ pc' \in Pcs /\ pc'.mqtt = pc.mqtt
         /\ assoc' = assoc \/ (assoc = "down" /\ assoc' = "joining")
         /\ notified' \in BOOLEAN
         /\ \/ /\ pc.backoff = "wait" /\ pc'.backoff \in {"wait", "choose"}
               /\ UNCHANGED <<wifi_backoff_ms, delay_ms, doubled>>
            \/ /\ pc.backoff = "choose" /\ pc'.backoff = "delay"
               /\ \E jitter \in 0 .. BackoffJitter - 1 : delay_ms' = wifi_backoff_ms + jitter
               /\ UNCHANGED <<wifi_backoff_ms, doubled>>
            \/ /\ pc.backoff = "delay" /\ pc'.backoff \in {"wait", "double"}
               /\ delay_ms' = 0 /\ UNCHANGED <<wifi_backoff_ms, doubled>>
            \/ /\ pc.backoff = "double" /\ pc'.backoff = "store"
               /\ doubled' = 2 * wifi_backoff_ms /\ UNCHANGED <<wifi_backoff_ms, delay_ms>>
            \/ /\ pc.backoff = "store" /\ pc'.backoff = "compare"
               /\ wifi_backoff_ms' = doubled /\ UNCHANGED <<delay_ms, doubled>>
            \/ /\ pc.backoff = "compare" /\ UNCHANGED <<wifi_backoff_ms, delay_ms, doubled>>
               /\ pc'.backoff = IF wifi_backoff_ms > BackoffMax THEN "cap" ELSE "wait"
            \/ /\ pc.backoff = "cap" /\ pc'.backoff = "wait"
               /\ wifi_backoff_ms' = BackoffMax /\ UNCHANGED <<delay_ms, doubled>>
         /\ UNCHANGED <<Mqtt, wifi_connected, wifiEvents, past>>
<1>0. pc \in Pcs /\ notified \in BOOLEAN
  BY DEF LinkTypeOK, Pcs, MainPcs, HandlerPcs, BackoffPcs, MqttPcs
<1> USE DEF BackoffPcs, flags, wifi, broker, Mqtt
<1>1. CASE TakeNotification
  BY <1>0, <1>1, StepBackoff DEF TakeNotification
<1>2. CASE Reconnect
  BY <1>0, <1>2, StepBackoff DEF Reconnect
<1>8. CASE ChooseDelay
  BY <1>0, <1>8, StepBackoff DEF ChooseDelay
<1>3. CASE ReconnectFails
  BY <1>0, <1>3, StepBackoff DEF ReconnectFails
<1>4. CASE ReadBackoff
  BY <1>0, <1>4, StepBackoff DEF ReadBackoff
<1>5. CASE WriteBackoff
  BY <1>0, <1>5, StepBackoff DEF WriteBackoff
<1>6. CASE CompareBackoff
  BY <1>0, <1>6, StepBackoff DEF CompareBackoff, delays
<1>7. CASE CapBackoff
  BY <1>0, <1>7, StepBackoff DEF CapBackoff
<1> QED
  BY <1>1, <1>2, <1>3, <1>4, <1>5, <1>6, <1>7, <1>8 DEF BackoffTask

\* The handler of MQTT events raises and clears its flag and announces the board.
LEMMA MqttEffects ==
  ASSUME LinkTypeOK, HandleMqttEvent
  PROVE  /\ pc' \in Pcs /\ pc'.backoff = pc.backoff
         /\ \/ /\ pc.mqtt = "connected" /\ pc'.mqtt = "subscribe"
               /\ mqtt_connected' = TRUE /\ UNCHANGED <<subscribed, status>>
            \/ /\ pc.mqtt = "subscribe" /\ pc'.mqtt = "status"
               /\ subscribed' \in {"yes", "failed"} /\ UNCHANGED <<mqtt_connected, status>>
            \/ /\ pc.mqtt = "status" /\ pc'.mqtt = "idle"
               /\ status' = IF mqtt_connected THEN "online" ELSE status
               /\ UNCHANGED <<mqtt_connected, subscribed>>
            \/ /\ pc.mqtt = "disconnected" /\ pc'.mqtt = "idle"
               /\ mqtt_connected' = FALSE /\ UNCHANGED <<subscribed, status>>
         /\ UNCHANGED <<session, will, wifi_connected, delays, wifi, past>>
<1>0. pc \in Pcs
  BY DEF LinkTypeOK, Pcs, MainPcs, HandlerPcs, BackoffPcs, MqttPcs
<1> USE DEF MqttPcs, flags, broker
<1>1. CASE MqttConnected
  BY <1>0, <1>1, StepMqtt DEF MqttConnected
<1>2. CASE SubscribeCommands
  BY <1>0, <1>2, StepMqtt DEF SubscribeCommands
<1>3. CASE PublishOnline
  BY <1>0, <1>3, StepMqtt DEF PublishOnline
<1>4. CASE MqttDisconnected
  BY <1>0, <1>4, StepMqtt DEF MqttDisconnected
<1> QED
  BY <1>1, <1>2, <1>3, <1>4 DEF HandleMqttEvent

\* The driver's steps: the event posted says what became of the association.
Driver == Joined \/ JoinFails \/ AssociationLost

\* The driver posts what happened to the association.
LEMMA DriverEffects ==
  ASSUME Driver
  PROVE  /\ \/ assoc' = "up" /\ wifiEvents' = Append(wifiEvents, "connected")
            \/ assoc' = "down" /\ wifiEvents' = Append(wifiEvents, "disconnected")
         /\ faults' \in {faults, faults + 1}
         /\ UNCHANGED <<pc, flags, delays, broker, late>>
BY DEF Driver, Joined, JoinFails, AssociationLost, Associate, Fault

\* The client and the broker open, lose and bury sessions.
LEMMA BrokerEffects ==
  ASSUME LinkTypeOK, OpenSession \/ SessionLost \/ WillPublished
  PROVE  /\ pc' \in Pcs /\ pc'.backoff = pc.backoff
         /\ \/ session' = "up" /\ pc'.mqtt = "connected" /\ subscribed' = "no" /\ will' = TRUE
               /\ status' \in {status, "offline"}
            \/ session' = "idle" /\ pc'.mqtt = "disconnected" /\ subscribed' = "no"
               /\ UNCHANGED <<status, will>>
            \/ session # "up" /\ pc'.mqtt = pc.mqtt /\ UNCHANGED <<session, subscribed>>
               /\ status' = "offline" /\ will' = FALSE
         /\ faults' \in {faults, faults + 1}
         /\ UNCHANGED <<flags, delays, wifi, late>>
<1>0. pc \in Pcs
  BY DEF LinkTypeOK, Pcs, MainPcs, HandlerPcs, BackoffPcs, MqttPcs
<1>1. CASE OpenSession
  BY <1>0, <1>1, StepMqtt DEF OpenSession, MqttPcs, past
<1>2. CASE SessionLost
  BY <1>0, <1>2, StepMqtt DEF SessionLost, Fault, MqttPcs
<1>3. CASE WillPublished
  BY <1>0, <1>3 DEF WillPublished, past
<1> QED
  BY <1>1, <1>2, <1>3

-----------------------------------------------------------------------------
(* Types.                                                                  *)

\* Types, for all parameters.
THEOREM LinkTyping == LinkSteps => []LinkTypeOK
<1>1. LinkInit => LinkTypeOK
  <2> SUFFICES ASSUME LinkInit PROVE LinkTypeOK
    OBVIOUS
  <2>1. pc \in [main : {"connect", "flag", "start", "done"},
               handler : {"idle", "stop", "notify", "reset"},
               backoff : {"wait", "choose", "delay", "double", "store", "compare", "cap"},
               mqtt : {"idle", "connected", "subscribe", "status", "disconnected"}]
    BY DEF LinkInit
  <2>2. /\ wifi_backoff_ms \in Nat /\ delay_ms \in Nat /\ doubled \in Nat /\ faults \in Nat
        /\ wifiEvents \in Seq({"connected", "disconnected"})
    BY LinkAssumption DEF LinkInit
  <2>3. /\ wifi_connected \in BOOLEAN /\ mqtt_connected \in BOOLEAN /\ notified \in BOOLEAN
        /\ subscribed \in {"no", "yes", "failed"} /\ will \in BOOLEAN /\ late \in BOOLEAN
    BY DEF LinkInit
  <2>4. /\ assoc \in {"down", "joining", "up"} /\ session \in {"none", "idle", "up", "stopped"}
        /\ status \in {"none", "online", "offline"}
    BY DEF LinkInit
  <2> QED
    BY <2>1, <2>2, <2>3, <2>4 DEF LinkTypeOK
<1>2. LinkTypeOK /\ [LinkNext]_linkVars => LinkTypeOK'
  <2> SUFFICES ASSUME LinkTypeOK, [LinkNext]_linkVars PROVE LinkTypeOK'
    OBVIOUS
  <2> USE DEF LinkTypeOK
  <2>0. pc' \in Pcs => pc' \in [main : {"connect", "flag", "start", "done"},
             handler : {"idle", "stop", "notify", "reset"},
             backoff : {"wait", "choose", "delay", "double", "store", "compare", "cap"},
             mqtt : {"idle", "connected", "subscribe", "status", "disconnected"}]
    BY DEF Pcs, MainPcs, HandlerPcs, BackoffPcs, MqttPcs
  <2>1. CASE AppMain
    BY <2>0, <2>1, MainEffects DEF delays, wifi
  <2>2. CASE HandleWifiEvent
    <3>1. wifi_connected' \in BOOLEAN /\ late' \in BOOLEAN
      BY <2>2, HandlerEffects
    <3>2. notified' \in BOOLEAN
      BY <2>2, HandlerEffects
    <3>3. wifiEvents' \in Seq({"connected", "disconnected"})
      <4>1. wifiEvents' = wifiEvents \/ (wifiEvents # <<>> /\ wifiEvents' = Tail(wifiEvents))
        BY <2>2, HandlerEffects
      <4>2. wifiEvents \in Seq({"connected", "disconnected"})
        OBVIOUS
      <4> HIDE DEF LinkTypeOK
      <4> QED
        BY <4>1, <4>2, HeadTailProperties
    <3>4. wifi_backoff_ms' \in Nat /\ subscribed' \in {"no", "yes", "failed"} /\ session' \in {"none", "idle", "up", "stopped"}
      BY <2>2, HandlerEffects, LinkAssumption
    <3> QED
      BY <2>0, <2>2, <3>1, <3>2, <3>3, <3>4, HandlerEffects
  <2>3. CASE BackoffTask
    <3>1. wifi_backoff_ms' \in Nat /\ delay_ms' \in Nat /\ doubled' \in Nat
      BY <2>3, BackoffEffects, LinkAssumption
    <3> QED
      BY <2>0, <2>3, <3>1, BackoffEffects DEF Mqtt, past
  <2>4. CASE HandleMqttEvent
    <3>1. mqtt_connected' \in BOOLEAN /\ subscribed' \in {"no", "yes", "failed"}
      BY <2>4, MqttEffects
    <3>2. status' \in {"none", "online", "offline"}
      BY <2>4, MqttEffects
    <3> QED
      BY <2>0, <2>4, <3>1, <3>2, MqttEffects DEF delays, wifi, past
  <2>5. CASE Driver
    <3>1. wifiEvents' \in Seq({"connected", "disconnected"}) /\ assoc' \in {"down", "joining", "up"}
      BY <2>5, DriverEffects
    <3> QED
      BY <2>5, <3>1, DriverEffects DEF flags, delays, broker
  <2>6. CASE ExampleRetries
    BY <2>6 DEF ExampleRetries, flags, delays, broker, past
  <2>7. CASE OpenSession \/ SessionLost \/ WillPublished
    <3>1. subscribed' \in {"no", "yes", "failed"} /\ will' \in BOOLEAN
      BY <2>7, BrokerEffects
    <3>2. status' \in {"none", "online", "offline"} /\ session' \in {"none", "idle", "up", "stopped"}
      BY <2>7, BrokerEffects
    <3>3. faults' \in Nat
      <4>1. faults' \in {faults, faults + 1}
        BY <2>7, BrokerEffects
      <4>2. faults \in Nat
        OBVIOUS
      <4> HIDE DEF LinkTypeOK
      <4> QED
        BY <4>1, <4>2
    <3>4. pc' \in Pcs /\ UNCHANGED <<wifi_connected, mqtt_connected, delays, wifi, late>>
      BY <2>7, BrokerEffects DEF flags
    <3> QED
      BY <2>0, <3>1, <3>2, <3>3, <3>4 DEF delays, wifi
  <2>8. CASE UNCHANGED linkVars
    BY <2>8 DEF linkVars, flags, delays, wifi, broker, past
  <2> QED
    BY <2>1, <2>2, <2>3, <2>4, <2>5, <2>6, <2>7, <2>8 DEF LinkNext, External, Driver
<1> QED
  BY <1>1, <1>2, PTL DEF LinkSteps

-----------------------------------------------------------------------------
(* The delay.                                                              *)

Low(n) == n \in Nat /\ n >= BackoffBase
InRange(n) == n \in BackoffBase .. BackoffMax

\* The delay is in range unless the backoff task is between doubling and capping
\* it; what it will store is at least the base; the pause it makes is in range.
DelayInv ==
  /\ pc.backoff \in {"wait", "choose", "delay", "double"} => InRange(wifi_backoff_ms)
  /\ pc.backoff = "store" => Low(doubled)
  /\ pc.backoff = "compare" => Low(wifi_backoff_ms)
  /\ BackoffInRange

\* No pause before an attempt is shorter than the base or longer than the limit
\* with its jitter, whatever the interleaving of the reset with the doubling.
THEOREM DelayBounded == LinkSteps => []BackoffInRange
<1>1. LinkInit => DelayInv
  BY LinkAssumption DEF LinkInit, DelayInv, InRange, BackoffInRange
<1>2. LinkTypeOK /\ DelayInv /\ [LinkNext]_linkVars => DelayInv'
  <2> SUFFICES ASSUME LinkTypeOK, DelayInv, [LinkNext]_linkVars PROVE DelayInv'
    OBVIOUS
  <2>1. CASE pc'.backoff = pc.backoff /\ UNCHANGED <<wifi_backoff_ms, delay_ms, doubled>>
    BY <2>1 DEF DelayInv, BackoffInRange
  <2>2. CASE AppMain
    BY <2>1, <2>2, MainEffects DEF delays
  <2>3. CASE HandleWifiEvent
    BY <2>3, HandlerEffects, LinkAssumption DEF DelayInv, Low, InRange, BackoffInRange
  <2>4. CASE BackoffTask
    <3>1. BackoffInRange'
      <4>1. CASE pc'.backoff # "delay"
        BY <4>1 DEF BackoffInRange
      <4>2. CASE pc'.backoff = "delay"
        <5>1. PICK jitter \in 0 .. BackoffJitter - 1 : delay_ms' = wifi_backoff_ms + jitter
          BY <2>4, <4>2, BackoffEffects
        <5>2. wifi_backoff_ms \in BackoffBase .. BackoffMax
          BY <2>4, <4>2, BackoffEffects DEF DelayInv, InRange
        <5>3. delay_ms' \in BackoffBase .. BackoffMax + BackoffJitter - 1
          BY <5>1, <5>2, LinkAssumption
        <5> QED
          BY <5>3 DEF BackoffInRange
      <4> QED
        BY <4>1, <4>2
    <3> QED
      BY <2>4, <3>1, BackoffEffects, LinkAssumption DEF DelayInv, Low, InRange
  <2>5. CASE HandleMqttEvent
    BY <2>1, <2>5, MqttEffects DEF delays
  <2>6. CASE Driver
    BY <2>1, <2>6, DriverEffects DEF delays
  <2>7. CASE ExampleRetries
    BY <2>1, <2>7 DEF ExampleRetries, delays
  <2>8. CASE OpenSession \/ SessionLost \/ WillPublished
    BY <2>1, <2>8, BrokerEffects DEF delays
  <2>9. CASE UNCHANGED linkVars
    BY <2>1, <2>9 DEF linkVars, delays
  <2> QED
    BY <2>2, <2>3, <2>4, <2>5, <2>6, <2>7, <2>8, <2>9 DEF LinkNext, External, Driver
<1>3. DelayInv => BackoffInRange
  BY DEF DelayInv
<1> QED
  BY <1>1, <1>2, <1>3, LinkTyping, PTL DEF LinkSteps

-----------------------------------------------------------------------------
(* The Wi-Fi flag.                                                         *)

\* The last element of a sequence, when its first is taken or one is added.
LEMMA LengthCases ==
  ASSUME NEW S, NEW s \in Seq(S)
  PROVE  s = <<>> \/ Len(s) = 1 \/ Len(s) > 1
<1>1. Len(s) \in Nat /\ (Len(s) = 0 <=> s = <<>>)
  BY EmptySeq
<1>2. \A n \in Nat : n = 0 \/ n = 1 \/ n > 1
  OBVIOUS
<1> QED
  BY <1>1, <1>2

LEMMA TailLast ==
  ASSUME NEW S, NEW s \in Seq(S), Len(s) > 1
  PROVE  Tail(s) # <<>> /\ Tail(s)[Len(Tail(s))] = s[Len(s)]
<1>1. Len(s) \in Nat /\ s # <<>>
  BY EmptySeq
<1>2. /\ Len(Tail(s)) = Len(s) - 1
      /\ \A i \in 1..(Len(s) - 1) : Tail(s)[i] = s[i + 1]
  BY <1>1, HeadTailProperties
<1>3. Len(s) - 1 \in 1..(Len(s) - 1) /\ (Len(s) - 1) + 1 = Len(s)
  BY <1>1
<1>4. Tail(s) # <<>>
  <2>1. Len(Tail(s)) # 0
    BY <1>1, <1>2
  <2> QED
    BY <2>1, EmptySeq
<1> QED
  BY <1>2, <1>3, <1>4

LEMMA AppendLast ==
  ASSUME NEW S, NEW s \in Seq(S), NEW e \in S
  PROVE  Append(s, e) # <<>> /\ Append(s, e)[Len(Append(s, e))] = e
BY AppendProperties

\* The last event that waits says what became of the association.
LastEventTrue ==
  wifiEvents # <<>> => (wifiEvents[Len(wifiEvents)] = "connected" <=> assoc = "up")

FlagInv == WifiFlagTrue /\ LastEventTrue

\* When the driver has no event left the flag is right, unless main raised it late.
THEOREM WifiFlag == LinkSteps => []WifiFlagTrue
<1>1. LinkInit => FlagInv
  BY DEF LinkInit, FlagInv, WifiFlagTrue, LastEventTrue
<1>2. LinkTypeOK /\ FlagInv /\ [LinkNext]_linkVars => FlagInv'
  <2> SUFFICES ASSUME LinkTypeOK, FlagInv, [LinkNext]_linkVars PROVE FlagInv'
    OBVIOUS
  <2> USE DEF FlagInv, WifiFlagTrue, LastEventTrue
  <2>0. wifiEvents \in Seq({"connected", "disconnected"})
    BY DEF LinkTypeOK
  <2>1. ASSUME UNCHANGED <<wifiEvents, wifi_connected, late>>, assoc' = "up" <=> assoc = "up"
        PROVE  FlagInv'
    BY <2>1
  <2>2. CASE AppMain
    <3>1. CASE UNCHANGED <<wifi_connected, late>>
      BY <2>1, <2>2, <3>1, MainEffects DEF wifi
    <3>2. CASE wifi_connected' = TRUE /\ late' = (assoc # "up" /\ wifiEvents = <<>>)
      BY <2>2, <3>2, MainEffects DEF wifi
    <3> QED
      BY <2>2, <3>1, <3>2, MainEffects
  <2>3. CASE HandleWifiEvent
    <3>1. CASE UNCHANGED <<wifi_connected, late, wifiEvents>>
      BY <2>1, <2>3, <3>1, HandlerEffects
    <3>2. CASE Len(wifiEvents) = 1 /\ wifiEvents' = Tail(wifiEvents)
               /\ (wifi_connected' <=> Head(wifiEvents) = "connected")
      <4>1. wifiEvents' = <<>> /\ Head(wifiEvents) = wifiEvents[Len(wifiEvents)]
        BY <2>0, <3>2
      <4>2. wifiEvents # <<>> /\ assoc' = assoc
        BY <2>3, <3>2, HandlerEffects
      <4> QED
        BY <3>2, <4>1, <4>2
    <3>3. CASE Len(wifiEvents) > 1 /\ wifiEvents' = Tail(wifiEvents)
      <4>1. wifiEvents' # <<>> /\ wifiEvents'[Len(wifiEvents')] = wifiEvents[Len(wifiEvents)]
        BY <2>0, <3>3, TailLast
      <4>2. wifiEvents # <<>> /\ assoc' = assoc
        BY <2>3, <3>3, HandlerEffects
      <4> QED
        BY <4>1, <4>2
    <3>4. wifiEvents = <<>> \/ Len(wifiEvents) = 1 \/ Len(wifiEvents) > 1
      BY <2>0, LengthCases
    <3>5. \/ UNCHANGED <<wifi_connected, late, wifiEvents>>
          \/ /\ wifiEvents # <<>> /\ wifiEvents' = Tail(wifiEvents)
             /\ wifi_connected' <=> Head(wifiEvents) = "connected"
      BY <2>3, HandlerEffects
    <3> QED
      BY <3>1, <3>2, <3>3, <3>4, <3>5
  <2>4. CASE BackoffTask
    BY <2>1, <2>4, BackoffEffects DEF past
  <2>5. CASE HandleMqttEvent
    BY <2>1, <2>5, MqttEffects DEF wifi, past
  <2>6. CASE Driver
    <3>1. \A e \in {"connected", "disconnected"} :
            Append(wifiEvents, e) # <<>> /\ Append(wifiEvents, e)[Len(Append(wifiEvents, e))] = e
      BY <2>0, AppendLast
    <3> QED
      BY <2>6, <3>1, DriverEffects
  <2>7. CASE ExampleRetries
    BY <2>1, <2>7 DEF ExampleRetries, flags, past
  <2>8. CASE OpenSession \/ SessionLost \/ WillPublished
    BY <2>1, <2>8, BrokerEffects DEF flags, wifi
  <2>9. CASE UNCHANGED linkVars
    BY <2>1, <2>9 DEF linkVars, flags, wifi, past
  <2> QED
    BY <2>2, <2>3, <2>4, <2>5, <2>6, <2>7, <2>8, <2>9 DEF LinkNext, External, Driver
<1>3. FlagInv => WifiFlagTrue
  BY DEF FlagInv
<1> QED
  BY <1>1, <1>2, <1>3, LinkTyping, PTL DEF LinkSteps

-----------------------------------------------------------------------------
(* Announcement.                                                           *)

\* What the handler has done so far for a session that is up.
AnnounceInv ==
  session = "up" =>
    /\ pc.mqtt # "disconnected"
    /\ pc.mqtt \in {"subscribe", "status"} => mqtt_connected
    /\ pc.mqtt \in {"status", "idle"} => subscribed # "no"
    /\ pc.mqtt = "idle" => status = "online"

\* A session whose handler has returned takes commands and is online at the broker.
THEOREM Announcement == LinkSteps => []SessionAnnounced
<1>1. LinkInit => AnnounceInv
  BY DEF LinkInit, AnnounceInv
<1>2. LinkTypeOK /\ AnnounceInv /\ [LinkNext]_linkVars => AnnounceInv'
  <2> SUFFICES ASSUME LinkTypeOK, AnnounceInv, [LinkNext]_linkVars PROVE AnnounceInv'
    OBVIOUS
  <2>1. CASE /\ session' = session \/ session' # "up"
             /\ pc'.mqtt = pc.mqtt
             /\ UNCHANGED <<mqtt_connected, subscribed, status>>
    BY <2>1 DEF AnnounceInv
  <2>2. CASE session' # "up"
    BY <2>2 DEF AnnounceInv
  <2>3. CASE AppMain
    BY <2>1, <2>2, <2>3, MainEffects
  <2>4. CASE HandleWifiEvent
    BY <2>1, <2>2, <2>4, HandlerEffects
  <2>5. CASE BackoffTask
    BY <2>1, <2>5, BackoffEffects DEF Mqtt
  <2>6. CASE HandleMqttEvent
    BY <2>6, MqttEffects DEF AnnounceInv
  <2>7. CASE Driver
    BY <2>1, <2>7, DriverEffects DEF flags, broker
  <2>8. CASE ExampleRetries
    BY <2>1, <2>8 DEF ExampleRetries, flags, broker
  <2>9. CASE OpenSession \/ SessionLost \/ WillPublished
    BY <2>9, BrokerEffects DEF AnnounceInv, flags
  <2>10. CASE UNCHANGED linkVars
    BY <2>1, <2>10 DEF linkVars, flags, broker
  <2> QED
    BY <2>3, <2>4, <2>5, <2>6, <2>7, <2>8, <2>9, <2>10 DEF LinkNext, External, Driver
<1>3. LinkTypeOK /\ AnnounceInv => SessionAnnounced
  BY DEF AnnounceInv, SessionAnnounced
<1> QED
  BY <1>1, <1>2, <1>3, LinkTyping, PTL DEF LinkSteps

-----------------------------------------------------------------------------
(* Another attempt.                                                        *)

\* A board that knows it is off the network has an attempt before it: the backoff
\* task is about to make one or is notified, or an event that makes the handler
\* notify it is waiting or being handled.
RetryComing ==
  assoc = "down" /\ ~wifi_connected =>
    \/ pc.backoff \in {"choose", "delay"} \/ notified
    \/ pc.handler \in {"stop", "notify"}
    \/ \E i \in 1..Len(wifiEvents) : wifiEvents[i] = "disconnected"

\* The steps of the event task keep it: the notification follows the event.
LEMMA HandlerKeepsRetry ==
  ASSUME LinkTypeOK, RetryComing, HandleWifiEvent PROVE RetryComing'
<1> USE DEF RetryComing
<1>0. pc \in Pcs /\ wifiEvents \in Seq({"connected", "disconnected"})
  BY DEF LinkTypeOK, Pcs, MainPcs, HandlerPcs, BackoffPcs, MqttPcs
<1>1. CASE StaDisconnected
  BY <1>0, <1>1, StepHandler DEF StaDisconnected, HandlerPcs
<1>2. CASE StaConnected
  BY <1>2 DEF StaConnected, Take
<1>3. CASE StopMqtt
  <2>1. pc'.handler = "notify"
    BY <1>0, <1>3 DEF StopMqtt, Step, Pcs
  <2> QED
    BY <2>1
<1>4. CASE NotifyBackoff
  BY <1>4 DEF NotifyBackoff
<1>5. CASE ResetBackoff
  <2>1. pc.handler = "reset" /\ pc'.backoff = pc.backoff
    BY <1>0, <1>5, StepHandler DEF ResetBackoff, HandlerPcs
  <2> QED
    BY <1>5, <2>1 DEF ResetBackoff, flags, wifi
<1> QED
  BY <1>1, <1>2, <1>3, <1>4, <1>5 DEF HandleWifiEvent

\* So do those of the backoff task: it gives up a notification only to a board
\* that is connected, and a refused attempt notifies it again.
LEMMA BackoffKeepsRetry ==
  ASSUME LinkTypeOK, RetryComing, BackoffTask PROVE RetryComing'
<1> USE DEF RetryComing
<1>0. pc \in Pcs
  BY DEF LinkTypeOK, Pcs, MainPcs, HandlerPcs, BackoffPcs, MqttPcs
<1>1. CASE TakeNotification
  <2>1. CASE wifi_connected
    BY <1>1, <2>1 DEF TakeNotification, flags
  <2>2. CASE ~wifi_connected
    BY <1>0, <1>1, <2>2, StepBackoff DEF TakeNotification, BackoffPcs
  <2> QED
    BY <2>1, <2>2
<1>2. CASE Reconnect
  <2>1. assoc = "down" /\ ~wifi_connected => assoc' = "joining"
    BY <1>2 DEF Reconnect
  <2>2. assoc # "down" => assoc' # "down"
    BY <1>2 DEF Reconnect
  <2>3. wifi_connected' = wifi_connected
    BY <1>2 DEF Reconnect, flags
  <2> QED
    BY <2>1, <2>2, <2>3
<1>3. CASE ReconnectFails
  BY <1>3 DEF ReconnectFails
<1>5. CASE ChooseDelay
  BY <1>0, <1>5, StepBackoff DEF ChooseDelay, BackoffPcs, flags, wifi
<1>4. CASE ReadBackoff \/ WriteBackoff \/ CompareBackoff \/ CapBackoff
  <2>1. pc.backoff \notin {"choose", "delay"} /\ pc'.handler = pc.handler
    BY <1>0, <1>4, StepBackoff DEF ReadBackoff, WriteBackoff, CompareBackoff, CapBackoff, BackoffPcs
  <2>2. UNCHANGED <<assoc, wifi_connected, wifiEvents, notified>>
    BY <1>4 DEF ReadBackoff, WriteBackoff, CompareBackoff, CapBackoff, flags, delays, wifi
  <2> QED
    BY <2>1, <2>2
<1> QED
  BY <1>1, <1>2, <1>3, <1>4, <1>5 DEF BackoffTask

\* The safety half of WifiRetried, for any delays, events and faults: no wake-up of
\* the backoff task is lost.
THEOREM RetryKept == LinkSteps => []RetryComing
<1>1. LinkInit => RetryComing
  BY DEF LinkInit, RetryComing
<1>2. LinkTypeOK /\ RetryComing /\ [LinkNext]_linkVars => RetryComing'
  <2> SUFFICES ASSUME LinkTypeOK, RetryComing, [LinkNext]_linkVars PROVE RetryComing'
    OBVIOUS
  <2>0. pc \in Pcs /\ wifiEvents \in Seq({"connected", "disconnected"})
    BY DEF LinkTypeOK, Pcs, MainPcs, HandlerPcs, BackoffPcs, MqttPcs
  <2>1. CASE /\ wifi_connected' \in {wifi_connected, TRUE}
             /\ pc'.backoff = pc.backoff /\ pc'.handler = pc.handler
             /\ UNCHANGED <<assoc, wifiEvents, notified>>
    BY <2>1 DEF RetryComing
  <2>2. CASE AppMain
    <3>1. pc'.handler = pc.handler
      BY <2>0, <2>2, StepMain DEF AppMain, GotAddress, GaveUp, SetConnected, MqttAppStart, MainPcs
    <3> QED
      BY <2>1, <2>2, <3>1, MainEffects DEF delays, wifi
  <2>3. CASE HandleMqttEvent
    <3>1. pc'.handler = pc.handler
      BY <2>0, <2>3, StepMqtt DEF HandleMqttEvent, MqttConnected, SubscribeCommands, PublishOnline,
            MqttDisconnected, MqttPcs
    <3> QED
      BY <2>1, <2>3, <3>1, MqttEffects DEF delays, wifi
  <2>4. CASE Driver
    <3>1. CASE wifiEvents' = Append(wifiEvents, "disconnected")
      BY <2>0, <3>1 DEF RetryComing
    <3>2. CASE assoc' = "up"
      BY <3>2 DEF RetryComing
    <3> QED
      BY <2>4, <3>1, <3>2, DriverEffects
  <2>5. CASE ExampleRetries
    BY <2>5 DEF ExampleRetries, RetryComing
  <2>6. CASE OpenSession \/ SessionLost \/ WillPublished
    <3>1. pc'.handler = pc.handler
      BY <2>0, <2>6, StepMqtt DEF OpenSession, SessionLost, WillPublished, MqttPcs
    <3> QED
      BY <2>1, <2>6, <3>1, BrokerEffects DEF flags, delays, wifi
  <2>7. CASE UNCHANGED linkVars
    BY <2>1, <2>7 DEF linkVars, flags, delays, wifi
  <2> QED
    BY <2>2, <2>3, <2>4, <2>5, <2>6, <2>7, HandlerKeepsRetry, BackoffKeepsRetry DEF LinkNext, External, Driver
<1> QED
  BY <1>1, <1>2, LinkTyping, PTL DEF LinkSteps

-----------------------------------------------------------------------------
(* A stopped client.                                                       *)

\* There is a client only after main has started it.
StartedOnce == session # "none" => pc.main = "done"

\* It stays so, and a client that is stopped stays stopped.
LEMMA ClientStep ==
  ASSUME LinkTypeOK, StartedOnce, [LinkNext]_linkVars
  PROVE  StartedOnce' /\ (session = "stopped" => session' = "stopped")
<1> USE DEF StartedOnce
<1>0. pc \in Pcs
  BY DEF LinkTypeOK, Pcs, MainPcs, HandlerPcs, BackoffPcs, MqttPcs
<1>1. CASE GotAddress \/ GaveUp \/ SetConnected
  <2>1. pc.main # "done" /\ UNCHANGED session
    BY <1>1 DEF GotAddress, GaveUp, SetConnected, Step, broker
  <2> QED
    BY <2>1
<1>2. CASE MqttAppStart
  <2>1. pc.main # "done" /\ pc'.main = "done"
    BY <1>0, <1>2, StepMain DEF MqttAppStart, MainPcs
  <2> QED
    BY <2>1
<1>3. CASE HandleWifiEvent
  <2>1. pc'.main = pc.main
    BY <1>0, <1>3 DEF HandleWifiEvent, StaDisconnected, StaConnected, StopMqtt, NotifyBackoff,
                      ResetBackoff, Step, Pcs
  <2>2. session' = session \/ (session \in {"idle", "up"} /\ session' = "stopped")
    BY <1>3 DEF HandleWifiEvent, StaDisconnected, StaConnected, Take, StopMqtt, NotifyBackoff,
                ResetBackoff, broker
  <2> QED
    BY <2>1, <2>2
<1>4. CASE BackoffTask
  <2>1. pc'.main = pc.main
    BY <1>0, <1>4 DEF BackoffTask, TakeNotification, ChooseDelay, Reconnect, ReconnectFails, ReadBackoff,
                      WriteBackoff, CompareBackoff, CapBackoff, Step, Pcs
  <2> QED
    BY <1>4, <2>1, BackoffEffects DEF Mqtt
<1>5. CASE HandleMqttEvent
  <2>1. pc'.main = pc.main
    BY <1>0, <1>5 DEF HandleMqttEvent, MqttConnected, SubscribeCommands, PublishOnline,
                      MqttDisconnected, Step, Pcs
  <2> QED
    BY <1>5, <2>1, MqttEffects
<1>6. CASE Driver
  BY <1>6, DriverEffects DEF broker
<1>7. CASE ExampleRetries
  BY <1>7 DEF ExampleRetries, broker
<1>8. CASE OpenSession \/ SessionLost
  <2>1. pc'.main = pc.main /\ session \in {"idle", "up"} /\ session' # "none"
    BY <1>0, <1>8, StepMqtt DEF OpenSession, SessionLost, MqttPcs
  <2> QED
    BY <2>1
<1>9. CASE WillPublished \/ UNCHANGED linkVars
  BY <1>9 DEF WillPublished, linkVars, broker
<1> QED
  BY <1>1, <1>2, <1>3, <1>4, <1>5, <1>6, <1>7, <1>8, <1>9 DEF LinkNext, AppMain, External, Driver

\* There is a client only once main has started it, in every behaviour of the link.
LEMMA ClientStarted == LinkSteps => []StartedOnce
<1>1. LinkInit => StartedOnce
  BY DEF LinkInit, StartedOnce
<1>2. LinkTypeOK /\ StartedOnce /\ [LinkNext]_linkVars => StartedOnce'
  BY ClientStep
<1> QED
  BY <1>1, <1>2, LinkTyping, PTL DEF LinkSteps

\* A client that the event task has stopped is never started again, which is why a
\* board that loses its access point once has no session any more (SessionReturns).
THEOREM StoppedForGood == LinkSteps => [][session = "stopped" => session' = "stopped"]_linkVars
<1>1. LinkTypeOK /\ StartedOnce /\ [LinkNext]_linkVars => (session = "stopped" => session' = "stopped")
  BY ClientStep
<1> QED
  BY <1>1, ClientStarted, LinkTyping, PTL DEF LinkSteps

-----------------------------------------------------------------------------
(* Sampling.                                                               *)

USE SamplingAssumption

Checking == {"upper", "lower", "exceeded", "raise", "alarm", "within"}

\* The place of the main loop: it examines a reading of the frame, or is at the
\* first place.
InFrame == IF loop \in Checking THEN index <= Len(frame) ELSE index = 1

\* The state after components_init has both.
LEMMA InitType == SamplingInit => SamplingTypeOK /\ InFrame
<1> SUFFICES ASSUME SamplingInit PROVE SamplingTypeOK /\ InFrame
  OBVIOUS
<1>1. upper \in Int /\ lower \in Int
  <2>1. Default \in [lower : Int, upper : Int]
    OBVIOUS
  <2> QED
    BY <2>1 DEF SamplingInit
<1>2. initialized \in BOOLEAN /\ sampling \in BOOLEAN /\ mqtt_connected \in BOOLEAN
      /\ alarm_enabled \in BOOLEAN
  BY DEF SamplingInit
<1>3. alarm_active \in [Indexes -> BOOLEAN]
  BY DEF SamplingInit
<1>4. frame \in Seq(Readings) /\ Len(frame) <= MaxChannels
  BY DEF SamplingInit
<1>5. index \in Indexes /\ excursion \in [Indexes -> {"none", "untold", "told", "excused"}]
      /\ sinceStop \in Nat /\ commands \in Nat /\ losses \in Nat /\ command = NoCommand
      /\ loop = "wait" /\ telemetry_interval_ms \in Nat
  BY DEF SamplingInit, Indexes
<1> QED
  BY <1>1, <1>2, <1>3, <1>4, <1>5, Zenon DEF SamplingTypeOK, InFrame, Checking, SamplingInit

\* A step of the main loop keeps types and place.
LEMMA LoopKeepsType ==
  ASSUME SamplingTypeOK, InFrame, MainLoop PROVE SamplingTypeOK' /\ InFrame'
<1> USE DEF SamplingTypeOK, InFrame, Checking
<1>1. CASE StartFrame
  BY <1>1 DEF StartFrame, Loop
<1>2. CASE ReadAll
  <2>1. PICK n \in 0..MaxChannels : frame' \in [1..n -> Readings]
    BY <1>2 DEF ReadAll
  <2>2. frame' \in Seq(Readings) /\ Len(frame') <= MaxChannels
    BY <2>1
  <2> QED
    BY <1>2, <2>2 DEF ReadAll, Loop
<1>3. CASE PublishTelemetry
  BY <1>3 DEF PublishTelemetry, Loop
<1>4. CASE CheckEnabled
  <2>1. frame # <<>> => 1 <= Len(frame)
    BY EmptySeq
  <2>2. index = 1 /\ index' = 1
    BY <1>4 DEF CheckEnabled, Loop
  <2>3. CASE frame # <<>> /\ Loop("enabled", "upper") /\ UNCHANGED frame
    BY <1>4, <2>1, <2>2, <2>3 DEF CheckEnabled, Loop
  <2>4. CASE Loop("enabled", "wait") /\ frame' = <<>>
    <3>1. frame' \in Seq(Readings) /\ Len(frame') <= MaxChannels
      BY <2>4
    <3> QED
      BY <1>4, <2>2, <2>4, <3>1 DEF CheckEnabled, Loop
  <2> QED
    BY <1>4, <2>3, <2>4 DEF CheckEnabled
<1>5. CASE CompareUpper
  BY <1>5 DEF CompareUpper, Loop
<1>6. CASE CompareLower
  BY <1>6 DEF CompareLower, Loop
<1>7. ASSUME NEW p \in Checking, Examined(p), alarm_active' \in [Indexes -> BOOLEAN],
             excursion' \in [Indexes -> {"none", "untold", "told", "excused"}]
      PROVE  SamplingTypeOK' /\ InFrame'
  <2>1. index \in Nat /\ Len(frame) \in Nat
    BY DEF Indexes
  <2>2. CASE index < Len(frame) /\ Loop(p, "upper") /\ index' = index + 1 /\ UNCHANGED frame
    <3>1. index' \in Indexes /\ index' <= Len(frame')
      BY <2>1, <2>2 DEF Indexes
    <3> QED
      BY <1>7, <2>2, <3>1 DEF Examined, Loop
  <2>3. CASE Loop(p, "wait") /\ index' = 1 /\ frame' = <<>>
    <3>1. frame' \in Seq(Readings) /\ Len(frame') <= MaxChannels /\ index' \in Indexes
      BY <2>3 DEF Indexes
    <3> QED
      BY <1>7, <2>3, <3>1 DEF Examined, Loop
  <2> QED
    BY <1>7, <2>2, <2>3 DEF Examined
<1>8. CASE Suppress
  BY <1>7, <1>8 DEF Suppress
<1>9. CASE FindNew
  BY <1>9 DEF FindNew, Loop
<1>10. CASE Raise
  BY <1>10 DEF Raise, Loop
<1>11. CASE PublishAlarm
  BY <1>7, <1>11 DEF PublishAlarm
<1>12. CASE BackInRange
  BY <1>7, <1>12 DEF BackInRange
<1>13. CASE Trap
  BY <1>13 DEF Trap, Loop
<1> QED
  BY <1>1, <1>2, <1>3, <1>4, <1>5, <1>6, <1>8, <1>9, <1>10, <1>11, <1>12, <1>13 DEF MainLoop

\* A whole number of milliseconds is left of a second.
LEMMA IntervalNat ==
  ASSUME NEW rate \in Int, rate > 0 PROVE 1000 \div rate \in Nat
  OBVIOUS

LEMMA SetIntervalType ==
  ASSUME NEW rate \in Int, command.rate = rate, SetInterval PROVE telemetry_interval_ms' \in Nat
<1>1. telemetry_interval_ms' = IF rate > 0 THEN 1000 \div rate ELSE 1
  BY DEF SetInterval
<1>2. rate > 0 => 1000 \div rate \in Nat
  BY IntervalNat
<1> QED
  BY <1>1, <1>2

\* So does a step of the esp-mqtt task.
LEMMA CommandKeepsType ==
  ASSUME SamplingTypeOK, InFrame, MqttTask PROVE SamplingTypeOK' /\ InFrame'
<1> USE DEF SamplingTypeOK, InFrame
<1>1. ASSUME NEW c \in Commands, Receive(c) PROVE SamplingTypeOK' /\ InFrame'
  BY <1>1 DEF Receive, Commands, alarms
<1>2. CASE StartSampling
  BY <1>2 DEF StartSampling, Command, alarms
<1>10. CASE SetInterval
  <2>1. command \in [pc : {"start"}, rate : Rates]
    BY <1>10 DEF SetInterval, Command, NoCommand
  <2>2. command.rate \in Int
    BY <2>1
  <2>3. telemetry_interval_ms' \in Nat
    BY <1>10, <2>2, SetIntervalType
  <2>4. command' \in [pc : {"stop", "probe"}]
    BY <1>10 DEF SetInterval, Command
  <2> QED
    BY <1>10, <2>3, <2>4 DEF SetInterval, Command, alarms
<1>3. CASE StopSampling
  BY <1>3 DEF StopSampling, Command, alarms
<1>4. CASE SetUpper
  <2>1. command \in [pc : {"upper", "lower", "enabled", "reset"}, limits : Limits, enabled : BOOLEAN]
    BY <1>4 DEF SetUpper, Command, NoCommand
  <2>2. /\ command' \in [pc : {"lower"}, limits : Limits, enabled : BOOLEAN]
        /\ upper' \in Int
    BY <1>4, <2>1 DEF SetUpper, Command
  <2> QED
    BY <1>4, <2>2 DEF SetUpper, Command
<1>5. CASE SetLower
  <2>1. command \in [pc : {"upper", "lower", "enabled", "reset"}, limits : Limits, enabled : BOOLEAN]
    BY <1>5 DEF SetLower, Command, NoCommand
  <2>2. /\ command' \in [pc : {"enabled"}, limits : Limits, enabled : BOOLEAN]
        /\ lower' \in Int
    BY <1>5, <2>1 DEF SetLower, Command
  <2> QED
    BY <1>5, <2>2 DEF SetLower, Command
<1>6. CASE SetEnabled
  <2>1. command \in [pc : {"upper", "lower", "enabled", "reset"}, limits : Limits, enabled : BOOLEAN]
    BY <1>6 DEF SetEnabled, Command, NoCommand
  <2>2. /\ command' \in [pc : {"reset"}, limits : Limits, enabled : BOOLEAN]
        /\ alarm_enabled' \in BOOLEAN
    BY <1>6, <2>1 DEF SetEnabled, Command
  <2> QED
    BY <1>6, <2>2 DEF SetEnabled, Command
<1>7. CASE ResetAlarms
  BY <1>7 DEF ResetAlarms, Command, Afresh
<1>8. CASE SessionOpened
  BY <1>8 DEF SessionOpened, alarms
<1>9. CASE SessionClosed
  <2>1. losses' \in Nat
    <3>1. losses \in Nat /\ losses' = losses + 1
      BY <1>9, Zenon DEF SessionClosed
    <3> QED
      BY <3>1
  <2> QED
    BY <1>9, <2>1 DEF SessionClosed, alarms
<1> QED
  BY <1>1, <1>2, <1>3, <1>4, <1>5, <1>6, <1>7, <1>8, <1>9, <1>10 DEF MqttTask

\* Types, for all parameters.
THEOREM SamplingTyping == SamplingSpec => [](SamplingTypeOK /\ InFrame)
<1>1. SamplingTypeOK /\ InFrame /\ [SamplingNext]_samplingVars => SamplingTypeOK' /\ InFrame'
  <2> SUFFICES ASSUME SamplingTypeOK, InFrame, [SamplingNext]_samplingVars PROVE SamplingTypeOK' /\ InFrame'
    OBVIOUS
  <2>1. CASE UNCHANGED samplingVars
    BY <2>1 DEF samplingVars, alarms, SamplingTypeOK, InFrame
  <2> QED
    BY <2>1, LoopKeepsType, CommandKeepsType DEF SamplingNext
<1> QED
  BY <1>1, InitType, PTL DEF SamplingSpec

-----------------------------------------------------------------------------
(* A stopped probe.                                                        *)

\* A frame is under way only if sampling was on when it was started, and none was
\* published without sampling since.
StopInv ==
  /\ sinceStop \in {0, 1}
  /\ sampling => sinceStop = 0
  /\ loop \in {"read", "publish"} => sinceStop = 0

\* The steps of the main loop keep it.
LEMMA LoopKeepsStop ==
  ASSUME StopInv, MainLoop PROVE StopInv'
<1> USE DEF StopInv
<1>1. CASE StartFrame
  BY <1>1 DEF StartFrame, Loop
<1>2. CASE ReadAll
  BY <1>2 DEF ReadAll, Loop
<1>3. CASE PublishTelemetry
  <2>1. sinceStop = 0 /\ loop' = "enabled" /\ sampling' = sampling
    BY <1>3 DEF PublishTelemetry, Loop
  <2>2. sinceStop' \in {0, 1}
    BY <1>3, <2>1 DEF PublishTelemetry
  <2>3. sampling => sinceStop' = 0
    BY <1>3, <2>1, Zenon DEF PublishTelemetry
  <2> QED
    BY <2>1, <2>2, <2>3
<1>4. CASE /\ UNCHANGED <<sinceStop, sampling>>
           /\ loop' \notin {"read", "publish"}
  BY <1>4
<1>5. ASSUME NEW p, Examined(p)
      PROVE  UNCHANGED <<sinceStop, sampling>> /\ loop' \notin {"read", "publish"}
  BY <1>5 DEF Examined, Loop
<1>6. CASE Suppress \/ PublishAlarm \/ BackInRange
  BY <1>4, <1>5, <1>6 DEF Suppress, PublishAlarm, BackInRange
<1>7. CASE CheckEnabled
  BY <1>4, <1>7 DEF CheckEnabled, Loop
<1>8. CASE CompareUpper \/ CompareLower
  BY <1>4, <1>8 DEF CompareUpper, CompareLower, Loop
<1>9. CASE FindNew \/ Raise \/ Trap
  BY <1>4, <1>9 DEF FindNew, Raise, Trap, Loop
<1> QED
  BY <1>1, <1>2, <1>3, <1>6, <1>7, <1>8, <1>9 DEF MainLoop

\* So do those of the esp-mqtt task.
LEMMA CommandKeepsStop ==
  ASSUME StopInv, MqttTask PROVE StopInv'
<1> USE DEF StopInv
<1>1. CASE StartSampling
  BY <1>1 DEF StartSampling, Command
<1>2. CASE StopSampling
  BY <1>2 DEF StopSampling, Command
<1>3. CASE UNCHANGED <<sinceStop, sampling, loop>>
  BY <1>3
<1>4. ASSUME NEW c \in Commands, Receive(c) PROVE UNCHANGED <<sinceStop, sampling, loop>>
  BY <1>4 DEF Receive
<1>5. CASE SetUpper \/ SetLower \/ SetEnabled \/ ResetAlarms
  BY <1>3, <1>5 DEF SetUpper, SetLower, SetEnabled, ResetAlarms, Command
<1>6. CASE SessionOpened \/ SessionClosed
  BY <1>3, <1>6 DEF SessionOpened, SessionClosed
<1>7. CASE SetInterval
  BY <1>3, <1>7 DEF SetInterval, Command
<1> QED
  BY <1>1, <1>2, <1>3, <1>4, <1>5, <1>6, <1>7 DEF MqttTask

\* After sampling was stopped no more than the frame under way is published.
THEOREM Stopping == SamplingSpec => []StopStops
<1>1. SamplingInit => StopInv
  BY DEF SamplingInit, StopInv
<1>2. StopInv /\ [SamplingNext]_samplingVars => StopInv'
  <2>1. CASE UNCHANGED samplingVars
    BY <2>1 DEF samplingVars, StopInv
  <2> QED
    BY <2>1, LoopKeepsStop, CommandKeepsStop DEF SamplingNext
<1>3. StopInv => StopStops
  BY DEF StopInv, StopStops
<1> QED
  BY <1>1, <1>2, <1>3, PTL DEF SamplingSpec

-----------------------------------------------------------------------------
(* Latches and announcements.                                              *)

\* A latch that agrees with what was said of its excursion.
Agrees(active, said) ==
  \/ said = "excused"
  \/ active = TRUE /\ said = "told"
  \/ active = FALSE /\ said = "none"

\* Every latch agrees, but for the one whose alarm the main loop is raising: its
\* excursion is untold before the latch is set, and settled by the publication.
LatchInv ==
  \A i \in Indexes :
    \/ loop = "raise" /\ i = index /\ excursion[i] = "untold"
    \/ loop = "alarm" /\ i = index
    \/ (loop = "raise" => i # index) /\ Agrees(alarm_active[i], excursion[i])

\* The steps of the main loop keep it.
LEMMA LoopKeepsLatch ==
  ASSUME SamplingTypeOK, LatchInv, MainLoop PROVE LatchInv'
<1> USE DEF LatchInv
<1>1. CASE \/ StartFrame \/ ReadAll \/ PublishTelemetry \/ Trap
           \/ CheckEnabled \/ CompareUpper \/ CompareLower
  <2>1. /\ loop \notin {"raise", "alarm"} /\ loop' \notin {"raise", "alarm"}
        /\ UNCHANGED <<alarm_active, excursion>>
    BY <1>1 DEF StartFrame, ReadAll, PublishTelemetry, Trap, CheckEnabled, CompareUpper,
                CompareLower, Loop
  <2> QED
    BY <2>1
<1>2. ASSUME NEW p, Examined(p) PROVE loop = p /\ loop' \notin {"raise", "alarm"}
  BY <1>2 DEF Examined, Loop
<1>3. index \in Indexes /\ alarm_active \in [Indexes -> BOOLEAN]
      /\ excursion \in [Indexes -> {"none", "untold", "told", "excused"}]
  BY DEF SamplingTypeOK
<1>4. CASE Suppress
  <2>1. loop = "exceeded" /\ loop' \notin {"raise", "alarm"} /\ alarm_active' = alarm_active
    BY <1>2, <1>4 DEF Suppress
  <2>2. alarm_active[index] = TRUE
    BY <1>3, <1>4 DEF Suppress
  <2>3. excursion[index] # "none"
    BY <1>3, <2>1, <2>2 DEF Agrees
  <2>4. excursion' = excursion
    BY <1>3, <1>4, <2>3 DEF Suppress
  <2> QED
    BY <2>1, <2>4
<1>5. CASE FindNew
  <2>1. loop = "exceeded" /\ loop' = "raise" /\ index' = index /\ alarm_active' = alarm_active
        /\ excursion' = [excursion EXCEPT ![index] = "untold"]
    BY <1>5 DEF FindNew, Loop
  <2> QED
    BY <1>3, <2>1
<1>6. CASE Raise
  <2>1. loop = "raise" /\ loop' = "alarm" /\ index' = index /\ excursion' = excursion
        /\ alarm_active' = [alarm_active EXCEPT ![index] = TRUE]
    BY <1>6 DEF Raise, Loop
  <2> QED
    BY <1>3, <2>1
<1>7. CASE PublishAlarm
  <2>1. loop = "alarm" /\ loop' \notin {"raise", "alarm"} /\ alarm_active' = alarm_active
    BY <1>2, <1>7 DEF PublishAlarm
  <2>2. PICK said \in {"none", "told", "excused"} :
          excursion' = [excursion EXCEPT ![index] = said] /\ Agrees(alarm_active[index], said)
    BY <1>3, <1>7 DEF PublishAlarm, Agrees
  <2>3. ASSUME NEW i \in Indexes PROVE Agrees(alarm_active'[i], excursion'[i])
    <3>1. CASE i = index
      BY <1>3, <2>1, <2>2, <3>1
    <3>2. CASE i # index
      BY <1>3, <2>1, <2>2, <3>2
    <3> QED
      BY <3>1, <3>2
  <2> QED
    BY <2>1, <2>3
<1>8. CASE BackInRange
  <2>1. loop = "within" /\ loop' \notin {"raise", "alarm"}
        /\ alarm_active' = [alarm_active EXCEPT ![index] = FALSE]
        /\ excursion' = [excursion EXCEPT ![index] = "none"]
    BY <1>2, <1>8 DEF BackInRange
  <2>2. ASSUME NEW i \in Indexes PROVE Agrees(alarm_active'[i], excursion'[i])
    <3>1. CASE i = index
      BY <1>3, <2>1, <3>1 DEF Agrees
    <3>2. CASE i # index
      BY <1>3, <2>1, <3>2
    <3> QED
      BY <3>1, <3>2
  <2> QED
    BY <2>1, <2>2
<1> QED
  BY <1>1, <1>4, <1>5, <1>6, <1>7, <1>8 DEF MainLoop

\* So do those of the esp-mqtt task: only a change of the limits touches the
\* latches, and it makes every excursion a new one.
LEMMA CommandKeepsLatch ==
  ASSUME SamplingTypeOK, LatchInv, MqttTask PROVE LatchInv'
<1> USE DEF LatchInv
<1>1. CASE ResetAlarms
  <2>1. loop' = loop /\ index' = index
        /\ alarm_active' = [i \in Indexes |-> FALSE] /\ excursion' = Afresh
    BY <1>1 DEF ResetAlarms, Command
  <2> QED
    BY <2>1 DEF Afresh, Agrees
<1>2. CASE UNCHANGED <<loop, index, alarm_active, excursion>>
  BY <1>2
<1>3. ASSUME NEW c \in Commands, Receive(c)
      PROVE  UNCHANGED <<loop, index, alarm_active, excursion>>
  BY <1>3 DEF Receive, alarms
<1>4. CASE SetInterval \/ StartSampling \/ StopSampling
  BY <1>2, <1>4 DEF SetInterval, StartSampling, StopSampling, Command, alarms
<1>5. CASE SetUpper \/ SetLower \/ SetEnabled
  BY <1>2, <1>5 DEF SetUpper, SetLower, SetEnabled, Command
<1>6. CASE SessionOpened \/ SessionClosed
  BY <1>2, <1>6 DEF SessionOpened, SessionClosed, alarms
<1> QED
  BY <1>1, <1>2, <1>3, <1>4, <1>5, <1>6 DEF MqttTask

\* Between two frames a latch is up exactly for an excursion that was published,
\* unless the session was down at that moment.
THEOREM LatchAnnounced == SamplingSpec => []LatchIsAnnounced
<1>1. SamplingInit => LatchInv
  BY DEF SamplingInit, LatchInv, Agrees
<1>2. SamplingTypeOK /\ LatchInv /\ [SamplingNext]_samplingVars => LatchInv'
  <2>1. CASE UNCHANGED samplingVars
    BY <2>1 DEF samplingVars, alarms, LatchInv
  <2> QED
    BY <2>1, LoopKeepsLatch, CommandKeepsLatch DEF SamplingNext
<1>3. LatchInv => LatchIsAnnounced
  BY DEF LatchInv, LatchIsAnnounced, Agrees
<1> QED
  BY <1>1, <1>2, <1>3, SamplingTyping, PTL DEF SamplingSpec

-----------------------------------------------------------------------------
(* The interval.                                                           *)

\* A board that is only sent rates up to one reading a millisecond.
IntervalInv == telemetry_interval_ms > 0 /\ loop # "trapped"

\* At a rate of up to 1000 a whole millisecond is left.
LEMMA IntervalPositive ==
  ASSUME NEW rate \in Int, rate > 0, rate <= 1000 PROVE 1000 \div rate > 0
  OBVIOUS

\* As long as no start command asks for a rate above 1000, which the control panel
\* offers, the interval is never 0 and the main loop never divides by it.
THEOREM SlowRatesAreSafe ==
  (\A rate \in Rates : rate <= 1000) => (SamplingSpec => []IntervalInv)
<1> SUFFICES ASSUME \A rate \in Rates : rate <= 1000 PROVE SamplingSpec => []IntervalInv
  OBVIOUS
<1>1. SamplingInit => IntervalInv
  BY DEF SamplingInit, IntervalInv
<1>2. SamplingTypeOK /\ IntervalInv /\ [SamplingNext]_samplingVars => IntervalInv'
  <2> SUFFICES ASSUME SamplingTypeOK, IntervalInv, [SamplingNext]_samplingVars PROVE IntervalInv'
    OBVIOUS
  <2>1. CASE MainLoop
    <3>1. ~Trap
      BY DEF IntervalInv, Trap
    <3>2. loop' # "trapped" /\ UNCHANGED telemetry_interval_ms
      BY <2>1, <3>1 DEF MainLoop, StartFrame, ReadAll, PublishTelemetry, CheckEnabled, CompareUpper,
            CompareLower, Suppress, FindNew, Raise, PublishAlarm, BackInRange, Examined, Loop
    <3> QED
      BY <3>2 DEF IntervalInv
  <2>2. CASE SetInterval
    <3>1. command \in [pc : {"start"}, rate : Rates] /\ loop' = loop
      BY <2>2 DEF SamplingTypeOK, SetInterval, Command, NoCommand
    <3>0. command.rate \in Rates
      BY <3>1
    <3>2. command.rate \in Int /\ command.rate <= 1000
      BY <3>0
    <3>3. command.rate > 0 => 1000 \div command.rate > 0
      BY <3>2, IntervalPositive
    <3>4. telemetry_interval_ms' = IF command.rate > 0 THEN 1000 \div command.rate ELSE 1
      BY <2>2 DEF SetInterval
    <3> QED
      BY <3>1, <3>3, <3>4 DEF IntervalInv
  <2>3. CASE UNCHANGED <<telemetry_interval_ms, loop>>
    BY <2>3 DEF IntervalInv
  <2>4. CASE StartSampling \/ StopSampling \/ SetUpper \/ SetLower \/ SetEnabled \/ ResetAlarms
    BY <2>3, <2>4 DEF StartSampling, StopSampling, SetUpper, SetLower, SetEnabled, ResetAlarms, Command
  <2>5. ASSUME NEW c \in Commands, Receive(c) PROVE IntervalInv'
    BY <2>3, <2>5 DEF Receive
  <2>6. CASE SessionOpened \/ SessionClosed \/ UNCHANGED samplingVars
    BY <2>3, <2>6 DEF SessionOpened, SessionClosed, samplingVars
  <2> QED
    BY <2>1, <2>2, <2>4, <2>5, <2>6 DEF SamplingNext, MqttTask
<1> QED
  BY <1>1, <1>2, SamplingTyping, PTL DEF SamplingSpec

-----------------------------------------------------------------------------
(* The firmware as a whole.                                                *)

\* A command leaves the session alone, and is carried out by the esp-mqtt task.
LEMMA CommandSteps ==
  ASSUME HandleCommand
  PROVE  mqtt_connected' = mqtt_connected /\ (command # NoCommand \/ subscribed = "yes")
BY DEF HandleCommand, Receive, SetInterval, StartSampling, StopSampling, SetUpper, SetLower, SetEnabled,
       ResetAlarms, Command, NoCommand

\* So does the main loop, which knows no command either.
LEMMA LoopSteps ==
  ASSUME MainLoop PROVE UNCHANGED <<mqtt_connected, command>>
<1>1. ASSUME NEW p, NEW q, Loop(p, q) PROVE UNCHANGED <<mqtt_connected, command>>
  BY <1>1 DEF Loop
<1>2. ASSUME NEW p, Examined(p) PROVE UNCHANGED <<mqtt_connected, command>>
  BY <1>1, <1>2 DEF Examined
<1>3. CASE StartFrame \/ ReadAll \/ PublishTelemetry \/ Trap
  BY <1>1, <1>3 DEF StartFrame, ReadAll, PublishTelemetry, Trap
<1>4. CASE CheckEnabled
  BY <1>1, <1>4 DEF CheckEnabled
<1>5. CASE CompareUpper
  BY <1>1, <1>5 DEF CompareUpper
<1>6. CASE CompareLower
  BY <1>1, <1>6 DEF CompareLower
<1>7. CASE FindNew \/ Raise
  BY <1>1, <1>7 DEF FindNew, Raise
<1>8. CASE Suppress \/ PublishAlarm \/ BackInRange
  BY <1>2, <1>8 DEF Suppress, PublishAlarm, BackInRange
<1> QED
  BY <1>3, <1>4, <1>5, <1>6, <1>7, <1>8 DEF MainLoop

\* The steps of the link that Network has do not write the flag.
LEMMA NetworkKeepsFlag ==
  ASSUME Network PROVE UNCHANGED <<mqtt_connected, samplingOnly>>
<1>1. CASE AppMain
  BY <1>1 DEF Network, AppMain, GotAddress, GaveUp, SetConnected, MqttAppStart, flags
<1>2. CASE BackoffTask
  BY <1>2 DEF Network, BackoffTask, TakeNotification, ChooseDelay, Reconnect, ReconnectFails, ReadBackoff,
              WriteBackoff, CompareBackoff, CapBackoff, flags
<1>3. CASE HandleWifiEvent
  BY <1>3 DEF Network, HandleWifiEvent, StaDisconnected, StaConnected, Take, StopMqtt,
              NotifyBackoff, ResetBackoff, flags
<1>4. CASE SubscribeCommands \/ PublishOnline
  BY <1>4 DEF Network, SubscribeCommands, PublishOnline, flags
<1>5. CASE Driver \/ ExampleRetries
  BY <1>5 DEF Network, Driver, Joined, JoinFails, AssociationLost, Associate, ExampleRetries, flags
<1>6. CASE OpenSession \/ SessionLost \/ WillPublished
  BY <1>6 DEF Network, OpenSession, SessionLost, WillPublished, flags
<1> QED
  BY <1>1, <1>2, <1>3, <1>4, <1>5, <1>6 DEF Network, HandleWifiEvent, Driver

\* The firmware's steps are steps of the link, or it does not see them.
THEOREM FirmwareKeepsLink == FirmwareSpec => LinkSteps
<1>1. FirmwareInit => LinkInit
  BY DEF FirmwareInit
<1>2. [FirmwareNext]_firmwareVars => [LinkNext]_linkVars
  <2> SUFFICES ASSUME [FirmwareNext]_firmwareVars PROVE [LinkNext]_linkVars
    OBVIOUS
  <2>1. CASE Board
    <3>1. UNCHANGED <<mqtt_connected, linkOnly>>
      BY <2>1, CommandSteps, LoopSteps DEF Board
    <3> QED
      BY <3>1 DEF linkVars, linkOnly, flags
  <2>2. CASE Network
    BY <2>2 DEF Network, LinkNext, HandleWifiEvent, HandleMqttEvent, External
  <2>3. CASE SessionOpens \/ SessionCloses
    BY <2>3 DEF SessionOpens, SessionCloses, LinkNext, HandleMqttEvent
  <2>4. CASE UNCHANGED firmwareVars
    BY <2>4 DEF firmwareVars, linkVars, linkOnly, flags
  <2> QED
    BY <2>1, <2>2, <2>3, <2>4 DEF FirmwareNext
<1> QED
  BY <1>1, <1>2, PTL DEF FirmwareSpec, LinkSteps

\* The esp-mqtt task is one task: what its handler has done so far, and that it
\* carries out a command only between handlers, in a session.
TaskInv ==
  /\ pc.mqtt = "connected" => ~mqtt_connected /\ session = "up"
  /\ pc.mqtt \in {"subscribe", "status"} => mqtt_connected /\ session = "up"
  /\ pc.mqtt = "disconnected" => mqtt_connected /\ session \in {"idle", "stopped"}
  /\ pc.mqtt = "idle" /\ session = "up" => mqtt_connected
  /\ session \in {"none", "idle"} /\ pc.mqtt # "disconnected" => ~mqtt_connected
  /\ command # NoCommand => pc.mqtt = "idle" /\ session = "up" /\ subscribed = "yes"

\* The steps of the network keep it.
LEMMA NetworkKeepsTask ==
  ASSUME LinkTypeOK, StartedOnce, TaskInv, Network PROVE TaskInv'
<1>0. pc \in Pcs /\ mqtt_connected \in BOOLEAN
  BY DEF LinkTypeOK, Pcs, MainPcs, HandlerPcs, BackoffPcs, MqttPcs
<1>1. UNCHANGED <<mqtt_connected, command>>
  BY NetworkKeepsFlag DEF samplingOnly
<1>2. CASE pc'.mqtt = pc.mqtt /\ UNCHANGED <<session, subscribed>>
  BY <1>1, <1>2 DEF TaskInv
<1>3. CASE AppMain
  <2>1. CASE MqttAppStart
    <3>1. session = "none" /\ pc'.mqtt = pc.mqtt /\ session' = "idle"
      BY <1>0, <2>1, StepMain DEF MqttAppStart, StartedOnce, MainPcs
    <3> QED
      BY <1>1, <3>1 DEF TaskInv
  <2>2. CASE GotAddress \/ GaveUp \/ SetConnected
    <3>1. UNCHANGED <<session, subscribed>>
      BY <2>2 DEF GotAddress, GaveUp, SetConnected, broker
    <3> QED
      BY <1>2, <1>3, <3>1, MainEffects
  <2> QED
    BY <1>3, <2>1, <2>2 DEF AppMain
<1>4. CASE BackoffTask
  BY <1>2, <1>4, BackoffEffects DEF Mqtt
<1>5. CASE StaDisconnected \/ StaConnected \/ NotifyBackoff \/ ResetBackoff
  <2>1. pc'.mqtt = pc.mqtt
    BY <1>0, <1>5, StepHandler DEF StaDisconnected, StaConnected, NotifyBackoff, ResetBackoff, HandlerPcs
  <2>2. UNCHANGED <<session, subscribed>>
    BY <1>5 DEF StaDisconnected, StaConnected, Take, NotifyBackoff, ResetBackoff, broker
  <2> QED
    BY <1>2, <2>1, <2>2
<1>6. CASE StopMqtt /\ (session' # session => EspMqttFree)
  <2>1. CASE /\ mqtt_connected /\ session \in {"idle", "up"} /\ pc.mqtt = "idle"
             /\ session' = "stopped" /\ pc'.mqtt \in {"idle", "disconnected"}
    <3>1. command' = NoCommand
      BY <1>1, <1>6, <2>1 DEF EspMqttFree
    <3> QED
      BY <1>1, <2>1, <3>1 DEF TaskInv
  <2>2. CASE Step("handler", "stop", "notify") /\ UNCHANGED <<session, subscribed>>
    BY <1>0, <1>2, <2>2, StepHandler DEF HandlerPcs
  <2>3. CASE /\ mqtt_connected /\ session \in {"idle", "up"} /\ pc.mqtt = "idle"
             /\ session' = "stopped" /\ Step("handler", "stop", "notify")
    <3>1. pc'.mqtt = "idle"
      BY <1>0, <2>3, StepHandler DEF HandlerPcs
    <3> QED
      BY <2>1, <2>3, <3>1
  <2>4. CASE /\ mqtt_connected /\ session \in {"idle", "up"} /\ pc.mqtt = "idle"
             /\ session' = "stopped"
             /\ pc' = [pc EXCEPT !.handler = "notify", !.mqtt = "disconnected"]
    <3>1. pc'.mqtt = "disconnected"
      BY <1>0, <2>4 DEF Pcs
    <3> QED
      BY <2>1, <2>4, <3>1
  <2> QED
    BY <1>6, <2>2, <2>3, <2>4 DEF StopMqtt
<1>7. CASE SubscribeCommands \/ PublishOnline
  <2>1. /\ pc.mqtt \in {"subscribe", "status"} /\ pc'.mqtt \in {"status", "idle"}
        /\ session' = session
    BY <1>0, <1>7, StepMqtt DEF SubscribeCommands, PublishOnline, MqttPcs
  <2> QED
    BY <1>1, <2>1 DEF TaskInv
<1>8. CASE Driver
  BY <1>2, <1>8, DriverEffects DEF broker
<1>9. CASE ExampleRetries \/ WillPublished
  BY <1>2, <1>9 DEF ExampleRetries, WillPublished, broker
<1>10. CASE EspMqttFree /\ OpenSession
  <2>1. /\ session = "idle" /\ pc.mqtt = "idle" /\ session' = "up" /\ pc'.mqtt = "connected"
    BY <1>0, <1>10, StepMqtt DEF OpenSession, MqttPcs
  <2> QED
    BY <1>1, <1>10, <2>1 DEF TaskInv, EspMqttFree
<1>11. CASE EspMqttFree /\ SessionLost
  <2>1. /\ session = "up" /\ pc.mqtt = "idle" /\ session' = "idle" /\ pc'.mqtt = "disconnected"
    BY <1>0, <1>11, StepMqtt DEF SessionLost, MqttPcs
  <2> QED
    BY <1>1, <1>11, <2>1 DEF TaskInv, EspMqttFree
<1> QED
  BY <1>3, <1>4, <1>5, <1>6, <1>7, <1>8, <1>9, <1>10, <1>11 DEF Network, Driver

\* The esp-mqtt task is one task in every behaviour of the firmware.
LEMMA OneTask == FirmwareSpec => []TaskInv
<1>1. FirmwareInit => TaskInv
  BY DEF FirmwareInit, LinkInit, SamplingInit, TaskInv
<1>2. LinkTypeOK /\ StartedOnce /\ TaskInv /\ [FirmwareNext]_firmwareVars => TaskInv'
  <2> SUFFICES ASSUME LinkTypeOK, StartedOnce, TaskInv, [FirmwareNext]_firmwareVars PROVE TaskInv'
    OBVIOUS
  <2>0. pc \in Pcs
    BY DEF LinkTypeOK, Pcs, MainPcs, HandlerPcs, BackoffPcs, MqttPcs
  <2>1. CASE Board
    <3>1. UNCHANGED <<mqtt_connected, pc, session, subscribed>>
      BY <2>1, CommandSteps, LoopSteps DEF Board, linkOnly, broker
    <3>2. CASE MainLoop
      BY <3>1, <3>2, LoopSteps DEF TaskInv
    <3>3. CASE session = "up" /\ pc.mqtt = "idle" /\ HandleCommand
      <4>1. subscribed = "yes"
        BY <3>3, CommandSteps DEF TaskInv
      <4> QED
        BY <3>1, <3>3, <4>1 DEF TaskInv
    <3> QED
      BY <2>1, <3>2, <3>3 DEF Board
  <2>2. CASE SessionOpens
    <3>1. /\ pc.mqtt = "connected" /\ pc'.mqtt = "subscribe" /\ mqtt_connected' = TRUE
          /\ UNCHANGED <<session, subscribed, command>>
      BY <2>0, <2>2, StepMqtt DEF SessionOpens, MqttConnected, broker, samplingOnly, MqttPcs
    <3> QED
      BY <3>1 DEF TaskInv
  <2>3. CASE SessionCloses
    <3>1. /\ pc.mqtt = "disconnected" /\ pc'.mqtt = "idle" /\ mqtt_connected' = FALSE
          /\ UNCHANGED <<session, subscribed, command>>
      BY <2>0, <2>3, StepMqtt DEF SessionCloses, MqttDisconnected, broker, MqttPcs
    <3> QED
      BY <3>1 DEF TaskInv
  <2>4. CASE UNCHANGED firmwareVars
    BY <2>4 DEF firmwareVars, linkOnly, samplingOnly, broker, TaskInv
  <2> QED
    BY <2>1, <2>2, <2>3, <2>4, NetworkKeepsTask DEF FirmwareNext
<1> QED
  BY <1>1, <1>2, FirmwareKeepsLink, LinkTyping, ClientStarted, PTL DEF FirmwareSpec

\* The firmware's steps are steps of the sampling half as well: the flag goes up
\* only when it is down, and down only when it is up and no command is under way,
\* as SubboardSampling supposes of the session.
THEOREM FirmwareKeepsSampling == FirmwareSpec => SamplingSpec
<1>1. FirmwareInit => SamplingInit
  BY DEF FirmwareInit
<1>2. LinkTypeOK /\ TaskInv /\ [FirmwareNext]_firmwareVars => [SamplingNext]_samplingVars
  <2> SUFFICES ASSUME LinkTypeOK, TaskInv, [FirmwareNext]_firmwareVars PROVE [SamplingNext]_samplingVars
    OBVIOUS
  <2>1. CASE Board
    BY <2>1 DEF Board, HandleCommand, SamplingNext, MqttTask
  <2>2. CASE Network
    BY <2>2, NetworkKeepsFlag DEF samplingOnly, samplingVars
  <2>3. CASE SessionOpens
    <3>1. ~mqtt_connected /\ mqtt_connected' = TRUE
      BY <2>3 DEF SessionOpens, MqttConnected, Step, TaskInv
    <3>2. loop # "trapped" /\ SessionOpened
      BY <2>3, <3>1 DEF SessionOpens, SessionOpened, samplingOnly
    <3> QED
      BY <3>2 DEF SamplingNext, MqttTask
  <2>4. CASE SessionCloses
    <3>1. pc.mqtt = "disconnected" /\ mqtt_connected' = FALSE
      BY <2>4 DEF SessionCloses, MqttDisconnected, Step
    <3>2. mqtt_connected /\ command = NoCommand
      BY <3>1 DEF TaskInv
    <3>3. loop # "trapped" /\ SessionClosed
      BY <2>4, <3>1, <3>2 DEF SessionCloses, SessionClosed
    <3> QED
      BY <3>3 DEF SamplingNext, MqttTask
  <2>5. CASE UNCHANGED firmwareVars
    BY <2>5 DEF firmwareVars, samplingOnly, samplingVars
  <2> QED
    BY <2>1, <2>2, <2>3, <2>4, <2>5 DEF FirmwareNext
<1> QED
  BY <1>1, <1>2, OneTask, FirmwareKeepsLink, LinkTyping, PTL DEF FirmwareSpec, SamplingSpec

\* What is proved of the halves holds on the board, and a command is carried out
\* only in a session that has the command topic and is online at the broker.
THEOREM FirmwareSafe ==
  FirmwareSpec =>
    [](/\ BackoffInRange /\ WifiFlagTrue /\ SessionAnnounced
       /\ LatchIsAnnounced /\ StopStops
       /\ command # NoCommand => session = "up" /\ subscribed = "yes" /\ status = "online")
<1>1. TaskInv /\ SessionAnnounced => (command # NoCommand => session = "up" /\ subscribed = "yes" /\ status = "online")
  BY DEF TaskInv, SessionAnnounced
<1> QED
  BY <1>1, FirmwareKeepsLink, FirmwareKeepsSampling, OneTask, DelayBounded, WifiFlag, Announcement,
     LatchAnnounced, Stopping, PTL
=============================================================================
