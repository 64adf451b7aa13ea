----------------------------- MODULE SubboardLink -----------------------------
(***************************************************************************)
(* The network side of the sub-board's firmware (unit/main/app_main.c):    *)
(* start-up, the Wi-Fi event handler, the backoff task that reconnects,    *)
(* and the handler of MQTT events, four tasks that share plain global      *)
(* variables.  A step is what one task does between two accesses to them.  *)
(*                                                                         *)
(* The Wi-Fi driver, example_connect (which retries on its own for a       *)
(* while), the esp-mqtt client and the broker are external.  The driver    *)
(* posts its events in order; the esp-mqtt task calls the MQTT handler     *)
(* itself, so it does nothing else until the handler returns.              *)
(***************************************************************************)
EXTENDS SubboardState, Integers, Sequences

CONSTANTS
  BackoffBase,  \* WIFI_BACKOFF_BASE_MS
  BackoffMax,   \* WIFI_BACKOFF_MAX_MS
  BackoffJitter,\* WIFI_BACKOFF_JITTER_MS
  MaxEvents,    \* bound: Wi-Fi events waiting for the event task
  MaxFaults     \* bound: losses of the access point or of a session

ASSUME LinkAssumption ==
  /\ BackoffBase \in Nat \ {0} /\ BackoffMax \in Nat
  /\ BackoffBase <= BackoffMax /\ BackoffJitter \in Nat \ {0}
  /\ MaxEvents \in Nat /\ MaxFaults \in Nat

VARIABLES
  pc,               \* the next step of every task
  wifi_connected,
  wifi_backoff_ms,
  delay_ms,         \* the pause the backoff task makes, 0 when it makes none
  doubled,          \* the backoff task's register: twice the delay it read
  notified,         \* wifi_backoff_task_handle has a notification
  assoc,            \* external: the station is "down", "joining" or "up"
  wifiEvents,       \* external: WIFI_EVENTs not handled yet
  session,          \* external: esp-mqtt is at "none", "idle", "up" or "stopped"
  subscribed,       \* external: does the session have the command topic, "no", "yes",
                    \* or "failed" when esp_mqtt_client_subscribe returned an error
  status,           \* external: the retained status message at the broker
  will,             \* external: the broker has the will of a session it thinks alive
  late,             \* history: main raised wifi_connected after the loss
  faults

flags == <<wifi_connected, mqtt_connected>>
delays == <<wifi_backoff_ms, delay_ms, doubled, notified>>
wifi == <<assoc, wifiEvents>>
broker == <<session, subscribed, status, will>>
past == <<late, faults>>
linkVars == <<pc, flags, delays, wifi, broker, past>>

\* example_connect has asked the driver to join.
LinkInit ==
  /\ pc = [main |-> "connect", handler |-> "idle", backoff |-> "wait", mqtt |-> "idle"]
  /\ wifi_connected = FALSE /\ mqtt_connected = FALSE
  /\ wifi_backoff_ms = BackoffBase /\ delay_ms = 0 /\ doubled = 0 /\ notified = FALSE
  /\ assoc = "joining" /\ wifiEvents = <<>>
  /\ session = "none" /\ subscribed = "no" /\ status = "none" /\ will = FALSE
  /\ late = FALSE /\ faults = 0

Step(task, from, to) == pc[task] = from /\ pc' = [pc EXCEPT ![task] = to]

-----------------------------------------------------------------------------
(* app_main.                                                               *)

\* example_connect saw an address and is about to return ESP_OK ...
GotAddress ==
  /\ assoc = "up" /\ Step("main", "connect", "flag")
  /\ UNCHANGED <<flags, delays, wifi, broker, past>>

\* ... or has used up its retries.
GaveUp ==
  /\ assoc # "up" /\ Step("main", "connect", "start")
  /\ UNCHANGED <<flags, delays, wifi, broker, past>>

SetConnected ==
  /\ Step("main", "flag", "start")
  /\ wifi_connected' = TRUE
  /\ late' = (assoc # "up" /\ wifiEvents = <<>>)
  /\ UNCHANGED <<mqtt_connected, delays, wifi, broker, faults>>

MqttAppStart ==
  /\ Step("main", "start", "done")
  /\ session' = "idle"
  /\ UNCHANGED <<flags, delays, wifi, subscribed, status, will, past>>

-----------------------------------------------------------------------------
(* The event task: wifi_event_handler.                                     *)

Take(event, connected) ==
  /\ wifiEvents # <<>> /\ Head(wifiEvents) = event
  /\ wifiEvents' = Tail(wifiEvents)
  /\ wifi_connected' = connected
  /\ late' = FALSE
  /\ UNCHANGED <<mqtt_connected, delays, assoc, broker, faults>>

\* Mutant of StaDisconnected: only a board with a session notices.
StaDisconnectedOnline ==
  Step("handler", "idle", "stop") /\ Take("disconnected", wifi_connected /\ ~mqtt_connected)

StaDisconnected == Step("handler", "idle", "stop") /\ Take("disconnected", FALSE)

\* esp_mqtt_client_stop waits for the esp-mqtt task to end.  It fails, which
\* nobody looks at, if the client is stopped already or cannot send its
\* farewell; it may or may not report the end of the session.
StopMqtt ==
  /\ \/ /\ mqtt_connected /\ session \in {"idle", "up"} /\ pc.mqtt = "idle"
        /\ session' = "stopped"
        /\ subscribed' = "no"
        /\ \/ Step("handler", "stop", "notify")
           \/ pc.handler = "stop" /\ pc' = [pc EXCEPT !.handler = "notify", !.mqtt = "disconnected"]
     \/ Step("handler", "stop", "notify") /\ UNCHANGED <<session, subscribed>>
  /\ UNCHANGED <<flags, delays, wifi, status, will, past>>

\* Mutant of NotifyBackoff: the task is not woken.
NotifyNobody ==
  /\ Step("handler", "notify", "idle")
  /\ UNCHANGED <<flags, delays, wifi, broker, past>>

NotifyBackoff ==
  /\ Step("handler", "notify", "idle")
  /\ notified' = TRUE
  /\ UNCHANGED <<flags, wifi_backoff_ms, delay_ms, doubled, wifi, broker, past>>

StaConnected == Step("handler", "idle", "reset") /\ Take("connected", TRUE)

ResetBackoff ==
  /\ Step("handler", "reset", "idle")
  /\ wifi_backoff_ms' = BackoffBase
  /\ UNCHANGED <<flags, delay_ms, doubled, notified, wifi, broker, past>>

-----------------------------------------------------------------------------
(* The backoff task: wifi_backoff_task.                                    *)

\* ulTaskNotifyTake clears the notification; a board that is connected by now
\* waits for the next one.
TakeNotification ==
  /\ notified /\ notified' = FALSE
  /\ Step("backoff", "wait", IF wifi_connected THEN "wait" ELSE "choose")
  /\ UNCHANGED <<flags, wifi_backoff_ms, delay_ms, doubled, wifi, broker, past>>

\* The pause is the delay and esp_random() % WIFI_BACKOFF_JITTER_MS.
ChooseDelay ==
  /\ Step("backoff", "choose", "delay")
  /\ \E jitter \in 0 .. BackoffJitter - 1 : delay_ms' = wifi_backoff_ms + jitter
  /\ UNCHANGED <<flags, wifi_backoff_ms, doubled, notified, wifi, broker, past>>

\* After vTaskDelay; esp_wifi_connect is called unless the board is connected.
Reconnect ==
  /\ Step("backoff", "delay", "double")
  /\ delay_ms' = 0
  /\ assoc' = IF ~wifi_connected /\ assoc = "down" THEN "joining" ELSE assoc
  /\ UNCHANGED <<flags, wifi_backoff_ms, doubled, notified, wifiEvents, broker, past>>

\* esp_wifi_connect is refused: the task notifies itself.
ReconnectFails ==
  /\ ~wifi_connected
  /\ Step("backoff", "delay", "wait")
  /\ delay_ms' = 0
  /\ notified' = TRUE
  /\ UNCHANGED <<flags, wifi_backoff_ms, doubled, wifi, broker, past>>

\* Mutant of ReadBackoff: the limit is taken off instead of compared.
ReadBackoffLess ==
  /\ Step("backoff", "double", "store")
  /\ doubled' = 2 * wifi_backoff_ms - BackoffMax
  /\ UNCHANGED <<flags, wifi_backoff_ms, delay_ms, notified, wifi, broker, past>>

\* wifi_backoff_ms *= 2 reads and writes; so does the cap after it.
ReadBackoff ==
  /\ Step("backoff", "double", "store")
  /\ doubled' = 2 * wifi_backoff_ms
  /\ UNCHANGED <<flags, wifi_backoff_ms, delay_ms, notified, wifi, broker, past>>

WriteBackoff ==
  /\ Step("backoff", "store", "compare")
  /\ wifi_backoff_ms' = doubled
  /\ UNCHANGED <<flags, delay_ms, doubled, notified, wifi, broker, past>>

CompareBackoff ==
  /\ Step("backoff", "compare", IF wifi_backoff_ms > BackoffMax THEN "cap" ELSE "wait")
  /\ UNCHANGED <<flags, delays, wifi, broker, past>>

\* Mutant of CapBackoff: the delay is left where it is.
CapNothing ==
  /\ Step("backoff", "cap", "wait")
  /\ UNCHANGED <<flags, delays, wifi, broker, past>>

CapBackoff ==
  /\ Step("backoff", "cap", "wait")
  /\ wifi_backoff_ms' = BackoffMax
  /\ UNCHANGED <<flags, delay_ms, doubled, notified, wifi, broker, past>>

-----------------------------------------------------------------------------
(* The esp-mqtt task: mqtt_event_handler.                                  *)

\* Mutant of MqttConnected: the flag is left for the end of the handler.
MqttConnectedLater ==
  /\ Step("mqtt", "connected", "subscribe")
  /\ UNCHANGED <<flags, delays, wifi, broker, past>>

MqttConnected ==
  /\ Step("mqtt", "connected", "subscribe")
  /\ mqtt_connected' = TRUE
  /\ UNCHANGED <<wifi_connected, delays, wifi, broker, past>>

\* The msg_id is only logged, also when it is an error.
SubscribeCommands ==
  /\ Step("mqtt", "subscribe", "status")
  /\ subscribed' \in {"yes", "failed"}
  /\ UNCHANGED <<flags, delays, wifi, session, status, will, past>>

\* mqtt_publish_status("online") says nothing while mqtt_connected is down.
PublishOnline ==
  /\ Step("mqtt", "status", "idle")
  /\ status' = IF mqtt_connected THEN "online" ELSE status
  /\ UNCHANGED <<flags, delays, wifi, session, subscribed, will, past>>

MqttDisconnected ==
  /\ Step("mqtt", "disconnected", "idle")
  /\ mqtt_connected' = FALSE
  /\ UNCHANGED <<wifi_connected, delays, wifi, broker, past>>

-----------------------------------------------------------------------------
(* External: driver, example_connect's retries, esp-mqtt client, broker.   *)

Associate(from, to, event) ==
  /\ assoc = from /\ assoc' = to
  /\ Len(wifiEvents) < MaxEvents
  /\ wifiEvents' = Append(wifiEvents, event)
  /\ UNCHANGED <<pc, flags, delays, broker, late>>

Fault == faults < MaxFaults /\ faults' = faults + 1

Joined == Associate("joining", "up", "connected") /\ UNCHANGED faults
JoinFails == Associate("joining", "down", "disconnected") /\ UNCHANGED faults
AssociationLost == Associate("up", "down", "disconnected") /\ Fault

ExampleRetries ==
  /\ assoc = "down" /\ assoc' = "joining"
  /\ UNCHANGED <<pc, flags, delays, wifiEvents, broker, past>>

\* The broker publishes the will of a session that a new one takes over.
OpenSession ==
  /\ session = "idle" /\ assoc = "up" /\ Step("mqtt", "idle", "connected")
  /\ session' = "up" /\ subscribed' = "no"
  /\ status' = IF will THEN "offline" ELSE status
  /\ will' = TRUE
  /\ UNCHANGED <<flags, delays, wifi, past>>

SessionLost ==
  /\ session = "up" /\ Step("mqtt", "idle", "disconnected")
  /\ IF assoc = "up" THEN Fault ELSE UNCHANGED faults
  /\ session' = "idle" /\ subscribed' = "no"
  /\ UNCHANGED <<flags, delays, wifi, status, will, late>>

WillPublished ==
  /\ will /\ session # "up"
  /\ status' = "offline" /\ will' = FALSE
  /\ UNCHANGED <<pc, flags, delays, wifi, session, subscribed, past>>

-----------------------------------------------------------------------------
AppMain == GotAddress \/ GaveUp \/ SetConnected \/ MqttAppStart
HandleWifiEvent == StaDisconnected \/ StopMqtt \/ NotifyBackoff \/ StaConnected \/ ResetBackoff
BackoffTask ==
  \/ TakeNotification \/ ChooseDelay \/ Reconnect \/ ReconnectFails
  \/ ReadBackoff \/ WriteBackoff \/ CompareBackoff \/ CapBackoff
HandleMqttEvent == MqttConnected \/ SubscribeCommands \/ PublishOnline \/ MqttDisconnected
External ==
  \/ Joined \/ JoinFails \/ AssociationLost \/ ExampleRetries
  \/ OpenSession \/ SessionLost \/ WillPublished

LinkNext == AppMain \/ HandleWifiEvent \/ BackoffTask \/ HandleMqttEvent \/ External

Fairness ==
  /\ WF_linkVars(AppMain) /\ WF_linkVars(HandleWifiEvent)
  /\ WF_linkVars(BackoffTask) /\ WF_linkVars(HandleMqttEvent)
  /\ WF_linkVars(OpenSession)

\* The steps alone, which the firmware as a whole implements (Firmware).
LinkSteps == LinkInit /\ [][LinkNext]_linkVars

LinkSpec == LinkSteps /\ Fairness

-----------------------------------------------------------------------------
(* Properties.                                                             *)

\* Types.
LinkTypeOK ==
  /\ pc \in [main : {"connect", "flag", "start", "done"},
             handler : {"idle", "stop", "notify", "reset"},
             backoff : {"wait", "choose", "delay", "double", "store", "compare", "cap"},
             mqtt : {"idle", "connected", "subscribe", "status", "disconnected"}]
  /\ wifi_connected \in BOOLEAN /\ mqtt_connected \in BOOLEAN
  /\ wifi_backoff_ms \in Nat /\ delay_ms \in Nat /\ doubled \in Nat /\ notified \in BOOLEAN
  /\ assoc \in {"down", "joining", "up"}
  /\ wifiEvents \in Seq({"connected", "disconnected"})
  /\ session \in {"none", "idle", "up", "stopped"}
  /\ subscribed \in {"no", "yes", "failed"} /\ will \in BOOLEAN
  /\ status \in {"none", "online", "offline"}
  /\ late \in BOOLEAN /\ faults \in Nat

\* No pause before an attempt is shorter than the base or longer than the limit
\* and the jitter that is added to it (up to 60499 ms with a limit of 60000),
\* although the event task resets the delay while the backoff task is doubling and
\* capping it.
BackoffInRange ==
  pc.backoff = "delay" => delay_ms \in BackoffBase .. BackoffMax + BackoffJitter - 1

\* When the driver has no event left, wifi_connected says whether the board is
\* associated, unless main raised it after the loss (line 575).
WifiFlagTrue == wifiEvents = <<>> /\ ~late => (wifi_connected <=> assoc = "up")

\* Whenever a session is up and its handler has returned, the board has asked for
\* the command topic in this session, in vain if the client refused, and the
\* broker's retained status says online, whatever became of the will of an earlier
\* session.  A board whose request was refused is online and hears no command.
SessionAnnounced ==
  session = "up" /\ pc.mqtt = "idle" => subscribed # "no" /\ status = "online"

\* A board that knows it is off the network always comes to another attempt,
\* refused attempts and merged notifications notwithstanding.
WifiRetried ==
  assoc = "down" /\ ~wifi_connected
    ~> pc.backoff = "delay" \/ assoc # "down" \/ wifi_connected

\* app_main.c: MQTT "starts even without WiFi; will connect once WiFi is up".
\* A board that stays associated has a session again and again.
SessionReturns == <>[](assoc = "up" /\ wifi_connected) => []<>(session = "up")
=============================================================================
