------------------------------- MODULE Firmware -------------------------------
(***************************************************************************)
(* The sub-board's firmware as a whole: SubboardLink and SubboardSampling  *)
(* with the variable they share.  The esp-mqtt task is one task: it takes  *)
(* a command only in a session and when no handler runs, and reports what  *)
(* became of the session only between commands.  After a trap nothing more *)
(* happens until the next boot.                                            *)
(***************************************************************************)
EXTENDS SubboardLink, SubboardSampling

\* The variables of one half that the other does not know.
linkOnly == <<pc, wifi_connected, delays, wifi, broker, past>>
samplingOnly == <<initialized, sampling, telemetry_interval_ms, alarms, loop, frame, index,
                  command, excursion, sinceStop, commands, losses>>

firmwareVars == <<linkOnly, samplingOnly, mqtt_connected>>

FirmwareInit == LinkInit /\ SamplingInit

-----------------------------------------------------------------------------
\* A message comes only to a session that has the command topic; the steps of a
\* command follow.
HandleCommand ==
  \/ subscribed = "yes" /\ \E c \in Commands : Receive(c)
  \/ SetInterval \/ StartSampling \/ StopSampling
  \/ SetUpper \/ SetLower \/ SetEnabled \/ ResetAlarms

\* The main loop, and the esp-mqtt task with a message.
Board ==
  /\ \/ MainLoop
     \/ loop # "trapped" /\ session = "up" /\ pc.mqtt = "idle" /\ HandleCommand
  /\ UNCHANGED linkOnly

\* The esp-mqtt task carries out no command: it can take notice of the session, and
\* esp_mqtt_client_stop, which waits for it to end, returns.
EspMqttFree == command = NoCommand

\* Everything of the link that leaves mqtt_connected alone.
Network ==
  /\ loop # "trapped"
  /\ \/ AppMain \/ BackoffTask
     \/ StaDisconnected \/ NotifyBackoff \/ StaConnected \/ ResetBackoff
     \/ StopMqtt /\ (session' # session => EspMqttFree)
     \/ SubscribeCommands \/ PublishOnline
     \/ Joined \/ JoinFails \/ AssociationLost \/ ExampleRetries \/ WillPublished
     \/ EspMqttFree /\ (OpenSession \/ SessionLost)
  /\ UNCHANGED samplingOnly

SessionOpens == loop # "trapped" /\ MqttConnected /\ UNCHANGED samplingOnly

SessionCloses ==
  /\ loop # "trapped" /\ MqttDisconnected
  /\ losses < MaxLosses /\ losses' = losses + 1
  /\ UNCHANGED <<initialized, sampling, telemetry_interval_ms, alarms, loop, frame, index,
                 command, excursion, sinceStop, commands>>

FirmwareNext == Board \/ Network \/ SessionOpens \/ SessionCloses

FirmwareSpec == FirmwareInit /\ [][FirmwareNext]_firmwareVars
=============================================================================
