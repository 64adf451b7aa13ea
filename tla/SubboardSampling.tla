--------------------------- MODULE SubboardSampling ---------------------------
(***************************************************************************)
(* Sampling, telemetry and alarms of the sub-board (unit/main/app_main.c   *)
(* with components/adc_gpio_probe): the main loop task reads the probe,    *)
(* publishes a frame and examines it, while the esp-mqtt task carries out  *)
(* commands that write the same global variables without a lock.  A step   *)
(* is what a task does up to its next access to one of them.               *)
(*                                                                         *)
(* Readings and limits are integers.  When the interval of the main loop   *)
(* has elapsed is left open.  Of an alarm only its index is kept: the      *)
(* place of the reading in the frame, which is shorter if a channel cannot *)
(* be read.                                                                *)
(***************************************************************************)
EXTENDS SubboardState, Integers, Sequences

CONSTANTS
  MaxChannels,  \* channels of the probe
  Readings,     \* values a channel can have
  Limits,       \* [lower, upper] pairs that set_alarm commands carry
  Default,      \* the limits of the configuration
  Rates,        \* sample rates that start commands carry
  UploadInterval, \* CONFIG_HETERO_DATA_UPLOAD_INTERVAL
  MaxCommands,  \* bound: commands received
  MaxLosses     \* bound: losses of the MQTT session

ASSUME SamplingAssumption ==
  /\ MaxChannels \in Nat \ {0}
  /\ Readings \subseteq Int
  /\ Limits \subseteq [lower : Int, upper : Int] /\ Default \in Limits
  /\ Rates \subseteq Int /\ UploadInterval \in Nat \ {0}
  /\ MaxCommands \in Nat /\ MaxLosses \in Nat

VARIABLES
  initialized,  \* the probe: adc_gpio_probe_init succeeded
  sampling,     \* the probe: between start and stop
  telemetry_interval_ms, alarm_enabled, upper, lower, alarm_active,
  loop,         \* program counter of main_loop_task
  frame,        \* its local readings
  index,        \* its place in the frame
  command,      \* the command being carried out, with the next step of it
  excursion,    \* history, by index: "none", "untold", "told" or "excused"
  sinceStop,    \* history: frames published since sampling was stopped
  commands, losses

alarms == <<alarm_enabled, upper, lower, alarm_active>>
samplingVars == <<initialized, sampling, mqtt_connected, telemetry_interval_ms, alarms, loop,
                  frame, index, command, excursion, sinceStop, commands, losses>>

Indexes == 1..MaxChannels
NoCommand == [pc |-> "none"]

\* After components_init, which starts a probe that it could initialise.
SamplingInit ==
  /\ mqtt_connected = FALSE
  /\ initialized \in BOOLEAN /\ sampling = initialized
  /\ telemetry_interval_ms = UploadInterval
  /\ alarm_enabled = TRUE
  /\ upper = Default.upper /\ lower = Default.lower
  /\ alarm_active = [i \in Indexes |-> FALSE]
  /\ loop = "wait" /\ frame = <<>> /\ index = 1
  /\ command = NoCommand
  /\ excursion = [i \in Indexes |-> "none"]
  /\ sinceStop = 0 /\ commands = 0 /\ losses = 0

-----------------------------------------------------------------------------
(* main_loop_task.                                                         *)

Loop(pc, next) ==
  /\ loop = pc
  /\ loop' = next
  /\ UNCHANGED <<initialized, mqtt_connected, sampling, telemetry_interval_ms, alarm_enabled,
                 upper, lower, command, commands, losses>>

\* Mutant of StartFrame: a stopped probe is read as long as it is initialised.
StartFrameAlways ==
  /\ mqtt_connected
  /\ Loop("wait", "read")
  /\ UNCHANGED <<frame, index, alarm_active, excursion, sinceStop>>

StartFrame ==
  /\ mqtt_connected /\ sampling
  /\ Loop("wait", "read")
  /\ UNCHANGED <<frame, index, alarm_active, excursion, sinceStop>>

\* Mutant of ReadAll: one reading more than there is room for.
ReadAllPast ==
  /\ \E n \in 0..(MaxChannels + 1) : frame' \in [1..n -> Readings]
  /\ Loop("read", "publish")
  /\ UNCHANGED <<index, alarm_active, excursion, sinceStop>>

\* adc_gpio_probe_read_all: a channel that cannot be read is left out and the
\* readings after it move up.
ReadAll ==
  /\ \E n \in 0..MaxChannels : frame' \in [1..n -> Readings]
  /\ Loop("read", "publish")
  /\ UNCHANGED <<index, alarm_active, excursion, sinceStop>>

\* mqtt_publish_telemetry names its rate, 1000 / interval.  An interval of 0 is
\* undefined behaviour: a RISC-V processor (ESP32-C6) goes on with some rate,
PublishTelemetry ==
  /\ sinceStop' = IF mqtt_connected /\ ~sampling THEN sinceStop + 1 ELSE sinceStop
  /\ Loop("publish", "enabled")
  /\ UNCHANGED <<frame, index, alarm_active, excursion>>

\* an Xtensa processor (ESP32, ESP32-S3) traps and the board panics.
Trap ==
  /\ mqtt_connected /\ telemetry_interval_ms = 0
  /\ Loop("publish", "trapped")
  /\ UNCHANGED <<frame, index, alarm_active, excursion, sinceStop>>

(* check_alarm_thresholds.                                                 *)

CheckEnabled ==
  /\ \/ alarm_enabled /\ frame # <<>> /\ Loop("enabled", "upper") /\ UNCHANGED frame
     \/ ~(alarm_enabled /\ frame # <<>>) /\ Loop("enabled", "wait") /\ frame' = <<>>
  /\ UNCHANGED <<index, alarm_active, excursion, sinceStop>>

CompareUpper ==
  /\ Loop("upper", IF frame[index] > upper THEN "exceeded" ELSE "lower")
  /\ UNCHANGED <<frame, index, alarm_active, excursion, sinceStop>>

CompareLower ==
  /\ Loop("lower", IF frame[index] < lower THEN "exceeded" ELSE "within")
  /\ UNCHANGED <<frame, index, alarm_active, excursion, sinceStop>>

\* The loop goes on with the next reading, or is done with the frame.
Examined(pc) ==
  /\ \/ index < Len(frame) /\ Loop(pc, "upper") /\ index' = index + 1 /\ UNCHANGED frame
     \/ index >= Len(frame) /\ Loop(pc, "wait") /\ index' = 1 /\ frame' = <<>>
  /\ UNCHANGED sinceStop

Suppress ==
  /\ alarm_active[index]
  /\ Examined("exceeded")
  /\ excursion' = [excursion EXCEPT ![index] = IF @ = "none" THEN "untold" ELSE @]
  /\ UNCHANGED alarm_active

FindNew ==
  /\ ~alarm_active[index]
  /\ Loop("exceeded", "raise")
  /\ excursion' = [excursion EXCEPT ![index] = "untold"]
  /\ UNCHANGED <<frame, index, alarm_active, sinceStop>>

Raise ==
  /\ Loop("raise", "alarm")
  /\ alarm_active' = [alarm_active EXCEPT ![index] = TRUE]
  /\ UNCHANGED <<frame, index, excursion, sinceStop>>

\* mqtt_publish_alarm says nothing while the session is down.
PublishAlarm ==
  /\ Examined("alarm")
  /\ excursion' = [excursion EXCEPT ![index] = IF ~alarm_active[index] THEN "none"
                                               ELSE IF mqtt_connected THEN "told" ELSE "excused"]
  /\ UNCHANGED alarm_active

BackInRange ==
  /\ Examined("within")
  /\ alarm_active' = [alarm_active EXCEPT ![index] = FALSE]
  /\ excursion' = [excursion EXCEPT ![index] = "none"]

MainLoop ==
  \/ StartFrame \/ ReadAll \/ PublishTelemetry \/ Trap
  \/ CheckEnabled \/ CompareUpper \/ CompareLower
  \/ Suppress \/ FindNew \/ Raise \/ PublishAlarm \/ BackInRange

-----------------------------------------------------------------------------
(* The esp-mqtt task: mqtt_handle_command and the session's events.        *)

Receive(next) ==
  /\ mqtt_connected /\ command = NoCommand
  /\ commands < MaxCommands
  /\ commands' = commands + 1
  /\ command' = next
  /\ UNCHANGED <<initialized, mqtt_connected, sampling, telemetry_interval_ms, alarms, loop, frame,
                 index, excursion, sinceStop, losses>>

Command(pc, next) ==
  /\ command.pc = pc
  /\ command' = next
  /\ UNCHANGED <<initialized, mqtt_connected, loop, frame, index, commands, losses>>

SetInterval ==
  /\ Command("start", [pc |-> "probe"])
  /\ telemetry_interval_ms' = IF command.rate > 0 THEN 1000 \div command.rate ELSE 1
  /\ UNCHANGED <<sampling, alarms, excursion, sinceStop>>

\* The command is answered "ok" whether or not the probe could be started.
StartSampling ==
  /\ Command("probe", NoCommand)
  /\ sampling' = initialized
  /\ sinceStop' = 0
  /\ UNCHANGED <<telemetry_interval_ms, alarms, excursion>>

StopSampling ==
  /\ Command("stop", NoCommand)
  /\ sampling' = FALSE
  /\ UNCHANGED <<telemetry_interval_ms, alarms, excursion, sinceStop>>

SetUpper ==
  /\ Command("upper", [command EXCEPT !.pc = "lower"])
  /\ upper' = command.limits.upper
  /\ UNCHANGED <<sampling, telemetry_interval_ms, alarm_enabled, lower, alarm_active, excursion, sinceStop>>

SetLower ==
  /\ Command("lower", [command EXCEPT !.pc = "enabled"])
  /\ lower' = command.limits.lower
  /\ UNCHANGED <<sampling, telemetry_interval_ms, alarm_enabled, upper, alarm_active, excursion, sinceStop>>

SetEnabled ==
  /\ Command("enabled", [command EXCEPT !.pc = "reset"])
  /\ alarm_enabled' = command.enabled
  /\ UNCHANGED <<sampling, telemetry_interval_ms, upper, lower, alarm_active, excursion, sinceStop>>

\* What an excursion is after the limits have changed: a new one, but for the one
\* that the main loop is just about to raise.
Afresh == [i \in Indexes |-> IF loop = "raise" /\ i = index THEN "untold" ELSE "none"]

\* Mutant of ResetAlarms: the latches are left as they are.
ResetNothing ==
  /\ Command("reset", NoCommand)
  /\ excursion' = Afresh
  /\ UNCHANGED <<sampling, telemetry_interval_ms, alarms, sinceStop>>

ResetAlarms ==
  /\ Command("reset", NoCommand)
  /\ alarm_active' = [i \in Indexes |-> FALSE]
  /\ excursion' = Afresh
  /\ UNCHANGED <<sampling, telemetry_interval_ms, alarm_enabled, upper, lower, sinceStop>>

SessionOpened ==
  /\ ~mqtt_connected
  /\ mqtt_connected' = TRUE
  /\ UNCHANGED <<initialized, sampling, telemetry_interval_ms, alarms, loop, frame, index, command,
                 excursion, sinceStop, commands, losses>>

SessionClosed ==
  /\ mqtt_connected /\ command = NoCommand
  /\ losses < MaxLosses
  /\ losses' = losses + 1
  /\ mqtt_connected' = FALSE
  /\ UNCHANGED <<initialized, sampling, telemetry_interval_ms, alarms, loop, frame, index, command,
                 excursion, sinceStop, commands>>

Commands ==
  [pc : {"start"}, rate : Rates] \cup [pc : {"stop"}] \cup [pc : {"upper"}, limits : Limits, enabled : BOOLEAN]

MqttTask ==
  \/ \E c \in Commands : Receive(c)
  \/ SetInterval \/ StartSampling \/ StopSampling
  \/ SetUpper \/ SetLower \/ SetEnabled \/ ResetAlarms
  \/ SessionOpened \/ SessionClosed

SamplingNext == MainLoop \/ (loop # "trapped" /\ MqttTask)

SamplingSpec == SamplingInit /\ [][SamplingNext]_samplingVars

-----------------------------------------------------------------------------
(* Properties.                                                             *)

\* Types.
SamplingTypeOK ==
  /\ initialized \in BOOLEAN /\ sampling \in BOOLEAN
  /\ mqtt_connected \in BOOLEAN /\ alarm_enabled \in BOOLEAN
  /\ telemetry_interval_ms \in Nat
  /\ upper \in Int /\ lower \in Int
  /\ alarm_active \in [Indexes -> BOOLEAN]
  /\ loop \in {"wait", "read", "publish", "enabled", "upper", "lower", "exceeded",
               "raise", "alarm", "within", "trapped"}
  /\ frame \in Seq(Readings) /\ Len(frame) <= MaxChannels
  /\ index \in Indexes
  /\ command \in {NoCommand} \cup [pc : {"start"}, rate : Rates] \cup [pc : {"stop", "probe"}]
       \cup [pc : {"upper", "lower", "enabled", "reset"}, limits : Limits, enabled : BOOLEAN]
  /\ excursion \in [Indexes -> {"none", "untold", "told", "excused"}]
  /\ sinceStop \in Nat /\ commands \in Nat /\ losses \in Nat

\* Between two frames a latch is up exactly for an excursion that was published
\* since the limits were last set, unless the session was down at that moment:
\* commands that change limits and latches while a frame is examined neither
\* silence an excursion nor leave a latch without one.
LatchIsAnnounced ==
  loop = "wait" =>
    \A i \in Indexes : excursion[i] # "excused" =>
      (alarm_active[i] <=> excursion[i] = "told") /\ excursion[i] # "untold"

\* After sampling was stopped at most the frame under way is still published.
StopStops == sinceStop <= 1
=============================================================================
