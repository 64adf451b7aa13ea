----------------------------- MODULE AlarmSystem -----------------------------
(***************************************************************************)
(* The alarm core of the host (core/alarm_system.rs): the configured       *)
(* limits, the alarm records and the "active" latch of every channel, all  *)
(* three under one RwLock, so that every operation is one atomic step.     *)
(*                                                                         *)
(* Abstractions.  A limit is an integer, as a reading is; level and        *)
(* message of a record are left out.                                       *)
(* configure_alarm replaces the entry that has the same channel id, so the *)
(* Vec of configurations of a device is a partial function of the channel; *)
(* nothing relates records of different channels, so the Vec of records is *)
(* split by channel, in order.  A record's timestamp is the number of the  *)
(* check that raised it: it identifies the record within its channel, and  *)
(* says nothing of the wall clock that Local::now() reads.                 *)
(***************************************************************************)
EXTENDS Telemetry

CONSTANTS
  Channels,     \* channel ids a request may name: any i32
  Configs,      \* alarm configurations a request may carry
  NoConfig,     \* "this channel has no configuration"
  MaxRaised     \* bound: number of checks that raise an alarm

ConfigType == [lower : Int, upper : Int, lowerEnabled : BOOLEAN,
               upperEnabled : BOOLEAN, enabled : BOOLEAN]

ASSUME AlarmAssumption ==
  /\ Channels \subseteq Int
  /\ Configs \subseteq ConfigType
  /\ NoConfig \notin ConfigType
  /\ MaxRaised \in Nat

VARIABLES
  configs,      \* [device][channel]: its configuration, or NoConfig
  records,      \* [device][channel]: its alarm records, oldest first
  active,       \* [device][channel]: the latch "this alarm is raised"
  now           \* number of checks that raised an alarm

alarmVars == <<configs, records, active, now>>

Record == [value : Int, timestamp : Nat, acknowledged : BOOLEAN]

AlarmInit ==
  /\ configs = [d \in Devices |-> [c \in Channels |-> NoConfig]]
  /\ records = [d \in Devices |-> [c \in Channels |-> <<>>]]
  /\ active  = [d \in Devices |-> [c \in Channels |-> FALSE]]
  /\ now = 0

-----------------------------------------------------------------------------
(* Reading the state.                                                      *)

\* The two limit tests of check_data; the lower one has precedence, but both
\* lead to the same trigger.
OutOfLimits(config, value) ==
  \/ config.lowerEnabled /\ value < config.lower
  \/ config.upperEnabled /\ value > config.upper

\* check_data skips a disabled configuration and a channel the frame does not
\* have; a negative id becomes a huge usize and is skipped as well.
Examined(d, c, frame) ==
  /\ configs[d][c] # NoConfig
  /\ configs[d][c].enabled
  /\ c \in DOMAIN frame

\* Mutant of Exceeds: a reading within the limits does not lower the latch.
ExceedsSticky(d, c, frame) ==
  /\ Examined(d, c, frame)
  /\ OutOfLimits(configs[d][c], frame[c]) \/ active[d][c]

Exceeds(d, c, frame) ==
  Examined(d, c, frame) /\ OutOfLimits(configs[d][c], frame[c])

\* Mutant of Triggered: the early return on a raised alarm is missing.
TriggeredAgain(d, frame) == {c \in Channels : Exceeds(d, c, frame)}

\* The channels for which check_data returns a fresh record.
Triggered(d, frame) ==
  {c \in Channels : Exceeds(d, c, frame) /\ ~active[d][c]}

NewRecord(value) == [value |-> value, timestamp |-> now + 1, acknowledged |-> FALSE]

Unacknowledged(recs) == {i \in DOMAIN recs : ~recs[i].acknowledged}

\* Mutants of AcknowledgeFirst: the newest record; every record.
AcknowledgeNewest(recs) ==
  [i \in DOMAIN recs |->
     [recs[i] EXCEPT !.acknowledged =
        @ \/ \A j \in Unacknowledged(recs) : i >= j]]
AcknowledgeAll(recs) == [i \in DOMAIN recs |-> [recs[i] EXCEPT !.acknowledged = TRUE]]

\* acknowledge_alarm marks the first record that is not acknowledged yet.
AcknowledgeFirst(recs) ==
  [i \in DOMAIN recs |->
     [recs[i] EXCEPT !.acknowledged =
        @ \/ \A j \in Unacknowledged(recs) : i <= j]]

-----------------------------------------------------------------------------
(* Operations.                                                             *)

ConfigureAlarm(d, c, config) ==
  /\ configs' = [configs EXCEPT ![d][c] = config]
  /\ UNCHANGED <<records, active, now>>

SetAlarmEnabled(d, c, enabled) ==
  /\ configs[d][c] # NoConfig
  /\ configs' = [configs EXCEPT ![d][c].enabled = enabled]
  /\ UNCHANGED <<records, active, now>>

CheckData(d, frame) ==
  /\ Triggered(d, frame) # {} => now < MaxRaised
  /\ records' = [records EXCEPT ![d] = [c \in Channels |->
                   IF c \in Triggered(d, frame)
                   THEN Append(records[d][c], NewRecord(frame[c]))
                   ELSE records[d][c]]]
  /\ active'  = [active EXCEPT ![d] = [c \in Channels |->
                   IF Examined(d, c, frame) THEN Exceeds(d, c, frame)
                                            ELSE active[d][c]]]
  /\ now' = IF Triggered(d, frame) # {} THEN now + 1 ELSE now
  /\ UNCHANGED configs

AcknowledgeAlarm(d, c) ==
  /\ records' = [records EXCEPT ![d][c] = AcknowledgeFirst(@)]
  /\ UNCHANGED <<configs, active, now>>

\* The latch is left alone.
ClearRecords(d) ==
  /\ records' = [records EXCEPT ![d] = [c \in Channels |-> <<>>]]
  /\ UNCHANGED <<configs, active, now>>

AlarmNext ==
  \E d \in Devices :
    \/ \E c \in Channels, config \in Configs : ConfigureAlarm(d, c, config)
    \/ \E c \in Channels, enabled \in BOOLEAN : SetAlarmEnabled(d, c, enabled)
    \/ \E frame \in Frames : CheckData(d, frame)
    \/ \E c \in Channels : AcknowledgeAlarm(d, c)
    \/ ClearRecords(d)

AlarmSpec == AlarmInit /\ [][AlarmNext]_alarmVars

-----------------------------------------------------------------------------
(* Properties.                                                             *)

\* Types of the alarm state.
AlarmTypeOK ==
  /\ configs \in [Devices -> [Channels -> ConfigType \cup {NoConfig}]]
  /\ records \in [Devices -> [Channels -> Seq(Record)]]
  /\ active \in [Devices -> [Channels -> BOOLEAN]]
  /\ now \in Nat

OldestFirst(recs) ==
  \A i, j \in DOMAIN recs : i < j /\ recs[j].acknowledged => recs[i].acknowledged

\* However checks, acknowledgements and clears interleave, a channel's records
\* are acknowledged oldest first: acknowledge_alarm names only a channel, so
\* this is what tells the user which record the call has acknowledged.
OldestAcknowledgedFirst ==
  \A d \in Devices, c \in Channels : OldestFirst(records[d][c])

StampsIncrease(recs) ==
  \A i, j \in DOMAIN recs : i < j => recs[i].timestamp < recs[j].timestamp

\* Records of a channel are in the order they were raised, and no two of them
\* have the same stamp: a stamp identifies a record of its channel.
Chronological ==
  \A d \in Devices, c \in Channels : StampsIncrease(records[d][c])

\* A latch is up only on a channel that telemetry can carry and that has a
\* configuration: a frame can lower it once that configuration is enabled.
ActiveIsReachable ==
  \A d \in Devices, c \in Channels :
    active[d][c] => configs[d][c] # NoConfig /\ c >= 0

\* No step loses an alarm nobody has seen to: the unacknowledged records of a
\* channel shrink only by one acknowledgement, of the oldest of them, or by
\* clearing the whole device.
UnseenAlarmsSurvive ==
  [][\A d \in Devices, c \in Channels :
       LET before == records[d][c]
           after  == records'[d][c]
       IN  \/ \A k \in Channels : records'[d][k] = <<>>
           \/ /\ DOMAIN before \subseteq DOMAIN after
              /\ \A i \in Unacknowledged(before) :
                   \/ i \in Unacknowledged(after)
                   \/ /\ \A j \in Unacknowledged(before) : i <= j
                      /\ Len(after) = Len(before)]_alarmVars

\* One excursion raises one alarm: a record is added only to a channel whose
\* latch was down, and the same step puts the latch up, so that readings out
\* of limits in a row add nothing (trigger_alarm_inner's early return).
OneRecordPerExcursion ==
  [][\A d \in Devices, c \in Channels :
       Len(records'[d][c]) > Len(records[d][c]) =>
         /\ ~active[d][c] /\ active'[d][c]
         /\ Len(records'[d][c]) = Len(records[d][c]) + 1]_alarmVars
=============================================================================
