---------------------------- MODULE AlarmFeedProofs ----------------------------
(***************************************************************************)
(* Proofs about alarms on their way to the operator, for any devices,      *)
(* channels, frames, workers, clients and number of requests: the feed     *)
(* drives the alarm core as its specification says; no list or event that  *)
(* overtakes another shows an alarm as acknowledged that is not; alarms    *)
(* are not dropped on their way; and new excursions raise alarms as long   *)
(* as nobody changes a configuration.                                      *)
(***************************************************************************)
EXTENDS AlarmFeed, AlarmSystemProofs, SequenceTheorems

\* What is on its way, and what clients show.
Tables == [Channels -> Seq(Record)]
Triggers == [type : {"AlarmTriggered"}, device : Devices, channel : Channels, alarm : Record]
Events == Triggers \cup [type : {"AlarmsChanged"}, device : Devices, alarms : Tables]
Requests ==
  {Idle} \cup [pc : {"snapshot", "list", "emitEmpty"}, device : Devices]
         \cup [pc : {"emit", "respond"}, device : Devices, alarms : Tables]

FeedTypes ==
  /\ worker \in [Workers -> SUBSET Triggers]
  /\ request \in [Clients -> Requests]
  /\ inbox \in [Clients -> Seq(Events)]
  /\ view \in [Clients -> [Devices -> Tables]]

-----------------------------------------------------------------------------
\* A copy of a record is honest if it is not from the future and marked only if
\* the record it is a copy of is marked, or gone.
Honest(d, c, rec) ==
  /\ rec.timestamp <= now
  /\ rec.acknowledged =>
       \A j \in DOMAIN records[d][c] :
         records[d][c][j].timestamp = rec.timestamp => records[d][c][j].acknowledged

HonestTable(d, table) == \A c \in Channels : \A i \in DOMAIN table[c] : Honest(d, c, table[c][i])

HonestEvent(event) ==
  IF event.type = "AlarmTriggered" THEN Honest(event.device, event.channel, event.alarm)
                                   ELSE HonestTable(event.device, event.alarms)

HonestRequest(req) == req.pc \in {"emit", "respond"} => HonestTable(req.device, req.alarms)

HonestInv ==
  /\ \A w \in Workers : \A event \in worker[w] : HonestEvent(event)
  /\ \A k \in Clients :
       /\ HonestRequest(request[k])
       /\ \A i \in DOMAIN inbox[k] : HonestEvent(inbox[k][i])
       /\ \A d \in Devices : HonestTable(d, view[k][d])

-----------------------------------------------------------------------------
\* The alarm an event announces.
Announced(event) == <<event.device, event.channel, event.alarm.timestamp>>

\* An alarm that a client still hears of is in the hands of a worker or on the
\* wire to it.
Coming(k, alarm) ==
  \/ \E w \in Workers : \E event \in worker[w] : alarm = Announced(event)
  \/ \E i \in DOMAIN inbox[k] :
       inbox[k][i].type = "AlarmTriggered" /\ alarm = Announced(inbox[k][i])

AnnounceInv ==
  /\ DOMAIN heard = Clients
  /\ \A k \in Clients : \A alarm \in raised : alarm \in heard[k] \/ Coming(k, alarm)

-----------------------------------------------------------------------------
\* A latch is up only for an enabled configuration that the channel's last
\* reading, if there was one, is out of.
LatchInv ==
  /\ checked \in [Devices -> Frames \cup {NoFrame}]
  /\ \A d \in Devices, c \in Channels :
       active[d][c] =>
         /\ configs[d][c] # NoConfig /\ configs[d][c].enabled
         /\ c \in DOMAIN checked[d] => OutOfLimits(configs[d][c], checked[d][c])

-----------------------------------------------------------------------------
(* The alarm core inside the feed.                                         *)

\* A step of the feed is a step of the alarm core or leaves it alone.
LEMMA AlarmStep == [Next]_vars => [AlarmNext]_alarmVars
<1> SUFFICES ASSUME [Next]_vars PROVE AlarmNext \/ UNCHANGED alarmVars
  OBVIOUS
<1>1. ASSUME NEW w \in Workers, NEW d \in Devices, NEW frame \in Frames, Check(w, d, frame)
      PROVE  AlarmNext
  BY <1>1 DEF Check, AlarmNext
<1>2. ASSUME NEW k \in Clients, NEW d \in Devices, NEW c \in Channels, Acknowledge(k, d, c)
      PROVE  AlarmNext
  BY <1>2 DEF Acknowledge, AlarmNext
<1>3. ASSUME NEW k \in Clients, NEW d \in Devices, Clear(k, d) PROVE AlarmNext
  BY <1>3 DEF Clear, AlarmNext
<1>4. ASSUME NEW k \in Clients, NEW d \in Devices, NEW c \in Channels, NEW config \in Configs,
             Configure(k, d, c, config)
      PROVE  AlarmNext
  BY <1>4 DEF Configure, AlarmNext
<1>5. ASSUME NEW w \in Workers, Announce(w) PROVE UNCHANGED alarmVars
  BY <1>5 DEF Announce
<1>6. ASSUME NEW k \in Clients, RequestStep(k) \/ Deliver(k) PROVE UNCHANGED alarmVars
  BY <1>6 DEF RequestStep, Snapshot, EmitSnapshot, EmitEmpty, List, Respond, Deliver
<1>7. ASSUME NEW k \in Clients, NEW d \in Devices, StartList(k, d) PROVE UNCHANGED alarmVars
  BY <1>7 DEF StartList
<1> QED
  BY <1>1, <1>2, <1>3, <1>4, <1>5, <1>6, <1>7 DEF Next, vars

\* Workers and handlers drive the alarm core as its specification says.
THEOREM FeedDrivesAlarms == Spec => AlarmSpec
<1>1. Init => AlarmInit
  BY DEF Init
<1> QED
  BY <1>1, AlarmStep, PTL DEF Spec, AlarmSpec

LEMMA FeedAlarmInv == Spec => []AlarmIInv
BY FeedDrivesAlarms, AlarmInvariant, PTL

-----------------------------------------------------------------------------
(* Types.                                                                  *)

LEMMA RequestShape ==
  ASSUME FeedTypes, NEW k \in Clients
  PROVE  /\ request[k].pc \in {"snapshot", "list", "emitEmpty"} => request[k].device \in Devices
         /\ request[k].pc \in {"emit", "respond"} =>
              request[k].device \in Devices /\ request[k].alarms \in Tables
<1>1. request[k] \in Requests
  BY DEF FeedTypes
<1>2. CASE request[k] = Idle
  BY <1>2 DEF Idle
<1>3. CASE request[k] \in [pc : {"snapshot", "list", "emitEmpty"}, device : Devices]
  BY <1>3
<1>4. CASE request[k] \in [pc : {"emit", "respond"}, device : Devices, alarms : Tables]
  BY <1>4
<1> QED
  BY <1>1, <1>2, <1>3, <1>4 DEF Requests

LEMMA EmptyTable == NoRecords \in Tables
BY EmptySeq DEF NoRecords, Tables

LEMMA TriggerType ==
  ASSUME AlarmTypeOK, NEW d \in Devices, NEW frame \in Frames, NEW c \in Triggered(d, frame)
  PROVE  AlarmTriggered(d, c, NewRecord(frame[c])) \in Triggers
<1>1. c \in Channels /\ frame[c] \in Int
  BY TelemetryAssumption DEF Triggered, Exceeds, Examined
<1>2. NewRecord(frame[c]) \in Record
  BY <1>1, NewRecordType DEF AlarmTypeOK
<1> QED
  BY <1>1, <1>2 DEF AlarmTriggered, Triggers

LEMMA ChangedType ==
  ASSUME NEW d \in Devices, NEW table \in Tables
  PROVE  AlarmsChanged(d, table) \in Events
BY DEF AlarmsChanged, Events

\* What an emission adds to every inbox.
LEMMA EmitAppends ==
  ASSUME FeedTypes, NEW event \in Events, Emit(event)
  PROVE  /\ inbox' \in [Clients -> Seq(Events)]
         /\ \A k \in Clients :
              /\ Len(inbox[k]) \in Nat
              /\ DOMAIN inbox[k] = 1..Len(inbox[k])
              /\ DOMAIN inbox'[k] = 1..Len(inbox[k]) + 1
              /\ \A i \in 1..Len(inbox[k]) : inbox'[k][i] = inbox[k][i]
              /\ inbox'[k][Len(inbox[k]) + 1] = event
<1>1. ASSUME NEW k \in Clients
      PROVE  /\ inbox'[k] \in Seq(Events)
             /\ Len(inbox[k]) \in Nat
             /\ DOMAIN inbox[k] = 1..Len(inbox[k])
             /\ DOMAIN inbox'[k] = 1..Len(inbox[k]) + 1
             /\ \A i \in 1..Len(inbox[k]) : inbox'[k][i] = inbox[k][i]
             /\ inbox'[k][Len(inbox[k]) + 1] = event
  <2>1. inbox[k] \in Seq(Events)
    BY DEF FeedTypes
  <2>2. inbox'[k] = Append(inbox[k], event)
    BY DEF Emit
  <2>3. Len(inbox[k]) \in Nat /\ DOMAIN inbox[k] = 1..Len(inbox[k])
    BY <2>1, LenProperties
  <2>4. /\ inbox'[k] \in Seq(Events) /\ Len(inbox'[k]) = Len(inbox[k]) + 1
        /\ \A i \in 1..Len(inbox[k]) : inbox'[k][i] = inbox[k][i]
        /\ inbox'[k][Len(inbox[k]) + 1] = event
    BY <2>1, <2>2, AppendProperties
  <2>5. DOMAIN inbox'[k] = 1..Len(inbox'[k])
    BY <2>4, LenProperties
  <2> QED
    BY <2>3, <2>4, <2>5
<1>2. inbox' = [k \in Clients |-> inbox'[k]]
  BY DEF Emit
<1> QED
  BY <1>1, <1>2

\* What a delivery takes out of one inbox.
LEMMA DeliverTakes ==
  ASSUME FeedTypes, NEW k \in Clients, Deliver(k)
  PROVE  /\ Head(inbox[k]) \in Events
         /\ inbox' \in [Clients -> Seq(Events)]
         /\ \A o \in Clients \ {k} : inbox'[o] = inbox[o]
         /\ Head(inbox[k]) = inbox[k][1] /\ 1 \in DOMAIN inbox[k]
         /\ \A i \in DOMAIN inbox'[k] : i + 1 \in DOMAIN inbox[k] /\ inbox'[k][i] = inbox[k][i + 1]
         /\ \A i \in DOMAIN inbox[k] :
              i = 1 \/ (i - 1 \in DOMAIN inbox'[k] /\ inbox'[k][i - 1] = inbox[k][i])
<1>1. inbox[k] \in Seq(Events) /\ inbox[k] # <<>>
  BY DEF FeedTypes, Deliver
<1>2. inbox' = [inbox EXCEPT ![k] = Tail(inbox[k])]
  BY DEF Deliver
<1>3. inbox'[k] = Tail(inbox[k]) /\ \A o \in Clients \ {k} : inbox'[o] = inbox[o]
  BY <1>2 DEF FeedTypes
<1>4. /\ Head(inbox[k]) \in Events /\ Tail(inbox[k]) \in Seq(Events)
      /\ Len(Tail(inbox[k])) = Len(inbox[k]) - 1
      /\ \A i \in 1..Len(Tail(inbox[k])) : Tail(inbox[k])[i] = inbox[k][i + 1]
  BY <1>1, HeadTailProperties
<1>5. Len(inbox[k]) \in Nat /\ DOMAIN inbox[k] = 1..Len(inbox[k])
  BY <1>1, LenProperties
<1>6. DOMAIN inbox'[k] = 1..Len(inbox[k]) - 1
  BY <1>3, <1>4, LenProperties
<1>7. Head(inbox[k]) = inbox[k][1] /\ Len(inbox[k]) >= 1
  BY <1>1, <1>5
<1>8. inbox' \in [Clients -> Seq(Events)]
  BY <1>2, <1>4 DEF FeedTypes
<1>9. \A i \in DOMAIN inbox'[k] : i + 1 \in DOMAIN inbox[k] /\ inbox'[k][i] = inbox[k][i + 1]
  BY <1>3, <1>4, <1>5, <1>6
<1>10. ASSUME NEW i \in DOMAIN inbox[k], i # 1
       PROVE  i - 1 \in DOMAIN inbox'[k] /\ inbox'[k][i - 1] = inbox[k][i]
  <2>1. i \in Nat /\ i - 1 \in DOMAIN inbox'[k] /\ (i - 1) + 1 = i
    BY <1>5, <1>6, <1>10
  <2>2. inbox'[k][i - 1] = inbox[k][(i - 1) + 1]
    BY <1>9, <2>1
  <2> QED
    BY <2>1, <2>2
<1> QED
  BY <1>3, <1>4, <1>5, <1>7, <1>8, <1>9, <1>10

LEMMA TypesInit == Init => FeedTypes
BY EmptySeq DEF Init, FeedTypes, Requests, Tables

LEMMA TypesStep == AlarmTypeOK /\ FeedTypes /\ [Next]_vars => FeedTypes'
<1> SUFFICES ASSUME AlarmTypeOK, FeedTypes, [Next]_vars PROVE FeedTypes'
  OBVIOUS
<1>1. ASSUME NEW w \in Workers, NEW d \in Devices, NEW frame \in Frames, Check(w, d, frame)
      PROVE  FeedTypes'
  <2> DEFINE new == {AlarmTriggered(d, c, NewRecord(frame[c])) : c \in Triggered(d, frame)}
  <2>1. new \in SUBSET Triggers
    BY TriggerType
  <2>2. worker' = [worker EXCEPT ![w] = new] /\ UNCHANGED <<request, inbox, view>>
    BY <1>1 DEF Check
  <2> HIDE DEF new
  <2> QED
    BY <2>1, <2>2 DEF FeedTypes
<1>2. ASSUME NEW w \in Workers, Announce(w) PROVE FeedTypes'
  <2>1. PICK event \in worker[w] :
          Emit(event) /\ worker' = [worker EXCEPT ![w] = @ \ {event}] /\ UNCHANGED <<request, view>>
    BY <1>2 DEF Announce
  <2>2. event \in Events
    BY DEF FeedTypes, Events
  <2>3. inbox' \in [Clients -> Seq(Events)]
    BY <2>1, <2>2, EmitAppends
  <2> QED
    BY <2>1, <2>3 DEF FeedTypes
<1>3. ASSUME NEW k \in Clients, NEW next \in Requests, request' = [request EXCEPT ![k] = next],
             UNCHANGED <<worker, inbox, view>>
      PROVE  FeedTypes'
  BY <1>3 DEF FeedTypes
<1>4. ASSUME NEW k \in Clients, NEW d \in Devices,
             \/ \E c \in Channels : Acknowledge(k, d, c)
             \/ Clear(k, d) \/ StartList(k, d)
             \/ \E c \in Channels, config \in Configs : Configure(k, d, c, config)
      PROVE  FeedTypes'
  <2>1. /\ [pc |-> "snapshot", device |-> d] \in Requests
        /\ [pc |-> "emitEmpty", device |-> d] \in Requests
        /\ [pc |-> "list", device |-> d] \in Requests
        /\ Idle \in Requests
    BY DEF Requests
  <2> QED
    BY <1>3, <1>4, <2>1 DEF Acknowledge, Clear, StartList, Configure, Make
<1>5. ASSUME NEW k \in Clients, Snapshot(k) \/ List(k) PROVE FeedTypes'
  <2>1. request[k].device \in Devices
    BY <1>5, RequestShape DEF Snapshot, List, Proceed
  <2>2. records[request[k].device] \in Tables
    BY <2>1 DEF AlarmTypeOK, Tables
  <2>3. PICK next : next \in Requests /\ request' = [request EXCEPT ![k] = next]
    <3>1. \A p \in {"emit", "respond"} :
            [pc |-> p, device |-> request[k].device, alarms |-> records[request[k].device]] \in Requests
      BY <2>1, <2>2 DEF Requests
    <3> QED
      BY <1>5, <3>1 DEF Snapshot, List, Proceed
  <2>4. UNCHANGED <<worker, inbox, view>>
    BY <1>5 DEF Snapshot, List
  <2> QED
    BY <1>3, <2>3, <2>4
<1>6. ASSUME NEW k \in Clients, EmitSnapshot(k) PROVE FeedTypes'
  <2>1. request[k].device \in Devices /\ request[k].alarms \in Tables
    BY <1>6, RequestShape DEF EmitSnapshot, Proceed
  <2>2. inbox' \in [Clients -> Seq(Events)]
    BY <1>6, <2>1, ChangedType, EmitAppends DEF EmitSnapshot
  <2>3. [pc |-> "list", device |-> request[k].device] \in Requests
    BY <2>1 DEF Requests
  <2> QED
    BY <1>6, <2>2, <2>3 DEF EmitSnapshot, Proceed, FeedTypes
<1>7. ASSUME NEW k \in Clients, EmitEmpty(k) PROVE FeedTypes'
  <2>1. request[k].device \in Devices
    BY <1>7, RequestShape DEF EmitEmpty, Proceed
  <2>2. inbox' \in [Clients -> Seq(Events)]
    BY <1>7, <2>1, ChangedType, EmptyTable, EmitAppends DEF EmitEmpty
  <2>3. [pc |-> "respond", device |-> request[k].device, alarms |-> NoRecords] \in Requests
    BY <2>1, EmptyTable DEF Requests
  <2> QED
    BY <1>7, <2>2, <2>3 DEF EmitEmpty, Proceed, FeedTypes
<1>8. ASSUME NEW k \in Clients, Respond(k) PROVE FeedTypes'
  <2>1. request[k].device \in Devices /\ request[k].alarms \in Tables
    BY <1>8, RequestShape DEF Respond, Proceed
  <2>2. /\ view' = [view EXCEPT ![k][request[k].device] = request[k].alarms]
        /\ request' = [request EXCEPT ![k] = Idle] /\ UNCHANGED <<worker, inbox>>
    BY <1>8 DEF Respond, Proceed
  <2>3. Idle \in Requests
    BY DEF Requests
  <2> QED
    BY <2>1, <2>2, <2>3 DEF FeedTypes
<1>9. ASSUME NEW k \in Clients, Deliver(k) PROVE FeedTypes'
  <2> DEFINE event == Head(inbox[k])
  <2>1. event \in Events /\ inbox' \in [Clients -> Seq(Events)]
    BY <1>9, DeliverTakes
  <2>2. UNCHANGED <<worker, request>>
    BY <1>9 DEF Deliver
  <2>3. CASE event.type = "AlarmTriggered"
    <3>1. event \in Triggers
      BY <2>1, <2>3 DEF Events
    <3>2. /\ event.device \in Devices /\ event.channel \in Channels /\ event.alarm \in Record
          /\ view' = [view EXCEPT ![k][event.device][event.channel] = Append(@, event.alarm)]
      BY <1>9, <2>3, <3>1 DEF Deliver, Triggers
    <3> HIDE DEF event
    <3>3. view[k][event.device] \in Tables
      BY <3>2 DEF FeedTypes
    <3>4. Append(view[k][event.device][event.channel], event.alarm) \in Seq(Record)
      BY <3>2, <3>3, AppendProperties DEF Tables
    <3>5. view' \in [Clients -> [Devices -> Tables]]
      BY <3>2, <3>3, <3>4 DEF FeedTypes, Tables
    <3> QED
      BY <2>1, <2>2, <3>5 DEF FeedTypes
  <2>4. CASE event.type # "AlarmTriggered"
    <3>1. event \in [type : {"AlarmsChanged"}, device : Devices, alarms : Tables]
      BY <2>1, <2>4 DEF Events, Triggers
    <3>2. /\ event.device \in Devices /\ event.alarms \in Tables
          /\ view' = [view EXCEPT ![k][event.device] = event.alarms]
      BY <1>9, <2>4, <3>1 DEF Deliver
    <3> HIDE DEF event
    <3> QED
      BY <2>1, <2>2, <3>2 DEF FeedTypes
  <2> QED
    BY <2>3, <2>4
<1>10. CASE UNCHANGED vars
  BY <1>10 DEF vars, taskVars, FeedTypes
<1> QED
  BY <1>1, <1>2, <1>4, <1>5, <1>6, <1>7, <1>8, <1>9, <1>10 DEF Next, RequestStep

-----------------------------------------------------------------------------
(* No phantom acknowledgements.                                            *)

\* A copy of a record stays honest: records are never unmarked, and a record
\* that is new has a stamp of its own.
LEMMA HonestStays ==
  ASSUME AlarmIInv, [AlarmNext]_alarmVars,
         NEW d \in Devices, NEW c \in Channels, NEW rec \in Record, Honest(d, c, rec)
  PROVE  Honest(d, c, rec)'
<1> DEFINE list == records[d][c]
<1>0. /\ AlarmTypeOK /\ now \in Nat /\ list \in Seq(Record) /\ rec.timestamp \in Nat
      /\ rec.timestamp <= now
  BY DEF AlarmIInv, AlarmTypeOK, Honest, Record
<1> DEFINE Marked(recs) == \A j \in DOMAIN recs : recs[j].timestamp = rec.timestamp => recs[j].acknowledged
<1>1. rec.acknowledged => Marked(list)
  BY DEF Honest
<1>2. SUFFICES now <= now' /\ now' \in Nat /\ (Marked(list) => Marked(records'[d][c]))
  BY <1>0, <1>1 DEF Honest
<1>3. CASE records'[d][c] = list /\ now' = now
  BY <1>0, <1>3
<1>4. ASSUME NEW e \in Devices, NEW frame \in Frames, CheckData(e, frame)
      PROVE  now <= now' /\ now' \in Nat /\ (Marked(list) => Marked(records'[d][c]))
  <2>1. now' = now \/ now' = now + 1
    BY <1>4 DEF CheckData
  <2>2. CASE records'[d][c] = list
    BY <1>0, <2>1, <2>2
  <2>3. CASE /\ frame[c] \in Int /\ records'[d][c] = Append(list, NewRecord(frame[c]))
    <3>1. NewRecord(frame[c]) \in Record /\ NewRecord(frame[c]).timestamp = now + 1
      BY <1>0, <2>3, NewRecordType
    <3> HIDE DEF list, Marked
    <3>2. PICK more : more = records'[d][c]
      OBVIOUS
    <3>3. /\ Len(list) \in Nat /\ DOMAIN list = 1..Len(list) /\ DOMAIN more = 1..Len(list) + 1
          /\ \A i \in 1..Len(list) : more[i] = list[i]
          /\ more[Len(list) + 1] = NewRecord(frame[c])
      <4>1. /\ more \in Seq(Record) /\ Len(more) = Len(list) + 1
            /\ \A i \in 1..Len(list) : more[i] = list[i]
            /\ more[Len(list) + 1] = NewRecord(frame[c])
        BY <1>0, <2>3, <3>1, <3>2, AppendProperties
      <4> QED
        BY <1>0, <4>1, LenProperties
    <3>4. more[Len(list) + 1].timestamp # rec.timestamp
      BY <1>0, <3>1, <3>3
    <3>5. Marked(list) => Marked(more)
      <4>1. ASSUME NEW j \in DOMAIN more PROVE j = Len(list) + 1 \/ j \in DOMAIN list
        BY <3>3
      <4> QED
        BY <3>3, <3>4, <4>1 DEF Marked
    <3> QED
      BY <1>0, <2>1, <3>2, <3>5
  <2> QED
    BY <1>0, <1>4, <2>2, <2>3, CheckDataRecords
<1>5. ASSUME NEW e \in Devices, NEW k \in Channels, AcknowledgeAlarm(e, k)
      PROVE  now <= now' /\ now' \in Nat /\ (Marked(list) => Marked(records'[d][c]))
  <2>1. now' = now /\ \/ records'[d][c] = list
                      \/ records'[d][c] = AcknowledgeFirst(list)
    BY <1>0, <1>5 DEF AcknowledgeAlarm, AlarmTypeOK
  <2>2. Marked(list) => Marked(AcknowledgeFirst(list))
    <3> HIDE DEF list
    <3>1. /\ DOMAIN AcknowledgeFirst(list) = DOMAIN list
          /\ \A i \in DOMAIN list :
               /\ AcknowledgeFirst(list)[i].timestamp = list[i].timestamp
               /\ AcknowledgeFirst(list)[i].acknowledged =
                    (list[i].acknowledged \/ \A j \in Unacknowledged(list) : i <= j)
      BY <1>0, AcknowledgeFirstKeeps
    <3> QED
      BY <3>1
  <2> QED
    BY <1>0, <2>1, <2>2
<1>6. ASSUME NEW e \in Devices, ClearRecords(e)
      PROVE  now <= now' /\ now' \in Nat /\ (Marked(list) => Marked(records'[d][c]))
  <2>1. now' = now /\ (records'[d][c] = list \/ records'[d][c] = <<>>)
    BY <1>0, <1>6 DEF ClearRecords, AlarmTypeOK
  <2>2. DOMAIN <<>> = {}
    BY EmptySeq
  <2> QED
    BY <1>0, <2>1, <2>2
<1>7. \/ records' = records /\ now' = now
      \/ \E e \in Devices :
           \/ \E frame \in Frames : CheckData(e, frame)
           \/ \E k \in Channels : AcknowledgeAlarm(e, k)
           \/ ClearRecords(e)
  BY DEF AlarmNext, ConfigureAlarm, SetAlarmEnabled, alarmVars
<1> HIDE DEF Marked
<1> QED
  BY <1>3, <1>4, <1>5, <1>6, <1>7

LEMMA TablesStay ==
  ASSUME AlarmIInv, [AlarmNext]_alarmVars
  PROVE  /\ \A d \in Devices, table \in Tables : HonestTable(d, table) => HonestTable(d, table)'
         /\ \A event \in Events : HonestEvent(event) => HonestEvent(event)'
         /\ \A req \in Requests : HonestRequest(req) => HonestRequest(req)'
<1>1. ASSUME NEW d \in Devices, NEW table \in Tables, HonestTable(d, table)
      PROVE  HonestTable(d, table)'
  <2> SUFFICES ASSUME NEW c \in Channels, NEW i \in DOMAIN table[c]
               PROVE  Honest(d, c, table[c][i])'
    BY DEF HonestTable
  <2>1. PICK rec : rec = table[c][i]
    OBVIOUS
  <2>2. rec \in Record /\ Honest(d, c, rec)
    BY <1>1, <2>1 DEF Tables, HonestTable
  <2> QED
    BY <2>1, <2>2, HonestStays
<1>2. ASSUME NEW event \in Events, HonestEvent(event)
      PROVE  HonestEvent(event)'
  <2>1. CASE event \in Triggers
    <3>1. /\ event.type = "AlarmTriggered" /\ event.device \in Devices
          /\ event.channel \in Channels /\ event.alarm \in Record
      BY <2>1 DEF Triggers
    <3>2. Honest(event.device, event.channel, event.alarm)
      BY <1>2, <3>1 DEF HonestEvent
    <3>3. Honest(event.device, event.channel, event.alarm)'
      BY <3>1, <3>2, HonestStays
    <3> QED
      BY <3>1, <3>3 DEF HonestEvent
  <2>2. CASE event \in [type : {"AlarmsChanged"}, device : Devices, alarms : Tables]
    <3>1. event.type # "AlarmTriggered" /\ event.device \in Devices /\ event.alarms \in Tables
      BY <2>2
    <3>2. HonestTable(event.device, event.alarms)
      BY <1>2, <3>1 DEF HonestEvent
    <3>3. HonestTable(event.device, event.alarms)'
      BY <1>1, <3>1, <3>2
    <3> QED
      BY <3>1, <3>3 DEF HonestEvent
  <2> QED
    BY <2>1, <2>2 DEF Events
<1>3. ASSUME NEW req \in Requests, HonestRequest(req)
      PROVE  HonestRequest(req)'
  <2>1. CASE req.pc \in {"emit", "respond"}
    <3>1. req.device \in Devices /\ req.alarms \in Tables
      BY <2>1 DEF Requests, Idle
    <3> QED
      BY <1>1, <1>3, <2>1, <3>1 DEF HonestRequest
  <2> QED
    BY <2>1 DEF HonestRequest
<1> QED
  BY <1>1, <1>2, <1>3

\* The records themselves are honest.
LEMMA RecordsHonest ==
  ASSUME AlarmIInv, NEW d \in Devices
  PROVE  HonestTable(d, records[d])
<1> SUFFICES ASSUME NEW c \in Channels, NEW i \in DOMAIN records[d][c]
             PROVE  Honest(d, c, records[d][c][i])
  BY DEF HonestTable
<1>1. records[d][c] \in Seq(Record) /\ Stamped(records[d][c], now) /\ StampsIncrease(records[d][c])
  BY DEF AlarmIInv, AlarmTypeOK, Chronological
<1>2. ASSUME NEW j \in DOMAIN records[d][c], records[d][c][j].timestamp = records[d][c][i].timestamp
      PROVE  j = i
  <2>1. i \in Int /\ j \in Int
    BY <1>1, LenProperties
  <2>2. \A k \in DOMAIN records[d][c] : records[d][c][k].timestamp \in Nat
    BY <1>1, ListElements
  <2> QED
    BY <1>1, <1>2, <2>1, <2>2 DEF StampsIncrease
<1> QED
  BY <1>1, <1>2 DEF Honest, Stamped

\* So is a list without records, ...
LEMMA EmptyHonest == ASSUME NEW d PROVE HonestTable(d, NoRecords)
<1>1. DOMAIN <<>> = {}
  BY EmptySeq
<1> QED
  BY <1>1 DEF HonestTable, NoRecords

\* ... and the announcement of an alarm just raised.
LEMMA TriggerHonest ==
  ASSUME AlarmTypeOK, NEW d \in Devices, NEW frame \in Frames, CheckData(d, frame),
         NEW c \in Triggered(d, frame), NEW event,
         event = AlarmTriggered(d, c, NewRecord(frame[c]))
  PROVE  HonestEvent(event)'
<1>1. PICK rec : rec = NewRecord(frame[c])
  OBVIOUS
<1>2. frame[c] \in Int /\ now \in Nat
  BY TelemetryAssumption DEF Triggered, Exceeds, Examined, AlarmTypeOK
<1>3. rec.timestamp = now + 1 /\ rec.acknowledged = FALSE
  BY <1>1, <1>2, NewRecordType
<1>4. now' = now + 1
  BY DEF CheckData
<1>5. Honest(d, c, rec)'
  BY <1>2, <1>3, <1>4 DEF Honest
<1>6. /\ event.type = "AlarmTriggered" /\ event.device = d /\ event.channel = c /\ event.alarm = rec
  BY <1>1 DEF AlarmTriggered
<1> QED
  BY <1>5, <1>6 DEF HonestEvent

LEMMA ChangedHonest ==
  ASSUME NEW d \in Devices, NEW table, HonestTable(d, table)'
  PROVE  HonestEvent(AlarmsChanged(d, table))'
<1>1. PICK event : event = AlarmsChanged(d, table)
  OBVIOUS
<1>2. event.type = "AlarmsChanged" /\ event.device = d /\ event.alarms = table
  BY <1>1 DEF AlarmsChanged
<1>3. HonestEvent(event)'
  BY <1>2 DEF HonestEvent
<1> QED
  BY <1>1, <1>3

LEMMA HonestInit == Init => HonestInv
<1> SUFFICES ASSUME Init PROVE HonestInv
  OBVIOUS
<1>1. DOMAIN <<>> = {}
  BY EmptySeq
<1>2. ASSUME NEW k \in Clients
      PROVE  /\ HonestRequest(request[k]) /\ inbox[k] = <<>>
             /\ \A d \in Devices, c \in Channels : view[k][d][c] = <<>>
  BY DEF Init, HonestRequest, Idle
<1>3. \A w \in Workers : worker[w] = {}
  BY DEF Init
<1> QED
  BY <1>1, <1>2, <1>3 DEF HonestInv, HonestTable

LEMMA HonestStep == AlarmIInv /\ FeedTypes /\ FeedTypes' /\ HonestInv /\ [Next]_vars => HonestInv'
<1> SUFFICES ASSUME AlarmIInv, FeedTypes, FeedTypes', HonestInv, [Next]_vars PROVE HonestInv'
  OBVIOUS
<1> DEFINE WorkersHonest == \A w \in Workers : \A event \in worker[w] : HonestEvent(event)
           RequestsHonest == \A k \in Clients : HonestRequest(request[k])
           InboxesHonest == \A k \in Clients : \A i \in DOMAIN inbox[k] : HonestEvent(inbox[k][i])
           ViewsHonest == \A k \in Clients, d \in Devices : HonestTable(d, view[k][d])
<1>0. SUFFICES WorkersHonest' /\ RequestsHonest' /\ InboxesHonest' /\ ViewsHonest'
  BY DEF HonestInv
<1>1. /\ \A d \in Devices, table \in Tables : HonestTable(d, table) => HonestTable(d, table)'
      /\ \A event \in Events : HonestEvent(event) => HonestEvent(event)'
      /\ \A req \in Requests : HonestRequest(req) => HonestRequest(req)'
  BY AlarmStep, TablesStay
<1>2. UNCHANGED worker => WorkersHonest'
  <2> SUFFICES ASSUME worker' = worker, NEW w \in Workers, NEW event \in worker[w]
               PROVE  HonestEvent(event)'
    OBVIOUS
  <2>1. event \in Events /\ HonestEvent(event)
    BY DEF FeedTypes, Events, HonestInv
  <2> QED
    BY <1>1, <2>1
<1>3. ASSUME NEW k \in Clients, NEW next \in Requests, HonestRequest(next)',
             request' = [request EXCEPT ![k] = next]
      PROVE  RequestsHonest'
  <2> SUFFICES ASSUME NEW o \in Clients PROVE HonestRequest(request[o])'
    OBVIOUS
  <2>1. CASE o = k
    <3>1. request'[o] = next
      BY <1>3, <2>1 DEF FeedTypes
    <3> QED
      BY <1>3, <3>1 DEF HonestRequest
  <2>2. CASE o # k
    <3>1. request'[o] = request[o] /\ request[o] \in Requests /\ HonestRequest(request[o])
      BY <1>3, <2>2 DEF FeedTypes, HonestInv
    <3>2. PICK req : req = request[o]
      OBVIOUS
    <3>3. HonestRequest(req)'
      BY <1>1, <3>1, <3>2
    <3> QED
      BY <3>1, <3>2, <3>3 DEF HonestRequest
  <2> QED
    BY <2>1, <2>2
<1>4. UNCHANGED request => RequestsHonest'
  <2> SUFFICES ASSUME request' = request, NEW o \in Clients PROVE HonestRequest(request[o])'
    OBVIOUS
  <2>1. PICK req : req = request[o]
    OBVIOUS
  <2>2. req \in Requests /\ HonestRequest(req)
    BY <2>1 DEF FeedTypes, HonestInv
  <2>3. HonestRequest(req)'
    BY <1>1, <2>2
  <2> QED
    BY <2>1, <2>3 DEF HonestRequest
<1>5. ASSUME NEW event \in Events, Emit(event), HonestEvent(event)' PROVE InboxesHonest'
  <2> SUFFICES ASSUME NEW k \in Clients, NEW i \in DOMAIN inbox'[k]
               PROVE  HonestEvent(inbox[k][i])'
    OBVIOUS
  <2>1. PICK e : e = inbox'[k][i]
    OBVIOUS
  <2>2. e = event \/ (i \in DOMAIN inbox[k] /\ e = inbox[k][i])
    BY <1>5, <2>1, EmitAppends
  <2>3. CASE i \in DOMAIN inbox[k] /\ e = inbox[k][i]
    <3>1. e \in Events /\ HonestEvent(e)
      BY <2>3 DEF FeedTypes, HonestInv
    <3>2. HonestEvent(e)'
      BY <1>1, <3>1
    <3> QED
      BY <2>1, <3>2 DEF HonestEvent
  <2>4. CASE e = event
    <3>1. HonestEvent(e)'
      BY <1>5, <2>4 DEF HonestEvent
    <3> QED
      BY <2>1, <3>1 DEF HonestEvent
  <2> QED
    BY <2>2, <2>3, <2>4
<1>6. UNCHANGED inbox => InboxesHonest'
  <2> SUFFICES ASSUME inbox' = inbox, NEW k \in Clients, NEW i \in DOMAIN inbox[k]
               PROVE  HonestEvent(inbox[k][i])'
    OBVIOUS
  <2>1. PICK e : e = inbox[k][i]
    OBVIOUS
  <2>2. e \in Events /\ HonestEvent(e)
    BY <2>1 DEF FeedTypes, HonestInv
  <2>3. HonestEvent(e)'
    BY <1>1, <2>2
  <2> QED
    BY <2>1, <2>3 DEF HonestEvent
<1>7. ASSUME NEW k \in Clients, NEW d \in Devices, HonestTable(d, view[k][d])',
             \A o \in Clients, e \in Devices : o # k \/ e # d => view'[o][e] = view[o][e]
      PROVE  ViewsHonest'
  <2> SUFFICES ASSUME NEW o \in Clients, NEW e \in Devices PROVE HonestTable(e, view[o][e])'
    OBVIOUS
  <2>1. CASE o = k /\ e = d
    BY <1>7, <2>1
  <2>2. CASE o # k \/ e # d
    <3>1. PICK table : table = view[o][e]
      OBVIOUS
    <3>2. view'[o][e] = table /\ table \in Tables /\ HonestTable(e, table)
      BY <1>7, <2>2, <3>1 DEF FeedTypes, HonestInv
    <3>3. HonestTable(e, table)'
      BY <1>1, <3>2
    <3> QED
      BY <3>2, <3>3 DEF HonestTable
  <2> QED
    BY <2>1, <2>2
<1>8. UNCHANGED view => ViewsHonest'
  <2> SUFFICES ASSUME view' = view, NEW o \in Clients, NEW e \in Devices PROVE HonestTable(e, view[o][e])'
    OBVIOUS
  <2>1. PICK table : table = view[o][e]
    OBVIOUS
  <2>2. table \in Tables /\ HonestTable(e, table)
    BY <2>1 DEF FeedTypes, HonestInv
  <2>3. HonestTable(e, table)'
    BY <1>1, <2>2
  <2> QED
    BY <2>1, <2>3 DEF HonestTable
<1> HIDE DEF WorkersHonest, RequestsHonest, InboxesHonest, ViewsHonest
<1>11. ASSUME NEW w \in Workers, NEW d \in Devices, NEW frame \in Frames, Check(w, d, frame)
       PROVE  WorkersHonest'
  <2>1. /\ CheckData(d, frame)
        /\ worker' = [worker EXCEPT ![w] =
             {AlarmTriggered(d, c, NewRecord(frame[c])) : c \in Triggered(d, frame)}]
    BY <1>11 DEF Check
  <2> SUFFICES ASSUME NEW v \in Workers, NEW event \in worker'[v] PROVE HonestEvent(event)'
    BY DEF WorkersHonest
  <2>2. CASE v = w
    <3>1. PICK c \in Triggered(d, frame) : event = AlarmTriggered(d, c, NewRecord(frame[c]))
      BY <2>1, <2>2 DEF FeedTypes
    <3> QED
      BY <2>1, <3>1, TriggerHonest DEF AlarmIInv
  <2>3. CASE v # w
    <3>1. event \in worker[v] /\ event \in Events /\ HonestEvent(event)
      BY <2>1, <2>3 DEF FeedTypes, Events, HonestInv
    <3> QED
      BY <1>1, <3>1
  <2> QED
    BY <2>2, <2>3
<1>12. ASSUME NEW w \in Workers, Announce(w)
       PROVE  WorkersHonest' /\ InboxesHonest' /\ UNCHANGED <<request, view>>
  <2>1. PICK event \in worker[w] :
          Emit(event) /\ worker' = [worker EXCEPT ![w] = @ \ {event}] /\ UNCHANGED <<request, view>>
    BY <1>12 DEF Announce
  <2>2. event \in Events /\ HonestEvent(event)
    BY DEF FeedTypes, Events, HonestInv
  <2>3. InboxesHonest'
    BY <1>1, <1>5, <2>1, <2>2
  <2>4. ASSUME NEW v \in Workers, NEW e \in worker'[v] PROVE HonestEvent(e)'
    <3>1. e \in worker[v] /\ e \in Events /\ HonestEvent(e)
      BY <2>1 DEF FeedTypes, Events, HonestInv
    <3> QED
      BY <1>1, <3>1
  <2> QED
    BY <2>1, <2>3, <2>4 DEF WorkersHonest
<1>13. ASSUME NEW k \in Clients, NEW d \in Devices,
              \/ \E c \in Channels : Acknowledge(k, d, c)
              \/ Clear(k, d) \/ StartList(k, d)
              \/ \E c \in Channels, config \in Configs : Configure(k, d, c, config)
       PROVE  RequestsHonest' /\ UNCHANGED <<worker, inbox, view>>
  <2>1. PICK next :
          /\ next \in {[pc |-> "snapshot", device |-> d], [pc |-> "emitEmpty", device |-> d],
                       [pc |-> "list", device |-> d], Idle}
          /\ request' = [request EXCEPT ![k] = next]
    BY <1>13 DEF Acknowledge, Clear, StartList, Configure, Make
  <2>2. next \in Requests /\ next.pc \notin {"emit", "respond"}
    BY <2>1 DEF Requests, Idle
  <2>3. RequestsHonest'
    BY <1>3, <2>1, <2>2 DEF HonestRequest
  <2> QED
    BY <1>13, <2>3 DEF Acknowledge, Clear, StartList, Configure
<1>14. ASSUME NEW k \in Clients, Snapshot(k) \/ List(k)
       PROVE  RequestsHonest' /\ UNCHANGED <<worker, inbox, view>>
  <2>1. PICK d : d = request[k].device
    OBVIOUS
  <2>2. PICK table : table = records[d]
    OBVIOUS
  <2>3. PICK next :
          /\ next \in [pc : {"emit", "respond"}, device : {d}, alarms : {table}]
          /\ request' = [request EXCEPT ![k] = next]
    BY <1>14, <2>1, <2>2 DEF Snapshot, List, Proceed
  <2>4. d \in Devices
    BY <1>14, <2>1, RequestShape DEF Snapshot, List, Proceed
  <2>5. table \in Tables /\ HonestTable(d, table)
    BY <2>2, <2>4, RecordsHonest DEF AlarmIInv, AlarmTypeOK, Tables
  <2>6. next \in Requests /\ HonestRequest(next)'
    BY <1>1, <2>3, <2>4, <2>5 DEF Requests, HonestRequest
  <2>7. RequestsHonest'
    BY <1>3, <2>3, <2>6
  <2> QED
    BY <1>14, <2>7 DEF Snapshot, List
<1>15. ASSUME NEW k \in Clients, EmitSnapshot(k)
       PROVE  RequestsHonest' /\ InboxesHonest' /\ UNCHANGED <<worker, view>>
  <2>1. PICK d : d = request[k].device
    OBVIOUS
  <2>2. PICK table : table = request[k].alarms
    OBVIOUS
  <2>3. d \in Devices /\ table \in Tables
    BY <1>15, <2>1, <2>2, RequestShape DEF EmitSnapshot, Proceed
  <2>4. HonestTable(d, table)
    BY <1>15, <2>1, <2>2 DEF EmitSnapshot, Proceed, HonestInv, HonestRequest
  <2>5. /\ Emit(AlarmsChanged(d, table))
        /\ request' = [request EXCEPT ![k] = [pc |-> "list", device |-> d]]
    BY <1>15, <2>1, <2>2 DEF EmitSnapshot, Proceed
  <2>6. AlarmsChanged(d, table) \in Events /\ HonestEvent(AlarmsChanged(d, table))'
    BY <1>1, <2>3, <2>4, ChangedType, ChangedHonest
  <2>7. InboxesHonest'
    BY <1>5, <2>5, <2>6
  <2>8. [pc |-> "list", device |-> d] \in Requests /\ HonestRequest([pc |-> "list", device |-> d])'
    BY <2>3 DEF Requests, HonestRequest
  <2>9. RequestsHonest'
    BY <1>3, <2>5, <2>8
  <2> QED
    BY <1>15, <2>7, <2>9 DEF EmitSnapshot
<1>16. ASSUME NEW k \in Clients, EmitEmpty(k)
       PROVE  RequestsHonest' /\ InboxesHonest' /\ UNCHANGED <<worker, view>>
  <2>1. PICK d : d = request[k].device
    OBVIOUS
  <2>2. PICK table : table = NoRecords
    OBVIOUS
  <2>3. d \in Devices /\ table \in Tables
    BY <1>16, <2>1, <2>2, RequestShape, EmptyTable DEF EmitEmpty, Proceed
  <2>4. HonestTable(d, table)
    BY <2>2, EmptyHonest
  <2>5. /\ Emit(AlarmsChanged(d, table))
        /\ request' = [request EXCEPT ![k] = [pc |-> "respond", device |-> d, alarms |-> table]]
    BY <1>16, <2>1, <2>2 DEF EmitEmpty, Proceed
  <2>6. AlarmsChanged(d, table) \in Events /\ HonestEvent(AlarmsChanged(d, table))'
    BY <1>1, <2>3, <2>4, ChangedType, ChangedHonest
  <2>7. InboxesHonest'
    BY <1>5, <2>5, <2>6
  <2>8. PICK next : next = [pc |-> "respond", device |-> d, alarms |-> table]
    OBVIOUS
  <2>9. next \in Requests /\ HonestRequest(next)'
    BY <1>1, <2>3, <2>4, <2>8 DEF Requests, HonestRequest
  <2>10. RequestsHonest'
    BY <1>3, <2>5, <2>8, <2>9
  <2> QED
    BY <1>16, <2>7, <2>10 DEF EmitEmpty
<1>17. ASSUME NEW k \in Clients, Respond(k)
       PROVE  RequestsHonest' /\ ViewsHonest' /\ UNCHANGED <<worker, inbox>>
  <2>1. PICK d : d = request[k].device
    OBVIOUS
  <2>2. PICK table : table = request[k].alarms
    OBVIOUS
  <2>3. d \in Devices /\ table \in Tables
    BY <1>17, <2>1, <2>2, RequestShape DEF Respond, Proceed
  <2>4. HonestTable(d, table)'
    BY <1>1, <1>17, <2>1, <2>2, <2>3 DEF Respond, Proceed, HonestInv, HonestRequest
  <2>5. /\ view' = [view EXCEPT ![k][d] = table]
        /\ request' = [request EXCEPT ![k] = Idle]
    BY <1>17, <2>1, <2>2 DEF Respond, Proceed
  <2>6. /\ view'[k][d] = table
        /\ \A o \in Clients, e \in Devices : o # k \/ e # d => view'[o][e] = view[o][e]
    BY <2>3, <2>5 DEF FeedTypes
  <2>7. HonestTable(d, view[k][d])'
    BY <2>4, <2>6 DEF HonestTable
  <2>8. ViewsHonest'
    BY <1>7, <2>3, <2>6, <2>7
  <2>9. Idle \in Requests /\ HonestRequest(Idle)'
    BY DEF Requests, Idle, HonestRequest
  <2>10. RequestsHonest'
    BY <1>3, <2>5, <2>9
  <2> QED
    BY <1>17, <2>8, <2>10 DEF Respond
<1>18. ASSUME NEW k \in Clients, Deliver(k)
       PROVE  InboxesHonest' /\ ViewsHonest' /\ UNCHANGED <<worker, request>>
  <2>1. PICK event : event = Head(inbox[k])
    OBVIOUS
  <2>2. event \in Events /\ HonestEvent(event) /\ HonestEvent(event)'
    <3>1. event \in Events /\ event = inbox[k][1] /\ 1 \in DOMAIN inbox[k]
      BY <1>18, <2>1, DeliverTakes
    <3>2. HonestEvent(event)
      BY <3>1 DEF HonestInv
    <3> QED
      BY <1>1, <3>1, <3>2
  <2>3. InboxesHonest'
    <3> SUFFICES ASSUME NEW o \in Clients, NEW i \in DOMAIN inbox'[o]
                 PROVE  HonestEvent(inbox[o][i])'
      BY DEF InboxesHonest
    <3>1. PICK e : e = inbox'[o][i]
      OBVIOUS
    <3>2. \E j \in DOMAIN inbox[o] : e = inbox[o][j]
      <4>1. CASE o = k
        BY <1>18, <3>1, <4>1, DeliverTakes
      <4>2. CASE o # k
        BY <1>18, <3>1, <4>2, DeliverTakes
      <4> QED
        BY <4>1, <4>2
    <3>3. e \in Events /\ HonestEvent(e)
      BY <3>2 DEF FeedTypes, HonestInv
    <3>4. HonestEvent(e)'
      BY <1>1, <3>3
    <3> QED
      BY <3>1, <3>4 DEF HonestEvent
  <2>4. CASE event.type = "AlarmTriggered"
    <3>1. PICK d \in Devices, c \in Channels, rec \in Record :
            d = event.device /\ c = event.channel /\ rec = event.alarm
      BY <2>2, <2>4 DEF Events, Triggers
    <3>2. Honest(d, c, rec)'
      BY <2>2, <2>4, <3>1 DEF HonestEvent
    <3>3. view' = [view EXCEPT ![k][d][c] = Append(@, rec)]
      BY <1>18, <2>1, <2>4, <3>1 DEF Deliver
    <3>4. PICK table : table = view[k][d]
      OBVIOUS
    <3>5. PICK table2 : table2 = view'[k][d]
      OBVIOUS
    <3>6. /\ table \in Tables /\ table2[c] = Append(table[c], rec)
          /\ \A b \in Channels \ {c} : table2[b] = table[b]
          /\ \A o \in Clients, e \in Devices : o # k \/ e # d => view'[o][e] = view[o][e]
      BY <3>3, <3>4, <3>5 DEF FeedTypes, Tables
    <3>7. HonestTable(d, table)'
      BY <1>1, <3>4, <3>6 DEF HonestInv
    <3>8. ASSUME NEW b \in Channels, NEW i \in DOMAIN table2[b] PROVE Honest(d, b, table2[b][i])'
      <4>1. CASE b = c
        <5>1. table[c] \in Seq(Record)
          BY <3>6 DEF Tables
        <5>2. /\ Append(table[c], rec) \in Seq(Record)
              /\ Len(Append(table[c], rec)) = Len(table[c]) + 1 /\ Len(table[c]) \in Nat
              /\ \A n \in 1..Len(table[c]) : Append(table[c], rec)[n] = table[c][n]
              /\ Append(table[c], rec)[Len(table[c]) + 1] = rec
          BY <5>1, AppendProperties, LenProperties
        <5>3. /\ DOMAIN table[c] = 1..Len(table[c])
              /\ DOMAIN Append(table[c], rec) = 1..Len(table[c]) + 1
          BY <5>1, <5>2, LenProperties
        <5>4. table2[b][i] = rec \/ (i \in DOMAIN table[b] /\ table2[b][i] = table[b][i])
          <6>1. i \in 1..Len(table[c]) + 1
            BY <3>6, <3>8, <4>1, <5>3
          <6>2. i = Len(table[c]) + 1 \/ i \in 1..Len(table[c])
            BY <5>2, <6>1
          <6> QED
            BY <3>6, <4>1, <5>2, <5>3, <6>2
        <5>5. CASE table2[b][i] = rec
          BY <3>2, <4>1, <5>5 DEF Honest
        <5>6. CASE i \in DOMAIN table[b] /\ table2[b][i] = table[b][i]
          BY <3>7, <5>6 DEF HonestTable, Honest
        <5> QED
          BY <5>4, <5>5, <5>6
      <4>2. CASE b # c
        <5>1. table2[b] = table[b]
          BY <3>6, <4>2
        <5> QED
          BY <3>7, <3>8, <5>1 DEF HonestTable
      <4> QED
        BY <4>1, <4>2
    <3>9. HonestTable(d, table2)'
      BY <3>8 DEF HonestTable
    <3>10. HonestTable(d, view[k][d])'
      BY <3>5, <3>9 DEF HonestTable
    <3>11. ViewsHonest'
      BY <1>7, <3>6, <3>10
    <3> QED
      BY <1>18, <2>3, <3>11 DEF Deliver
  <2>5. CASE event.type # "AlarmTriggered"
    <3>1. PICK d \in Devices, table \in Tables : d = event.device /\ table = event.alarms
      BY <2>2, <2>5 DEF Events, Triggers
    <3>2. HonestTable(d, table)'
      BY <2>2, <2>5, <3>1 DEF HonestEvent
    <3>3. view' = [view EXCEPT ![k][d] = table]
      BY <1>18, <2>1, <2>5, <3>1 DEF Deliver
    <3>4. /\ view'[k][d] = table
          /\ \A o \in Clients, e \in Devices : o # k \/ e # d => view'[o][e] = view[o][e]
      BY <3>3 DEF FeedTypes
    <3>5. HonestTable(d, view[k][d])'
      BY <3>2, <3>4 DEF HonestTable
    <3>6. ViewsHonest'
      BY <1>7, <3>4, <3>5
    <3> QED
      BY <1>18, <2>3, <3>6 DEF Deliver
  <2> QED
    BY <2>4, <2>5
<1>19. CASE UNCHANGED vars
  BY <1>2, <1>4, <1>6, <1>8, <1>19 DEF vars, taskVars
<1>20. ASSUME NEW w \in Workers, NEW d \in Devices, NEW frame \in Frames, Check(w, d, frame)
       PROVE  UNCHANGED <<request, inbox, view>>
  BY <1>20 DEF Check
<1> QED
  BY <1>2, <1>4, <1>6, <1>8, <1>11, <1>12, <1>13, <1>14, <1>15, <1>16, <1>17, <1>18, <1>19, <1>20
     DEF Next, RequestStep

LEMMA HonestViews == HonestInv => NoPhantomAcknowledgement
BY DEF HonestInv, HonestTable, Honest, NoPhantomAcknowledgement

\* No client ever shows an alarm as acknowledged that the host holds
\* unacknowledged, whatever lists and events overtake each other.
THEOREM NoPhantoms == Spec => []NoPhantomAcknowledgement
<1>1. AlarmIInv /\ FeedTypes /\ [Next]_vars => FeedTypes'
  BY TypesStep DEF AlarmIInv
<1>2. AlarmIInv /\ FeedTypes /\ HonestInv /\ [Next]_vars => HonestInv'
  BY <1>1, HonestStep
<1> QED
  BY <1>1, <1>2, TypesInit, HonestInit, HonestViews, FeedAlarmInv, PTL DEF Spec

-----------------------------------------------------------------------------
(* No announcement is dropped.                                             *)

\* An emission leaves what is on the wire there.
LEMMA EmitKeeps ==
  ASSUME FeedTypes, NEW event \in Events, Emit(event), NEW k \in Clients, NEW alarm,
         NEW i \in DOMAIN inbox[k],
         inbox[k][i].type = "AlarmTriggered", alarm = Announced(inbox[k][i])
  PROVE  Coming(k, alarm)'
<1>1. i \in DOMAIN inbox'[k] /\ inbox'[k][i] = inbox[k][i]
  <2>1. /\ Len(inbox[k]) \in Nat
        /\ DOMAIN inbox[k] = 1..Len(inbox[k])
        /\ DOMAIN inbox'[k] = 1..Len(inbox[k]) + 1
        /\ \A j \in 1..Len(inbox[k]) : inbox'[k][j] = inbox[k][j]
    BY EmitAppends
  <2> QED
    BY <2>1
<1> QED
  BY <1>1 DEF Coming, Announced

LEMMA AnnounceInit == Init => AnnounceInv
BY DEF Init, AnnounceInv

LEMMA AnnounceStep == AlarmTypeOK /\ FeedTypes /\ AnnounceInv /\ [Next]_vars => AnnounceInv'
<1> SUFFICES ASSUME AlarmTypeOK, FeedTypes, AnnounceInv, [Next]_vars
             PROVE  AnnounceInv'
  OBVIOUS
<1>0. DOMAIN heard = Clients
  BY DEF AnnounceInv
<1>9. DOMAIN heard' = Clients
  <2>1. ASSUME NEW o \in Clients, Deliver(o) PROVE DOMAIN heard' = DOMAIN heard
    BY <2>1 DEF Deliver
  <2>2. ASSUME ~ \E o \in Clients : Deliver(o) PROVE heard' = heard
    BY <2>2 DEF Next, RequestStep, vars, Check, Announce, Acknowledge, Clear, StartList, Configure,
                Snapshot, EmitSnapshot, EmitEmpty, List, Respond
  <2> QED
    BY <1>0, <2>1, <2>2
<1> SUFFICES ASSUME NEW k \in Clients, NEW alarm \in raised'
             PROVE  alarm \in heard'[k] \/ Coming(k, alarm)'
  BY <1>9 DEF AnnounceInv
<1>1. alarm \in raised => alarm \in heard[k] \/ Coming(k, alarm)
  BY DEF AnnounceInv
<1>2. ASSUME NEW w \in Workers, NEW d \in Devices, NEW frame \in Frames, Check(w, d, frame)
      PROVE  alarm \in heard'[k] \/ Coming(k, alarm)'
  <2>1. /\ worker[w] = {} /\ UNCHANGED <<inbox, heard>>
        /\ worker' = [worker EXCEPT ![w] =
             {AlarmTriggered(d, c, NewRecord(frame[c])) : c \in Triggered(d, frame)}]
        /\ raised' = raised \cup {<<d, c, now + 1>> : c \in Triggered(d, frame)}
    BY <1>2 DEF Check
  <2>2. CASE alarm \in raised
    <3>1. ASSUME NEW v \in Workers, NEW event \in worker[v], alarm = Announced(event)
          PROVE  Coming(k, alarm)'
      <4>1. event \in worker'[v]
        BY <2>1, <3>1 DEF FeedTypes
      <4> QED
        BY <3>1, <4>1 DEF Coming, Announced
    <3> QED
      BY <1>1, <2>1, <2>2, <3>1 DEF Coming, Announced
  <2>3. ASSUME NEW c \in Triggered(d, frame), alarm = <<d, c, now + 1>>
        PROVE  Coming(k, alarm)'
    <3>1. PICK event : event = AlarmTriggered(d, c, NewRecord(frame[c]))
      OBVIOUS
    <3>2. event \in worker'[w]
      BY <2>1, <3>1 DEF FeedTypes
    <3>3. Announced(event) = <<d, c, now + 1>>
      BY <3>1 DEF Announced, AlarmTriggered, NewRecord
    <3> QED
      BY <2>3, <3>2, <3>3 DEF Coming, Announced
  <2> QED
    BY <2>1, <2>2, <2>3
<1>3. ASSUME NEW w \in Workers, Announce(w)
      PROVE  alarm \in heard'[k] \/ Coming(k, alarm)'
  <2>1. PICK event \in worker[w] :
          /\ Emit(event) /\ worker' = [worker EXCEPT ![w] = @ \ {event}]
          /\ UNCHANGED <<raised, heard>>
    BY <1>3 DEF Announce
  <2>2. event \in Events /\ event.type = "AlarmTriggered"
    BY DEF FeedTypes, Events, Triggers
  <2>3. ASSUME NEW v \in Workers, NEW e \in worker[v], alarm = Announced(e)
        PROVE  Coming(k, alarm)'
    <3>1. CASE e = event
      <4>1. inbox'[k][Len(inbox[k]) + 1] = event /\ Len(inbox[k]) + 1 \in DOMAIN inbox'[k]
        <5>1. /\ Len(inbox[k]) \in Nat
              /\ DOMAIN inbox'[k] = 1..Len(inbox[k]) + 1
              /\ inbox'[k][Len(inbox[k]) + 1] = event
          BY <2>1, <2>2, EmitAppends
        <5> QED
          BY <5>1
      <4> QED
        BY <2>2, <2>3, <3>1, <4>1 DEF Coming, Announced
    <3>2. CASE e # event
      <4>1. e \in worker'[v]
        BY <2>1, <3>2 DEF FeedTypes
      <4> QED
        BY <2>3, <4>1 DEF Coming, Announced
    <3> QED
      BY <3>1, <3>2
  <2>4. ASSUME NEW i \in DOMAIN inbox[k],
               inbox[k][i].type = "AlarmTriggered", alarm = Announced(inbox[k][i])
        PROVE  Coming(k, alarm)'
    BY <2>1, <2>2, <2>4, EmitKeeps
  <2> QED
    BY <1>1, <2>1, <2>3, <2>4 DEF Coming
<1>4. ASSUME UNCHANGED <<worker, inbox, raised, heard>>
      PROVE  alarm \in heard'[k] \/ Coming(k, alarm)'
  BY <1>1, <1>4 DEF Coming, Announced
<1>5. ASSUME NEW o \in Clients,
             \/ \E d \in Devices, c \in Channels : Acknowledge(o, d, c)
             \/ \E d \in Devices : Clear(o, d) \/ StartList(o, d)
             \/ \E d \in Devices, c \in Channels, config \in Configs : Configure(o, d, c, config)
             \/ Snapshot(o) \/ List(o) \/ Respond(o)
      PROVE  UNCHANGED <<worker, inbox, raised, heard>>
  BY <1>5 DEF Acknowledge, Clear, StartList, Configure, Snapshot, List, Respond
<1>6. ASSUME NEW o \in Clients, EmitSnapshot(o) \/ EmitEmpty(o)
      PROVE  alarm \in heard'[k] \/ Coming(k, alarm)'
  <2>1. PICK event \in Events : Emit(event)
    <3>1. CASE EmitSnapshot(o)
      <4>1. request[o].device \in Devices /\ request[o].alarms \in Tables
        BY <3>1, RequestShape DEF EmitSnapshot, Proceed
      <4> QED
        BY <3>1, <4>1, ChangedType DEF EmitSnapshot
    <3>2. CASE EmitEmpty(o)
      <4>1. request[o].device \in Devices
        BY <3>2, RequestShape DEF EmitEmpty, Proceed
      <4> QED
        BY <3>2, <4>1, ChangedType, EmptyTable DEF EmitEmpty
    <3> QED
      BY <1>6, <3>1, <3>2
  <2>2. UNCHANGED <<worker, raised, heard>>
    BY <1>6 DEF EmitSnapshot, EmitEmpty
  <2>3. ASSUME NEW i \in DOMAIN inbox[k],
               inbox[k][i].type = "AlarmTriggered", alarm = Announced(inbox[k][i])
        PROVE  Coming(k, alarm)'
    BY <2>1, <2>3, EmitKeeps
  <2> QED
    BY <1>1, <2>2, <2>3 DEF Coming, Announced
<1>7. ASSUME NEW o \in Clients, Deliver(o)
      PROVE  alarm \in heard'[k] \/ Coming(k, alarm)'
  <2>1. PICK event : event = Head(inbox[o])
    OBVIOUS
  <2>2. /\ UNCHANGED <<worker, raised>>
        /\ IF event.type = "AlarmTriggered"
           THEN heard' = [heard EXCEPT ![o] = @ \cup {Announced(event)}]
           ELSE UNCHANGED heard
    BY <1>7, <2>1 DEF Deliver, Announced
  <2>3. alarm \in heard[k] => alarm \in heard'[k]
    BY <1>0, <2>2
  <2>4. ASSUME NEW i \in DOMAIN inbox[k],
               inbox[k][i].type = "AlarmTriggered", alarm = Announced(inbox[k][i])
        PROVE  alarm \in heard'[k] \/ Coming(k, alarm)'
    <3>1. CASE k # o
      <4>1. inbox'[k] = inbox[k]
        BY <1>7, <3>1, DeliverTakes
      <4> QED
        BY <2>4, <4>1 DEF Coming, Announced
    <3>2. CASE k = o /\ i = 1
      <4>1. event = inbox[k][i]
        BY <1>7, <2>1, <3>2, DeliverTakes
      <4> QED
        BY <1>0, <2>2, <2>4, <3>2, <4>1
    <3>3. CASE k = o /\ i # 1
      <4>1. i - 1 \in DOMAIN inbox'[k] /\ inbox'[k][i - 1] = inbox[k][i]
        BY <1>7, <3>3, DeliverTakes
      <4> QED
        BY <2>4, <4>1 DEF Coming, Announced
    <3> QED
      BY <3>1, <3>2, <3>3
  <2> QED
    BY <1>1, <2>2, <2>3, <2>4 DEF Coming, Announced
<1>8. CASE UNCHANGED vars
  BY <1>4, <1>8 DEF vars, taskVars
<1> QED
  BY <1>2, <1>3, <1>4, <1>5, <1>6, <1>7, <1>8 DEF Next, RequestStep

\* An alarm raised is on its way to every client, or was heard by it: nothing
\* that is acknowledged, cleared or listed meanwhile takes it out again.
THEOREM AnnouncementsKept == Spec => []AnnounceInv
<1>1. AlarmIInv /\ FeedTypes /\ [Next]_vars => FeedTypes'
  BY TypesStep DEF AlarmIInv
<1>2. AlarmIInv /\ FeedTypes /\ AnnounceInv /\ [Next]_vars => AnnounceInv'
  BY AnnounceStep DEF AlarmIInv
<1> QED
  BY <1>1, <1>2, TypesInit, AnnounceInit, FeedAlarmInv, PTL DEF Spec

\* So when nothing is on its way any more, every client has heard every alarm.
LEMMA QuietHeard == AnnounceInv /\ Quiet => \A k \in Clients : raised \subseteq heard[k]
<1>1. DOMAIN <<>> = {}
  BY EmptySeq
<1> QED
  BY <1>1 DEF AnnounceInv, Quiet, Coming

-----------------------------------------------------------------------------
(* New excursions, and what the alarm core promises.                        *)

LEMMA LatchInit == Init => LatchInv
BY DEF Init, AlarmInit, LatchInv

LEMMA LatchStep ==
  ASSUME "reconfigure" \notin Operations
  PROVE  AlarmTypeOK /\ LatchInv /\ [Next]_vars => LatchInv'
<1> SUFFICES ASSUME AlarmTypeOK, LatchInv, [Next]_vars PROVE LatchInv'
  OBVIOUS
<1>1. ASSUME NEW w \in Workers, NEW d \in Devices, NEW frame \in Frames, Check(w, d, frame)
      PROVE  LatchInv'
  <2>1. /\ configs' = configs /\ checked' = [checked EXCEPT ![d] = frame]
        /\ active'  = [active EXCEPT ![d] = [c \in Channels |->
             IF Examined(d, c, frame) THEN Exceeds(d, c, frame) ELSE active[d][c]]]
    BY <1>1 DEF Check, CheckData
  <2>2. checked' \in [Devices -> Frames \cup {NoFrame}]
    BY <2>1 DEF LatchInv
  <2>3. ASSUME NEW e \in Devices, NEW c \in Channels, active'[e][c]
        PROVE  /\ configs[e][c] # NoConfig /\ configs[e][c].enabled
               /\ c \in DOMAIN checked'[e] => OutOfLimits(configs[e][c], checked'[e][c])
    <3>1. CASE e # d
      <4>1. active[e][c] /\ checked'[e] = checked[e]
        BY <2>1, <2>3, <3>1 DEF AlarmTypeOK, LatchInv
      <4> QED
        BY <4>1 DEF LatchInv
    <3>2. CASE e = d
      <4>1. /\ checked'[e] = frame
            /\ active'[e][c] = IF Examined(d, c, frame) THEN Exceeds(d, c, frame) ELSE active[d][c]
        BY <2>1, <3>2 DEF AlarmTypeOK, LatchInv
      <4>2. CASE Examined(d, c, frame)
        <5>1. Exceeds(d, c, frame)
          BY <2>3, <4>1, <4>2
        <5> QED
          BY <3>2, <4>1, <5>1 DEF Exceeds, Examined
      <4>3. CASE ~Examined(d, c, frame)
        <5>1. active[d][c]
          BY <2>3, <4>1, <4>3
        <5>2. configs[d][c] # NoConfig /\ configs[d][c].enabled
          BY <5>1 DEF LatchInv
        <5>3. c \notin DOMAIN frame
          BY <4>3, <5>2 DEF Examined
        <5> QED
          BY <3>2, <4>1, <5>2, <5>3
      <4> QED
        BY <4>2, <4>3
    <3> QED
      BY <3>1, <3>2
  <2> QED
    BY <2>1, <2>2, <2>3 DEF LatchInv, OutOfLimits
<1>2. ASSUME NEW k \in Clients, NEW d \in Devices, NEW c \in Channels, NEW config \in Configs,
             Configure(k, d, c, config)
      PROVE  LatchInv'
  <2>1. configs[d][c] = NoConfig
    BY <1>2 DEF Configure, Make
  <2>2. /\ configs' = [configs EXCEPT ![d][c] = config] /\ active' = active /\ checked' = checked
    BY <1>2 DEF Configure, ConfigureAlarm
  <2>3. ~active[d][c]
    BY <2>1 DEF LatchInv
  <2>4. ASSUME NEW e \in Devices, NEW b \in Channels, active[e][b]
        PROVE  configs'[e][b] = configs[e][b]
    <3>1. e # d \/ b # c
      BY <2>3, <2>4
    <3> QED
      BY <2>2, <3>1 DEF AlarmTypeOK
  <2> QED
    BY <2>2, <2>4 DEF LatchInv, OutOfLimits
<1>3. ASSUME UNCHANGED <<configs, active, checked>> PROVE LatchInv'
  BY <1>3 DEF LatchInv, OutOfLimits
<1>4. ASSUME NEW k \in Clients, NEW d \in Devices,
             \/ \E c \in Channels : Acknowledge(k, d, c)
             \/ Clear(k, d) \/ StartList(k, d)
      PROVE  UNCHANGED <<configs, active, checked>>
  BY <1>4 DEF Acknowledge, AcknowledgeAlarm, Clear, ClearRecords, StartList, alarmVars
<1>5. ASSUME NEW k \in Clients, RequestStep(k) \/ Deliver(k)
      PROVE  UNCHANGED <<configs, active, checked>>
  BY <1>5 DEF RequestStep, Snapshot, EmitSnapshot, EmitEmpty, List, Respond, Deliver, alarmVars
<1>6. ASSUME NEW w \in Workers, Announce(w) PROVE UNCHANGED <<configs, active, checked>>
  BY <1>6 DEF Announce, alarmVars
<1>7. CASE UNCHANGED vars
  BY <1>3, <1>7 DEF vars, alarmVars
<1> QED
  BY <1>1, <1>2, <1>3, <1>4, <1>5, <1>6, <1>7 DEF Next

\* A reading out of limits that follows one within the limits raises an alarm,
\* as long as no configuration is replaced (with "reconfigure" it need not).
THEOREM FeedExcursions ==
  ASSUME "reconfigure" \notin Operations
  PROVE  Spec => ExcursionRaises
<1> DEFINE Raises(d, c) ==
      LET before == checked[d]
          after  == checked'[d]
      IN /\ before # after
         /\ before # NoFrame
         /\ Exceeds(d, c, after)
         /\ c \in DOMAIN before /\ ~OutOfLimits(configs[d][c], before[c])
         => Len(records'[d][c]) > Len(records[d][c])
<1>1. ASSUME AlarmTypeOK, LatchInv, [Next]_vars, NEW d \in Devices, NEW c \in Channels
      PROVE  Raises(d, c)
  <2>1. SUFFICES ASSUME checked[d] # checked'[d], Exceeds(d, c, checked'[d]),
                        c \in DOMAIN checked[d], ~OutOfLimits(configs[d][c], checked[d][c])
                 PROVE  Len(records'[d][c]) > Len(records[d][c])
    OBVIOUS
  <2>2. PICK w \in Workers, e \in Devices, frame \in Frames : Check(w, e, frame)
    <3>1. checked' # checked
      BY <2>1
    <3> QED
      BY <1>1, <3>1 DEF Next, vars, RequestStep, Announce, Acknowledge, Clear, StartList, Configure,
                        Snapshot, EmitSnapshot, EmitEmpty, List, Respond, Deliver
  <2>3. e = d /\ checked'[d] = frame
    BY <1>1, <2>1, <2>2 DEF Check, LatchInv
  <2>4. ~active[d][c]
    BY <1>1, <2>1 DEF LatchInv
  <2>5. c \in Triggered(d, frame)
    BY <2>1, <2>3, <2>4 DEF Triggered
  <2>6. records'[d][c] = Append(records[d][c], NewRecord(frame[c]))
    BY <1>1, <2>2, <2>3, <2>5 DEF Check, CheckData, AlarmTypeOK
  <2>7. /\ records[d][c] \in Seq(Record) /\ NewRecord(frame[c]) \in Record
    <3>1. frame[c] \in Int
      BY <2>5, TelemetryAssumption DEF Triggered, Exceeds, Examined
    <3> QED
      BY <1>1, <3>1, NewRecordType DEF AlarmTypeOK
  <2>8. Len(records'[d][c]) = Len(records[d][c]) + 1 /\ Len(records[d][c]) \in Nat
    BY <2>6, <2>7, AppendProperties, LenProperties
  <2> QED
    BY <2>8
<1>2. AlarmTypeOK /\ LatchInv /\ [Next]_vars => [\A d \in Devices, c \in Channels : Raises(d, c)]_vars
  BY <1>1
<1>3. AlarmIInv => AlarmTypeOK
  BY DEF AlarmIInv
<1>4. AlarmTypeOK /\ LatchInv /\ [Next]_vars => LatchInv'
  BY LatchStep
<1>5. Spec => [][\A d \in Devices, c \in Channels : Raises(d, c)]_vars
  BY <1>2, <1>3, <1>4, LatchInit, FeedAlarmInv, PTL DEF Spec
<1> QED
  BY <1>5 DEF ExcursionRaises

\* Workers and handlers keep what the alarm core promises.
THEOREM FeedAlarms ==
  Spec => []OldestAcknowledgedFirst /\ OneRecordPerExcursion /\ UnseenAlarmsSurvive
BY FeedDrivesAlarms, AcknowledgeOrder, Excursions, UnseenSurvive, PTL
=============================================================================
