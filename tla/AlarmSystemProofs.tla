-------------------------- MODULE AlarmSystemProofs --------------------------
(***************************************************************************)
(* Proofs about AlarmSystem, for every set of devices, channels,           *)
(* configurations and frames.                                              *)
(***************************************************************************)
EXTENDS AlarmSystem, TLAPS

\* What the elements of a record list are.
LEMMA ListElements ==
  ASSUME NEW recs \in Seq(Record), NEW i \in DOMAIN recs
  PROVE  /\ recs[i] \in Record
         /\ recs[i].timestamp \in Nat
         /\ recs[i].acknowledged \in BOOLEAN
<1>1. recs[i] \in Record
  OBVIOUS
<1> QED
  BY <1>1 DEF Record

\* Setting the flag of a record keeps its other fields.
LEMMA SetFlag ==
  ASSUME NEW r \in Record, NEW b \in BOOLEAN
  PROVE  /\ [r EXCEPT !.acknowledged = b] \in Record
         /\ [r EXCEPT !.acknowledged = b].timestamp = r.timestamp
         /\ [r EXCEPT !.acknowledged = b].acknowledged = b
  BY DEF Record

\* Marking a record keeps the length of the list, and every field but the flag
\* (acknowledge_alarm changes one record in place).
LEMMA AcknowledgeFirstKeeps ==
  ASSUME NEW recs \in Seq(Record)
  PROVE  /\ AcknowledgeFirst(recs) \in Seq(Record)
         /\ Len(AcknowledgeFirst(recs)) = Len(recs)
         /\ DOMAIN AcknowledgeFirst(recs) = DOMAIN recs
         /\ \A i \in DOMAIN recs :
              /\ AcknowledgeFirst(recs)[i].timestamp = recs[i].timestamp
              /\ AcknowledgeFirst(recs)[i].acknowledged =
                   (recs[i].acknowledged \/ \A j \in Unacknowledged(recs) : i <= j)
<1> DEFINE mark(i) == recs[i].acknowledged \/ \A j \in Unacknowledged(recs) : i <= j
<1> DEFINE new == AcknowledgeFirst(recs)
<1>1. DOMAIN recs = 1..Len(recs) /\ Len(recs) \in Nat
  OBVIOUS
<1>2. DOMAIN new = DOMAIN recs
  BY DEF AcknowledgeFirst
<1>3. ASSUME NEW i \in DOMAIN recs
      PROVE  new[i] \in Record /\ new[i].timestamp = recs[i].timestamp
             /\ new[i].acknowledged = mark(i)
  <2>1. recs[i] \in Record
    BY ListElements
  <2>2. mark(i) \in BOOLEAN
    BY ListElements
  <2>3. new[i] = [recs[i] EXCEPT !.acknowledged = mark(i)]
    BY DEF AcknowledgeFirst
  <2> HIDE DEF mark, new
  <2> QED
    BY <2>1, <2>2, <2>3, SetFlag
<1>4. new = [i \in 1..Len(recs) |-> new[i]]
  BY <1>1 DEF AcknowledgeFirst
<1> HIDE DEF mark, new
<1>5. new \in Seq(Record) /\ Len(new) = Len(recs)
  BY <1>1, <1>3, <1>4
<1> QED
  BY <1>1, <1>2, <1>3, <1>5 DEF mark, new

\* A stamped record is a Record, one later than every record so far.
LEMMA NewRecordType ==
  ASSUME now \in Nat, NEW v \in Int
  PROVE  /\ NewRecord(v) \in Record
         /\ NewRecord(v).timestamp = now + 1
         /\ NewRecord(v).acknowledged = FALSE
  BY DEF NewRecord, Record

\* What a check leaves in the records of one channel: one more record if the
\* channel triggered, the same ones if not.
LEMMA CheckDataRecords ==
  ASSUME AlarmTypeOK, NEW d \in Devices, NEW frame \in Frames, CheckData(d, frame),
         NEW e \in Devices, NEW c \in Channels
  PROVE  \/ records'[e][c] = records[e][c]
         \/ /\ e = d /\ c \in Triggered(d, frame) /\ frame[c] \in Int
            /\ now' = now + 1
            /\ records'[e][c] = Append(records[e][c], NewRecord(frame[c]))
<1>1. CASE e = d /\ c \in Triggered(d, frame)
  <2>1. frame[c] \in Int
    BY <1>1, AlarmAssumption, TelemetryAssumption DEF Triggered, Exceeds, Examined
  <2>2. records'[e][c] = Append(records[e][c], NewRecord(frame[c]))
    BY <1>1 DEF CheckData, AlarmTypeOK
  <2> QED
    BY <1>1, <2>1, <2>2 DEF CheckData
<1>2. CASE e # d \/ c \notin Triggered(d, frame)
  BY <1>2 DEF CheckData, AlarmTypeOK
<1> QED
  BY <1>1, <1>2

-----------------------------------------------------------------------------
\* Every operation of the alarm core keeps the types of its state.
THEOREM AlarmTyping == AlarmSpec => []AlarmTypeOK
<1>1. AlarmInit => AlarmTypeOK
  BY DEF AlarmInit, AlarmTypeOK
<1>2. AlarmTypeOK /\ [AlarmNext]_alarmVars => AlarmTypeOK'
  <2> SUFFICES ASSUME AlarmTypeOK, [AlarmNext]_alarmVars
               PROVE  AlarmTypeOK'
    OBVIOUS
  <2>1. ASSUME NEW d \in Devices, NEW c \in Channels, NEW config \in Configs,
               ConfigureAlarm(d, c, config)
        PROVE  AlarmTypeOK'
    BY <2>1, AlarmAssumption DEF ConfigureAlarm, AlarmTypeOK
  <2>2. ASSUME NEW d \in Devices, NEW c \in Channels, NEW enabled \in BOOLEAN,
               SetAlarmEnabled(d, c, enabled)
        PROVE  AlarmTypeOK'
    <3>1. configs[d][c] \in ConfigType
      BY <2>2 DEF SetAlarmEnabled, AlarmTypeOK
    <3>2. [configs[d][c] EXCEPT !.enabled = enabled] \in ConfigType
      BY <3>1 DEF ConfigType
    <3> QED
      BY <2>2, <3>2 DEF SetAlarmEnabled, AlarmTypeOK
  <2>3. ASSUME NEW d \in Devices, NEW frame \in Frames, CheckData(d, frame)
        PROVE  AlarmTypeOK'
    <3>1. now' \in Nat
      BY <2>3 DEF CheckData, AlarmTypeOK
    <3>2. active' \in [Devices -> [Channels -> BOOLEAN]]
      BY <2>3, AlarmAssumption DEF CheckData, AlarmTypeOK, Exceeds, Examined, OutOfLimits
    <3>3. ASSUME NEW e \in Devices, NEW c \in Channels
          PROVE  records'[e][c] \in Seq(Record)
      <4>1. CASE records'[e][c] = records[e][c]
        BY <4>1 DEF AlarmTypeOK
      <4>2. CASE /\ frame[c] \in Int
                 /\ records'[e][c] = Append(records[e][c], NewRecord(frame[c]))
        <5>1. NewRecord(frame[c]) \in Record
          BY <4>2, NewRecordType DEF AlarmTypeOK
        <5>2. records[e][c] \in Seq(Record)
          BY DEF AlarmTypeOK
        <5> QED
          BY <4>2, <5>1, <5>2
      <4> QED
        BY <2>3, <4>1, <4>2, CheckDataRecords
    <3>4. /\ DOMAIN records' = Devices
          /\ \A e \in Devices : /\ DOMAIN records'[e] = Channels
                                /\ records'[e] = [c \in Channels |-> records'[e][c]]
          /\ records' = [e \in Devices |-> records'[e]]
      BY <2>3 DEF CheckData, AlarmTypeOK
    <3>5. records' \in [Devices -> [Channels -> Seq(Record)]]
      BY <3>3, <3>4
    <3> QED
      BY <2>3, <3>1, <3>2, <3>5 DEF CheckData, AlarmTypeOK
  <2>4. ASSUME NEW d \in Devices, NEW c \in Channels, AcknowledgeAlarm(d, c)
        PROVE  AlarmTypeOK'
    <3>1. AcknowledgeFirst(records[d][c]) \in Seq(Record)
      BY AcknowledgeFirstKeeps DEF AlarmTypeOK
    <3> QED
      BY <2>4, <3>1 DEF AcknowledgeAlarm, AlarmTypeOK
  <2>5. ASSUME NEW d \in Devices, ClearRecords(d)
        PROVE  AlarmTypeOK'
    BY <2>5 DEF ClearRecords, AlarmTypeOK
  <2>6. CASE UNCHANGED alarmVars
    BY <2>6 DEF alarmVars, AlarmTypeOK
  <2> QED
    BY <2>1, <2>2, <2>3, <2>4, <2>5, <2>6 DEF AlarmNext
<1> QED
  BY <1>1, <1>2, PTL DEF AlarmSpec

-----------------------------------------------------------------------------
(* Safety.  Chronological is not inductive alone: a new stamp must be later *)
(* than the stamps of the list, so the invariant also bounds them by the    *)
(* clock.                                                                   *)
Stamped(recs, t) == \A i \in DOMAIN recs : recs[i].timestamp <= t

AlarmIInv ==
  /\ AlarmTypeOK
  /\ OldestAcknowledgedFirst
  /\ Chronological
  /\ \A d \in Devices, c \in Channels : Stamped(records[d][c], now)
  /\ ActiveIsReachable

\* The three facts about the record list of one channel.
GoodList(recs, t) == OldestFirst(recs) /\ StampsIncrease(recs) /\ Stamped(recs, t)

\* Acknowledging the first unacknowledged record keeps a list good.
LEMMA AcknowledgeFirstGood ==
  ASSUME NEW recs \in Seq(Record), NEW t \in Nat, GoodList(recs, t)
  PROVE  GoodList(AcknowledgeFirst(recs), t)
<1> DEFINE new == AcknowledgeFirst(recs)
<1>1. /\ DOMAIN new = DOMAIN recs
      /\ \A i \in DOMAIN recs :
           /\ new[i].timestamp = recs[i].timestamp
           /\ new[i].acknowledged =
                (recs[i].acknowledged \/ \A j \in Unacknowledged(recs) : i <= j)
  BY AcknowledgeFirstKeeps
<1>2. StampsIncrease(new) /\ Stamped(new, t)
  <2> HIDE DEF new
  <2> QED
    BY <1>1 DEF GoodList, StampsIncrease, Stamped
<1>3. ASSUME NEW i \in DOMAIN recs, NEW j \in DOMAIN recs,
             i < j, new[j].acknowledged
      PROVE  new[i].acknowledged
  <2>1. CASE recs[j].acknowledged
    BY <1>1, <1>3, <2>1 DEF GoodList, OldestFirst
  <2>2. CASE \A k \in Unacknowledged(recs) : j <= k
    <3>1. i \in Int /\ j \in Int
      OBVIOUS
    <3>2. i \notin Unacknowledged(recs)
      BY <1>3, <2>2, <3>1
    <3>3. recs[i].acknowledged
      BY <3>2 DEF Unacknowledged
    <3> QED
      BY <1>1, <3>3
  <2> QED
    BY <1>1, <1>3, <2>1, <2>2
<1>4. OldestFirst(new)
  BY <1>1, <1>3 DEF OldestFirst
<1> QED
  BY <1>2, <1>4 DEF GoodList

\* Appending a fresh record keeps a list good at the advanced clock.
LEMMA AppendGood ==
  ASSUME now \in Nat, NEW recs \in Seq(Record), NEW v \in Int, GoodList(recs, now)
  PROVE  GoodList(Append(recs, NewRecord(v)), now + 1)
<1> DEFINE new == Append(recs, NewRecord(v))
<1>1. /\ NewRecord(v) \in Record
      /\ NewRecord(v).timestamp = now + 1
      /\ NewRecord(v).acknowledged = FALSE
  BY NewRecordType
<1>2. /\ DOMAIN recs = 1..Len(recs) /\ Len(recs) \in Nat
      /\ DOMAIN new = 1..(Len(recs) + 1)
      /\ \A i \in 1..Len(recs) : new[i] = recs[i]
      /\ new[Len(recs) + 1] = NewRecord(v)
  <2> HIDE DEF NewRecord
  <2> QED
    BY <1>1
<1>0. \A i \in DOMAIN recs : recs[i].timestamp \in Nat
  BY ListElements
<1> HIDE DEF new
<1>3. OldestFirst(new)
  BY <1>1, <1>2 DEF GoodList, OldestFirst
<1>4. Stamped(new, now + 1)
  BY <1>0, <1>1, <1>2 DEF GoodList, Stamped
<1>5. ASSUME NEW i \in DOMAIN new, NEW j \in DOMAIN new, i < j
      PROVE  new[i].timestamp < new[j].timestamp
  <2>1. i \in 1..Len(recs) /\ new[i] = recs[i]
    BY <1>2, <1>5
  <2>2. CASE j = Len(recs) + 1
    BY <1>0, <1>1, <1>2, <2>1, <2>2 DEF GoodList, Stamped
  <2>3. CASE j \in 1..Len(recs)
    BY <1>2, <1>5, <2>1, <2>3 DEF GoodList, StampsIncrease
  <2> QED
    BY <1>2, <2>2, <2>3
<1>6. StampsIncrease(new)
  BY <1>5 DEF StampsIncrease
<1> QED
  BY <1>3, <1>4, <1>6 DEF GoodList, new

\* The records of a channel, and the clock, after any step.
LEMMA StepKeepsLists ==
  AlarmIInv /\ [AlarmNext]_alarmVars =>
    \A e \in Devices, k \in Channels : GoodList(records'[e][k], now')
<1> SUFFICES ASSUME AlarmIInv, [AlarmNext]_alarmVars,
                    NEW e \in Devices, NEW k \in Channels
             PROVE  GoodList(records'[e][k], now')
  OBVIOUS
<1>0. /\ AlarmTypeOK /\ now \in Nat
      /\ records[e][k] \in Seq(Record)
      /\ GoodList(records[e][k], now)
  BY DEF AlarmIInv, AlarmTypeOK, OldestAcknowledgedFirst, Chronological, GoodList
<1>1. CASE records'[e][k] = records[e][k] /\ now' = now
  BY <1>0, <1>1
<1>2. ASSUME NEW d \in Devices, NEW frame \in Frames, CheckData(d, frame)
      PROVE  GoodList(records'[e][k], now')
  <2>1. CASE /\ frame[k] \in Int /\ now' = now + 1
             /\ records'[e][k] = Append(records[e][k], NewRecord(frame[k]))
    BY <1>0, <2>1, AppendGood
  <2>2. CASE records'[e][k] = records[e][k]
    <3>1. now' \in Nat /\ now <= now'
      BY <1>0, <1>2 DEF CheckData
    <3>2. \A i \in DOMAIN records[e][k] : records[e][k][i].timestamp \in Nat
      BY <1>0, ListElements
    <3> QED
      BY <1>0, <2>2, <3>1, <3>2 DEF GoodList, Stamped
  <2> QED
    BY <1>0, <1>2, <2>1, <2>2, CheckDataRecords
<1>3. ASSUME NEW d \in Devices, NEW c \in Channels, AcknowledgeAlarm(d, c)
      PROVE  GoodList(records'[e][k], now')
  <2>1. now' = now /\ \/ records'[e][k] = records[e][k]
                      \/ records'[e][k] = AcknowledgeFirst(records[e][k])
    BY <1>0, <1>3 DEF AcknowledgeAlarm, AlarmTypeOK
  <2> QED
    BY <1>0, <2>1, AcknowledgeFirstGood
<1>4. ASSUME NEW d \in Devices, ClearRecords(d)
      PROVE  GoodList(records'[e][k], now')
  <2>1. now' = now /\ (records'[e][k] = records[e][k] \/ records'[e][k] = <<>>)
    BY <1>0, <1>4 DEF ClearRecords, AlarmTypeOK
  <2>2. GoodList(<<>>, now)
    BY DEF GoodList, OldestFirst, StampsIncrease, Stamped
  <2> QED
    BY <1>0, <2>1, <2>2
<1>5. \/ records' = records /\ now' = now
      \/ \E d \in Devices :
           \/ \E frame \in Frames : CheckData(d, frame)
           \/ \E c \in Channels : AcknowledgeAlarm(d, c)
           \/ ClearRecords(d)
  BY DEF AlarmNext, ConfigureAlarm, SetAlarmEnabled, alarmVars
<1> QED
  BY <1>1, <1>2, <1>3, <1>4, <1>5

\* No step raises a latch telemetry cannot reach.
LEMMA StepKeepsReachable ==
  AlarmIInv /\ [AlarmNext]_alarmVars => ActiveIsReachable'
<1> SUFFICES ASSUME AlarmTypeOK, ActiveIsReachable, [AlarmNext]_alarmVars,
                    NEW e \in Devices, NEW k \in Channels, active'[e][k]
             PROVE  configs'[e][k] # NoConfig /\ k >= 0
  BY DEF AlarmIInv, ActiveIsReachable
<1>1. ASSUME NEW d \in Devices, NEW c \in Channels, NEW config \in Configs,
             ConfigureAlarm(d, c, config)
      PROVE  configs'[e][k] # NoConfig /\ k >= 0
  BY <1>1, AlarmAssumption DEF ConfigureAlarm, AlarmTypeOK, ActiveIsReachable
<1>2. ASSUME NEW d \in Devices, NEW c \in Channels, NEW enabled \in BOOLEAN,
             SetAlarmEnabled(d, c, enabled)
      PROVE  configs'[e][k] # NoConfig /\ k >= 0
  <2>1. configs[d][c] \in ConfigType
    BY <1>2 DEF SetAlarmEnabled, AlarmTypeOK
  <2>2. [configs[d][c] EXCEPT !.enabled = enabled] \in ConfigType
    BY <2>1 DEF ConfigType
  <2> QED
    BY <1>2, <2>2, AlarmAssumption DEF SetAlarmEnabled, AlarmTypeOK, ActiveIsReachable
<1>3. ASSUME NEW d \in Devices, NEW frame \in Frames, CheckData(d, frame)
      PROVE  configs'[e][k] # NoConfig /\ k >= 0
  <2>1. CASE active[e][k]
    BY <1>3, <2>1 DEF CheckData, ActiveIsReachable
  <2>2. CASE ~active[e][k]
    <3>1. Examined(e, k, frame)
      BY <1>3, <2>2 DEF CheckData, AlarmTypeOK
    <3>2. k \in Nat
      BY <3>1, AlarmAssumption, TelemetryAssumption DEF Examined
    <3> QED
      BY <1>3, <3>1, <3>2 DEF CheckData, Examined
  <2> QED
    BY <2>1, <2>2
<1>4. CASE configs' = configs /\ active' = active
  BY <1>4 DEF ActiveIsReachable
<1> QED
  BY <1>1, <1>2, <1>3, <1>4 DEF AlarmNext, AcknowledgeAlarm, ClearRecords, alarmVars

\* The inductive invariant of the alarm core.
THEOREM AlarmInvariant == AlarmSpec => []AlarmIInv
<1>1. AlarmInit => AlarmIInv
  <2> SUFFICES ASSUME AlarmInit PROVE AlarmIInv
    OBVIOUS
  <2>1. AlarmTypeOK
    BY DEF AlarmInit, AlarmTypeOK
  <2>2. \A d \in Devices, c \in Channels : records[d][c] = <<>> /\ ~active[d][c]
    BY DEF AlarmInit
  <2> QED
    BY <2>1, <2>2 DEF AlarmIInv, OldestAcknowledgedFirst, OldestFirst, Chronological,
                      StampsIncrease, Stamped, ActiveIsReachable
<1>2. AlarmTypeOK' /\ AlarmIInv /\ [AlarmNext]_alarmVars => AlarmIInv'
  BY StepKeepsLists, StepKeepsReachable
     DEF AlarmIInv, GoodList, OldestAcknowledgedFirst, Chronological
<1> QED
  BY <1>1, <1>2, AlarmTyping, PTL DEF AlarmSpec

\* Records are acknowledged oldest first, in every behaviour.
THEOREM AcknowledgeOrder == AlarmSpec => []OldestAcknowledgedFirst
<1>1. AlarmIInv => OldestAcknowledgedFirst
  BY DEF AlarmIInv
<1> QED
  BY <1>1, AlarmInvariant, PTL

\* Records of a channel are in the order they were raised, stamps distinct.
THEOREM RecordOrder == AlarmSpec => []Chronological
<1>1. AlarmIInv => Chronological
  BY DEF AlarmIInv
<1> QED
  BY <1>1, AlarmInvariant, PTL

\* No latch is up that telemetry could not lower.
THEOREM LatchReachable == AlarmSpec => []ActiveIsReachable
<1>1. AlarmIInv => ActiveIsReachable
  BY DEF AlarmIInv
<1> QED
  BY <1>1, AlarmInvariant, PTL

\* Readings out of limits in a row raise one alarm: a step adds a record only
\* while it puts the channel's latch up.
THEOREM Excursions == AlarmSpec => OneRecordPerExcursion
<1> DEFINE Added(e, k) ==
      Len(records'[e][k]) > Len(records[e][k]) =>
        /\ ~active[e][k] /\ active'[e][k]
        /\ Len(records'[e][k]) = Len(records[e][k]) + 1
<1>1. ASSUME AlarmTypeOK, [AlarmNext]_alarmVars, NEW e \in Devices, NEW k \in Channels
      PROVE  Added(e, k)
  <2>0. records[e][k] \in Seq(Record) /\ Len(records[e][k]) \in Nat
    BY <1>1 DEF AlarmTypeOK
  <2>1. ASSUME NEW d \in Devices, NEW frame \in Frames, CheckData(d, frame)
        PROVE  Added(e, k)
    <3>1. CASE records'[e][k] = records[e][k]
      BY <2>0, <3>1
    <3>2. CASE /\ e = d /\ k \in Triggered(d, frame) /\ frame[k] \in Int
               /\ records'[e][k] = Append(records[e][k], NewRecord(frame[k]))
      <4>1. ~active[e][k] /\ active'[e][k]
        BY <1>1, <2>1, <3>2 DEF CheckData, Triggered, Exceeds, AlarmTypeOK
      <4>2. NewRecord(frame[k]) \in Record
        BY <1>1, <3>2, NewRecordType DEF AlarmTypeOK
      <4>3. Len(records'[e][k]) = Len(records[e][k]) + 1
        BY <2>0, <3>2, <4>2
      <4> QED
        BY <4>1, <4>3
    <3> QED
      BY <1>1, <2>1, <3>1, <3>2, CheckDataRecords
  <2>2. ASSUME NEW d \in Devices, NEW c \in Channels, AcknowledgeAlarm(d, c)
        PROVE  Added(e, k)
    <3>1. \/ records'[e][k] = records[e][k]
          \/ records'[e][k] = AcknowledgeFirst(records[e][k])
      BY <1>1, <2>2 DEF AcknowledgeAlarm, AlarmTypeOK
    <3> QED
      BY <2>0, <3>1, AcknowledgeFirstKeeps
  <2>3. ASSUME NEW d \in Devices, ClearRecords(d)
        PROVE  Added(e, k)
    <3>1. records'[e][k] = records[e][k] \/ records'[e][k] = <<>>
      BY <1>1, <2>3 DEF ClearRecords, AlarmTypeOK
    <3> QED
      BY <2>0, <3>1
  <2>4. CASE records' = records
    BY <2>0, <2>4
  <2> QED
    BY <1>1, <2>1, <2>2, <2>3, <2>4
       DEF AlarmNext, ConfigureAlarm, SetAlarmEnabled, alarmVars
<1>2. AlarmTypeOK /\ [AlarmNext]_alarmVars =>
        [\A d \in Devices, c \in Channels : Added(d, c)]_alarmVars
  BY <1>1
<1> QED
  BY <1>2, AlarmTyping, PTL DEF AlarmSpec, OneRecordPerExcursion

\* An unacknowledged record leaves the list only with all of them, and loses
\* its flag only as the oldest, one per step.
THEOREM UnseenSurvive == AlarmSpec => UnseenAlarmsSurvive
<1> DEFINE Kept(d, c) ==
      \/ \A k \in Channels : records'[d][k] = <<>>
      \/ /\ DOMAIN records[d][c] \subseteq DOMAIN records'[d][c]
         /\ \A i \in Unacknowledged(records[d][c]) :
              \/ i \in Unacknowledged(records'[d][c])
              \/ /\ \A j \in Unacknowledged(records[d][c]) : i <= j
                 /\ Len(records'[d][c]) = Len(records[d][c])
<1>1. ASSUME AlarmTypeOK, [AlarmNext]_alarmVars, NEW e \in Devices, NEW k \in Channels
      PROVE  Kept(e, k)
  <2>0. records[e][k] \in Seq(Record)
    BY <1>1 DEF AlarmTypeOK
  <2>1. CASE records'[e][k] = records[e][k]
    BY <2>1
  <2>2. ASSUME NEW r \in Record, records'[e][k] = Append(records[e][k], r)
        PROVE  Kept(e, k)
    <3>1. /\ DOMAIN records[e][k] \subseteq DOMAIN records'[e][k]
          /\ \A i \in DOMAIN records[e][k] : records'[e][k][i] = records[e][k][i]
      BY <2>0, <2>2
    <3> QED
      BY <3>1 DEF Unacknowledged
  <2>3. CASE records'[e][k] = AcknowledgeFirst(records[e][k])
    <3>1. ASSUME NEW i \in Unacknowledged(records[e][k]),
                 i \notin Unacknowledged(records'[e][k])
          PROVE  \A j \in Unacknowledged(records[e][k]) : i <= j
      BY <2>0, <2>3, <3>1, AcknowledgeFirstKeeps DEF Unacknowledged
    <3> QED
      BY <2>0, <2>3, <3>1, AcknowledgeFirstKeeps
  <2>4. ASSUME NEW d \in Devices, NEW frame \in Frames, CheckData(d, frame)
        PROVE  Kept(e, k)
    <3>1. CASE /\ frame[k] \in Int
               /\ records'[e][k] = Append(records[e][k], NewRecord(frame[k]))
      <4>1. NewRecord(frame[k]) \in Record
        BY <1>1, <3>1, NewRecordType DEF AlarmTypeOK
      <4> QED
        BY <2>2, <3>1, <4>1
    <3>2. \/ records'[e][k] = records[e][k]
          \/ /\ frame[k] \in Int
             /\ records'[e][k] = Append(records[e][k], NewRecord(frame[k]))
      BY <1>1, <2>4, CheckDataRecords
    <3> QED
      BY <2>1, <3>1, <3>2
  <2>5. ASSUME NEW d \in Devices, NEW c \in Channels, AcknowledgeAlarm(d, c)
        PROVE  Kept(e, k)
    <3>1. \/ records'[e][k] = records[e][k]
          \/ records'[e][k] = AcknowledgeFirst(records[e][k])
      BY <1>1, <2>5 DEF AcknowledgeAlarm, AlarmTypeOK
    <3> QED
      BY <2>1, <2>3, <3>1
  <2>6. ASSUME NEW d \in Devices, ClearRecords(d)
        PROVE  Kept(e, k)
    <3>1. \/ records'[e][k] = records[e][k]
          \/ \A c \in Channels : records'[e][c] = <<>>
      BY <1>1, <2>6 DEF ClearRecords, AlarmTypeOK
    <3> QED
      BY <2>1, <3>1
  <2>7. CASE records' = records
    BY <2>1, <2>7
  <2> QED
    BY <1>1, <2>4, <2>5, <2>6, <2>7
       DEF AlarmNext, ConfigureAlarm, SetAlarmEnabled, alarmVars
<1>2. AlarmTypeOK /\ [AlarmNext]_alarmVars =>
        [\A d \in Devices, c \in Channels : Kept(d, c)]_alarmVars
  BY <1>1
<1> QED
  BY <1>2, AlarmTyping, PTL DEF AlarmSpec, UnseenAlarmsSurvive
=============================================================================
