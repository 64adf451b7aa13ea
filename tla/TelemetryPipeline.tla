-------------------------- MODULE TelemetryPipeline --------------------------
(***************************************************************************)
(* The way of a frame through the host (process_telemetry in               *)
(* telemetry_service.rs) and the calls that meet it: the MQTT worker       *)
(* parses a message, adds the frame to the data processor, has it examined *)
(* by the alarm core and written by the recorder, each under a lock of its *)
(* own, while handlers configure alarms, acknowledge, clear, set buffers,  *)
(* start and stop recordings and export.  The events the pipeline sends    *)
(* afterwards are in AlarmFeed and EventHub; here only RecordingChanged is *)
(* followed, to the flag every web client shows (appStore.ts).             *)
(*                                                                         *)
(* Calls into the engines that no handler makes yet (buffer size, clear,   *)
(* splitting, switching an alarm) are part of what the engines promise and *)
(* are among the operations a behaviour may use.                           *)
(***************************************************************************)
EXTENDS AlarmSystem, DataProcessor, Recorder, FiniteSets, SequencesExt

CONSTANTS
  Workers,      \* the tasks that process telemetry
  Feeds,        \* [worker]: the devices whose messages it receives, one task for each
  Payloads,     \* "channels" of an MQTT message: readings of some of 1..8
  Clients,      \* web clients with an open WebSocket
  Requesters,   \* those of them that start and stop recordings
  Menus         \* bounds: what may be called in one behaviour, and how often

AllOperations ==
  {"configure", "enable", "acknowledge", "clear", "resize", "forget", "record", "split"}

ASSUME PipelineAssumption ==
  /\ Feeds \in [Workers -> SUBSET Devices]
  /\ \A v, w \in Workers : v # w => Feeds[v] \cap Feeds[w] = {}
  /\ Requesters \subseteq Clients
  /\ NoFile \notin [rows : Seq(Items), intact : BOOLEAN]
  /\ Menus \subseteq [calls : SUBSET AllOperations, requests : Nat, messages : Nat]

VARIABLES
  worker,       \* [worker]: the frame it processes and the step that is next
  request,      \* [client]: the recording request under way
  inbox,        \* [client]: RecordingChanged events on their way
  shown,        \* [client]: the flag "recording" of its store
  muddled,      \* history: a start failed, or two requests overlapped
  menu,         \* the bounds of this behaviour
  made          \* number of calls made

taskVars == <<worker, request, inbox, shown, muddled, menu, made>>
vars == <<alarmVars, processorVars, recorderVars, taskVars>>

Idle == [pc |-> "idle"]

Init ==
  /\ AlarmInit
  /\ ProcessorInit
  /\ RecorderInit
  /\ worker  = [w \in Workers |-> Idle]
  /\ request = [k \in Clients |-> Idle]
  /\ inbox   = [k \in Clients |-> <<>>]
  /\ shown   = [k \in Clients |-> FALSE]
  /\ muddled = FALSE
  /\ menu \in Menus
  /\ made = 0

-----------------------------------------------------------------------------
(* The worker.                                                             *)

\* parse_mqtt_telemetry: the readings that are present, moved together.
Parse(payload) ==
  LET keys == {k \in DOMAIN payload : k \in 1..8}
      Key(i) == CHOOSE k \in keys : Cardinality({j \in keys : j < k}) = i
  IN [i \in 0..Cardinality(keys) - 1 |-> payload[Key(i)]]

ASSUME PayloadAssumption == \A p \in Payloads : Parse(p) \in Frames

\* A message without a channel is dropped.
Receive(w, d, payload) ==
  LET item == [device |-> d, stamp |-> Len(pushed[d]) + 1, channels |-> Parse(payload)] IN
  /\ worker[w] = Idle
  /\ d \in Feeds[w]
  /\ FoldFunction(LAMBDA seq, sum : Len(seq) + sum, 0, pushed) < menu.messages
  /\ DOMAIN item.channels # {}
  /\ AddData(d, item)
  /\ worker' = [worker EXCEPT ![w] = [pc |-> "check", item |-> item]]
  /\ UNCHANGED <<alarmVars, recorderVars, request, inbox, shown, muddled, menu, made>>

Check(w) ==
  /\ worker[w].pc = "check"
  /\ CheckData(worker[w].item.device, worker[w].item.channels)
  /\ worker' = [worker EXCEPT ![w].pc = "write"]
  /\ UNCHANGED <<processorVars, recorderVars, request, inbox, shown, muddled, menu, made>>

Write(w) ==
  /\ worker[w].pc = "write"
  /\ WriteData(worker[w].item)
  /\ worker' = [worker EXCEPT ![w] = Idle]
  /\ UNCHANGED <<alarmVars, processorVars, request, inbox, shown, muddled, menu, made>>

-----------------------------------------------------------------------------
(* Recording requests (recording_service.rs) and the store's flag.  The    *)
(* toolbar offers to start when the flag is down and to stop when it is up.*)

Others(k) == Clients \ {k}

Ask(k, clean, next) ==
  /\ "record" \in menu.calls
  /\ request[k] = Idle
  /\ made < menu.requests
  /\ made' = made + 1
  /\ request' = [request EXCEPT ![k] = next]
  /\ muddled' = ~(clean /\ \A o \in Others(k) : request[o] = Idle)

Proceed(k, pc, next) ==
  /\ request[k].pc = pc
  /\ request' = [request EXCEPT ![k] = next]

\* An error is answered with status 200 and no event is emitted.
Start(k, d, outcome) ==
  LET ok == recorder.recording \/ outcome = "done" IN
  /\ ~shown[k]
  /\ Ask(k, ok, [pc |-> IF ok THEN "emit" ELSE "respond", recording |-> TRUE])
  /\ StartRecording(d, outcome)
  /\ UNCHANGED <<alarmVars, processorVars, worker, inbox, shown, menu>>

Stop(k) ==
  /\ shown[k]
  /\ Ask(k, TRUE, [pc |-> "emit", recording |-> FALSE])
  /\ StopRecording
  /\ UNCHANGED <<alarmVars, processorVars, worker, inbox, shown, menu>>

\* Mutant of EmitChanged: only the client that asked is told.
EmitChangedToAsker(k) ==
  /\ Proceed(k, "emit", [request[k] EXCEPT !.pc = "respond"])
  /\ inbox' = [inbox EXCEPT ![k] = Append(@, request[k].recording)]
  /\ UNCHANGED <<alarmVars, processorVars, recorderVars, worker, shown, muddled, menu, made>>

\* The logger's lock is released by now.
EmitChanged(k) ==
  /\ Proceed(k, "emit", [request[k] EXCEPT !.pc = "respond"])
  /\ inbox' = [o \in Clients |-> Append(inbox[o], request[k].recording)]
  /\ UNCHANGED <<alarmVars, processorVars, recorderVars, worker, shown, muddled, menu, made>>

\* The store does not look at "success" in the answer.
Respond(k) ==
  /\ Proceed(k, "respond", Idle)
  /\ shown' = [shown EXCEPT ![k] = request[k].recording]
  /\ UNCHANGED <<alarmVars, processorVars, recorderVars, worker, inbox, muddled, menu, made>>

\* handleMessage: RecordingChanged.
Hear(k) ==
  /\ inbox[k] # <<>>
  /\ inbox' = [inbox EXCEPT ![k] = Tail(@)]
  /\ shown' = [shown EXCEPT ![k] = Head(inbox[k])]
  /\ UNCHANGED <<alarmVars, processorVars, recorderVars, worker, request, muddled, menu, made>>

-----------------------------------------------------------------------------
(* Other calls into the engines.                                           *)

Call(op) ==
  /\ op \in menu.calls
  /\ made < menu.requests
  /\ made' = made + 1
  /\ UNCHANGED <<worker, request, inbox, shown, muddled, menu>>

AlarmCall(d) ==
  /\ \E c \in Channels :
       \/ Call("configure") /\ \E config \in Configs : ConfigureAlarm(d, c, config)
       \/ Call("enable") /\ \E enabled \in BOOLEAN : SetAlarmEnabled(d, c, enabled)
       \/ Call("acknowledge") /\ AcknowledgeAlarm(d, c)
       \/ Call("clear") /\ ClearRecords(d)
  /\ UNCHANGED <<processorVars, recorderVars>>

ProcessorCall(d) ==
  /\ \/ Call("resize") /\ \E size \in Limits : SetBufferSize(d, size)
     \/ Call("forget") /\ (ClearData(d) \/ ClearAll)
  /\ UNCHANGED <<alarmVars, recorderVars>>

RecorderCall ==
  /\ Call("split")
  /\ SetAutoSplit(~recorder.autoSplit)
  /\ UNCHANGED <<alarmVars, processorVars>>

Clock == Tick /\ UNCHANGED <<alarmVars, processorVars, taskVars>>

Next ==
  \/ \E w \in Workers :
       \/ \E d \in Devices, payload \in Payloads : Receive(w, d, payload)
       \/ Check(w)
       \/ Write(w)
  \/ \E k \in Requesters :
       \/ \E d \in Devices, outcome \in Outcomes : Start(k, d, outcome)
       \/ Stop(k)
       \/ EmitChanged(k)
       \/ Respond(k)
  \/ \E k \in Clients : Hear(k)
  \/ \E d \in Devices : AlarmCall(d) \/ ProcessorCall(d)
  \/ RecorderCall
  \/ Clock

Spec == Init /\ [][Next]_vars

-----------------------------------------------------------------------------
(* What a client can read (GET telemetry, CSV and JSON export).            *)

\* An error is answered without data.
NoExport == [header |-> {}, rows |-> <<>>]

\* Mutant of ExportCsv: rows of any width are written.
ExportCsvFlexible(d) ==
  IF GetData(d) = <<>> THEN NoExport
  ELSE [header |-> DOMAIN Head(GetData(d)).channels, rows |-> GetData(d)]

\* The header has a column for each channel of the first frame, and the csv
\* writer refuses a record of another width: then the whole export fails.
ExportCsv(d) ==
  LET data == GetData(d) IN
  IF \/ data = <<>>
     \/ \E i \in DOMAIN data : DOMAIN data[i].channels # DOMAIN Head(data).channels
  THEN NoExport
  ELSE [header |-> DOMAIN Head(data).channels, rows |-> data]

ExportJson(d) == [NoExport EXCEPT !.rows = GetData(d)]

-----------------------------------------------------------------------------
(* Properties.                                                             *)

\* Whatever is resized and cleared in between, the buffer, the latest frames
\* and both exports are a gapless end of the device's stream, no longer than
\* the limit, and every row of a CSV export has the columns of its header.
ReadsAreRecent ==
  \A d \in Devices :
    /\ Len(buffer[d]) <= limit[d]
    /\ \A n \in 0..limit[d] : IsSuffix(GetLatestData(d, n), pushed[d])
    /\ IsSuffix(ExportJson(d).rows, pushed[d])
    /\ IsSuffix(ExportCsv(d).rows, pushed[d])
    /\ \A i \in DOMAIN ExportCsv(d).rows :
         DOMAIN ExportCsv(d).rows[i].channels = ExportCsv(d).header

\* The frames of a device since its statistics were cleared, those of them that
\* have channel c, and its readings (0 stands where a frame has none).
Since(d) == SubSeq(pushed[d], cleared[d] + 1, Len(pushed[d]))
Having(frames, c) == {i \in DOMAIN frames : c \in DOMAIN frames[i].channels}
Readings(frames, c) ==
  [i \in DOMAIN frames |-> IF c \in DOMAIN frames[i].channels THEN frames[i].channels[c] ELSE 0]

Squares(values) == [i \in DOMAIN values |-> values[i] * values[i]]

Sum(values) ==
  LET sum[n \in 0..Len(values)] == IF n = 0 THEN 0 ELSE sum[n - 1] + values[n]
  IN sum[Len(values)]

Equal(a, b) == a.num * b.den = b.num * a.den

\* The statistics, updated one reading at a time, are the least and the
\* greatest reading, the mean and the mean square of all readings since the
\* last clear, also of channels that some frames do not have, and also when
\* the buffer has long dropped the readings.
StatsMatch ==
  \A d \in Devices : \A c \in DOMAIN stats[d] :
    LET s      == stats[d][c]
        having == Having(Since(d), c)
        values == Readings(Since(d), c)
    IN /\ s.count = Cardinality(having) /\ s.count > 0
       /\ \E i \in having : s.min = values[i]
       /\ \E i \in having : s.max = values[i]
       /\ \A i \in having : s.min <= values[i] /\ values[i] <= s.max
       /\ Equal(s.avg, [num |-> Sum(values), den |-> s.count])
       /\ Equal(s.meanSquare, [num |-> Sum(Squares(values)), den |-> s.count])

\* A recording without a failed write is a gapless stretch of the stream of
\* the device it is named after, whatever is started, stopped and split while
\* frames are on their way.
RecordingIsAStretch ==
  \A n \in Names :
    files[n] # NoFile /\ files[n].intact =>
      LET rows == files[n].rows IN
      \A i \in DOMAIN rows :
        /\ rows[1].stamp + i - 1 \in DOMAIN pushed[n.device]
        /\ rows[i] = pushed[n.device][rows[1].stamp + i - 1]

\* A recording is never lost to a later one, except one of the same device in
\* the very second it was opened in: the open file only grows, and every other
\* file stays as it is.
RecordingsKept ==
  [][\A n \in Names :
       files[n] # NoFile =>
         \/ files'[n] = files[n]
         \/ n = recorder.file /\ IsPrefix(files[n].rows, files'[n].rows)
         \/ n.second = second]_vars

Quiet == \A k \in Clients : request[k] = Idle /\ inbox[k] = <<>>

\* When nothing is on its way, every client shows whether the host records,
\* as long as the last request neither failed nor overlapped another one.
RecordingShown ==
  Quiet /\ ~muddled => \A k \in Clients : shown[k] = recorder.recording
=============================================================================
