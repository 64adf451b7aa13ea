# HeteroLink in TLA+

A verification project for HeteroLink: TLA+ modules of the host program and of the
sub-boards' firmware, TLC configurations that check them on small instances, and theorems about them
checked by TLAPS. Paths below are relative to `src/`; `host/` stands for
`src/software/host/`. `PROJECT.json` lists the runs, the source lines of every
definition, the hazards, the findings and the theorems.

## 1. The system

HeteroLink is a host server (Rust, tokio and axum), a web client (Vue) and the
firmware of sub-boards (ESP32, C). Sub-boards publish status, telemetry, alarms
and command responses over MQTT. The host keeps a registry of devices, checks
telemetry against alarm limits, keeps statistics, records to files, and pushes
every change to the web clients over WebSockets; the clients make requests over
HTTP.

| Component | State | Operations | Talks to | What is hard |
|---|---|---|---|---|
| Alarm core, `host/src/core/alarm_system.rs` | limits, records and active latch per device and channel, under one RwLock | configure, enable, check, acknowledge, clear | called by telemetry and alarm service | latch, limits and records are changed by different calls |
| Alarm service and store, `services/alarm_service.rs`, `web/src/stores/alarmStore.ts` | one list of alarms per client | acknowledge, clear, list, configure | alarm core, event bus | lists copied under the lock and emitted after it |
| Telemetry service, `services/telemetry_service.rs` | none of its own | process_telemetry | data processor, alarm core, recorder, event bus | announcements are emitted after the check |
| Device registry, `core/device_manager.rs`, `services/device_service.rs`, `deviceStore.ts` | DeviceInfo per id, under a mutex; a list per client | add, remove, disconnect, report, list | event bus | lists of concurrent tasks overtake each other |
| MQTT channel, `protocol/mqtt.rs` with `mqtt_service.rs` and `command_service.rs` | client handle, flag, retry counter, one event loop per connect | connect, disconnect, publish, status; poll | broker, workers | three levels of locks, a bounded queue, loops that outlive their client, faults |
| Event workers, `workers/*.rs` | two mpsc queues of 200 | route events to services | services | one worker per queue; a slow one holds back the event loop |
| Data processor, `core/data_processor.rs`, and export, `services/export_service.rs` | ring of frames with a limit, statistics per channel | add, resize, clear, latest, stats, CSV and JSON | telemetry service, API | ring at its limit, frames of different widths in one export |
| Recorder, `storage/data_logger.rs`, `recording_service.rs`, `appStore.ts` | file, rows, device, recording flag; the flag of each client | start, stop, write, split | telemetry service, event bus | a failing open between two files, two recordings in one second, overlapping requests |
| Configuration, `storage/config.rs`, `config_service.rs` | configuration in memory and on disk | load, save, reset | start-up, API | a stop during a save; memory set before the file |
| Updater, `services/updater_service.rs` | status; the program on disk | check, apply | API, start-up, GitHub | check and act under two lock scopes; a handler whose client leaves; versions |
| WebSocket hub, `api/ws.rs`, `infra/event_bus.rs`, `useWebSocket.ts` | broadcast ring of 1024, two tasks per socket, retry counter | emit, send, reconnect | all services, all clients | lagging readers, sockets that stay open unserved, events lost while away |
| Frame codec, `protocol/frame.rs`, `crc16.rs` | none | encode, decode | not used by the application | lengths and checksum |
| Simulation, export, routes, DTOs | none that matters | | | |
| Firmware, `unit/main/app_main.c` | Wi-Fi and MQTT link, alarm latches, sample rate | link events, commands, sampling | broker | event handlers against tasks, latch set before publishing |
| Drivers, `unit/components/adc_gpio_probe`, `spi_dma` | channels, calibration; transaction queue | init, read, send | firmware | channel compaction; a queue whose results are never taken |

What makes each part correct is stated as the properties of section 3.

## 2. The modules

`Telemetry` declares what the engines share: `Devices` and `Frames`, a frame being a
function from channels to readings.

`AlarmSystem`: the alarm core. `configs`, `records` and `active` are the three
maps of `AlarmState`; each `pub async fn` that changes them is one action,
because it holds the write lock from its first line to its last. `check_data` is
`CheckData`: `Examined` is its early `continue`, `Exceeds` its two limit tests,
`Triggered` the early return of `trigger_alarm_inner`. Readings are integers,
level and message of a record are left out, and a stamp is the number of the
check that raised the record: it identifies it, and says nothing of the wall clock. (The
wire format has a resolution of seconds, `domain/alarm.rs:61-66`.)

`AlarmFeed` extends it with the tasks around the core. A telemetry worker checks
a frame (`Check`) and emits its alarms one by one (`Announce`). A request is a
small program whose next step is `request[k].pc`: acknowledge is `Acknowledge`,
`Snapshot` (a lock of its own), `EmitSnapshot`, and then the client's own
`List` and `Respond`; clear is `Clear`, `EmitEmpty`, `Respond`. `Emit` appends to
the inbox of every client, `Deliver` is the client's `onmessage`. `checked`,
`raised` and `heard` are history variables. Responses are kept in `request[k]`
and events in `inbox[k]`: HTTP and the WebSocket are two connections, so a
response and an event can arrive in either order.

`DataProcessor`: the ring of frames and the statistics of each device behind their
locks (`AddData`, `SetBufferSize`, `ClearData`, `ClearAll`, the read
`GetLatestData`). Averages are exact rationals, the standard deviation is kept as the
mean square. `pushed` is a history variable: everything a device ever sent.

`Recorder`: the logger behind its mutex. `StartRecording`, `StopRecording` and
`WriteData` are whole calls with their failures (`Outcomes`: done, nothing
opened, or a file created whose header could not be written); `WriteData` splits
when the file has `MaxRows` rows or `SplitInterval` has passed. A file is named by device and second, and `files` is the
disk: opening a name again truncates it. `recorder.rows` and the file can differ
after a failed write, which the file's `intact` remembers.

`TelemetryPipeline` composes the three. A worker takes a message (`Receive`: parse
and `AddData`), has it examined (`Check`) and written (`Write`), under three locks
one after the other. `Parse` moves the channels that are present together, as
`parse_mqtt_telemetry` does, so readings of different payloads share a channel
number. Recording requests are `Start` or `Stop`, then `EmitChanged` and `Respond`;
`Hear` is the client's `RecordingChanged`. `Menus` is a bound: which calls a
behaviour may use and how often. `muddled` is a history variable: the last recording request failed
or overlapped another. The reads `ExportCsv` and `ExportJson` are operators.

`EventFeed` is an abstract specification: what the bus and the WebSocket promise a
client. `EventHub` is the code: the broadcast channel (`Emit`; `next[k]` is the
receiver's position), the tasks of a connection (`Subscribe`, `Take`, `Lag`), the
connection (`wire[k]`), and `useWebSocket` (`Open`, `Refused`, `Closed`,
`TimerFires`, `Hear`, `Disconnect`), with lost connections and restarts of the host.
`Feed` is the INSTANCE by which it implements `EventFeed`: a client has a feed while
its connection is subscribed.

`ConfigStore`: `ConfigManager` and its file. Requests hold the mutex to their end,
but a save is several steps (`SaveConfig`, `BeginWrite`, `EndWrite` or a failure),
since the host may stop between them. `Load` reads the file, or misses one that is
whole: `exists()` is also false of a file that cannot be looked at, and reading may fail.
`missed` is the history of the last load.

`Updater`: each task of a check or an application goes through the steps between
two locks of the status (`Fetch`, `Report`; `Mark`, `Download`, `Replace`,
`Finish`). `gone` are the tasks whose handler was dropped while a blocking download
runs on. `IsNewer` and `SemverGreater` are the host's and the library's order of versions.

`HostLifecycle` composes the two with start and stop of the process: `Start` loads the
configuration and makes the MQTT channel with it, `StartupCheck` is the update check
of start-up, `Stop` may come anywhere and leaves only the two files.

`DeviceRegistry`: the registry behind its mutex, the MQTT worker's
`update_device_online` (change and copy under one lock, `EmitOnline` after it),
the requests (`broadcast_device_list` takes a second lock, `CopyList`, and emits
after it, `EmitList`), the lists of the clients. `past` and `overtaken` are history variables:
every value the registry had, and the clients to whom, at its last change, some task was
about to send a list copied before (`Awaiting`: an event goes to all, a response to its client). A device added by hand is named after the second.
A report of a device that was just removed creates it again, as in the code.

`MqttChannel`: callers, the channel's mutex, and the event loops. A caller goes
through `Acquire`, `TakeHandle`, `Request` (waits for room in the queue),
`ClearFlag`, `ResetClient`, `Spawn`, `Release`, in the order of `connect`,
`disconnect` and `publish`. An event loop goes through `ConnAck`,
`ResetAttempts`, `TakeOwnHandle`, `Subscribe` (one topic at a time), back to
polling (`SendRequest`, `PollError`, `ServerDisconnect`), and after an error
`ReadAttempts`, `WriteAttempts`, `Wake`. `Become(i, r)` replaces the record of
event loop i. The library and the broker are external, modelled from how
`mqtt.rs` uses them: a poll connects if there is no session, else takes the next
request or reports a loss; the library keeps or clears the requests of a lost
session (both are allowed); a broker closes the older session of a client id
that connects again when `SharedId` holds. Incoming messages do not touch the
channel and are left out; sends to `mqtt_event_tx` are taken not to block for
good, because the worker that drains it never locks the channel. A ConnAck that refuses
is an error of poll in the library, so the branch for it (mqtt.rs:119) never runs.

`MqttStatus` extends it with the way from a session to what a page shows. `owed[i]` is
the report that event loop i has yet to send (`SendReport` waits for room in
`reports`) before `Work`, a step of `MqttChannel`, goes on. `Emit` is the worker, which makes an
event of `Connected` and `Disconnected` only, and `shown` what the pages then show: those
open from the start, which hear the same. How an event gets to a page is `EventHub`'s.

`SubboardState` holds `mqtt_connected`, the variable both halves of the firmware use.

`SubboardLink`: the network side of `unit/main/app_main.c`. Four tasks share plain
global variables, so a step is what one task does between two accesses to them,
and `pc` has a program counter for each: `app_main` (`GotAddress` or `GaveUp`,
`SetConnected`, `MqttAppStart`), `wifi_event_handler` in the event task
(`StaDisconnected`, `StopMqtt`, `NotifyBackoff`; `StaConnected`, `ResetBackoff`),
`wifi_backoff_task` (`TakeNotification`, `ChooseDelay`, `Reconnect` or `ReconnectFails`, then the
doubling as `ReadBackoff`, `WriteBackoff`, and the cap as `CompareBackoff`,
`CapBackoff`) and the MQTT handler (`MqttConnected`, `SubscribeCommands`,
`PublishOnline`; `MqttDisconnected`). The driver, `example_connect`, the esp-mqtt
client and the broker with its wills are external. `late` is a history variable:
main raised the flag after the event of the loss had been handled.

`SubboardSampling`: `main_loop_task` and the commands. The loop goes through
`StartFrame`, `ReadAll`, `PublishTelemetry`, `CheckEnabled`, and for every reading
`CompareUpper`, `CompareLower` and one of `Suppress`, `FindNew` - `Raise` -
`PublishAlarm`, or `BackInRange`; between any two of these the esp-mqtt task can
carry out a step of a command (`SetUpper`, `SetLower`, `SetEnabled`, `ResetAlarms`
are four steps of one `set_alarm`). A frame of a probe with an unreadable channel is
shorter, and the latches go by place in the frame, as in the code. `excursion` and
`sinceStop` are history variables: what became of the excursion at each place, and
how many frames were published since a stop. A start command sets the interval
(`SetInterval`) and then the probe (`StartSampling`); the next telemetry divides by it, and
`Trap` is what an Xtensa processor makes of an interval of 0. When the interval has
elapsed is open. Left out are the content of responses, `set_gpio`, and the level, value
and limit in an alarm's message.

`Firmware` composes the two halves. The esp-mqtt task is one task: it takes a command
(`HandleCommand`) only in a session and when no handler runs, it reports the session
only between commands (`EspMqttFree`), and `esp_mqtt_client_stop` waits for it. Here
`mqtt_connected` is written by the two handlers alone (`SessionOpens`,
`SessionCloses`), where `SubboardSampling` on its own lets a session open and close
at will. Its states are the product of the two, so it has no run of its own: that it
implements them both is proved.

Every module keeps, next to a definition, the mutants of it that the check uses
to show that each property can fail; they are no part of the specification.

## 3. The runs

All properties are stated with a comment in their modules. There is one run for each
question; where a module composes another, its run checks the older properties too (`Firmware` has no
run, section 2).

| Run | Instance | Shows |
|---|---|---|
| `telemetry_pipeline` | 1 worker, 2 devices, messages of one or two channels, buffers of at most 2, files of 2 rows, 2 seconds, 2 clients, five menus of up to 3 calls and 3 messages | reads and exports are a gapless end of the stream, statistics match a reference, recordings are gapless and never lost, the flag is shown, alarms are acknowledged oldest first, unseen alarms survive, one record per excursion |
| `alarm_feed` | 1 worker, 1 device, 1 channel, 2 clients, 3 requests, 2 raises | no phantom acknowledgement, every excursion raises while nobody reconfigures, every alarm is announced to every client |
| `alarm_feed_lost` | 2 requests, 1 raise | violation of `NoLostAlarm` |
| `device_registry` | 1 reporter, 2 seconds in which devices are added, 2 clients, 2 requests, 1 report | coherent flags; only whole past lists are shown; in the end clients show the registry's list, but for those an older one was on its way to |
| `mqtt` | `MqttStatus`: 2 callers, 2 loops, 1 topic, queue of 6, 2 calls, 1 fault, a queue of 1 report | lock discipline, subscriptions, flag; calls return, retries end, sessions settle; the pages show the session when all is delivered, and come to show it if it lasts |
| `mqtt_replace` | 1 caller, 2 loops, 2 topics, queue of 2, 2 calls, no fault | violation of `DisconnectIsFinal` |
| `mqtt_full` | 2 callers, 1 loop, queue of 1, 3 calls, 1 fault | violation of `CallsReturn` |
| `event_hub` | 2 clients, channel of 2, connections that hold 1, 2 attempts, 4 events, 3 faults | the hub implements the feed; clients give up late, settle, and catch up while served |
| `host_lifecycle` | 2 configurations, the start-up task and 2 others, 4 versions, 4 requests, 1 stop, 2 releases | saved configurations survive and are used by every start that does not miss the file, the update's status settles, offers are newer |
| `subboard_link` | delay 2, at most 5, jitter below 2, 2 waiting events, 2 faults | pause in range, flag and announcements right, reconnection goes on |
| `subboard_returns` | 1 fault | violation of `SessionReturns` |
| `subboard_sampling` | 2 channels, 3 readings, 2 bands, 3 rates, 2 commands, 1 loss | latches are announced, a stop stops |

Why the bounds are enough.

* Alarms: one channel in `alarm_feed`, since no step relates two. Two
  raises and three requests let an acknowledgement, an alarm and a clear or list meet.
* Clients: events go to all alike, and a request concerns one of them, so one that
  asks and one that listens are all the kinds there are.
* Pipeline: two devices, because recorder and export must keep them apart. Three
  messages into a buffer of two drop a frame; three rows into files of two split;
  two seconds hold two recordings of one name and one of another. The engines share
  no state, so a menu calls the alarm core, the processor or the recorder, while the
  worker always drives all three; the recorder's menus trade requests for messages.
* MQTT: an old event loop and its successor. A queue of 6 has room for the requests of
  2 calls and the subscriptions of both loops, the ordinary case of the real capacity of 100; the full queue is `mqtt_full`.
  `MaxAttempts` is 2 instead of 10 here and in the hub: all values below the maximum
  are treated alike.
  One topic, because a loop holds its handle from the first to the last, whatever their
  number; `Subscriptions` is proved for any topics. A queue that one report fills makes
  a loop wait for the worker.
* Hub: a client with three events to take from a channel of two lags, and 4 events
  leave one to hear before or after. Three faults are a connection lost and two refusals,
  which is giving up after having been connected.
* Host: 4 requests are two saves, the second of them cut short, with a load or reset, or
  two overlapping applications with their checks. The versions are
  older, equal, a pre-release and newer.
* Sub-board: a delay of 2 that is capped at 5 is doubled once below the limit and once above
  it, and a jitter of 0 or 1 passes the limit; two waiting events are a loss and a return that the event task has not seen;
  two channels let a frame be short, so that places move.

Symmetry is used in runs whose tasks or clients are interchangeable: `device_registry`
(no temporal property), and `telemetry_pipeline` and `host_lifecycle`, whose temporal properties are
of the form `[][A]_vars` with a symmetric `A`.

`CHECK_DEADLOCK FALSE` appears where behaviours end because the bounds of
requests, messages, calls, commands and faults are used up, or because a board waits for an
access point, and in `mqtt_full`, where waiting for ever is what the run is about.

## 4. Fairness

Weak fairness of every task that was started (`Announce`, `RequestStep`,
`Deliver`, `CallerStep`, `LoopStep`): tokio polls every ready task again, and its
mutexes queue their waiters in order, so a caller that waits for a free mutex gets
it (only the bounded number of calls keeps the mutex busy). No fairness for
frames, requests, calls, the clock, faults or the return of the broker: nothing in
the code makes them happen. `RetriesEnd` therefore speaks only of behaviours in
which the broker stays away, and `SessionsSettle` allows loops that gave up.
`Deliver` is fair because a socket that stays open and is served delivers. In `MqttStatus`
the same for `Work`, `SendReport` and `Emit`.

Of the hub, for every client: weak fairness of the connection's task on the host
(`ServerStep`), of message delivery (`Hear`), of the browser's timer (`TimerFires`), of the answer
to a connection attempt, whichever it is (`Open` or `Refused`), and of the report that
a connection has ended (`Closed`). None for `Emit`, faults, `HostStarts` and
`Disconnect`: a host may stay down, and a quiet bus owes nothing. The safety
runs of the pipeline and the host assume no fairness.

On the sub-board weak fairness of its four tasks (`AppMain`, `HandleWifiEvent`,
`BackoffTask`, `HandleMqttEvent`), which block only in calls that return and which
FreeRTOS runs when they are ready, and of `OpenSession`, since the esp-mqtt client
connects by itself until it is stopped. None for what the radio and the access
point do.

## 5. What the checks found

Each of these is a run that TLC finds violated:

* `NoLostAlarm` (alarm_service.rs:61): a list copied before an alarm and emitted
  after it hides the alarm from every client. `AlarmsAnnounced` holds all the
  same: the alarm was shown, and taken away again.
* `DisconnectIsFinal` (mqtt.rs:165): the event loop of a session that was asked to
  disconnect connects again. A consequence that the other properties avoid by their
  premises: the flag of a disconnected channel goes up again, and two loops of one
  client id take the session from each other without end (`SessionsSettle` with
  `SharedId = TRUE` does not hold).
* `CallsReturn` with a full queue (mqtt.rs:114): the event loop waits for room in
  the queue that it alone empties.
* `SessionReturns` (app_main.c:360): the handler stops the MQTT client when the
  association is lost, and nothing starts it again when the board is back.

And these are facts of the code that the models contain and that a premise of a
property, or its exact wording, makes room for:

* A latch that is up when its alarm is disabled stays up and swallows the next
  excursion (alarm_system.rs:104): `ExcursionRaises` is for channels that nobody
  reconfigures.
* A task that has copied the device list may send it after the list of a later change
  (device_service.rs:57, and the response to a GET, deviceStore.ts:12): one status report
  during a page's GET leaves that page with the older list. `ListsConverge` excuses the
  clients an older list was on its way to at the last change. Lists are never mixtures.
* A client that lags behind the ring stays connected and hears nothing more
  (ws.rs:25 and 49): only the send task ends. `ServedCatchUp` speaks of clients that
  are served. The log says that the client has disconnected.
* A failed or overlapping recording request leaves a client showing the wrong flag
  (appStore.ts:17), and nothing corrects it: `fetchRecordingStatus` has no caller.
  `RecordingShown` excludes both by `muddled`.
* A second recording of a device in one second truncates the first
  (data_logger.rs:127): the last disjunct of `RecordingsKept`.
* A CSV export fails for a buffer whose frames have different widths
  (`ExportCsv` is then empty).
* A lost session is reported as an error (mqtt.rs:168), which makes no `MqttStatusChanged`, and a
  disconnect through the API not at all, so pages go on showing a connection; a page that is
  opened while a session is up shows none, and cannot record, until the next session: nothing asks for
  `mqtt/status`. `SessionShown` therefore speaks of pages open before the session, and
  of a session that is up.
* The panel offers sample rates up to 10000 (DeviceControlPanel.vue:13), but above 1000 the interval
  is 0 milliseconds (app_main.c:230), and the next telemetry divides by it (line 93): `Trap`
  where the processor traps, else it goes on with a meaningless rate.
* The host subscribes to the sub-boards' `alarm` topic, but no branch of mqtt.rs:131-157
  routes it and the worker drops what is left (mqtt_events.rs:56): an alarm that a sub-board
  raises is not shown, only those that the host finds in telemetry.
* A save that is cut short destroys the configuration saved before, not only the new
  one (config.rs:45): `SavedSurvives` ends where a later write begins, and
  `StartUsesSaved` then says the defaults.
* A start that cannot look at or read a whole file (config.rs:32 and 38) only warns
  (builder.rs:73) and runs on the defaults (`missed` in `StartUsesSaved`); the next save
  then replaces the settings in the file.
* The pause before an attempt is the delay and up to 499 ms of jitter (app_main.c:317), so
  it may exceed `WIFI_BACKOFF_MAX_MS`; `BackoffInRange` bounds the sum.
* A subscribe that the client refuses is only logged (app_main.c:396): the board is shown
  as online and hears no command (`subscribed` is "failed"). `SessionAnnounced` says that
  it has asked.
* A handler dropped during a check or an application leaves "Checking" or
  "Downloading" for good (`left` in `StatusSettles`).
* `is_newer` takes 1.1.0-rc.1 for newer than 1.1.0, because the part with the
  hyphen does not parse (updater_service.rs:288): `OfferIsNewer` is for releases. An
  application that finds nothing newer ends in Ready with the running version. Two
  overlapping applications may put the older of two downloads last; it is still never
  older than the program that runs (`NeverDowngrades`).
* `config.data.buffer_size` is never given to the data processor, and
  `UpdateAvailable` has no case in `useWebSocket.ts`.

## 6. The proofs

Assumptions are the named ASSUMEs on the constants (`TelemetryAssumption`,
`AlarmAssumption`, `ProcessorAssumption`, `RecorderAssumption`, `PipelineAssumption`, `PayloadAssumption`,
`HubAssumption`, `ConfigAssumption`, `UpdaterAssumption`, `LifecycleAssumption`,
`RegistryAssumption`, `FeedAssumption`, `ChannelAssumption`, `RoomAssumption`, `LinkAssumption`, `SamplingAssumption`)
and nothing else; all bounds are arbitrary naturals, all sets arbitrary.
(`PayloadAssumption` says that what `Parse` makes of a payload is in `Frames`. TLC
evaluates all of them.)

`AlarmSystemProofs`. `AlarmTypeOK` is inductive. `AlarmIInv` adds to the
properties what makes them inductive: stamps increase along a list and are at most
the clock, so an appended record is later than all others, and no unacknowledged
record precedes an acknowledged one. The action properties `OneRecordPerExcursion` and `UnseenAlarmsSurvive`
follow from types and this invariant, case by case over the five operations; the
lemmas `AcknowledgeFirstKeeps`, `AcknowledgeFirstGood` and `AppendGood` say what
the two ways to change a list do to it.

`TelemetryPipelineProofs`. The pipeline implements the specifications of the engines
it drives: every step of it is a step of the alarm core or leaves it alone
(`AlarmStep`), and the same for the data processor, so `PipelineDrivesAlarms` is
`Spec => AlarmSpec` and carries the theorems about the core over to the pipeline. `FlowInv` types the tasks. `BufferInv`:
a buffer is an end of what was pushed; the `Ends` lemmas say that appending and
dropping from the front keep that, and that an end of an end is an end, from which
`ReadsAreRecent` follows for every read and both exports. `StatsMatch` compares the
running statistics with sums over the whole history since the last clear. A sum is a
recursive function of the length of the list, so that an append changes it by one
term (`SumOfAppend`) is an induction over data; it is done without the library's
induction theorems, for the set of the lengths at which it holds (`SetInduction`).
`StatsInv` ties each channel's tally to the readings since the clear; `TallyOne` and `TallyOther`
say what a frame does to a channel it has and to one it lacks. `RecorderInv` says which
file is open; `FilesKept` says of each recorder operation what it does to files, and
`RecordingsKept` follows for every step. `StretchInv` makes `RecordingIsAStretch`
inductive: a stream is numbered from 1, a worker has the last frame of its device in
hand, every intact file is a stretch, and the open one ends with the last frame that
was offered to the recorder (`LastOffered`), so that the next to be written follows
on. This needs one task for each device (`PipelineAssumption`), which is what the
single event worker is. `ShownInv` makes `RecordingShown` inductive: while nothing is
muddled at most one request is under way, and what a client will show when its inbox
is empty (`LastShown`) is what the recorder does, unless that request has still to emit.
`ChannelPlace` says what `Parse` does to any message: the number of channels before it
grows from one present channel to the next (`BeforeGrows`), so it is the place a channel
comes to.

`EventHubProofs`. `FeedInv` relates the connection to the feed (`Contiguous`): the events
on a client's wire are those after the last one heard, without a gap, the
receiver's position follows them, and a client without subscription has
an empty wire. With it every step maps to a step of `EventFeed` or a stutter, which is `HubImplementsFeed`
(the abstract specification has no fairness, so this is the whole refinement).
`HubGivesUpLate` counts: the attempts used are at most one more than the refusals
since the last connection, the one being for the loss that ended it.

`HostLifecycleProofs`. `ConfigInv`: the file is torn exactly while `cut` holds, and a host
that does not run holds the defaults and saves nothing; this makes `SavedSurvives`
inductive and decides what a start loads when it does not miss the file. `UpdaterInv` says what a task carries at each
step (`Carries`): results are results, what was found is newer and what is
to be installed is greater than the program that runs. `StatusInv` strengthens
`StatusSettles`: the task under way still has its handler, so it will write. That
`IsNewer` implies `SemverGreater` for releases is the lemma `IsNewerIsGreater`.
`NoDowngrade` proves `NeverDowngrades`, which is part of `UpdaterInv`.

`DeviceRegistryProofs`. `RegistryIInv`: the registry is in `past`, every list that
a worker, a request, a WebSocket or a client holds is in `past`, and everything in
`past` is coherent. `ListsAreSnapshots` and `ConnectedIsOnline` are instances of
it: lists move only from the registry to the tasks to the sockets to the views,
and are never edited on the way. `ConvergeIInv` says of each client that is not
`overtaken` (`UpToDate`): a list that a task holds for it is the registry's present one, and
what it will show when its inbox is empty (`LastShown`) is the registry's list, unless the
task that changed it has still to emit (`EmissionPending`). A change makes it true
for just the clients nobody holds a list for (`StoreAwaited`), whatever was before. `StepKeepsUpToDate` has a
step per action, and the lemmas `ViewMoves` and `RequestMoves` cover those that
only move lists.

`MqttChannelProofs`. `LoopEffects`, `CallerEffects` and `FaultEffects` tabulate
what a step does to the few components the invariants speak of.
`AttemptsBounded` is inductive with the typing: a loop that writes has read a value
below the maximum, and every other write is 0. `LockIInv` relates program counters,
the mutex, the present client and the handles; `FlagIInv` adds the program counters
between a change of the session and the write of the flag. `FlagTracksSession` needs
that with one loop and no disconnect nobody else writes the flag. `TopicsIInv` follows the
subscriptions of a session topic by topic: each one asked for is in the queue or
subscribed to, and there is no session between an error and the next poll, so
`SessionSubscribed` survives every reconnection (`Subscriptions`). The loops with
their reports implement the channel's specification (`ReportingKeepsChannel`), and
`ReportInv` makes `SessionShown` inductive: once the only loop has reported that its
session is up, that is the last word on its way to the pages but for errors (`UpLast`,
kept by appending an error and by taking the head), until the session is lost.
`NoLockCycle`: the mutex is held by a caller that is inside (`HolderInside`), and what
such a caller waits for, a handle or room in the queue, is in the hands of an event loop
or of nobody; so a full queue, which `mqtt_full` shows to happen, is the only thing that
can stop them all. `CallsReturn` adds fairness to that.

`AlarmFeedProofs`. The feed implements the alarm core's specification
(`FeedDrivesAlarms`), so the invariants of the core hold in it. `HonestInv` makes
`NoPhantomAcknowledgement` inductive: every copy of a record, in the hands of a worker,
in a request, on the wire or shown, is not from the future, and is marked only if the
record with its stamp, where there still is one, is marked. A copy stays honest
through any step of the core (`HonestStays`): acknowledging only marks, clearing only
takes away, and a new record has a stamp later than every copy; the rest of the proof
follows the copies. `AnnounceInv` says where an alarm raised can be, in a worker's hands,
on the wire to the client, or heard by it (`AnnouncementsKept`); `AlarmsAnnounced` adds
that it does not stay on the way, which needs fairness. `LatchInv`: a latch is up only
for an enabled configuration which the last frame, if it has the channel, is out of.
It holds as long as no configuration is replaced, the hypothesis of `FeedExcursions`
(section 5 says what happens otherwise), and then a reading within the limits has
always lowered the latch before the next excursion.

`SubboardProofs`, first `SubboardLink`. `StepMain` and its three companions say what a step of one
task does to the program counters, `MainEffects` and the others what it does to the
rest. `DelayInv`: the delay is in range except between doubling and capping, and
what is stored then is at least the base, so a reset in between does no harm; the pause is
made from a delay in range.
`FlagInv` adds to `WifiFlagTrue` that the last waiting event tells the association.
`AnnounceInv` says at each point of the MQTT handler what it has done for a session
that is up; a session that ends under the handler is outside it. `RetryComing` is the
safety half of `WifiRetried`: off the network and aware of it, the board has the event of
the loss, a notification or an attempt before it, since a notification is given up only
by a board that is connected. `StoppedForGood` is the reason for the violation of
`SessionReturns`: only main starts a client, and only once (`StartedOnce`). All this is
proved of `LinkSteps`, `LinkSpec` without its fairness.

Then `SubboardSampling`. `StopInv`: a frame under way was started while sampling
was on, and none was published without sampling since. `LatchInv`: every latch
agrees with what was said of its excursion, but for the one the loop is raising,
whose excursion is untold before the latch is set and settled by the publication;
`ResetAlarms` may come at any of these points. `SlowRatesAreSafe`: `Trap` needs a rate
above 1000, whatever else happens.

Last `Firmware`. A step of it is a step of the link or changes nothing there
(`FirmwareKeepsLink`), so types and `StartedOnce` hold in it, and with them `TaskInv`:
what the handler of MQTT events has done so far, and that a command is carried out only
between handlers in a session. `FirmwareKeepsSampling` rests on it, because
`SubboardSampling` supposes that a session opens only while the flag is down and closes
only while it is up and no command is under way. `FirmwareSafe` collects what holds of the
board, and that nobody is commanded whose subscribe was not accepted or who is not shown as online.

Only model-checked: all liveness (`AlarmsAnnounced`, `CallsReturn`, `RetriesEnd`,
`SessionsSettle`, `SessionShownAtLast`, `ReconnectionSettles`, `ServedCatchUp`,
`WifiRetried`), since fairness and ENABLED are beyond the prover. Every safety and
action property of a passing run is proved.

## 7. Plan

What is left, in order.

1. The way of a command from a client to the sub-board and back.
2. The rest of the firmware: `set_gpio` and initialisation of the probe.
3. `Frame`: codec and CRC against a reference, for TLC only.

## 8. Not modelled, and why

* Simulation is a source of test data, built only with a feature flag; the worker of device
  events gets events only from it.
* Routes, DTOs and the broadcast conversion have no state, and every domain event has
  a message. Arguments and the assembly of services in `app/builder.rs` neither.
* The frame codec is not used by the application, and the SPI driver of the firmware is
  initialised only with a build option that is off, and never asked to send.
* Vue components present the stores; what they ask of the host is modelled as
  requests. Scripts and project files have no behaviour of the running system.

Some of the modelled operations have no caller in the host: `set_buffer_size`,
`clear_data`, `clear_all`, `set_auto_split`, `set_alarm_enabled`. They are part of
what an engine promises, and the pipeline's menus use them. `set_max_file_size` is the constant `MaxRows`.
