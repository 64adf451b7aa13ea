------------------------------ MODULE AlarmFeed ------------------------------
(***************************************************************************)
(* Alarms on their way to the operator: the telemetry workers that check   *)
(* frames and announce the alarms they raise (telemetry_service.rs), the   *)
(* request handlers that acknowledge, clear, list and configure            *)
(* (alarm_service.rs), the event bus, and the alarm store of every web     *)
(* client (alarmStore.ts).                                                 *)
(*                                                                         *)
(* Workers and handlers are tasks of a multi-threaded runtime.  Each call  *)
(* into AlarmSystem is atomic (one lock), but what a task read under that  *)
(* lock it emits later, so the steps of different tasks interleave between *)
(* the two.  The bus delivers the same order to every client; an HTTP      *)
(* response is not ordered with the events.  A client has one request of   *)
(* its own under way at a time.                                            *)
(***************************************************************************)
EXTENDS AlarmSystem

CONSTANTS
  Workers,      \* the tasks that process telemetry
  Feeds,        \* [worker]: the devices whose frames it receives
  Clients,      \* web clients with an open WebSocket
  Operations,   \* requests the clients make: subset of AllOperations
  MaxRequests,  \* bound: requests made in one behaviour
  NoFrame       \* "no frame checked yet"

AllOperations == {"acknowledge", "clear", "list", "configure", "reconfigure"}

ASSUME FeedAssumption ==
  /\ Feeds \in [Workers -> SUBSET Devices]
  /\ Operations \subseteq AllOperations
  /\ MaxRequests \in Nat

VARIABLES
  worker,       \* [worker]: announcements it has still to emit
  request,      \* [client]: the request under way
  inbox,        \* [client]: events on their way over the WebSocket
  view,         \* [client][device][channel]: alarmsByDevice of the store
  checked,      \* history: [device]: the last frame checked
  raised,       \* history: alarms raised
  heard,        \* history: [client]: alarms the client was told of
  made          \* number of requests made

taskVars == <<worker, request, inbox, view>>
vars == <<alarmVars, taskVars, checked, raised, heard, made>>

Idle == [pc |-> "idle"]

Init ==
  /\ AlarmInit
  /\ worker  = [w \in Workers |-> {}]
  /\ request = [k \in Clients |-> Idle]
  /\ inbox   = [k \in Clients |-> <<>>]
  /\ view    = [k \in Clients |-> [d \in Devices |-> [c \in Channels |-> <<>>]]]
  /\ checked = [d \in Devices |-> NoFrame]
  /\ raised  = {}
  /\ heard   = [k \in Clients |-> {}]
  /\ made = 0

\* Mutant of Emit: a client that waits for a response misses the event.
EmitToIdle(event) ==
  inbox' = [k \in Clients |-> IF request[k] = Idle THEN Append(inbox[k], event) ELSE inbox[k]]

\* EventBus::emit: every subscriber gets the event.
Emit(event) == inbox' = [k \in Clients |-> Append(inbox[k], event)]

AlarmTriggered(d, c, rec) == [type |-> "AlarmTriggered", device |-> d, channel |-> c, alarm |-> rec]
AlarmsChanged(d, alarms) == [type |-> "AlarmsChanged", device |-> d, alarms |-> alarms]

NoRecords == [c \in Channels |-> <<>>]

-----------------------------------------------------------------------------
(* Telemetry: process_telemetry, steps 2 and 5.                            *)

Check(w, d, frame) ==
  /\ worker[w] = {}
  /\ d \in Feeds[w]
  /\ CheckData(d, frame)
  /\ worker'  = [worker EXCEPT ![w] =
                   {AlarmTriggered(d, c, NewRecord(frame[c])) : c \in Triggered(d, frame)}]
  /\ checked' = [checked EXCEPT ![d] = frame]
  /\ raised' = raised \cup {<<d, c, now + 1>> : c \in Triggered(d, frame)}
  /\ UNCHANGED <<request, inbox, view, heard, made>>

\* One alarm of the list check_data returned is emitted.
Announce(w) ==
  \E event \in worker[w] :
    /\ Emit(event)
    /\ worker' = [worker EXCEPT ![w] = @ \ {event}]
    /\ UNCHANGED <<alarmVars, request, view, checked, raised, heard, made>>

-----------------------------------------------------------------------------
(* Requests.  request[k].pc names the step that comes next.                *)

Make(k, op, next) ==
  /\ op \in Operations
  /\ request[k] = Idle
  /\ made < MaxRequests
  /\ made' = made + 1
  /\ request' = [request EXCEPT ![k] = next]

Proceed(k, pc, next) ==
  /\ request[k].pc = pc
  /\ request' = [request EXCEPT ![k] = next]
  /\ UNCHANGED made

\* POST acknowledge: the core is updated ...
Acknowledge(k, d, c) ==
  /\ Make(k, "acknowledge", [pc |-> "snapshot", device |-> d])
  /\ AcknowledgeAlarm(d, c)
  /\ UNCHANGED <<worker, inbox, view, checked, raised, heard>>

\* Mutant of Snapshot: every record is shown as acknowledged.
SnapshotAcknowledged(k) ==
  LET d == request[k].device IN
  /\ Proceed(k, "snapshot", [pc |-> "emit", device |-> d,
                             alarms |-> [c \in Channels |-> AcknowledgeAll(records[d][c])]])
  /\ UNCHANGED <<alarmVars, worker, inbox, view, checked, raised, heard>>

\* ... the records are read under a lock of their own ...
Snapshot(k) ==
  LET d == request[k].device IN
  /\ Proceed(k, "snapshot", [pc |-> "emit", device |-> d, alarms |-> records[d]])
  /\ UNCHANGED <<alarmVars, worker, inbox, view, checked, raised, heard>>

\* ... and emitted after it; on the response the store lists the alarms anew.
EmitSnapshot(k) ==
  LET d == request[k].device IN
  /\ Proceed(k, "emit", [pc |-> "list", device |-> d])
  /\ Emit(AlarmsChanged(d, request[k].alarms))
  /\ UNCHANGED <<alarmVars, worker, view, checked, raised, heard>>

\* POST clear: the core drops the records, then the empty list is emitted.
Clear(k, d) ==
  /\ Make(k, "clear", [pc |-> "emitEmpty", device |-> d])
  /\ ClearRecords(d)
  /\ UNCHANGED <<worker, inbox, view, checked, raised, heard>>

EmitEmpty(k) ==
  LET d == request[k].device IN
  /\ Proceed(k, "emitEmpty", [pc |-> "respond", device |-> d, alarms |-> NoRecords])
  /\ Emit(AlarmsChanged(d, NoRecords))
  /\ UNCHANGED <<alarmVars, worker, view, checked, raised, heard>>

\* GET alarms, on its own (a device is selected) or after an acknowledgement.
StartList(k, d) ==
  /\ Make(k, "list", [pc |-> "list", device |-> d])
  /\ UNCHANGED <<alarmVars, worker, inbox, view, checked, raised, heard>>

List(k) ==
  LET d == request[k].device IN
  /\ Proceed(k, "list", [pc |-> "respond", device |-> d, alarms |-> records[d]])
  /\ UNCHANGED <<alarmVars, worker, inbox, view, checked, raised, heard>>

\* The response of list, or of clear, replaces the store's list.
Respond(k) ==
  LET d == request[k].device IN
  /\ Proceed(k, "respond", Idle)
  /\ view' = [view EXCEPT ![k][d] = request[k].alarms]
  /\ UNCHANGED <<alarmVars, worker, inbox, checked, raised, heard>>

\* PUT config: one call into the core.  A first configuration and a change of
\* one are told apart so that runs can leave the latter out.
Configure(k, d, c, config) ==
  /\ Make(k, IF configs[d][c] = NoConfig THEN "configure" ELSE "reconfigure", Idle)
  /\ ConfigureAlarm(d, c, config)
  /\ UNCHANGED <<worker, inbox, view, checked, raised, heard>>

-----------------------------------------------------------------------------
(* The client's onmessage: AlarmTriggered appends, AlarmsChanged replaces. *)
Deliver(k) ==
  /\ inbox[k] # <<>>
  /\ inbox' = [inbox EXCEPT ![k] = Tail(@)]
  /\ LET event == Head(inbox[k]) IN
       IF event.type = "AlarmTriggered"
       THEN /\ view'  = [view EXCEPT ![k][event.device][event.channel] = Append(@, event.alarm)]
            /\ heard' = [heard EXCEPT ![k] = @ \cup
                           {<<event.device, event.channel, event.alarm.timestamp>>}]
       ELSE /\ view' = [view EXCEPT ![k][event.device] = event.alarms]
            /\ UNCHANGED heard
  /\ UNCHANGED <<alarmVars, worker, request, checked, raised, made>>

RequestStep(k) ==
  Snapshot(k) \/ EmitSnapshot(k) \/ EmitEmpty(k) \/ List(k) \/ Respond(k)

Next ==
  \/ \E w \in Workers :
       \/ \E d \in Devices, frame \in Frames : Check(w, d, frame)
       \/ Announce(w)
  \/ \E k \in Clients :
       \/ \E d \in Devices :
            \/ \E c \in Channels : Acknowledge(k, d, c)
            \/ Clear(k, d)
            \/ StartList(k, d)
            \/ \E c \in Channels, config \in Configs : Configure(k, d, c, config)
       \/ RequestStep(k)
       \/ Deliver(k)

Spec == Init /\ [][Next]_vars

\* Tasks the runtime has started run on, and the socket delivers; frames and
\* requests come or do not.
Fairness ==
  /\ \A w \in Workers : WF_vars(Announce(w))
  /\ \A k \in Clients : WF_vars(RequestStep(k)) /\ WF_vars(Deliver(k))

FairSpec == Spec /\ Fairness

-----------------------------------------------------------------------------
(* Properties.                                                             *)

\* Nothing is on its way to a client.
Quiet ==
  /\ \A w \in Workers : worker[w] = {}
  /\ \A k \in Clients : request[k] = Idle /\ inbox[k] = <<>>

Stamps(recs) == {recs[i].timestamp : i \in DOMAIN recs}

\* README: "fault alarm push: anomalies are notified at once".  When nothing is
\* on its way any more, every client shows every alarm the host still holds
\* unacknowledged.
NoLostAlarm ==
  Quiet => \A k \in Clients, d \in Devices, c \in Channels :
             {records[d][c][i].timestamp : i \in Unacknowledged(records[d][c])}
               \subseteq Stamps(view[k][d][c])

\* Every alarm raised reaches every client as an AlarmTriggered event, even one
\* that is acknowledged, cleared or hidden by an older list before it arrives:
\* the clients always catch up with the alarms.
AlarmsAnnounced == []<>(\A k \in Clients : raised \subseteq heard[k])

\* No client ever shows an alarm as acknowledged that the host holds
\* unacknowledged, whatever lists and events overtake each other.
NoPhantomAcknowledgement ==
  \A k \in Clients, d \in Devices, c \in Channels :
    \A i \in DOMAIN view[k][d][c], j \in DOMAIN records[d][c] :
      /\ view[k][d][c][i].timestamp = records[d][c][j].timestamp
      /\ view[k][d][c][i].acknowledged
      => records[d][c][j].acknowledged

\* README, same sentence: a reading out of limits that follows one within the
\* limits in force is a new excursion, and raises an alarm.
ExcursionRaises ==
  [][\A d \in Devices, c \in Channels :
       LET before == checked[d]
           after  == checked'[d]
       IN /\ before # after
          /\ before # NoFrame
          /\ Exceeds(d, c, after)
          /\ c \in DOMAIN before /\ ~OutOfLimits(configs[d][c], before[c])
          => Len(records'[d][c]) > Len(records[d][c])]_vars
=============================================================================
