---------------------------- MODULE DeviceRegistry ----------------------------
(***************************************************************************)
(* The device registry (core/device_manager.rs) behind its TokioMutex, the *)
(* tasks that change it (services/device_service.rs): the MQTT worker and  *)
(* the request handlers, and the device list every web client shows        *)
(* (deviceStore.ts).                                                       *)
(*                                                                         *)
(* A list is copied under the lock and emitted after the lock is released, *)
(* so lists can overtake each other.  An HTTP response is not ordered with *)
(* the events of the WebSocket.  Of DeviceInfo only connected and online   *)
(* are kept.  add_device names the new device after the current second.    *)
(***************************************************************************)
EXTENDS Integers, Sequences

CONSTANTS
  Reporters,    \* ids of devices that publish their status over MQTT
  Clients,      \* web clients with an open WebSocket
  Requesters,   \* those of them that make requests
  MaxRequests,  \* bound: requests made in one behaviour
  MaxReports,   \* bound: status messages received in one behaviour
  MaxSecond,    \* bound: seconds in which devices are added by hand
  Absent        \* "no such device"

Added == 1..MaxSecond          \* ids of devices added by hand
Ids == Reporters \cup Added

Info == [connected : BOOLEAN, online : BOOLEAN]

ASSUME RegistryAssumption ==
  /\ Requesters \subseteq Clients
  /\ Absent \notin Info
  /\ MaxRequests \in Nat /\ MaxReports \in Nat /\ MaxSecond \in Nat \ {0}

VARIABLES
  devices,      \* [id]: its DeviceInfo, or Absent
  second,       \* the wall clock, in seconds
  worker,       \* the MQTT worker: the list it has to emit, if any
  request,      \* [client]: the request under way
  inbox,        \* [client]: DeviceListChanged lists on the WebSocket
  view,         \* [client]: devices of the store
  past,         \* history: every value devices had
  overtaken,    \* history: clients whose older list a task held at the last change
  requests,     \* number of requests made
  reports       \* number of status messages handled

vars == <<devices, second, worker, request, inbox, view, past, overtaken, requests, reports>>

Lists == [Ids -> Info \cup {Absent}]
Idle == [pc |-> "idle"]
Empty == [id \in Ids |-> Absent]

Init ==
  /\ devices = Empty
  /\ second = 1
  /\ worker = Idle
  /\ request = [k \in Clients |-> Idle]
  /\ inbox = [k \in Clients |-> <<>>]
  /\ view = [k \in Clients |-> Empty]
  /\ past = {Empty}
  /\ overtaken = {}
  /\ requests = 0
  /\ reports = 0

\* Clients that a task is going to send a list it copied already: an event goes to
\* all of them, the response to a GET, of whatever request, to the client that made it.
Awaiting ==
  IF worker.pc = "emit" \/ \E k \in Clients : request[k].pc = "emit"
  THEN Clients
  ELSE {k \in Clients : request[k].pc = "respond"}

\* A task changes the registry.
Store(list) ==
  /\ devices' = list
  /\ past' = past \cup {list}
  /\ overtaken' = Awaiting
Unstored == UNCHANGED <<devices, past, overtaken>>

Emit(list) == inbox' = [k \in Clients |-> Append(inbox[k], list)]

-----------------------------------------------------------------------------
(* The MQTT worker: update_device_online.                                  *)

\* Mutant of UpdateDeviceOnline: a device that reports stays connected.
UpdateDeviceConnected(id, online) ==
  /\ worker = Idle
  /\ reports < MaxReports
  /\ reports' = reports + 1
  /\ LET list == [devices EXCEPT ![id] = [connected |-> TRUE, online |-> online]] IN
       /\ Store(list)
       /\ worker' = [pc |-> "emit", list |-> list]
  /\ UNCHANGED <<second, request, inbox, view, requests>>

\* ensure_device, set_online and the copy of the list, under one lock.
UpdateDeviceOnline(id, online) ==
  /\ worker = Idle
  /\ reports < MaxReports
  /\ reports' = reports + 1
  /\ LET list == [devices EXCEPT ![id] = [connected |-> online, online |-> online]] IN
       /\ Store(list)
       /\ worker' = [pc |-> "emit", list |-> list]
  /\ UNCHANGED <<second, request, inbox, view, requests>>

\* Mutant of EmitOnline: the event carries more than the list.
EmitOnlineWhole ==
  /\ worker.pc = "emit"
  /\ Emit(worker)
  /\ worker' = Idle
  /\ Unstored
  /\ UNCHANGED <<second, request, view, requests, reports>>

EmitOnline ==
  /\ worker.pc = "emit"
  /\ Emit(worker.list)
  /\ worker' = Idle
  /\ Unstored
  /\ UNCHANGED <<second, request, view, requests, reports>>

-----------------------------------------------------------------------------
(* The request handlers.  request[k].pc names the step that comes next.    *)

Make(k, next) ==
  /\ k \in Requesters
  /\ request[k] = Idle
  /\ requests < MaxRequests
  /\ requests' = requests + 1
  /\ request' = [request EXCEPT ![k] = [pc |-> next]]
  /\ UNCHANGED <<second, worker, inbox, view, reports>>

Proceed(k, pc, next) ==
  /\ request[k].pc = pc
  /\ request' = [request EXCEPT ![k] = next]
  /\ Unstored
  /\ UNCHANGED <<second, worker, requests, reports>>

\* A second add in the same second is refused; the store lists the devices
\* anew in both cases.
AddDevice(k) ==
  \/ /\ devices[second] = Absent
     /\ Store([devices EXCEPT ![second] = [connected |-> FALSE, online |-> FALSE]])
     /\ Make(k, "copy")
  \/ /\ devices[second] # Absent
     /\ Make(k, "list")
     /\ Unstored

RemoveDevice(k, id) ==
  \/ /\ devices[id] # Absent
     /\ Store([devices EXCEPT ![id] = Absent])
     /\ Make(k, "copy")
  \/ /\ devices[id] = Absent
     /\ Make(k, "list")
     /\ Unstored

\* An unknown device is no error here.
DisconnectDevice(k, id) ==
  /\ Make(k, "copy")
  /\ IF devices[id] = Absent THEN Unstored
     ELSE Store([devices EXCEPT ![id].connected = FALSE])

\* broadcast_device_list: a lock of its own for the copy ...
CopyList(k) ==
  /\ Proceed(k, "copy", [pc |-> "emit", list |-> devices])
  /\ UNCHANGED <<inbox, view>>

\* Mutant of EmitList: no event, the client that asked lists the devices anyway.
EmitNothing(k) ==
  /\ Proceed(k, "emit", [pc |-> "list"])
  /\ UNCHANGED <<inbox, view>>

\* ... and the event after it; the response makes the store list the devices.
EmitList(k) ==
  /\ Proceed(k, "emit", [pc |-> "list"])
  /\ Emit(request[k].list)
  /\ UNCHANGED view

\* GET devices, on its own (the page is opened) or after a change.
StartList(k) == Make(k, "list") /\ Unstored

ListDevices(k) ==
  /\ Proceed(k, "list", [pc |-> "respond", list |-> devices])
  /\ UNCHANGED <<inbox, view>>

Respond(k) ==
  /\ Proceed(k, "respond", Idle)
  /\ view' = [view EXCEPT ![k] = request[k].list]
  /\ UNCHANGED inbox

-----------------------------------------------------------------------------
\* Mutant of UpdateFromWs: the list is merged into the store's.
MergeFromWs(k) ==
  /\ inbox[k] # <<>>
  /\ view' = [view EXCEPT ![k] = [id \in Ids |-> IF Head(inbox[k])[id] = Absent THEN @[id]
                                                 ELSE Head(inbox[k])[id]]]
  /\ inbox' = [inbox EXCEPT ![k] = Tail(@)]
  /\ Unstored
  /\ UNCHANGED <<second, worker, request, requests, reports>>

\* onmessage of DeviceListChanged: updateFromWs.
UpdateFromWs(k) ==
  /\ inbox[k] # <<>>
  /\ view' = [view EXCEPT ![k] = Head(inbox[k])]
  /\ inbox' = [inbox EXCEPT ![k] = Tail(@)]
  /\ Unstored
  /\ UNCHANGED <<second, worker, request, requests, reports>>

Tick ==
  /\ second < MaxSecond
  /\ second' = second + 1
  /\ Unstored
  /\ UNCHANGED <<worker, request, inbox, view, requests, reports>>

Next ==
  \/ \E id \in Reporters, online \in BOOLEAN : UpdateDeviceOnline(id, online)
  \/ EmitOnline
  \/ \E k \in Clients :
       \/ AddDevice(k)
       \/ \E id \in Ids : RemoveDevice(k, id) \/ DisconnectDevice(k, id)
       \/ StartList(k)
       \/ CopyList(k) \/ EmitList(k) \/ ListDevices(k) \/ Respond(k)
       \/ UpdateFromWs(k)
  \/ Tick

Spec == Init /\ [][Next]_vars

-----------------------------------------------------------------------------
(* Properties.                                                             *)

Requests ==
  [pc : {"idle", "copy", "list"}] \cup [pc : {"emit", "respond"}, list : Lists]

\* Types.
TypeOK ==
  /\ devices \in Lists
  /\ second \in Added
  /\ worker \in {Idle} \cup [pc : {"emit"}, list : Lists]
  /\ request \in [Clients -> Requests]
  /\ inbox \in [Clients -> Seq(Lists)]
  /\ view \in [Clients -> Lists]
  /\ past \in SUBSET Lists
  /\ overtaken \subseteq Clients
  /\ requests \in Nat /\ reports \in Nat

Coherent(list) == \A id \in Ids : list[id] # Absent /\ list[id].connected => list[id].online

\* The registry and every list a client shows never have a device that is
\* connected but not online, although disconnect_device and set_online write
\* the two flags in different calls.
ConnectedIsOnline == Coherent(devices) /\ \A k \in Clients : Coherent(view[k])

\* However lists overtake each other, a client shows only lists the registry
\* as a whole had at one moment, never a mixture of two.
ListsAreSnapshots == \A k \in Clients : view[k] \in past

Quiet ==
  /\ worker = Idle
  /\ \A k \in Clients : request[k] = Idle /\ inbox[k] = <<>>

\* When nothing is on its way any more a client shows the registry's list, unless
\* an older list for it was in a task's hands at the last change: in an event, or
\* in the response to its own GET.  Whatever overlapped before the last change,
\* what still waits on the WebSocket, and tasks that copy the list later do no harm.
ListsConverge ==
  Quiet => \A k \in Clients \ overtaken : view[k] = devices
=============================================================================
