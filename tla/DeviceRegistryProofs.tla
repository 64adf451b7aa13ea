------------------------- MODULE DeviceRegistryProofs -------------------------
(***************************************************************************)
(* Proofs about DeviceRegistry, for every set of devices and clients.      *)
(***************************************************************************)
EXTENDS DeviceRegistry, SequenceTheorems, TLAPS

\* A request that waits to emit or to answer carries a list.
LEMMA CarriedList ==
  ASSUME TypeOK, NEW k \in Clients, request[k].pc \in {"emit", "respond"}
  PROVE  request[k].list \in Lists
<1>1. request[k] \in Requests
  BY DEF TypeOK
<1> QED
  BY <1>1 DEF Requests

\* Likewise for the worker.
LEMMA WorkerList ==
  ASSUME TypeOK, worker.pc = "emit"
  PROVE  worker.list \in Lists
<1>1. worker \in {Idle} \cup [pc : {"emit"}, list : Lists]
  BY DEF TypeOK
<1> QED
  BY <1>1 DEF Idle

\* Emitting a list keeps the inboxes well typed.
LEMMA EmitType ==
  ASSUME TypeOK, NEW list \in Lists, Emit(list)
  PROVE  inbox' \in [Clients -> Seq(Lists)]
<1>1. ASSUME NEW k \in Clients PROVE Append(inbox[k], list) \in Seq(Lists)
  BY DEF TypeOK
<1> QED
  BY <1>1 DEF Emit

\* Storing a list, or not, keeps the registry and its history typed.
LEMMA StoreType ==
  ASSUME TypeOK, NEW list \in Lists, Store(list)
  PROVE  devices' \in Lists /\ past' \in SUBSET Lists /\ overtaken' \subseteq Clients
<1>1. past \subseteq Lists
  BY DEF TypeOK
<1>2. Awaiting \subseteq Clients
  BY DEF Awaiting
<1> QED
  BY <1>1, <1>2 DEF Store

LEMMA UnstoredType ==
  ASSUME TypeOK, Unstored
  PROVE  devices' \in Lists /\ past' \in SUBSET Lists /\ overtaken' \subseteq Clients
  BY DEF TypeOK, Unstored

\* What the handlers' frame conditions keep typed.
LEMMA MakeType ==
  ASSUME TypeOK, NEW k \in Clients, NEW next \in {"copy", "list"}, Make(k, next),
         devices' \in Lists, past' \in SUBSET Lists, overtaken' \subseteq Clients
  PROVE  TypeOK'
<1>1. [pc |-> next] \in Requests
  BY DEF Requests
<1> QED
  BY <1>1 DEF Make, TypeOK

LEMMA ProceedType ==
  ASSUME TypeOK, NEW k \in Clients, NEW pc, NEW next \in Requests, Proceed(k, pc, next),
         inbox' \in [Clients -> Seq(Lists)], view' \in [Clients -> Lists]
  PROVE  TypeOK'
  BY DEF Proceed, Unstored, TypeOK

\* The initial state is well typed.
LEMMA InitType ==
  ASSUME Init
  PROVE  TypeOK
<1>1. Added # {} /\ 1 \in Added /\ Empty \in Lists
  BY RegistryAssumption DEF Added, Empty, Lists
<1>2. Idle \in Requests
  BY DEF Idle, Requests
<1>3. overtaken \subseteq Clients
  BY DEF Init
<1>4. devices \in Lists /\ second \in Added /\ worker = Idle /\ past \in SUBSET Lists
  BY <1>1 DEF Init
<1>5. request \in [Clients -> Requests]
  BY <1>2 DEF Init
<1>6. inbox \in [Clients -> Seq(Lists)] /\ view \in [Clients -> Lists]
  BY <1>1 DEF Init
<1>7. requests \in Nat /\ reports \in Nat
  BY DEF Init
<1> QED
  BY <1>3, <1>4, <1>5, <1>6, <1>7 DEF TypeOK

\* Types, in every behaviour.
THEOREM Typing == Spec => []TypeOK
<1> USE RegistryAssumption
<1>1. Init => TypeOK
  BY InitType
<1>2. TypeOK /\ [Next]_vars => TypeOK'
  <2> SUFFICES ASSUME TypeOK, [Next]_vars PROVE TypeOK'
    OBVIOUS
  <2>0. ASSUME NEW id \in Ids, NEW info \in Info \cup {Absent}
        PROVE  [devices EXCEPT ![id] = info] \in Lists
    BY DEF TypeOK, Lists
  <2>1. ASSUME NEW id \in Reporters, NEW online \in BOOLEAN, UpdateDeviceOnline(id, online)
        PROVE  TypeOK'
    <3> DEFINE list == [devices EXCEPT ![id] = [connected |-> online, online |-> online]]
    <3>1. id \in Ids /\ [connected |-> online, online |-> online] \in Info
      BY DEF Ids, Info
    <3>2. list \in Lists
      BY <2>0, <3>1
    <3>3. Store(list) /\ worker' = [pc |-> "emit", list |-> list]
      BY <2>1 DEF UpdateDeviceOnline
    <3> HIDE DEF list
    <3>4. devices' \in Lists /\ past' \in SUBSET Lists /\ overtaken' \subseteq Clients
      BY <3>2, <3>3, StoreType
    <3>5. worker' \in [pc : {"emit"}, list : Lists]
      BY <3>2, <3>3
    <3>6. UNCHANGED <<second, request, inbox, view, requests>> /\ reports' = reports + 1
      BY <2>1 DEF UpdateDeviceOnline
    <3> QED
      BY <3>4, <3>5, <3>6 DEF TypeOK
  <2>2. CASE EmitOnline
    <3>1. inbox' \in [Clients -> Seq(Lists)]
      BY <2>2, WorkerList, EmitType DEF EmitOnline
    <3> QED
      BY <2>2, <3>1 DEF EmitOnline, Unstored, TypeOK
  <2>3. ASSUME NEW k \in Clients, AddDevice(k)
        PROVE  TypeOK'
    <3>1. second \in Ids /\ [connected |-> FALSE, online |-> FALSE] \in Info
      BY DEF TypeOK, Ids, Info
    <3>2. [devices EXCEPT ![second] = [connected |-> FALSE, online |-> FALSE]] \in Lists
      BY <2>0, <3>1
    <3>3. devices' \in Lists /\ past' \in SUBSET Lists /\ overtaken' \subseteq Clients
      BY <2>3, <3>2, StoreType, UnstoredType DEF AddDevice
    <3> QED
      BY <2>3, <3>3, MakeType DEF AddDevice
  <2>4. ASSUME NEW k \in Clients, NEW id \in Ids, RemoveDevice(k, id)
        PROVE  TypeOK'
    <3>1. [devices EXCEPT ![id] = Absent] \in Lists
      BY <2>0
    <3>2. devices' \in Lists /\ past' \in SUBSET Lists /\ overtaken' \subseteq Clients
      BY <2>4, <3>1, StoreType, UnstoredType DEF RemoveDevice
    <3> QED
      BY <2>4, <3>2, MakeType DEF RemoveDevice
  <2>5. ASSUME NEW k \in Clients, NEW id \in Ids, DisconnectDevice(k, id)
        PROVE  TypeOK'
    <3>1. CASE devices[id] = Absent
      <4>1. Unstored
        BY <2>5, <3>1 DEF DisconnectDevice
      <4> QED
        BY <2>5, <4>1, UnstoredType, MakeType DEF DisconnectDevice
    <3>2. CASE devices[id] # Absent
      <4>1. devices[id] \in Info
        BY <3>2 DEF TypeOK, Lists
      <4>2. [devices[id] EXCEPT !.connected = FALSE] \in Info
        BY <4>1 DEF Info
      <4>3. [devices EXCEPT ![id].connected = FALSE] \in Lists
        BY <2>0, <4>2
      <4>4. Store([devices EXCEPT ![id].connected = FALSE])
        BY <2>5, <3>2 DEF DisconnectDevice
      <4> QED
        BY <2>5, <4>3, <4>4, StoreType, MakeType DEF DisconnectDevice
    <3> QED
      BY <3>1, <3>2
  <2>6. ASSUME NEW k \in Clients, StartList(k)
        PROVE  TypeOK'
    BY <2>6, MakeType DEF StartList, Unstored, TypeOK
  <2>7. ASSUME NEW k \in Clients, CopyList(k)
        PROVE  TypeOK'
    <3>1. [pc |-> "emit", list |-> devices] \in Requests
      BY DEF Requests, TypeOK
    <3> QED
      BY <2>7, <3>1, ProceedType DEF CopyList, TypeOK
  <2>8. ASSUME NEW k \in Clients, EmitList(k)
        PROVE  TypeOK'
    <3>1. request[k].list \in Lists
      BY <2>8, CarriedList DEF EmitList, Proceed
    <3>2. inbox' \in [Clients -> Seq(Lists)]
      BY <2>8, <3>1, EmitType DEF EmitList
    <3>3. [pc |-> "list"] \in Requests
      BY DEF Requests
    <3> QED
      BY <2>8, <3>2, <3>3, ProceedType DEF EmitList, TypeOK
  <2>9. ASSUME NEW k \in Clients, ListDevices(k)
        PROVE  TypeOK'
    <3>1. [pc |-> "respond", list |-> devices] \in Requests
      BY DEF Requests, TypeOK
    <3> QED
      BY <2>9, <3>1, ProceedType DEF ListDevices, TypeOK
  <2>10. ASSUME NEW k \in Clients, Respond(k)
         PROVE  TypeOK'
    <3>1. request[k].list \in Lists
      BY <2>10, CarriedList DEF Respond, Proceed
    <3>2. view' \in [Clients -> Lists]
      BY <2>10, <3>1 DEF Respond, TypeOK
    <3>3. Idle \in Requests
      BY DEF Idle, Requests
    <3> QED
      BY <2>10, <3>2, <3>3, ProceedType DEF Respond, TypeOK
  <2>11. ASSUME NEW k \in Clients, UpdateFromWs(k)
         PROVE  TypeOK'
    <3>1. Head(inbox[k]) \in Lists /\ Tail(inbox[k]) \in Seq(Lists)
      BY <2>11 DEF UpdateFromWs, TypeOK
    <3> QED
      BY <2>11, <3>1 DEF UpdateFromWs, Unstored, TypeOK
  <2>12. CASE Tick
    BY <2>12 DEF Tick, Unstored, TypeOK, Added
  <2>13. CASE UNCHANGED vars
    BY <2>13 DEF vars, TypeOK
  <2> QED
    BY <2>1, <2>2, <2>3, <2>4, <2>5, <2>6, <2>7, <2>8, <2>9, <2>10, <2>11, <2>12, <2>13
       DEF Next
<1> QED
  BY <1>1, <1>2, PTL DEF Spec

-----------------------------------------------------------------------------
(* Every list that is on its way, shown or stored is one the registry had, *)
(* and the registry never had an incoherent one.                           *)
RegistryIInv ==
  /\ TypeOK
  /\ devices \in past
  /\ \A list \in past : Coherent(list)
  /\ worker.pc = "emit" => worker.list \in past
  /\ \A k \in Clients :
       /\ request[k].pc \in {"emit", "respond"} => request[k].list \in past
       /\ \A i \in DOMAIN inbox[k] : inbox[k][i] \in past
       /\ view[k] \in past

\* A step that stores a coherent list, or none, and puts nothing new on its way.
LEMMA StorePast ==
  ASSUME RegistryIInv, NEW list \in Lists, Store(list), Coherent(list)
  PROVE  /\ devices' \in past'
         /\ \A l \in past' : Coherent(l)
         /\ past \subseteq past'
  BY DEF RegistryIInv, Store

LEMMA UnstoredPast ==
  ASSUME RegistryIInv, Unstored
  PROVE  /\ devices' \in past'
         /\ \A l \in past' : Coherent(l)
         /\ past \subseteq past'
  BY DEF RegistryIInv, Unstored

\* A request that is made carries no list yet.
LEMMA MakePast ==
  ASSUME RegistryIInv, TypeOK', NEW k \in Clients, NEW next \in {"copy", "list"}, Make(k, next),
         devices' \in past', \A l \in past' : Coherent(l), past \subseteq past'
  PROVE  RegistryIInv'
<1>1. /\ worker' = worker /\ inbox' = inbox /\ view' = view
      /\ request' = [request EXCEPT ![k] = [pc |-> next]]
      /\ request \in [Clients -> Requests]
  BY DEF Make, RegistryIInv, TypeOK
<1>2. ASSUME NEW j \in Clients, request'[j].pc \in {"emit", "respond"}
      PROVE  request'[j].list \in past'
  <2>1. CASE j = k
    BY <1>1, <1>2, <2>1
  <2>2. CASE j # k
    BY <1>1, <1>2, <2>2 DEF RegistryIInv
  <2> QED
    BY <2>1, <2>2
<1> QED
  BY <1>1, <1>2 DEF RegistryIInv

\* A request that proceeds carries a list of the past or none.
LEMMA ProceedPast ==
  ASSUME RegistryIInv, TypeOK', NEW k \in Clients, NEW pc, NEW next \in Requests,
         Proceed(k, pc, next),
         next.pc \in {"emit", "respond"} => next.list \in past,
         \A j \in Clients : /\ \A i \in DOMAIN inbox'[j] : inbox'[j][i] \in past
                            /\ view'[j] \in past
  PROVE  RegistryIInv'
<1>1. /\ worker' = worker /\ devices' = devices /\ past' = past
      /\ request' = [request EXCEPT ![k] = next]
      /\ request \in [Clients -> Requests]
  BY DEF Proceed, Unstored, RegistryIInv, TypeOK
<1>2. ASSUME NEW j \in Clients, request'[j].pc \in {"emit", "respond"}
      PROVE  request'[j].list \in past'
  <2>1. CASE j = k
    BY <1>1, <1>2, <2>1
  <2>2. CASE j # k
    BY <1>1, <1>2, <2>2 DEF RegistryIInv
  <2> QED
    BY <2>1, <2>2
<1> QED
  BY <1>1, <1>2 DEF RegistryIInv

\* Emitting a list of the past puts nothing else on the way.
LEMMA EmitPast ==
  ASSUME RegistryIInv, NEW list \in past, Emit(list)
  PROVE  \A j \in Clients : \A i \in DOMAIN inbox'[j] : inbox'[j][i] \in past
<1> SUFFICES ASSUME NEW j \in Clients, NEW i \in DOMAIN inbox'[j]
             PROVE  inbox'[j][i] \in past
  OBVIOUS
<1>1. inbox[j] \in Seq(Lists) /\ list \in Lists
  BY DEF RegistryIInv, TypeOK
<1>2. inbox'[j] = Append(inbox[j], list)
  BY DEF Emit
<1>3. i \in 1..(Len(inbox[j]) + 1)
  BY <1>1, <1>2
<1>4. CASE i = Len(inbox[j]) + 1
  BY <1>1, <1>2, <1>4
<1>5. CASE i \in 1..Len(inbox[j])
  BY <1>1, <1>2, <1>5 DEF RegistryIInv
<1> QED
  BY <1>1, <1>3, <1>4, <1>5

\* The inductive invariant.
THEOREM RegistryInvariant == Spec => []RegistryIInv
<1>1. Init => RegistryIInv
  <2> SUFFICES ASSUME Init PROVE RegistryIInv
    OBVIOUS
  <2>1. TypeOK
    BY InitType
  <2>2. Coherent(Empty)
    BY DEF Coherent, Empty
  <2> QED
    BY <2>1, <2>2 DEF Init, RegistryIInv, Idle
<1>2. RegistryIInv /\ TypeOK' /\ [Next]_vars => RegistryIInv'
  <2> SUFFICES ASSUME RegistryIInv, TypeOK', [Next]_vars PROVE RegistryIInv'
    OBVIOUS
  <2>0. /\ TypeOK /\ devices \in Lists /\ Coherent(devices) /\ past \subseteq Lists
        /\ \A id \in Ids, info \in Info \cup {Absent} : [devices EXCEPT ![id] = info] \in Lists
    BY DEF RegistryIInv, TypeOK, Lists
  <2>1. ASSUME NEW id \in Reporters, NEW online \in BOOLEAN, UpdateDeviceOnline(id, online)
        PROVE  RegistryIInv'
    <3> DEFINE info == [connected |-> online, online |-> online]
    <3> DEFINE list == [devices EXCEPT ![id] = info]
    <3>1. id \in Ids /\ info \in Info
      BY DEF Ids, Info
    <3>2. list \in Lists /\ Coherent(list)
      BY <2>0, <3>1 DEF Coherent, Lists
    <3>3. /\ Store(list) /\ worker' = [pc |-> "emit", list |-> list]
          /\ UNCHANGED <<request, inbox, view>>
      BY <2>1 DEF UpdateDeviceOnline
    <3> HIDE DEF list
    <3>4. list \in past'
      BY <3>3 DEF Store
    <3> QED
      BY <3>2, <3>3, <3>4, StorePast DEF RegistryIInv
  <2>2. CASE EmitOnline
    <3>1. Emit(worker.list) /\ worker.list \in past
      BY <2>2 DEF EmitOnline, RegistryIInv
    <3>2. \A j \in Clients : \A i \in DOMAIN inbox'[j] : inbox'[j][i] \in past
      BY <3>1, EmitPast
    <3> QED
      BY <2>2, <3>2 DEF EmitOnline, Unstored, RegistryIInv, Idle
  <2>3. ASSUME NEW k \in Clients, AddDevice(k)
        PROVE  RegistryIInv'
    <3> DEFINE list == [devices EXCEPT ![second] = [connected |-> FALSE, online |-> FALSE]]
    <3>1. second \in Ids /\ [connected |-> FALSE, online |-> FALSE] \in Info
      BY <2>0 DEF TypeOK, Ids, Info
    <3>2. list \in Lists /\ Coherent(list)
      BY <2>0, <3>1 DEF Coherent, Lists
    <3> HIDE DEF list
    <3>3. (Store(list) /\ Make(k, "copy")) \/ (Unstored /\ Make(k, "list"))
      BY <2>3 DEF AddDevice, list
    <3> QED
      BY <3>2, <3>3, StorePast, UnstoredPast, MakePast
  <2>4. ASSUME NEW k \in Clients, NEW id \in Ids, RemoveDevice(k, id)
        PROVE  RegistryIInv'
    <3> DEFINE list == [devices EXCEPT ![id] = Absent]
    <3>1. list \in Lists /\ Coherent(list)
      BY <2>0 DEF Coherent, Lists
    <3> HIDE DEF list
    <3>2. (Store(list) /\ Make(k, "copy")) \/ (Unstored /\ Make(k, "list"))
      BY <2>4 DEF RemoveDevice, list
    <3> QED
      BY <3>1, <3>2, StorePast, UnstoredPast, MakePast
  <2>5. ASSUME NEW k \in Clients, NEW id \in Ids, DisconnectDevice(k, id)
        PROVE  RegistryIInv'
    <3>1. CASE devices[id] = Absent
      BY <2>5, <3>1, UnstoredPast, MakePast DEF DisconnectDevice
    <3>2. CASE devices[id] # Absent
      <4> DEFINE info == [devices[id] EXCEPT !.connected = FALSE]
      <4> DEFINE list == [devices EXCEPT ![id].connected = FALSE]
      <4>1. info \in Info /\ info.connected = FALSE
        BY <2>0, <3>2 DEF Lists, Info
      <4>2. list = [devices EXCEPT ![id] = info]
        OBVIOUS
      <4> HIDE DEF info
      <4>3. list \in Lists /\ Coherent(list)
        BY <2>0, <4>1, <4>2 DEF Coherent, Lists
      <4>4. Store(list) /\ Make(k, "copy")
        BY <2>5, <3>2 DEF DisconnectDevice
      <4> QED
        BY <4>3, <4>4, StorePast, MakePast
    <3> QED
      BY <3>1, <3>2
  <2>6. ASSUME NEW k \in Clients, StartList(k)
        PROVE  RegistryIInv'
    BY <2>6, UnstoredPast, MakePast DEF StartList
  <2>7. ASSUME NEW k \in Clients, CopyList(k) \/ ListDevices(k)
        PROVE  RegistryIInv'
    <3>1. PICK next \in {[pc |-> "emit", list |-> devices], [pc |-> "respond", list |-> devices]},
               pc \in {"copy", "list"} : Proceed(k, pc, next)
      BY <2>7 DEF CopyList, ListDevices
    <3>2. next \in Requests /\ next.list \in past
      BY <2>0 DEF Requests, RegistryIInv
    <3>3. inbox' = inbox /\ view' = view
      BY <2>7 DEF CopyList, ListDevices
    <3> QED
      BY <3>1, <3>2, <3>3, ProceedPast DEF RegistryIInv
  <2>8. ASSUME NEW k \in Clients, EmitList(k)
        PROVE  RegistryIInv'
    <3>1. request[k].list \in past /\ Emit(request[k].list) /\ view' = view
      BY <2>8 DEF EmitList, Proceed, RegistryIInv
    <3>2. \A j \in Clients : \A i \in DOMAIN inbox'[j] : inbox'[j][i] \in past
      BY <3>1, EmitPast
    <3>3. Proceed(k, "emit", [pc |-> "list"]) /\ [pc |-> "list"] \in Requests
      BY <2>8 DEF EmitList, Requests
    <3> QED
      BY <3>1, <3>2, <3>3, ProceedPast DEF RegistryIInv
  <2>9. ASSUME NEW k \in Clients, Respond(k)
        PROVE  RegistryIInv'
    <3>1. /\ request[k].list \in past /\ inbox' = inbox
          /\ view' = [view EXCEPT ![k] = request[k].list]
          /\ view \in [Clients -> Lists]
      BY <2>9 DEF Respond, Proceed, RegistryIInv, TypeOK
    <3>2. \A j \in Clients : view'[j] \in past
      BY <3>1 DEF RegistryIInv
    <3>3. Proceed(k, "respond", Idle) /\ Idle \in Requests /\ Idle.pc = "idle"
      BY <2>9 DEF Respond, Requests, Idle
    <3> QED
      BY <3>1, <3>2, <3>3, ProceedPast DEF RegistryIInv
  <2>10. ASSUME NEW k \in Clients, UpdateFromWs(k)
         PROVE  RegistryIInv'
    <3>1. inbox[k] \in Seq(Lists) /\ inbox[k] # <<>>
      BY <2>0, <2>10 DEF UpdateFromWs, TypeOK
    <3>2. /\ Head(inbox[k]) = inbox[k][1] /\ 1 \in DOMAIN inbox[k]
          /\ \A i \in DOMAIN Tail(inbox[k]) :
               i + 1 \in DOMAIN inbox[k] /\ Tail(inbox[k])[i] = inbox[k][i + 1]
      BY <3>1
    <3>3. /\ Head(inbox[k]) \in past
          /\ \A i \in DOMAIN Tail(inbox[k]) : Tail(inbox[k])[i] \in past
      BY <3>2 DEF RegistryIInv
    <3>4. /\ view' = [view EXCEPT ![k] = Head(inbox[k])]
          /\ inbox' = [inbox EXCEPT ![k] = Tail(inbox[k])]
          /\ UNCHANGED <<devices, past, worker, request>>
          /\ view \in [Clients -> Lists] /\ inbox \in [Clients -> Seq(Lists)]
      BY <2>0, <2>10 DEF UpdateFromWs, Unstored, TypeOK
    <3>5. \A j \in Clients : /\ view'[j] \in past
                             /\ \A i \in DOMAIN inbox'[j] : inbox'[j][i] \in past
      BY <3>3, <3>4 DEF RegistryIInv
    <3> QED
      BY <3>4, <3>5 DEF RegistryIInv
  <2>11. CASE Tick
    BY <2>11 DEF Tick, Unstored, RegistryIInv
  <2>12. CASE UNCHANGED vars
    BY <2>12 DEF vars, RegistryIInv
  <2> QED
    BY <2>1, <2>2, <2>3, <2>4, <2>5, <2>6, <2>7, <2>8, <2>9, <2>10, <2>11, <2>12 DEF Next
<1> QED
  BY <1>1, <1>2, Typing, PTL DEF Spec

\* A client shows only lists the registry had.
THEOREM Snapshots == Spec => []ListsAreSnapshots
<1>1. RegistryIInv => ListsAreSnapshots
  BY DEF RegistryIInv, ListsAreSnapshots
<1> QED
  BY <1>1, RegistryInvariant, PTL

\* No device is connected without being online, in the registry or on a screen.
THEOREM Coherence == Spec => []ConnectedIsOnline
<1>1. RegistryIInv => ConnectedIsOnline
  BY DEF RegistryIInv, ConnectedIsOnline
<1> QED
  BY <1>1, RegistryInvariant, PTL

-----------------------------------------------------------------------------
(* Convergence of the clients that the last change did not overtake.       *)

\* What client k shows once its WebSocket is drained.
LastShown(k) == IF inbox[k] = <<>> THEN view[k] ELSE inbox[k][Len(inbox[k])]

EmissionPending ==
  worker.pc = "emit" \/ \E k \in Clients : request[k].pc \in {"copy", "emit"}

\* Every list a task holds for client k is the registry's, and the client either
\* has the registry's list as its last or will be sent one.
UpToDate(k) ==
  /\ worker.pc = "emit" => worker.list = devices
  /\ \A j \in Clients : request[j].pc = "emit" => request[j].list = devices
  /\ request[k].pc = "respond" => request[k].list = devices
  /\ LastShown(k) = devices \/ EmissionPending

ConvergeIInv == TypeOK /\ \A k \in Clients \ overtaken : UpToDate(k)

\* A change that does not overtake a client finds no list for it in any task's hands.
LEMMA StoreAwaited ==
  ASSUME NEW list, Store(list), NEW k \in Clients \ overtaken'
  PROVE  /\ devices' = list
         /\ worker.pc # "emit"
         /\ \A j \in Clients : request[j].pc # "emit"
         /\ request[k].pc # "respond"
<1>1. k \notin Awaiting /\ devices' = list
  BY DEF Store
<1>2. ~(worker.pc = "emit" \/ \E j \in Clients : request[j].pc = "emit")
  BY <1>1 DEF Awaiting
<1>3. request[k].pc # "respond"
  BY <1>1, <1>2 DEF Awaiting
<1> QED
  BY <1>1, <1>2, <1>3

\* A change, made by a task that then waits to copy or emit it, keeps such a client
\* up to date.
LEMMA WorkerStores ==
  ASSUME NEW list, Store(list), worker' = [pc |-> "emit", list |-> list], request' = request,
         NEW k \in Clients \ overtaken'
  PROVE  UpToDate(k)'
<1>1. /\ devices' = list /\ request[k].pc # "respond"
      /\ \A j \in Clients : request[j].pc # "emit"
  BY StoreAwaited
<1> QED
  BY <1>1 DEF UpToDate, EmissionPending

LEMMA RequestStores ==
  ASSUME TypeOK, NEW list, Store(list), NEW j \in Clients, Make(j, "copy"),
         NEW k \in Clients \ overtaken'
  PROVE  UpToDate(k)'
<1>1. /\ worker.pc # "emit" /\ request[k].pc # "respond"
      /\ \A i \in Clients : request[i].pc # "emit"
  BY StoreAwaited
<1>2. worker' = worker /\ request' = [request EXCEPT ![j] = [pc |-> "copy"]]
  BY DEF Make
<1>3. \A i \in Clients : request'[i] = IF i = j THEN [pc |-> "copy"] ELSE request[i]
  BY <1>2 DEF TypeOK
<1>4. EmissionPending'
  BY <1>3 DEF EmissionPending
<1>5. /\ request'[k].pc # "respond" /\ \A i \in Clients : request'[i].pc # "emit"
  BY <1>1, <1>3
<1> QED
  BY <1>1, <1>2, <1>4, <1>5 DEF UpToDate

\* Emitting the registry's list brings every client up to date.
LEMMA EmitShows ==
  ASSUME TypeOK, Emit(devices), devices' = devices, NEW k \in Clients
  PROVE  LastShown(k)' = devices'
<1>1. inbox[k] \in Seq(Lists) /\ devices \in Lists
  BY DEF TypeOK
<1>2. inbox'[k] = Append(inbox[k], devices)
  BY DEF Emit
<1>3. /\ Len(inbox'[k]) = Len(inbox[k]) + 1
      /\ inbox'[k][Len(inbox[k]) + 1] = devices
      /\ inbox'[k] # <<>>
  BY <1>1, <1>2
<1> QED
  BY <1>3 DEF LastShown

\* A step of one request that changes neither the registry nor what is shown.
LEMMA RequestMoves ==
  ASSUME TypeOK, NEW k \in Clients, UpToDate(k), devices' = devices, worker' = worker,
         UNCHANGED <<inbox, view>>, NEW j \in Clients, NEW next,
         request' = [request EXCEPT ![j] = next],
         next.pc \in {"emit", "respond"} => next.list = devices,
         request[j].pc \in {"copy", "emit"} => next.pc \in {"copy", "emit"}
  PROVE  UpToDate(k)'
<1>1. \A i \in Clients : request'[i] = IF i = j THEN next ELSE request[i]
  BY DEF TypeOK
<1>2. LastShown(k)' = LastShown(k)
  BY DEF LastShown
<1>3. EmissionPending => EmissionPending'
  <2>1. ASSUME NEW i \in Clients, request[i].pc \in {"copy", "emit"}
        PROVE  request'[i].pc \in {"copy", "emit"}
    BY <1>1, <2>1
  <2> QED
    BY <2>1 DEF EmissionPending
<1>4. \A i \in Clients : request'[i].pc = "emit" => request'[i].list = devices
  BY <1>1 DEF UpToDate
<1>5. request'[k].pc = "respond" => request'[k].list = devices
  BY <1>1 DEF UpToDate
<1>6. LastShown(k)' = devices' \/ EmissionPending'
  BY <1>2, <1>3 DEF UpToDate
<1> QED
  BY <1>4, <1>5, <1>6 DEF UpToDate

\* One client's view changes, and no task moves except perhaps to idle.
LEMMA ViewMoves ==
  ASSUME TypeOK, NEW k \in Clients, UpToDate(k), devices' = devices, worker' = worker,
         \A i \in Clients : \/ request'[i] = request[i]
                            \/ request[i].pc \notin {"copy", "emit"} /\ request'[i] = Idle,
         LastShown(k)' = LastShown(k) \/ LastShown(k)' = devices
  PROVE  UpToDate(k)'
<1>1. EmissionPending => EmissionPending'
  <2>1. ASSUME NEW i \in Clients, request[i].pc \in {"copy", "emit"}
        PROVE  request'[i].pc \in {"copy", "emit"}
    BY <2>1
  <2> QED
    BY <2>1 DEF EmissionPending
<1>2. \A i \in Clients : request'[i].pc = "emit" => request'[i].list = devices
  BY DEF UpToDate, Idle
<1>3. request'[k].pc = "respond" => request'[k].list = devices
  BY DEF UpToDate, Idle
<1>4. LastShown(k)' = devices' \/ EmissionPending'
  BY <1>1 DEF UpToDate
<1> QED
  BY <1>2, <1>3, <1>4 DEF UpToDate

\* Taking the first of several messages leaves the last one where it was.
LEMMA TailKeepsLast ==
  ASSUME NEW S, NEW s \in Seq(S), s # <<>>, Len(s) # 1
  PROVE  /\ Tail(s) # <<>>
         /\ Len(Tail(s)) = Len(s) - 1
         /\ Tail(s)[Len(s) - 1] = s[Len(s)]
<1>1. Len(s) \in Nat \ {0} /\ Len(s) > 1
  BY EmptySeq
<1>2. Len(Tail(s)) = Len(s) - 1
  BY HeadTailProperties
<1>3. \A i \in 1..(Len(s) - 1) : Tail(s)[i] = s[i + 1]
  BY <1>2, HeadTailProperties
<1>4. Tail(s)[Len(s) - 1] = s[(Len(s) - 1) + 1]
  BY <1>1, <1>3
<1>5. (Len(s) - 1) + 1 = Len(s)
  BY <1>1
<1>6. Tail(s) # <<>>
  BY <1>1, <1>2
<1> QED
  BY <1>2, <1>4, <1>5, <1>6

\* A step that stores nothing overtakes nobody.
LEMMA UnstoredKeeps ==
  ASSUME ConvergeIInv, Unstored, NEW k \in Clients \ overtaken'
  PROVE  UpToDate(k) /\ devices' = devices
BY DEF Unstored, ConvergeIInv

LEMMA StepKeepsUpToDate ==
  ASSUME ConvergeIInv, [Next]_vars, NEW k \in Clients \ overtaken'
  PROVE  UpToDate(k)'
<1>0. TypeOK
  BY DEF ConvergeIInv
<1>1. ASSUME NEW id \in Reporters, NEW online \in BOOLEAN, UpdateDeviceOnline(id, online)
      PROVE  UpToDate(k)'
  BY <1>1, WorkerStores DEF UpdateDeviceOnline
<1>2. CASE EmitOnline
  <2>1. UpToDate(k) /\ devices' = devices
    BY <1>2, UnstoredKeeps DEF EmitOnline
  <2>2. Emit(devices) /\ worker' = Idle /\ request' = request
    BY <1>2, <2>1 DEF EmitOnline, UpToDate
  <2>3. LastShown(k)' = devices'
    BY <1>0, <2>1, <2>2, EmitShows
  <2> QED
    BY <2>1, <2>2, <2>3 DEF UpToDate, Idle
<1>3. ASSUME NEW j \in Clients, Unstored, Make(j, "list") \/ Make(j, "copy")
      PROVE  UpToDate(k)'
  <2>1. UpToDate(k) /\ devices' = devices
    BY <1>3, UnstoredKeeps
  <2>2. PICK next \in {"list", "copy"} : request' = [request EXCEPT ![j] = [pc |-> next]]
    BY <1>3 DEF Make
  <2>3. request[j].pc = "idle" /\ worker' = worker /\ UNCHANGED <<inbox, view>>
    BY <1>3 DEF Make, Idle
  <2> QED
    BY <1>0, <2>1, <2>2, <2>3, RequestMoves
<1>4. ASSUME NEW j \in Clients, AddDevice(j)
      PROVE  UpToDate(k)'
  BY <1>0, <1>3, <1>4, RequestStores DEF AddDevice
<1>5. ASSUME NEW j \in Clients, NEW id \in Ids, RemoveDevice(j, id)
      PROVE  UpToDate(k)'
  BY <1>0, <1>3, <1>5, RequestStores DEF RemoveDevice
<1>6. ASSUME NEW j \in Clients, NEW id \in Ids, DisconnectDevice(j, id)
      PROVE  UpToDate(k)'
  <2>1. CASE devices[id] = Absent
    BY <1>3, <1>6, <2>1 DEF DisconnectDevice
  <2>2. CASE devices[id] # Absent
    <3> DEFINE list == [devices EXCEPT ![id].connected = FALSE]
    <3>1. Store(list) /\ Make(j, "copy")
      BY <1>6, <2>2 DEF DisconnectDevice
    <3> HIDE DEF list
    <3> QED
      BY <1>0, <3>1, RequestStores
  <2> QED
    BY <2>1, <2>2
<1>7. ASSUME NEW j \in Clients, StartList(j)
      PROVE  UpToDate(k)'
  BY <1>3, <1>7 DEF StartList
<1>8. ASSUME NEW j \in Clients, CopyList(j)
      PROVE  UpToDate(k)'
  <2>1. UpToDate(k) /\ devices' = devices
    BY <1>8, UnstoredKeeps DEF CopyList, Proceed
  <2> DEFINE next == [pc |-> "emit", list |-> devices]
  <2>2. request' = [request EXCEPT ![j] = next] /\ worker' = worker /\ UNCHANGED <<inbox, view>>
    BY <1>8 DEF CopyList, Proceed
  <2>3. next.pc = "emit" /\ next.list = devices
    OBVIOUS
  <2> HIDE DEF next
  <2> QED
    BY <1>0, <2>1, <2>2, <2>3, RequestMoves
<1>9. ASSUME NEW j \in Clients, EmitList(j)
      PROVE  UpToDate(k)'
  <2>1. UpToDate(k) /\ devices' = devices
    BY <1>9, UnstoredKeeps DEF EmitList, Proceed
  <2>2. request[j].list = devices /\ worker' = worker
    BY <1>9, <2>1 DEF EmitList, Proceed, UpToDate
  <2>3. \A i \in Clients : request'[i] = IF i = j THEN [pc |-> "list"] ELSE request[i]
    BY <1>0, <1>9 DEF EmitList, Proceed, TypeOK
  <2>4. LastShown(k)' = devices'
    BY <1>0, <1>9, <2>1, <2>2, EmitShows DEF EmitList
  <2> QED
    BY <2>1, <2>2, <2>3, <2>4 DEF UpToDate
<1>10. ASSUME NEW j \in Clients, ListDevices(j)
       PROVE  UpToDate(k)'
  <2>1. UpToDate(k) /\ devices' = devices
    BY <1>10, UnstoredKeeps DEF ListDevices, Proceed
  <2> DEFINE next == [pc |-> "respond", list |-> devices]
  <2>2. /\ request' = [request EXCEPT ![j] = next] /\ request[j].pc = "list"
        /\ worker' = worker /\ UNCHANGED <<inbox, view>>
    BY <1>10 DEF ListDevices, Proceed
  <2>3. next.pc = "respond" /\ next.list = devices
    OBVIOUS
  <2> HIDE DEF next
  <2> QED
    BY <1>0, <2>1, <2>2, <2>3, RequestMoves
<1>11. ASSUME NEW j \in Clients, Respond(j)
       PROVE  UpToDate(k)'
  <2>1. UpToDate(k) /\ devices' = devices
    BY <1>11, UnstoredKeeps DEF Respond, Proceed
  <2>2. request[j].pc = "respond" /\ inbox' = inbox /\ worker' = worker
    BY <1>11 DEF Respond, Proceed
  <2>3. /\ \A i \in Clients : request'[i] = IF i = j THEN Idle ELSE request[i]
        /\ \A i \in Clients : view'[i] = IF i = j THEN request[j].list ELSE view[i]
    BY <1>0, <1>11 DEF Respond, Proceed, TypeOK
  <2>4. view'[k] = view[k] \/ view'[k] = devices
    BY <2>1, <2>2, <2>3 DEF UpToDate
  <2>5. LastShown(k)' = LastShown(k) \/ LastShown(k)' = devices
    BY <2>2, <2>4 DEF LastShown
  <2>6. \A i \in Clients : \/ request'[i] = request[i]
                           \/ request[i].pc \notin {"copy", "emit"} /\ request'[i] = Idle
    BY <2>2, <2>3
  <2> QED
    BY <1>0, <2>1, <2>2, <2>5, <2>6, ViewMoves
<1>12. ASSUME NEW j \in Clients, UpdateFromWs(j)
       PROVE  UpToDate(k)'
  <2>1. UpToDate(k) /\ devices' = devices /\ worker' = worker /\ request' = request
    BY <1>12, UnstoredKeeps DEF UpdateFromWs
  <2>2. CASE j # k
    <3>1. inbox'[k] = inbox[k] /\ view'[k] = view[k]
      BY <1>0, <1>12, <2>2 DEF UpdateFromWs, TypeOK
    <3> QED
      BY <1>0, <2>1, <3>1, ViewMoves DEF LastShown
  <2>3. CASE j = k
    <3>1. /\ inbox[k] \in Seq(Lists) /\ inbox[k] # <<>>
          /\ inbox'[k] = Tail(inbox[k]) /\ view'[k] = Head(inbox[k])
      BY <1>0, <1>12, <2>3 DEF UpdateFromWs, TypeOK
    <3>2. LastShown(k)' = LastShown(k)
      <4>1. CASE Len(inbox[k]) = 1
        BY <3>1, <4>1 DEF LastShown
      <4>2. CASE Len(inbox[k]) # 1
        <5>1. /\ Tail(inbox[k]) # <<>>
              /\ Len(Tail(inbox[k])) = Len(inbox[k]) - 1
              /\ Tail(inbox[k])[Len(inbox[k]) - 1] = inbox[k][Len(inbox[k])]
          BY <3>1, <4>2, TailKeepsLast
        <5> QED
          BY <3>1, <5>1 DEF LastShown
      <4> QED
        BY <4>1, <4>2
    <3> QED
      BY <1>0, <2>1, <3>2, ViewMoves
  <2> QED
    BY <2>2, <2>3
<1>13. CASE Tick \/ UNCHANGED vars
  <2>1. Unstored /\ UNCHANGED <<devices, worker, request, inbox, view>>
    BY <1>13 DEF Tick, vars, Unstored
  <2>2. UpToDate(k)
    BY <2>1, UnstoredKeeps
  <2> QED
    BY <2>1, <2>2 DEF UpToDate, EmissionPending, LastShown
<1> QED
  BY <1>1, <1>2, <1>4, <1>5, <1>6, <1>7, <1>8, <1>9, <1>10, <1>11, <1>12, <1>13 DEF Next

\* Clients agree with the registry once everything has arrived, unless the last
\* change overtook a list that a task held for them.
THEOREM Convergence == Spec => []ListsConverge
<1>1. Init => ConvergeIInv
  <2> SUFFICES ASSUME Init PROVE ConvergeIInv
    OBVIOUS
  <2>1. ASSUME NEW k \in Clients PROVE UpToDate(k)
    BY DEF Init, UpToDate, LastShown, Idle
  <2> QED
    BY <2>1, InitType DEF ConvergeIInv
<1>2. ConvergeIInv /\ TypeOK' /\ [Next]_vars => ConvergeIInv'
  BY StepKeepsUpToDate DEF ConvergeIInv
<1>3. ConvergeIInv => ListsConverge
  <2> SUFFICES ASSUME ConvergeIInv, Quiet, NEW k \in Clients \ overtaken
               PROVE  view[k] = devices
    BY DEF ListsConverge
  <2>1. UpToDate(k)
    BY DEF ConvergeIInv
  <2>2. ~EmissionPending
    BY DEF Quiet, EmissionPending, Idle
  <2> QED
    BY <2>1, <2>2 DEF UpToDate, LastShown, Quiet
<1> QED
  BY <1>1, <1>2, <1>3, Typing, PTL DEF Spec
=============================================================================
