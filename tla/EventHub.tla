------------------------------- MODULE EventHub -------------------------------
(***************************************************************************)
(* The way of an event from the bus to the web clients: the broadcast      *)
(* channel of the host (infra/event_bus.rs), the two tasks of every        *)
(* WebSocket connection (api/ws.rs) and the client's connection with its   *)
(* reconnection (useWebSocket.ts), under lost connections and a host that  *)
(* stops and starts again.                                                 *)
(*                                                                         *)
(* Events are numbered in the order they are sent on the bus; every        *)
(* DomainEvent has a WsMessage, so none is filtered out.  A client has one *)
(* connection at a time; what is left of an older one on the host reaches  *)
(* nobody and is left out.  Delays of the reconnection timer are left out: *)
(* the timer fires at some time.                                           *)
(***************************************************************************)
EXTENDS Integers, Sequences

CONSTANTS
  Clients,      \* web clients
  Capacity,     \* of the broadcast channel, 1024 in the code
  WireSize,     \* messages a connection holds before send() waits
  MaxAttempts,  \* maxReconnectAttempts, 10 in the code
  MaxEvents,    \* bound: events emitted
  MaxFaults     \* bound: connections lost or refused while the host is up
                \* and stops of the host

ASSUME HubAssumption ==
  /\ Capacity \in Nat \ {0} /\ WireSize \in Nat \ {0} /\ MaxAttempts \in Nat
  /\ MaxEvents \in Nat /\ MaxFaults \in Nat

VARIABLES
  emitted,      \* number of events sent on the bus
  up,           \* the host runs
  server,       \* [client]: the host's side of its connection
  next,         \* [client]: the event recv() returns next; 0: no subscription
  wire,         \* [client]: events on the way
  phase,        \* [client]: state of useWebSocket
  attempts,     \* [client]: reconnectAttempts
  faults,       \* number of faults so far
  heard,        \* history: [client]: last event heard, or where the feed began
  failures      \* history: [client]: connections refused since the last open one

hostVars   == <<emitted, up, server, next>>
clientVars == <<phase, attempts, failures>>
vars == <<hostVars, wire, clientVars, faults, heard>>

\* "upgrading": the handshake is answered, handle_ws_connection has not run;
\* "serving": subscribed, both tasks run; "deaf": the send task has ended, the
\* receive task keeps the connection open.
ServerStates == {"none", "upgrading", "serving", "deaf"}
Phases == {"connecting", "open", "waiting", "gaveUp", "closed"}

Init ==
  /\ emitted = 0
  /\ up = TRUE
  /\ server = [k \in Clients |-> "none"]
  /\ next = [k \in Clients |-> 0]
  /\ wire = [k \in Clients |-> <<>>]
  /\ phase = [k \in Clients |-> "connecting"]
  /\ attempts = [k \in Clients |-> 0]
  /\ faults = 0
  /\ heard = [k \in Clients |-> 0]
  /\ failures = [k \in Clients |-> 0]

-----------------------------------------------------------------------------
(* The host.                                                               *)

\* EventBus::emit, by any task.
Emit ==
  /\ up
  /\ emitted < MaxEvents
  /\ emitted' = emitted + 1
  /\ UNCHANGED <<up, server, next, wire, clientVars, faults, heard>>

\* The task of the connection starts and subscribes: it receives what is sent
\* from now on.
Subscribe(k) ==
  /\ server[k] = "upgrading"
  /\ server' = [server EXCEPT ![k] = "serving"]
  /\ next' = [next EXCEPT ![k] = emitted + 1]
  /\ heard' = [heard EXCEPT ![k] = emitted]
  /\ UNCHANGED <<emitted, up, wire, clientVars, faults>>

\* The channel has overwritten the event the receiver wants next.
Lagged(k) == next[k] + Capacity <= emitted

\* Mutant of Take: a receiver that lags goes on with the oldest event kept.
TakeOldest(k) ==
  LET event == IF Lagged(k) THEN emitted - Capacity + 1 ELSE next[k] IN
  /\ server[k] = "serving"
  /\ next[k] <= emitted
  /\ Len(wire[k]) < WireSize
  /\ wire' = [wire EXCEPT ![k] = Append(@, event)]
  /\ next' = [next EXCEPT ![k] = event + 1]
  /\ UNCHANGED <<emitted, up, server, clientVars, faults, heard>>

\* recv() and send() of the send task.
Take(k) ==
  /\ server[k] = "serving"
  /\ next[k] <= emitted
  /\ ~Lagged(k)
  /\ Len(wire[k]) < WireSize
  /\ wire' = [wire EXCEPT ![k] = Append(@, next[k])]
  /\ next' = [next EXCEPT ![k] = @ + 1]
  /\ UNCHANGED <<emitted, up, server, clientVars, faults, heard>>

\* Mutant of Lag: the task goes on and waits for an event that is gone.
LagUnseen(k) ==
  /\ server[k] = "serving"
  /\ Lagged(k)
  /\ UNCHANGED vars

\* recv() returns Lagged: the send task ends.  The receive task is detached and
\* keeps its half of the socket, which stays open.
Lag(k) ==
  /\ server[k] = "serving"
  /\ Lagged(k)
  /\ Len(wire[k]) < WireSize
  /\ server' = [server EXCEPT ![k] = "deaf"]
  /\ UNCHANGED <<emitted, up, next, wire, clientVars, faults, heard>>

-----------------------------------------------------------------------------
(* Faults.                                                                 *)

Fault == faults < MaxFaults /\ faults' = faults + 1

Break(k) ==
  /\ Fault
  /\ server[k] # "none"
  /\ server' = [server EXCEPT ![k] = "none"]
  /\ UNCHANGED <<emitted, up, next, wire, clientVars, heard>>

HostStops ==
  /\ Fault
  /\ up
  /\ up' = FALSE
  /\ server' = [k \in Clients |-> "none"]
  /\ UNCHANGED <<emitted, next, wire, clientVars, heard>>

HostStarts ==
  /\ ~up
  /\ up' = TRUE
  /\ UNCHANGED <<emitted, server, next, wire, clientVars, faults, heard>>

-----------------------------------------------------------------------------
(* The client: useWebSocket.                                               *)

ScheduleReconnect(k) ==
  IF attempts[k] >= MaxAttempts
  THEN /\ phase' = [phase EXCEPT ![k] = "gaveUp"]
       /\ UNCHANGED attempts
  ELSE /\ phase' = [phase EXCEPT ![k] = "waiting"]
       /\ attempts' = [attempts EXCEPT ![k] = @ + 1]

\* Mutant of Open: the attempts are not given back.
OpenKeepsAttempts(k) ==
  /\ phase[k] = "connecting"
  /\ up
  /\ phase' = [phase EXCEPT ![k] = "open"]
  /\ failures' = [failures EXCEPT ![k] = 0]
  /\ server' = [server EXCEPT ![k] = "upgrading"]
  /\ UNCHANGED <<emitted, up, next, wire, attempts, faults, heard>>

\* onopen: the handshake is answered.
Open(k) ==
  /\ phase[k] = "connecting"
  /\ up
  /\ phase' = [phase EXCEPT ![k] = "open"]
  /\ attempts' = [attempts EXCEPT ![k] = 0]
  /\ failures' = [failures EXCEPT ![k] = 0]
  /\ server' = [server EXCEPT ![k] = "upgrading"]
  /\ UNCHANGED <<emitted, up, next, wire, faults, heard>>

\* onerror and onclose: the host is down, or the connection is refused.
Refused(k) ==
  /\ phase[k] = "connecting"
  /\ IF up THEN Fault ELSE UNCHANGED faults
  /\ failures' = [failures EXCEPT ![k] = @ + 1]
  /\ ScheduleReconnect(k)
  /\ UNCHANGED <<hostVars, wire, heard>>

\* onclose of an open connection; what was still on the way is gone.
Closed(k) ==
  /\ phase[k] = "open"
  /\ server[k] = "none"
  /\ wire' = [wire EXCEPT ![k] = <<>>]
  /\ next' = [next EXCEPT ![k] = 0]
  /\ ScheduleReconnect(k)
  /\ UNCHANGED <<emitted, up, server, failures, faults, heard>>

\* Mutant of TimerFires: the last attempt is not made.
TimerFiresEarly(k) ==
  /\ phase[k] = "waiting"
  /\ attempts[k] < MaxAttempts
  /\ phase' = [phase EXCEPT ![k] = "connecting"]
  /\ UNCHANGED <<hostVars, wire, attempts, failures, faults, heard>>

TimerFires(k) ==
  /\ phase[k] = "waiting"
  /\ phase' = [phase EXCEPT ![k] = "connecting"]
  /\ UNCHANGED <<hostVars, wire, attempts, failures, faults, heard>>

\* onmessage.
Hear(k) ==
  /\ phase[k] = "open"
  /\ wire[k] # <<>>
  /\ heard' = [heard EXCEPT ![k] = Head(wire[k])]
  /\ wire' = [wire EXCEPT ![k] = Tail(@)]
  /\ UNCHANGED <<hostVars, clientVars, faults>>

\* disconnect, when the page is left: the attempts are used up so that the
\* onclose that follows does not connect again.
Disconnect(k) ==
  /\ phase[k] # "closed"
  /\ phase' = [phase EXCEPT ![k] = "closed"]
  /\ attempts' = [attempts EXCEPT ![k] = MaxAttempts]
  /\ server' = [server EXCEPT ![k] = "none"]
  /\ next' = [next EXCEPT ![k] = 0]
  /\ wire' = [wire EXCEPT ![k] = <<>>]
  /\ UNCHANGED <<emitted, up, failures, faults, heard>>

-----------------------------------------------------------------------------
ServerStep(k) == Subscribe(k) \/ Take(k) \/ Lag(k)
ClientStep(k) == Open(k) \/ Refused(k) \/ Closed(k) \/ TimerFires(k) \/ Hear(k)

Next ==
  \/ Emit
  \/ HostStops
  \/ HostStarts
  \/ \E k \in Clients :
       \/ ServerStep(k)
       \/ ClientStep(k)
       \/ Break(k)
       \/ Disconnect(k)

Spec == Init /\ [][Next]_vars

\* The runtime runs the tasks that can go on, the browser delivers messages,
\* fires timers and reports the end of a connection or an attempt.
Fairness ==
  \A k \in Clients :
    /\ WF_vars(ServerStep(k))
    /\ WF_vars(Hear(k))
    /\ WF_vars(TimerFires(k))
    /\ WF_vars(Open(k) \/ Refused(k))
    /\ WF_vars(Closed(k))

FairSpec == Spec /\ Fairness

-----------------------------------------------------------------------------
(* Properties.                                                             *)

\* Types of the connections.
TypeOK ==
  /\ emitted \in Nat /\ faults \in Nat
  /\ up \in BOOLEAN
  /\ server \in [Clients -> ServerStates]
  /\ next \in [Clients -> Nat]
  /\ wire \in [Clients -> Seq(Nat)]
  /\ phase \in [Clients -> Phases]
  /\ attempts \in [Clients -> Nat]
  /\ heard \in [Clients -> Nat]
  /\ failures \in [Clients -> Nat]

\* The abstract feed: a client has one from the moment its connection has
\* subscribed until it sees the connection end.
Joined == [k \in Clients |-> next[k] # 0]
Feed == INSTANCE EventFeed WITH log <- emitted, live <- Joined, at <- heard

\* The hub implements the feed: through ring, tasks, wire, lost connections and
\* restarts, a subscribed client never hears an event twice, out of order, or
\* without the one before it.
ImplementsFeed == Feed!FeedSpec

\* A client gives up only after the connection was refused as often in a row
\* as it has attempts: one connection in between gives it all attempts again.
GivesUpLate ==
  \A k \in Clients : phase[k] = "gaveUp" => failures[k] >= MaxAttempts

\* A client whose page is open never hangs between two connections: it is
\* connected or has given up.
ReconnectionSettles ==
  \A k \in Clients : []<>(phase[k] \in {"open", "gaveUp", "closed"})

\* As long as its send task runs, a client hears everything: it always catches
\* up with the bus.  (A client that has lagged is not served any more.)
ServedCatchUp ==
  \A k \in Clients : []<>(server[k] = "serving" => heard[k] = emitted)
=============================================================================
