------------------------------ MODULE MqttStatus ------------------------------
(***************************************************************************)
(* What the web clients show of the MQTT session.  Every event loop of     *)
(* MqttChannel reports what its poll returned (mqtt.rs) to one queue; the  *)
(* worker (mqtt_events.rs) makes MqttStatusChanged of "Connected" and      *)
(* "Disconnected", and an entry of the log of "Error"; a client keeps the  *)
(* last MqttStatusChanged (useWebSocket.ts), and nothing else sets its     *)
(* flag: GET mqtt/status is never asked for.                               *)
(*                                                                         *)
(* A loop sends its report after it has written flag or counter, and waits *)
(* for it before it goes on.  The pages are those open from the start,     *)
(* which all hear the same; how an event gets to a page is EventHub's.     *)
(***************************************************************************)
EXTENDS MqttChannel

CONSTANT Room   \* capacity of the queue of reports (200)

ASSUME RoomAssumption == Room \in Nat \ {0}

VARIABLES
  owed,         \* [loop]: the report it has yet to send, or "none"
  reports,      \* the queue mqtt_event_tx
  shown         \* mqttConnected of the pages' stores

statusVars == <<vars, owed, reports, shown>>

StatusInit ==
  /\ Init
  /\ owed = [i \in Loops |-> "none"]
  /\ reports = <<>>
  /\ shown = FALSE

-----------------------------------------------------------------------------
(* The event loops and their reports.                                      *)

Owes(i, report) == owed' = [owed EXCEPT ![i] = report]

\* The outcomes of poll that are reported.
Report(i) ==
  \/ ResetAttempts(i) /\ Owes(i, "Connected")
  \/ ServerDisconnect(i) /\ Owes(i, "Disconnected")
  \/ PollError(i) /\ Owes(i, "Error")

Work(i) ==
  /\ owed[i] = "none"
  /\ \/ Report(i)
     \/ /\ \/ ConnAck(i) \/ TakeOwnHandle(i) \/ Subscribe(i) \/ SendRequest(i)
           \/ ReadAttempts(i) \/ WriteAttempts(i) \/ Wake(i)
        /\ UNCHANGED owed
  /\ UNCHANGED <<reports, shown>>

\* Mutant of SendReport: it is sent only if there is room at once.
SendReportOrDrop(i) ==
  /\ owed[i] # "none"
  /\ reports' = IF Len(reports) < Room THEN Append(reports, owed[i]) ELSE reports
  /\ Owes(i, "none")
  /\ UNCHANGED <<vars, shown>>

SendReport(i) ==
  /\ owed[i] # "none"
  /\ Len(reports) < Room
  /\ reports' = Append(reports, owed[i])
  /\ Owes(i, "none")
  /\ UNCHANGED <<vars, shown>>

-----------------------------------------------------------------------------
(* The worker and the clients.                                             *)

Status(report) == report = "Connected"

\* Mutant of Emit: the worker ends at the first error.
EmitUntilError ==
  /\ reports # <<>>
  /\ Head(reports) # "Error"
  /\ reports' = Tail(reports)
  /\ shown' = Status(Head(reports))
  /\ UNCHANGED <<vars, owed>>

\* spawn_mqtt_event_handler: an error is emitted as an error, no client takes
\* it for a change of the status.
Emit ==
  /\ reports # <<>>
  /\ reports' = Tail(reports)
  /\ shown' = IF Head(reports) = "Error" THEN shown ELSE Status(Head(reports))
  /\ UNCHANGED <<vars, owed>>

-----------------------------------------------------------------------------
Environment ==
  /\ \/ \E k \in Callers : Call(k) \/ CallerStep(k)
     \/ \E i \in Loops : SessionLost(i)
     \/ BrokerDown
     \/ BrokerUp
  /\ UNCHANGED <<owed, reports, shown>>

StatusNext ==
  \/ \E i \in Loops : Work(i) \/ SendReport(i)
  \/ Emit
  \/ Environment

StatusSpec == StatusInit /\ [][StatusNext]_statusVars

\* As in FairSpec of the channel; the worker is never stopped.
StatusFairSpec ==
  /\ StatusSpec
  /\ \A k \in Callers : WF_statusVars(CallerStep(k) /\ Environment)
  /\ \A i \in Loops : WF_statusVars(Work(i) \/ SendReport(i))
  /\ WF_statusVars(Emit)

-----------------------------------------------------------------------------
(* Properties.                                                             *)

\* Nothing is on its way to the pages.
Told ==
  /\ \A i \in Loops : owed[i] = "none" /\ ~AtLoop(i, "reset")
  /\ reports = <<>>

\* While one event loop was started, the pages show its session as soon as
\* everything is delivered, whatever errors, server disconnects, reconnections
\* and requests came before: reports wait for room and no older one overtakes.
SessionShown ==
  loops = 1 /\ AtLoop(1, "poll") /\ loop[1].net = "up" /\ Told => shown

\* Reports do not pile up behind one another: if the session of the one event
\* loop lasts, the pages come to show it.
SessionShownAtLast ==
  <>[](loops = 1 /\ loop[1].net = "up") => <>[]shown
=============================================================================
