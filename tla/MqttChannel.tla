------------------------------ MODULE MqttChannel ------------------------------
(***************************************************************************)
(* The MQTT connection of the host (protocol/mqtt.rs): one MqttChannel     *)
(* behind a TokioMutex, the callers that lock it (request handlers through *)
(* MqttService and CommandService, the start-up task of builder.rs), and   *)
(* the event loop that every connect spawns.                               *)
(*                                                                         *)
(* A caller hands its requests to the event loop through the AsyncClient,  *)
(* a handle with a mutex of its own and a queue of bounded capacity.  The  *)
(* event loop takes requests from the queue only while it polls, and takes *)
(* the same handle to subscribe.  All event loops share the flag connected *)
(* and the counter reconnect_attempts, each write under a lock held for    *)
(* that write only.  Nothing tells an event loop to end: it ends when it   *)
(* finds the counter at its maximum.                                       *)
(*                                                                         *)
(* Telemetry and status messages do not touch the channel and are not      *)
(* modelled; the sends to mqtt_event_tx are taken never to block for good, *)
(* since the task that drains them never locks the channel.                *)
(***************************************************************************)
EXTENDS Integers, Sequences, FiniteSets, SequencesExt

CONSTANTS
  Callers,      \* tasks that use the channel
  NoOne,        \* holder of a free mutex
  Topics,       \* SUBSCRIBE_TOPICS, in order
  Cap,          \* capacity of the request queue (100)
  MaxAttempts,  \* MAX_RECONNECT_ATTEMPTS (10)
  SharedId,     \* do all connects use the same client_id?
  MaxLoops,     \* bound: connects made in one behaviour
  MaxCalls,     \* bound: calls made in one behaviour
  MaxFaults     \* bound: faults of the broker or the network

ASSUME ChannelAssumption ==
  /\ NoOne \notin Callers /\ "loop" \notin Callers /\ NoOne # "loop"
  /\ Topics \in Seq(STRING) /\ Len(Topics) > 0
  /\ Range(Topics) \cap {"publish", "disconnect"} = {}  \* what the queue tells apart
  /\ Cap \in Nat \ {0} /\ MaxAttempts \in Nat \ {0}
  /\ SharedId \in BOOLEAN
  /\ MaxLoops \in Nat /\ MaxCalls \in Nat /\ MaxFaults \in Nat

VARIABLES
  mutex,      \* holder of the TokioMutex<MqttChannel>
  client,     \* the event loop whose handle is MqttChannel.client, 0 for None
  connected,
  attempts,   \* reconnect_attempts
  loop,       \* [1..MaxLoops]: the event loops
  loops,      \* number of event loops spawned
  call,       \* [caller]: the call under way
  broker,     \* does the broker accept connections?
  stopped,    \* history: loops whose handle was asked to disconnect
  calls,      \* number of calls made
  faults      \* number of faults so far

channel == <<mutex, client, connected, attempts>>
environment == <<broker, faults>>
vars == <<mutex, client, connected, attempts, loop, loops, call, broker, stopped,
          calls, faults>>

Loops == 1..MaxLoops
Operations == {"connect", "disconnect", "publish", "status"}
Requests == {"publish", "disconnect"} \cup Range(Topics)

Idle == [pc |-> "idle"]

\* pc "none": not spawned.  net "lost": closed, and the loop has yet to notice.
NewLoop == [pc |-> "none", net |-> "down", queue |-> <<>>, handle |-> NoOne,
            next |-> 1, seen |-> 0, subscribed |-> {}]

Init ==
  /\ mutex = NoOne
  /\ client = 0
  /\ connected = FALSE
  /\ attempts = 0
  /\ loop = [i \in Loops |-> NewLoop]
  /\ loops = 0
  /\ call = [k \in Callers |-> Idle]
  /\ broker = TRUE
  /\ stopped = {}
  /\ calls = 0
  /\ faults = 0

\* Event loop i becomes r.
Become(i, r) == loop' = [loop EXCEPT ![i] = r]

-----------------------------------------------------------------------------
(* Callers.                                                                *)

At(k, pc) == call[k].pc = pc

\* Connects under way that have yet to spawn their event loop.
Connecting ==
  {k \in Callers : call[k] # Idle /\ call[k].op = "connect" /\ ~At(k, "release")}

Call(k) ==
  /\ call[k] = Idle
  /\ calls < MaxCalls
  /\ calls' = calls + 1
  /\ \E op \in Operations :
       /\ op = "connect" => loops + Cardinality(Connecting) < MaxLoops
       /\ call' = [call EXCEPT ![k] = [pc |-> "lock", op |-> op]]
  /\ UNCHANGED <<channel, loop, loops, stopped, environment>>

Goto(k, pc) == call' = [call EXCEPT ![k].pc = pc]

\* What the code does first under the lock; status only reads the flag.
FirstStep(op) ==
  CASE op = "status"     -> "release"
    [] op = "publish"    -> IF client = 0 THEN "release" ELSE "take"
    [] op = "connect"    -> IF client = 0 THEN "spawn" ELSE "take"
    [] op = "disconnect" -> IF client = 0 THEN "clear" ELSE "take"

\* Mutant of Acquire: the channel is used without waiting for its lock.
AcquireUnguarded(k) ==
  /\ At(k, "lock")
  /\ mutex' = k
  /\ Goto(k, FirstStep(call[k].op))
  /\ UNCHANGED <<client, connected, attempts, loop, loops, stopped, calls, environment>>

Acquire(k) ==
  /\ At(k, "lock")
  /\ mutex = NoOne
  /\ mutex' = k
  /\ Goto(k, FirstStep(call[k].op))
  /\ UNCHANGED <<client, connected, attempts, loop, loops, stopped, calls, environment>>

TakeHandle(k) ==
  /\ At(k, "take")
  /\ loop[client].handle = NoOne
  /\ Become(client, [loop[client] EXCEPT !.handle = k])
  /\ Goto(k, "request")
  /\ UNCHANGED <<channel, loops, stopped, calls, environment>>

\* client.publish or client.disconnect waits for room in the queue, or fails
\* because the event loop has ended; the handle is released on return.
Request(k) ==
  /\ At(k, "request")
  /\ LET request == IF call[k].op = "publish" THEN "publish" ELSE "disconnect" IN
       \/ /\ loop[client].pc # "ended"
          /\ Len(loop[client].queue) < Cap
          /\ Become(client, [loop[client] EXCEPT !.queue = Append(@, request),
                                                 !.handle = NoOne])
       \/ /\ loop[client].pc = "ended"
          /\ Become(client, [loop[client] EXCEPT !.handle = NoOne])
  /\ IF call[k].op = "publish"
       THEN Goto(k, "release") /\ UNCHANGED stopped
       ELSE Goto(k, "clear") /\ stopped' = stopped \cup {client}
  /\ UNCHANGED <<channel, loops, calls, environment>>

ClearFlag(k) ==
  /\ At(k, "clear")
  /\ connected' = FALSE
  /\ Goto(k, "reset")
  /\ UNCHANGED <<mutex, client, attempts, loop, loops, stopped, calls, environment>>

ResetClient(k) ==
  /\ At(k, "reset")
  /\ client' = 0
  /\ attempts' = 0
  /\ Goto(k, IF call[k].op = "connect" THEN "spawn" ELSE "release")
  /\ UNCHANGED <<mutex, connected, loop, loops, stopped, calls, environment>>

Spawn(k) ==
  /\ At(k, "spawn")
  /\ loops < MaxLoops
  /\ loops' = loops + 1
  /\ client' = loops + 1
  /\ Become(loops + 1, [NewLoop EXCEPT !.pc = "poll"])
  /\ Goto(k, "release")
  /\ UNCHANGED <<mutex, connected, attempts, stopped, calls, environment>>

\* The call returns; the start-up task keeps the lock 5 s longer.
Release(k) ==
  /\ At(k, "release")
  /\ mutex' = NoOne
  /\ call' = [call EXCEPT ![k] = Idle]
  /\ UNCHANGED <<client, connected, attempts, loop, loops, stopped, calls, environment>>

CallerStep(k) ==
  \/ Acquire(k) \/ TakeHandle(k) \/ Request(k) \/ ClearFlag(k)
  \/ ResetClient(k) \/ Spawn(k) \/ Release(k)

-----------------------------------------------------------------------------
(* Event loops.  "poll" is eventloop.poll() of the library, as the code    *)
(* relies on it: it connects when there is no session, and otherwise sends *)
(* the next request or reports what the network did.                       *)

AtLoop(i, pc) == loop[i].pc = pc
callerState == <<mutex, client, loops, call, stopped, calls>>

\* A session that opens makes the broker close an older one of the same client_id.
TakenOver(i, j) == SharedId /\ j # i /\ loop[j].net = "up"
Lost(j) == [loop[j] EXCEPT !.net = "lost"]

ConnAck(i) ==
  /\ AtLoop(i, "poll")
  /\ loop[i].net = "down"
  /\ broker
  /\ loop' = [j \in Loops |->
       CASE j = i           -> [loop[i] EXCEPT !.net = "up", !.subscribed = {}, !.pc = "reset"]
         [] TakenOver(i, j) -> Lost(j)
         [] OTHER           -> loop[j]]
  /\ connected' = TRUE
  /\ UNCHANGED <<attempts, callerState, environment>>

\* Mutant of ResetAttempts: after a reconnection the topics are not asked for.
ResetAttemptsResumes(i) ==
  /\ AtLoop(i, "reset")
  /\ attempts' = 0
  /\ Become(i, [loop[i] EXCEPT !.pc = IF attempts = 0 THEN "take" ELSE "poll"])
  /\ UNCHANGED <<connected, callerState, environment>>

ResetAttempts(i) ==
  /\ AtLoop(i, "reset")
  /\ attempts' = 0
  /\ Become(i, [loop[i] EXCEPT !.pc = "take"])
  /\ UNCHANGED <<connected, callerState, environment>>

TakeOwnHandle(i) ==
  /\ AtLoop(i, "take")
  /\ loop[i].handle = NoOne
  /\ Become(i, [loop[i] EXCEPT !.handle = "loop", !.next = 1, !.pc = "subscribe"])
  /\ UNCHANGED <<connected, attempts, callerState, environment>>

\* Mutants of Subscribe: one topic too many; the handle is not released.
SubscribePast(i) ==
  /\ AtLoop(i, "subscribe")
  /\ Len(loop[i].queue) < Cap
  /\ Become(i, [loop[i] EXCEPT !.queue = Append(@, Topics[loop[i].next]), !.next = @ + 1])
  /\ UNCHANGED <<connected, attempts, callerState, environment>>
SubscribeKeepsHandle(i) ==
  /\ AtLoop(i, "subscribe")
  /\ Len(loop[i].queue) < Cap
  /\ LET queued == [loop[i] EXCEPT !.queue = Append(@, Topics[loop[i].next])] IN
       Become(i, IF loop[i].next < Len(Topics) THEN [queued EXCEPT !.next = @ + 1]
                                               ELSE [queued EXCEPT !.pc = "poll"])
  /\ UNCHANGED <<connected, attempts, callerState, environment>>

\* Waits for room in the queue that only this loop empties.
Subscribe(i) ==
  /\ AtLoop(i, "subscribe")
  /\ Len(loop[i].queue) < Cap
  /\ LET queued == [loop[i] EXCEPT !.queue = Append(@, Topics[loop[i].next])] IN
       Become(i, IF loop[i].next < Len(Topics)
                   THEN [queued EXCEPT !.next = @ + 1]
                   ELSE [queued EXCEPT !.handle = NoOne, !.pc = "poll"])
  /\ UNCHANGED <<connected, attempts, callerState, environment>>

\* Mutant of SendRequest: the request stays in the queue.
SendRequestPeek(i) ==
  /\ AtLoop(i, "poll")
  /\ loop[i].net = "up"
  /\ loop[i].queue # <<>>
  /\ Become(i, [loop[i] EXCEPT !.subscribed = @ \cup ({Head(loop[i].queue)} \cap Range(Topics))])
  /\ UNCHANGED <<connected, attempts, callerState, environment>>

SendRequest(i) ==
  /\ AtLoop(i, "poll")
  /\ loop[i].net = "up"
  /\ loop[i].queue # <<>>
  /\ LET request == Head(loop[i].queue)
         sent == [loop[i] EXCEPT !.queue = Tail(@)]
     IN Become(i, CASE request = "disconnect"    -> [sent EXCEPT !.net = "lost"]
                    [] request \in Range(Topics) -> [sent EXCEPT !.subscribed = @ \cup {request}]
                    [] OTHER                     -> sent)
  /\ UNCHANGED <<connected, attempts, callerState, environment>>

\* Mutant of PollError: the error does not lower the flag.
PollErrorKeepsFlag(i) ==
  /\ AtLoop(i, "poll")
  /\ loop[i].net = "lost" \/ (loop[i].net = "down" /\ ~broker)
  /\ Become(i, [loop[i] EXCEPT !.net = "down", !.pc = "read"])
  /\ UNCHANGED <<connected, attempts, callerState, environment>>

\* The library clears the requests of a lost session, now or never.
PollError(i) ==
  /\ AtLoop(i, "poll")
  /\ \/ /\ loop[i].net = "lost"
        /\ \E kept \in {loop[i].queue, <<>>} :
             Become(i, [loop[i] EXCEPT !.net = "down", !.queue = kept, !.pc = "read"])
     \/ /\ loop[i].net = "down"
        /\ ~broker
        /\ Become(i, [loop[i] EXCEPT !.pc = "read"])
  /\ connected' = FALSE
  /\ UNCHANGED <<attempts, callerState, environment>>

ReadAttempts(i) ==
  /\ AtLoop(i, "read")
  /\ Become(i, [loop[i] EXCEPT !.seen = attempts,
                               !.pc = IF attempts >= MaxAttempts THEN "ended" ELSE "write"])
  /\ UNCHANGED <<connected, attempts, callerState, environment>>

\* Mutant of WriteAttempts: the attempt is not counted.
WriteAttemptsSame(i) ==
  /\ AtLoop(i, "write")
  /\ attempts' = loop[i].seen
  /\ Become(i, [loop[i] EXCEPT !.pc = "sleep"])
  /\ UNCHANGED <<connected, callerState, environment>>

WriteAttempts(i) ==
  /\ AtLoop(i, "write")
  /\ attempts' = loop[i].seen + 1
  /\ Become(i, [loop[i] EXCEPT !.pc = "sleep"])
  /\ UNCHANGED <<connected, callerState, environment>>

Wake(i) ==
  /\ AtLoop(i, "sleep")
  /\ Become(i, [loop[i] EXCEPT !.pc = "poll"])
  /\ UNCHANGED <<connected, attempts, callerState, environment>>

LoopStep(i) ==
  \/ ConnAck(i) \/ ResetAttempts(i) \/ TakeOwnHandle(i) \/ Subscribe(i)
  \/ SendRequest(i) \/ PollError(i) \/ ReadAttempts(i) \/ WriteAttempts(i) \/ Wake(i)

-----------------------------------------------------------------------------
(* The broker and the network.                                             *)

Fault == faults < MaxFaults /\ faults' = faults + 1

SessionLost(i) ==
  /\ loop[i].net = "up"
  /\ Fault
  /\ Become(i, Lost(i))
  /\ UNCHANGED <<connected, attempts, broker, callerState>>

\* The loop receives Incoming::Disconnect, and the broker closes the session.
ServerDisconnect(i) ==
  /\ AtLoop(i, "poll")
  /\ loop[i].net = "up"
  /\ Fault
  /\ Become(i, Lost(i))
  /\ connected' = FALSE
  /\ UNCHANGED <<attempts, broker, callerState>>

BrokerDown ==
  /\ broker
  /\ Fault
  /\ broker' = FALSE
  /\ loop' = [i \in Loops |-> IF loop[i].net = "up" THEN Lost(i) ELSE loop[i]]
  /\ UNCHANGED <<connected, attempts, callerState>>

BrokerUp ==
  /\ ~broker
  /\ broker' = TRUE
  /\ UNCHANGED <<connected, attempts, loop, callerState, faults>>

-----------------------------------------------------------------------------
Next ==
  \/ \E k \in Callers : Call(k) \/ CallerStep(k)
  \/ \E i \in Loops : LoopStep(i) \/ SessionLost(i) \/ ServerDisconnect(i)
  \/ BrokerDown
  \/ BrokerUp

Spec == Init /\ [][Next]_vars

\* Every task of the runtime runs, and a free mutex goes to one that waits
\* for it; nothing makes a caller call or the broker fail or come back.
FairSpec ==
  /\ Spec
  /\ \A k \in Callers : WF_vars(CallerStep(k))
  /\ \A i \in Loops : WF_vars(LoopStep(i))

-----------------------------------------------------------------------------
(* Properties.                                                             *)

LoopPcs == {"none", "poll", "reset", "take", "subscribe", "read", "write", "sleep", "ended"}
LoopType ==
  [pc : LoopPcs, net : {"down", "up", "lost"}, queue : Seq(Requests),
   handle : Callers \cup {NoOne, "loop"}, next : 1..Len(Topics),
   seen : Nat, subscribed : SUBSET Range(Topics)]
CallType ==
  {Idle} \cup [pc : {"lock", "take", "request", "clear", "reset", "spawn", "release"},
               op : Operations]

TypeOK ==
  /\ mutex \in Callers \cup {NoOne}
  /\ client \in 0..MaxLoops
  /\ connected \in BOOLEAN
  /\ attempts \in Nat
  /\ loop \in [Loops -> LoopType]
  /\ loops \in 0..MaxLoops
  /\ call \in [Callers -> CallType]
  /\ broker \in BOOLEAN
  /\ stopped \subseteq 0..MaxLoops
  /\ calls \in 0..MaxCalls
  /\ faults \in 0..MaxFaults

\* The counter never passes its maximum and a loop never backs off from it, so
\* 1 << attempts in the delay keeps its width, although the loops read and
\* write the counter in separate steps and several loops share it.
AttemptsBounded ==
  /\ attempts <= MaxAttempts
  /\ \A i \in Loops : AtLoop(i, "write") => loop[i].seen < MaxAttempts

\* A caller past the lock holds it; only the holder has the handle of an event
\* loop, and it is the handle of the present client.
LockDiscipline ==
  /\ \A k \in Callers : call[k].pc \notin {"idle", "lock"} => mutex = k
  /\ \A i \in Loops, k \in Callers :
       loop[i].handle = k <=> At(k, "request") /\ client = i
  /\ \A i \in Loops : loop[i].handle = "loop" <=> AtLoop(i, "subscribe")

\* A loop that polls on a live session has subscribed to every topic in this
\* session, or still has the request in its queue: no reconnection loses one.
SessionSubscribed ==
  \A i \in Loops : AtLoop(i, "poll") /\ loop[i].net = "up" =>
    Range(Topics) \subseteq loop[i].subscribed \cup Range(loop[i].queue)

\* While only one event loop was ever started and nobody asked it to stop, the
\* flag that status reports agrees with the session whenever the loop polls.
FlagTracksSession ==
  loops = 1 /\ stopped = {} /\ AtLoop(1, "poll") =>
    /\ loop[1].net = "up" => connected
    /\ loop[1].net = "down" => ~connected

\* connect closes the session it replaces for good (mqtt.rs: "Disconnect
\* existing"): a loop that was told to disconnect and has lost its session
\* does not open another.
DisconnectIsFinal ==
  [][\A i \in stopped : loop[i].net # "up" /\ loop'[i].net = "up"
       => Contains(loop[i].queue, "disconnect")]_vars

\* Every call returns, status in particular.
CallsReturn == \A k \in Callers : call[k] # Idle ~> call[k] = Idle

\* When the broker stays away, every event loop gives up.
RetriesEnd ==
  <>[]~broker => <>[](\A i \in Loops : loop[i].pc \in {"none", "ended"})

\* When the faults are over, every event loop has a session and no request
\* waiting, or has given up.
SessionsSettle ==
  <>[](\A i \in Loops : \/ loop[i].pc \in {"none", "ended"}
                        \/ AtLoop(i, "poll") /\ loop[i].net = "up" /\ loop[i].queue = <<>>)
=============================================================================
