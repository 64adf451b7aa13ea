-------------------------- MODULE MqttChannelProofs --------------------------
(***************************************************************************)
(* Proofs about MqttChannel and MqttStatus, for any number of callers,     *)
(* connects, topics, attempts and faults, and any capacity of the queues.  *)
(***************************************************************************)
EXTENDS MqttStatus, SequenceTheorems, TLAPS

\* The record of an event loop, and what keeps the event loops typed.
LEMMA LoopTyped ==
  ASSUME TypeOK, NEW i \in Loops
  PROVE  loop[i] \in LoopType
  BY DEF TypeOK

LEMMA TopicRequests ==
  ASSUME NEW n \in 1..Len(Topics)
  PROVE  Topics[n] \in Range(Topics) /\ Topics[n] \in Requests
  BY ChannelAssumption DEF Range, Requests

LEMMA BecomeType ==
  ASSUME TypeOK, NEW i, NEW r, i \in Loops => r \in LoopType, Become(i, r)
  PROVE  loop' \in [Loops -> LoopType]
  BY DEF TypeOK, Become

LEMMA NewLoopType == NewLoop \in LoopType
  BY ChannelAssumption DEF NewLoop, LoopType, LoopPcs

LEMMA InitType == Init => TypeOK
<1> SUFFICES ASSUME Init PROVE TypeOK
  OBVIOUS
<1>1. NewLoop \in LoopType
  BY NewLoopType
<1>2. Idle \in CallType
  BY DEF CallType
<1>3. loop \in [Loops -> LoopType] /\ call \in [Callers -> CallType]
  BY <1>1, <1>2 DEF Init
<1>4. connected \in BOOLEAN /\ broker \in BOOLEAN
  BY DEF Init
<1> QED
  BY <1>3, <1>4, ChannelAssumption DEF Init, TypeOK

\* A call moved to another point of the code is still a call.
LEMMA GotoType ==
  ASSUME TypeOK, NEW k \in Callers,
         NEW pc \in {"lock", "take", "request", "clear", "reset", "spawn", "release"},
         call[k].pc # "idle", Goto(k, pc)
  PROVE  call' \in [Callers -> CallType]
<1>1. call[k] \in CallType
  BY DEF TypeOK
<1>2. [call[k] EXCEPT !.pc = pc] \in CallType
  BY <1>1 DEF CallType, Idle
<1> QED
  BY <1>2 DEF Goto, TypeOK

LEMMA CallerType ==
  ASSUME TypeOK, NEW k \in Callers, Call(k) \/ CallerStep(k)
  PROVE  TypeOK'
<1> USE ChannelAssumption
<1>1. CASE Call(k)
  <2>1. PICK op \in Operations : call' = [call EXCEPT ![k] = [pc |-> "lock", op |-> op]]
    BY <1>1 DEF Call
  <2>2. [pc |-> "lock", op |-> op] \in CallType
    BY DEF CallType
  <2>3. call' \in [Callers -> CallType]
    BY <2>1, <2>2 DEF TypeOK
  <2> QED
    BY <1>1, <2>3 DEF Call, TypeOK, channel, environment
<1>2. CASE Acquire(k)
  <2>1. call[k] \in CallType /\ call[k] # Idle
    BY <1>2 DEF TypeOK, Acquire, At, Idle
  <2>2. call[k].op \in Operations
    BY <2>1 DEF CallType
  <2>3. FirstStep(call[k].op) \in {"release", "take", "spawn", "clear"}
    BY <2>2 DEF FirstStep, Operations
  <2>4. call' \in [Callers -> CallType]
    BY <1>2, <2>3, GotoType DEF Acquire, At
  <2> QED
    BY <1>2, <2>4 DEF Acquire, TypeOK, environment
<1>3. CASE TakeHandle(k)
  <2>1. call' \in [Callers -> CallType]
    BY <1>3, GotoType DEF TakeHandle, At
  <2>2. client \in Loops => [loop[client] EXCEPT !.handle = k] \in LoopType
    BY LoopTyped DEF LoopType
  <2>3. loop' \in [Loops -> LoopType]
    BY <1>3, <2>2, BecomeType DEF TakeHandle
  <2> QED
    BY <1>3, <2>1, <2>3 DEF TakeHandle, TypeOK, channel, environment
<1>4. CASE Request(k)
  <2> DEFINE request == IF call[k].op = "publish" THEN "publish" ELSE "disconnect"
  <2>1. call' \in [Callers -> CallType]
    BY <1>4, GotoType DEF Request, At
  <2>2. loop' \in [Loops -> LoopType]
    <3>1. CASE client \in Loops
      <4>1. loop[client] \in LoopType
        BY <3>1, LoopTyped
      <4>2. Append(loop[client].queue, request) \in Seq(Requests)
        BY <4>1 DEF LoopType, Requests
      <4>3. [loop[client] EXCEPT !.queue = Append(@, request), !.handle = NoOne] \in LoopType
        BY <4>1, <4>2 DEF LoopType
      <4>4. [loop[client] EXCEPT !.handle = NoOne] \in LoopType
        BY <4>1 DEF LoopType
      <4> QED
        BY <1>4, <4>3, <4>4, BecomeType DEF Request
    <3>2. CASE client \notin Loops
      BY <1>4, <3>2, BecomeType DEF Request
    <3> QED
      BY <3>1, <3>2
  <2>3. stopped' \subseteq 0..MaxLoops
    BY <1>4 DEF Request, TypeOK
  <2> QED
    BY <1>4, <2>1, <2>2, <2>3 DEF Request, TypeOK, channel, environment
<1>5. CASE ClearFlag(k)
  <2>1. call' \in [Callers -> CallType]
    BY <1>5, GotoType DEF ClearFlag, At
  <2> QED
    BY <1>5, <2>1 DEF ClearFlag, TypeOK, environment
<1>6. CASE ResetClient(k)
  <2>1. call' \in [Callers -> CallType]
    BY <1>6, GotoType DEF ResetClient, At
  <2> QED
    BY <1>6, <2>1 DEF ResetClient, TypeOK, environment
<1>7. CASE Spawn(k)
  <2>1. call' \in [Callers -> CallType]
    BY <1>7, GotoType DEF Spawn, At
  <2>2. loops + 1 \in Loops
    BY <1>7 DEF Spawn, TypeOK, Loops
  <2>3. [NewLoop EXCEPT !.pc = "poll"] \in LoopType
    BY NewLoopType DEF LoopType, LoopPcs
  <2>4. loop' \in [Loops -> LoopType]
    BY <1>7, <2>3, BecomeType DEF Spawn
  <2> QED
    BY <1>7, <2>1, <2>2, <2>4 DEF Spawn, TypeOK, Loops, environment
<1>8. CASE Release(k)
  <2>1. call' \in [Callers -> CallType]
    BY <1>8 DEF Release, TypeOK, CallType
  <2> QED
    BY <1>8, <2>1 DEF Release, TypeOK, environment
<1> QED
  BY <1>1, <1>2, <1>3, <1>4, <1>5, <1>6, <1>7, <1>8 DEF CallerStep

\* The typed fields a request queue gives, taken and refilled.
LEMMA SentType ==
  ASSUME TypeOK, NEW i \in Loops, loop[i].queue # <<>>
  PROVE  /\ Head(loop[i].queue) \in Requests
         /\ Tail(loop[i].queue) \in Seq(Requests)
  BY LoopTyped DEF LoopType

LEMMA LostType ==
  ASSUME TypeOK, NEW i \in Loops
  PROVE  Lost(i) \in LoopType
  BY LoopTyped DEF Lost, LoopType

LEMMA LoopStepType ==
  ASSUME TypeOK, NEW i \in Loops, LoopStep(i)
  PROVE  TypeOK'
<1> USE ChannelAssumption
<1>0. loop[i] \in LoopType
  BY LoopTyped
<1>1. CASE ConnAck(i)
  <2>1. [loop[i] EXCEPT !.net = "up", !.subscribed = {}, !.pc = "reset"] \in LoopType
    BY <1>0 DEF LoopType, LoopPcs
  <2>2. loop' \in [Loops -> LoopType]
    BY <1>1, <2>1, LostType, LoopTyped DEF ConnAck
  <2> QED
    BY <1>1, <2>2 DEF ConnAck, TypeOK, callerState, environment
<1>2. CASE ResetAttempts(i)
  <2>1. [loop[i] EXCEPT !.pc = "take"] \in LoopType
    BY <1>0 DEF LoopType, LoopPcs
  <2>2. loop' \in [Loops -> LoopType]
    BY <1>2, <2>1, BecomeType DEF ResetAttempts
  <2> QED
    BY <1>2, <2>2 DEF ResetAttempts, TypeOK, callerState, environment
<1>3. CASE TakeOwnHandle(i)
  <2>0. 1 \in 1..Len(Topics)
    OBVIOUS
  <2>1. [loop[i] EXCEPT !.handle = "loop", !.next = 1, !.pc = "subscribe"] \in LoopType
    BY <1>0, <2>0 DEF LoopType, LoopPcs
  <2>2. loop' \in [Loops -> LoopType]
    BY <1>3, <2>1, BecomeType DEF TakeOwnHandle
  <2> QED
    BY <1>3, <2>2 DEF TakeOwnHandle, TypeOK, callerState, environment
<1>4. CASE Subscribe(i)
  <2> DEFINE queued == [loop[i] EXCEPT !.queue = Append(@, Topics[loop[i].next])]
  <2>1. Topics[loop[i].next] \in Requests
    BY <1>0, TopicRequests DEF LoopType
  <2>2. Append(loop[i].queue, Topics[loop[i].next]) \in Seq(Requests)
    BY <1>0, <2>1 DEF LoopType
  <2>3. queued \in LoopType /\ queued.next = loop[i].next
    BY <1>0, <2>2 DEF LoopType
  <2>4. loop' = [loop EXCEPT ![i] = IF queued.next < Len(Topics)
                                      THEN [queued EXCEPT !.next = queued.next + 1]
                                      ELSE [queued EXCEPT !.handle = NoOne, !.pc = "poll"]]
    BY <1>4, <2>3 DEF Subscribe, Become
  <2> HIDE DEF queued
  <2>5. queued.next < Len(Topics) => [queued EXCEPT !.next = queued.next + 1] \in LoopType
    <3>1. queued.next \in 1..Len(Topics) /\ Len(Topics) \in Nat
      BY <2>3 DEF LoopType
    <3>2. queued.next < Len(Topics) => queued.next + 1 \in 1..Len(Topics)
      BY <3>1
    <3> QED
      BY <2>3, <3>2 DEF LoopType
  <2>6. [queued EXCEPT !.handle = NoOne, !.pc = "poll"] \in LoopType
    BY <2>3 DEF LoopType, LoopPcs
  <2>7. loop' \in [Loops -> LoopType]
    BY <2>4, <2>5, <2>6 DEF TypeOK
  <2> QED
    BY <1>4, <2>7 DEF Subscribe, TypeOK, callerState, environment
<1>5. CASE SendRequest(i)
  <2> DEFINE request == Head(loop[i].queue)
             sent == [loop[i] EXCEPT !.queue = Tail(@)]
  <2>1. sent \in LoopType
    BY <1>0, <1>5, SentType DEF SendRequest, LoopType
  <2>2. /\ [sent EXCEPT !.net = "lost"] \in LoopType
        /\ request \in Range(Topics) => [sent EXCEPT !.subscribed = @ \cup {request}] \in LoopType
    BY <2>1 DEF LoopType
  <2>3. loop' \in [Loops -> LoopType]
    BY <1>5, <2>1, <2>2, BecomeType DEF SendRequest
  <2> QED
    BY <1>5, <2>3 DEF SendRequest, TypeOK, callerState, environment
<1>6. CASE PollError(i)
  <2>1. \A kept \in {loop[i].queue, <<>>} :
          [loop[i] EXCEPT !.net = "down", !.queue = kept, !.pc = "read"] \in LoopType
    <3> TAKE kept \in {loop[i].queue, <<>>}
    <3>1. loop[i].queue \in Seq(Requests) /\ <<>> \in Seq(Requests)
      BY <1>0 DEF LoopType
    <3> QED
      BY <1>0, <3>1 DEF LoopType, LoopPcs
  <2>2. [loop[i] EXCEPT !.pc = "read"] \in LoopType
    BY <1>0 DEF LoopType, LoopPcs
  <2>3. loop' \in [Loops -> LoopType]
    BY <1>6, <2>1, <2>2, BecomeType DEF PollError
  <2> QED
    BY <1>6, <2>3 DEF PollError, TypeOK, callerState, environment
<1>7. CASE ReadAttempts(i)
  <2>1. [loop[i] EXCEPT !.seen = attempts,
                        !.pc = IF attempts >= MaxAttempts THEN "ended" ELSE "write"] \in LoopType
    BY <1>0 DEF LoopType, LoopPcs, TypeOK
  <2>2. loop' \in [Loops -> LoopType]
    BY <1>7, <2>1, BecomeType DEF ReadAttempts
  <2> QED
    BY <1>7, <2>2 DEF ReadAttempts, TypeOK, callerState, environment
<1>8. CASE WriteAttempts(i)
  <2>1. [loop[i] EXCEPT !.pc = "sleep"] \in LoopType
    BY <1>0 DEF LoopType, LoopPcs
  <2>2. loop' \in [Loops -> LoopType]
    BY <1>8, <2>1, BecomeType DEF WriteAttempts
  <2>3. loop[i].seen + 1 \in Nat
    BY <1>0 DEF LoopType
  <2> QED
    BY <1>8, <2>2, <2>3 DEF WriteAttempts, TypeOK, callerState, environment
<1>9. CASE Wake(i)
  <2>1. [loop[i] EXCEPT !.pc = "poll"] \in LoopType
    BY <1>0 DEF LoopType, LoopPcs
  <2>2. loop' \in [Loops -> LoopType]
    BY <1>9, <2>1, BecomeType DEF Wake
  <2> QED
    BY <1>9, <2>2 DEF Wake, TypeOK, callerState, environment
<1> QED
  BY <1>1, <1>2, <1>3, <1>4, <1>5, <1>6, <1>7, <1>8, <1>9 DEF LoopStep

LEMMA FaultCounted ==
  ASSUME TypeOK, Fault
  PROVE  faults' \in 0..MaxFaults
  BY ChannelAssumption DEF TypeOK, Fault

LEMMA FaultType ==
  ASSUME TypeOK,
         BrokerDown \/ BrokerUp \/ \E i \in Loops : SessionLost(i) \/ ServerDisconnect(i)
  PROVE  TypeOK'
<1> USE ChannelAssumption
<1>1. ASSUME NEW i \in Loops, SessionLost(i) \/ ServerDisconnect(i) PROVE TypeOK'
  <2>1. loop' \in [Loops -> LoopType]
    BY <1>1, LostType, BecomeType DEF SessionLost, ServerDisconnect
  <2>2. connected' \in BOOLEAN
    BY <1>1 DEF SessionLost, ServerDisconnect, TypeOK
  <2>3. /\ UNCHANGED <<attempts, broker, callerState>>
        /\ Fault
    BY <1>1 DEF SessionLost, ServerDisconnect
  <2> QED
    BY <2>1, <2>2, <2>3, FaultCounted DEF TypeOK, callerState
<1>2. CASE BrokerDown
  <2>1. loop' \in [Loops -> LoopType]
    BY <1>2, LostType, LoopTyped DEF BrokerDown
  <2>2. broker' \in BOOLEAN /\ Fault
    BY <1>2 DEF BrokerDown
  <2> QED
    BY <1>2, <2>1, <2>2, FaultCounted DEF BrokerDown, TypeOK, callerState
<1>3. CASE BrokerUp
  BY <1>3 DEF BrokerUp, TypeOK, callerState
<1> QED
  BY <1>1, <1>2, <1>3

\* Types, in every behaviour.
THEOREM Typing == Spec => []TypeOK
<1>1. TypeOK /\ [Next]_vars => TypeOK'
  <2> SUFFICES ASSUME TypeOK, [Next]_vars PROVE TypeOK'
    OBVIOUS
  <2>1. CASE UNCHANGED vars
    BY <2>1 DEF vars, TypeOK
  <2> QED
    BY <2>1, CallerType, LoopStepType, FaultType DEF Next
<1> QED
  BY InitType, <1>1, PTL DEF Spec

-----------------------------------------------------------------------------
(* What each kind of step does to the event loops, field by field.         *)

\* Other loops keep everything but, perhaps, their session.
Untouched(i) ==
  \A j \in Loops \ {i} : loop'[j] = loop[j] \/ (loop[j].net = "up" /\ loop'[j] = Lost(j))

\* Loop i moves in its code and may keep the handle.
Moves(i, from, to) == loop[i].pc = from /\ loop'[i].pc = to
SameHandle(i) == loop'[i].handle = loop[i].handle
SameNet(i) == loop'[i].net = loop[i].net

LoopEffect(i) ==
  \/ /\ Moves(i, "poll", "reset") /\ SameHandle(i)
     /\ loop[i].net = "down" /\ loop'[i].net = "up" /\ connected' /\ UNCHANGED attempts
  \/ /\ Moves(i, "reset", "take") /\ SameHandle(i) /\ SameNet(i)
     /\ attempts' = 0 /\ UNCHANGED connected
  \/ /\ Moves(i, "take", "subscribe") /\ SameNet(i)
     /\ loop[i].handle = NoOne /\ loop'[i].handle = "loop" /\ UNCHANGED <<attempts, connected>>
  \/ /\ Moves(i, "subscribe", "subscribe") /\ SameHandle(i) /\ SameNet(i)
     /\ UNCHANGED <<attempts, connected>>
  \/ /\ Moves(i, "subscribe", "poll") /\ loop'[i].handle = NoOne /\ SameNet(i)
     /\ UNCHANGED <<attempts, connected>>
  \/ /\ Moves(i, "poll", "poll") /\ SameHandle(i)
     /\ SameNet(i) \/ (loop[i].net = "up" /\ loop'[i].net = "lost")
     /\ UNCHANGED <<attempts, connected>>
  \/ /\ Moves(i, "poll", "read") /\ SameHandle(i)
     /\ loop'[i].net = "down" /\ connected' = FALSE /\ UNCHANGED attempts
  \/ /\ Moves(i, "read", "write") /\ SameHandle(i) /\ SameNet(i)
     /\ attempts < MaxAttempts /\ loop'[i].seen = attempts /\ UNCHANGED <<attempts, connected>>
  \/ /\ Moves(i, "read", "ended") /\ SameHandle(i) /\ SameNet(i)
     /\ UNCHANGED <<attempts, connected>>
  \/ /\ Moves(i, "write", "sleep") /\ SameHandle(i) /\ SameNet(i)
     /\ attempts' = loop[i].seen + 1 /\ UNCHANGED connected
  \/ /\ Moves(i, "sleep", "poll") /\ SameHandle(i) /\ SameNet(i)
     /\ UNCHANGED <<attempts, connected>>

LEMMA LoopEffects ==
  ASSUME TypeOK, NEW i \in Loops, LoopStep(i)
  PROVE  Untouched(i) /\ LoopEffect(i)
<1> USE ChannelAssumption DEF Moves, SameHandle, SameNet, AtLoop
<1>0. loop \in [Loops -> LoopType] /\ loop[i] \in LoopType /\ attempts \in Nat
  BY DEF TypeOK
<1>1. CASE ConnAck(i)
  <2>1. loop'[i] = [loop[i] EXCEPT !.net = "up", !.subscribed = {}, !.pc = "reset"]
    BY <1>1 DEF ConnAck, TakenOver
  <2>2. Untouched(i)
    BY <1>1 DEF ConnAck, Untouched, TakenOver
  <2>3. loop'[i].pc = "reset" /\ loop'[i].net = "up" /\ SameHandle(i)
    BY <1>0, <2>1 DEF LoopType
  <2> QED
    BY <1>1, <2>2, <2>3 DEF ConnAck, LoopEffect
<1>2. ASSUME NEW r, Become(i, r) PROVE Untouched(i) /\ loop'[i] = r
  BY <1>0, <1>2 DEF Become, Untouched
<1>3. CASE ResetAttempts(i)
  <2>1. Untouched(i) /\ loop'[i] = [loop[i] EXCEPT !.pc = "take"]
    BY <1>2, <1>3 DEF ResetAttempts
  <2> QED
    BY <1>0, <1>3, <2>1 DEF ResetAttempts, LoopEffect, LoopType
<1>4. CASE TakeOwnHandle(i)
  <2>1. /\ Untouched(i)
        /\ loop'[i] = [loop[i] EXCEPT !.handle = "loop", !.next = 1, !.pc = "subscribe"]
    BY <1>2, <1>4 DEF TakeOwnHandle
  <2> QED
    BY <1>0, <1>4, <2>1 DEF TakeOwnHandle, LoopEffect, LoopType
<1>5. CASE Subscribe(i)
  <2> DEFINE queued == [loop[i] EXCEPT !.queue = Append(@, Topics[loop[i].next])]
  <2>1. /\ Untouched(i)
        /\ loop'[i] = IF loop[i].next < Len(Topics)
                        THEN [queued EXCEPT !.next = @ + 1]
                        ELSE [queued EXCEPT !.handle = NoOne, !.pc = "poll"]
    BY <1>2, <1>5 DEF Subscribe
  <2>2. \/ loop'[i].pc = loop[i].pc /\ SameHandle(i) /\ SameNet(i)
        \/ loop'[i].pc = "poll" /\ loop'[i].handle = NoOne /\ SameNet(i)
    BY <1>0, <2>1 DEF LoopType
  <2> QED
    BY <1>5, <2>1, <2>2 DEF Subscribe, LoopEffect
<1>6. CASE SendRequest(i)
  <2> DEFINE request == Head(loop[i].queue)
             sent == [loop[i] EXCEPT !.queue = Tail(@)]
  <2>1. /\ Untouched(i)
        /\ loop'[i] \in {[sent EXCEPT !.net = "lost"],
                         [sent EXCEPT !.subscribed = @ \cup {request}], sent}
    BY <1>2, <1>6 DEF SendRequest
  <2>2. /\ loop'[i].pc = loop[i].pc /\ SameHandle(i)
        /\ SameNet(i) \/ loop'[i].net = "lost"
    BY <1>0, <2>1 DEF LoopType
  <2> QED
    BY <1>6, <2>1, <2>2 DEF SendRequest, LoopEffect
<1>7. CASE PollError(i)
  <2>1. /\ Untouched(i)
        /\ \/ \E kept : loop'[i] = [loop[i] EXCEPT !.net = "down", !.queue = kept, !.pc = "read"]
           \/ loop[i].net = "down" /\ loop'[i] = [loop[i] EXCEPT !.pc = "read"]
    BY <1>2, <1>7 DEF PollError
  <2>2. loop'[i].pc = "read" /\ SameHandle(i) /\ loop'[i].net = "down"
    BY <1>0, <2>1 DEF LoopType
  <2> QED
    BY <1>7, <2>1, <2>2 DEF PollError, LoopEffect
<1>8. CASE ReadAttempts(i)
  <2>1. /\ Untouched(i)
        /\ loop'[i] = [loop[i] EXCEPT !.seen = attempts,
                          !.pc = IF attempts >= MaxAttempts THEN "ended" ELSE "write"]
    BY <1>2, <1>8 DEF ReadAttempts
  <2> QED
    BY <1>0, <1>8, <2>1 DEF ReadAttempts, LoopEffect, LoopType
<1>9. CASE WriteAttempts(i)
  <2>1. Untouched(i) /\ loop'[i] = [loop[i] EXCEPT !.pc = "sleep"]
    BY <1>2, <1>9 DEF WriteAttempts
  <2> QED
    BY <1>0, <1>9, <2>1 DEF WriteAttempts, LoopEffect, LoopType
<1>10. CASE Wake(i)
  <2>1. Untouched(i) /\ loop'[i] = [loop[i] EXCEPT !.pc = "poll"]
    BY <1>2, <1>10 DEF Wake
  <2> QED
    BY <1>0, <1>10, <2>1 DEF Wake, LoopEffect, LoopType
<1> QED
  BY <1>1, <1>3, <1>4, <1>5, <1>6, <1>7, <1>8, <1>9, <1>10 DEF LoopStep

\* Faults only end sessions.
Faulty == BrokerDown \/ BrokerUp \/ \E i \in Loops : SessionLost(i) \/ ServerDisconnect(i)

LEMMA FaultEffects ==
  ASSUME TypeOK, Faulty
  PROVE  /\ \A j \in Loops : \/ loop'[j] = loop[j]
                             \/ loop[j].net = "up" /\ loop'[j] = Lost(j)
         /\ UNCHANGED <<attempts, callerState>>
         /\ \/ UNCHANGED connected
            \/ /\ connected' = FALSE
               /\ \E j \in Loops : /\ loop[j].pc = "poll" /\ loop[j].net = "up"
                                  /\ loop'[j] = Lost(j)
<1>0. loop \in [Loops -> LoopType]
  BY DEF TypeOK
<1>1. ASSUME NEW i \in Loops, SessionLost(i) \/ ServerDisconnect(i)
      PROVE  /\ loop[i].net = "up" /\ loop'[i] = Lost(i)
             /\ \A j \in Loops \ {i} : loop'[j] = loop[j]
             /\ UNCHANGED <<attempts, callerState>>
             /\ UNCHANGED connected \/ (connected' = FALSE /\ loop[i].pc = "poll")
  BY <1>0, <1>1 DEF SessionLost, ServerDisconnect, Become, AtLoop
<1>2. CASE BrokerDown
  BY <1>2 DEF BrokerDown
<1>3. CASE BrokerUp
  BY <1>3 DEF BrokerUp
<1> QED
  BY <1>1, <1>2, <1>3 DEF Faulty

\* A lost session leaves the rest of the loop alone.
LEMMA LostFields ==
  ASSUME TypeOK, NEW j \in Loops
  PROVE  /\ Lost(j).pc = loop[j].pc /\ Lost(j).handle = loop[j].handle
         /\ Lost(j).seen = loop[j].seen /\ Lost(j).net = "lost"
  BY LoopTyped DEF Lost, LoopType

\* A caller moves in its code; the handle of its client may change hands.
Steps(k, from, to) == call[k].pc = from /\ call'[k].pc = to
Hands(i, from, to) ==
  /\ loop[i].handle = from /\ loop'[i].handle = to
  /\ loop'[i].pc = loop[i].pc /\ SameNet(i) /\ loop'[i].seen = loop[i].seen
OthersKeep(i) == \A j \in Loops \ {i} : loop'[j] = loop[j]

CallerEffect(k) ==
  \/ /\ Steps(k, "idle", "lock")
     /\ UNCHANGED <<channel, loop, loops, stopped>>
  \/ /\ \/ Steps(k, "lock", "release")
        \/ Steps(k, "lock", "take") /\ client # 0
        \/ (Steps(k, "lock", "spawn") \/ Steps(k, "lock", "clear")) /\ client = 0
     /\ mutex = NoOne /\ mutex' = k
     /\ UNCHANGED <<client, connected, attempts, loop, loops, stopped>>
  \/ /\ Steps(k, "take", "request")
     /\ client \in Loops => Hands(client, NoOne, k)
     /\ OthersKeep(client) /\ UNCHANGED <<channel, loops, stopped>>
  \/ /\ \/ Steps(k, "request", "release") /\ stopped' = stopped
        \/ Steps(k, "request", "clear") /\ stopped' = stopped \cup {client}
     /\ client \in Loops => Hands(client, loop[client].handle, NoOne)
     /\ OthersKeep(client) /\ UNCHANGED <<channel, loops>>
  \/ /\ Steps(k, "clear", "reset") /\ connected' = FALSE
     /\ UNCHANGED <<mutex, client, attempts, loop, loops, stopped>>
  \/ /\ Steps(k, "reset", "spawn") \/ Steps(k, "reset", "release")
     /\ client' = 0 /\ attempts' = 0
     /\ UNCHANGED <<mutex, connected, loop, loops, stopped>>
  \/ /\ Steps(k, "spawn", "release")
     /\ loops + 1 \in Loops /\ loops' = loops + 1 /\ client' = loops + 1
     /\ loop'[loops + 1] = [NewLoop EXCEPT !.pc = "poll"]
     /\ OthersKeep(loops + 1) /\ UNCHANGED <<mutex, connected, attempts, stopped>>
  \/ /\ Steps(k, "release", "idle") /\ mutex' = NoOne
     /\ UNCHANGED <<client, connected, attempts, loop, loops, stopped>>

LEMMA CallerEffects ==
  ASSUME TypeOK, NEW k \in Callers, Call(k) \/ CallerStep(k)
  PROVE  (\A j \in Callers \ {k} : call'[j] = call[j]) /\ CallerEffect(k)
<1> USE ChannelAssumption DEF Steps, At
<1>0. /\ loop \in [Loops -> LoopType] /\ call \in [Callers -> CallType]
      /\ client \in 0..MaxLoops
  BY DEF TypeOK
<1>1. CASE Call(k)
  <2>1. call[k].pc = "idle"
    BY <1>1 DEF Call, Idle
  <2>2. PICK op \in Operations : call' = [call EXCEPT ![k] = [pc |-> "lock", op |-> op]]
    BY <1>1 DEF Call
  <2>3. UNCHANGED <<channel, loop, loops, stopped>>
    BY <1>1 DEF Call
  <2> QED
    BY <1>0, <2>1, <2>2, <2>3 DEF CallerEffect
<1>2. ASSUME NEW pc, Goto(k, pc), call[k].pc # "idle"
      PROVE  call'[k].pc = pc /\ \A j \in Callers \ {k} : call'[j] = call[j]
  <2>1. call[k] \in CallType /\ call[k] # Idle
    BY <1>0, <1>2 DEF Idle
  <2>2. [call[k] EXCEPT !.pc = pc].pc = pc
    BY <2>1 DEF CallType
  <2> QED
    BY <1>0, <1>2, <2>2 DEF Goto
<1>3. CASE Acquire(k)
  <2>1. call[k] \in CallType /\ call[k] # Idle
    BY <1>0, <1>3 DEF Acquire, Idle
  <2>2. call[k].op \in Operations
    BY <2>1 DEF CallType
  <2>3. \/ FirstStep(call[k].op) = "release"
        \/ FirstStep(call[k].op) = "take" /\ client # 0
        \/ FirstStep(call[k].op) \in {"spawn", "clear"} /\ client = 0
    BY <2>2 DEF FirstStep, Operations
  <2>4. /\ call'[k].pc = FirstStep(call[k].op)
        /\ \A j \in Callers \ {k} : call'[j] = call[j]
    BY <1>2, <1>3 DEF Acquire
  <2>5. /\ mutex = NoOne /\ mutex' = k /\ call[k].pc = "lock"
        /\ UNCHANGED <<client, connected, attempts, loop, loops, stopped>>
    BY <1>3 DEF Acquire
  <2> QED
    BY <2>3, <2>4, <2>5 DEF CallerEffect
<1>4. CASE TakeHandle(k)
  <2>1. call'[k].pc = "request" /\ \A j \in Callers \ {k} : call'[j] = call[j]
    BY <1>2, <1>4 DEF TakeHandle
  <2>2. client \in Loops => Hands(client, NoOne, k)
    BY <1>0, <1>4 DEF TakeHandle, Become, Hands, SameNet, LoopType
  <2>3. OthersKeep(client) /\ UNCHANGED <<channel, loops, stopped>> /\ call[k].pc = "take"
    BY <1>0, <1>4 DEF TakeHandle, Become, OthersKeep
  <2> QED
    BY <2>1, <2>2, <2>3 DEF CallerEffect
<1>5. CASE Request(k)
  <2>1. /\ \/ call'[k].pc = "release" /\ stopped' = stopped
           \/ call'[k].pc = "clear" /\ stopped' = stopped \cup {client}
        /\ \A j \in Callers \ {k} : call'[j] = call[j]
    BY <1>2, <1>5 DEF Request
  <2>2. client \in Loops => Hands(client, loop[client].handle, NoOne)
    <3> SUFFICES ASSUME client \in Loops PROVE Hands(client, loop[client].handle, NoOne)
      OBVIOUS
    <3>1. PICK queue :
            \/ loop'[client] = [loop[client] EXCEPT !.queue = queue, !.handle = NoOne]
            \/ loop'[client] = [loop[client] EXCEPT !.handle = NoOne]
      BY <1>0, <1>5 DEF Request, Become
    <3>2. loop[client] \in LoopType
      BY <1>0
    <3> QED
      BY <3>1, <3>2 DEF Hands, SameNet, LoopType
  <2>3. OthersKeep(client) /\ UNCHANGED <<channel, loops>> /\ call[k].pc = "request"
    BY <1>0, <1>5 DEF Request, Become, OthersKeep
  <2> QED
    BY <2>1, <2>2, <2>3 DEF CallerEffect
<1>6. CASE ClearFlag(k)
  BY <1>2, <1>6 DEF ClearFlag, CallerEffect
<1>7. CASE ResetClient(k)
  BY <1>2, <1>7 DEF ResetClient, CallerEffect
<1>8. CASE Spawn(k)
  <2>1. call'[k].pc = "release" /\ \A j \in Callers \ {k} : call'[j] = call[j]
    BY <1>2, <1>8 DEF Spawn
  <2>2. loops + 1 \in Loops
    BY <1>8 DEF Spawn, TypeOK, Loops
  <2>3. /\ loop'[loops + 1] = [NewLoop EXCEPT !.pc = "poll"]
        /\ OthersKeep(loops + 1)
    BY <1>0, <1>8, <2>2 DEF Spawn, Become, OthersKeep
  <2>4. /\ loops' = loops + 1 /\ client' = loops + 1 /\ call[k].pc = "spawn"
        /\ UNCHANGED <<mutex, connected, attempts, stopped>>
    BY <1>8 DEF Spawn
  <2> QED
    BY <2>1, <2>2, <2>3, <2>4 DEF CallerEffect
<1>9. CASE Release(k)
  <2>1. call'[k].pc = "idle" /\ \A j \in Callers \ {k} : call'[j] = call[j]
    BY <1>0, <1>9 DEF Release, Idle
  <2> QED
    BY <1>9, <2>1 DEF Release, CallerEffect
<1> QED
  BY <1>1, <1>3, <1>4, <1>5, <1>6, <1>7, <1>8, <1>9 DEF CallerStep

-----------------------------------------------------------------------------
(* The counter.                                                            *)

\* However the loops and the callers interleave their reads and writes, the
\* counter stays within MAX_RECONNECT_ATTEMPTS.
THEOREM Attempts == Spec => []AttemptsBounded
<1> USE ChannelAssumption
<1>1. Init => AttemptsBounded
  BY DEF Init, AttemptsBounded, AtLoop, NewLoop
<1>2. TypeOK /\ AttemptsBounded /\ [Next]_vars => AttemptsBounded'
  <2> SUFFICES ASSUME TypeOK, AttemptsBounded, [Next]_vars PROVE AttemptsBounded'
    OBVIOUS
  <2>0. attempts \in Nat /\ \A i \in Loops : loop[i].seen \in Nat
    BY DEF TypeOK, LoopType
  <2>1. ASSUME NEW k \in Callers, Call(k) \/ CallerStep(k)
        PROVE  AttemptsBounded'
    <3>1. attempts' \in {attempts, 0}
      BY <2>1, CallerEffects DEF CallerEffect, channel
    <3>2. ASSUME NEW j \in Loops, loop'[j].pc = "write"
          PROVE  loop[j].pc = "write" /\ loop'[j].seen = loop[j].seen
      <4>1. [NewLoop EXCEPT !.pc = "poll"].pc # "write"
        BY DEF NewLoop
      <4> QED
        BY <2>1, <3>2, <4>1, CallerEffects DEF CallerEffect, Hands, OthersKeep
    <3> QED
      BY <2>0, <3>1, <3>2 DEF AttemptsBounded, AtLoop
  <2>2. ASSUME NEW i \in Loops, LoopStep(i)
        PROVE  AttemptsBounded'
    <3>1. \A j \in Loops \ {i} : loop'[j].pc = loop[j].pc /\ loop'[j].seen = loop[j].seen
      BY <2>2, LoopEffects, LostFields DEF Untouched
    <3>2. /\ attempts' \in {attempts, 0} \/ (loop[i].pc = "write" /\ attempts' = loop[i].seen + 1)
          /\ loop'[i].pc = "write" => loop'[i].seen < MaxAttempts
      BY <2>2, LoopEffects DEF LoopEffect, Moves
    <3> QED
      BY <2>0, <3>1, <3>2 DEF AttemptsBounded, AtLoop
  <2>3. ASSUME Faulty
        PROVE  AttemptsBounded'
    BY <2>3, FaultEffects, LostFields DEF AttemptsBounded, AtLoop
  <2>4. CASE UNCHANGED vars
    BY <2>4 DEF vars, AttemptsBounded, AtLoop
  <2> QED
    BY <2>1, <2>2, <2>3, <2>4 DEF Next, Faulty
<1> QED
  BY Typing, <1>1, <1>2, PTL DEF Spec

-----------------------------------------------------------------------------
(* The locks.                                                              *)

\* LockDiscipline alone does not say that a caller that is about to take a
\* handle, or has it, has a client to take it from.
LockIInv ==
  /\ LockDiscipline
  /\ \A k \in Callers : call[k].pc \in {"take", "request"} => client \in Loops

LEMMA CallerKeepsLocks ==
  ASSUME TypeOK, LockIInv, NEW k \in Callers, Call(k) \/ CallerStep(k)
  PROVE  LockIInv'
<1> USE ChannelAssumption DEF LockIInv, LockDiscipline, At, AtLoop
<1>0. /\ mutex \in Callers \cup {NoOne} /\ client \in 0..MaxLoops /\ loops \in 0..MaxLoops
      /\ \A j \in Callers \ {k} : call'[j] = call[j]
  BY CallerEffects DEF TypeOK
<1>1. CASE Steps(k, "idle", "lock") /\ UNCHANGED <<channel, loop, loops, stopped>>
  BY <1>0, <1>1 DEF Steps, channel
<1>2. CASE /\ \/ Steps(k, "lock", "release")
              \/ Steps(k, "lock", "take") /\ client # 0
              \/ (Steps(k, "lock", "spawn") \/ Steps(k, "lock", "clear")) /\ client = 0
           /\ mutex = NoOne /\ mutex' = k
           /\ UNCHANGED <<client, connected, attempts, loop, loops, stopped>>
  BY <1>0, <1>2 DEF Steps, Loops
<1>3. CASE /\ Steps(k, "take", "request")
           /\ client \in Loops => Hands(client, NoOne, k)
           /\ OthersKeep(client) /\ UNCHANGED <<channel, loops, stopped>>
  BY <1>0, <1>3 DEF Steps, Hands, OthersKeep, channel
<1>4. CASE /\ Steps(k, "request", "release") \/ Steps(k, "request", "clear")
           /\ client \in Loops => Hands(client, loop[client].handle, NoOne)
           /\ OthersKeep(client) /\ UNCHANGED <<channel, loops>>
  BY <1>0, <1>4 DEF Steps, Hands, OthersKeep, channel
<1>5. CASE /\ \/ Steps(k, "clear", "reset") /\ client' = client
              \/ Steps(k, "reset", "spawn") /\ client' = 0
              \/ Steps(k, "reset", "release") /\ client' = 0
           /\ UNCHANGED <<mutex, loop>>
  BY <1>0, <1>5 DEF Steps, Loops
<1>6. CASE /\ Steps(k, "spawn", "release")
           /\ loops + 1 \in Loops /\ client' = loops + 1
           /\ loop'[loops + 1] = [NewLoop EXCEPT !.pc = "poll"]
           /\ OthersKeep(loops + 1) /\ UNCHANGED mutex
  <2>1. loop'[loops + 1].pc = "poll" /\ loop'[loops + 1].handle = NoOne
    BY <1>6 DEF NewLoop
  <2>2. \A j \in Callers : call[j].pc # "request" /\ call'[j].pc \notin {"take", "request"}
    BY <1>0, <1>6 DEF Steps
  <2>3. ASSUME NEW i \in Loops
        PROVE  /\ \A j \in Callers : loop'[i].handle # j
               /\ loop'[i].handle = "loop" <=> loop'[i].pc = "subscribe"
    <3>1. CASE i = loops + 1
      BY <2>1, <3>1
    <3>2. CASE i # loops + 1
      <4>1. loop'[i] = loop[i]
        BY <1>6, <3>2 DEF OthersKeep
      <4> QED
        BY <2>2, <4>1
    <3> QED
      BY <3>1, <3>2
  <2> QED
    BY <1>0, <1>6, <2>2, <2>3 DEF Steps
<1>7. CASE /\ Steps(k, "release", "idle") /\ mutex' = NoOne
           /\ UNCHANGED <<client, connected, attempts, loop, loops, stopped>>
  BY <1>0, <1>7 DEF Steps
<1>8. CallerEffect(k)
  BY CallerEffects
<1> HIDE DEF LockIInv
<1> QED
  BY <1>1, <1>2, <1>3, <1>4, <1>5, <1>6, <1>7, <1>8 DEF CallerEffect

LEMMA LoopKeepsLocks ==
  ASSUME TypeOK, LockIInv, NEW i \in Loops, LoopStep(i)
  PROVE  LockIInv'
<1> USE ChannelAssumption DEF LockIInv, LockDiscipline, At, AtLoop
<1>1. \A j \in Loops \ {i} : loop'[j].pc = loop[j].pc /\ loop'[j].handle = loop[j].handle
  BY LoopEffects, LostFields DEF Untouched
<1>2. UNCHANGED <<mutex, client, call>>
  BY DEF LoopStep, ConnAck, ResetAttempts, TakeOwnHandle, Subscribe, SendRequest, PollError,
         ReadAttempts, WriteAttempts, Wake, callerState
<1>3. /\ loop'[i].handle = "loop" <=> loop'[i].pc = "subscribe"
      /\ \A k \in Callers : loop'[i].handle = k <=> loop[i].handle = k
  <2>1. loop[i].handle = "loop" <=> loop[i].pc = "subscribe"
    OBVIOUS
  <2>2. \/ SameHandle(i) /\ (loop[i].pc = "subscribe" <=> loop'[i].pc = "subscribe")
        \/ loop[i].handle = NoOne /\ loop'[i].handle = "loop" /\ loop'[i].pc = "subscribe"
        \/ loop[i].pc = "subscribe" /\ loop'[i].handle = NoOne /\ loop'[i].pc = "poll"
    BY LoopEffects DEF LoopEffect, Moves
  <2> QED
    BY <2>1, <2>2 DEF SameHandle
<1> QED
  BY <1>1, <1>2, <1>3

LEMMA LockInvariant == Spec => []LockIInv
<1>1. Init => LockIInv
  BY ChannelAssumption DEF Init, LockIInv, LockDiscipline, At, AtLoop, Idle, NewLoop
<1>2. TypeOK /\ LockIInv /\ [Next]_vars => LockIInv'
  <2> SUFFICES ASSUME TypeOK, LockIInv, [Next]_vars PROVE LockIInv'
    OBVIOUS
  <2>1. CASE Faulty
    BY <2>1, FaultEffects, LostFields DEF LockIInv, LockDiscipline, At, AtLoop, callerState
  <2>2. CASE UNCHANGED vars
    BY <2>2 DEF vars, LockIInv, LockDiscipline, At, AtLoop
  <2> QED
    BY <2>1, <2>2, CallerKeepsLocks, LoopKeepsLocks DEF Next, Faulty
<1> QED
  BY Typing, <1>1, <1>2, PTL DEF Spec

\* Only the holder of the channel is inside it, and only it has the handle of
\* the present client, in every behaviour.
THEOREM Locks == Spec => []LockDiscipline
<1>1. LockIInv => LockDiscipline
  BY DEF LockIInv
<1> QED
  BY LockInvariant, <1>1, PTL

-----------------------------------------------------------------------------
(* No circle of locks.                                                      *)

\* The mutex is held by a caller that is inside.
HolderInside ==
  mutex # NoOne => mutex \in Callers /\ call[mutex].pc \notin {"idle", "lock"}

\* What the next step of a caller waits for: the mutex, the handle of the present
\* event loop, or room in its queue.
Full(i) == loop[i].pc # "ended" /\ Len(loop[i].queue) >= Cap
Waits(k) ==
  \/ At(k, "lock") /\ mutex # NoOne
  \/ At(k, "take") /\ loop[client].handle # NoOne
  \/ At(k, "request") /\ Full(client)

\* As long as the queue of the present event loop has room, whoever is under way
\* can go on, or what it waits for is in the hands of somebody who can.
OnlyRoomIsMissing ==
  (client \in Loops => ~Full(client)) =>
    /\ \A k \in Callers : call[k] # Idle =>
         \/ \E m \in Callers : call[m] # Idle /\ ~Waits(m)
         \/ client \in Loops /\ AtLoop(client, "subscribe")
    /\ \A i \in Loops : AtLoop(i, "take") =>
         \/ loop[i].handle = NoOne
         \/ loop[i].handle \in Callers /\ ~Waits(loop[i].handle)

LEMMA HolderStep ==
  ASSUME TypeOK, LockIInv, HolderInside, [Next]_vars
  PROVE  HolderInside'
<1> USE DEF HolderInside
<1>1. ASSUME NEW k \in Callers, Call(k) \/ CallerStep(k) PROVE HolderInside'
  <2>1. (\A j \in Callers \ {k} : call'[j] = call[j]) /\ CallerEffect(k)
    BY <1>1, CallerEffects
  <2>2. CASE Steps(k, "idle", "lock") /\ mutex' = mutex
    BY <2>1, <2>2 DEF Steps
  <2>3. CASE mutex' = k /\ call'[k].pc \notin {"idle", "lock"}
    BY <2>3
  <2>4. CASE mutex' = mutex /\ call'[k].pc \notin {"idle", "lock"}
    BY <2>1, <2>4
  <2>5. CASE mutex' = NoOne
    BY <2>5
  <2> QED
    BY <2>1, <2>2, <2>3, <2>4, <2>5 DEF CallerEffect, Steps, channel
<1>2. ASSUME UNCHANGED <<mutex, call>> PROVE HolderInside'
  BY <1>2
<1>3. ASSUME NEW i \in Loops, LoopStep(i) PROVE UNCHANGED <<mutex, call>>
  BY <1>3 DEF LoopStep, ConnAck, ResetAttempts, TakeOwnHandle, Subscribe, SendRequest, PollError,
              ReadAttempts, WriteAttempts, Wake, callerState
<1>4. ASSUME Faulty \/ UNCHANGED vars PROVE UNCHANGED <<mutex, call>>
  BY <1>4 DEF Faulty, SessionLost, ServerDisconnect, BrokerDown, BrokerUp, callerState, vars
<1> QED
  BY <1>1, <1>2, <1>3, <1>4 DEF Next, Faulty

LEMMA HolderInvariant == Spec => []HolderInside
<1>1. Init => HolderInside
  BY DEF Init, HolderInside
<1>2. TypeOK /\ LockIInv /\ HolderInside /\ [Next]_vars => HolderInside'
  BY HolderStep
<1> QED
  BY <1>1, <1>2, Typing, LockInvariant, PTL DEF Spec

\* The mutex, the handles and the queue are never waited for in a circle: callers
\* and event loops can only all wait if the queue of the present event loop is
\* full (which mqtt_full shows to happen).
THEOREM NoLockCycle == Spec => []OnlyRoomIsMissing
<1>1. ASSUME TypeOK, LockIInv, HolderInside PROVE OnlyRoomIsMissing
  <2> SUFFICES ASSUME client \in Loops => ~Full(client) PROVE
        /\ \A k \in Callers : call[k] # Idle =>
             \/ \E m \in Callers : call[m] # Idle /\ ~Waits(m)
             \/ client \in Loops /\ AtLoop(client, "subscribe")
        /\ \A i \in Loops : AtLoop(i, "take") =>
             \/ loop[i].handle = NoOne
             \/ loop[i].handle \in Callers /\ ~Waits(loop[i].handle)
    BY DEF OnlyRoomIsMissing
  <2>1. ASSUME NEW m \in Callers, mutex = m, call[m].pc \notin {"idle", "lock"}
        PROVE  ~Waits(m) \/ (client \in Loops /\ AtLoop(client, "subscribe"))
    <3>1. CASE At(m, "take")
      <4>1. client \in Loops
        BY <1>1, <3>1 DEF LockIInv, At
      <4>2. loop[client].handle \in Callers \cup {NoOne, "loop"}
        BY <1>1, <4>1 DEF TypeOK, LoopType
      <4>3. loop[client].handle \notin Callers
        <5> SUFFICES ASSUME NEW j \in Callers, loop[client].handle = j PROVE FALSE
          OBVIOUS
        <5>1. At(j, "request")
          BY <1>1, <4>1 DEF LockIInv, LockDiscipline
        <5>2. mutex = j
          BY <1>1, <5>1 DEF LockIInv, LockDiscipline, At
        <5> QED
          BY <2>1, <3>1, <5>1, <5>2 DEF At
      <4>4. loop[client].handle = "loop" => AtLoop(client, "subscribe")
        BY <1>1, <4>1 DEF LockIInv, LockDiscipline
      <4> QED
        BY <3>1, <4>1, <4>2, <4>3, <4>4 DEF Waits, At
    <3>2. CASE At(m, "request")
      <4>1. client \in Loops
        BY <1>1, <3>2 DEF LockIInv, At
      <4> QED
        BY <3>2, <4>1 DEF Waits, At
    <3>3. CASE ~At(m, "take") /\ ~At(m, "request")
      BY <2>1, <3>3 DEF Waits, At
    <3> QED
      BY <3>1, <3>2, <3>3
  <2>2. ASSUME NEW k \in Callers, call[k] # Idle
        PROVE  \/ \E m \in Callers : call[m] # Idle /\ ~Waits(m)
               \/ client \in Loops /\ AtLoop(client, "subscribe")
    <3>1. CASE mutex = NoOne
      <4>1. call[k].pc \in {"idle", "lock"}
        BY <1>1, <3>1, ChannelAssumption DEF LockIInv, LockDiscipline
      <4>2. ~Waits(k)
        BY <3>1, <4>1 DEF Waits, At
      <4> QED
        BY <2>2, <4>2
    <3>2. CASE mutex # NoOne
      <4>1. PICK m \in Callers : mutex = m /\ call[m].pc \notin {"idle", "lock"}
        BY <1>1, <3>2 DEF HolderInside
      <4>2. call[m] # Idle
        BY <4>1 DEF Idle
      <4> QED
        BY <2>1, <4>1, <4>2
    <3> QED
      BY <3>1, <3>2
  <2>3. ASSUME NEW i \in Loops, AtLoop(i, "take"), loop[i].handle # NoOne
        PROVE  loop[i].handle \in Callers /\ ~Waits(loop[i].handle)
    <3>1. loop[i].handle \in Callers
      <4>1. loop[i].handle \in Callers \cup {NoOne, "loop"}
        BY <1>1 DEF TypeOK, LoopType
      <4>2. loop[i].handle # "loop"
        BY <1>1, <2>3 DEF LockIInv, LockDiscipline, AtLoop
      <4> QED
        BY <2>3, <4>1, <4>2
    <3>2. PICK m \in Callers : m = loop[i].handle
      BY <3>1
    <3>3. At(m, "request") /\ client = i
      BY <1>1, <3>2 DEF LockIInv, LockDiscipline
    <3>4. ~Waits(m)
      BY <3>3 DEF Waits, At
    <3> QED
      BY <3>2, <3>4
  <2> QED
    BY <2>2, <2>3
<1> QED
  BY <1>1, Typing, LockInvariant, HolderInvariant, PTL

-----------------------------------------------------------------------------
(* The flag.                                                               *)

\* Until a second event loop starts or somebody asks the first to stop, no
\* caller writes the flag, and it follows the session through the loop's code.
Undisturbed == loops = 1 /\ stopped = {}

FlagFollows ==
  /\ loop[1].pc \in {"reset", "take", "subscribe"} => connected /\ loop[1].net # "down"
  /\ loop[1].pc = "poll" /\ loop[1].net = "up" => connected
  /\ loop[1].pc = "poll" /\ loop[1].net = "down" => ~connected
  /\ loop[1].pc \in {"read", "write", "sleep", "ended"} => ~connected /\ loop[1].net = "down"

Quiet ==
  /\ client = loops
  /\ \A k \in Callers : call[k].pc \notin {"clear", "reset", "spawn"}

FlagIInv ==
  /\ \A i \in Loops : i > loops => loop[i].pc = "none" /\ loop[i].net = "down"
  /\ loops = 0 => ~connected /\ client = 0
  /\ loops > 0 /\ stopped = {} => Quiet
  /\ Undisturbed => FlagFollows

LEMMA CallerKeepsFlag ==
  ASSUME TypeOK, LockIInv, FlagIInv, NEW k \in Callers, Call(k) \/ CallerStep(k)
  PROVE  FlagIInv'
<1> USE ChannelAssumption
<1>0. /\ client \in 0..MaxLoops /\ loops \in 0..MaxLoops /\ stopped \subseteq 0..MaxLoops
      /\ \A j \in Callers \ {k} : call'[j] = call[j]
      /\ CallerEffect(k)
  BY CallerEffects DEF TypeOK
<1>1. call[k].pc \notin {"idle", "lock"} =>
        \A j \in Callers \ {k} : call[j].pc \in {"idle", "lock"}
  BY DEF LockIInv, LockDiscipline
<1>2. CASE Steps(k, "spawn", "release")
  <2>1. /\ loops + 1 \in Loops /\ loops' = loops + 1 /\ client' = loops + 1
        /\ loop'[loops + 1] = [NewLoop EXCEPT !.pc = "poll"]
        /\ OthersKeep(loops + 1) /\ UNCHANGED <<mutex, connected, attempts, stopped>>
    BY <1>0, <1>2 DEF CallerEffect, Steps
  <2>2. loop'[loops + 1].pc = "poll" /\ loop'[loops + 1].net = "down"
    BY <2>1 DEF NewLoop
  <2>3. \A i \in Loops : i > loops' => loop'[i].pc = "none" /\ loop'[i].net = "down"
    BY <1>0, <2>1 DEF FlagIInv, OthersKeep, Loops
  <2>4. loops' > 0 /\ stopped' = {} => Quiet'
    BY <1>0, <1>1, <1>2, <2>1 DEF Steps, Quiet
  <2>5. Undisturbed' => FlagFollows'
    <3> SUFFICES ASSUME loops' = 1 PROVE FlagFollows'
      BY DEF Undisturbed
    <3>1. loops = 0
      BY <1>0, <2>1
    <3>2. connected' = connected /\ ~connected
      BY <2>1, <3>1 DEF FlagIInv
    <3>3. loop'[1].pc = "poll" /\ loop'[1].net = "down"
      BY <2>2, <3>1
    <3> QED
      BY <3>2, <3>3 DEF FlagFollows
  <2> QED
    BY <1>0, <2>1, <2>3, <2>4, <2>5 DEF FlagIInv
<1>3. CASE ~Steps(k, "spawn", "release")
  <2>1. loops' = loops /\ \A i \in Loops : loop'[i].pc = loop[i].pc /\ loop'[i].net = loop[i].net
    BY <1>0, <1>3 DEF CallerEffect, Hands, SameNet, OthersKeep
  <2>2. stopped \subseteq stopped'
    BY <1>0 DEF CallerEffect
  <2>3. /\ \/ connected' = connected
           \/ call[k].pc = "clear" /\ connected' = FALSE
        /\ \/ client' = client
           \/ call[k].pc = "reset" /\ client' = 0
    BY <1>0, <1>3 DEF CallerEffect, channel, Steps
  <2>4. loops > 0 /\ stopped' = {} =>
          call[k].pc # "clear" /\ call[k].pc # "reset" /\ Quiet'
    BY <1>0, <2>1, <2>2, <2>3 DEF FlagIInv, Quiet, CallerEffect, Steps, Loops
  <2>5. loops = 0 => ~connected' /\ client' = 0
    BY <2>3 DEF FlagIInv
  <2>6. Undisturbed' => FlagFollows'
    <3> SUFFICES ASSUME Undisturbed' PROVE FlagFollows'
      OBVIOUS
    <3>1. Undisturbed /\ connected' = connected /\ 1 \in Loops
      BY <1>0, <2>1, <2>2, <2>3, <2>4 DEF Undisturbed, Loops
    <3> QED
      BY <2>1, <3>1 DEF FlagIInv, FlagFollows
  <2> QED
    BY <2>1, <2>4, <2>5, <2>6 DEF FlagIInv
<1> QED
  BY <1>2, <1>3

LEMMA LoopKeepsFlag ==
  ASSUME TypeOK, FlagIInv, NEW i \in Loops, LoopStep(i)
  PROVE  FlagIInv'
<1>0. Untouched(i) /\ LoopEffect(i) /\ connected \in BOOLEAN
  BY LoopEffects DEF TypeOK
<1>1. UNCHANGED <<client, loops, call, stopped>>
  BY DEF LoopStep, ConnAck, ResetAttempts, TakeOwnHandle, Subscribe, SendRequest, PollError,
         ReadAttempts, WriteAttempts, Wake, callerState
<1>2. i <= loops /\ loops \in Nat
  BY <1>0 DEF FlagIInv, LoopEffect, Moves, Loops, TypeOK
<1>3. \A j \in Loops : j > loops => loop'[j].pc = "none" /\ loop'[j].net = "down"
  BY <1>0, <1>2 DEF Untouched, FlagIInv, Loops
<1>4. Undisturbed => FlagFollows'
  <2> SUFFICES ASSUME Undisturbed PROVE FlagFollows'
    OBVIOUS
  <2>1. i = 1 /\ FlagFollows
    BY <1>2 DEF Undisturbed, FlagIInv, Loops
  <2> QED
    BY <1>0, <2>1 DEF LoopEffect, Moves, SameNet, FlagFollows
<1>5. loops # 0
  BY <1>2 DEF Loops
<1> QED
  BY <1>1, <1>3, <1>4, <1>5 DEF FlagIInv, Undisturbed, Quiet

\* The flag, in every behaviour.
THEOREM Flag == Spec => []FlagTracksSession
<1> USE ChannelAssumption
<1>1. Init => FlagIInv
  BY DEF Init, FlagIInv, Undisturbed, NewLoop
<1>2. TypeOK /\ LockIInv /\ FlagIInv /\ [Next]_vars => FlagIInv'
  <2> SUFFICES ASSUME TypeOK, LockIInv, FlagIInv, [Next]_vars PROVE FlagIInv'
    OBVIOUS
  <2>1. CASE Faulty
    <3>1. UNCHANGED <<client, loops, call, stopped>>
      BY <2>1, FaultEffects DEF callerState
    <3>2. \A j \in Loops : /\ loop'[j].pc = loop[j].pc
                          /\ \/ loop'[j].net = loop[j].net
                             \/ loop[j].net = "up" /\ loop'[j].net = "lost"
      BY <2>1, FaultEffects, LostFields
    <3>3. \A j \in Loops : j > loops => loop'[j].pc = "none" /\ loop'[j].net = "down"
      BY <3>2 DEF FlagIInv
    <3>4. CASE connected' = connected
      <4>1. ASSUME Undisturbed' PROVE FlagFollows'
        <5>1. 1 \in Loops /\ FlagFollows
          BY <3>1, <4>1 DEF FlagIInv, Undisturbed, TypeOK, Loops
        <5> QED
          BY <3>2, <3>4, <5>1 DEF FlagFollows
      <4>2. (loops = 0 => ~connected /\ client = 0)'
        BY <3>1, <3>4 DEF FlagIInv
      <4>3. (loops > 0 /\ stopped = {} => Quiet)'
        BY <3>1 DEF FlagIInv, Quiet
      <4> QED
        BY <3>1, <3>3, <4>1, <4>2, <4>3 DEF FlagIInv
    <3>5. CASE connected' # connected
      <4>1. PICK j \in Loops : /\ loop[j].pc = "poll" /\ loop[j].net = "up"
                               /\ loop'[j] = Lost(j) /\ connected' = FALSE
        BY <2>1, <3>5, FaultEffects
      <4>2. loop'[j].pc = "poll" /\ loop'[j].net = "lost"
        BY <4>1, LostFields
      <4>3. j <= loops /\ loops # 0
        BY <4>1 DEF FlagIInv, TypeOK, Loops
      <4>4. Undisturbed' => FlagFollows'
        BY <3>1, <4>2, <4>3 DEF Undisturbed, FlagFollows, Loops
      <4> QED
        BY <3>1, <3>3, <4>1, <4>3, <4>4 DEF FlagIInv, Quiet
    <3> QED
      BY <3>4, <3>5
  <2>2. CASE UNCHANGED vars
    BY <2>2 DEF vars, FlagIInv, Undisturbed, FlagFollows, Quiet
  <2> QED
    BY <2>1, <2>2, CallerKeepsFlag, LoopKeepsFlag DEF Next, Faulty
<1>3. FlagIInv => FlagTracksSession
  <2> SUFFICES ASSUME FlagIInv, loops = 1, stopped = {}, AtLoop(1, "poll")
               PROVE  /\ loop[1].net = "up" => connected
                      /\ loop[1].net = "down" => ~connected
    BY DEF FlagTracksSession
  <2>1. FlagFollows
    BY DEF FlagIInv, Undisturbed
  <2> QED
    BY <2>1 DEF FlagFollows, AtLoop
<1> QED
  BY Typing, LockInvariant, <1>1, <1>2, <1>3, PTL DEF Spec

-----------------------------------------------------------------------------
(* Subscriptions.                                                          *)

\* What a loop has subscribed to in this session, or is about to.
Asked(r) == r.subscribed \cup Range(r.queue)

\* A session that is up is asked for every topic when the loop polls, and for
\* those before the next one while it subscribes; after an error there is none.
Covered(r) ==
  /\ r.net = "up" /\ r.pc = "poll" => Range(Topics) \subseteq Asked(r)
  /\ r.net = "up" /\ r.pc = "subscribe" => \A n \in 1..(r.next - 1) : Topics[n] \in Asked(r)
  /\ r.net = "up" => r.pc \in {"poll", "reset", "take", "subscribe"}

TopicsIInv == \A i \in Loops : Covered(loop[i])

LEMMA RangeAppend ==
  ASSUME NEW S, NEW q \in Seq(S), NEW e
  PROVE  Range(Append(q, e)) = Range(q) \cup {e}
<1>1. /\ Len(q) \in Nat /\ DOMAIN q = 1..Len(q)
      /\ DOMAIN Append(q, e) = 1..(Len(q) + 1)
      /\ \A n \in 1..Len(q) : Append(q, e)[n] = q[n]
      /\ Append(q, e)[Len(q) + 1] = e
  OBVIOUS
<1>2. 1..(Len(q) + 1) = 1..Len(q) \cup {Len(q) + 1}
  BY <1>1
<1> QED
  BY <1>1, <1>2, Zenon DEF Range

LEMMA RangeHeadTail ==
  ASSUME NEW S, NEW q \in Seq(S), q # <<>>
  PROVE  Range(q) \subseteq {Head(q)} \cup Range(Tail(q))
<1> SUFFICES ASSUME NEW n \in DOMAIN q PROVE q[n] \in {Head(q)} \cup Range(Tail(q))
  BY DEF Range
<1>1. /\ Len(q) \in Nat /\ n \in 1..Len(q) /\ Head(q) = q[1]
      /\ DOMAIN Tail(q) = 1..(Len(q) - 1)
      /\ \A m \in 1..(Len(q) - 1) : Tail(q)[m] = q[m + 1]
  OBVIOUS
<1>2. CASE n = 1
  BY <1>1, <1>2
<1>3. CASE n # 1
  <2>1. n - 1 \in DOMAIN Tail(q) /\ Tail(q)[n - 1] = q[n]
    BY <1>1, <1>3
  <2> QED
    BY <2>1 DEF Range
<1> QED
  BY <1>2, <1>3

\* A caller adds to a queue, or starts a loop that has no session.
LEMMA CallerKeepsTopics ==
  ASSUME TypeOK, TopicsIInv, NEW k \in Callers, Call(k) \/ CallerStep(k)
  PROVE  TopicsIInv'
<1> SUFFICES ASSUME NEW i \in Loops PROVE Covered(loop'[i])
  BY DEF TopicsIInv
<1>0. /\ loop \in [Loops -> LoopType] /\ loop[i] \in LoopType /\ Covered(loop[i])
      /\ loop[i].queue \in Seq(Requests)
  BY LoopTyped DEF TypeOK, TopicsIInv, LoopType
<1>1. CASE loop'[i] = loop[i]
  BY <1>0, <1>1
<1>2. CASE loop'[i] = [NewLoop EXCEPT !.pc = "poll"]
  BY <1>2 DEF NewLoop, Covered
<1>3. ASSUME NEW holder, loop'[i] = [loop[i] EXCEPT !.handle = holder] PROVE Covered(loop'[i])
  BY <1>0, <1>3 DEF Covered, Asked, LoopType
<1>4. ASSUME NEW request,
             loop'[i] = [loop[i] EXCEPT !.queue = Append(@, request), !.handle = NoOne]
      PROVE  Covered(loop'[i])
  <2>1. Range(loop[i].queue) \subseteq Range(Append(loop[i].queue, request))
    BY <1>0, RangeAppend
  <2>2. /\ loop'[i].queue = Append(loop[i].queue, request)
        /\ loop'[i].pc = loop[i].pc /\ loop'[i].net = loop[i].net
        /\ loop'[i].next = loop[i].next /\ loop'[i].subscribed = loop[i].subscribed
    BY <1>0, <1>4 DEF LoopType
  <2>3. Asked(loop[i]) \subseteq Asked(loop'[i])
    BY <2>1, <2>2 DEF Asked
  <2> QED
    BY <1>0, <2>2, <2>3 DEF Covered
<1>5. CASE TakeHandle(k)
  BY <1>0, <1>1, <1>3, <1>5 DEF TakeHandle, Become
<1>6. CASE Request(k)
  BY <1>0, <1>1, <1>3, <1>4, <1>6 DEF Request, Become
<1>7. CASE Spawn(k)
  BY <1>0, <1>1, <1>2, <1>7 DEF Spawn, Become
<1>8. CASE Call(k) \/ Acquire(k) \/ ClearFlag(k) \/ ResetClient(k) \/ Release(k)
  BY <1>1, <1>8 DEF Call, Acquire, ClearFlag, ResetClient, Release
<1> QED
  BY <1>5, <1>6, <1>7, <1>8 DEF CallerStep

\* A topic that a loop asks for stays asked for, until the session is lost.
LEMMA LoopKeepsTopics ==
  ASSUME TypeOK, TopicsIInv, NEW i \in Loops, LoopStep(i)
  PROVE  TopicsIInv'
<1> USE ChannelAssumption DEF AtLoop
<1>0. /\ loop \in [Loops -> LoopType] /\ loop[i] \in LoopType /\ Covered(loop[i])
      /\ loop[i].queue \in Seq(Requests)
  BY LoopTyped DEF TypeOK, TopicsIInv, LoopType
<1>1. ASSUME NEW j \in Loops, j # i PROVE Covered(loop'[j])
  <2>1. loop'[j] = loop[j] \/ loop'[j] = Lost(j)
    BY <1>1, LoopEffects DEF Untouched
  <2> QED
    BY <2>1, LostFields DEF Covered, TopicsIInv
<1>2. ASSUME NEW r, Become(i, r) PROVE loop'[i] = r
  BY <1>0, <1>2 DEF Become
<1>3. CASE ConnAck(i)
  <2>1. loop'[i] = [loop[i] EXCEPT !.net = "up", !.subscribed = {}, !.pc = "reset"]
    BY <1>3 DEF ConnAck, TakenOver
  <2>2. loop'[i].pc = "reset"
    BY <1>0, <2>1 DEF LoopType
  <2>3. Covered(loop'[i])
    BY <2>2 DEF Covered
  <2> QED
    BY <1>1, <2>3 DEF TopicsIInv
<1>4. CASE ResetAttempts(i)
  <2>1. loop'[i].pc = "take"
    BY <1>0, <1>2, <1>4 DEF ResetAttempts, LoopType
  <2>2. Covered(loop'[i])
    BY <2>1 DEF Covered
  <2> QED
    BY <1>1, <2>2 DEF TopicsIInv
<1>5. CASE TakeOwnHandle(i)
  <2>1. loop'[i].pc = "subscribe" /\ loop'[i].next = 1
    BY <1>0, <1>2, <1>5 DEF TakeOwnHandle, LoopType
  <2>2. Covered(loop'[i])
    BY <2>1 DEF Covered
  <2> QED
    BY <1>1, <2>2 DEF TopicsIInv
<1>6. CASE Subscribe(i)
  <2> DEFINE topic == Topics[loop[i].next]
             queued == [loop[i] EXCEPT !.queue = Append(@, topic)]
  <2>1. loop'[i] = IF loop[i].next < Len(Topics)
                     THEN [queued EXCEPT !.next = @ + 1]
                     ELSE [queued EXCEPT !.handle = NoOne, !.pc = "poll"]
    BY <1>2, <1>6 DEF Subscribe
  <2>2. /\ loop'[i].queue = Append(loop[i].queue, topic)
        /\ loop'[i].net = loop[i].net /\ loop'[i].subscribed = loop[i].subscribed
        /\ loop'[i].next = IF loop[i].next < Len(Topics) THEN loop[i].next + 1 ELSE loop[i].next
        /\ loop'[i].pc = IF loop[i].next < Len(Topics) THEN "subscribe" ELSE "poll"
    BY <1>0, <1>6, <2>1 DEF Subscribe, LoopType
  <2>3. Asked(loop'[i]) = Asked(loop[i]) \cup {topic}
    BY <1>0, <2>2, RangeAppend DEF Asked
  <2>4. loop[i].next \in 1..Len(Topics) /\ Len(Topics) \in Nat /\ loop[i].pc = "subscribe"
    BY <1>0, <1>6 DEF LoopType, Subscribe
  <2>5. loop[i].net = "up" => \A n \in 1..loop[i].next : Topics[n] \in Asked(loop'[i])
    <3> HIDE DEF topic
    <3> SUFFICES ASSUME loop[i].net = "up", NEW n \in 1..loop[i].next
                 PROVE  Topics[n] \in Asked(loop'[i])
      OBVIOUS
    <3>1. CASE n = loop[i].next
      BY <2>3, <3>1 DEF topic
    <3>2. CASE n # loop[i].next
      <4>1. n \in 1..(loop[i].next - 1)
        BY <2>4, <3>2
      <4> QED
        BY <1>0, <2>3, <2>4, <4>1 DEF Covered
    <3> QED
      BY <3>1, <3>2
  <2>6. CASE loop[i].next < Len(Topics)
    <3>1. loop'[i].pc = "subscribe" /\ loop'[i].next - 1 = loop[i].next
      BY <2>2, <2>4, <2>6
    <3>2. Covered(loop'[i])
      BY <2>2, <2>5, <3>1 DEF Covered
    <3> QED
      BY <1>1, <3>2 DEF TopicsIInv
  <2>7. CASE ~(loop[i].next < Len(Topics))
    <3>1. loop'[i].pc = "poll" /\ DOMAIN Topics = 1..loop[i].next
      BY <2>2, <2>4, <2>7
    <3>2. loop[i].net = "up" => Range(Topics) \subseteq Asked(loop'[i])
      BY <2>5, <3>1 DEF Range
    <3>3. Covered(loop'[i])
      BY <2>2, <3>1, <3>2 DEF Covered
    <3> QED
      BY <1>1, <3>3 DEF TopicsIInv
  <2> QED
    BY <2>6, <2>7
<1>7. CASE SendRequest(i)
  <2> DEFINE request == Head(loop[i].queue)
             sent == [loop[i] EXCEPT !.queue = Tail(@)]
  <2>1. loop[i].queue # <<>> /\ loop[i].pc = "poll" /\ loop[i].net = "up"
    BY <1>7 DEF SendRequest
  <2>2. Range(loop[i].queue) \subseteq {request} \cup Range(Tail(loop[i].queue))
    BY <1>0, <2>1, RangeHeadTail
  <2>3. loop'[i] = CASE request = "disconnect"    -> [sent EXCEPT !.net = "lost"]
                     [] request \in Range(Topics) -> [sent EXCEPT !.subscribed = @ \cup {request}]
                     [] OTHER                     -> sent
    BY <1>2, <1>7 DEF SendRequest
  <2>4. CASE request = "disconnect"
    <3>1. loop'[i] = [sent EXCEPT !.net = "lost"]
      BY <2>3, <2>4
    <3>2. loop'[i].net = "lost"
      BY <1>0, <3>1 DEF LoopType
    <3>3. Covered(loop'[i])
      BY <3>2 DEF Covered
    <3> QED
      BY <1>1, <3>3 DEF TopicsIInv
  <2>5. CASE request # "disconnect"
    <3>1. /\ loop'[i].pc = "poll" /\ loop'[i].queue = Tail(loop[i].queue)
          /\ loop[i].subscribed \subseteq loop'[i].subscribed
          /\ request \in Range(Topics) => request \in loop'[i].subscribed
      <4>1. CASE request \in Range(Topics)
        <5>1. loop'[i] = [sent EXCEPT !.subscribed = @ \cup {request}]
          BY <2>3, <2>5, <4>1
        <5> QED
          BY <1>0, <2>1, <5>1 DEF LoopType
      <4>2. CASE request \notin Range(Topics)
        <5>1. loop'[i] = sent
          BY <2>3, <2>5, <4>2
        <5> QED
          BY <1>0, <2>1, <4>2, <5>1 DEF LoopType
      <4> QED
        BY <4>1, <4>2
    <3>2. Range(Topics) \subseteq Asked(loop'[i])
      BY <1>0, <2>1, <2>2, <3>1 DEF Covered, Asked
    <3>3. Covered(loop'[i])
      BY <3>1, <3>2 DEF Covered
    <3> QED
      BY <1>1, <3>3 DEF TopicsIInv
  <2> QED
    BY <2>4, <2>5
<1>8. CASE PollError(i) \/ ReadAttempts(i) \/ WriteAttempts(i) \/ Wake(i)
  <2>1. loop'[i].net # "up"
    <3>1. CASE PollError(i)
      <4>1. \/ \E kept : loop'[i] = [loop[i] EXCEPT !.net = "down", !.queue = kept, !.pc = "read"]
            \/ loop[i].net = "down" /\ loop'[i] = [loop[i] EXCEPT !.pc = "read"]
        BY <1>2, <3>1 DEF PollError
      <4> QED
        BY <1>0, <4>1 DEF LoopType
    <3>2. CASE ReadAttempts(i) \/ WriteAttempts(i) \/ Wake(i)
      <4>1. loop[i].net # "up" /\ SameNet(i)
        BY <1>0, <1>2, <3>2 DEF ReadAttempts, WriteAttempts, Wake, Covered, SameNet, LoopType
      <4> QED
        BY <4>1 DEF SameNet
    <3> QED
      BY <1>8, <3>1, <3>2
  <2>2. Covered(loop'[i])
    BY <2>1 DEF Covered
  <2> QED
    BY <1>1, <2>2 DEF TopicsIInv
<1> QED
  BY <1>3, <1>4, <1>5, <1>6, <1>7, <1>8 DEF LoopStep

\* However sessions are lost and opened, a loop that polls on a live session has
\* asked for every topic in this session, for any topics and any queue capacity.
THEOREM Subscriptions == Spec => []SessionSubscribed
<1>1. Init => TopicsIInv
  BY DEF Init, TopicsIInv, Covered, NewLoop
<1>2. TypeOK /\ TopicsIInv /\ [Next]_vars => TopicsIInv'
  <2> SUFFICES ASSUME TypeOK, TopicsIInv, [Next]_vars PROVE TopicsIInv'
    OBVIOUS
  <2>1. CASE Faulty
    <3>1. \A j \in Loops : loop'[j] = loop[j] \/ loop'[j] = Lost(j)
      BY <2>1, FaultEffects
    <3> QED
      BY <3>1, LostFields DEF TopicsIInv, Covered
  <2>2. CASE UNCHANGED vars
    BY <2>2 DEF vars, TopicsIInv
  <2> QED
    BY <2>1, <2>2, CallerKeepsTopics, LoopKeepsTopics DEF Next, Faulty
<1>3. TopicsIInv => SessionSubscribed
  BY DEF TopicsIInv, Covered, SessionSubscribed, AtLoop, Asked
<1> QED
  BY Typing, <1>1, <1>2, <1>3, PTL DEF Spec

-----------------------------------------------------------------------------
(* The reports of the loops, and what the pages show.                      *)

\* A step of a loop that reports is a step of the loop.
LEMMA ReportSteps ==
  ASSUME NEW i \in Loops, Work(i)
  PROVE  LoopStep(i) \/ ServerDisconnect(i)
BY DEF Work, Report, LoopStep

LEMMA StatusStep == [StatusNext]_statusVars => [Next]_vars
<1> SUFFICES ASSUME [StatusNext]_statusVars PROVE [Next]_vars
  OBVIOUS
<1>1. ASSUME NEW i \in Loops, Work(i) PROVE Next
  BY <1>1, ReportSteps DEF Next
<1>2. ASSUME NEW i \in Loops, SendReport(i) PROVE UNCHANGED vars
  BY <1>2 DEF SendReport
<1>3. CASE Emit
  BY <1>3 DEF Emit
<1>4. CASE Environment
  BY <1>4 DEF Environment, Next
<1>5. CASE UNCHANGED statusVars
  BY <1>5 DEF statusVars
<1> QED
  BY <1>1, <1>2, <1>3, <1>4, <1>5 DEF StatusNext

\* Reporting does not change what the channel does: the reporting loops
\* implement the channel's specification, and what is proved of it holds.
THEOREM ReportingKeepsChannel == StatusSpec => Spec
<1>1. StatusInit => Init
  BY DEF StatusInit
<1> QED
  BY <1>1, StatusStep, PTL DEF StatusSpec, Spec

Words == {"Connected", "Disconnected", "Error"}

ErrorsAfter(queue, n) == \A m \in 1..Len(queue) : m > n => queue[m] = "Error"

\* The last word of queue that is not an error, or else flag, is that there is
\* a session.
UpLast(queue, flag) ==
  \/ flag /\ ErrorsAfter(queue, 0)
  \/ \E n \in 1..Len(queue) : queue[n] = "Connected" /\ ErrorsAfter(queue, n)

LEMMA UpLastError ==
  ASSUME NEW queue \in Seq(Words), NEW flag \in BOOLEAN, UpLast(queue, flag)
  PROVE  UpLast(Append(queue, "Error"), flag)
<1> DEFINE longer == Append(queue, "Error")
<1>1. /\ Len(queue) \in Nat /\ Len(longer) = Len(queue) + 1
      /\ \A m \in 1..Len(queue) : longer[m] = queue[m]
      /\ longer[Len(queue) + 1] = "Error"
  BY AppendProperties, LenProperties DEF Words
<1>2. ASSUME NEW n \in Nat, ErrorsAfter(queue, n) PROVE ErrorsAfter(longer, n)
  <2> SUFFICES ASSUME NEW m \in 1..Len(longer), m > n PROVE longer[m] = "Error"
    BY DEF ErrorsAfter
  <2> HIDE DEF longer
  <2>1. CASE m \in 1..Len(queue)
    BY <1>1, <1>2, <2>1 DEF ErrorsAfter
  <2>2. CASE m \notin 1..Len(queue)
    <3>1. m = Len(queue) + 1
      BY <1>1, <2>2
    <3> QED
      BY <1>1, <3>1
  <2> QED
    BY <2>1, <2>2
<1>3. CASE flag /\ ErrorsAfter(queue, 0)
  BY <1>2, <1>3 DEF UpLast
<1>4. CASE \E n \in 1..Len(queue) : queue[n] = "Connected" /\ ErrorsAfter(queue, n)
  <2>1. PICK n \in 1..Len(queue) : queue[n] = "Connected" /\ ErrorsAfter(queue, n)
    BY <1>4
  <2>2. longer[n] = "Connected" /\ ErrorsAfter(longer, n)
    BY <1>1, <1>2, <2>1
  <2>3. n \in 1..Len(longer)
    BY <1>1
  <2> QED
    BY <2>2, <2>3 DEF UpLast
<1> QED
  BY <1>3, <1>4 DEF UpLast

LEMMA UpLastConnected ==
  ASSUME NEW queue \in Seq(Words), NEW flag \in BOOLEAN
  PROVE  UpLast(Append(queue, "Connected"), flag)
<1> DEFINE longer == Append(queue, "Connected")
           n == Len(queue) + 1
<1>1. n \in 1..Len(longer) /\ Len(longer) = n /\ longer[n] = "Connected"
  BY AppendProperties, LenProperties DEF Words
<1>2. ErrorsAfter(longer, n)
  BY <1>1 DEF ErrorsAfter
<1> QED
  BY <1>1, <1>2 DEF UpLast

LEMMA UpLastTail ==
  ASSUME NEW queue \in Seq(Words), NEW flag \in BOOLEAN, queue # <<>>, UpLast(queue, flag)
  PROVE  UpLast(Tail(queue), IF Head(queue) = "Error" THEN flag ELSE Status(Head(queue)))
<1> DEFINE rest == Tail(queue)
<1>1. /\ Len(queue) \in Nat \ {0} /\ Len(rest) = Len(queue) - 1 /\ Head(queue) = queue[1]
      /\ \A m \in 1..Len(rest) : rest[m] = queue[m + 1]
  BY HeadTailProperties, LenProperties, EmptySeq
<1>2. ASSUME NEW n \in Nat, NEW r \in Nat, ErrorsAfter(queue, n), n <= r + 1
      PROVE  ErrorsAfter(rest, r)
  <2> SUFFICES ASSUME NEW m \in 1..Len(rest), m > r PROVE rest[m] = "Error"
    BY DEF ErrorsAfter
  <2> HIDE DEF rest
  <2>1. m + 1 \in 1..Len(queue) /\ m + 1 > n
    BY <1>1, <1>2
  <2> QED
    BY <1>1, <1>2, <2>1 DEF ErrorsAfter
<1>3. CASE flag /\ ErrorsAfter(queue, 0)
  <2>1. Head(queue) = "Error"
    BY <1>1, <1>3 DEF ErrorsAfter
  <2>2. ErrorsAfter(rest, 0)
    BY <1>2, <1>3
  <2> QED
    BY <1>3, <2>1, <2>2 DEF UpLast
<1>4. CASE \E n \in 1..Len(queue) : queue[n] = "Connected" /\ ErrorsAfter(queue, n)
  <2>1. PICK n \in 1..Len(queue) : queue[n] = "Connected" /\ ErrorsAfter(queue, n)
    BY <1>4
  <2>2. CASE n = 1
    <3>1. Head(queue) # "Error" /\ Status(Head(queue))
      BY <1>1, <2>1, <2>2 DEF Status
    <3>2. ErrorsAfter(rest, 0)
      BY <1>2, <2>1, <2>2
    <3> QED
      BY <3>1, <3>2 DEF UpLast
  <2>3. CASE n # 1
    <3> HIDE DEF rest
    <3>1. n - 1 \in 1..Len(rest)
      BY <1>1, <2>3
    <3>2. rest[n - 1] = "Connected"
      BY <1>1, <2>1, <3>1
    <3>3. ErrorsAfter(rest, n - 1)
      BY <1>2, <2>1, <2>3
    <3> USE DEF rest
    <3> QED
      BY <3>1, <3>2, <3>3 DEF UpLast
  <2> QED
    BY <2>2, <2>3
<1> QED
  BY <1>3, <1>4 DEF UpLast

ReportType ==
  /\ owed \in [Loops -> {"none"} \cup Words]
  /\ reports \in Seq(Words)
  /\ shown \in BOOLEAN

\* A loop that was not spawned has nothing to tell.
Unspawned ==
  \A i \in Loops : i > loops => AtLoop(i, "none") /\ loop[i].net = "down" /\ owed[i] = "none"

\* What the pages will show when everything that was reported is delivered.
WillShow ==
  \/ owed[1] = "Connected"
  \/ owed[1] # "Disconnected" /\ UpLast(reports, shown)

\* The first loop has said of its session that it is up.
Reported == loop[1].net = "up" /\ ~AtLoop(1, "reset") => WillShow

ReportInv == ReportType /\ Unspawned /\ (loops = 1 => Reported)

LEMMA ReportInvInit == StatusInit => ReportInv
<1> SUFFICES ASSUME StatusInit PROVE ReportInv
  OBVIOUS
<1>1. ReportType
  BY EmptySeq DEF StatusInit, ReportType
<1>2. Unspawned
  BY DEF StatusInit, Init, Unspawned, AtLoop, NewLoop
<1>3. loops # 1
  BY DEF StatusInit, Init
<1> QED
  BY <1>1, <1>2, <1>3 DEF ReportInv

\* If the loop that was spawned has nothing to report, and its session does not
\* open, it stays as told.
LEMMA NothingNew ==
  ASSUME TypeOK, ReportInv, UNCHANGED <<reports, shown, loops>>,
         NEW i \in Loops, i <= loops,
         \A j \in Loops \ {i} : loop'[j] = loop[j] \/ (loop[j].net = "up" /\ loop'[j] = Lost(j)),
         owed' \in [Loops -> {"none"} \cup Words],
         \A j \in Loops \ {i} : owed'[j] = owed[j],
         loops = 1 => Reported'
  PROVE  ReportInv'
<1>1. ReportType'
  BY DEF ReportInv, ReportType
<1>2. ASSUME NEW j \in Loops, j > loops PROVE loop'[j] = loop[j] /\ owed'[j] = owed[j]
  <2>1. j # i /\ loop[j].net = "down"
    BY <1>2 DEF ReportInv, Unspawned, TypeOK, Loops
  <2> QED
    BY <2>1
<1>3. Unspawned'
  BY <1>2 DEF ReportInv, Unspawned, AtLoop
<1> QED
  BY <1>1, <1>3 DEF ReportInv

\* What a loop does between two reports.
LEMMA WorkKeepsReports ==
  ASSUME TypeOK, ReportInv, NEW i \in Loops, Work(i)
  PROVE  ReportInv'
<1>0. /\ owed[i] = "none" /\ UNCHANGED <<reports, shown>>
      /\ owed \in [Loops -> {"none"} \cup Words]
  BY DEF Work, ReportInv, ReportType
<1>1. /\ \A j \in Loops \ {i} : loop'[j] = loop[j] \/ (loop[j].net = "up" /\ loop'[j] = Lost(j))
      /\ UNCHANGED loops
  <2>1. CASE LoopStep(i)
    <3>1. UNCHANGED loops
      BY <2>1 DEF LoopStep, ConnAck, ResetAttempts, TakeOwnHandle, Subscribe, SendRequest,
             PollError, ReadAttempts, WriteAttempts, Wake, callerState
    <3> QED
      BY <2>1, <3>1, LoopEffects DEF Untouched
  <2>2. CASE ServerDisconnect(i)
    BY <2>2 DEF ServerDisconnect, Become, callerState, TypeOK
  <2> QED
    BY <2>1, <2>2, ReportSteps
<1>2. loop[i].pc # "none"
  BY DEF Work, Report, ConnAck, ResetAttempts, TakeOwnHandle, Subscribe, SendRequest,
         PollError, ReadAttempts, WriteAttempts, Wake, ServerDisconnect, AtLoop
<1>3. i <= loops
  BY <1>2 DEF ReportInv, Unspawned, AtLoop, TypeOK, Loops
<1>4. owed' \in [Loops -> {"none"} \cup Words] /\ \A j \in Loops \ {i} : owed'[j] = owed[j]
  BY <1>0 DEF Work, Report, Owes, Words
<1>5. ASSUME loops = 1 PROVE Reported'
  <2>1. i = 1
    BY <1>3, <1>5 DEF Loops
  <2>2. CASE ResetAttempts(i) /\ Owes(i, "Connected")
    BY <1>0, <2>1, <2>2 DEF Owes, Reported, WillShow
  <2>3. CASE ServerDisconnect(i) \/ PollError(i)
    <3>1. loop'[i].net # "up"
      <4>1. CASE ServerDisconnect(i)
        BY <4>1, LoopTyped DEF ServerDisconnect, Become, Lost, TypeOK, LoopType
      <4>2. CASE PollError(i)
        <5>1. LoopStep(i) /\ loop[i].pc = "poll"
          BY <4>2 DEF LoopStep, PollError, AtLoop
        <5>2. PICK r \in {"read"} : loop'[i].pc = r
          BY <4>2, LoopTyped DEF PollError, Become, TypeOK, LoopType
        <5> QED
          BY <5>1, <5>2, LoopEffects DEF LoopEffect, Moves
      <4> QED
        BY <2>3, <4>1, <4>2
    <3> QED
      BY <2>1, <3>1 DEF Reported
  <2>4. CASE ConnAck(i)
    <3>1. loop'[i].pc = "reset"
      <4>1. LoopStep(i) /\ loop[i].pc = "poll" /\ loop[i].net = "down"
        BY <2>4 DEF LoopStep, ConnAck, AtLoop
      <4>2. loop'[i] = [loop[i] EXCEPT !.net = "up", !.subscribed = {}, !.pc = "reset"]
        BY <2>4 DEF ConnAck, TakenOver
      <4> QED
        BY <4>2, LoopTyped DEF LoopType
    <3> QED
      BY <2>1, <3>1 DEF Reported, AtLoop
  <2>5. CASE /\ \/ TakeOwnHandle(i) \/ Subscribe(i) \/ SendRequest(i)
                \/ ReadAttempts(i) \/ WriteAttempts(i) \/ Wake(i)
             /\ UNCHANGED owed
    <3>1. loop[i].pc # "reset" /\ LoopStep(i) /\ UNCHANGED loops
      BY <1>1, <2>5 DEF TakeOwnHandle, Subscribe, SendRequest, ReadAttempts, WriteAttempts,
                   Wake, AtLoop, LoopStep
    <3>2. loop'[i].net = "up" /\ loop'[i].pc # "reset" => loop[i].net = "up"
      BY <3>1, LoopEffects DEF LoopEffect, Moves, SameNet
    <3>3. Reported
      BY <1>5 DEF ReportInv
    <3>4. WillShow <=> WillShow'
      BY <1>0, <2>5 DEF WillShow
    <3> QED
      BY <2>1, <3>1, <3>2, <3>3, <3>4 DEF Reported, AtLoop
  <2> QED
    BY <2>2, <2>3, <2>4, <2>5 DEF Work, Report
<1> QED
  BY <1>0, <1>1, <1>3, <1>4, <1>5, NothingNew

LEMMA SendKeepsReports ==
  ASSUME TypeOK, ReportInv, NEW i \in Loops, SendReport(i)
  PROVE  ReportInv'
<1>0. /\ owed \in [Loops -> {"none"} \cup Words] /\ reports \in Seq(Words) /\ shown \in BOOLEAN
      /\ owed[i] # "none" /\ owed' = [owed EXCEPT ![i] = "none"]
      /\ reports' = Append(reports, owed[i]) /\ UNCHANGED shown /\ UNCHANGED <<loop, loops>>
  BY DEF ReportInv, ReportType, SendReport, Owes, vars
<1>1. owed[i] \in Words
  BY <1>0
<1>2. ReportType'
  BY <1>0, <1>1, AppendProperties DEF ReportType
<1>3. Unspawned'
  BY <1>0 DEF ReportInv, Unspawned, AtLoop
<1>4. ASSUME loops = 1, WillShow PROVE WillShow'
  <2>1. i = 1
    BY <1>0, <1>4 DEF ReportInv, Unspawned, Loops
  <2>2. owed'[1] = "none"
    BY <1>0, <2>1
  <2>3. owed[1] \in {"Connected", "Error"}
    BY <1>1, <1>4, <2>1 DEF WillShow, Words
  <2>4. UpLast(reports', shown)
    <3>1. CASE owed[1] = "Connected"
      BY <1>0, <2>1, <3>1, UpLastConnected
    <3>2. CASE owed[1] = "Error"
      <4>1. UpLast(reports, shown)
        BY <1>4, <3>2 DEF WillShow
      <4> QED
        BY <1>0, <2>1, <3>2, <4>1, UpLastError
    <3> QED
      BY <2>3, <3>1, <3>2
  <2> QED
    BY <1>0, <2>2, <2>4 DEF WillShow
<1>5. ASSUME loops = 1 PROVE Reported'
  BY <1>0, <1>4, <1>5 DEF ReportInv, Reported, AtLoop
<1> QED
  BY <1>0, <1>2, <1>3, <1>5 DEF ReportInv

LEMMA EmitKeepsReports ==
  ASSUME ReportInv, Emit
  PROVE  ReportInv'
<1>0. /\ reports \in Seq(Words) /\ shown \in BOOLEAN
      /\ reports # <<>> /\ reports' = Tail(reports)
      /\ shown' = IF Head(reports) = "Error" THEN shown ELSE Status(Head(reports))
      /\ UNCHANGED <<loop, loops, owed>>
  BY DEF ReportInv, ReportType, Emit, vars
<1>1. ReportType'
  <2>1. Tail(reports) \in Seq(Words)
    BY <1>0, HeadTailProperties
  <2>2. shown' \in BOOLEAN
    BY <1>0 DEF Status
  <2> QED
    BY <1>0, <2>1, <2>2 DEF ReportInv, ReportType
<1>2. Unspawned'
  BY <1>0 DEF ReportInv, Unspawned, AtLoop
<1>3. ASSUME UpLast(reports, shown) PROVE UpLast(reports', shown')
  BY <1>0, <1>3, UpLastTail
<1>4. WillShow => WillShow'
  BY <1>0, <1>3 DEF WillShow
<1>5. ASSUME loops = 1 PROVE Reported'
  BY <1>0, <1>4, <1>5 DEF ReportInv, Reported, AtLoop
<1> QED
  BY <1>0, <1>1, <1>2, <1>5 DEF ReportInv

\* Callers and faults change no session for the better.
LEMMA EnvironmentKeepsReports ==
  ASSUME TypeOK, ReportInv, Environment
  PROVE  ReportInv'
<1>0. UNCHANGED <<owed, reports, shown>>
  BY DEF Environment
<1>1. ReportType'
  BY <1>0 DEF ReportInv, ReportType
<1>2. WillShow <=> WillShow'
  BY <1>0 DEF WillShow
<1>3. ASSUME UNCHANGED loops,
             \A j \in Loops : /\ loop'[j].pc = loop[j].pc
                              /\ loop'[j].net = loop[j].net \/ loop'[j].net # "up"
                              /\ loop[j].net = "down" => loop'[j].net = "down"
      PROVE  ReportInv'
  <2>1. Unspawned'
    BY <1>0, <1>3 DEF ReportInv, Unspawned, AtLoop
  <2>2. loops = 1 => 1 \in Loops
    BY DEF TypeOK, Loops
  <2>3. ASSUME loops = 1 PROVE Reported'
    BY <1>2, <1>3, <2>2, <2>3 DEF ReportInv, Reported, AtLoop
  <2> QED
    BY <1>1, <1>3, <2>1, <2>3 DEF ReportInv
<1>4. CASE Faulty
  <2>1. UNCHANGED loops
    BY <1>4, FaultEffects DEF callerState
  <2> QED
    BY <1>3, <1>4, <2>1, FaultEffects, LostFields
<1>5. ASSUME NEW k \in Callers, Call(k) \/ CallerStep(k) PROVE ReportInv'
  <2>1. CallerEffect(k)
    BY <1>5, CallerEffects
  <2>2. CASE UNCHANGED loops
    <3>1. \/ UNCHANGED loop
          \/ /\ OthersKeep(client)
             /\ client \in Loops => loop'[client].pc = loop[client].pc /\ SameNet(client)
      <4>1. loops' # loops + 1
        BY <2>2 DEF TypeOK
      <4> QED
        BY <2>1, <4>1 DEF CallerEffect, Hands
    <3>2. \A j \in Loops : loop'[j].pc = loop[j].pc /\ loop'[j].net = loop[j].net
      BY <3>1 DEF SameNet, OthersKeep
    <3> QED
      BY <1>3, <2>2, <3>2
  <2>3. CASE /\ loops + 1 \in Loops /\ loops' = loops + 1
             /\ loop'[loops + 1] = [NewLoop EXCEPT !.pc = "poll"] /\ OthersKeep(loops + 1)
    <3>1. loop'[loops + 1].net = "down"
      BY <2>3 DEF NewLoop
    <3>2. Unspawned'
      <4> SUFFICES ASSUME NEW j \in Loops, j > loops + 1
                   PROVE  loop'[j] = loop[j] /\ j > loops
        BY <1>0, <2>3 DEF ReportInv, Unspawned, AtLoop
      <4> QED
        BY <2>3 DEF OthersKeep, TypeOK, Loops
    <3>3. ASSUME loops' = 1 PROVE Reported'
      <4>1. loops + 1 = 1
        BY <2>3, <3>3
      <4> QED
        BY <3>1, <4>1 DEF Reported
    <3> QED
      BY <1>1, <3>2, <3>3 DEF ReportInv
  <2> QED
    BY <2>1, <2>2, <2>3 DEF CallerEffect
<1> QED
  BY <1>4, <1>5 DEF Environment, Faulty

LEMMA ReportInvStep == TypeOK /\ ReportInv /\ [StatusNext]_statusVars => ReportInv'
<1> SUFFICES ASSUME TypeOK, ReportInv, [StatusNext]_statusVars PROVE ReportInv'
  OBVIOUS
<1>1. CASE UNCHANGED statusVars
  BY <1>1 DEF statusVars, vars, ReportInv, ReportType, Unspawned, Reported, WillShow, AtLoop
<1> QED
  BY <1>1, WorkKeepsReports, SendKeepsReports, EmitKeepsReports, EnvironmentKeepsReports
     DEF StatusNext

LEMMA ReportInvShows == TypeOK /\ ReportInv => SessionShown
<1> SUFFICES ASSUME TypeOK, ReportInv, loops = 1, AtLoop(1, "poll"), loop[1].net = "up", Told
             PROVE  shown
  BY DEF SessionShown
<1>1. WillShow
  BY DEF ReportInv, Reported, AtLoop
<1>2. owed[1] # "Connected"
  BY DEF Told, TypeOK, Loops
<1>3. UpLast(<<>>, shown)
  BY <1>1, <1>2 DEF WillShow, Told
<1>4. Len(<<>>) = 0
  BY EmptySeq
<1> QED
  BY <1>3, <1>4 DEF UpLast

\* While one event loop was started, the pages show its session once everything
\* is delivered, for any faults, requests, errors and capacity of the queue.
THEOREM PagesShowSession == StatusSpec => []SessionShown
<1>1. StatusSpec => []TypeOK
  BY ReportingKeepsChannel, Typing, PTL
<1> QED
  BY <1>1, ReportInvInit, ReportInvStep, ReportInvShows, PTL DEF StatusSpec
=============================================================================
