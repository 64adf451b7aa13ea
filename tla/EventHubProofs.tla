--------------------------- MODULE EventHubProofs ---------------------------
(***************************************************************************)
(* Proofs about the event hub, for any number of clients and any bounds:   *)
(* the hub implements the abstract feed, and a client gives up late.       *)
(***************************************************************************)
EXTENDS EventHub, SequenceTheorems, TLAPS

\* The numbers from + 1, from + 2, ...
Counts(s, from) == \A i \in 1..Len(s) : s[i] = from + i

Consecutive(k) ==
  IF next[k] = 0
  THEN wire[k] = <<>> /\ server[k] \in {"none", "upgrading"}
  ELSE /\ server[k] # "upgrading"
       /\ next[k] = heard[k] + Len(wire[k]) + 1
       /\ next[k] <= emitted + 1
       /\ Counts(wire[k], heard[k])

\* The connection of the client k: what its subscription has to catch up with
\* is on the wire or still to be taken, in order and without a gap; a client
\* between two connections has none.
Contiguous(k) ==
  /\ phase[k] # "open" => next[k] = 0 /\ server[k] = "none"
  /\ Consecutive(k)

FeedInv == TypeOK /\ \A k \in Clients : Contiguous(k)

\* A step of the client k leaves the connection of another client alone.
Apart(k) ==
  \A o \in Clients \ {k} :
    /\ server'[o] = server[o] /\ next'[o] = next[o]
    /\ wire'[o] = wire[o] /\ heard'[o] = heard[o] /\ phase'[o] = phase[o]

LEMMA ApartContiguous ==
  ASSUME FeedInv, NEW k \in Clients, Apart(k), emitted' = emitted, Contiguous(k)'
  PROVE  \A o \in Clients : Contiguous(o)'
<1> TAKE o \in Clients
<1>1. CASE o = k
  BY <1>1
<1>2. CASE o # k
  BY <1>2 DEF Apart, FeedInv, Contiguous, Consecutive
<1> QED
  BY <1>1, <1>2

\* The next number at the end of a run of numbers goes on with it.
LEMMA AppendCounts ==
  ASSUME NEW s \in Seq(Nat), NEW h \in Nat, Counts(s, h)
  PROVE  Counts(Append(s, h + Len(s) + 1), h)
<1> DEFINE t == Append(s, h + Len(s) + 1)
<1>1. Len(s) \in Nat /\ Len(t) = Len(s) + 1
  BY LenProperties, AppendProperties
<1>2. ASSUME NEW i \in 1..Len(t) PROVE t[i] = h + i
  <2>1. CASE i = Len(s) + 1
    BY <1>1, <2>1, AppendProperties
  <2>2. CASE i \in 1..Len(s)
    BY <2>2, AppendProperties DEF Counts
  <2> QED
    BY <1>1, <1>2, <2>1, <2>2
<1> QED
  BY <1>2 DEF Counts

\* Without its head a run of numbers goes on from the head.
LEMMA TailCounts ==
  ASSUME NEW s \in Seq(Nat), NEW h \in Nat, Counts(s, h), s # <<>>
  PROVE  /\ Head(s) = h + 1
         /\ Len(s) \in Nat /\ Len(Tail(s)) = Len(s) - 1 /\ Len(s) > 0
         /\ Counts(Tail(s), h + 1)
<1>1. /\ Len(s) \in Nat /\ Len(s) > 0 /\ Len(Tail(s)) = Len(s) - 1
  BY EmptySeq, LenProperties, HeadTailProperties
<1>2. Head(s) = s[1] /\ 1 \in 1..Len(s)
  BY <1>1, HeadTailProperties
<1>3. ASSUME NEW i \in 1..Len(Tail(s)) PROVE Tail(s)[i] = h + 1 + i
  <2>1. i + 1 \in 1..Len(s) /\ i \in Nat
    BY <1>1, <1>3
  <2>2. Tail(s)[i] = s[i + 1]
    BY <1>1, <1>3, HeadTailProperties
  <2>3. s[i + 1] = h + (i + 1)
    BY <2>1 DEF Counts
  <2> QED
    BY <2>1, <2>2, <2>3
<1> QED
  BY <1>1, <1>2, <1>3 DEF Counts

\* The invariant holds initially.
LEMMA FeedInvInit == Init => FeedInv
<1> SUFFICES ASSUME Init PROVE FeedInv
  OBVIOUS
<1>1. TypeOK
  BY EmptySeq DEF Init, TypeOK, ServerStates, Phases
<1>2. ASSUME NEW k \in Clients PROVE Contiguous(k)
  BY DEF Init, Contiguous, Consecutive
<1> QED
  BY <1>1, <1>2 DEF FeedInv

LEMMA EmitInv == ASSUME FeedInv, Emit PROVE FeedInv'
<1>1. TypeOK'
  BY DEF FeedInv, TypeOK, Emit, clientVars
<1>2. ASSUME NEW k \in Clients PROVE Contiguous(k)'
  BY HubAssumption DEF FeedInv, TypeOK, Contiguous, Consecutive, Emit, clientVars
<1> QED
  BY <1>1, <1>2 DEF FeedInv

LEMMA SubscribeInv == ASSUME FeedInv, NEW k \in Clients, Subscribe(k) PROVE FeedInv'
<1>1. TypeOK'
  BY DEF FeedInv, TypeOK, Subscribe, ServerStates, clientVars
<1>2. next[k] = 0 /\ wire[k] = <<>>
  BY DEF FeedInv, Contiguous, Consecutive, Subscribe
<1>3. /\ next'[k] = emitted + 1 /\ heard'[k] = emitted /\ wire'[k] = <<>>
      /\ server'[k] = "serving" /\ emitted' = emitted
  BY <1>2 DEF FeedInv, TypeOK, Subscribe
<1>4. Contiguous(k)'
  <2>1. phase'[k] = "open" /\ emitted \in Nat
    BY DEF FeedInv, TypeOK, Contiguous, Subscribe, clientVars
  <2>2. Len(wire'[k]) = 0 /\ Counts(wire'[k], heard'[k])
    BY <1>3, EmptySeq DEF Counts
  <2>3. next'[k] # 0 /\ next'[k] = heard'[k] + 0 + 1 /\ next'[k] <= emitted' + 1
    BY <1>3, <2>1
  <2> QED
    BY <1>3, <2>1, <2>2, <2>3 DEF Contiguous, Consecutive
<1>5. Apart(k)
  BY DEF Apart, FeedInv, TypeOK, Subscribe, clientVars
<1> QED
  BY <1>1, <1>3, <1>4, <1>5, ApartContiguous DEF FeedInv

LEMMA TakeInv == ASSUME FeedInv, NEW k \in Clients, Take(k) PROVE FeedInv'
<1>1. next[k] # 0 /\ next[k] \in Nat
  BY DEF FeedInv, TypeOK, Contiguous, Consecutive, Take
<1>2. TypeOK'
  BY <1>1 DEF FeedInv, TypeOK, Take, clientVars
<1>3. /\ wire'[k] = Append(wire[k], next[k]) /\ next'[k] = next[k] + 1
      /\ heard'[k] = heard[k] /\ server'[k] = server[k] /\ emitted' = emitted
  BY DEF FeedInv, TypeOK, Take
<1>4. /\ server[k] # "upgrading" /\ next[k] = heard[k] + Len(wire[k]) + 1
      /\ next[k] <= emitted /\ Counts(wire[k], heard[k])
  BY <1>1 DEF FeedInv, Contiguous, Consecutive, Take
<1>5. wire[k] \in Seq(Nat) /\ heard[k] \in Nat /\ emitted \in Nat
  BY DEF FeedInv, TypeOK
<1>6. Len(wire'[k]) = Len(wire[k]) + 1 /\ Len(wire[k]) \in Nat
  BY <1>1, <1>3, <1>5, AppendProperties, LenProperties
<1>7. Counts(wire'[k], heard'[k])
  BY <1>3, <1>4, <1>5, AppendCounts
<1>8. Contiguous(k)'
  <2>1. phase'[k] = phase[k] /\ (phase[k] # "open" => next[k] = 0)
    BY DEF Take, clientVars, FeedInv, Contiguous
  <2>2. next'[k] # 0 /\ next'[k] = heard'[k] + Len(wire'[k]) + 1 /\ next'[k] <= emitted' + 1
    <3> DEFINE n == Len(wire[k])
               n2 == Len(wire'[k])
    <3>1. /\ n \in Nat /\ n2 = n + 1 /\ next[k] \in Nat /\ heard[k] \in Nat /\ emitted \in Nat
          /\ next[k] = heard[k] + n + 1 /\ next[k] <= emitted
          /\ next'[k] = next[k] + 1 /\ heard'[k] = heard[k] /\ emitted' = emitted
      BY <1>1, <1>3, <1>4, <1>5, <1>6
    <3> HIDE DEF n, n2
    <3>2. next'[k] # 0 /\ next'[k] = heard'[k] + n2 + 1 /\ next'[k] <= emitted' + 1
      BY <3>1
    <3> QED
      BY <3>2 DEF n2
  <2> QED
    BY <1>1, <1>3, <1>4, <1>7, <2>1, <2>2 DEF Contiguous, Consecutive
<1>9. Apart(k)
  BY DEF Apart, FeedInv, TypeOK, Take, clientVars
<1> QED
  BY <1>2, <1>3, <1>8, <1>9, ApartContiguous DEF FeedInv

LEMMA HearInv == ASSUME FeedInv, NEW k \in Clients, Hear(k) PROVE FeedInv'
<1>1. /\ wire[k] \in Seq(Nat) /\ wire[k] # <<>> /\ heard[k] \in Nat
      /\ emitted \in Nat /\ next[k] \in Nat
  BY DEF FeedInv, TypeOK, Hear
<1>2. TypeOK'
  BY <1>1, HeadTailProperties DEF FeedInv, TypeOK, Hear, hostVars, clientVars
<1>3. /\ wire'[k] = Tail(wire[k]) /\ heard'[k] = Head(wire[k])
      /\ next'[k] = next[k] /\ server'[k] = server[k] /\ emitted' = emitted
  BY DEF FeedInv, TypeOK, Hear, hostVars, clientVars
<1>4. /\ next[k] # 0 /\ server[k] # "upgrading"
      /\ next[k] = heard[k] + Len(wire[k]) + 1 /\ next[k] <= emitted + 1
      /\ Counts(wire[k], heard[k])
  BY <1>1 DEF FeedInv, Contiguous, Consecutive
<1>5. /\ Head(wire[k]) = heard[k] + 1 /\ Len(wire[k]) \in Nat
      /\ Len(Tail(wire[k])) = Len(wire[k]) - 1
      /\ Counts(Tail(wire[k]), heard[k] + 1)
  BY <1>1, <1>4, TailCounts
<1>6. /\ heard'[k] = heard[k] + 1 /\ Len(wire'[k]) = Len(wire[k]) - 1
      /\ Counts(wire'[k], heard'[k])
  BY <1>3, <1>5
<1>7. next'[k] = heard'[k] + Len(wire'[k]) + 1
  <2> DEFINE n == Len(wire[k])
             n2 == Len(wire'[k])
  <2>1. /\ n \in Nat /\ n2 = n - 1 /\ heard[k] \in Nat /\ next[k] = heard[k] + n + 1
        /\ next'[k] = next[k] /\ heard'[k] = heard[k] + 1
    BY <1>1, <1>3, <1>4, <1>5, <1>6
  <2> HIDE DEF n, n2
  <2>2. next'[k] = heard'[k] + n2 + 1
    BY <2>1
  <2> QED
    BY <2>2 DEF n2
<1>8. Contiguous(k)'
  <2>1. phase'[k] = "open"
    BY DEF Hear, clientVars
  <2> QED
    BY <1>3, <1>4, <1>6, <1>7, <2>1 DEF Contiguous, Consecutive
<1>9. Apart(k)
  BY DEF Apart, FeedInv, TypeOK, Hear, hostVars, clientVars
<1> QED
  BY <1>2, <1>3, <1>8, <1>9, ApartContiguous DEF FeedInv

LEMMA ScheduleReconnectType ==
  ASSUME TypeOK, NEW k \in Clients, ScheduleReconnect(k)
  PROVE  /\ phase' \in [Clients -> Phases] /\ attempts' \in [Clients -> Nat]
         /\ \A o \in Clients \ {k} : phase'[o] = phase[o]
<1>1. attempts[k] + 1 \in Nat
  BY DEF TypeOK
<1>2. CASE phase' = [phase EXCEPT ![k] = "gaveUp"] /\ UNCHANGED attempts
  BY <1>2 DEF TypeOK, Phases
<1>3. CASE phase' = [phase EXCEPT ![k] = "waiting"] /\ attempts' = [attempts EXCEPT ![k] = @ + 1]
  BY <1>1, <1>3 DEF TypeOK, Phases
<1> QED
  BY <1>2, <1>3 DEF ScheduleReconnect

\* The end of a connection, on either side of it.
LEMMA ClosedInv ==
  ASSUME FeedInv, NEW k \in Clients, Closed(k) \/ Disconnect(k)
  PROVE  FeedInv'
<1>1. /\ wire' = [wire EXCEPT ![k] = <<>>] /\ next' = [next EXCEPT ![k] = 0]
      /\ emitted' = emitted /\ heard' = heard
      /\ server' = [server EXCEPT ![k] = "none"]
  BY DEF Closed, Disconnect, FeedInv, TypeOK
<1>2. /\ phase' \in [Clients -> Phases] /\ attempts' \in [Clients -> Nat]
      /\ \A o \in Clients \ {k} : phase'[o] = phase[o]
  <2>1. CASE Closed(k)
    BY <2>1, ScheduleReconnectType DEF Closed, FeedInv
  <2>2. CASE Disconnect(k)
    BY <2>2, HubAssumption DEF Disconnect, FeedInv, TypeOK, Phases
  <2> QED
    BY <2>1, <2>2
<1>3. TypeOK'
  <2>1. up' = up /\ failures' = failures /\ faults' = faults
    BY DEF Closed, Disconnect
  <2>2. up' \in BOOLEAN
    BY <2>1 DEF FeedInv, TypeOK
  <2>3. /\ wire' \in [Clients -> Seq(Nat)] /\ next' \in [Clients -> Nat]
        /\ server' \in [Clients -> ServerStates]
    BY <1>1 DEF FeedInv, TypeOK, ServerStates
  <2>4. emitted' \in Nat /\ faults' \in Nat /\ heard' \in [Clients -> Nat]
        /\ failures' \in [Clients -> Nat]
    BY <1>1, <2>1 DEF FeedInv, TypeOK
  <2> QED
    BY <1>2, <2>2, <2>3, <2>4 DEF TypeOK
<1>4. Contiguous(k)'
  BY <1>1 DEF FeedInv, TypeOK, Contiguous, Consecutive
<1>5. Apart(k)
  BY <1>1, <1>2 DEF Apart, FeedInv, TypeOK
<1> QED
  BY <1>1, <1>3, <1>4, <1>5, ApartContiguous DEF FeedInv

\* A client that opens a connection or waits for one has none yet.
LEMMA ClientInv ==
  ASSUME FeedInv, NEW k \in Clients, Open(k) \/ Refused(k) \/ TimerFires(k)
  PROVE  FeedInv'
<1>1. /\ wire' = wire /\ next' = next /\ emitted' = emitted /\ heard' = heard /\ up' = up
      /\ next[k] = 0 /\ server[k] = "none" /\ wire[k] = <<>>
  BY DEF Open, Refused, TimerFires, hostVars, FeedInv, Contiguous, Consecutive
<1>2. /\ phase' \in [Clients -> Phases] /\ attempts' \in [Clients -> Nat]
      /\ failures' \in [Clients -> Nat] /\ faults' \in Nat
      /\ \A o \in Clients \ {k} : phase'[o] = phase[o]
  <2>1. CASE Open(k)
    BY <2>1 DEF Open, FeedInv, TypeOK, Phases
  <2>2. CASE Refused(k)
    <3>1. faults' \in Nat
      BY <2>2 DEF Refused, Fault, FeedInv, TypeOK
    <3>2. failures' \in [Clients -> Nat]
      BY <2>2 DEF Refused, FeedInv, TypeOK
    <3> QED
      BY <2>2, <3>1, <3>2, ScheduleReconnectType DEF Refused, FeedInv
  <2>3. CASE TimerFires(k)
    BY <2>3 DEF TimerFires, FeedInv, TypeOK, Phases
  <2> QED
    BY <2>1, <2>2, <2>3
<1>3. \/ server' = server
      \/ server' = [server EXCEPT ![k] = "upgrading"] /\ phase'[k] = "open"
  BY DEF Open, Refused, TimerFires, hostVars, FeedInv, TypeOK
<1>4. TypeOK'
  BY <1>1, <1>2, <1>3 DEF FeedInv, TypeOK, ServerStates
<1>5. Contiguous(k)'
  BY <1>1, <1>3 DEF FeedInv, TypeOK, Contiguous, Consecutive
<1>6. Apart(k)
  BY <1>1, <1>2, <1>3 DEF Apart, FeedInv, TypeOK
<1> QED
  BY <1>1, <1>4, <1>5, <1>6, ApartContiguous DEF FeedInv

\* The host's side of a connection ends.
LEMMA ServerInv ==
  ASSUME FeedInv, NEW k \in Clients, Lag(k) \/ Break(k)
  PROVE  FeedInv'
<1>1. /\ wire' = wire /\ next' = next /\ emitted' = emitted /\ heard' = heard /\ up' = up
      /\ phase' = phase /\ attempts' = attempts /\ failures' = failures
      /\ faults' \in Nat
  BY DEF Lag, Break, Fault, clientVars, FeedInv, TypeOK
<1>2. \/ server' = [server EXCEPT ![k] = "none"]
      \/ server' = [server EXCEPT ![k] = "deaf"] /\ server[k] = "serving"
  BY DEF Lag, Break
<1>3. TypeOK'
  BY <1>1, <1>2 DEF FeedInv, TypeOK, ServerStates
<1>4. Contiguous(k)'
  BY <1>1, <1>2 DEF FeedInv, TypeOK, Contiguous, Consecutive
<1>5. Apart(k)
  BY <1>1, <1>2 DEF Apart, FeedInv, TypeOK
<1> QED
  BY <1>1, <1>3, <1>4, <1>5, ApartContiguous DEF FeedInv

LEMMA HostInv == ASSUME FeedInv, HostStops \/ HostStarts PROVE FeedInv'
<1>1. /\ wire' = wire /\ next' = next /\ emitted' = emitted /\ heard' = heard
      /\ phase' = phase /\ attempts' = attempts /\ failures' = failures
      /\ server' = server \/ server' = [k \in Clients |-> "none"]
  BY DEF HostStops, HostStarts, clientVars
<1>4. faults' \in Nat
  BY DEF HostStops, HostStarts, Fault, FeedInv, TypeOK
<1>5. up' \in BOOLEAN
  BY Zenon DEF HostStops, HostStarts
<1>2. TypeOK'
  BY <1>1, <1>4, <1>5 DEF FeedInv, TypeOK, ServerStates
<1>3. ASSUME NEW k \in Clients PROVE Contiguous(k)'
  BY <1>1 DEF FeedInv, TypeOK, Contiguous, Consecutive
<1> QED
  BY <1>2, <1>3 DEF FeedInv

\* Every step keeps the invariant.
LEMMA FeedInvStep == FeedInv /\ [Next]_vars => FeedInv'
<1> SUFFICES ASSUME FeedInv, [Next]_vars PROVE FeedInv'
  OBVIOUS
<1>1. CASE UNCHANGED vars
  BY <1>1 DEF vars, hostVars, clientVars, FeedInv, TypeOK, Contiguous, Consecutive
<1>2. CASE Next
  BY <1>2, EmitInv, HostInv, SubscribeInv, TakeInv, ServerInv, ClientInv, ClosedInv, HearInv
     DEF Next, ServerStep, ClientStep
<1> QED
  BY <1>1, <1>2

\* The types hold and no feed has a gap, in every state.
THEOREM FeedInvariant == Spec => []FeedInv
<1>1. Init => FeedInv
  BY FeedInvInit
<1>2. FeedInv /\ [Next]_vars => FeedInv'
  BY FeedInvStep
<1> QED
  BY <1>1, <1>2, PTL DEF Spec
-----------------------------------------------------------------------------
(* The refinement.                                                         *)

LEMMA JoinedIs == ASSUME NEW k \in Clients PROVE Joined[k] = (next[k] # 0)
BY DEF Joined

\* The initial states of the hub are initial states of the feed.
LEMMA FeedInitially == Init => Feed!FeedInit
<1> SUFFICES ASSUME Init PROVE Feed!FeedInit
  OBVIOUS
<1>1. Joined = [k \in Clients |-> FALSE]
  BY DEF Init, Joined
<1> QED
  BY <1>1 DEF Init, Feed!FeedInit

\* A step that changes no subscription is a stutter of the feed.
LEMMA Stutter ==
  ASSUME emitted' = emitted, heard' = heard,
         \A k \in Clients : (next'[k] # 0) = (next[k] # 0)
  PROVE  UNCHANGED Feed!feedVars
<1>1. Joined' = Joined
  BY DEF Joined
<1> QED
  BY <1>1 DEF Feed!feedVars

\* Every step of the hub is a step of the feed or a stutter.
LEMMA FeedStep == FeedInv /\ [Next]_vars => [Feed!FeedNext]_Feed!feedVars
<1> SUFFICES ASSUME FeedInv, [Next]_vars PROVE Feed!FeedNext \/ UNCHANGED Feed!feedVars
  OBVIOUS
<1>1. CASE UNCHANGED vars
  BY <1>1, Stutter DEF vars, hostVars
<1>2. CASE Emit
  <2>1. Joined' = Joined
    BY <1>2 DEF Emit, Joined
  <2> QED
    BY <1>2, <2>1 DEF Emit, Feed!FeedNext, Feed!FeedEmit
<1>3. CASE HostStops \/ HostStarts
  BY <1>3, Stutter DEF HostStops, HostStarts
<1>4. ASSUME NEW k \in Clients, Subscribe(k) PROVE Feed!FeedNext
  <2>1. next[k] = 0 /\ emitted + 1 # 0
    BY <1>4 DEF Subscribe, FeedInv, TypeOK, Contiguous, Consecutive
  <2>2. ~Joined[k]
    BY <2>1, JoinedIs
  <2>3. Joined' = [Joined EXCEPT ![k] = TRUE]
    BY <1>4, <2>1 DEF Subscribe, Joined, FeedInv, TypeOK
  <2>4. Feed!FeedJoin(k)
    BY <1>4, <2>2, <2>3 DEF Subscribe, Feed!FeedJoin
  <2> QED
    BY <2>4 DEF Feed!FeedNext
<1>5. ASSUME NEW k \in Clients, Hear(k) PROVE Feed!FeedNext
  <2>1. /\ wire[k] \in Seq(Nat) /\ wire[k] # <<>> /\ heard[k] \in Nat /\ emitted \in Nat
        /\ next[k] # 0 /\ next[k] = heard[k] + Len(wire[k]) + 1 /\ next[k] <= emitted + 1
        /\ Counts(wire[k], heard[k])
    BY <1>5 DEF Hear, FeedInv, TypeOK, Contiguous, Consecutive
  <2>2. Head(wire[k]) = heard[k] + 1 /\ Len(wire[k]) \in Nat /\ Len(wire[k]) > 0
    BY <2>1, TailCounts
  <2>3. heard[k] < emitted
    BY <2>1, <2>2
  <2>4. heard' = [heard EXCEPT ![k] = @ + 1]
    BY <1>5, <2>2 DEF Hear
  <2>5. Joined' = Joined /\ Joined[k]
    BY <1>5, <2>1 DEF Hear, Joined, hostVars
  <2>6. Feed!FeedHear(k)
    BY <1>5, <2>3, <2>4, <2>5 DEF Hear, hostVars, Feed!FeedHear
  <2> QED
    BY <2>6 DEF Feed!FeedNext
<1>6. ASSUME NEW k \in Clients, Closed(k) \/ Disconnect(k) PROVE Feed!FeedNext
  <2>1. next' = [next EXCEPT ![k] = 0] /\ emitted' = emitted /\ heard' = heard
    BY <1>6 DEF Closed, Disconnect
  <2>2. Joined' = [o \in Clients |-> Joined[o] /\ o \notin {k}]
    BY <2>1 DEF Joined, FeedInv, TypeOK
  <2>3. Feed!FeedEnd({k})
    BY <2>1, <2>2 DEF Feed!FeedEnd
  <2> QED
    BY <2>3 DEF Feed!FeedNext
<1>7. ASSUME NEW k \in Clients, Take(k) PROVE UNCHANGED Feed!feedVars
  <2>1. next[k] \in Nat /\ next[k] # 0 /\ next' = [next EXCEPT ![k] = @ + 1]
    BY <1>7 DEF Take, FeedInv, TypeOK, Contiguous, Consecutive
  <2>2. \A o \in Clients : (next'[o] # 0) = (next[o] # 0)
    BY <2>1 DEF FeedInv, TypeOK
  <2> QED
    BY <1>7, <2>2, Stutter DEF Take
<1>8. ASSUME NEW k \in Clients,
             Lag(k) \/ Break(k) \/ Open(k) \/ Refused(k) \/ TimerFires(k)
      PROVE  UNCHANGED Feed!feedVars
  BY <1>8, Stutter DEF Lag, Break, Open, Refused, TimerFires, hostVars
<1> QED
  BY <1>1, <1>2, <1>3, <1>4, <1>5, <1>6, <1>7, <1>8 DEF Next, ServerStep, ClientStep

\* The event hub implements the abstract feed: ring, tasks, wire, reconnection
\* and restarts never give a subscribed client an event twice, out of order or
\* after a gap, for any number of clients and any sizes.
THEOREM HubImplementsFeed == Spec => ImplementsFeed
<1>1. Init => Feed!FeedInit
  BY FeedInitially
<1>2. FeedInv /\ [Next]_vars => [Feed!FeedNext]_Feed!feedVars
  BY FeedStep
<1> QED
  BY <1>1, <1>2, FeedInvariant, PTL DEF Spec, ImplementsFeed, Feed!FeedSpec

-----------------------------------------------------------------------------
(* Giving up.                                                              *)

\* An attempt is either refused or under way; only connecting again after a
\* connection uses one without a refusal.
Counted(k) ==
  /\ phase[k] \in {"connecting", "waiting"} => attempts[k] <= failures[k] + 1
  /\ phase[k] = "open" => attempts[k] = 0
  /\ phase[k] = "gaveUp" => failures[k] >= MaxAttempts

LEMMA CountedStep ==
  ASSUME TypeOK, NEW k \in Clients, Counted(k), [Next]_vars
  PROVE  Counted(k)'
<1> USE HubAssumption
<1>0. attempts[k] \in Nat /\ failures[k] \in Nat
  BY DEF TypeOK
<1>1. CASE UNCHANGED <<phase, attempts, failures>>
  BY <1>1 DEF Counted
<1>2. CASE Open(k)
  <2>1. phase'[k] = "open" /\ attempts'[k] = 0
    BY <1>2 DEF Open, TypeOK
  <2> QED
    BY <2>1 DEF Counted
<1>3. CASE Refused(k)
  <2>1. failures'[k] = failures[k] + 1 /\ attempts[k] <= failures[k] + 1
    BY <1>3 DEF Refused, TypeOK, Counted
  <2>2. CASE attempts[k] >= MaxAttempts
    <3>1. phase'[k] = "gaveUp"
      BY <1>3, <2>2 DEF Refused, ScheduleReconnect, TypeOK
    <3>2. failures'[k] >= MaxAttempts
      BY <1>0, <2>1, <2>2
    <3> QED
      BY <3>1, <3>2 DEF Counted
  <2>3. CASE ~(attempts[k] >= MaxAttempts)
    <3>1. phase'[k] = "waiting" /\ attempts'[k] = attempts[k] + 1
      BY <1>3, <2>3 DEF Refused, ScheduleReconnect, TypeOK
    <3>2. attempts'[k] <= failures'[k] + 1
      BY <1>0, <2>1, <3>1
    <3> QED
      BY <3>1, <3>2 DEF Counted
  <2> QED
    BY <2>2, <2>3
<1>4. CASE Closed(k)
  <2>1. attempts[k] = 0 /\ failures' = failures
    BY <1>4 DEF Closed, Counted
  <2>2. CASE attempts[k] >= MaxAttempts
    <3>1. phase'[k] = "gaveUp" /\ failures'[k] >= MaxAttempts
      BY <1>0, <1>4, <2>1, <2>2 DEF Closed, ScheduleReconnect, TypeOK
    <3> QED
      BY <3>1 DEF Counted
  <2>3. CASE ~(attempts[k] >= MaxAttempts)
    <3>1. phase'[k] = "waiting" /\ attempts'[k] = attempts[k] + 1
      BY <1>4, <2>3 DEF Closed, ScheduleReconnect, TypeOK
    <3>2. attempts'[k] <= failures'[k] + 1
      BY <1>0, <2>1, <3>1
    <3> QED
      BY <3>1, <3>2 DEF Counted
  <2> QED
    BY <2>2, <2>3
<1>5. CASE TimerFires(k)
  BY <1>5 DEF TimerFires, Counted, TypeOK
<1>6. CASE Disconnect(k)
  BY <1>6 DEF Disconnect, Counted, TypeOK
<1>7. ASSUME NEW o \in Clients \ {k},
             ClientStep(o) \/ Disconnect(o)
      PROVE  Counted(k)'
  <2>1. phase'[k] = phase[k] /\ attempts'[k] = attempts[k] /\ failures'[k] = failures[k]
    BY <1>7 DEF ClientStep, Open, Refused, Closed, TimerFires, Hear, Disconnect,
                ScheduleReconnect, TypeOK, clientVars
  <2> QED
    BY <2>1 DEF Counted
<1>8. CASE Emit \/ HostStops \/ HostStarts \/ Hear(k)
           \/ \E o \in Clients : ServerStep(o) \/ Break(o)
  BY <1>1, <1>8 DEF Emit, HostStops, HostStarts, Hear, ServerStep, Subscribe, Take, Lag, Break, clientVars
<1>9. CASE UNCHANGED vars
  BY <1>1, <1>9 DEF vars, clientVars
<1> QED
  BY <1>2, <1>3, <1>4, <1>5, <1>6, <1>7, <1>8, <1>9 DEF Next, ClientStep

AttemptsCounted == \A k \in Clients : Counted(k)

\* A client gives up only after as many refusals in a row as it has attempts.
THEOREM HubGivesUpLate == Spec => []GivesUpLate
<1>1. Init => AttemptsCounted
  BY 0 <= 0 + 1 DEF Init, AttemptsCounted, Counted
<1>2. TypeOK /\ AttemptsCounted /\ [Next]_vars => AttemptsCounted'
  BY CountedStep DEF AttemptsCounted
<1>3. AttemptsCounted => GivesUpLate
  BY DEF AttemptsCounted, Counted, GivesUpLate
<1>4. FeedInv => TypeOK
  BY DEF FeedInv
<1> QED
  BY <1>1, <1>2, <1>3, <1>4, FeedInvariant, PTL DEF Spec
=============================================================================
