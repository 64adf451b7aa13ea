----------------------- MODULE TelemetryPipelineProofs -----------------------
(***************************************************************************)
(* Proofs about the telemetry pipeline, for any devices, frames, clients,  *)
(* workers and bounds: it drives the alarm core and the data processor as  *)
(* their own specifications say, so that what is proved of the engines     *)
(* holds of the pipeline; what clients read is recent; the statistics are  *)
(* those of the readings since the last clear; recordings are kept and     *)
(* gapless; and clients show whether one is under way.                     *)
(***************************************************************************)
EXTENDS TelemetryPipeline, AlarmSystemProofs, SequenceTheorems, FiniteSetTheorems, WellFoundedInduction

\* A frame on its way through a worker is a frame of a device.
WorkerInv == worker \in [Workers -> {Idle} \cup [pc : {"check", "write"}, item : Items]]

\* The stamps are typed as far as the processor's step needs them.
PushedInv == pushed \in [Devices -> Seq(Items)]

LEMMA PushedStep ==
  ASSUME PushedInv, NEW d \in Devices, NEW item \in Items
  PROVE  [pushed EXCEPT ![d] = Append(@, item)] \in [Devices -> Seq(Items)]
BY AppendProperties DEF PushedInv

LEMMA ReceiveItem ==
  ASSUME PushedInv, NEW d \in Devices, NEW payload \in Payloads
  PROVE  [device |-> d, stamp |-> Len(pushed[d]) + 1, channels |-> Parse(payload)] \in Items
<1>1. Len(pushed[d]) + 1 \in Nat
  BY LenProperties DEF PushedInv
<1> QED
  BY <1>1, PayloadAssumption DEF Items

FlowInv == WorkerInv /\ PushedInv

LEMMA FlowInvInit == Init => FlowInv
<1> SUFFICES ASSUME Init PROVE FlowInv
  OBVIOUS
<1>1. WorkerInv
  BY DEF Init, WorkerInv
<1>2. PushedInv
  BY EmptySeq DEF Init, ProcessorInit, PushedInv
<1> QED
  BY <1>1, <1>2 DEF FlowInv

LEMMA FlowInvStep == FlowInv /\ [Next]_vars => FlowInv'
<1> SUFFICES ASSUME FlowInv, [Next]_vars PROVE FlowInv'
  OBVIOUS
<1> USE DEF FlowInv
<1>1. ASSUME NEW w \in Workers, NEW d \in Devices, NEW payload \in Payloads, Receive(w, d, payload)
      PROVE  FlowInv'
  <2> DEFINE item == [device |-> d, stamp |-> Len(pushed[d]) + 1, channels |-> Parse(payload)]
  <2>1. item \in Items
    BY ReceiveItem
  <2>2. /\ pushed' = [pushed EXCEPT ![d] = Append(@, item)]
        /\ worker' = [worker EXCEPT ![w] = [pc |-> "check", item |-> item]]
    BY <1>1 DEF Receive, AddData
  <2> HIDE DEF item
  <2>3. [pc |-> "check", item |-> item] \in [pc : {"check", "write"}, item : Items]
    BY <2>1
  <2>4. WorkerInv'
    BY <2>2, <2>3 DEF WorkerInv
  <2>5. PushedInv'
    BY <2>1, <2>2, PushedStep DEF PushedInv
  <2> QED
    BY <2>4, <2>5
<1>2. ASSUME NEW w \in Workers, Check(w) PROVE FlowInv'
  <2>1. worker[w] \in [pc : {"check", "write"}, item : Items]
    BY <1>2 DEF Check, WorkerInv, Idle
  <2>2. [worker[w] EXCEPT !.pc = "write"] \in [pc : {"check", "write"}, item : Items]
    BY <2>1
  <2>3. worker' = [worker EXCEPT ![w] = [worker[w] EXCEPT !.pc = "write"]] /\ pushed' = pushed
    BY <1>2 DEF Check, processorVars
  <2> QED
    BY <2>2, <2>3 DEF WorkerInv, PushedInv
<1>3. ASSUME NEW w \in Workers, Write(w) PROVE FlowInv'
  BY <1>3 DEF Write, processorVars, WorkerInv, PushedInv
<1>4. CASE UNCHANGED <<worker, pushed>>
  BY <1>4 DEF WorkerInv, PushedInv
<1>5. ASSUME NEW d \in Devices, ProcessorCall(d) PROVE UNCHANGED <<worker, pushed>>
  BY <1>5 DEF ProcessorCall, Call, SetBufferSize, ClearData, ClearAll
<1> QED
  BY <1>1, <1>2, <1>3, <1>4, <1>5
     DEF Next, vars, Start, Stop, EmitChanged, Respond, Hear, AlarmCall, RecorderCall, Clock, Call,
         processorVars, taskVars

-----------------------------------------------------------------------------
(* The engines inside the pipeline.                                        *)

\* A step of the pipeline is a step of the alarm core or leaves it alone.
LEMMA AlarmStep == FlowInv /\ [Next]_vars => [AlarmNext]_alarmVars
<1> SUFFICES ASSUME FlowInv, [Next]_vars PROVE AlarmNext \/ UNCHANGED alarmVars
  OBVIOUS
<1>1. ASSUME NEW w \in Workers, Check(w) PROVE AlarmNext
  <2>1. worker[w] \in [pc : {"check", "write"}, item : Items]
    BY <1>1 DEF Check, FlowInv, WorkerInv, Idle
  <2>2. worker[w].item.device \in Devices /\ worker[w].item.channels \in Frames
    BY <2>1 DEF Items
  <2> QED
    BY <1>1, <2>2 DEF Check, AlarmNext
<1>2. ASSUME NEW d \in Devices, AlarmCall(d) PROVE AlarmNext
  BY <1>2 DEF AlarmCall, AlarmNext
<1>3. ASSUME NEW w \in Workers, NEW d \in Devices, NEW payload \in Payloads, Receive(w, d, payload)
      PROVE  UNCHANGED alarmVars
  BY <1>3 DEF Receive
<1>4. ASSUME NEW d \in Devices, ProcessorCall(d) PROVE UNCHANGED alarmVars
  BY <1>4 DEF ProcessorCall
<1> QED
  BY <1>1, <1>2, <1>3, <1>4
     DEF Next, vars, Write, Start, Stop, EmitChanged, Respond, Hear, RecorderCall, Clock

\* The pipeline drives the alarm core as its specification says.
THEOREM PipelineDrivesAlarms == Spec => AlarmSpec
<1>1. Init => AlarmInit
  BY DEF Init
<1> QED
  BY <1>1, FlowInvInit, FlowInvStep, AlarmStep, PTL DEF Spec, AlarmSpec

\* What is proved of the alarm core holds in the pipeline: the order of
\* acknowledgement, one record per excursion, and no unseen alarm is lost.
THEOREM PipelineAlarms ==
  Spec => []OldestAcknowledgedFirst /\ OneRecordPerExcursion /\ UnseenAlarmsSurvive
BY PipelineDrivesAlarms, AcknowledgeOrder, Excursions, UnseenSurvive

\* A step of the pipeline is a step of the data processor or leaves it alone.
LEMMA ProcessorStep == FlowInv /\ [Next]_vars => [ProcessorNext]_processorVars
<1> SUFFICES ASSUME FlowInv, [Next]_vars PROVE ProcessorNext \/ UNCHANGED processorVars
  OBVIOUS
<1>1. ASSUME NEW w \in Workers, NEW d \in Devices, NEW payload \in Payloads, Receive(w, d, payload)
      PROVE  ProcessorNext
  <2>1. AddData(d, [device |-> d, stamp |-> Len(pushed[d]) + 1, channels |-> Parse(payload)])
    BY <1>1 DEF Receive
  <2> QED
    BY <2>1, PayloadAssumption DEF ProcessorNext
<1>2. ASSUME NEW d \in Devices, ProcessorCall(d) PROVE ProcessorNext
  BY <1>2 DEF ProcessorCall, ProcessorNext
<1>3. ASSUME NEW w \in Workers, Check(w) \/ Write(w) PROVE UNCHANGED processorVars
  BY <1>3 DEF Check, Write
<1>4. ASSUME NEW d \in Devices, AlarmCall(d) PROVE UNCHANGED processorVars
  BY <1>4 DEF AlarmCall
<1> QED
  BY <1>1, <1>2, <1>3, <1>4
     DEF Next, vars, Start, Stop, EmitChanged, Respond, Hear, RecorderCall, Clock

\* The pipeline drives the data processor as its specification says.
THEOREM PipelineDrivesProcessor == Spec => ProcessorSpec
<1>1. Init => ProcessorInit
  BY DEF Init
<1> QED
  BY <1>1, FlowInvInit, FlowInvStep, ProcessorStep, PTL DEF Spec, ProcessorSpec

-----------------------------------------------------------------------------
(* Ends of sequences.                                                      *)

\* s is the end of t, element by element.
Ends(s, t) ==
  /\ Len(s) <= Len(t)
  /\ \A i \in 1..Len(s) : s[i] = t[Len(t) - Len(s) + i]

\* LastN returns an end, of the length asked for at most.
LEMMA LastNEnds ==
  ASSUME NEW S, NEW s \in Seq(S), NEW n \in Nat
  PROVE  LastN(s, n) \in Seq(S) /\ Ends(LastN(s, n), s) /\ Len(LastN(s, n)) <= n
<1>0. Len(s) \in Nat /\ \A i \in 1..Len(s) : s[i] \in S
  BY LenProperties
<1>1. CASE Len(s) <= n
  <2>1. LastN(s, n) = s
    BY <1>1 DEF LastN
  <2>2. Ends(s, s)
    BY <1>0 DEF Ends
  <2> QED
    BY <1>1, <2>1, <2>2
<1>2. CASE ~(Len(s) <= n)
  <2> DEFINE m == Len(s) - n + 1
             t == SubSeq(s, m, Len(s))
  <2>1. m \in Int /\ Len(s) \in Int /\ m <= Len(s) + 1 /\ \A i \in m..Len(s) : s[i] \in S
    BY <1>0, <1>2
  <2>2. t \in Seq(S) /\ Len(t) = n /\ \A i \in 1..n : t[i] = s[m + i - 1]
    <3>1. /\ t \in Seq(S) /\ Len(t) = IF m <= Len(s) THEN Len(s) - m + 1 ELSE 0
          /\ \A i \in 1..Len(s) - m + 1 : t[i] = s[m + i - 1]
      BY <2>1, SubSeqProperties
    <3>2. Len(s) - m + 1 = n
      BY <1>0
    <3> QED
      BY <1>0, <1>2, <2>1, <3>1, <3>2
  <2>3. LastN(s, n) = t
    BY <1>2 DEF LastN
  <2>4. Ends(t, s)
    <3>1. \A i \in 1..n : m + i - 1 = Len(s) - n + i
      BY <1>0
    <3> HIDE DEF t, m
    <3> QED
      BY <1>0, <1>2, <2>2, <3>1 DEF Ends
  <2> QED
    BY <2>2, <2>3, <2>4
<1> QED
  BY <1>1, <1>2

LEMMA EndsOfEnds ==
  ASSUME NEW S, NEW r \in Seq(S), NEW s \in Seq(S), NEW t \in Seq(S), Ends(r, s), Ends(s, t)
  PROVE  Ends(r, t)
<1>1. Len(r) \in Nat /\ Len(s) \in Nat /\ Len(t) \in Nat
  BY LenProperties
<1>2. ASSUME NEW i \in 1..Len(r) PROVE r[i] = t[Len(t) - Len(r) + i]
  <2>1. r[i] = s[Len(s) - Len(r) + i] /\ Len(s) - Len(r) + i \in 1..Len(s)
    BY <1>1 DEF Ends
  <2>2. s[Len(s) - Len(r) + i] = t[Len(t) - Len(s) + (Len(s) - Len(r) + i)]
    BY <2>1 DEF Ends
  <2>3. Len(t) - Len(s) + (Len(s) - Len(r) + i) = Len(t) - Len(r) + i
    BY <1>1
  <2> QED
    BY <2>1, <2>2, <2>3
<1> QED
  BY <1>1, <1>2 DEF Ends

LEMMA AppendEnds ==
  ASSUME NEW S, NEW s \in Seq(S), NEW t \in Seq(S), NEW e \in S, Ends(s, t)
  PROVE  Ends(Append(s, e), Append(t, e))
<1> DEFINE u == Append(s, e)
           v == Append(t, e)
<1>1. /\ Len(s) \in Nat /\ Len(t) \in Nat /\ Len(u) = Len(s) + 1 /\ Len(v) = Len(t) + 1
      /\ Len(s) <= Len(t)
  BY LenProperties, AppendProperties DEF Ends
<1>2. ASSUME NEW i \in 1..Len(u) PROVE u[i] = v[Len(v) - Len(u) + i]
  <2>1. Len(v) - Len(u) + i = Len(t) - Len(s) + i
    BY <1>1
  <2>2. CASE i = Len(s) + 1
    <3>1. Len(t) - Len(s) + i = Len(t) + 1
      BY <1>1, <2>2
    <3> QED
      BY <2>1, <2>2, <3>1, AppendProperties
  <2>3. CASE i \in 1..Len(s)
    <3>1. Len(t) - Len(s) + i \in 1..Len(t)
      BY <1>1, <2>3
    <3>2. u[i] = s[i] /\ v[Len(t) - Len(s) + i] = t[Len(t) - Len(s) + i]
      BY <2>3, <3>1, AppendProperties
    <3> QED
      BY <2>1, <2>3, <3>2 DEF Ends
  <2> QED
    BY <1>1, <1>2, <2>2, <2>3
<1> HIDE DEF u, v
<1>3. Ends(u, v)
  BY <1>1, <1>2 DEF Ends
<1> QED
  BY <1>3 DEF u, v

LEMMA EmptyEnds == ASSUME NEW S, NEW t \in Seq(S) PROVE Ends(<<>>, t)
BY EmptySeq, LenProperties DEF Ends

LEMMA ReverseSeq ==
  ASSUME NEW S, NEW s \in Seq(S)
  PROVE  /\ Len(s) \in Nat /\ Reverse(s) \in Seq(S) /\ Len(Reverse(s)) = Len(s)
         /\ \A i \in 1..Len(s) : Reverse(s)[i] = s[Len(s) - i + 1]
<1>1. Len(s) \in Nat /\ \A i \in 1..Len(s) : s[Len(s) - i + 1] \in S
  BY LenProperties
<1> QED
  BY <1>1 DEF Reverse

LEMMA EndsIsSuffix ==
  ASSUME NEW S, NEW s \in Seq(S), NEW t \in Seq(S), Ends(s, t)
  PROVE  IsSuffix(s, t)
<1> DEFINE r == Reverse(s)
           q == Reverse(t)
           n == Len(s)
<1>1. /\ n \in Nat /\ Len(t) \in Nat /\ n <= Len(t)
      /\ r \in Seq(S) /\ q \in Seq(S) /\ Len(r) = n /\ Len(q) = Len(t)
      /\ \A i \in 1..n : r[i] = s[n - i + 1]
      /\ \A i \in 1..Len(t) : q[i] = t[Len(t) - i + 1]
  BY ReverseSeq DEF Ends
<1>2. ASSUME NEW i \in 1..n PROVE r[i] = q[i]
  <2>1. r[i] = s[n - i + 1] /\ n - i + 1 \in 1..n
    BY <1>1
  <2>2. s[n - i + 1] = t[Len(t) - n + (n - i + 1)]
    BY <2>1 DEF Ends
  <2>3. Len(t) - n + (n - i + 1) = Len(t) - i + 1 /\ i \in 1..Len(t)
    BY <1>1
  <2> QED
    BY <1>1, <2>1, <2>2, <2>3
<1>3. \A i \in 1..n : r[i] \in S /\ q[i] \in S
  BY <1>1, LenProperties
<1> HIDE DEF r, q, n
<1>4. /\ SubSeq(r, 1, n) \in Seq(S) /\ SubSeq(q, 1, n) \in Seq(S)
      /\ Len(SubSeq(r, 1, n)) = n /\ Len(SubSeq(q, 1, n)) = n
      /\ \A i \in 1..n : SubSeq(r, 1, n)[i] = r[i] /\ SubSeq(q, 1, n)[i] = q[i]
  <2>1. 1 \in Int /\ n \in Int /\ n - 1 + 1 = n /\ (IF 1 <= n THEN n - 1 + 1 ELSE 0) = n
    BY <1>1
  <2>2. \A i \in 1..n : 1 + i - 1 = i
    OBVIOUS
  <2> QED
    BY <1>3, <2>1, <2>2, SubSeqProperties
<1>5. SubSeq(r, 1, n) = SubSeq(q, 1, n)
  BY <1>2, <1>4, SeqEqual
<1> QED
  BY <1>1, <1>5 DEF IsSuffix, IsPrefix, r, q
-----------------------------------------------------------------------------
(* The buffers and what clients read of them.                              *)

BufferInv ==
  /\ PushedInv
  /\ buffer \in [Devices -> Seq(Items)]
  /\ limit \in [Devices -> Nat]
  /\ \A d \in Devices : Ends(buffer[d], pushed[d]) /\ Len(buffer[d]) <= limit[d]

LEMMA BufferInvInit == Init => BufferInv
<1> SUFFICES ASSUME Init PROVE BufferInv
  OBVIOUS
<1>1. PushedInv
  BY FlowInvInit DEF FlowInv
<1>2. buffer \in [Devices -> Seq(Items)] /\ limit \in [Devices -> Nat]
  BY EmptySeq, ProcessorAssumption DEF Init, ProcessorInit
<1>3. ASSUME NEW d \in Devices PROVE Ends(buffer[d], pushed[d]) /\ Len(buffer[d]) <= limit[d]
  <2>1. buffer[d] = <<>> /\ pushed[d] = <<>> /\ limit[d] \in Nat
    BY <1>2 DEF Init, ProcessorInit
  <2> QED
    BY <2>1, EmptySeq DEF Ends
<1> QED
  BY <1>1, <1>2, <1>3 DEF BufferInv

\* Trimming keeps an end of the stream, within the limit.
LEMMA TrimmedEnds ==
  ASSUME NEW s \in Seq(Items), NEW t \in Seq(Items), NEW n \in Nat, Ends(s, t)
  PROVE  Trimmed(s, n) \in Seq(Items) /\ Ends(Trimmed(s, n), t) /\ Len(Trimmed(s, n)) <= n
<1>1. LastN(s, n) \in Seq(Items) /\ Ends(LastN(s, n), s) /\ Len(LastN(s, n)) <= n
  BY LastNEnds
<1>2. Ends(LastN(s, n), t)
  BY <1>1, EndsOfEnds
<1> QED
  BY <1>1, <1>2 DEF Trimmed

LEMMA BufferInvStep == BufferInv /\ [ProcessorNext]_processorVars /\ FlowInv' => BufferInv'
<1> SUFFICES ASSUME BufferInv, [ProcessorNext]_processorVars, FlowInv' PROVE BufferInv'
  OBVIOUS
<1>0. PushedInv'
  BY DEF FlowInv
<1>1. ASSUME NEW d \in Devices, NEW item, AddData(d, item) PROVE BufferInv'
  <2>1. pushed' = [pushed EXCEPT ![d] = Append(@, item)] /\ limit' = limit
    BY <1>1 DEF AddData
  <2>2. item \in Items
    <3>1. Append(pushed[d], item) \in Seq(Items)
      BY <1>0, <2>1 DEF PushedInv, BufferInv
    <3>2. pushed[d] \in Seq(Items) /\ Len(pushed[d]) \in Nat
      BY LenProperties DEF BufferInv, PushedInv
    <3>3. Len(Append(pushed[d], item)) = Len(pushed[d]) + 1
      BY <3>2
    <3>4. Append(pushed[d], item)[Len(pushed[d]) + 1] \in Items
      BY <3>1, <3>2, <3>3, LenProperties
    <3>5. Append(pushed[d], item)[Len(pushed[d]) + 1] = item
      BY <3>2
    <3> QED
      BY <3>4, <3>5
  <2> DEFINE b == Append(buffer[d], item)
             p == Append(pushed[d], item)
             t == Trimmed(b, limit[d])
  <2>3. b \in Seq(Items) /\ p \in Seq(Items) /\ Ends(b, p)
    BY <2>2, AppendEnds, AppendProperties DEF BufferInv, PushedInv
  <2>4. t \in Seq(Items) /\ Ends(t, p) /\ Len(t) <= limit[d]
    BY <2>3, TrimmedEnds DEF BufferInv
  <2>5. buffer' = [buffer EXCEPT ![d] = t] /\ pushed' = [pushed EXCEPT ![d] = p]
    BY <1>1, <2>1 DEF AddData
  <2> HIDE DEF t, p
  <2> QED
    BY <1>0, <2>1, <2>4, <2>5 DEF BufferInv, PushedInv
<1>2. ASSUME NEW d \in Devices, NEW size \in Limits, SetBufferSize(d, size) PROVE BufferInv'
  <2> DEFINE t == Trimmed(buffer[d], size)
  <2>1. size \in Nat
    BY ProcessorAssumption
  <2>2. t \in Seq(Items) /\ Ends(t, pushed[d]) /\ Len(t) <= size
    BY <2>1, TrimmedEnds DEF BufferInv, PushedInv
  <2>3. /\ buffer' = [buffer EXCEPT ![d] = t] /\ limit' = [limit EXCEPT ![d] = size]
        /\ pushed' = pushed
    BY <1>2 DEF SetBufferSize
  <2> HIDE DEF t
  <2> QED
    BY <1>0, <2>1, <2>2, <2>3 DEF BufferInv, PushedInv
<1>3. ASSUME NEW d \in Devices, ClearData(d) PROVE BufferInv'
  <2>1. buffer' = [buffer EXCEPT ![d] = <<>>] /\ limit' = limit /\ pushed' = pushed
    BY <1>3 DEF ClearData
  <2>2. <<>> \in Seq(Items) /\ Ends(<<>>, pushed[d]) /\ Len(<<>>) <= limit[d]
    BY EmptyEnds, EmptySeq DEF BufferInv, PushedInv
  <2> QED
    BY <1>0, <2>1, <2>2 DEF BufferInv, PushedInv
<1>4. CASE ClearAll
  <2>1. /\ buffer' = [d \in Devices |-> <<>>] /\ limit' = [d \in Devices |-> DefaultLimit]
        /\ pushed' = pushed
    BY <1>4 DEF ClearAll
  <2>2. \A d \in Devices : Ends(<<>>, pushed[d])
    BY EmptyEnds DEF BufferInv, PushedInv
  <2>3. <<>> \in Seq(Items) /\ Len(<<>>) = 0 /\ DefaultLimit \in Nat
    BY EmptySeq, ProcessorAssumption
  <2> QED
    BY <1>0, <2>1, <2>2, <2>3 DEF BufferInv
<1>5. CASE UNCHANGED processorVars
  BY <1>5 DEF BufferInv, PushedInv, processorVars
<1> QED
  BY <1>1, <1>2, <1>3, <1>4, <1>5 DEF ProcessorNext

LEMMA BufferInvReads == BufferInv => ReadsAreRecent
<1> SUFFICES ASSUME BufferInv, NEW d \in Devices
    PROVE /\ Len(buffer[d]) <= limit[d]
          /\ \A n \in 0..limit[d] : IsSuffix(GetLatestData(d, n), pushed[d])
          /\ IsSuffix(ExportJson(d).rows, pushed[d])
          /\ IsSuffix(ExportCsv(d).rows, pushed[d])
          /\ \A i \in DOMAIN ExportCsv(d).rows :
               DOMAIN ExportCsv(d).rows[i].channels = ExportCsv(d).header
  BY DEF ReadsAreRecent
<1>1. /\ buffer[d] \in Seq(Items) /\ pushed[d] \in Seq(Items) /\ limit[d] \in Nat
      /\ Ends(buffer[d], pushed[d]) /\ Len(buffer[d]) <= limit[d]
  BY DEF BufferInv, PushedInv
<1>2. ASSUME NEW n \in 0..limit[d] PROVE IsSuffix(GetLatestData(d, n), pushed[d])
  <2>1. n \in Nat
    BY <1>1
  <2>2. LastN(buffer[d], n) \in Seq(Items) /\ Ends(LastN(buffer[d], n), buffer[d])
    BY <1>1, <2>1, LastNEnds
  <2>3. Ends(LastN(buffer[d], n), pushed[d])
    BY <1>1, <2>2, EndsOfEnds
  <2> QED
    BY <1>1, <2>2, <2>3, EndsIsSuffix DEF GetLatestData
<1>3. IsSuffix(buffer[d], pushed[d])
  BY <1>1, EndsIsSuffix
<1>4. ExportJson(d).rows = buffer[d]
  BY DEF ExportJson, NoExport, GetData
<1>5. IsSuffix(<<>>, pushed[d])
  BY <1>1, EmptyEnds, EmptySeq, EndsIsSuffix
<1>6. CASE ExportCsv(d) = NoExport
  <2>1. ExportCsv(d).rows = <<>>
    BY <1>6 DEF NoExport
  <2> QED
    BY <1>1, <1>2, <1>3, <1>4, <1>5, <2>1
<1>7. CASE ExportCsv(d) # NoExport
  <2>1. /\ ExportCsv(d) = [header |-> DOMAIN Head(buffer[d]).channels, rows |-> buffer[d]]
        /\ \A i \in DOMAIN buffer[d] :
             DOMAIN buffer[d][i].channels = DOMAIN Head(buffer[d]).channels
    BY <1>7 DEF ExportCsv, GetData
  <2>2. /\ ExportCsv(d).rows = buffer[d]
        /\ ExportCsv(d).header = DOMAIN Head(buffer[d]).channels
    BY <2>1
  <2> QED
    BY <1>1, <1>2, <1>3, <1>4, <2>1, <2>2
<1> QED
  BY <1>6, <1>7

\* Buffers, latest frames and exports are always a gapless end of the stream.
THEOREM PipelineReads == Spec => []ReadsAreRecent
<1>1. FlowInv /\ BufferInv /\ [Next]_vars => BufferInv'
  BY FlowInvStep, ProcessorStep, BufferInvStep
<1> QED
  BY <1>1, FlowInvInit, FlowInvStep, BufferInvInit, BufferInvReads, PTL DEF Spec

-----------------------------------------------------------------------------
(* The files of the recorder.                                              *)

FileType == [rows : Seq(Items), intact : BOOLEAN]

RecorderType ==
  [recording : BOOLEAN, device : Devices \cup {NoFile}, file : Names \cup {NoFile},
   rows : Nat, splitAt : Nat, autoSplit : BOOLEAN]

\* The open file is one of the files, and every file is well formed.
RecorderInv ==
  /\ recorder \in RecorderType
  /\ second \in 0..LastSecond
  /\ files \in [Names -> {NoFile} \cup FileType]
  /\ recorder.file # NoFile => recorder.file \in Names /\ files[recorder.file] \in FileType

\* What a step may do to the files.
FilesKept ==
  \A n \in Names :
    files[n] # NoFile =>
      \/ files'[n] = files[n]
      \/ n = recorder.file /\ IsPrefix(files[n].rows, files'[n].rows)
      \/ n.second = second

LEMMA RecorderInvInit == Init => RecorderInv
<1> SUFFICES ASSUME Init PROVE RecorderInv
  OBVIOUS
<1>1. LastSecond \in Nat
  BY RecorderAssumption
<1> QED
  BY <1>1 DEF Init, RecorderInit, RecorderInv, RecorderType

LEMMA PrefixOfItself == ASSUME NEW s PROVE IsPrefix(s, s)
BY DEF IsPrefix

LEMMA PrefixOfAppend ==
  ASSUME NEW s \in Seq(Items), NEW e \in Items
  PROVE  Append(s, e) \in Seq(Items) /\ IsPrefix(s, Append(s, e))
<1> DEFINE t == Append(s, e)
           n == Len(s)
<1>1. /\ t \in Seq(Items) /\ n \in Nat /\ Len(t) = n + 1
      /\ \A i \in 1..n : t[i] = s[i] /\ s[i] \in Items /\ t[i] \in Items
  BY AppendProperties, LenProperties
<1>2. 1 \in Int /\ n \in Int /\ (IF 1 <= n THEN n - 1 + 1 ELSE 0) = n /\ n - 1 + 1 = n
  BY <1>1
<1>3. \A i \in 1..n : 1 + i - 1 = i
  BY <1>1
<1> HIDE DEF t, n
<1>4. /\ SubSeq(s, 1, n) \in Seq(Items) /\ Len(SubSeq(s, 1, n)) = n
      /\ \A i \in 1..n : SubSeq(s, 1, n)[i] = s[i]
  BY <1>1, <1>2, <1>3, SubSeqProperties
<1>5. /\ SubSeq(t, 1, n) \in Seq(Items) /\ Len(SubSeq(t, 1, n)) = n
      /\ \A i \in 1..n : SubSeq(t, 1, n)[i] = t[i]
  BY <1>1, <1>2, <1>3, SubSeqProperties
<1>6. SubSeq(s, 1, n) = SubSeq(t, 1, n)
  BY <1>1, <1>4, <1>5, SeqEqual
<1> QED
  BY <1>1, <1>6 DEF IsPrefix, t, n

\* Opening a file leaves the others alone.
LEMMA OpenOne ==
  ASSUME NEW fs \in [Names -> {NoFile} \cup FileType], NEW name \in Names, NEW outcome \in Outcomes
  PROVE  /\ FilesAfterOpen(fs, name, outcome) \in [Names -> {NoFile} \cup FileType]
         /\ \A n \in Names \ {name} : FilesAfterOpen(fs, name, outcome)[n] = fs[n]
         /\ outcome = "done" => FilesAfterOpen(fs, name, outcome)[name] \in FileType
<1>1. EmptyFile \in FileType /\ [rows |-> <<>>, intact |-> FALSE] \in FileType
  BY EmptySeq DEF EmptyFile, FileType
<1>2. CASE outcome = "done"
  <2>1. FilesAfterOpen(fs, name, outcome) = [fs EXCEPT ![name] = EmptyFile]
    BY <1>2 DEF FilesAfterOpen
  <2> QED
    BY <1>1, <2>1
<1>3. CASE outcome = "refused"
  <2>1. FilesAfterOpen(fs, name, outcome) = fs
    BY <1>3 DEF FilesAfterOpen
  <2> QED
    BY <1>3, <2>1
<1>4. CASE outcome = "unwritable"
  <2>1. FilesAfterOpen(fs, name, outcome) = [fs EXCEPT ![name] = [rows |-> <<>>, intact |-> FALSE]]
    BY <1>4 DEF FilesAfterOpen
  <2> QED
    BY <1>1, <1>4, <2>1
<1> QED
  BY <1>2, <1>3, <1>4 DEF Outcomes

LEMMA FilenameType ==
  ASSUME second \in 0..LastSecond, NEW d \in Devices
  PROVE  Filename(d) \in Names /\ Filename(d).second = second
BY DEF Filename, Names

LEMMA StartKeeps ==
  ASSUME RecorderInv, NEW d \in Devices, NEW outcome \in Outcomes, StartRecording(d, outcome)
  PROVE  RecorderInv' /\ FilesKept
<1>1. CASE recorder.recording
  <2>1. UNCHANGED <<recorder, files, second>>
    BY <1>1 DEF StartRecording, recorderVars
  <2> QED
    BY <2>1 DEF RecorderInv, FilesKept, RecorderType, FileType
<1>2. CASE ~recorder.recording
  <2> DEFINE name == Filename(d)
             fs   == FilesAfterOpen(files, name, outcome)
  <2>1. name \in Names /\ name.second = second
    BY FilenameType DEF RecorderInv
  <2>2. /\ files' = fs /\ second' = second
        /\ recorder' = IF outcome = "done"
                       THEN [recorder EXCEPT !.recording = TRUE, !.device = d, !.file = name,
                                             !.rows = 0, !.splitAt = second]
                       ELSE [recorder EXCEPT !.device = d]
    BY <1>2 DEF StartRecording
  <2>3. /\ fs \in [Names -> {NoFile} \cup FileType]
        /\ \A n \in Names \ {name} : fs[n] = files[n]
        /\ outcome = "done" => fs[name] \in FileType
    BY <2>1, OpenOne DEF RecorderInv
  <2> HIDE DEF fs, name
  <2>4. FilesKept
    BY <2>1, <2>2, <2>3 DEF FilesKept
  <2>5. CASE outcome = "done"
    <3>1. recorder' \in RecorderType /\ recorder'.file = name
      <4>1. second \in Nat
        BY DEF RecorderInv
      <4>2. recorder' = [recorder EXCEPT !.recording = TRUE, !.device = d, !.file = name,
                                         !.rows = 0, !.splitAt = second]
        BY <2>2, <2>5
      <4> QED
        BY <2>1, <4>1, <4>2 DEF RecorderInv, RecorderType
    <3> QED
      BY <2>1, <2>2, <2>3, <2>4, <2>5, <3>1 DEF RecorderInv
  <2>6. CASE outcome # "done"
    <3>1. recorder' \in RecorderType /\ recorder'.file = recorder.file
      BY <2>2, <2>6 DEF RecorderInv, RecorderType
    <3>2. recorder.file # NoFile => files'[recorder.file] \in FileType
      <4> SUFFICES ASSUME recorder.file # NoFile PROVE fs[recorder.file] \in FileType
        BY <2>2
      <4>1. recorder.file \in Names /\ files[recorder.file] \in FileType
        BY DEF RecorderInv
      <4>2. CASE outcome = "refused"
        BY <4>1, <4>2 DEF fs, FilesAfterOpen
      <4>3. CASE outcome = "unwritable"
        <5>1. fs = [files EXCEPT ![name] = [rows |-> <<>>, intact |-> FALSE]]
          BY <4>3 DEF fs, FilesAfterOpen
        <5>2. [rows |-> <<>>, intact |-> FALSE] \in FileType
          BY EmptySeq DEF FileType
        <5> QED
          BY <4>1, <5>1, <5>2 DEF RecorderInv
      <4> QED
        BY <2>6, <4>2, <4>3 DEF Outcomes
    <3> QED
      BY <2>2, <2>3, <2>4, <3>1, <3>2 DEF RecorderInv
  <2> QED
    BY <2>5, <2>6
<1> QED
  BY <1>1, <1>2

LEMMA WriteKeeps ==
  ASSUME RecorderInv, NEW item \in Items, WriteData(item)
  PROVE  RecorderInv' /\ FilesKept
<1>1. CASE ~Recorded(item.device)
  <2>1. UNCHANGED <<recorder, files, second>>
    BY <1>1 DEF WriteData
  <2> QED
    BY <2>1 DEF RecorderInv, FilesKept
<1>2. CASE Recorded(item.device)
  <2> DEFINE file == recorder.file
             old  == files[file]
  <2>1. /\ file \in Names /\ file # NoFile /\ old \in FileType /\ second' = second
        /\ recorder.device \in Devices
    BY <1>2 DEF Recorded, RecorderInv, WriteData, Items
  <2>2. CASE LoseRow
    <3> DEFINE new == [old EXCEPT !.intact = FALSE]
    <3>1. new \in FileType /\ new.rows = old.rows
      BY <2>1 DEF FileType
    <3>2. files' = [files EXCEPT ![file] = new] /\ recorder' = recorder
      BY <2>2 DEF LoseRow
    <3>3. IsPrefix(old.rows, new.rows)
      BY <3>1, PrefixOfItself
    <3> HIDE DEF new
    <3>4. FilesKept
      BY <2>1, <3>2, <3>3 DEF FilesKept, RecorderInv
    <3> QED
      BY <2>1, <3>1, <3>2, <3>4 DEF RecorderInv
  <2>3. ASSUME NEW outcome \in Outcomes, WriteRow(item, outcome) PROVE RecorderInv' /\ FilesKept
    <3> DEFINE new   == [old EXCEPT !.rows = Append(@, item)]
               after == [files EXCEPT ![file] = new]
               rows  == recorder.rows + 1
               name  == Filename(recorder.device)
               fs    == FilesAfterOpen(after, name, outcome)
    <3>1. new \in FileType /\ IsPrefix(old.rows, new.rows)
      <4>1. old.rows \in Seq(Items)
        BY <2>1 DEF FileType
      <4>2. Append(old.rows, item) \in Seq(Items) /\ IsPrefix(old.rows, Append(old.rows, item))
        BY <4>1, PrefixOfAppend
      <4>3. new.rows = Append(old.rows, item) /\ new \in FileType
        BY <2>1, <4>2 DEF FileType
      <4> QED
        BY <4>2, <4>3
    <3>2. after = [files EXCEPT ![file].rows = Append(@, item)]
      OBVIOUS
    <3>3. rows \in Nat
      BY DEF RecorderInv, RecorderType
    <3>4. name \in Names /\ name.second = second
      BY <2>1, FilenameType DEF RecorderInv
    <3>5. CASE SplitDue(rows)
      <4>1. /\ files' = fs
            /\ recorder' = IF outcome = "done"
                           THEN [recorder EXCEPT !.file = name, !.rows = 0, !.splitAt = second]
                           ELSE [recorder EXCEPT !.file = NoFile, !.rows = rows]
        BY <2>3, <3>2, <3>5 DEF WriteRow
      <4> HIDE DEF new, rows, name
      <4>2. /\ after \in [Names -> {NoFile} \cup FileType] /\ after[file] = new
            /\ \A n \in Names \ {file} : after[n] = files[n]
        BY <2>1, <3>1 DEF RecorderInv
      <4> HIDE DEF after
      <4>3. /\ fs \in [Names -> {NoFile} \cup FileType]
            /\ \A n \in Names \ {name} : fs[n] = after[n]
            /\ outcome = "done" => fs[name] \in FileType
        BY <3>4, <4>2, OpenOne
      <4> HIDE DEF fs
      <4>4. FilesKept
        BY <2>1, <3>1, <3>4, <4>1, <4>2, <4>3 DEF FilesKept
      <4>5. CASE outcome = "done"
        <5>1. recorder' \in RecorderType /\ recorder'.file = name
          <6>1. second \in Nat
            BY DEF RecorderInv
          <6> QED
            BY <3>4, <4>1, <4>5, <6>1 DEF RecorderInv, RecorderType
        <5> QED
          BY <2>1, <3>4, <4>1, <4>3, <4>4, <4>5, <5>1 DEF RecorderInv
      <4>6. CASE outcome # "done"
        <5>1. recorder' \in RecorderType /\ recorder'.file = NoFile
          BY <3>3, <4>1, <4>6 DEF RecorderInv, RecorderType
        <5> QED
          BY <2>1, <4>1, <4>3, <4>4, <5>1 DEF RecorderInv
      <4> QED
        BY <4>5, <4>6
    <3>6. CASE ~SplitDue(rows)
      <4>1. files' = after /\ recorder' = [recorder EXCEPT !.rows = rows]
        BY <2>3, <3>2, <3>6 DEF WriteRow
      <4> HIDE DEF new, rows
      <4>2. FilesKept
        BY <2>1, <3>1, <4>1 DEF FilesKept, RecorderInv
      <4>3. recorder' \in RecorderType /\ recorder'.file = file
        BY <3>3, <4>1 DEF RecorderInv, RecorderType
      <4> QED
        BY <2>1, <3>1, <4>1, <4>2, <4>3 DEF RecorderInv
    <3> QED
      BY <3>5, <3>6
  <2> QED
    BY <1>2, <2>2, <2>3 DEF WriteData
<1> QED
  BY <1>1, <1>2

LEMMA RecorderStep == RecorderInv /\ FlowInv /\ [Next]_vars => RecorderInv' /\ FilesKept
<1> SUFFICES ASSUME RecorderInv, FlowInv, [Next]_vars PROVE RecorderInv' /\ FilesKept
  OBVIOUS
<1>1. ASSUME NEW w \in Workers, Write(w) PROVE RecorderInv' /\ FilesKept
  <2>1. worker[w] \in [pc : {"check", "write"}, item : Items]
    BY <1>1 DEF Write, FlowInv, WorkerInv, Idle
  <2>2. worker[w].item \in Items /\ WriteData(worker[w].item)
    BY <1>1, <2>1 DEF Write
  <2> QED
    BY <2>2, WriteKeeps
<1>2. ASSUME NEW k \in Requesters, NEW d \in Devices, NEW outcome \in Outcomes, Start(k, d, outcome)
      PROVE  RecorderInv' /\ FilesKept
  <2>1. StartRecording(d, outcome)
    BY <1>2 DEF Start
  <2> QED
    BY <2>1, StartKeeps
<1>3. ASSUME NEW k \in Requesters, Stop(k) PROVE RecorderInv' /\ FilesKept
  <2>1. /\ recorder' = [recorder EXCEPT !.recording = FALSE,
                                         !.file = IF recorder.recording THEN NoFile ELSE @]
        /\ files' = files /\ second' = second
    BY <1>3 DEF Stop, StopRecording
  <2>2. recorder' \in RecorderType /\ recorder'.file \in {recorder.file, NoFile}
    BY <2>1 DEF RecorderInv, RecorderType
  <2> QED
    BY <2>1, <2>2 DEF RecorderInv, FilesKept
<1>4. CASE RecorderCall
  <2>1. /\ recorder' = [recorder EXCEPT !.autoSplit = ~recorder.autoSplit]
        /\ files' = files /\ second' = second
    BY <1>4 DEF RecorderCall, SetAutoSplit
  <2>2. recorder' \in RecorderType /\ recorder'.file = recorder.file
    BY <2>1 DEF RecorderInv, RecorderType
  <2> QED
    BY <2>1, <2>2 DEF RecorderInv, FilesKept
<1>5. CASE Clock
  <2>1. /\ second < LastSecond /\ second' = second + 1 /\ recorder' = recorder /\ files' = files
    BY <1>5 DEF Clock, Tick
  <2> QED
    BY <2>1, RecorderAssumption DEF RecorderInv, FilesKept
<1>6. CASE UNCHANGED recorderVars
  BY <1>6 DEF recorderVars, RecorderInv, FilesKept
<1>7. ASSUME NEW w \in Workers, NEW d \in Devices, NEW payload \in Payloads, Receive(w, d, payload)
      PROVE  UNCHANGED recorderVars
  BY <1>7 DEF Receive
<1>8. ASSUME NEW d \in Devices, AlarmCall(d) \/ ProcessorCall(d) PROVE UNCHANGED recorderVars
  BY <1>8 DEF AlarmCall, ProcessorCall
<1> QED
  BY <1>1, <1>2, <1>3, <1>4, <1>5, <1>6, <1>7, <1>8
     DEF Next, vars, Check, EmitChanged, Respond, Hear

\* No recording is lost to a later one, except one of the same device in the
\* second it was opened in, whatever is started, stopped and split.
THEOREM PipelineKeepsRecordings == Spec => RecordingsKept
<1>1. FilesKept => [FilesKept]_vars
  OBVIOUS
<1> QED
  BY <1>1, FlowInvInit, FlowInvStep, RecorderInvInit, RecorderStep, PTL
     DEF Spec, RecordingsKept, FilesKept

-----------------------------------------------------------------------------
(* The flag that clients show.                                             *)

Asking == [pc : {"emit", "respond"}, recording : BOOLEAN]

ShownType ==
  /\ request \in [Clients -> {Idle} \cup Asking]
  /\ inbox \in [Clients -> Seq(BOOLEAN)]
  /\ shown \in [Clients -> BOOLEAN]

\* What client k shows when it has heard everything that is on its way.
LastShown(k) == IF inbox[k] = <<>> THEN shown[k] ELSE inbox[k][Len(inbox[k])]

AllShow == \A k \in Clients : LastShown(k) = recorder.recording

\* The one request under way, and what was said of it so far.
OnlyAsking(k) ==
  /\ \A o \in Others(k) : request[o] = Idle
  /\ request[k] \in Asking
  /\ request[k].recording = recorder.recording
  /\ request[k].pc = "respond" => AllShow

NobodyAsks == \A k \in Clients : request[k] = Idle

Clear == (NobodyAsks /\ AllShow) \/ \E k \in Clients : OnlyAsking(k)

ShownInv == ShownType /\ (~muddled => Clear)

LEMMA ShownInvInit == Init => ShownInv
<1> SUFFICES ASSUME Init PROVE ShownInv
  OBVIOUS
<1>1. ShownType
  BY EmptySeq DEF Init, ShownType
<1>2. ASSUME NEW k \in Clients PROVE request[k] = Idle /\ LastShown(k) = recorder.recording
  BY DEF Init, RecorderInit, LastShown
<1> QED
  BY <1>1, <1>2 DEF ShownInv, Clear, NobodyAsks, AllShow

\* Writing a frame does not end a recording.
LEMMA WriteGoesOn ==
  ASSUME RecorderInv, NEW item, WriteData(item)
  PROVE  recorder'.recording = recorder.recording
<1>1. recorder \in RecorderType
  BY DEF RecorderInv
<1>2. ASSUME NEW outcome \in Outcomes, WriteRow(item, outcome) PROVE recorder'.recording = recorder.recording
  BY <1>1, <1>2 DEF WriteRow, RecorderType
<1>3. CASE LoseRow
  BY <1>3 DEF LoseRow
<1> QED
  BY <1>2, <1>3 DEF WriteData

\* Steps that leave the requests, the flag and the events alone.
LEMMA ShownStays ==
  ASSUME ShownInv, UNCHANGED <<request, inbox, shown, muddled>>,
         recorder'.recording = recorder.recording
  PROVE  ShownInv'
<1>1. ShownType'
  BY DEF ShownInv, ShownType
<1>2. \A k \in Clients : LastShown(k)' = LastShown(k)
  BY DEF LastShown
<1>3. AllShow' = AllShow
  BY <1>2 DEF AllShow
<1>4. Clear => Clear'
  BY <1>3 DEF Clear, OnlyAsking, NobodyAsks, Others
<1> QED
  BY <1>1, <1>4 DEF ShownInv

\* A request that neither failed nor overlapped another is the only one.
LEMMA AskedIsOnly ==
  ASSUME ShownInv, NEW k \in Clients, NEW clean \in BOOLEAN, NEW next \in Asking,
         Ask(k, clean, next), UNCHANGED <<inbox, shown>>,
         clean => next.pc = "emit" /\ next.recording = recorder'.recording
  PROVE  ShownInv'
<1>1. /\ request' = [request EXCEPT ![k] = next]
      /\ muddled' = ~(clean /\ \A o \in Others(k) : request[o] = Idle)
  BY DEF Ask
<1>2. ShownType'
  BY <1>1 DEF ShownInv, ShownType
<1>3. ASSUME ~muddled' PROVE OnlyAsking(k)'
  <2>1. clean /\ \A o \in Others(k) : request[o] = Idle
    BY <1>1, <1>3
  <2>2. request'[k] = next
    BY <1>1 DEF ShownInv, ShownType
  <2>3. \A o \in Others(k) : request'[o] = request[o]
    BY <1>1 DEF ShownInv, ShownType, Others
  <2>4. next.pc = "emit" /\ next.recording = recorder'.recording
    BY <2>1
  <2> QED
    BY <2>1, <2>2, <2>3, <2>4 DEF OnlyAsking, Others
<1> QED
  BY <1>2, <1>3 DEF ShownInv, Clear

LEMMA ShownStart ==
  ASSUME RecorderInv, ShownInv, NEW k \in Clients, NEW d \in Devices, NEW outcome \in Outcomes,
         Start(k, d, outcome)
  PROVE  ShownInv'
<1> DEFINE ok   == recorder.recording \/ outcome = "done"
           next == [pc |-> IF ok THEN "emit" ELSE "respond", recording |-> TRUE]
<1>1. Ask(k, ok, next) /\ StartRecording(d, outcome) /\ UNCHANGED <<inbox, shown>>
  BY DEF Start
<1>2. ok \in BOOLEAN /\ next \in Asking
  BY DEF Asking
<1>3. ASSUME ok PROVE next.pc = "emit" /\ next.recording = recorder'.recording
  <2>0. recorder \in RecorderType
    BY DEF RecorderInv
  <2>1. CASE recorder.recording
    <3>1. recorder' = recorder
      BY <1>1, <2>1 DEF StartRecording, recorderVars
    <3>2. recorder.recording = TRUE
      BY <2>0, <2>1 DEF RecorderType
    <3> QED
      BY <1>3, <3>1, <3>2
  <2>2. CASE ~recorder.recording
    <3>1. outcome = "done"
      BY <1>3, <2>2
    <3>2. recorder' = [recorder EXCEPT !.recording = TRUE, !.device = d, !.file = Filename(d),
                                       !.rows = 0, !.splitAt = second]
      BY <1>1, <2>2, <3>1 DEF StartRecording
    <3>3. recorder'.recording = TRUE
      BY <2>0, <3>2 DEF RecorderType
    <3> QED
      BY <1>3, <3>3
  <2> QED
    BY <2>1, <2>2
<1> HIDE DEF ok, next
<1> QED
  BY <1>1, <1>2, <1>3, AskedIsOnly

LEMMA ShownStop ==
  ASSUME RecorderInv, ShownInv, NEW k \in Clients, Stop(k)
  PROVE  ShownInv'
<1> DEFINE next == [pc |-> "emit", recording |-> FALSE]
<1>1. Ask(k, TRUE, next) /\ StopRecording /\ UNCHANGED <<inbox, shown>>
  BY DEF Stop
<1>2. next \in Asking /\ TRUE \in BOOLEAN
  BY DEF Asking
<1>3. recorder'.recording = FALSE
  BY <1>1 DEF StopRecording, RecorderInv, RecorderType
<1>4. next.pc = "emit" /\ next.recording = recorder'.recording
  BY <1>3
<1> HIDE DEF next
<1> QED
  BY <1>1, <1>2, <1>4, AskedIsOnly

LEMMA ShownEmit ==
  ASSUME ShownInv, NEW k \in Clients, EmitChanged(k)
  PROVE  ShownInv'
<1> DEFINE r == request[k].recording
           next == [request[k] EXCEPT !.pc = "respond"]
<1>1. /\ request[k].pc = "emit" /\ request' = [request EXCEPT ![k] = next]
      /\ inbox' = [o \in Clients |-> Append(inbox[o], r)]
      /\ UNCHANGED <<shown, muddled, recorder>>
  BY DEF EmitChanged, Proceed, recorderVars
<1>2. request[k] \in Asking
  BY <1>1 DEF ShownInv, ShownType, Idle
<1>3. r \in BOOLEAN /\ next \in Asking /\ next.recording = r /\ next.pc = "respond"
  BY <1>2 DEF Asking
<1> HIDE DEF r, next
<1>4. ASSUME NEW o \in Clients
      PROVE  inbox'[o] \in Seq(BOOLEAN) /\ LastShown(o)' = r
  <2>1. inbox[o] \in Seq(BOOLEAN)
    BY DEF ShownInv, ShownType
  <2>2. /\ Append(inbox[o], r) \in Seq(BOOLEAN) /\ Append(inbox[o], r) # <<>>
        /\ Append(inbox[o], r)[Len(Append(inbox[o], r))] = r
    BY <1>3, <2>1, AppendProperties, LenProperties
  <2>3. inbox'[o] = Append(inbox[o], r)
    BY <1>1
  <2> QED
    BY <2>2, <2>3 DEF LastShown
<1>5. ShownType'
  BY <1>1, <1>3, <1>4 DEF ShownInv, ShownType
<1>6. ASSUME Clear PROVE OnlyAsking(k)'
  <2>0. request[k] # Idle
    BY <1>2 DEF Asking, Idle
  <2>1. OnlyAsking(k)
    BY <1>6, <2>0 DEF Clear, NobodyAsks, OnlyAsking, Others
  <2>2. r = recorder'.recording /\ recorder' = recorder
    BY <1>1, <2>1 DEF OnlyAsking, r
  <2>3. AllShow'
    BY <1>4, <2>2 DEF AllShow
  <2>4. request'[k] = next /\ \A o \in Others(k) : request'[o] = request[o]
    BY <1>1 DEF ShownInv, ShownType, Others
  <2> QED
    BY <1>3, <2>1, <2>2, <2>3, <2>4 DEF OnlyAsking, Others
<1> QED
  BY <1>1, <1>5, <1>6 DEF ShownInv, Clear

LEMMA ShownRespond ==
  ASSUME ShownInv, NEW k \in Clients, Respond(k)
  PROVE  ShownInv'
<1> DEFINE r == request[k].recording
<1>1. /\ request[k].pc = "respond" /\ request' = [request EXCEPT ![k] = Idle]
      /\ shown' = [shown EXCEPT ![k] = r]
      /\ UNCHANGED <<inbox, muddled, recorder>>
  BY DEF Respond, Proceed, recorderVars
<1>2. request[k] \in Asking /\ request[k] # Idle
  BY <1>1 DEF ShownInv, ShownType, Idle
<1>3. r \in BOOLEAN
  BY <1>2 DEF Asking
<1> HIDE DEF r
<1>4. ShownType'
  BY <1>1, <1>3 DEF ShownInv, ShownType
<1>5. ASSUME Clear PROVE NobodyAsks' /\ AllShow'
  <2>1. OnlyAsking(k)
    BY <1>2, <1>5 DEF Clear, NobodyAsks, OnlyAsking, Others
  <2>2. r = recorder.recording /\ AllShow
    BY <1>1, <2>1 DEF OnlyAsking, r
  <2>3. NobodyAsks'
    BY <1>1, <2>1 DEF NobodyAsks, OnlyAsking, Others, ShownInv, ShownType
  <2>4. ASSUME NEW o \in Clients PROVE LastShown(o)' = recorder'.recording
    <3>1. LastShown(o) = recorder.recording
      BY <2>2 DEF AllShow
    <3>2. CASE o = k
      <4>1. shown'[o] = r
        BY <1>1, <3>2 DEF ShownInv, ShownType
      <4> QED
        BY <1>1, <2>2, <3>1, <4>1 DEF LastShown
    <3>3. CASE o # k
      <4>1. shown'[o] = shown[o]
        BY <1>1, <3>3 DEF ShownInv, ShownType
      <4> QED
        BY <1>1, <3>1, <4>1 DEF LastShown
    <3> QED
      BY <3>2, <3>3
  <2> QED
    BY <2>3, <2>4 DEF AllShow
<1> QED
  BY <1>1, <1>4, <1>5 DEF ShownInv, Clear

LEMMA ShownHear ==
  ASSUME ShownInv, NEW k \in Clients, Hear(k)
  PROVE  ShownInv'
<1> DEFINE s == inbox[k]
<1>1. /\ s # <<>> /\ inbox' = [inbox EXCEPT ![k] = Tail(s)] /\ shown' = [shown EXCEPT ![k] = Head(s)]
      /\ UNCHANGED <<request, muddled, recorder>>
  BY DEF Hear, recorderVars
<1>2. s \in Seq(BOOLEAN)
  BY DEF ShownInv, ShownType
<1>3. /\ Head(s) \in BOOLEAN /\ Tail(s) \in Seq(BOOLEAN) /\ Len(s) \in Nat /\ Len(s) > 0
      /\ Len(Tail(s)) = Len(s) - 1 /\ \A i \in 1..Len(Tail(s)) : Tail(s)[i] = s[i + 1]
      /\ Head(s) = s[1]
  <2> HIDE DEF s
  <2> QED
    BY <1>1, <1>2
<1>4. ShownType'
  <2> HIDE DEF s
  <2> QED
    BY <1>1, <1>3 DEF ShownInv, ShownType
<1>5. ASSUME NEW o \in Clients PROVE LastShown(o)' = LastShown(o)
  <2>1. CASE o # k
    BY <1>1, <2>1 DEF LastShown, ShownInv, ShownType
  <2>2. CASE o = k
    <3>1. inbox'[o] = Tail(s) /\ shown'[o] = Head(s) /\ LastShown(o) = s[Len(s)]
      BY <1>1, <2>2 DEF LastShown, ShownInv, ShownType
    <3> HIDE DEF s
    <3>2. CASE Tail(s) = <<>>
      <4>1. Len(s) = 1
        <5>1. Len(Tail(s)) = 0 /\ Len(Tail(s)) = Len(s) - 1 /\ Len(s) \in Nat
          <6>1. Len(<<>>) = 0
            BY EmptySeq
          <6> QED
            BY <1>3, <3>2, <6>1, Zenon
        <5> QED
          BY <5>1
      <4> QED
        BY <1>3, <3>1, <3>2, <4>1 DEF LastShown
    <3>3. CASE Tail(s) # <<>>
      <4>1. Len(Tail(s)) \in 1..Len(Tail(s)) /\ Len(Tail(s)) + 1 = Len(s)
        BY <1>3, <3>3, EmptySeq
      <4>2. Tail(s)[Len(Tail(s))] = s[Len(s)]
        BY <1>3, <4>1
      <4> QED
        BY <3>1, <3>3, <4>2 DEF LastShown
    <3> QED
      BY <3>2, <3>3
  <2> QED
    BY <2>1, <2>2
<1>6. AllShow' = AllShow
  BY <1>1, <1>5 DEF AllShow
<1>7. Clear => Clear'
  BY <1>1, <1>6 DEF Clear, OnlyAsking, NobodyAsks, Others
<1> QED
  BY <1>1, <1>4, <1>7 DEF ShownInv

LEMMA ShownInvStep == ShownInv /\ RecorderInv /\ [Next]_vars => ShownInv'
<1> SUFFICES ASSUME ShownInv, RecorderInv, [Next]_vars PROVE ShownInv'
  OBVIOUS
<1>1. ASSUME NEW w \in Workers, Write(w) PROVE ShownInv'
  <2>1. WriteData(worker[w].item) /\ UNCHANGED <<request, inbox, shown, muddled>>
    BY <1>1 DEF Write
  <2> QED
    BY <2>1, WriteGoesOn, ShownStays
<1>2. ASSUME NEW k \in Requesters, NEW d \in Devices, NEW outcome \in Outcomes, Start(k, d, outcome)
      PROVE  ShownInv'
  BY <1>2, ShownStart, PipelineAssumption
<1>3. ASSUME NEW k \in Requesters, Stop(k) \/ EmitChanged(k) \/ Respond(k) PROVE ShownInv'
  BY <1>3, ShownStop, ShownEmit, ShownRespond, PipelineAssumption
<1>4. ASSUME NEW k \in Clients, Hear(k) PROVE ShownInv'
  BY <1>4, ShownHear
<1>5. CASE RecorderCall
  <2>1. recorder'.recording = recorder.recording /\ UNCHANGED <<request, inbox, shown, muddled>>
    BY <1>5 DEF RecorderCall, SetAutoSplit, Call, RecorderInv, RecorderType
  <2> QED
    BY <2>1, ShownStays
<1>6. CASE Clock
  BY <1>6, ShownStays DEF Clock, Tick, taskVars
<1>7. CASE UNCHANGED <<request, inbox, shown, muddled, recorder>>
  BY <1>7, ShownStays
<1>8. ASSUME NEW d \in Devices, AlarmCall(d) \/ ProcessorCall(d)
      PROVE  UNCHANGED <<request, inbox, shown, muddled, recorder>>
  BY <1>8 DEF AlarmCall, ProcessorCall, Call, recorderVars
<1>9. ASSUME NEW w \in Workers, NEW d \in Devices, NEW payload \in Payloads, Receive(w, d, payload)
      PROVE  UNCHANGED <<request, inbox, shown, muddled, recorder>>
  BY <1>9 DEF Receive, recorderVars
<1>10. CASE UNCHANGED vars
  BY <1>7, <1>10 DEF vars, taskVars, recorderVars
<1>11. CASE Next
  <2>1. ASSUME NEW w \in Workers,
               \/ \E d \in Devices, payload \in Payloads : Receive(w, d, payload)
               \/ Check(w) \/ Write(w)
        PROVE  ShownInv'
    <3>1. ASSUME NEW d \in Devices, NEW payload \in Payloads, Receive(w, d, payload)
          PROVE  ShownInv'
      BY <1>7, <1>9, <3>1
    <3>2. CASE Check(w)
      BY <3>2, <1>7 DEF Check, recorderVars
    <3> QED
      BY <1>1, <2>1, <3>1, <3>2
  <2>2. ASSUME NEW k \in Requesters,
               \/ \E d \in Devices, outcome \in Outcomes : Start(k, d, outcome)
               \/ Stop(k) \/ EmitChanged(k) \/ Respond(k)
        PROVE  ShownInv'
    BY <1>2, <1>3, <2>2
  <2>3. ASSUME NEW d \in Devices, AlarmCall(d) \/ ProcessorCall(d) PROVE ShownInv'
    BY <1>7, <1>8, <2>3
  <2> QED
    BY <1>4, <1>5, <1>6, <1>11, <2>1, <2>2, <2>3 DEF Next
<1> QED
  BY <1>10, <1>11

LEMMA ShownInvShows == ShownInv => RecordingShown
<1> SUFFICES ASSUME ShownInv, Quiet, ~muddled, NEW k \in Clients
             PROVE  shown[k] = recorder.recording
  BY DEF RecordingShown
<1>1. Clear /\ \A o \in Clients : request[o] = Idle
  BY DEF ShownInv, Quiet
<1>2. Idle \notin Asking
  BY DEF Idle, Asking
<1>3. AllShow
  BY <1>1, <1>2 DEF Clear, OnlyAsking
<1> QED
  BY <1>3 DEF AllShow, LastShown, Quiet

\* When nothing is on its way every client shows whether the host records, unless
\* the last request failed or overlapped another.
THEOREM PipelineShowsRecording == Spec => []RecordingShown
<1>1. FlowInv /\ RecorderInv /\ [Next]_vars => RecorderInv'
  BY RecorderStep
<1> QED
  BY <1>1, FlowInvInit, FlowInvStep, RecorderInvInit, ShownInvInit, ShownInvStep, ShownInvShows, PTL
     DEF Spec

-----------------------------------------------------------------------------
(* The rows of a recording.                                                *)

\* rows is a gapless stretch of stream.
Stretch(rows, stream) ==
  \A i \in 1..Len(rows) :
    /\ rows[1].stamp + i - 1 \in 1..Len(stream)
    /\ rows[i] = stream[rows[1].stamp + i - 1]

Numbered(stream) == \A i \in 1..Len(stream) : stream[i].stamp = i

LEMMA StretchOfLonger ==
  ASSUME NEW rows \in Seq(Items), NEW stream \in Seq(Items), NEW item \in Items,
         Stretch(rows, stream)
  PROVE  Stretch(rows, Append(stream, item))
<1> DEFINE longer == Append(stream, item)
<1>1. /\ Len(stream) \in Nat /\ Len(longer) = Len(stream) + 1
      /\ \A j \in 1..Len(stream) : longer[j] = stream[j]
  BY LenProperties, AppendProperties
<1>2. 1..Len(stream) \subseteq 1..Len(longer)
  BY <1>1
<1> HIDE DEF longer
<1>3. Stretch(rows, longer)
  BY <1>1, <1>2, Zenon DEF Stretch
<1> QED
  BY <1>3 DEF longer

LEMMA NumberedAppend ==
  ASSUME NEW stream \in Seq(Items), NEW item \in Items, item.stamp = Len(stream) + 1,
         Numbered(stream)
  PROVE  Numbered(Append(stream, item))
<1> DEFINE longer == Append(stream, item)
<1>1. /\ Len(stream) \in Nat /\ Len(longer) = Len(stream) + 1
      /\ \A j \in 1..Len(stream) : longer[j] = stream[j]
      /\ longer[Len(stream) + 1] = item
  BY LenProperties, AppendProperties
<1> HIDE DEF longer
<1>2. Numbered(longer)
  BY <1>1 DEF Numbered
<1> QED
  BY <1>2 DEF longer

\* The next frame of the stream goes on a stretch.
LEMMA StretchGoesOn ==
  ASSUME NEW rows \in Seq(Items), NEW stream \in Seq(Items), NEW item,
         Stretch(rows, stream), Numbered(stream), Len(stream) >= 1, item = stream[Len(stream)],
         rows # <<>> => rows[Len(rows)].stamp = Len(stream) - 1
  PROVE  /\ Stretch(Append(rows, item), stream)
         /\ Append(rows, item)[Len(Append(rows, item))].stamp = Len(stream)
<1> DEFINE n   == Len(rows)
           m   == Len(stream)
           new == Append(rows, item)
<1>1. n \in Nat /\ m \in Nat /\ m \in 1..m
  BY LenProperties
<1>2. item \in Items /\ item.stamp = m
  BY <1>1, LenProperties DEF Numbered
<1>3. Len(new) = n + 1 /\ new[n + 1] = item /\ \A i \in 1..n : new[i] = rows[i]
  BY <1>2, AppendProperties
<1>4. CASE n = 0
  <2>1. Len(new) = 1 /\ new[1] = item
    BY <1>3, <1>4
  <2> HIDE DEF n, m, new
  <2>2. \A i \in 1..Len(new) : i = 1
    BY <2>1
  <2>3. Stretch(new, stream)
    BY <1>1, <1>2, <2>1, <2>2 DEF Stretch, m
  <2> QED
    BY <1>2, <2>1, <2>3 DEF new, m
<1>5. CASE n > 0
  <2>1. rows[1] \in Items /\ n \in 1..n /\ 1 \in 1..n /\ rows # <<>>
    BY <1>1, <1>5, LenProperties, EmptySeq
  <2> DEFINE s == rows[1].stamp
  <2>2. s \in Nat
    BY <2>1 DEF Items
  <2>3. rows[n] = stream[s + n - 1] /\ s + n - 1 \in 1..m
    BY <2>1 DEF Stretch
  <2>4. s + n - 1 = m - 1
    BY <2>1, <2>3 DEF Numbered
  <2>5. s + (n + 1) - 1 = m
    BY <1>1, <2>2, <2>4
  <2>6. new[1] = rows[1]
    BY <1>3, <2>1
  <2>7. ASSUME NEW i \in 1..n PROVE new[i] = stream[s + i - 1] /\ s + i - 1 \in 1..m
    BY <1>3, <2>7 DEF Stretch
  <2> HIDE DEF n, m, new, s
  <2>8. ASSUME NEW i \in 1..Len(new) PROVE new[i] = stream[s + i - 1] /\ s + i - 1 \in 1..m
    <3>1. i \in 1..n \/ i = n + 1
      BY <1>1, <1>3
    <3>2. CASE i = n + 1
      BY <1>1, <1>3, <2>5, <3>2 DEF m
    <3> QED
      BY <2>7, <3>1, <3>2
  <2>9. Stretch(new, stream)
    BY <2>6, <2>8 DEF Stretch, s, m
  <2> QED
    BY <1>2, <1>3, <2>9 DEF new, m
<1> QED
  BY <1>1, <1>4, <1>5

-----------------------------------------------------------------------------
(* What is recorded, and what a worker still has in hand.                  *)

Pending(d) == \E w \in Workers : worker[w] # Idle /\ worker[w].item.device = d

\* The stamp of the last frame of d that was offered to the recorder.
LastOffered(d) == IF Pending(d) THEN Len(pushed[d]) - 1 ELSE Len(pushed[d])

StreamsStamped == \A d \in Devices : Numbered(pushed[d])

\* A worker has the last frame of its device in hand.
InHand ==
  \A w \in Workers : worker[w] # Idle =>
    LET d == worker[w].item.device IN
      d \in Feeds[w] /\ Len(pushed[d]) >= 1 /\ worker[w].item = pushed[d][Len(pushed[d])]

FilesAreStretches ==
  \A n \in Names :
    files[n] # NoFile /\ files[n].intact => Stretch(files[n].rows, pushed[n.device])

\* The open file is the recording of the recorder's device, and it is up to date.
OpenIsCurrent ==
  recorder.file # NoFile =>
    /\ recorder.recording
    /\ recorder.file.device = recorder.device
    /\ LET file == files[recorder.file] IN
       file.intact /\ file.rows # <<>> =>
         file.rows[Len(file.rows)].stamp = LastOffered(recorder.device)

StretchInv == StreamsStamped /\ InHand /\ FilesAreStretches /\ OpenIsCurrent

LEMMA StretchInvInit == Init => StretchInv
<1> SUFFICES ASSUME Init PROVE StretchInv
  OBVIOUS
<1>1. \A d \in Devices : pushed[d] = <<>>
  BY DEF Init, ProcessorInit
<1>2. Len(<<>>) = 0
  BY EmptySeq
<1>3. StreamsStamped
  BY <1>1, <1>2 DEF StreamsStamped, Numbered
<1>4. InHand
  BY DEF Init, InHand
<1>5. FilesAreStretches /\ OpenIsCurrent
  BY DEF Init, RecorderInit, FilesAreStretches, OpenIsCurrent
<1> QED
  BY <1>3, <1>4, <1>5 DEF StretchInv

\* What every step needs of the types.
StretchTypes == FlowInv /\ RecorderInv /\ StretchInv

LEMMA StretchReceive ==
  ASSUME StretchTypes, NEW w \in Workers, NEW d \in Devices, NEW payload \in Payloads,
         Receive(w, d, payload)
  PROVE  StretchInv'
<1> USE DEF StretchTypes
<1> DEFINE item == [device |-> d, stamp |-> Len(pushed[d]) + 1, channels |-> Parse(payload)]
           longer == Append(pushed[d], item)
           job  == [pc |-> "check", item |-> item]
<1>1. item \in Items
  BY ReceiveItem DEF FlowInv
<1>2. /\ worker[w] = Idle /\ d \in Feeds[w]
      /\ pushed' = [pushed EXCEPT ![d] = longer]
      /\ worker' = [worker EXCEPT ![w] = job]
      /\ UNCHANGED <<recorder, files>>
  BY DEF Receive, AddData, recorderVars
<1>3. item.device = d /\ item.stamp = Len(pushed[d]) + 1 /\ job.item = item /\ job # Idle
  BY DEF Idle
<1> HIDE DEF item
<1>4. pushed[d] \in Seq(Items) /\ Len(pushed[d]) \in Nat
  BY LenProperties DEF FlowInv, PushedInv
<1>5. /\ longer \in Seq(Items) /\ Len(longer) = Len(pushed[d]) + 1
      /\ longer[Len(longer)] = item
  BY <1>1, <1>4, AppendProperties
<1>6. Numbered(longer)
  BY <1>1, <1>3, <1>4, NumberedAppend DEF StretchInv, StreamsStamped
<1> HIDE DEF longer, job
<1>7. /\ pushed'[d] = longer /\ \A e \in Devices \ {d} : pushed'[e] = pushed[e]
      /\ worker'[w] = job /\ \A v \in Workers \ {w} : worker'[v] = worker[v]
  BY <1>2 DEF FlowInv, PushedInv, WorkerInv
<1>8. StreamsStamped'
  BY <1>6, <1>7 DEF StretchInv, StreamsStamped
<1>9. ASSUME NEW v \in Workers, worker[v] # Idle
      PROVE  worker[v].item.device \in Devices \ {d} /\ worker[v].item.device \in Feeds[v]
  <2>1. worker[v].item.device \in Feeds[v] /\ v # w
    BY <1>2, <1>9 DEF StretchInv, InHand
  <2> QED
    BY <1>2, <2>1, PipelineAssumption
<1>10. InHand'
  <2>1. ASSUME NEW v \in Workers, worker'[v] # Idle
        PROVE  /\ worker'[v].item.device \in Feeds[v]
               /\ Len(pushed'[worker'[v].item.device]) >= 1
               /\ worker'[v].item = pushed'[worker'[v].item.device][Len(pushed'[worker'[v].item.device])]
    <3>1. CASE v = w
      <4>1. worker'[v].item = item /\ worker'[v].item.device = d /\ pushed'[d] = longer
        BY <1>3, <1>7, <3>1
      <4>2. Len(longer) >= 1
        BY <1>4, <1>5
      <4> QED
        BY <1>2, <1>5, <3>1, <4>1, <4>2
    <3>2. CASE v # w
      <4>1. worker'[v] = worker[v]
        BY <1>7, <3>2
      <4>2. worker[v].item.device \in Devices \ {d}
        BY <1>9, <2>1, <4>1
      <4>3. pushed'[worker[v].item.device] = pushed[worker[v].item.device]
        BY <1>7, <4>2
      <4> QED
        BY <2>1, <4>1, <4>3 DEF StretchInv, InHand
    <3> QED
      BY <3>1, <3>2
  <2> QED
    BY <2>1 DEF InHand
<1>11. FilesAreStretches'
  <2> SUFFICES ASSUME NEW n \in Names, files[n] # NoFile, files[n].intact
               PROVE  Stretch(files[n].rows, pushed'[n.device])
    BY <1>2 DEF FilesAreStretches
  <2>1. Stretch(files[n].rows, pushed[n.device]) /\ files[n].rows \in Seq(Items) /\ n.device \in Devices
    BY DEF StretchInv, FilesAreStretches, RecorderInv, FileType, Names
  <2>2. CASE n.device = d
    <3>1. Stretch(files[n].rows, longer)
      BY <1>1, <1>4, <2>1, <2>2, StretchOfLonger DEF longer
    <3> QED
      BY <1>7, <2>2, <3>1
  <2>3. CASE n.device # d
    BY <1>7, <2>1, <2>3
  <2> QED
    BY <2>2, <2>3
<1>12. ASSUME NEW e \in Devices PROVE LastOffered(e)' = LastOffered(e)
  <2>1. CASE e = d
    <3>1. ~Pending(d)
      BY <1>9 DEF Pending
    <3>2. Pending(d)'
      BY <1>3, <1>7 DEF Pending
    <3>3. Len(pushed'[d]) - 1 = Len(pushed[d])
      BY <1>4, <1>5, <1>7
    <3> QED
      BY <2>1, <3>1, <3>2, <3>3 DEF LastOffered
  <2>2. CASE e # d
    <3>1. Pending(e)' <=> Pending(e)
      BY <1>2, <1>3, <1>7, <2>2 DEF Pending
    <3> QED
      BY <1>7, <2>2, <3>1 DEF LastOffered
  <2> QED
    BY <2>1, <2>2
<1>13. OpenIsCurrent'
  <2> SUFFICES ASSUME recorder.file # NoFile
               PROVE  /\ recorder.recording
                      /\ recorder.file.device = recorder.device
                      /\ files[recorder.file].intact /\ files[recorder.file].rows # <<>> =>
                           files[recorder.file].rows[Len(files[recorder.file].rows)].stamp
                             = LastOffered(recorder.device)'
    BY <1>2 DEF OpenIsCurrent
  <2>1. recorder.file \in Names
    BY DEF RecorderInv
  <2>2. recorder.device \in Devices
    BY <2>1 DEF StretchInv, OpenIsCurrent, Names
  <2>3. LastOffered(recorder.device)' = LastOffered(recorder.device)
    BY <1>2, <1>12, <2>2 DEF LastOffered, Pending
  <2> QED
    BY <2>3 DEF StretchInv, OpenIsCurrent
<1> QED
  BY <1>8, <1>10, <1>11, <1>13 DEF StretchInv

\* Steps that change neither the streams nor what a worker has in hand.
LEMMA OfferedStays ==
  ASSUME UNCHANGED pushed, NEW d,
         \A w \in Workers : /\ worker'[w] = Idle <=> worker[w] = Idle
                            /\ worker[w] # Idle => worker'[w].item = worker[w].item
  PROVE  LastOffered(d)' = LastOffered(d)
<1>1. Pending(d)' <=> Pending(d)
  BY DEF Pending
<1> QED
  BY <1>1 DEF LastOffered

LEMMA StretchCheck ==
  ASSUME StretchTypes, NEW w \in Workers, Check(w)
  PROVE  StretchInv'
<1> USE DEF StretchTypes
<1>1. /\ worker[w].pc = "check" /\ worker' = [worker EXCEPT ![w].pc = "write"]
      /\ UNCHANGED <<pushed, recorder, files>>
  BY DEF Check, processorVars, recorderVars
<1>2. worker[w] \in [pc : {"check", "write"}, item : Items]
  BY <1>1 DEF FlowInv, WorkerInv, Idle
<1>3. ASSUME NEW v \in Workers
      PROVE  /\ worker'[v] = Idle <=> worker[v] = Idle
             /\ worker[v] # Idle => worker'[v].item = worker[v].item
  BY <1>1, <1>2 DEF FlowInv, WorkerInv, Idle
<1>4. StreamsStamped' /\ FilesAreStretches'
  BY <1>1 DEF StretchInv, StreamsStamped, FilesAreStretches
<1>5. InHand'
  <2> SUFFICES ASSUME NEW v \in Workers, worker'[v] # Idle
               PROVE  LET d == worker'[v].item.device IN
                      /\ d \in Feeds[v] /\ Len(pushed[d]) >= 1
                      /\ worker'[v].item = pushed[d][Len(pushed[d])]
    BY <1>1 DEF InHand
  <2>1. worker[v] # Idle /\ worker'[v].item = worker[v].item
    BY <1>3
  <2> QED
    BY <2>1 DEF StretchInv, InHand
<1>6. LastOffered(recorder.device)' = LastOffered(recorder.device)
  <2>1. \A d : LastOffered(d)' = LastOffered(d)
    BY <1>1, <1>3, OfferedStays
  <2> QED
    BY <1>1, <2>1
<1>7. OpenIsCurrent'
  BY <1>1, <1>6 DEF StretchInv, OpenIsCurrent
<1> QED
  BY <1>4, <1>5, <1>7 DEF StretchInv

\* Steps of the recorder alone.
LEMMA StretchStays ==
  ASSUME StretchInv, UNCHANGED <<pushed, worker>>, FilesAreStretches', OpenIsCurrent'
  PROVE  StretchInv'
BY DEF StretchInv, StreamsStamped, InHand

LEMMA OfferedSame ==
  ASSUME UNCHANGED <<pushed, worker>>, NEW d PROVE LastOffered(d)' = LastOffered(d)
BY DEF LastOffered, Pending

\* A file that was just opened holds no row yet, or is not intact.
LEMMA OpenedIsStretch ==
  ASSUME NEW fs \in [Names -> {NoFile} \cup FileType], NEW name \in Names, NEW outcome \in Outcomes,
         NEW streams,
         \A n \in Names : fs[n] # NoFile /\ fs[n].intact => Stretch(fs[n].rows, streams[n.device])
  PROVE  /\ \A n \in Names :
              FilesAfterOpen(fs, name, outcome)[n] # NoFile
                /\ FilesAfterOpen(fs, name, outcome)[n].intact
              => Stretch(FilesAfterOpen(fs, name, outcome)[n].rows, streams[n.device])
         /\ outcome = "done" => FilesAfterOpen(fs, name, outcome)[name].rows = <<>>
<1> DEFINE gs == FilesAfterOpen(fs, name, outcome)
<1>1. \A n \in Names \ {name} : gs[n] = fs[n]
  BY OpenOne
<1>2. \A stream : Stretch(<<>>, stream)
  <2>1. Len(<<>>) = 0
    BY EmptySeq
  <2> QED
    BY <2>1 DEF Stretch
<1>3. CASE outcome = "done"
  <2>1. gs = [fs EXCEPT ![name] = EmptyFile]
    BY <1>3 DEF FilesAfterOpen
  <2>2. gs[name].rows = <<>>
    BY <2>1 DEF EmptyFile
  <2> HIDE DEF gs
  <2>3. \A n \in Names : gs[n] # NoFile /\ gs[n].intact => Stretch(gs[n].rows, streams[n.device])
    BY <1>1, <1>2, <2>2
  <2> QED
    BY <2>2, <2>3 DEF gs
<1>4. CASE outcome = "refused"
  <2>1. gs = fs
    BY <1>4 DEF FilesAfterOpen
  <2> QED
    BY <1>4, <2>1
<1>5. CASE outcome = "unwritable"
  <2>1. gs = [fs EXCEPT ![name] = [rows |-> <<>>, intact |-> FALSE]]
    BY <1>5 DEF FilesAfterOpen
  <2>2. ~gs[name].intact
    BY <2>1
  <2> HIDE DEF gs
  <2>3. \A n \in Names : gs[n] # NoFile /\ gs[n].intact => Stretch(gs[n].rows, streams[n.device])
    BY <1>1, <2>2
  <2> QED
    BY <1>5, <2>3 DEF gs
<1> QED
  BY <1>3, <1>4, <1>5 DEF Outcomes

LEMMA StretchStart ==
  ASSUME StretchTypes, NEW k \in Requesters, NEW d \in Devices, NEW outcome \in Outcomes,
         Start(k, d, outcome)
  PROVE  StretchInv'
<1> USE DEF StretchTypes
<1>1. StartRecording(d, outcome) /\ UNCHANGED <<pushed, worker>>
  BY DEF Start, processorVars
<1>2. CASE recorder.recording
  <2>1. UNCHANGED <<recorder, files>>
    BY <1>1, <1>2 DEF StartRecording, recorderVars
  <2>2. FilesAreStretches'
    BY <1>1, <2>1 DEF StretchInv, FilesAreStretches
  <2>3. OpenIsCurrent'
    BY <1>1, <2>1, OfferedSame DEF StretchInv, OpenIsCurrent
  <2> QED
    BY <1>1, <2>2, <2>3, StretchStays
<1>3. CASE ~recorder.recording
  <2> DEFINE name == Filename(d)
             fs   == FilesAfterOpen(files, name, outcome)
  <2>1. name \in Names /\ name.device = d
    BY FilenameType DEF RecorderInv, Filename
  <2>2. /\ files' = fs
        /\ recorder' = IF outcome = "done"
                       THEN [recorder EXCEPT !.recording = TRUE, !.device = d, !.file = name,
                                             !.rows = 0, !.splitAt = second]
                       ELSE [recorder EXCEPT !.device = d]
    BY <1>1, <1>3 DEF StartRecording
  <2>3. recorder.file = NoFile
    BY <1>3 DEF StretchInv, OpenIsCurrent
  <2>4. /\ \A n \in Names : fs[n] # NoFile /\ fs[n].intact => Stretch(fs[n].rows, pushed[n.device])
        /\ outcome = "done" => fs[name].rows = <<>>
    BY <2>1, OpenedIsStretch DEF RecorderInv, StretchInv, FilesAreStretches
  <2> HIDE DEF fs, name
  <2>5. FilesAreStretches'
    BY <1>1, <2>2, <2>4 DEF FilesAreStretches
  <2>6. OpenIsCurrent'
    <3>1. CASE outcome = "done"
      <4>1. recorder'.recording = TRUE /\ recorder'.file = name /\ recorder'.device = d
        BY <2>2, <3>1 DEF RecorderInv, RecorderType
      <4>2. files'[recorder'.file].rows = <<>>
        BY <2>2, <2>4, <3>1, <4>1
      <4> QED
        BY <2>1, <4>1, <4>2 DEF OpenIsCurrent
    <3>2. CASE outcome # "done"
      <4>1. recorder'.file = NoFile
        BY <2>2, <2>3, <3>2 DEF RecorderInv, RecorderType
      <4> QED
        BY <4>1 DEF OpenIsCurrent
    <3> QED
      BY <3>1, <3>2
  <2> QED
    BY <1>1, <2>5, <2>6, StretchStays
<1> QED
  BY <1>2, <1>3

LEMMA StretchStop ==
  ASSUME StretchTypes, NEW k \in Requesters, Stop(k)
  PROVE  StretchInv'
<1> USE DEF StretchTypes
<1>1. /\ recorder' = [recorder EXCEPT !.recording = FALSE,
                                       !.file = IF recorder.recording THEN NoFile ELSE @]
      /\ UNCHANGED <<files, pushed, worker>>
  BY DEF Stop, StopRecording, processorVars
<1>2. recorder'.file = NoFile
  BY <1>1 DEF StretchInv, OpenIsCurrent, RecorderInv, RecorderType
<1>3. FilesAreStretches' /\ OpenIsCurrent'
  BY <1>1, <1>2 DEF StretchInv, FilesAreStretches, OpenIsCurrent
<1> QED
  BY <1>1, <1>3, StretchStays

\* What changes when a worker is done with its frame.
LEMMA DoneWithFrame ==
  ASSUME StretchTypes, NEW w \in Workers, Write(w),
         NEW item, item = worker[w].item, NEW d, d = item.device
  PROVE  /\ item \in Items /\ d \in Devices /\ pushed[d] \in Seq(Items)
         /\ Len(pushed[d]) >= 1 /\ item = pushed[d][Len(pushed[d])]
         /\ LastOffered(d) = Len(pushed[d]) - 1 /\ LastOffered(d)' = Len(pushed[d])
         /\ \A e \in Devices \ {d} : LastOffered(e)' = LastOffered(e)
         /\ StreamsStamped' /\ InHand' /\ pushed' = pushed
<1> USE DEF StretchTypes
<1>1. worker[w].pc = "write" /\ worker' = [worker EXCEPT ![w] = Idle] /\ pushed' = pushed
  BY DEF Write, processorVars
<1>2. worker[w] # Idle /\ item \in Items
  BY <1>1 DEF FlowInv, WorkerInv, Idle
<1>3. d \in Devices /\ pushed[d] \in Seq(Items)
  BY <1>2 DEF Items, FlowInv, PushedInv
<1>4. worker'[w] = Idle /\ \A v \in Workers \ {w} : worker'[v] = worker[v]
  BY <1>1 DEF FlowInv, WorkerInv
<1>5. d \in Feeds[w] /\ Len(pushed[d]) >= 1 /\ item = pushed[d][Len(pushed[d])]
  BY <1>2 DEF StretchInv, InHand
<1>6. LastOffered(d) = Len(pushed[d]) - 1
  BY <1>2 DEF LastOffered, Pending
<1>7. \A v \in Workers \ {w} : worker[v] # Idle => worker[v].item.device # d
  <2> SUFFICES ASSUME NEW v \in Workers \ {w}, worker[v] # Idle, worker[v].item.device = d PROVE FALSE
    OBVIOUS
  <2>1. d \in Feeds[v]
    BY DEF StretchInv, InHand
  <2> QED
    BY <1>5, <2>1, PipelineAssumption
<1>8. LastOffered(d)' = Len(pushed[d])
  <2>1. ~Pending(d)'
    BY <1>4, <1>7 DEF Pending
  <2> QED
    BY <1>1, <2>1 DEF LastOffered
<1>9. ASSUME NEW e \in Devices \ {d} PROVE LastOffered(e)' = LastOffered(e)
  <2>1. Pending(e)' <=> Pending(e)
    BY <1>4 DEF Pending
  <2> QED
    BY <1>1, <2>1 DEF LastOffered
<1>10. StreamsStamped'
  BY <1>1 DEF StretchInv, StreamsStamped
<1>11. InHand'
  BY <1>1, <1>4 DEF StretchInv, InHand
<1> QED
  BY <1>1, <1>2, <1>3, <1>5, <1>6, <1>8, <1>9, <1>10, <1>11

LEMMA StretchWrite ==
  ASSUME StretchTypes, NEW w \in Workers, Write(w)
  PROVE  StretchInv'
<1> USE DEF StretchTypes
<1>0. PICK item : item = worker[w].item
  OBVIOUS
<1>1. PICK d : d = item.device
  OBVIOUS
<1>2. /\ item \in Items /\ d \in Devices /\ pushed[d] \in Seq(Items)
      /\ Len(pushed[d]) >= 1 /\ item = pushed[d][Len(pushed[d])]
      /\ LastOffered(d) = Len(pushed[d]) - 1 /\ LastOffered(d)' = Len(pushed[d])
      /\ \A e \in Devices \ {d} : LastOffered(e)' = LastOffered(e)
      /\ StreamsStamped' /\ InHand' /\ pushed' = pushed
  BY <1>0, <1>1, DoneWithFrame
<1>3. WriteData(item)
  BY <1>0 DEF Write
<1>4. CASE ~Recorded(d)
  <2>1. UNCHANGED <<recorder, files>>
    BY <1>1, <1>3, <1>4 DEF WriteData
  <2>2. FilesAreStretches'
    BY <1>2, <2>1 DEF StretchInv, FilesAreStretches
  <2>3. OpenIsCurrent'
    <3> SUFFICES ASSUME recorder.file # NoFile PROVE OpenIsCurrent'
      BY <2>1 DEF OpenIsCurrent
    <3>1. recorder.recording /\ recorder.file.device = recorder.device
      BY DEF StretchInv, OpenIsCurrent
    <3>2. recorder.device \in Devices \ {d}
      BY <1>4, <3>1 DEF Recorded, RecorderInv, Names
    <3>3. PICK e : e = recorder.device
      OBVIOUS
    <3>4. LastOffered(e)' = LastOffered(e)
      BY <1>2, <3>2, <3>3
    <3>5. LastOffered(recorder.device)' = LastOffered(recorder.device)
      BY <2>1, <3>3, <3>4 DEF LastOffered, Pending
    <3> QED
      BY <2>1, <3>5 DEF StretchInv, OpenIsCurrent
  <2> QED
    BY <1>2, <2>2, <2>3 DEF StretchInv
<1>5. CASE Recorded(d)
  <2>0. PICK file : file = recorder.file
    OBVIOUS
  <2>1. /\ file \in Names /\ file # NoFile /\ files[file] \in FileType
        /\ d = recorder.device /\ file.device = d /\ recorder.recording
    BY <1>5, <2>0 DEF Recorded, RecorderInv, StretchInv, OpenIsCurrent
  <2>2. CASE LoseRow
    <3>1. files' = [files EXCEPT ![file].intact = FALSE] /\ recorder' = recorder
      BY <2>0, <2>2 DEF LoseRow
    <3>2. ~files'[file].intact /\ \A n \in Names \ {file} : files'[n] = files[n]
      BY <2>1, <3>1 DEF RecorderInv, FileType
    <3>3. FilesAreStretches'
      BY <1>2, <3>2 DEF StretchInv, FilesAreStretches
    <3>4. OpenIsCurrent'
      BY <2>0, <2>1, <3>1, <3>2 DEF OpenIsCurrent
    <3> QED
      BY <1>2, <3>3, <3>4 DEF StretchInv
  <2>3. ASSUME NEW outcome \in Outcomes, WriteRow(item, outcome) PROVE StretchInv'
    <3> DEFINE old   == files[file]
               new   == [old EXCEPT !.rows = Append(@, item)]
               after == [files EXCEPT ![file] = new]
               rows  == recorder.rows + 1
               name  == Filename(recorder.device)
               fs    == FilesAfterOpen(after, name, outcome)
    <3>1. old.rows \in Seq(Items) /\ old.intact \in BOOLEAN
      BY <2>1 DEF FileType
    <3>2. /\ new.rows = Append(old.rows, item) /\ new.intact = old.intact /\ new \in FileType
      BY <1>2, <2>1, <3>1, AppendProperties DEF FileType
    <3>3. Numbered(pushed[d])
      BY <1>2 DEF StretchInv, StreamsStamped
    <3>4. old.intact => /\ Stretch(new.rows, pushed[d])
                        /\ new.rows[Len(new.rows)].stamp = Len(pushed[d])
      <4> SUFFICES ASSUME old.intact
                   PROVE  /\ Stretch(new.rows, pushed[d])
                          /\ new.rows[Len(new.rows)].stamp = Len(pushed[d])
        OBVIOUS
      <4>1. old # NoFile => Stretch(old.rows, pushed[d])
        BY <2>1 DEF StretchInv, FilesAreStretches
      <4>2. old.rows # <<>> => old.rows[Len(old.rows)].stamp = Len(pushed[d]) - 1
        BY <1>2, <2>0, <2>1 DEF StretchInv, OpenIsCurrent
      <4>3. Stretch(old.rows, pushed[d])
        BY <2>1, <4>1, PipelineAssumption DEF FileType
      <4> QED
        BY <1>2, <3>1, <3>2, <3>3, <4>2, <4>3, StretchGoesOn
    <3>5. /\ after[file] = new /\ \A n \in Names \ {file} : after[n] = files[n]
          /\ after \in [Names -> {NoFile} \cup FileType]
      BY <2>1, <3>2 DEF RecorderInv
    <3> HIDE DEF new, after
    <3>6. \A n \in Names : after[n] # NoFile /\ after[n].intact => Stretch(after[n].rows, pushed[n.device])
      BY <2>1, <3>2, <3>4, <3>5 DEF StretchInv, FilesAreStretches
    <3>7. after = [files EXCEPT ![file].rows = Append(@, item)]
      BY DEF after, new
    <3>8. CASE SplitDue(rows)
      <4>1. /\ files' = fs
            /\ recorder' = IF outcome = "done"
                           THEN [recorder EXCEPT !.file = name, !.rows = 0, !.splitAt = second]
                           ELSE [recorder EXCEPT !.file = NoFile, !.rows = rows]
        BY <2>0, <2>3, <3>7, <3>8 DEF WriteRow
      <4>2. name \in Names /\ name.device = d
        BY <1>2, <2>1, FilenameType DEF RecorderInv, Filename
      <4>3. /\ \A n \in Names : fs[n] # NoFile /\ fs[n].intact => Stretch(fs[n].rows, pushed[n.device])
            /\ outcome = "done" => fs[name].rows = <<>>
        BY <3>5, <3>6, <4>2, OpenedIsStretch
      <4> HIDE DEF fs, name, rows
      <4>4. FilesAreStretches'
        BY <1>2, <4>1, <4>3 DEF FilesAreStretches
      <4>5. OpenIsCurrent'
        <5>1. CASE outcome = "done"
          <6>1. /\ recorder'.file = name /\ recorder'.device = recorder.device
                /\ recorder'.recording = recorder.recording
            BY <4>1, <5>1 DEF RecorderInv, RecorderType
          <6>2. files'[recorder'.file].rows = <<>>
            BY <4>1, <4>3, <5>1, <6>1
          <6> QED
            BY <2>1, <4>2, <6>1, <6>2 DEF OpenIsCurrent
        <5>2. CASE outcome # "done"
          <6>1. recorder'.file = NoFile
            BY <4>1, <5>2 DEF RecorderInv, RecorderType
          <6> QED
            BY <6>1 DEF OpenIsCurrent
        <5> QED
          BY <5>1, <5>2
      <4> QED
        BY <1>2, <4>4, <4>5 DEF StretchInv
    <3>9. CASE ~SplitDue(rows)
      <4>1. files' = after /\ recorder' = [recorder EXCEPT !.rows = rows]
        BY <2>0, <2>3, <3>7, <3>9 DEF WriteRow
      <4>2. FilesAreStretches'
        BY <1>2, <3>6, <4>1 DEF FilesAreStretches
      <4>3. /\ recorder'.file = file /\ recorder'.device = d
            /\ recorder'.recording = recorder.recording
        BY <2>0, <2>1, <4>1 DEF RecorderInv, RecorderType
      <4>4. LastOffered(recorder.device)' = Len(pushed[d])
        BY <1>2, <4>3 DEF LastOffered, Pending
      <4>5. OpenIsCurrent'
        BY <2>1, <3>2, <3>4, <3>5, <4>1, <4>3, <4>4 DEF OpenIsCurrent
      <4> QED
        BY <1>2, <4>2, <4>5 DEF StretchInv
    <3> QED
      BY <3>8, <3>9
  <2> QED
    BY <1>1, <1>3, <1>5, <2>2, <2>3 DEF WriteData
<1> QED
  BY <1>4, <1>5

LEMMA StretchInvStep == StretchTypes /\ [Next]_vars => StretchInv'
<1> SUFFICES ASSUME StretchTypes, [Next]_vars PROVE StretchInv'
  OBVIOUS
<1>1. CASE UNCHANGED <<pushed, worker, files, recorder.file, recorder.device, recorder.recording>>
  <2>1. FilesAreStretches'
    BY <1>1 DEF StretchTypes, StretchInv, FilesAreStretches
  <2>2. LastOffered(recorder.device)' = LastOffered(recorder.device)
    BY <1>1 DEF LastOffered, Pending
  <2>3. OpenIsCurrent'
    BY <1>1, <2>2 DEF StretchTypes, StretchInv, OpenIsCurrent
  <2> QED
    BY <1>1, <2>1, <2>3, StretchStays DEF StretchTypes
<1>2. CASE RecorderCall
  <2>1. UNCHANGED <<pushed, worker, files>> /\ recorder' = [recorder EXCEPT !.autoSplit = ~recorder.autoSplit]
    BY <1>2 DEF RecorderCall, SetAutoSplit, Call, processorVars
  <2>2. UNCHANGED <<recorder.file, recorder.device, recorder.recording>>
    BY <2>1 DEF StretchTypes, RecorderInv, RecorderType
  <2> QED
    BY <1>1, <2>1, <2>2
<1>3. CASE Clock
  BY <1>1, <1>3 DEF Clock, Tick, taskVars, processorVars
<1>4. CASE UNCHANGED vars
  BY <1>1, <1>4 DEF vars, taskVars, processorVars, recorderVars
<1>5. ASSUME NEW d \in Devices, AlarmCall(d) PROVE StretchInv'
  BY <1>1, <1>5 DEF AlarmCall, Call, processorVars, recorderVars
<1>6. ASSUME NEW d \in Devices, ProcessorCall(d) PROVE StretchInv'
  <2>1. UNCHANGED <<pushed, worker, files, recorder>>
    BY <1>6 DEF ProcessorCall, Call, SetBufferSize, ClearData, ClearAll, recorderVars
  <2> QED
    BY <1>1, <2>1
<1>7. ASSUME NEW k \in Requesters, EmitChanged(k) \/ Respond(k) PROVE StretchInv'
  BY <1>1, <1>7 DEF EmitChanged, Respond, processorVars, recorderVars
<1>8. ASSUME NEW k \in Clients, Hear(k) PROVE StretchInv'
  BY <1>1, <1>8 DEF Hear, processorVars, recorderVars
<1>9. CASE Next
  <2>1. ASSUME NEW w \in Workers,
               \/ \E d \in Devices, payload \in Payloads : Receive(w, d, payload)
               \/ Check(w) \/ Write(w)
        PROVE  StretchInv'
    BY <2>1, StretchReceive, StretchCheck, StretchWrite
  <2>2. ASSUME NEW k \in Requesters,
               \/ \E d \in Devices, outcome \in Outcomes : Start(k, d, outcome)
               \/ Stop(k) \/ EmitChanged(k) \/ Respond(k)
        PROVE  StretchInv'
    BY <1>7, <2>2, StretchStart, StretchStop
  <2> QED
    BY <1>2, <1>3, <1>5, <1>6, <1>8, <1>9, <2>1, <2>2 DEF Next
<1> QED
  BY <1>4, <1>9

LEMMA StretchInvIsStretch == StretchTypes => RecordingIsAStretch
<1> SUFFICES ASSUME StretchTypes, NEW n \in Names, files[n] # NoFile, files[n].intact,
                    NEW i \in DOMAIN files[n].rows
             PROVE  /\ files[n].rows[1].stamp + i - 1 \in DOMAIN pushed[n.device]
                    /\ files[n].rows[i] = pushed[n.device][files[n].rows[1].stamp + i - 1]
  BY DEF RecordingIsAStretch
<1>1. files[n].rows \in Seq(Items) /\ n.device \in Devices
  BY DEF StretchTypes, RecorderInv, FileType, Names
<1>2. pushed[n.device] \in Seq(Items)
  BY <1>1 DEF StretchTypes, FlowInv, PushedInv
<1>3. i \in 1..Len(files[n].rows) /\ DOMAIN pushed[n.device] = 1..Len(pushed[n.device])
  BY <1>1, <1>2, LenProperties
<1>4. Stretch(files[n].rows, pushed[n.device])
  BY DEF StretchTypes, StretchInv, FilesAreStretches
<1> QED
  BY <1>3, <1>4 DEF Stretch

\* A recording without a failed write is a gapless stretch of the stream of its
\* device, whatever is started, stopped and split while frames are under way.
THEOREM PipelineRecordsStretches == Spec => []RecordingIsAStretch
<1>1. StretchTypes /\ [Next]_vars => StretchTypes'
  BY FlowInvStep, RecorderStep, StretchInvStep DEF StretchTypes
<1>2. Init => StretchTypes
  BY FlowInvInit, RecorderInvInit, StretchInvInit DEF StretchTypes
<1> QED
  BY <1>1, <1>2, StretchInvIsStretch, PTL DEF Spec
-----------------------------------------------------------------------------
(* Sums over sequences.  Natural numbers are well founded, so a set that    *)
(* holds 0 and is closed under successor holds them all: induction over     *)
(* data, with a set in place of a predicate.                               *)

\* Induction for sets of naturals.
LEMMA SetInduction ==
  ASSUME NEW S, 0 \in S, \A n \in Nat : n \in S => n + 1 \in S
  PROVE  Nat \subseteq S
<1> DEFINE R == {ss \in Nat \X Nat : ss[1] < ss[2]}
           T == Nat \ S
<1>1. IsWellFoundedOn(R, Nat)
  BY NatLessThanWellFounded, Zenon DEF OpToRel
<1> SUFFICES ASSUME T # {} PROVE FALSE
  OBVIOUS
<1>2. PICK x \in T : \A y \in T : <<y, x>> \notin R
  <2> HIDE DEF R
  <2> QED
    BY <1>1, WFMin
<1>3. x \in Nat /\ x # 0
  OBVIOUS
<1>4. x - 1 \in T
  <2>1. x - 1 \in Nat /\ (x - 1) + 1 = x
    BY <1>3
  <2>2. x - 1 \notin S
    BY <2>1
  <2> QED
    BY <2>1, <2>2
<1>5. <<x - 1, x>> \in R
  BY <1>3, <1>4
<1> QED
  BY <1>2, <1>4, <1>5

\* The partial sums of a sequence.
PartialSums(values, sum) ==
  /\ sum \in [0..Len(values) -> Int]
  /\ sum[0] = 0
  /\ \A n \in 1..Len(values) : sum[n] = sum[n - 1] + values[n]

LEMMA PartialSumsExist ==
  ASSUME NEW values \in Seq(Int)
  PROVE  \E sum : PartialSums(values, sum)
<1> DEFINE N == Len(values)
           Upto(n, f) == /\ f \in [0..n -> Int] /\ f[0] = 0
                         /\ \A k \in 1..n : f[k] = f[k - 1] + values[k]
           S == {n \in Nat : n <= N => \E f : Upto(n, f)}
<1>0. N \in Nat /\ \A n \in 1..N : values[n] \in Int
  BY LenProperties
<1> HIDE DEF N
<1>1. 0 \in S
  <2> DEFINE f == [k \in 0..0 |-> 0]
  <2>1. Upto(0, f)
    OBVIOUS
  <2> QED
    BY <2>1
<1>2. ASSUME NEW n \in Nat, n \in S PROVE n + 1 \in S
  <2> SUFFICES ASSUME n + 1 <= N PROVE \E g : Upto(n + 1, g)
    OBVIOUS
  <2>1. PICK f : Upto(n, f)
    BY <1>0, <1>2
  <2> DEFINE g == [k \in 0..n + 1 |-> IF k = n + 1 THEN f[n] + values[k] ELSE f[k]]
  <2>2. values[n + 1] \in Int
    BY <1>0
  <2>3. g \in [0..n + 1 -> Int] /\ g[0] = 0
    BY <2>1, <2>2
  <2>4. ASSUME NEW k \in 1..n + 1 PROVE g[k] = g[k - 1] + values[k]
    <3>1. CASE k = n + 1
      BY <2>1, <3>1
    <3>2. CASE k # n + 1
      <4>1. k \in 1..n /\ k - 1 \in 0..n
        BY <3>2
      <4>2. g[k] = f[k] /\ g[k - 1] = f[k - 1] /\ f[k] = f[k - 1] + values[k]
        BY <2>1, <3>2, <4>1
      <4> QED
        BY <4>2
    <3> QED
      BY <3>1, <3>2
  <2> QED
    BY <2>3, <2>4
<1>3. N \in S
  <2> HIDE DEF S
  <2> QED
    BY <1>0, <1>1, <1>2, SetInduction
<1> QED
  BY <1>0, <1>3 DEF PartialSums, N

\* Sum is the last partial sum.
LEMMA SumIsLast ==
  ASSUME NEW values \in Seq(Int), NEW sum, PartialSums(values, sum)
  PROVE  Sum(values) = sum[Len(values)]
<1> DEFINE N == Len(values)
           P(f) == f = [n \in 0..Len(values) |-> IF n = 0 THEN 0 ELSE f[n - 1] + values[n]]
<1>0. N \in Nat
  BY LenProperties
<1>1. P(sum)
  BY <1>0 DEF PartialSums
<1>2. ASSUME NEW other, P(other) PROVE other = sum
  <2> DEFINE S == {n \in Nat : n <= N => other[n] = sum[n]}
  <2>1. /\ DOMAIN other = 0..N /\ other = [n \in 0..N |-> other[n]]
        /\ \A n \in 0..N : other[n] = IF n = 0 THEN 0 ELSE other[n - 1] + values[n]
    <3> DEFINE h == [n \in 0..Len(values) |-> IF n = 0 THEN 0 ELSE other[n - 1] + values[n]]
    <3>1. /\ DOMAIN h = 0..N /\ h = [n \in 0..N |-> h[n]]
          /\ \A n \in 0..N : h[n] = IF n = 0 THEN 0 ELSE other[n - 1] + values[n]
      OBVIOUS
    <3>2. other = h
      BY <1>2
    <3> HIDE DEF h, P
    <3> QED
      BY <3>1, <3>2
  <2> HIDE DEF N
  <2>2. 0 \in S
    BY <1>0, <2>1 DEF PartialSums
  <2>3. ASSUME NEW n \in Nat, n \in S PROVE n + 1 \in S
    <3> SUFFICES ASSUME n + 1 <= N PROVE other[n + 1] = sum[n + 1]
      OBVIOUS
    <3>1. other[n] = sum[n] /\ n + 1 \in 1..N /\ (n + 1) - 1 = n /\ n + 1 # 0
      BY <1>0, <2>3
    <3>2. other[n + 1] = other[n] + values[n + 1]
      <4>1. n + 1 \in 0..N
        BY <1>0, <3>1
      <4>2. other[n + 1] = other[(n + 1) - 1] + values[n + 1]
        BY <2>1, <3>1, <4>1
      <4> QED
        BY <3>1, <4>2
    <3>3. sum[n + 1] = sum[n] + values[n + 1]
      BY <3>1 DEF PartialSums, N
    <3> QED
      BY <3>1, <3>2, <3>3
  <2>4. \A n \in 0..N : other[n] = sum[n]
    <3>1. Nat \subseteq S
      <4> HIDE DEF S
      <4> QED
        BY <2>2, <2>3, SetInduction
    <3> QED
      BY <1>0, <3>1
  <2>5. sum = [n \in 0..N |-> sum[n]]
    BY DEF PartialSums, N
  <2> QED
    BY <2>1, <2>4, <2>5
<1>3. (CHOOSE f : P(f)) = sum
  <2> HIDE DEF P
  <2> QED
    BY <1>1, <1>2
<1> QED
  BY <1>3 DEF Sum, P

LEMMA SumOfNone == Sum(<<>>) = 0
<1>1. <<>> \in Seq(Int) /\ Len(<<>>) = 0
  BY EmptySeq
<1>2. PICK sum : PartialSums(<<>>, sum)
  BY <1>1, PartialSumsExist
<1>3. Sum(<<>>) = sum[0]
  BY <1>1, <1>2, SumIsLast
<1> QED
  BY <1>2, <1>3 DEF PartialSums

\* The sum grows by the element that is appended.
LEMMA SumOfAppend ==
  ASSUME NEW values \in Seq(Int), NEW v \in Int
  PROVE  Sum(values) \in Int /\ Sum(Append(values, v)) = Sum(values) + v
<1> DEFINE more == Append(values, v)
           N == Len(values)
<1>1. /\ N \in Nat /\ more \in Seq(Int) /\ Len(more) = N + 1
      /\ more[N + 1] = v /\ \A n \in 1..N : more[n] = values[n]
  BY LenProperties, AppendProperties
<1> HIDE DEF more
<1>2. PICK sum : PartialSums(values, sum)
  BY PartialSumsExist
<1> DEFINE longer == [n \in 0..N + 1 |-> IF n = N + 1 THEN sum[N] + v ELSE sum[n]]
<1>3. PartialSums(more, longer)
  <2>1. sum \in [0..N -> Int] /\ sum[0] = 0 /\ \A n \in 1..N : sum[n] = sum[n - 1] + values[n]
    BY <1>2 DEF PartialSums
  <2> HIDE DEF N
  <2>2. longer \in [0..N + 1 -> Int] /\ longer[0] = 0
    BY <1>1, <2>1
  <2>3. ASSUME NEW n \in 1..N + 1 PROVE longer[n] = longer[n - 1] + more[n]
    <3>1. CASE n = N + 1
      BY <1>1, <2>1, <3>1
    <3>2. CASE n # N + 1
      <4>1. n \in 1..N /\ n - 1 \in 0..N
        BY <1>1, <3>2
      <4>2. longer[n] = sum[n] /\ longer[n - 1] = sum[n - 1]
        BY <1>1, <3>2, <4>1
      <4> QED
        BY <1>1, <2>1, <4>1, <4>2
    <3> QED
      BY <3>1, <3>2
  <2> QED
    BY <1>1, <2>2, <2>3 DEF PartialSums
<1>4. Sum(values) = sum[N] /\ Sum(more) = longer[N + 1]
  BY <1>1, <1>2, <1>3, SumIsLast
<1>5. sum[N] \in Int /\ longer[N + 1] = sum[N] + v
  BY <1>1, <1>2 DEF PartialSums
<1> QED
  BY <1>4, <1>5 DEF more

-----------------------------------------------------------------------------
(* The running statistics.                                                 *)

\* The channels there are.
Columns == UNION {DOMAIN frame : frame \in Frames}

Rational == [num : Int, den : Nat \ {0}]
ChannelStats == [min : Int, max : Int, avg : Rational, meanSquare : Rational, count : Nat]
StatsTable(table) == DOMAIN table \subseteq Columns /\ table \in [DOMAIN table -> ChannelStats]

\* s are the statistics of channel c in these frames.
Tally(s, frames, c) ==
  LET having == Having(frames, c)
      values == Readings(frames, c)
  IN /\ s \in ChannelStats
     /\ IsFiniteSet(having) /\ s.count = Cardinality(having)
     /\ having # {} => /\ \E i \in having : s.min = values[i]
                       /\ \E i \in having : s.max = values[i]
     /\ \A i \in having : s.min <= values[i] /\ values[i] <= s.max
     /\ Equal(s.avg, [num |-> Sum(values), den |-> s.count])
     /\ Equal(s.meanSquare, [num |-> Sum(Squares(values)), den |-> s.count])

StatsInv ==
  /\ PushedInv
  /\ cleared \in [Devices -> Nat]
  /\ DOMAIN stats = Devices
  /\ \A d \in Devices :
       /\ StatsTable(stats[d])
       /\ cleared[d] <= Len(pushed[d])
       /\ \A c \in Columns : Tally(StatsOf(d, c), Since(d), c)
       /\ \A c \in DOMAIN stats[d] : stats[d][c].count > 0

\* A frame more.
LEMMA HavingOne ==
  ASSUME NEW frames \in Seq(Items), NEW item \in Items, NEW c
  PROVE  Having(Append(frames, item), c) =
           Having(frames, c) \cup (IF c \in DOMAIN item.channels THEN {Len(frames) + 1} ELSE {})
<1> DEFINE more == Append(frames, item)
           N == Len(frames)
<1>1. /\ N \in Nat /\ more \in Seq(Items) /\ Len(more) = N + 1 /\ more[N + 1] = item
      /\ \A i \in 1..N : more[i] = frames[i]
      /\ DOMAIN frames = 1..N
  BY LenProperties, AppendProperties
<1>2. DOMAIN more = 1..N + 1
  BY <1>1, LenProperties
<1>3. 1..N + 1 = (1..N) \cup {N + 1} /\ N + 1 \notin 1..N
  BY <1>1
<1> HIDE DEF more, N
<1>4. Having(more, c) = Having(frames, c) \cup (IF c \in DOMAIN item.channels THEN {N + 1} ELSE {})
  <2>1. Having(more, c) = {i \in (1..N) \cup {N + 1} : c \in DOMAIN more[i].channels}
    BY <1>2, <1>3 DEF Having
  <2>2. Having(frames, c) = {i \in 1..N : c \in DOMAIN frames[i].channels}
    BY <1>1 DEF Having
  <2> QED
    BY <1>1, <2>1, <2>2
<1> QED
  BY <1>4 DEF more, N

Reading(item, c) == IF c \in DOMAIN item.channels THEN item.channels[c] ELSE 0

LEMMA ReadingType ==
  ASSUME NEW item \in Items, NEW c
  PROVE  Reading(item, c) \in Int
BY TelemetryAssumption DEF Reading, Items

LEMMA ReadingsType ==
  ASSUME NEW frames \in Seq(Items), NEW c
  PROVE  /\ Readings(frames, c) \in Seq(Int)
         /\ Len(Readings(frames, c)) = Len(frames)
         /\ \A i \in 1..Len(frames) : Readings(frames, c)[i] = Reading(frames[i], c)
<1>1. /\ Len(frames) \in Nat /\ DOMAIN frames = 1..Len(frames)
      /\ \A i \in 1..Len(frames) : frames[i] \in Items
  BY LenProperties
<1>2. Readings(frames, c) = [i \in 1..Len(frames) |-> Reading(frames[i], c)]
  BY <1>1 DEF Readings, Reading
<1>3. \A i \in 1..Len(frames) : Reading(frames[i], c) \in Int
  BY <1>1, ReadingType
<1> QED
  BY <1>1, <1>2, <1>3

LEMMA ReadingsOne ==
  ASSUME NEW frames \in Seq(Items), NEW item \in Items, NEW c
  PROVE  Readings(Append(frames, item), c) = Append(Readings(frames, c), Reading(item, c))
<1> DEFINE more == Append(frames, item)
           before == Readings(frames, c)
           after == Readings(more, c)
           N == Len(frames)
           v == Reading(item, c)
<1>1. /\ N \in Nat /\ more \in Seq(Items) /\ Len(more) = N + 1 /\ more[N + 1] = item
      /\ \A i \in 1..N : more[i] = frames[i]
  BY LenProperties, AppendProperties
<1>2. /\ before \in Seq(Int) /\ Len(before) = N
      /\ \A i \in 1..N : before[i] = Reading(frames[i], c)
  BY ReadingsType
<1>3. v \in Int
  BY ReadingType
<1> HIDE DEF more, N, before, v
<1>4. /\ after \in Seq(Int) /\ Len(after) = N + 1
      /\ \A i \in 1..N + 1 : after[i] = Reading(more[i], c)
  BY <1>1, ReadingsType
<1>5. /\ Append(before, v) \in Seq(Int) /\ Len(Append(before, v)) = N + 1
      /\ \A i \in 1..N : Append(before, v)[i] = before[i]
      /\ Append(before, v)[N + 1] = v
  BY <1>2, <1>3, AppendProperties
<1> HIDE DEF after
<1>6. ASSUME NEW i \in 1..N + 1 PROVE after[i] = Append(before, v)[i]
  <2>1. CASE i = N + 1
    BY <1>1, <1>4, <1>5, <2>1 DEF v
  <2>2. CASE i \in 1..N
    BY <1>1, <1>2, <1>4, <1>5, <2>2
  <2>3. i = N + 1 \/ i \in 1..N
    BY <1>1
  <2> QED
    BY <2>1, <2>2, <2>3
<1>7. after = Append(before, v)
  BY <1>4, <1>5, <1>6, SeqEqual
<1> QED
  BY <1>7 DEF after, before, more, v

LEMMA SquaresOne ==
  ASSUME NEW values \in Seq(Int), NEW v \in Int
  PROVE  Squares(values) \in Seq(Int) /\ Squares(Append(values, v)) = Append(Squares(values), v * v)
<1> DEFINE more == Append(values, v)
           N == Len(values)
<1>1. /\ N \in Nat /\ more \in Seq(Int) /\ Len(more) = N + 1 /\ more[N + 1] = v
      /\ \A i \in 1..N : more[i] = values[i]
  BY LenProperties, AppendProperties
<1>2. ASSUME NEW s \in Seq(Int)
      PROVE  /\ Squares(s) \in Seq(Int) /\ Len(Squares(s)) = Len(s)
             /\ \A i \in 1..Len(s) : Squares(s)[i] = s[i] * s[i]
  <2>1. Len(s) \in Nat /\ DOMAIN s = 1..Len(s) /\ \A i \in 1..Len(s) : s[i] \in Int
    BY LenProperties
  <2>2. Squares(s) = [i \in 1..Len(s) |-> s[i] * s[i]]
    BY <2>1 DEF Squares
  <2>3. \A i \in 1..Len(s) : s[i] * s[i] \in Int
    BY <2>1
  <2> QED
    BY <2>1, <2>2, <2>3
<1> HIDE DEF more, N
<1>3. v * v \in Int
  OBVIOUS
<1> DEFINE before == Squares(values)
           after == Squares(more)
           w == v * v
<1>4. /\ before \in Seq(Int) /\ Len(before) = N /\ \A i \in 1..N : before[i] = values[i] * values[i]
  BY <1>2 DEF N
<1>5. /\ after \in Seq(Int) /\ Len(after) = N + 1 /\ \A i \in 1..N + 1 : after[i] = more[i] * more[i]
  BY <1>1, <1>2
<1> HIDE DEF before, after
<1>6. /\ Append(before, w) \in Seq(Int) /\ Len(Append(before, w)) = N + 1
      /\ \A i \in 1..N : Append(before, w)[i] = before[i]
      /\ Append(before, w)[N + 1] = w
  <2> HIDE DEF w
  <2>1. w \in Int
    BY <1>3 DEF w
  <2> QED
    BY <1>4, <2>1, AppendProperties
<1>7. ASSUME NEW i \in 1..N + 1 PROVE after[i] = Append(before, w)[i]
  <2>1. CASE i = N + 1
    <3>1. after[i] = v * v
      BY <1>1, <1>5, <2>1
    <3> QED
      BY <1>6, <2>1, <3>1
  <2>2. CASE i \in 1..N
    <3>1. after[i] = values[i] * values[i]
      BY <1>1, <1>5, <2>2
    <3> QED
      BY <1>4, <1>6, <2>2, <3>1
  <2>3. i = N + 1 \/ i \in 1..N
    BY <1>1
  <2> QED
    BY <2>1, <2>2, <2>3
<1>8. after = Append(before, w)
  BY <1>5, <1>6, <1>7, SeqEqual
<1> QED
  BY <1>4, <1>8 DEF before, after, more

LEMMA TallyNone == ASSUME NEW c PROVE Tally(ZeroStats, <<>>, c)
<1>1. Having(<<>>, c) = {} /\ Readings(<<>>, c) = <<>> /\ Squares(<<>>) = <<>>
  <2>1. DOMAIN <<>> = {}
    BY EmptySeq
  <2> QED
    BY <2>1, EmptySeq DEF Having, Readings, Squares
<1>2. ZeroStats \in ChannelStats /\ ZeroStats.count = 0
  BY DEF ZeroStats, ChannelStats, Rational, Whole
<1>3. ZeroStats.avg = [num |-> 0, den |-> 1] /\ ZeroStats.meanSquare = [num |-> 0, den |-> 1]
  BY DEF ZeroStats, Whole
<1>4. Equal(ZeroStats.avg, [num |-> 0, den |-> 0]) /\ Equal(ZeroStats.meanSquare, [num |-> 0, den |-> 0])
  BY <1>3 DEF Equal
<1> QED
  BY <1>1, <1>2, <1>4, SumOfNone, FS_EmptySet DEF Tally

\* The mean and the mean square go on with one more reading.
LEMMA RationalType ==
  ASSUME NEW a \in Rational, NEW b \in Rational, NEW n \in Nat \ {0}, NEW k \in Int
  PROVE  /\ Plus(a, b) \in Rational /\ Minus(a, b) \in Rational /\ Over(a, n) \in Rational
         /\ Times(a, k) \in Rational /\ Whole(k) \in Rational
<1>1. PICK p \in Int, q \in Nat \ {0} : a = [num |-> p, den |-> q]
  BY DEF Rational
<1>2. PICK r \in Int, s \in Nat \ {0} : b = [num |-> r, den |-> s]
  BY DEF Rational
<1>3. /\ Plus(a, b) = [num |-> p * s + r * q, den |-> q * s]
      /\ Minus(a, b) = [num |-> p * s + (-r) * q, den |-> q * s]
      /\ Over(a, n) = [num |-> p, den |-> q * n]
      /\ Times(a, k) = [num |-> p * k, den |-> q]
      /\ Whole(k) = [num |-> k, den |-> 1]
  BY <1>1, <1>2 DEF Plus, Minus, Over, Times, Whole
<1>4. /\ q * s \in Nat \ {0} /\ q * n \in Nat \ {0}
      /\ p * s + r * q \in Int /\ p * s + (-r) * q \in Int /\ p * k \in Int
  OBVIOUS
<1> QED
  BY <1>3, <1>4 DEF Rational

LEMMA MeanOne ==
  ASSUME NEW a \in Rational, NEW m \in Nat, NEW sum \in Int, NEW v \in Int,
         Equal(a, [num |-> sum, den |-> m])
  PROVE  LET b == Plus(a, Over(Minus(Whole(v), a), m + 1)) IN
         b \in Rational /\ Equal(b, [num |-> sum + v, den |-> m + 1])
<1> DEFINE n == m + 1
           b == Plus(a, Over(Minus(Whole(v), a), n))
<1>1. PICK p \in Int, q \in Nat \ {0} : a = [num |-> p, den |-> q]
  BY DEF Rational
<1>2. p * m = sum * q
  BY <1>1 DEF Equal
<1>3. b \in Rational
  <2>1. n \in Nat \ {0}
    OBVIOUS
  <2> HIDE DEF n
  <2>2. Whole(v) \in Rational
    BY <1>1, <2>1, RationalType
  <2>3. Minus(Whole(v), a) \in Rational
    BY <2>1, <2>2, RationalType
  <2>4. Over(Minus(Whole(v), a), n) \in Rational
    BY <2>1, <2>3, RationalType
  <2> QED
    BY <2>1, <2>4, RationalType
<1>4. b = [num |-> p * ((1 * q) * n) + (v * q + (-p) * 1) * q, den |-> q * ((1 * q) * n)]
  BY <1>1 DEF Plus, Over, Minus, Whole
<1>5. (p * ((1 * q) * n) + (v * q + (-p) * 1) * q) * n = (sum + v) * (q * ((1 * q) * n))
  <2>1. p * n = sum * q + p
    BY <1>2
  <2> QED
    BY <1>2
<1> HIDE DEF b, n
<1>6. Equal(b, [num |-> sum + v, den |-> n])
  BY <1>4, <1>5 DEF Equal
<1> QED
  BY <1>3, <1>6 DEF b, n

LEMMA MeanSquareOne ==
  ASSUME NEW a \in Rational, NEW m \in Nat, NEW sum \in Int, NEW v \in Int,
         Equal(a, [num |-> sum, den |-> m])
  PROVE  LET b == Plus(Over(Times(a, (m + 1) - 1), m + 1), Over(Whole(v), m + 1)) IN
         b \in Rational /\ Equal(b, [num |-> sum + v, den |-> m + 1])
<1> DEFINE n == m + 1
           b == Plus(Over(Times(a, n - 1), n), Over(Whole(v), n))
<1>1. PICK p \in Int, q \in Nat \ {0} : a = [num |-> p, den |-> q]
  BY DEF Rational
<1>2. p * m = sum * q
  BY <1>1 DEF Equal
<1>3. b \in Rational
  <2>1. n \in Nat \ {0} /\ n - 1 \in Int
    OBVIOUS
  <2> HIDE DEF n
  <2>2. Whole(v) \in Rational /\ Times(a, n - 1) \in Rational
    BY <1>1, <2>1, RationalType
  <2>3. Over(Times(a, n - 1), n) \in Rational /\ Over(Whole(v), n) \in Rational
    BY <2>1, <2>2, RationalType
  <2> QED
    BY <2>3, RationalType
<1>4. b = [num |-> (p * (n - 1)) * (1 * n) + v * (q * n), den |-> (q * n) * (1 * n)]
  BY <1>1 DEF Plus, Over, Times, Whole
<1>5. ((p * (n - 1)) * (1 * n) + v * (q * n)) * n = (sum + v) * ((q * n) * (1 * n))
  <2>1. p * (n - 1) = sum * q
    BY <1>2
  <2>2. n \in Int
    OBVIOUS
  <2> HIDE DEF n
  <2>3. ((sum * q) * (1 * n) + v * (q * n)) * n = (sum + v) * ((q * n) * (1 * n))
    BY <2>2
  <2> QED
    BY <2>1, <2>3
<1> HIDE DEF b, n
<1>6. Equal(b, [num |-> sum + v, den |-> n])
  BY <1>4, <1>5 DEF Equal
<1> QED
  BY <1>3, <1>6 DEF b, n

\* A frame with the channel.
LEMMA TallyOne ==
  ASSUME NEW s, NEW frames \in Seq(Items), NEW item \in Items, NEW c \in DOMAIN item.channels,
         Tally(s, frames, c)
  PROVE  Tally(Updated(s, item.channels[c]), Append(frames, item), c)
<1> DEFINE v      == item.channels[c]
           t      == Updated(s, v)
           N      == Len(frames)
           having == Having(frames, c)
           values == Readings(frames, c)
           wider  == Having(Append(frames, item), c)
           longer == Readings(Append(frames, item), c)
<1>1. /\ s \in ChannelStats /\ IsFiniteSet(having) /\ s.count = Cardinality(having)
      /\ having # {} => (\E i \in having : s.min = values[i]) /\ (\E i \in having : s.max = values[i])
      /\ \A i \in having : s.min <= values[i] /\ values[i] <= s.max
      /\ Equal(s.avg, [num |-> Sum(values), den |-> s.count])
      /\ Equal(s.meanSquare, [num |-> Sum(Squares(values)), den |-> s.count])
  BY DEF Tally
<1>2. v \in Int /\ v = Reading(item, c)
  BY TelemetryAssumption DEF Items, Reading
<1>3. /\ N \in Nat /\ having \subseteq 1..N
      /\ values \in Seq(Int) /\ Len(values) = N
      /\ wider = having \cup {N + 1} /\ longer = Append(values, v)
  <2>1. N \in Nat /\ DOMAIN frames = 1..N
    BY LenProperties
  <2> QED
    BY <1>2, <2>1, HavingOne, ReadingsOne, ReadingsType DEF Having
<1>4. /\ longer[N + 1] = v /\ \A i \in having : longer[i] = values[i] /\ values[i] \in Int
  BY <1>2, <1>3, AppendProperties, LenProperties
<1>5. IsFiniteSet(wider) /\ Cardinality(wider) = s.count + 1
  <2>1. N + 1 \notin having
    BY <1>3
  <2> HIDE DEF having, wider
  <2> QED
    BY <1>1, <1>3, <2>1, FS_AddElement
<1>6. s.count \in Nat /\ s.avg \in Rational /\ s.meanSquare \in Rational /\ s.min \in Int /\ s.max \in Int
  BY <1>1 DEF ChannelStats
<1>7. s.count = 0 <=> having = {}
  BY <1>1, FS_EmptySet
<1> HIDE DEF having, values, wider, longer, N
<1>8. /\ t.min = IF s.count = 0 \/ v < s.min THEN v ELSE s.min
      /\ t.max = IF s.count = 0 \/ v > s.max THEN v ELSE s.max
      /\ t.avg = Plus(s.avg, Over(Minus(Whole(v), s.avg), s.count + 1))
      /\ t.meanSquare = Plus(Over(Times(s.meanSquare, (s.count + 1) - 1), s.count + 1),
                             Over(Whole(v * v), s.count + 1))
      /\ t.count = s.count + 1
      /\ t = [min |-> t.min, max |-> t.max, avg |-> t.avg, meanSquare |-> t.meanSquare, count |-> t.count]
  BY DEF Updated
<1> HIDE DEF t, v
<1>9. t.avg \in Rational /\ Equal(t.avg, [num |-> Sum(longer), den |-> t.count])
  <2>1. Sum(values) \in Int /\ Sum(longer) = Sum(values) + v
    BY <1>2, <1>3, SumOfAppend
  <2> QED
    BY <1>1, <1>2, <1>6, <1>8, <2>1, MeanOne
<1>10. t.meanSquare \in Rational /\ Equal(t.meanSquare, [num |-> Sum(Squares(longer)), den |-> t.count])
  <2>1. Squares(values) \in Seq(Int) /\ Squares(longer) = Append(Squares(values), v * v)
    BY <1>2, <1>3, SquaresOne
  <2>2. v * v \in Int
    BY <1>2
  <2>3. Sum(Squares(values)) \in Int /\ Sum(Squares(longer)) = Sum(Squares(values)) + v * v
    BY <2>1, <2>2, SumOfAppend
  <2> QED
    BY <1>1, <1>2, <1>6, <1>8, <2>2, <2>3, MeanSquareOne
<1>11. t.min \in Int /\ t.max \in Int /\ t.count \in Nat
  BY <1>2, <1>6, <1>8
<1>12. /\ \E i \in wider : t.min = longer[i]
       /\ \E i \in wider : t.max = longer[i]
  BY <1>1, <1>3, <1>4, <1>7, <1>8
<1>13. \A i \in wider : t.min <= longer[i] /\ longer[i] <= t.max
  <2>1. t.min <= v /\ v <= t.max
    BY <1>2, <1>6, <1>8
  <2>2. ASSUME NEW i \in having PROVE t.min <= values[i] /\ values[i] <= t.max
    <3>1. s.count # 0 /\ s.min <= values[i] /\ values[i] <= s.max /\ values[i] \in Int
      BY <1>1, <1>4, <1>7, <2>2
    <3> QED
      BY <1>2, <1>6, <1>8, <3>1
  <2> QED
    BY <1>3, <1>4, <2>1, <2>2
<1>14. t \in ChannelStats
  BY <1>8, <1>9, <1>10, <1>11 DEF ChannelStats
<1> QED
  BY <1>5, <1>8, <1>9, <1>10, <1>12, <1>13, <1>14 DEF Tally, t, v, wider, longer

\* A frame without it.
LEMMA TallyOther ==
  ASSUME NEW s, NEW frames \in Seq(Items), NEW item \in Items, NEW c, c \notin DOMAIN item.channels,
         Tally(s, frames, c)
  PROVE  Tally(s, Append(frames, item), c)
<1> DEFINE N      == Len(frames)
           having == Having(frames, c)
           values == Readings(frames, c)
           wider  == Having(Append(frames, item), c)
           longer == Readings(Append(frames, item), c)
<1>1. N \in Nat /\ DOMAIN frames = 1..N
  BY LenProperties
<1>2. /\ having \subseteq 1..N /\ wider = having
      /\ values \in Seq(Int) /\ Len(values) = N /\ longer = Append(values, 0)
  BY <1>1, HavingOne, ReadingsOne, ReadingsType DEF Having, Reading
<1>3. \A i \in having : longer[i] = values[i]
  BY <1>2, AppendProperties
<1>4. Sum(longer) = Sum(values)
  <2>1. Sum(values) \in Int /\ Sum(longer) = Sum(values) + 0
    BY <1>2, SumOfAppend
  <2> QED
    BY <2>1
<1>5. Sum(Squares(longer)) = Sum(Squares(values))
  <2>1. Squares(values) \in Seq(Int) /\ Squares(longer) = Append(Squares(values), 0)
    <3> HIDE DEF values, longer
    <3>1. Squares(values) \in Seq(Int) /\ Squares(Append(values, 0)) = Append(Squares(values), 0 * 0)
      <4>1. values \in Seq(Int) /\ 0 \in Int
        BY <1>2
      <4> QED
        BY <4>1, SquaresOne
    <3>2. 0 * 0 = 0
      OBVIOUS
    <3> QED
      BY <1>2, <3>1, <3>2
  <2>2. Sum(Squares(values)) \in Int /\ Sum(Squares(longer)) = Sum(Squares(values)) + 0
    BY <2>1, SumOfAppend
  <2> QED
    BY <2>2
<1> HIDE DEF N
<1> QED
  BY <1>2, <1>3, <1>4, <1>5 DEF Tally

\* The frames since the last clear.
LEMMA SinceGrows ==
  ASSUME NEW s \in Seq(Items), NEW item \in Items, NEW n \in Nat, n <= Len(s)
  PROVE  /\ SubSeq(s, n + 1, Len(s)) \in Seq(Items)
         /\ SubSeq(Append(s, item), n + 1, Len(Append(s, item))) =
              Append(SubSeq(s, n + 1, Len(s)), item)
<1> DEFINE N    == Len(s)
           more == Append(s, item)
           a    == SubSeq(s, n + 1, N)
           b    == SubSeq(more, n + 1, N + 1)
<1>1. /\ N \in Nat /\ more \in Seq(Items) /\ Len(more) = N + 1 /\ more[N + 1] = item
      /\ \A i \in 1..N : s[i] \in Items /\ more[i] = s[i]
  BY LenProperties, AppendProperties
<1> HIDE DEF N, more
<1>2. a \in Seq(Items) /\ Len(a) = N - n /\ \A i \in 1..N - n : a[i] = s[n + i]
  <2>1. n + 1 \in Int /\ N \in Int /\ \A i \in n + 1..N : s[i] \in Items
    BY <1>1
  <2>2. /\ a \in Seq(Items) /\ Len(a) = IF n + 1 <= N THEN N - (n + 1) + 1 ELSE 0
        /\ \A i \in 1..N - (n + 1) + 1 : a[i] = s[(n + 1) + i - 1]
    BY <2>1, SubSeqProperties
  <2>3. /\ (IF n + 1 <= N THEN N - (n + 1) + 1 ELSE 0) = N - n /\ N - (n + 1) + 1 = N - n
        /\ \A i \in 1..N - n : (n + 1) + i - 1 = n + i
    BY <1>1 DEF N
  <2> HIDE DEF a
  <2> QED
    BY <2>2, <2>3
<1>3. b \in Seq(Items) /\ Len(b) = N - n + 1 /\ \A i \in 1..N - n + 1 : b[i] = more[n + i]
  <2>1. n + 1 \in Int /\ N + 1 \in Int /\ \A i \in n + 1..N + 1 : more[i] \in Items
    BY <1>1
  <2>2. PICK m \in Int, k \in Int : m = n + 1 /\ k = N + 1
    BY <2>1
  <2>3. /\ b \in Seq(Items) /\ Len(b) = IF m <= k THEN k - m + 1 ELSE 0
        /\ \A i \in 1..k - m + 1 : b[i] = more[m + i - 1]
    BY <2>1, <2>2, SubSeqProperties
  <2>4. /\ (IF m <= k THEN k - m + 1 ELSE 0) = N - n + 1 /\ k - m + 1 = N - n + 1
        /\ \A i \in 1..N - n + 1 : m + i - 1 = n + i
    BY <1>1, <2>2 DEF N
  <2> HIDE DEF b
  <2> QED
    BY <2>3, <2>4
<1> HIDE DEF a, b
<1>4. /\ Append(a, item) \in Seq(Items) /\ Len(Append(a, item)) = N - n + 1
      /\ \A i \in 1..N - n : Append(a, item)[i] = a[i]
      /\ Append(a, item)[N - n + 1] = item
  BY <1>2, AppendProperties
<1>5. ASSUME NEW i \in 1..N - n + 1 PROVE b[i] = Append(a, item)[i]
  <2>1. CASE i = N - n + 1
    <3>1. n + i = N + 1
      BY <1>1, <2>1
    <3> QED
      BY <1>1, <1>3, <1>4, <2>1, <3>1
  <2>2. CASE i \in 1..N - n
    <3>1. n + i \in 1..N
      BY <1>1, <2>2
    <3> QED
      BY <1>1, <1>2, <1>3, <1>4, <2>2, <3>1
  <2>3. i = N - n + 1 \/ i \in 1..N - n
    BY <1>1
  <2> QED
    BY <2>1, <2>2, <2>3
<1>6. b = Append(a, item)
  BY <1>3, <1>4, <1>5, SeqEqual
<1> QED
  BY <1>1, <1>2, <1>6 DEF a, b, N, more

LEMMA StatsInvInit == Init => StatsInv
<1> SUFFICES ASSUME Init PROVE StatsInv
  OBVIOUS
<1>1. PushedInv
  BY FlowInvInit DEF FlowInv
<1>2. cleared \in [Devices -> Nat] /\ DOMAIN stats = Devices
  BY DEF Init, ProcessorInit
<1>3. ASSUME NEW d \in Devices
      PROVE  /\ StatsTable(stats[d])
             /\ cleared[d] <= Len(pushed[d])
             /\ \A c \in Columns : Tally(StatsOf(d, c), Since(d), c)
             /\ \A c \in DOMAIN stats[d] : stats[d][c].count > 0
  <2>1. cleared[d] = 0 /\ pushed[d] = <<>> /\ stats[d] = NoStats
    BY DEF Init, ProcessorInit
  <2>2. Len(<<>>) = 0
    BY EmptySeq
  <2>3. DOMAIN stats[d] = {} /\ StatsTable(stats[d])
    BY <2>1 DEF NoStats, StatsTable
  <2>4. Since(d) = <<>>
    BY <2>1, <2>2, SubSeqEmpty DEF Since
  <2> QED
    BY <2>1, <2>2, <2>3, <2>4, TallyNone DEF StatsOf
<1> QED
  BY <1>1, <1>2, <1>3 DEF StatsInv

\* The statistics of one device, as the step leaves them.
LEMMA StatsAfterFrame ==
  ASSUME NEW d \in Devices, NEW item \in Items, StatsInv, AddData(d, item)
  PROVE  /\ StatsTable(UpdateStats(d, item.channels))
         /\ \A c \in Columns :
              Tally(IF c \in DOMAIN UpdateStats(d, item.channels)
                    THEN UpdateStats(d, item.channels)[c] ELSE ZeroStats,
                    Append(Since(d), item), c)
         /\ \A c \in DOMAIN UpdateStats(d, item.channels) : UpdateStats(d, item.channels)[c].count > 0
<1> DEFINE table == UpdateStats(d, item.channels)
<1>1. /\ StatsTable(stats[d]) /\ cleared[d] \in Nat /\ pushed[d] \in Seq(Items) /\ cleared[d] <= Len(pushed[d])
      /\ \A c \in Columns : Tally(StatsOf(d, c), Since(d), c)
      /\ \A c \in DOMAIN stats[d] : stats[d][c].count > 0
  BY DEF StatsInv, PushedInv
<1>2. item.channels \in Frames /\ DOMAIN item.channels \subseteq Columns
  BY DEF Items, Columns
<1>3. Since(d) \in Seq(Items)
  BY <1>1, SinceGrows DEF Since
<1>4. /\ DOMAIN table = DOMAIN stats[d] \cup DOMAIN item.channels
      /\ table \in [DOMAIN table -> {table[c] : c \in DOMAIN table}]
      /\ \A c \in DOMAIN item.channels : table[c] = Updated(StatsOf(d, c), item.channels[c])
      /\ \A c \in DOMAIN stats[d] \ DOMAIN item.channels : table[c] = stats[d][c]
  BY DEF UpdateStats
<1> HIDE DEF table
<1>5. ASSUME NEW c \in DOMAIN item.channels
      PROVE  Tally(table[c], Append(Since(d), item), c) /\ table[c].count > 0
  <2>1. Tally(StatsOf(d, c), Since(d), c)
    BY <1>1, <1>2
  <2>2. Tally(table[c], Append(Since(d), item), c)
    BY <1>3, <1>4, <2>1, TallyOne
  <2>3. StatsOf(d, c).count \in Nat
    BY <2>1 DEF Tally, ChannelStats
  <2>4. table[c].count = StatsOf(d, c).count + 1
    <3>1. table[c] = Updated(StatsOf(d, c), item.channels[c])
      BY <1>4
    <3>2. Updated(StatsOf(d, c), item.channels[c]).count = StatsOf(d, c).count + 1
      BY DEF Updated
    <3> QED
      BY <3>1, <3>2
  <2> QED
    BY <2>2, <2>3, <2>4
<1>6. ASSUME NEW c \in Columns \ DOMAIN item.channels
      PROVE  Tally(StatsOf(d, c), Append(Since(d), item), c)
  BY <1>1, <1>3, TallyOther
<1>7. ASSUME NEW c \in Columns
      PROVE  Tally(IF c \in DOMAIN table THEN table[c] ELSE ZeroStats, Append(Since(d), item), c)
  <2>1. CASE c \in DOMAIN item.channels
    BY <1>4, <1>5, <2>1
  <2>2. CASE c \notin DOMAIN item.channels
    BY <1>4, <1>6, <2>2 DEF StatsOf
  <2> QED
    BY <2>1, <2>2
<1>8. DOMAIN table \subseteq Columns
  BY <1>1, <1>2, <1>4 DEF StatsTable
<1>9. \A c \in DOMAIN table : table[c] \in ChannelStats
  BY <1>7, <1>8 DEF Tally
<1>10. \A c \in DOMAIN table : table[c].count > 0
  BY <1>1, <1>4, <1>5
<1>11. StatsTable(table)
  BY <1>4, <1>8, <1>9 DEF StatsTable
<1> QED
  BY <1>7, <1>10, <1>11 DEF table

\* The statistics of a device the step does not touch.
LEMMA StatsStay ==
  ASSUME StatsInv, NEW d \in Devices,
         stats'[d] = stats[d], cleared'[d] = cleared[d], pushed'[d] = pushed[d]
  PROVE  /\ StatsTable(stats'[d])
         /\ cleared'[d] <= Len(pushed'[d])
         /\ \A c \in Columns : Tally(StatsOf(d, c)', Since(d)', c)
         /\ \A c \in DOMAIN stats'[d] : stats'[d][c].count > 0
<1>1. Since(d)' = Since(d) /\ \A c : StatsOf(d, c)' = StatsOf(d, c)
  BY DEF Since, StatsOf
<1> QED
  BY <1>1 DEF StatsInv

\* Those of a device that is cleared.
LEMMA StatsCleared ==
  ASSUME StatsInv, NEW d \in Devices,
         stats'[d] = NoStats, cleared'[d] = Len(pushed[d]), pushed' = pushed
  PROVE  /\ StatsTable(stats'[d])
         /\ cleared'[d] <= Len(pushed'[d])
         /\ \A c \in Columns : Tally(StatsOf(d, c)', Since(d)', c)
         /\ \A c \in DOMAIN stats'[d] : stats'[d][c].count > 0
<1>1. Len(pushed[d]) \in Nat
  BY LenProperties DEF StatsInv, PushedInv
<1>2. Since(d)' = <<>>
  <2>1. Since(d)' = SubSeq(pushed[d], Len(pushed[d]) + 1, Len(pushed[d]))
    BY DEF Since
  <2>2. Len(pushed[d]) + 1 \in Int /\ Len(pushed[d]) \in Int /\ Len(pushed[d]) < Len(pushed[d]) + 1
    BY <1>1
  <2> QED
    BY <2>1, <2>2, SubSeqEmpty
<1>3. DOMAIN stats'[d] = {} /\ StatsTable(stats'[d])
  BY DEF NoStats, StatsTable
<1>4. \A c : StatsOf(d, c)' = ZeroStats
  BY <1>3 DEF StatsOf
<1> QED
  BY <1>1, <1>2, <1>3, <1>4, TallyNone

LEMMA StatsInvStep == StatsInv /\ [ProcessorNext]_processorVars /\ FlowInv' => StatsInv'
<1> SUFFICES ASSUME StatsInv, [ProcessorNext]_processorVars, FlowInv' PROVE StatsInv'
  OBVIOUS
<1>0. /\ PushedInv' /\ cleared \in [Devices -> Nat] /\ DOMAIN stats = Devices
      /\ \A d \in Devices : pushed[d] \in Seq(Items) /\ Len(pushed[d]) \in Nat
  BY LenProperties DEF FlowInv, StatsInv, PushedInv
<1> DEFINE Good(d) == /\ StatsTable(stats'[d])
                      /\ cleared'[d] <= Len(pushed'[d])
                      /\ \A c \in Columns : Tally(StatsOf(d, c)', Since(d)', c)
                      /\ \A c \in DOMAIN stats'[d] : stats'[d][c].count > 0
<1>1. SUFFICES cleared' \in [Devices -> Nat] /\ DOMAIN stats' = Devices /\ \A d \in Devices : Good(d)
  BY <1>0 DEF StatsInv
<1>2. ASSUME NEW d \in Devices, NEW frame \in Frames, NEW item,
             item = [device |-> d, stamp |-> Len(pushed[d]) + 1, channels |-> frame], AddData(d, item)
      PROVE  cleared' \in [Devices -> Nat] /\ DOMAIN stats' = Devices /\ \A e \in Devices : Good(e)
  <2>1. item \in Items
    BY <1>0, <1>2 DEF Items
  <2> DEFINE table == UpdateStats(d, item.channels)
             more  == Append(pushed[d], item)
  <2>2. /\ StatsTable(table)
        /\ \A c \in Columns : Tally(IF c \in DOMAIN table THEN table[c] ELSE ZeroStats,
                                    Append(Since(d), item), c)
        /\ \A c \in DOMAIN table : table[c].count > 0
    BY <1>2, <2>1, StatsAfterFrame
  <2>3. /\ stats' = [stats EXCEPT ![d] = table] /\ pushed' = [pushed EXCEPT ![d] = more]
        /\ cleared' = cleared
    BY <1>2 DEF AddData
  <2> HIDE DEF table, more
  <2>4. /\ stats'[d] = table /\ pushed'[d] = more
        /\ \A e \in Devices \ {d} : stats'[e] = stats[e] /\ pushed'[e] = pushed[e]
    BY <1>0, <2>3 DEF StatsInv, PushedInv
  <2>5. cleared[d] \in Nat /\ cleared[d] <= Len(pushed[d]) /\ Len(more) = Len(pushed[d]) + 1
    BY <1>0, <2>1, AppendProperties DEF StatsInv, more
  <2>6. Since(d)' = Append(Since(d), item)
    <3>1. Since(d)' = SubSeq(more, cleared[d] + 1, Len(more))
      BY <2>3, <2>4 DEF Since
    <3> QED
      BY <1>0, <2>1, <2>5, <3>1, SinceGrows DEF Since, more
  <2>7. \A c : StatsOf(d, c)' = IF c \in DOMAIN table THEN table[c] ELSE ZeroStats
    BY <2>4 DEF StatsOf
  <2>8. cleared'[d] <= Len(pushed'[d])
    BY <1>0, <2>3, <2>4, <2>5
  <2>9. Good(d)
    BY <2>2, <2>4, <2>6, <2>7, <2>8
  <2>10. ASSUME NEW e \in Devices \ {d} PROVE Good(e)
    BY <2>3, <2>4, StatsStay
  <2> HIDE DEF Good
  <2> QED
    BY <1>0, <2>3, <2>9, <2>10
<1>3. ASSUME NEW d \in Devices, ClearData(d)
      PROVE  cleared' \in [Devices -> Nat] /\ DOMAIN stats' = Devices /\ \A e \in Devices : Good(e)
  <2>1. /\ stats' = [stats EXCEPT ![d] = NoStats] /\ pushed' = pushed
        /\ cleared' = [cleared EXCEPT ![d] = Len(pushed[d])]
    BY <1>3 DEF ClearData
  <2>2. /\ stats'[d] = NoStats /\ cleared'[d] = Len(pushed[d])
        /\ \A e \in Devices \ {d} : stats'[e] = stats[e] /\ cleared'[e] = cleared[e]
    BY <1>0, <2>1
  <2>3. Good(d)
    BY <2>1, <2>2, StatsCleared
  <2>4. ASSUME NEW e \in Devices \ {d} PROVE Good(e)
    BY <2>1, <2>2, StatsStay
  <2> HIDE DEF Good
  <2> QED
    BY <1>0, <2>1, <2>3, <2>4
<1>4. ASSUME ClearAll
      PROVE  cleared' \in [Devices -> Nat] /\ DOMAIN stats' = Devices /\ \A e \in Devices : Good(e)
  <2>1. /\ stats' = [d \in Devices |-> NoStats] /\ pushed' = pushed
        /\ cleared' = [d \in Devices |-> Len(pushed[d])]
    BY <1>4 DEF ClearAll
  <2>2. ASSUME NEW e \in Devices PROVE Good(e)
    BY <2>1, StatsCleared
  <2> HIDE DEF Good
  <2> QED
    BY <1>0, <2>1, <2>2
<1>5. ASSUME UNCHANGED <<stats, pushed, cleared>>
      PROVE  cleared' \in [Devices -> Nat] /\ DOMAIN stats' = Devices /\ \A e \in Devices : Good(e)
  <2>1. ASSUME NEW e \in Devices PROVE Good(e)
    BY <1>5, StatsStay
  <2> HIDE DEF Good
  <2> QED
    BY <1>0, <1>5, <2>1
<1> HIDE DEF Good
<1> QED
  BY <1>2, <1>3, <1>4, <1>5 DEF ProcessorNext, processorVars, SetBufferSize

LEMMA StatsInvMatch == StatsInv => StatsMatch
<1> SUFFICES ASSUME StatsInv, NEW d \in Devices, NEW c \in DOMAIN stats[d]
             PROVE  LET s      == stats[d][c]
                        having == Having(Since(d), c)
                        values == Readings(Since(d), c)
                    IN /\ s.count = Cardinality(having) /\ s.count > 0
                       /\ \E i \in having : s.min = values[i]
                       /\ \E i \in having : s.max = values[i]
                       /\ \A i \in having : s.min <= values[i] /\ values[i] <= s.max
                       /\ Equal(s.avg, [num |-> Sum(values), den |-> s.count])
                       /\ Equal(s.meanSquare, [num |-> Sum(Squares(values)), den |-> s.count])
  BY DEF StatsMatch
<1> DEFINE s      == stats[d][c]
           having == Having(Since(d), c)
           values == Readings(Since(d), c)
<1>1. c \in Columns /\ s = StatsOf(d, c) /\ s.count > 0
  BY DEF StatsInv, StatsTable, StatsOf
<1>2. Tally(s, Since(d), c)
  BY <1>1 DEF StatsInv
<1>3. having # {}
  <2>1. s.count = Cardinality(having)
    BY <1>2 DEF Tally
  <2>2. s.count # 0
    BY <1>1
  <2> HIDE DEF s, having
  <2> QED
    BY <2>1, <2>2, FS_EmptySet
<1> QED
  BY <1>1, <1>2, <1>3 DEF Tally

\* The statistics of every channel are those of all its readings since the last
\* clear: count, least, greatest, mean and mean square, whatever was dropped.
THEOREM PipelineStats == Spec => []StatsMatch
<1>1. FlowInv /\ StatsInv /\ [Next]_vars => StatsInv'
  BY FlowInvStep, ProcessorStep, StatsInvStep
<1> QED
  BY <1>1, FlowInvInit, FlowInvStep, StatsInvInit, StatsInvMatch, PTL DEF Spec
-----------------------------------------------------------------------------
(* What becomes of the channels of a message.                              *)

\* The channels of a message, and those before channel k.
Present(payload) == {k \in DOMAIN payload : k \in 1..8}
Before(payload, k) == {j \in Present(payload) : j < k}

\* The number of present channels before it tells a channel from every other.
LEMMA BeforeGrows ==
  ASSUME NEW payload, NEW j \in Present(payload), NEW k \in Present(payload), j < k
  PROVE  Cardinality(Before(payload, j)) < Cardinality(Before(payload, k))
<1> DEFINE less == Before(payload, j)
           more == Before(payload, k)
<1>1. j \in Nat /\ k \in Nat /\ Present(payload) \subseteq Nat
  BY DEF Present
<1>2. less \in SUBSET more /\ j \in more /\ j \notin less
  BY <1>1 DEF Before
<1>3. more \subseteq 1..8
  BY DEF Before, Present
<1>4. IsFiniteSet(1..8)
  <2>1. 1 \in Int /\ 8 \in Int
    OBVIOUS
  <2> QED
    BY <2>1, FS_Interval, Zenon
<1>5. IsFiniteSet(more)
  BY <1>3, <1>4, FS_Subset
<1>6. IsFiniteSet(less)
  BY <1>2, <1>5, FS_Subset
<1> HIDE DEF less, more
<1>7. Cardinality(less) <= Cardinality(more) /\ Cardinality(less) # Cardinality(more)
  <2>1. less # more
    BY <1>2
  <2> QED
    BY <1>2, <1>5, <2>1, FS_Subset
<1>8. Cardinality(less) \in Nat /\ Cardinality(more) \in Nat
  BY <1>5, <1>6, FS_CardinalityType
<1> QED
  BY <1>7, <1>8 DEF less, more

\* The readings of a message move together: channel k comes to the place that the
\* channels before it leave it, which is its own (k - 1, as places count from 0)
\* only if none of them is missing.
THEOREM ChannelPlace ==
  ASSUME NEW payload, NEW k \in Present(payload)
  PROVE  LET i == Cardinality(Before(payload, k)) IN
           /\ i \in DOMAIN Parse(payload) /\ Parse(payload)[i] = payload[k]
           /\ i <= k - 1
           /\ i = k - 1 <=> 1..k - 1 \subseteq Present(payload)
<1> DEFINE keys   == Present(payload)
           Key(i) == CHOOSE m \in keys : Cardinality({j \in keys : j < m}) = i
           place  == Cardinality(Before(payload, k))
<1>1. k \in 1..8 /\ k \in Nat /\ keys \subseteq Nat /\ keys \subseteq 1..8
  BY DEF Present
<1>2. IsFiniteSet(keys)
  <2>1. 1 \in Int /\ 8 \in Int
    OBVIOUS
  <2>2. IsFiniteSet(1..8)
    BY <2>1, FS_Interval, Zenon
  <2> QED
    BY <1>1, <2>2, FS_Subset
<1>3. place \in Nat /\ place < Cardinality(keys)
  <2>1. Before(payload, k) \in SUBSET keys /\ k \notin Before(payload, k)
    BY <1>1 DEF Before
  <2>2. IsFiniteSet(Before(payload, k)) /\ Cardinality(Before(payload, k)) <= Cardinality(keys)
        /\ Cardinality(keys) # Cardinality(Before(payload, k))
    <3>1. k \in keys
      OBVIOUS
    <3> HIDE DEF keys
    <3>2. keys # Before(payload, k)
      BY <2>1, <3>1
    <3> QED
      BY <1>2, <2>1, <3>2, FS_Subset
  <2>3. Cardinality(Before(payload, k)) \in Nat /\ Cardinality(keys) \in Nat
    BY <1>2, <2>2, FS_CardinalityType
  <2> HIDE DEF keys
  <2> QED
    BY <2>2, <2>3
<1>4. Key(place) = k
  <2>1. Before(payload, k) = {j \in keys : j < k}
    BY DEF Before
  <2>2. \E m \in keys : Cardinality({j \in keys : j < m}) = place
    BY <2>1
  <2>3. Key(place) \in keys /\ Cardinality({j \in keys : j < Key(place)}) = place
    BY <2>2
  <2> DEFINE m == Key(place)
  <2>4. m \in keys /\ Cardinality(Before(payload, m)) = place
    BY <2>3 DEF Before
  <2>5. m \in Nat
    BY <1>1, <2>4
  <2> HIDE DEF m
  <2>6. ASSUME m < k PROVE FALSE
    <3>1. place < place
      BY <2>4, <2>6, BeforeGrows
    <3> HIDE DEF place
    <3> QED
      BY <1>3, <3>1
  <2>7. ASSUME k < m PROVE FALSE
    <3>1. place < place
      BY <2>4, <2>7, BeforeGrows
    <3> HIDE DEF place
    <3> QED
      BY <1>3, <3>1
  <2>8. m = k
    BY <1>1, <2>5, <2>6, <2>7
  <2> QED
    BY <2>8 DEF m
<1>5. Parse(payload) = [i \in 0..Cardinality(keys) - 1 |-> payload[Key(i)]]
  BY DEF Parse, Present
<1>6. place \in DOMAIN Parse(payload) /\ Parse(payload)[place] = payload[k]
  <2>1. Cardinality(keys) \in Nat
    BY <1>2, FS_CardinalityType
  <2>2. place \in 0..Cardinality(keys) - 1
    <3> HIDE DEF place, keys
    <3> QED
      BY <1>3, <2>1
  <2> HIDE DEF place
  <2> QED
    BY <1>4, <1>5, <2>2
<1>7. place <= k - 1 /\ (place = k - 1 <=> 1..k - 1 \subseteq keys)
  <2>1. Before(payload, k) \in SUBSET (1..k - 1)
    BY <1>1 DEF Before, Present
  <2>2. IsFiniteSet(1..k - 1) /\ Cardinality(1..k - 1) = k - 1
    <3> DEFINE n == k - 1
    <3>1. 1 \in Int /\ n \in Int /\ (IF 1 > n THEN 0 ELSE n - 1 + 1) = n
      BY <1>1
    <3> HIDE DEF n
    <3>2. IsFiniteSet(1..n) /\ Cardinality(1..n) = n
      BY <3>1, FS_Interval, Zenon
    <3> QED
      BY <3>2 DEF n
  <2>3. place <= k - 1 /\ (k - 1 = place => 1..k - 1 = Before(payload, k))
    BY <2>1, <2>2, FS_Subset
  <2>4. Before(payload, k) = (1..k - 1) \cap keys
    BY <1>1 DEF Before, Present
  <2>5. 1..k - 1 \subseteq keys => place = k - 1
    BY <2>2, <2>4
  <2>6. k - 1 = place => 1..k - 1 \subseteq keys
    BY <2>3, <2>4
  <2> HIDE DEF place
  <2> QED
    BY <2>3, <2>5, <2>6
<1> QED
  BY <1>6, <1>7
=============================================================================
