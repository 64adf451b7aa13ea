---------------------------- MODULE DataProcessor ----------------------------
(***************************************************************************)
(* The data processor of the host (core/data_processor.rs): a bounded      *)
(* buffer of frames and running statistics of every channel, per device,   *)
(* all under one RwLock: every operation is one atomic step.               *)
(*                                                                         *)
(* Abstractions.  A device without an entry and one with an empty buffer,  *)
(* no statistics and the default limit answer every request alike, so      *)
(* every device has an entry.  The averages are exact rationals (the code  *)
(* rounds to f32), and the mean square stands for the rms, its root, which *)
(* the code squares again before it goes on.  last_update is never read    *)
(* and left out.                                                           *)
(***************************************************************************)
EXTENDS Telemetry

CONSTANTS
  DefaultLimit, \* default_buffer_size, 10000 in the code
  Limits        \* buffer sizes a call may set: any usize, 0 included

ASSUME ProcessorAssumption == DefaultLimit \in Nat /\ Limits \subseteq Nat

VARIABLES
  buffer,       \* [device]: the frames kept, oldest first
  limit,        \* [device]: max_buffer_size
  stats,        \* [device]: ChannelStats of every channel seen
  pushed,       \* history: [device]: every frame ever added
  cleared       \* history: [device]: how many of them the last clear has seen

processorVars == <<buffer, limit, stats, pushed, cleared>>

\* A frame of the stream of its device; the stamp is its place in the stream.
Items == [device : Devices, stamp : Nat, channels : Frames]

NoStats == [c \in {} |-> 0]

ProcessorInit ==
  /\ buffer  = [d \in Devices |-> <<>>]
  /\ limit   = [d \in Devices |-> DefaultLimit]
  /\ stats   = [d \in Devices |-> NoStats]
  /\ pushed  = [d \in Devices |-> <<>>]
  /\ cleared = [d \in Devices |-> 0]

-----------------------------------------------------------------------------
(* Statistics.  A rational number is a pair of a numerator and a positive  *)
(* denominator.                                                            *)

Whole(n) == [num |-> n, den |-> 1]
Plus(a, b) == [num |-> a.num * b.den + b.num * a.den, den |-> a.den * b.den]
Minus(a, b) == Plus(a, [b EXCEPT !.num = -@])
Over(a, n) == [a EXCEPT !.den = @ * n]
Times(a, n) == [a EXCEPT !.num = @ * n]

\* ChannelStats::default.
ZeroStats == [min |-> 0, max |-> 0, avg |-> Whole(0), meanSquare |-> Whole(0), count |-> 0]

\* Mutant of Updated: the first sample is not told apart.
UpdatedFromZero(s, value) ==
  LET n == s.count + 1 IN
    [min   |-> IF value < s.min THEN value ELSE s.min,
     max   |-> IF value > s.max THEN value ELSE s.max,
     avg   |-> Plus(s.avg, Over(Minus(Whole(value), s.avg), n)),
     meanSquare |-> Plus(Over(Times(s.meanSquare, n - 1), n), Over(Whole(value * value), n)),
     count |-> n]

\* update_stats for one channel.
Updated(s, value) ==
  LET n == s.count + 1 IN
    [min   |-> IF s.count = 0 \/ value < s.min THEN value ELSE s.min,
     max   |-> IF s.count = 0 \/ value > s.max THEN value ELSE s.max,
     avg   |-> Plus(s.avg, Over(Minus(Whole(value), s.avg), n)),
     meanSquare |-> Plus(Over(Times(s.meanSquare, n - 1), n), Over(Whole(value * value), n)),
     count |-> n]

StatsOf(d, c) == IF c \in DOMAIN stats[d] THEN stats[d][c] ELSE ZeroStats

UpdateStats(d, frame) ==
  [c \in DOMAIN stats[d] \cup DOMAIN frame |->
     IF c \in DOMAIN frame THEN Updated(StatsOf(d, c), frame[c]) ELSE stats[d][c]]

-----------------------------------------------------------------------------
(* Operations.                                                             *)

\* while buffer.len() > max_buffer_size: pop_front.
Trimmed(frames, n) == LastN(frames, n)

AddData(d, item) ==
  /\ buffer' = [buffer EXCEPT ![d] = Trimmed(Append(@, item), limit[d])]
  /\ stats'  = [stats EXCEPT ![d] = UpdateStats(d, item.channels)]
  /\ pushed' = [pushed EXCEPT ![d] = Append(@, item)]
  /\ UNCHANGED <<limit, cleared>>

SetBufferSize(d, size) ==
  /\ limit'  = [limit EXCEPT ![d] = size]
  /\ buffer' = [buffer EXCEPT ![d] = Trimmed(@, size)]
  /\ UNCHANGED <<stats, pushed, cleared>>

\* The limit stays.
ClearData(d) ==
  /\ buffer'  = [buffer EXCEPT ![d] = <<>>]
  /\ stats'   = [stats EXCEPT ![d] = NoStats]
  /\ cleared' = [cleared EXCEPT ![d] = Len(pushed[d])]
  /\ UNCHANGED <<limit, pushed>>

\* The limits go with the entries.
ClearAll ==
  /\ buffer'  = [d \in Devices |-> <<>>]
  /\ limit'   = [d \in Devices |-> DefaultLimit]
  /\ stats'   = [d \in Devices |-> NoStats]
  /\ cleared' = [d \in Devices |-> Len(pushed[d])]
  /\ UNCHANGED pushed

\* Reads.
GetData(d) == buffer[d]
GetLatestData(d, count) == LastN(buffer[d], count)
GetStats(d) == stats[d]

ProcessorNext ==
  \/ \E d \in Devices :
       \/ \E frame \in Frames :
            AddData(d, [device |-> d, stamp |-> Len(pushed[d]) + 1, channels |-> frame])
       \/ \E size \in Limits : SetBufferSize(d, size)
       \/ ClearData(d)
  \/ ClearAll

ProcessorSpec == ProcessorInit /\ [][ProcessorNext]_processorVars
=============================================================================
