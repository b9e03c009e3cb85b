------------------------------ MODULE JitterProofs ------------------------------
(***************************************************************************)
(* The jitter buffer between its talker, its network and its device, for   *)
(* every word size, queue, target delay, frame time and environment.       *)
(*                                                                         *)
(* The argument is made in positions: how far a sequence number and a      *)
(* timestamp are into their stream.  Two things the state does not show    *)
(* are kept beside it: `born`, the local time at which each stream had its *)
(* first timestamp, and `sent`, the marks (stream and two positions) of    *)
(* the packets sent so far.  The inductive invariant says that there are   *)
(* such a `born` and `sent` that                                           *)
(*   - marks of one stream are at least as far apart in time as in         *)
(*     sequence, and the talker's next mark is too (Timed);                *)
(*   - the packets in flight and the frames held are marks of `sent`;      *)
(*   - the playout position is no further ahead of the cursor than any     *)
(*     mark still to be played, or the talker, is (Projected);             *)
(*   - the anchor is a timestamp plus its delay in the network plus the    *)
(*     target delay (AnchoredAt);                                          *)
(*   - the frames held are within one window of the cursor (Windowed).     *)
(* Above it are Once (a packet is in one place), Ahead (the cursor has not *)
(* passed what is in flight) and, for the environment the buffer is built  *)
(* for, Steady (everything sent is accounted for, and the timeline keeps   *)
(* up with the device).                                                    *)
(***************************************************************************)
EXTENDS JitterNetwork, SerialProofs, TLAPS

Streams == 1 .. MaxStreams

SequencePosition(n, sequence) == Wrap(sequence - FirstSequence[n])
TimestampPosition(n, timestamp) == Wrap(timestamp - FirstTimestamp[n])

Marks == [stream : Streams, seq : Nat, ts : Nat]

\* The mark of a packet or of a frame.
Mark(x) ==
  [stream |-> x.stream, seq |-> SequencePosition(x.stream, x.sequence),
   ts |-> TimestampPosition(x.stream, x.timestamp)]

Births == [Streams -> Nat]

\* The local time at which a stream had a timestamp.
TimeOf(born, n, ts) == born[n] + FrameTicks * ts

NextSeq(t) == SequencePosition(t.stream, t.sequence)
NextTs(t) == TimestampPosition(t.stream, t.timestamp)

-------------------------------------------------------------------------------
(* The talker and the network *)

TalkerOK(born) ==
  /\ talker \in [stream : 0 .. MaxStreams, sequence : Serials,
                 timestamp : Serials, talking : BOOLEAN]
  /\ talker.stream = 0 => ~talker.talking
  /\ talker.stream # 0 =>
       /\ NextSeq(talker) <= NextTs(talker)
       /\ now < TimeOf(born, talker.stream, NextTs(talker))
       /\ TimeOf(born, talker.stream, NextTs(talker)) <= now + FrameTicks
       /\ TimeOf(born, talker.stream, NextTs(talker)) % FrameTicks = 0
  /\ profile.perTalkspurt /\ talker.talking => NextSeq(talker) = NextTs(talker)

MarkOK(born, m) ==
  /\ m.stream <= talker.stream
  /\ m.seq <= m.ts
  /\ TimeOf(born, m.stream, m.ts) <= now
  /\ m.stream = talker.stream => m.seq < NextSeq(talker) /\ NextSeq(talker) - m.seq <= NextTs(talker) - m.ts
  /\ profile.perTalkspurt => m.seq = m.ts

Timed(sent) ==
  \A m, k \in sent :
    m.stream = k.stream /\ m.seq <= k.seq => k.seq - m.seq <= k.ts - m.ts

\* A packet or a frame that is a mark of `sent`.
Known(sent, x) ==
  /\ {"stream", "sequence", "timestamp"} \subseteq DOMAIN x
  /\ x.stream \in Streams
  /\ x.sequence \in Serials
  /\ x.timestamp \in Serials
  /\ Mark(x) \in sent

PacketOK(born, sent, p) ==
  /\ Known(sent, p)
  /\ p.sent = TimeOf(born, p.stream, Mark(p).ts)
  /\ now <= p.sent + profile.delay

ProfileOK ==
  /\ profile \in Profiles
  /\ now \in Nat \ {0}
  /\ now < Half
  /\ now = 1 \/ now <= profile.horizon

World(born, sent) ==
  /\ ProfileOK
  /\ \A n \in Streams : born[n] >= FrameTicks
  /\ TalkerOK(born)
  /\ \A m \in sent : MarkOK(born, m)
  /\ Timed(sent)
  /\ \A p \in network : PacketOK(born, sent, p)

-------------------------------------------------------------------------------
(* The buffer *)

Projected(born, sent, n, cursor, playout) ==
  LET c == SequencePosition(n, cursor)
      t == TimestampPosition(n, playout)
  IN  /\ cursor \in Serials
      /\ playout \in Serials
      /\ c <= t
      /\ TimeOf(born, n, t) <= now + FrameTicks
      /\ n = talker.stream => t - c <= NextTs(talker) - NextSeq(talker)
      /\ \A m \in sent : m.stream = n /\ c <= m.seq => m.seq - c <= m.ts - t
      /\ profile.perTalkspurt => c = t

AnchoredAt(born, n, anchorTs, anchorLocal) ==
  LET due == TimeOf(born, n, TimestampPosition(n, anchorTs))
  IN  /\ anchorTs \in Serials
      /\ anchorLocal \in Nat
      /\ due <= now
      /\ due + TargetDelay <= anchorLocal
      /\ anchorLocal <= due + TargetDelay + profile.delay

Windowed(sent, n, cursor, slots) ==
  \A i \in DOMAIN slots :
    /\ Known(sent, slots[i])
    /\ slots[i].stream = n
    /\ Index(slots[i].sequence) = i
    /\ Mark(slots[i]).seq - SequencePosition(n, cursor) \in 0 .. Capacity - 1

QueueFields == {"slots", "cursor", "highest", "held", "started"}

BufferFields ==
  {"open", "queue", "anchored", "hasStream", "streamId", "lastArrival",
   "anchorTs", "anchorLocal", "playoutTs", "concealRun", "hasEnd",
   "endSequence"}

Sound(born, sent, j) ==
  /\ BufferFields \subseteq DOMAIN j
  /\ QueueFields \subseteq DOMAIN j.queue
  /\ j.hasStream => j.streamId \in Streams /\ j.streamId <= talker.stream
  /\ ~j.anchored => j.queue = EmptyQueue
  /\ j.anchored =>
       /\ j.hasStream
       /\ j.queue.started
       /\ Projected(born, sent, j.streamId, j.queue.cursor, j.playoutTs)
       /\ AnchoredAt(born, j.streamId, j.anchorTs, j.anchorLocal)
       /\ Windowed(sent, j.streamId, j.queue.cursor, j.queue.slots)

InvWith(born, sent) == World(born, sent) /\ Sound(born, sent, jb)

-------------------------------------------------------------------------------
(* Times and positions *)

\* What is assumed of the configuration and of the network, in one place.
LEMMA ConstantFacts ==
  /\ Half \in Nat /\ Half > 1 /\ Modulus = 2 * Half
  /\ FrameTicks \in Nat /\ FrameTicks > 0
  /\ TargetDelay \in Nat
  /\ MaxCatchup \in Nat
  /\ MaxJump \in Nat /\ MaxJump > 0
  /\ MaxStreams \in Nat /\ MaxStreams > 0
  /\ Capacity \in Nat /\ Capacity > 0 /\ Capacity <= Half
  /\ \A n \in Streams : FirstSequence[n] \in Serials /\ FirstTimestamp[n] \in Serials
  /\ \A p \in Profiles : p.delay \in Nat /\ p.horizon \in Nat /\ p.horizon < Half
BY ModulusFacts, ConfigAssumption, NetworkAssumption, CapacityAssumption DEF Streams

\* A frame time is at least one tick: n of them are at least n ticks.
LEMMA TicksGrow ==
  ASSUME NEW f \in Nat, f > 0, NEW x \in Nat
  PROVE  f * x \in Nat /\ x <= f * x
OBVIOUS

\* More frames take more ticks.
LEMMA TicksMonotone ==
  ASSUME NEW f \in Nat, NEW x \in Int, NEW y \in Int, x <= y
  PROVE  f * x <= f * y /\ f * x \in Int /\ f * y \in Int
OBVIOUS

\* Ticks of sums.
LEMMA TicksAdd ==
  ASSUME NEW f \in Nat, NEW x \in Int, NEW y \in Int
  PROVE  /\ f * (x + y) = f * x + f * y
         /\ f * (x - y) = f * x - f * y
         /\ f * x \in Int /\ f * y \in Int
OBVIOUS

\* The distance of two serial numbers is the difference of their positions, as
\* long as both are within half a word of the first (serial.hpp).
LEMMA DistancePositions ==
  ASSUME NEW o \in Serials, NEW a \in Serials, NEW b \in Serials,
         Wrap(a - o) < Half, Wrap(b - o) < Half
  PROVE  Distance(a, b) = Wrap(b - o) - Wrap(a - o)
<1> DEFINE d == Wrap(a - o)
           e == Wrap(b - o)
<1>1. d \in Serials /\ d \in {a - o, a - o + Modulus} /\ d < Half
  BY AheadOf
<1>2. e \in Serials /\ e \in {b - o, b - o + Modulus} /\ e < Half
  BY AheadOf
<1> HIDE DEF d, e
<1>3. e - d \in -Half .. Half - 1 /\ e - d \in {b - a, b - a + Modulus, b - a - Modulus}
  BY <1>1, <1>2, ModulusFacts
<1>4. Distance(a, b) = e - d
  BY <1>3, DistanceUnique
<1> QED BY <1>4 DEF d, e

\* A position gives its serial number back.
LEMMA PositionInverse ==
  ASSUME NEW o \in Serials, NEW a \in Serials, NEW b \in Serials,
         Wrap(a - o) = Wrap(b - o)
  PROVE  a = b
<1>1. Wrap(a - o) \in {a - o, a - o + Modulus} /\ Wrap(b - o) \in {b - o, b - o + Modulus}
  BY AheadOf
<1> QED BY <1>1, ModulusFacts

\* The distance of two positions of one stream's sequence numbers.
LEMMA SequenceDistance ==
  ASSUME NEW n \in Streams, NEW a \in Serials, NEW b \in Serials,
         SequencePosition(n, a) < Half, SequencePosition(n, b) < Half
  PROVE  Distance(a, b) = SequencePosition(n, b) - SequencePosition(n, a)
BY DistancePositions, ConstantFacts DEF SequencePosition

\* The distance of two positions of one stream's timestamps.
LEMMA TimestampDistance ==
  ASSUME NEW n \in Streams, NEW a \in Serials, NEW b \in Serials,
         TimestampPosition(n, a) < Half, TimestampPosition(n, b) < Half
  PROVE  Distance(a, b) = TimestampPosition(n, b) - TimestampPosition(n, a)
BY DistancePositions, ConstantFacts DEF TimestampPosition

\* Positions are numbers.
LEMMA PositionTypes ==
  ASSUME NEW n \in Streams, NEW a \in Serials
  PROVE  SequencePosition(n, a) \in Nat /\ TimestampPosition(n, a) \in Nat
<1>1. FirstSequence[n] \in Serials /\ FirstTimestamp[n] \in Serials
  BY ConstantFacts
<1>2. a - FirstSequence[n] \in Int /\ a - FirstTimestamp[n] \in Int
  BY <1>1, ModulusFacts
<1>3. SequencePosition(n, a) \in Serials /\ TimestampPosition(n, a) \in Serials
  BY <1>2, WrapType DEF SequencePosition, TimestampPosition
<1> QED BY <1>3, ModulusFacts

\* k further on.
LEMMA PositionStep ==
  ASSUME NEW n \in Streams, NEW a \in Serials, NEW k \in Nat
  PROVE  /\ Wrap(a + k) \in Serials
         /\ SequencePosition(n, a) + k < Half
              => SequencePosition(n, Wrap(a + k)) = SequencePosition(n, a) + k
         /\ TimestampPosition(n, a) + k < Half
              => TimestampPosition(n, Wrap(a + k)) = TimestampPosition(n, a) + k
<1>1. FirstSequence[n] \in Serials /\ FirstTimestamp[n] \in Serials
  BY ConstantFacts
<1>2. Wrap(a + k) \in Serials
  <2>1. a + k \in Int
    BY ModulusFacts
  <2> QED BY <2>1, WrapType
<1>3. ASSUME SequencePosition(n, a) + k < Half
      PROVE  SequencePosition(n, Wrap(a + k)) = SequencePosition(n, a) + k
  <2>1. Wrap(a - FirstSequence[n]) + k < Modulus
    <3>1. SequencePosition(n, a) + k < Modulus
      BY <1>3, PositionTypes, ConstantFacts
    <3> QED BY <3>1 DEF SequencePosition
  <2> QED BY <1>1, <2>1, AheadStep DEF SequencePosition
<1>4. ASSUME TimestampPosition(n, a) + k < Half
      PROVE  TimestampPosition(n, Wrap(a + k)) = TimestampPosition(n, a) + k
  <2>1. Wrap(a - FirstTimestamp[n]) + k < Modulus
    <3>1. TimestampPosition(n, a) + k < Modulus
      BY <1>4, PositionTypes, ConstantFacts
    <3> QED BY <3>1 DEF TimestampPosition
  <2> QED BY <1>1, <2>1, AheadStep DEF TimestampPosition
<1> QED BY <1>2, <1>3, <1>4

\* A stream starts at position 0.
LEMMA FirstPosition ==
  ASSUME NEW n \in Streams
  PROVE  /\ SequencePosition(n, FirstSequence[n]) = 0
         /\ TimestampPosition(n, FirstTimestamp[n]) = 0
<1>1. FirstSequence[n] \in Serials /\ FirstTimestamp[n] \in Serials
  BY ConstantFacts
<1>2. 0 \in Int /\ Wrap(0) = 0
  BY ModulusFacts, WrapNear
<1>3. FirstSequence[n] - FirstSequence[n] = 0 /\ FirstTimestamp[n] - FirstTimestamp[n] = 0
  BY <1>1, ModulusFacts
<1> QED BY <1>2, <1>3 DEF SequencePosition, TimestampPosition

\* A timestamp that was had by now is a number below half a word, and so is the
\* one a frame time later.
LEMMA TimesBounded ==
  ASSUME ProfileOK, NEW born \in Births, NEW n \in Streams, born[n] >= FrameTicks,
         NEW t \in Nat, TimeOf(born, n, t) <= now + FrameTicks
  PROVE  t < Half /\ t <= now
<1>1. FrameTicks * t \in Nat /\ t <= FrameTicks * t
  BY TicksGrow, ConstantFacts
<1>2. born[n] \in Nat /\ now \in Nat /\ now < Half
  BY DEF Births, ProfileOK
<1> QED BY <1>1, <1>2, ConstantFacts DEF TimeOf

\* Times are numbers.
LEMMA TimeType ==
  ASSUME NEW born \in Births, NEW n \in Streams, NEW t \in Int
  PROVE  /\ TimeOf(born, n, t) \in Int
         /\ t \in Nat => TimeOf(born, n, t) \in Nat
         /\ \A k \in Int : TimeOf(born, n, t + k) = TimeOf(born, n, t) + FrameTicks * k
         /\ \A k \in Int : t <= k => TimeOf(born, n, t) <= TimeOf(born, n, k)
<1>1. born[n] \in Nat /\ FrameTicks \in Nat /\ FrameTicks > 0
  BY ConstantFacts DEF Births
<1>2. FrameTicks * t \in Int /\ (t \in Nat => FrameTicks * t \in Nat)
  BY <1>1, TicksAdd, TicksGrow
<1>3. \A k \in Int : FrameTicks * (t + k) = FrameTicks * t + FrameTicks * k /\ FrameTicks * k \in Int
  BY <1>1, TicksAdd
<1>4. \A k \in Int : t <= k => FrameTicks * t <= FrameTicks * k
  BY <1>1, TicksMonotone
<1> HIDE DEF TimeOf
<1>5. TimeOf(born, n, t) \in Int /\ (t \in Nat => TimeOf(born, n, t) \in Nat)
  BY <1>1, <1>2 DEF TimeOf
<1>6. \A k \in Int : TimeOf(born, n, t + k) = TimeOf(born, n, t) + FrameTicks * k
  BY <1>1, <1>2, <1>3 DEF TimeOf
<1>7. \A k \in Int : t <= k => TimeOf(born, n, t) <= TimeOf(born, n, k)
  BY <1>1, <1>2, <1>3, <1>4 DEF TimeOf
<1> QED BY <1>5, <1>6, <1>7

\* And not negative.
LEMMA TimeNat ==
  ASSUME NEW born \in Births, NEW n \in Streams, NEW t \in Nat
  PROVE  TimeOf(born, n, t) \in Nat
BY TimeType

-------------------------------------------------------------------------------
(* Marks *)

\* The mark of a packet or a frame that was sent: positions below half a word.
LEMMA KnownFacts ==
  ASSUME NEW born \in Births, NEW sent \in SUBSET Marks, World(born, sent),
         NEW x, Known(sent, x)
  PROVE  /\ x.stream \in Streams /\ x.sequence \in Serials /\ x.timestamp \in Serials
         /\ x.stream <= talker.stream
         /\ Mark(x) \in sent
         /\ Mark(x).stream = x.stream
         /\ Mark(x).seq = SequencePosition(x.stream, x.sequence)
         /\ Mark(x).ts = TimestampPosition(x.stream, x.timestamp)
         /\ Mark(x).seq \in Nat /\ Mark(x).ts \in Nat
         /\ Mark(x).seq <= Mark(x).ts /\ Mark(x).ts < Half
         /\ TimeOf(born, x.stream, Mark(x).ts) <= now
         /\ profile.perTalkspurt => Mark(x).seq = Mark(x).ts
<1>1. x.stream \in Streams /\ x.sequence \in Serials /\ x.timestamp \in Serials
      /\ Mark(x) \in sent
  BY DEF Known
<1>2. /\ Mark(x).stream = x.stream
      /\ Mark(x).seq = SequencePosition(x.stream, x.sequence)
      /\ Mark(x).ts = TimestampPosition(x.stream, x.timestamp)
  BY DEF Mark
<1>3. Mark(x).seq \in Nat /\ Mark(x).ts \in Nat
  BY <1>1, <1>2, PositionTypes
<1>4. MarkOK(born, Mark(x)) /\ ProfileOK /\ born[x.stream] >= FrameTicks
  BY <1>1 DEF World
<1>5. /\ x.stream <= talker.stream /\ Mark(x).seq <= Mark(x).ts
      /\ TimeOf(born, x.stream, Mark(x).ts) <= now
      /\ profile.perTalkspurt => Mark(x).seq = Mark(x).ts
  BY <1>2, <1>4 DEF MarkOK
<1>6. TimeOf(born, x.stream, Mark(x).ts) <= now + FrameTicks
  BY <1>1, <1>3, <1>4, <1>5, TimeNat, ConstantFacts DEF ProfileOK
<1>7. Mark(x).ts < Half
  BY <1>1, <1>3, <1>4, <1>6, TimesBounded
<1> QED BY <1>1, <1>2, <1>3, <1>5, <1>7

\* The timeline may be put at any packet or frame that was sent
\* (jitter_buffer.cpp: push(), peek_and_align()).
LEMMA ProjectedAtMark ==
  ASSUME NEW born \in Births, NEW sent \in SUBSET Marks, World(born, sent),
         NEW x, Known(sent, x)
  PROVE  Projected(born, sent, x.stream, x.sequence, x.timestamp)
<1> DEFINE m == Mark(x)
           c == SequencePosition(x.stream, x.sequence)
           t == TimestampPosition(x.stream, x.timestamp)
<1>1. /\ x.sequence \in Serials /\ x.timestamp \in Serials
      /\ x.stream \in Streams
      /\ m \in sent /\ m.stream = x.stream /\ m.seq = c /\ m.ts = t
      /\ c \in Nat /\ t \in Nat /\ c <= t
      /\ TimeOf(born, x.stream, t) <= now
      /\ profile.perTalkspurt => c = t
  BY KnownFacts
<1> HIDE DEF m, c, t
<1>2. TimeOf(born, x.stream, t) <= now + FrameTicks
  BY <1>1, TimeType, ConstantFacts DEF World, ProfileOK
<1>3. x.stream = talker.stream => t - c <= NextTs(talker) - NextSeq(talker)
  <2> SUFFICES ASSUME x.stream = talker.stream PROVE t - c <= NextTs(talker) - NextSeq(talker)
    OBVIOUS
  <2>1. NextSeq(talker) - m.seq <= NextTs(talker) - m.ts
    BY <1>1 DEF World, MarkOK
  <2>2. NextSeq(talker) \in Nat /\ NextTs(talker) \in Nat
    <3>1. talker.stream \in Streams /\ talker.sequence \in Serials /\ talker.timestamp \in Serials
      BY <1>1 DEF World, TalkerOK
    <3> QED BY <3>1, PositionTypes DEF NextSeq, NextTs
  <2> QED BY <1>1, <2>1, <2>2
<1>4. \A k \in sent : k.stream = x.stream /\ c <= k.seq => k.seq - c <= k.ts - t
  BY <1>1 DEF World, Timed
<1> QED BY <1>1, <1>2, <1>3, <1>4 DEF Projected, c, t

\* The timeline may go k frames on, in sequence and in time together, as long as
\* it stays within a frame time of the clock (jitter_buffer.cpp:315-334, 340-420).
LEMMA ProjectedMoved ==
  ASSUME NEW born \in Births, NEW sent \in SUBSET Marks, World(born, sent),
         NEW n \in Streams, NEW cursor, NEW playout, NEW k \in Nat,
         Projected(born, sent, n, cursor, playout),
         TimeOf(born, n, TimestampPosition(n, playout) + k) <= now + FrameTicks
  PROVE  /\ Projected(born, sent, n, Wrap(cursor + k), Wrap(playout + k))
         /\ SequencePosition(n, Wrap(cursor + k)) = SequencePosition(n, cursor) + k
         /\ TimestampPosition(n, Wrap(playout + k)) = TimestampPosition(n, playout) + k
         /\ SequencePosition(n, cursor) + k < Half
         /\ TimestampPosition(n, playout) + k < Half
<1> DEFINE c == SequencePosition(n, cursor)
           t == TimestampPosition(n, playout)
           d == SequencePosition(n, Wrap(cursor + k))
           u == TimestampPosition(n, Wrap(playout + k))
<1>1. /\ cursor \in Serials /\ playout \in Serials /\ c <= t
      /\ n = talker.stream => t - c <= NextTs(talker) - NextSeq(talker)
      /\ \A m \in sent : m.stream = n /\ c <= m.seq => m.seq - c <= m.ts - t
      /\ profile.perTalkspurt => c = t
  BY DEF Projected
<1>2. c \in Nat /\ t \in Nat
  BY <1>1, PositionTypes
<1>3. t + k < Half
  <2>1. t + k \in Nat /\ born[n] >= FrameTicks /\ ProfileOK
    BY <1>2 DEF World
  <2> HIDE DEF t
  <2> QED BY <2>1, TimesBounded DEF t
<1>4. c + k < Half
  BY <1>1, <1>2, <1>3, ConstantFacts
<1>5. Wrap(cursor + k) \in Serials /\ Wrap(playout + k) \in Serials /\ d = c + k /\ u = t + k
  BY <1>1, <1>3, <1>4, PositionStep
<1>6. TimeOf(born, n, u) <= now + FrameTicks
  BY <1>5
<1> HIDE DEF c, t, d, u
<1>7. n = talker.stream => u - d <= NextTs(talker) - NextSeq(talker)
  BY <1>1, <1>2, <1>5
<1>8. \A m \in sent : m.stream = n /\ d <= m.seq => m.seq - d <= m.ts - u
  <2> TAKE m \in sent
  <2>1. m.seq \in Nat /\ m.ts \in Nat
    BY DEF Marks
  <2> QED BY <1>1, <1>2, <1>5, <2>1
<1>9. d <= u /\ (profile.perTalkspurt => d = u)
  BY <1>1, <1>2, <1>5
<1>10. Projected(born, sent, n, Wrap(cursor + k), Wrap(playout + k))
  BY <1>5, <1>6, <1>7, <1>8, <1>9 DEF Projected, d, u
<1> QED BY <1>3, <1>4, <1>5, <1>10 DEF c, t, d, u

-------------------------------------------------------------------------------
(* Deadlines *)

\* How long after a timestamp was had its frame is due.
Lag(born, n, j) ==
  j.anchorLocal - TimeOf(born, n, TimestampPosition(n, j.anchorTs))

\* A deadline is the time of the timestamp plus a lag that is the same for all of
\* them: the target delay and the delay of the packet that anchored the stream
\* (jitter_buffer.cpp: anchor(), deadline_for()).
LEMMA DeadlineIs ==
  ASSUME NEW born \in Births, NEW sent \in SUBSET Marks, World(born, sent),
         NEW j, NEW n \in Streams, AnchoredAt(born, n, j.anchorTs, j.anchorLocal),
         NEW timestamp \in Serials, TimestampPosition(n, timestamp) < Half
  PROVE  /\ Lag(born, n, j) \in TargetDelay .. TargetDelay + profile.delay
         /\ Lag(born, n, j) \in Nat
         /\ DeadlineOf(j, timestamp)
              = TimeOf(born, n, TimestampPosition(n, timestamp)) + Lag(born, n, j)
         /\ DeadlineOf(j, timestamp) \in Nat
<1> DEFINE a == TimestampPosition(n, j.anchorTs)
           t == TimestampPosition(n, timestamp)
           at == j.anchorLocal + FrameTicks * Distance(j.anchorTs, timestamp)
           lag == Lag(born, n, j)
<1>1. /\ j.anchorTs \in Serials /\ j.anchorLocal \in Nat
      /\ TimeOf(born, n, a) <= now
      /\ TimeOf(born, n, a) + TargetDelay <= j.anchorLocal
      /\ j.anchorLocal <= TimeOf(born, n, a) + TargetDelay + profile.delay
  BY DEF AnchoredAt
<1>2. a \in Nat /\ t \in Nat
  BY <1>1, PositionTypes
<1>3. TimeOf(born, n, a) \in Nat /\ TimeOf(born, n, t) \in Nat
  BY <1>2, TimeType
<1>4. now \in Nat /\ profile.delay \in Nat /\ TargetDelay \in Nat /\ FrameTicks \in Nat
  BY ConstantFacts DEF World, ProfileOK
<1>5. a < Half
  <2>1. TimeOf(born, n, a) <= now + FrameTicks
    BY <1>1, <1>3, <1>4
  <2> QED BY <1>2, <2>1, TimesBounded DEF World
<1>6. Distance(j.anchorTs, timestamp) = t - a
  BY <1>1, <1>5, TimestampDistance
<1>7. TimeOf(born, n, t) = TimeOf(born, n, a) + FrameTicks * (t - a)
      /\ FrameTicks * (t - a) \in Int
  <2>1. t - a \in Int /\ a + (t - a) = t
    BY <1>2
  <2>2. TimeOf(born, n, a + (t - a)) = TimeOf(born, n, a) + FrameTicks * (t - a)
    BY <1>2, <2>1, TimeType
  <2>3. FrameTicks * (t - a) \in Int
    BY <1>4, <2>1
  <2> QED BY <2>1, <2>2, <2>3
<1>8. lag = j.anchorLocal - TimeOf(born, n, a)
  BY DEF Lag
<1>9. at = j.anchorLocal + FrameTicks * (t - a)
  BY <1>6
<1>10. DeadlineOf(j, timestamp) = IF at < 0 THEN 0 ELSE at
  BY DEF DeadlineOf
<1> HIDE DEF a, t, at, lag
<1>11. lag \in TargetDelay .. TargetDelay + profile.delay /\ lag \in Nat
  BY <1>1, <1>3, <1>4, <1>8
<1>12. at = TimeOf(born, n, t) + lag /\ at \in Nat
  BY <1>1, <1>3, <1>7, <1>8, <1>9, <1>11
<1>13. DeadlineOf(j, timestamp) = at
  BY <1>10, <1>12
<1> QED BY <1>11, <1>12, <1>13 DEF a, t, at, lag

-------------------------------------------------------------------------------
(* The window of the queue *)

\* Moving the cursor k on and freeing what it passes keeps the frames within one
\* window of it (reorder_queue.cpp: advance(), skip_to()).
LEMMA WindowMoved ==
  ASSUME NEW born \in Births, NEW sent \in SUBSET Marks, World(born, sent),
         NEW n \in Streams, NEW cursor \in Serials, NEW slots, NEW k \in Nat,
         NEW freed,
         SequencePosition(n, cursor) + k < Half,
         Windowed(sent, n, cursor, slots),
         \A d \in 0 .. k - 1 :
           d < Capacity /\ Index(Wrap(cursor + d)) \in DOMAIN slots
             /\ slots[Index(Wrap(cursor + d))].sequence = Wrap(cursor + d)
             => Index(Wrap(cursor + d)) \in freed
  PROVE  Windowed(sent, n, Wrap(cursor + k), [i \in DOMAIN slots \ freed |-> slots[i]])
<1> DEFINE c == SequencePosition(n, cursor)
           left == [i \in DOMAIN slots \ freed |-> slots[i]]
<1>1. c \in Nat /\ c + k < Half
  BY PositionTypes
<1>2. SequencePosition(n, Wrap(cursor + k)) = c + k
  BY PositionStep
<1>3. DOMAIN left = DOMAIN slots \ freed /\ \A i \in DOMAIN left : left[i] = slots[i]
  OBVIOUS
<1> HIDE DEF c, left
<1>4. ASSUME NEW i \in DOMAIN left
      PROVE  /\ Known(sent, left[i])
             /\ left[i].stream = n
             /\ Index(left[i].sequence) = i
             /\ Mark(left[i]).seq - (c + k) \in 0 .. Capacity - 1
  <2> DEFINE f == slots[i]
             e == Mark(f).seq - c
  <2>1. /\ Known(sent, f) /\ f.stream = n /\ Index(f.sequence) = i
        /\ e \in 0 .. Capacity - 1 /\ left[i] = f /\ i \in DOMAIN slots /\ i \notin freed
    BY <1>3, <1>4 DEF Windowed, c
  <2> HIDE DEF f
  <2>2. /\ f.sequence \in Serials /\ Mark(f).seq \in Nat /\ Mark(f).seq < Half
        /\ Mark(f).seq = SequencePosition(n, f.sequence)
    BY <2>1, KnownFacts, ConstantFacts
  <2>3. e >= k
    <3> SUFFICES ASSUME e < k PROVE FALSE
      BY <2>1, ConstantFacts
    <3>1. e \in Nat /\ e \in 0 .. k - 1 /\ e < Capacity /\ c + e = Mark(f).seq /\ c + e < Half
      BY <1>1, <2>1, <2>2, ConstantFacts
    <3> HIDE DEF e
    <3>2. Wrap(cursor + e) \in Serials /\ SequencePosition(n, Wrap(cursor + e)) = c + e
      BY <3>1, PositionStep DEF c
    <3>3. Wrap(cursor + e) = f.sequence
      <4>1. /\ FirstSequence[n] \in Serials
            /\ Wrap(Wrap(cursor + e) - FirstSequence[n]) = Wrap(f.sequence - FirstSequence[n])
        BY <2>2, <3>1, <3>2, ConstantFacts DEF SequencePosition
      <4> QED BY <2>2, <3>2, <4>1, PositionInverse
    <3> QED BY <2>1, <3>1, <3>3 DEF f
  <2> QED BY <1>1, <2>1, <2>2, <2>3, ConstantFacts
<1>5. Windowed(sent, n, Wrap(cursor + k), left)
  BY <1>2, <1>4 DEF Windowed
<1> QED BY <1>5 DEF left

\* A frame inside the window may be stored (reorder_queue.cpp: insert()).
LEMMA WindowStored ==
  ASSUME NEW sent, NEW n, NEW cursor, NEW slots, NEW f,
         Windowed(sent, n, cursor, slots), Known(sent, f), f.stream = n,
         Mark(f).seq - SequencePosition(n, cursor) \in 0 .. Capacity - 1
  PROVE  Windowed(sent, n, cursor,
                  [i \in DOMAIN slots \cup {Index(f.sequence)} |->
                     IF i = Index(f.sequence) THEN f ELSE slots[i]])
BY DEF Windowed

\* advance() on a started queue.
LEMMA Advancing ==
  ASSUME NEW born \in Births, NEW sent \in SUBSET Marks, World(born, sent),
         NEW q, QueueFields \subseteq DOMAIN q, q.started,
         NEW n \in Streams, q.cursor \in Serials,
         SequencePosition(n, q.cursor) + 1 < Half,
         Windowed(sent, n, q.cursor, q.slots)
  PROVE  /\ QueueFields \subseteq DOMAIN AdvanceQ(q)
         /\ AdvanceQ(q).started
         /\ AdvanceQ(q).cursor = Wrap(q.cursor + 1)
         /\ Windowed(sent, n, AdvanceQ(q).cursor, AdvanceQ(q).slots)
         /\ \A i \in DOMAIN AdvanceQ(q).slots :
              /\ i \in DOMAIN q.slots
              /\ AdvanceQ(q).slots[i] = q.slots[i]
              /\ q.slots[i].sequence # q.cursor
         /\ \A i \in DOMAIN q.slots :
              q.slots[i].sequence # q.cursor =>
                i \in DOMAIN AdvanceQ(q).slots /\ AdvanceQ(q).slots[i] = q.slots[i]
<1> DEFINE freed == IF Holds(q, q.cursor) THEN {Index(q.cursor)} ELSE {}
           left == [i \in DOMAIN q.slots \ freed |-> q.slots[i]]
           a == AdvanceQ(q)
<1>1. a = [Free(q, freed) EXCEPT !.cursor = Wrap(q.cursor + 1)]
  BY DEF AdvanceQ
<1>2. /\ QueueFields \subseteq DOMAIN a /\ a.started
      /\ a.cursor = Wrap(q.cursor + 1) /\ a.slots = left
  <2> HIDE DEF freed, a
  <2> QED BY <1>1 DEF Free, QueueFields
<1>3. ASSUME NEW d \in 0 .. 1 - 1,
             Index(Wrap(q.cursor + d)) \in DOMAIN q.slots,
             q.slots[Index(Wrap(q.cursor + d))].sequence = Wrap(q.cursor + d)
      PROVE  Index(Wrap(q.cursor + d)) \in freed
  <2>1. Wrap(q.cursor + d) = q.cursor
    <3>1. q.cursor + d = q.cursor /\ q.cursor \in Int
      BY ModulusFacts
    <3> QED BY <3>1, WrapNear, ModulusFacts
  <2>2. Holds(q, q.cursor)
    BY <1>3, <2>1 DEF Holds
  <2> QED BY <2>1, <2>2
<1>4. Windowed(sent, n, Wrap(q.cursor + 1), left)
  <2> HIDE DEF freed
  <2> QED BY <1>3, WindowMoved
<1>5. ASSUME NEW i \in DOMAIN left
      PROVE  i \in DOMAIN q.slots /\ left[i] = q.slots[i] /\ q.slots[i].sequence # q.cursor
  <2>1. i \in DOMAIN q.slots /\ left[i] = q.slots[i] /\ i \notin freed
    BY <1>5
  <2>2. Index(q.slots[i].sequence) = i
    BY <2>1 DEF Windowed
  <2> QED BY <2>1, <2>2 DEF Holds
<1>6. ASSUME NEW i \in DOMAIN q.slots, q.slots[i].sequence # q.cursor
      PROVE  i \in DOMAIN left /\ left[i] = q.slots[i]
  BY <1>6 DEF Holds
<1> HIDE DEF freed, left, a
<1>7. Windowed(sent, n, a.cursor, a.slots)
  BY <1>2, <1>4
<1> QED BY <1>2, <1>5, <1>6, <1>7 DEF a

\* skip_to(), k forward, on a started queue.
LEMMA Skipping ==
  ASSUME NEW born \in Births, NEW sent \in SUBSET Marks, World(born, sent),
         NEW q, QueueFields \subseteq DOMAIN q, q.started,
         NEW n \in Streams, q.cursor \in Serials, NEW k \in Nat, k > 0,
         SequencePosition(n, q.cursor) + k < Half,
         Windowed(sent, n, q.cursor, q.slots)
  PROVE  LET s == SkipToQ(q, Wrap(q.cursor + k))
         IN  /\ QueueFields \subseteq DOMAIN s
             /\ s.started
             /\ s.cursor = Wrap(q.cursor + k)
             /\ Windowed(sent, n, s.cursor, s.slots)
             /\ \A i \in DOMAIN s.slots : i \in DOMAIN q.slots /\ s.slots[i] = q.slots[i]
<1> DEFINE s == SkipToQ(q, Wrap(q.cursor + k))
           freed == Skipped(q, k)
           left == [i \in DOMAIN q.slots \ freed |-> q.slots[i]]
<1>1. k \in 0 .. Half - 1
  BY PositionTypes, ConstantFacts
<1>2. SkipFrames(q, Wrap(q.cursor + k)) = k
  BY <1>1, DistanceForward DEF SkipFrames
<1>3. s = [Free(q, freed) EXCEPT !.cursor = Wrap(q.cursor + k)]
  BY <1>2 DEF SkipToQ
<1>4. /\ QueueFields \subseteq DOMAIN s /\ s.started
      /\ s.cursor = Wrap(q.cursor + k) /\ s.slots = left
  <2> HIDE DEF freed, s
  <2> QED BY <1>3 DEF Free, QueueFields
<1>5. ASSUME NEW d \in 0 .. k - 1, d < Capacity,
             Index(Wrap(q.cursor + d)) \in DOMAIN q.slots,
             q.slots[Index(Wrap(q.cursor + d))].sequence = Wrap(q.cursor + d)
      PROVE  Index(Wrap(q.cursor + d)) \in freed
  <2>1. Holds(q, Wrap(q.cursor + d))
    BY <1>5 DEF Holds
  <2>2. d \in 0 .. (IF k < Capacity THEN k ELSE Capacity) - 1
    BY <1>5, ConstantFacts
  <2> QED BY <2>1, <2>2 DEF Skipped
<1>6. Windowed(sent, n, Wrap(q.cursor + k), left)
  <2> HIDE DEF freed
  <2> QED BY <1>5, WindowMoved
<1>7. \A i \in DOMAIN left : i \in DOMAIN q.slots /\ left[i] = q.slots[i]
  OBVIOUS
<1> HIDE DEF freed, left, s
<1>8. Windowed(sent, n, s.cursor, s.slots)
  BY <1>4, <1>6
<1> QED BY <1>4, <1>7, <1>8 DEF s

-------------------------------------------------------------------------------
(* push() *)

\* The frames a buffer holds, by stream and sequence number.
HeldIds(j) ==
  {<<j.queue.slots[i].stream, j.queue.slots[i].sequence>> : i \in DOMAIN j.queue.slots}

\* A sound buffer on the stream of a packet.
On(born, sent, j, packet) ==
  /\ Sound(born, sent, j)
  /\ j.hasStream
  /\ j.streamId = packet.stream

\* An empty queue holds nothing, wherever its cursor is.
LEMMA EmptyWindow ==
  ASSUME NEW sent, NEW n, NEW cursor
  PROVE  /\ Windowed(sent, n, cursor, NoSlots)
         /\ QueueFields \subseteq DOMAIN EmptyQueue
         /\ EmptyQueue.slots = NoSlots /\ ~EmptyQueue.started
         /\ DOMAIN NoSlots = {}
BY DEF Windowed, NoSlots, EmptyQueue, QueueFields

\* A packet is adopted by dropping the stream of another (jitter_buffer.cpp:150-190).
LEMMA AdoptSound ==
  ASSUME NEW born \in Births, NEW sent \in SUBSET Marks, World(born, sent),
         NEW j, Sound(born, sent, j), NEW p, Known(sent, p), NEW arrival
  PROVE  LET k == [Adopt(j, p) EXCEPT !.lastArrival = arrival]
         IN  On(born, sent, k, p) /\ HeldIds(k) \subseteq HeldIds(j)
<1> DEFINE i == IF j.hasStream /\ p.stream # j.streamId THEN ResetStream(j) ELSE j
           k == [Adopt(j, p) EXCEPT !.lastArrival = arrival]
<1>1. p.stream \in Streams /\ p.stream <= talker.stream
  BY KnownFacts
<1>2. BufferFields \subseteq DOMAIN j /\ QueueFields \subseteq DOMAIN j.queue
  BY DEF Sound
<1>3. /\ BufferFields \subseteq DOMAIN k /\ k.queue = i.queue /\ k.anchored = i.anchored
      /\ k.hasStream /\ k.streamId = p.stream
      /\ k.anchorTs = i.anchorTs /\ k.anchorLocal = i.anchorLocal
      /\ k.playoutTs = i.playoutTs
  <2>1. BufferFields \subseteq DOMAIN i
    BY <1>2 DEF ResetStream, BufferFields
  <2>2. k = [[i EXCEPT !.hasStream = TRUE, !.streamId = p.stream] EXCEPT !.lastArrival = arrival]
    BY DEF Adopt
  <2> HIDE DEF i, k
  <2> QED BY <2>1, <2>2 DEF BufferFields
<1>4. CASE j.hasStream /\ p.stream # j.streamId
  <2>1. i.queue = EmptyQueue /\ ~i.anchored
    BY <1>2, <1>4 DEF ResetStream, BufferFields
  <2> HIDE DEF i, k
  <2>2. Sound(born, sent, k)
    BY <1>1, <1>3, <2>1, EmptyWindow DEF Sound
  <2>3. HeldIds(k) = {}
    BY <1>3, <2>1, EmptyWindow DEF HeldIds
  <2> QED BY <1>3, <2>2, <2>3 DEF On, k
<1>5. CASE ~(j.hasStream /\ p.stream # j.streamId)
  <2>1. i = j
    BY <1>5
  <2> HIDE DEF i, k
  <2>2. j.anchored => j.streamId = p.stream
    BY <1>5 DEF Sound
  <2>3. Sound(born, sent, k)
    BY <1>1, <1>2, <1>3, <2>1, <2>2 DEF Sound
  <2>4. HeldIds(k) = HeldIds(j)
    BY <1>3, <2>1 DEF HeldIds
  <2> QED BY <1>3, <2>3, <2>4 DEF On, k
<1> QED BY <1>4, <1>5

\* The time and place of a packet that arrives anchor its stream
\* (jitter_buffer.cpp: anchor()).
LEMMA AnchoredAtPacket ==
  ASSUME NEW born \in Births, NEW sent \in SUBSET Marks, World(born, sent),
         NEW p, PacketOK(born, sent, p)
  PROVE  AnchoredAt(born, p.stream, p.timestamp, now + TargetDelay)
<1>1. Known(sent, p) /\ p.sent = TimeOf(born, p.stream, Mark(p).ts) /\ now <= p.sent + profile.delay
  BY DEF PacketOK
<1>2. /\ p.stream \in Streams /\ p.timestamp \in Serials
      /\ Mark(p).ts = TimestampPosition(p.stream, p.timestamp) /\ Mark(p).ts \in Nat
      /\ TimeOf(born, p.stream, Mark(p).ts) <= now
  BY <1>1, KnownFacts
<1>3. p.sent \in Nat /\ now \in Nat /\ profile.delay \in Nat /\ TargetDelay \in Nat
  BY <1>1, <1>2, TimeType, ConstantFacts DEF World, ProfileOK
<1> QED BY <1>1, <1>2, <1>3 DEF AnchoredAt

\* A buffer whose timeline is put at a packet, with nothing held, is sound
\* (jitter_buffer.cpp:192-236, 249-262).
LEMMA PutAtPacket ==
  ASSUME NEW born \in Births, NEW sent \in SUBSET Marks, World(born, sent),
         NEW p, PacketOK(born, sent, p), NEW k,
         BufferFields \subseteq DOMAIN k, QueueFields \subseteq DOMAIN k.queue,
         k.hasStream, k.streamId = p.stream, k.anchored,
         k.anchorTs = p.timestamp, k.anchorLocal = now + TargetDelay,
         k.playoutTs = p.timestamp, k.queue.started,
         k.queue.cursor = p.sequence, k.queue.slots = NoSlots
  PROVE  On(born, sent, k, p) /\ HeldIds(k) = {}
<1>1. Known(sent, p)
  BY DEF PacketOK
<1>2. p.stream \in Streams /\ p.stream <= talker.stream
  BY <1>1, KnownFacts
<1>3. Projected(born, sent, p.stream, p.sequence, p.timestamp)
  BY <1>1, ProjectedAtMark
<1>4. AnchoredAt(born, p.stream, p.timestamp, now + TargetDelay)
  BY AnchoredAtPacket
<1>5. Windowed(sent, p.stream, p.sequence, NoSlots)
  BY EmptyWindow
<1>6. Sound(born, sent, k)
  BY <1>2, <1>3, <1>4, <1>5 DEF Sound
<1>7. HeldIds(k) = {}
  BY EmptyWindow DEF HeldIds
<1> QED BY <1>6, <1>7 DEF On

\* A restart puts the timeline at the packet.
LEMMA RestartSound ==
  ASSUME NEW born \in Births, NEW sent \in SUBSET Marks, World(born, sent),
         NEW p, PacketOK(born, sent, p), NEW j, On(born, sent, j, p)
  PROVE  LET k == Restart(j, p, now)
         IN  On(born, sent, k, p) /\ k.anchored /\ HeldIds(k) = {}
<1> DEFINE k == Restart(j, p, now)
<1>1. BufferFields \subseteq DOMAIN j /\ j.hasStream /\ j.streamId = p.stream
  BY DEF On, Sound
<1>2. /\ BufferFields \subseteq DOMAIN k
      /\ k.hasStream /\ k.streamId = p.stream /\ k.anchored
      /\ k.anchorTs = p.timestamp /\ k.anchorLocal = now + TargetDelay
      /\ k.playoutTs = p.timestamp /\ k.queue = ResyncQ(p.sequence)
  BY <1>1 DEF Restart, Anchor, BufferFields
<1>3. /\ QueueFields \subseteq DOMAIN ResyncQ(p.sequence)
      /\ ResyncQ(p.sequence).started /\ ResyncQ(p.sequence).cursor = p.sequence
      /\ ResyncQ(p.sequence).slots = NoSlots
  BY DEF ResyncQ, QueueFields
<1> HIDE DEF k
<1> QED BY <1>2, <1>3, PutAtPacket DEF k

\* What the argument reads of a buffer.
SameTimeline(k, j) ==
  /\ BufferFields \subseteq DOMAIN k
  /\ k.queue = j.queue
  /\ k.anchored <=> j.anchored
  /\ k.hasStream <=> j.hasStream
  /\ k.streamId = j.streamId
  /\ k.anchorTs = j.anchorTs
  /\ k.anchorLocal = j.anchorLocal
  /\ k.playoutTs = j.playoutTs

\* The other fields are no part of it.
LEMMA SameSound ==
  ASSUME NEW born \in Births, NEW sent \in SUBSET Marks,
         NEW j, Sound(born, sent, j), NEW k, SameTimeline(k, j)
  PROVE  /\ Sound(born, sent, k)
         /\ HeldIds(k) = HeldIds(j)
         /\ \A p : On(born, sent, j, p) => On(born, sent, k, p)
<1>1. Sound(born, sent, k)
  BY DEF SameTimeline, Sound
<1>2. HeldIds(k) = HeldIds(j)
  BY DEF SameTimeline, HeldIds
<1> QED BY <1>1, <1>2 DEF SameTimeline, On

\* hasEnd and endSequence are none.
LEMMA EndIgnored ==
  ASSUME NEW j, BufferFields \subseteq DOMAIN j, NEW has, NEW last
  PROVE  SameTimeline([j EXCEPT !.hasEnd = has, !.endSequence = last], j)
BY DEF SameTimeline, BufferFields

\* Nor is hasEnd alone.
LEMMA HasEndIgnored ==
  ASSUME NEW j, BufferFields \subseteq DOMAIN j, NEW has
  PROVE  SameTimeline([j EXCEPT !.hasEnd = has], j)
BY DEF SameTimeline, BufferFields

\* place(): the packet anchors, re-anchors or restarts its stream
\* (jitter_buffer.cpp:192-236).
LEMMA PlaceSound ==
  ASSUME NEW born \in Births, NEW sent \in SUBSET Marks, World(born, sent),
         NEW p, PacketOK(born, sent, p), NEW j, On(born, sent, j, p)
  PROVE  LET k == Place(j, p, now)
         IN  On(born, sent, k, p) /\ k.anchored /\ HeldIds(k) \subseteq HeldIds(j)
<1> DEFINE k == Place(j, p, now)
           l == [j EXCEPT !.hasEnd = FALSE]
<1>1. /\ BufferFields \subseteq DOMAIN j /\ QueueFields \subseteq DOMAIN j.queue
      /\ j.hasStream /\ j.streamId = p.stream
      /\ ~j.anchored => j.queue = EmptyQueue
  BY DEF On, Sound
<1>2. CASE ~j.anchored
  <2> DEFINE s == StartQ(j.queue, p.sequence)
  <2>1. k = [Anchor(j, p.timestamp, now) EXCEPT !.queue = s, !.playoutTs = p.timestamp]
    BY <1>2 DEF Place
  <2>2. /\ QueueFields \subseteq DOMAIN s /\ s.started
        /\ s.cursor = p.sequence /\ s.slots = NoSlots
    BY <1>1, <1>2, EmptyWindow DEF StartQ, QueueFields
  <2> HIDE DEF s, k
  <2>3. /\ BufferFields \subseteq DOMAIN k
        /\ k.hasStream /\ k.streamId = p.stream /\ k.anchored
        /\ k.anchorTs = p.timestamp /\ k.anchorLocal = now + TargetDelay
        /\ k.playoutTs = p.timestamp /\ k.queue = s
    BY <1>1, <2>1 DEF Anchor, BufferFields
  <2> QED BY <2>2, <2>3, PutAtPacket DEF k
<1>3. CASE j.anchored /\ ~p.start
  BY <1>3 DEF Place
<1>4. CASE j.anchored /\ p.start /\ PrecedesOrEqual(j.queue.cursor, p.sequence)
  <2>1. k = Anchor(l, p.timestamp, now)
    BY <1>4 DEF Place
  <2>2. On(born, sent, l, p) /\ HeldIds(l) = HeldIds(j) /\ l.anchored
    <3>1. SameTimeline(l, j)
      BY <1>1, HasEndIgnored
    <3> HIDE DEF l
    <3> QED BY <1>4, <3>1, SameSound DEF On, SameTimeline
  <2>3. AnchoredAt(born, p.stream, p.timestamp, now + TargetDelay)
    BY AnchoredAtPacket
  <2> HIDE DEF l, k
  <2>4. /\ BufferFields \subseteq DOMAIN k /\ k.queue = l.queue /\ k.anchored
        /\ k.hasStream = l.hasStream /\ k.streamId = l.streamId
        /\ k.anchorTs = p.timestamp /\ k.anchorLocal = now + TargetDelay
        /\ k.playoutTs = l.playoutTs
    BY <2>1, <2>2 DEF Anchor, BufferFields, On, Sound
  <2>5. On(born, sent, k, p)
    BY <2>2, <2>3, <2>4 DEF On, Sound
  <2>6. HeldIds(k) = HeldIds(l)
    BY <2>4 DEF HeldIds
  <2> QED BY <2>2, <2>4, <2>5, <2>6 DEF k
<1>5. CASE j.anchored /\ p.start /\ ~PrecedesOrEqual(j.queue.cursor, p.sequence)
  <2>1. k = Restart(l, p, now)
    BY <1>5 DEF Place
  <2>2. On(born, sent, l, p)
    <3>1. SameTimeline(l, j)
      BY <1>1, HasEndIgnored
    <3> HIDE DEF l
    <3> QED BY <3>1, SameSound DEF On
  <2> HIDE DEF l, k
  <2> QED BY <2>1, <2>2, RestartSound DEF k
<1> QED BY <1>2, <1>3, <1>4, <1>5

\* The end mark.
LEMMA NoteEndSound ==
  ASSUME NEW born \in Births, NEW sent \in SUBSET Marks, NEW p,
         NEW j, On(born, sent, j, p), j.anchored
  PROVE  LET k == NoteEnd(j, p)
         IN  On(born, sent, k, p) /\ k.anchored /\ HeldIds(k) = HeldIds(j)
<1> DEFINE k == NoteEnd(j, p)
           l == [j EXCEPT !.hasEnd = TRUE, !.endSequence = p.sequence]
<1>1. k = j \/ k = l
  BY DEF NoteEnd
<1>2. SameTimeline(l, j)
  BY EndIgnored DEF On, Sound
<1> HIDE DEF l, k
<1>3. On(born, sent, l, p) /\ HeldIds(l) = HeldIds(j) /\ l.anchored
  BY <1>2, SameSound DEF On, SameTimeline
<1> QED BY <1>1, <1>3 DEF k

\* insert(): the frame is stored if it is inside the window, and in no other case
\* does the queue change (reorder_queue.cpp:45-110).
LEMMA InsertedSound ==
  ASSUME NEW born \in Births, NEW sent \in SUBSET Marks, World(born, sent),
         NEW p, Known(sent, p), NEW j, On(born, sent, j, p), j.anchored
  PROVE  LET k == Inserted(j, p, now)
         IN  /\ Sound(born, sent, k)
             /\ HeldIds(k) \subseteq HeldIds(j) \cup {<<p.stream, p.sequence>>}
<1> DEFINE k == Inserted(j, p, now)
           f == FrameOf(j, p)
           v == Offer(j, p, now)
           q == j.queue
           s == InsertQ(q, f, v)
<1>1. /\ BufferFields \subseteq DOMAIN j /\ QueueFields \subseteq DOMAIN q
      /\ j.hasStream /\ j.streamId = p.stream /\ q.started
      /\ Projected(born, sent, p.stream, q.cursor, j.playoutTs)
      /\ Windowed(sent, p.stream, q.cursor, q.slots)
  BY DEF On, Sound
<1>2. /\ {"stream", "sequence", "timestamp"} \subseteq DOMAIN f
      /\ f.stream = p.stream /\ f.sequence = p.sequence /\ f.timestamp = p.timestamp
  BY DEF FrameOf
<1>3. Known(sent, f) /\ Mark(f) = Mark(p)
  BY <1>2 DEF Known, Mark
<1>4. k = [j EXCEPT !.queue = s]
  BY DEF Inserted
<1>5. v = InsertVerdict(q, f, p.oversized, now)
  BY DEF Offer
<1> HIDE DEF f, k, v, s
<1>6. CASE v # "Accepted"
  <2>1. s = q
    BY <1>1, <1>6 DEF s, InsertQ, StartQ
  <2>2. SameTimeline(k, j)
    BY <1>1, <1>4, <2>1 DEF BufferFields, SameTimeline
  <2> QED BY <2>2, SameSound DEF On, k
<1>7. CASE v = "Accepted"
  <2> DEFINE slots == [i \in DOMAIN q.slots \cup {Index(f.sequence)} |->
                         IF i = Index(f.sequence) THEN f ELSE q.slots[i]]
  <2>1. s = Store(q, f)
    BY <1>1, <1>7 DEF s, InsertQ, StartQ
  <2>2. /\ QueueFields \subseteq DOMAIN s /\ s.started
        /\ s.cursor = q.cursor /\ s.slots = slots
    BY <1>1, <2>1 DEF Store, QueueFields
  <2>3. Distance(q.cursor, f.sequence) \in 0 .. Capacity - 1
    <3>1. Distance(q.cursor, f.sequence) \in Int
      BY <1>1, <1>3, DistanceType, ConstantFacts DEF Projected, Known
    <3>2. ~(Distance(q.cursor, f.sequence) < 0) /\ ~(Distance(q.cursor, f.sequence) >= Capacity)
      BY <1>1, <1>5, <1>7 DEF InsertVerdict, StartQ
    <3> QED BY <3>1, <3>2, ConstantFacts
  <2>4. Mark(f).seq - SequencePosition(p.stream, q.cursor) \in 0 .. Capacity - 1
    <3>1. /\ f.sequence \in Serials /\ Mark(f).seq = SequencePosition(p.stream, f.sequence)
          /\ Mark(f).seq \in Nat /\ Mark(f).seq < Half /\ p.stream \in Streams
      BY <1>2, <1>3, KnownFacts, ConstantFacts
    <3>2. q.cursor \in Serials /\ SequencePosition(p.stream, q.cursor) < Half
      <4>1. TimestampPosition(p.stream, j.playoutTs) < Half
        BY <1>1, <3>1, PositionTypes, TimesBounded DEF Projected, World
      <4> QED BY <1>1, <3>1, <4>1, PositionTypes, ConstantFacts DEF Projected
    <3> QED BY <2>3, <3>1, <3>2, SequenceDistance
  <2>5. Windowed(sent, p.stream, q.cursor, slots)
    BY <1>1, <1>2, <1>3, <2>4, WindowStored
  <2>6. /\ BufferFields \subseteq DOMAIN k /\ k.queue = s /\ k.anchored = j.anchored
        /\ k.hasStream = j.hasStream /\ k.streamId = j.streamId
        /\ k.anchorTs = j.anchorTs /\ k.anchorLocal = j.anchorLocal
        /\ k.playoutTs = j.playoutTs
    BY <1>1, <1>4 DEF BufferFields
  <2>7. \A i \in DOMAIN slots :
          slots[i] = f \/ (i \in DOMAIN q.slots /\ slots[i] = q.slots[i])
    OBVIOUS
  <2> HIDE DEF slots
  <2>8. Windowed(sent, k.streamId, k.queue.cursor, k.queue.slots)
    BY <1>1, <2>2, <2>5, <2>6
  <2>9. Projected(born, sent, k.streamId, k.queue.cursor, k.playoutTs)
    BY <1>1, <2>2, <2>6
  <2>10. Sound(born, sent, k)
    BY <2>2, <2>6, <2>8, <2>9 DEF On, Sound
  <2>11. HeldIds(k) \subseteq HeldIds(j) \cup {<<p.stream, p.sequence>>}
    BY <1>2, <2>2, <2>6, <2>7 DEF HeldIds
  <2> QED BY <2>10, <2>11 DEF k
<1> QED BY <1>6, <1>7

\* push() keeps the buffer sound, and holds nothing new but its packet
\* (jitter_buffer.cpp:143-262).
LEMMA PushedSound ==
  ASSUME NEW born \in Births, NEW sent \in SUBSET Marks, World(born, sent),
         NEW p, PacketOK(born, sent, p), NEW j, Sound(born, sent, j)
  PROVE  LET k == Pushed(j, p, now)
         IN  /\ Sound(born, sent, k)
             /\ HeldIds(k) \subseteq HeldIds(j) \cup {<<p.stream, p.sequence>>}
<1> DEFINE k == Pushed(j, p, now)
           a == [Adopt(j, p) EXCEPT !.lastArrival = now]
           b == Place(a, p, now)
           c == Prepared(j, p, now)
           r == Restart(c, p, now)
           d == Jumped(c, p, now)
<1>1. Known(sent, p)
  BY DEF PacketOK
<1>2. On(born, sent, a, p) /\ HeldIds(a) \subseteq HeldIds(j)
  BY <1>1, AdoptSound
<1>3. c = NoteEnd(b, p)
  BY DEF Prepared
<1>4. d = [r EXCEPT !.hasEnd = FALSE]
  BY DEF Jumped
<1>5. \/ k = j
      \/ k = Inserted(c, p, now)
      \/ k = Inserted(d, p, now)
  BY DEF Pushed
<1> HIDE DEF a
<1>6. On(born, sent, b, p) /\ b.anchored /\ HeldIds(b) \subseteq HeldIds(a)
  BY <1>2, PlaceSound
<1> HIDE DEF b, c
<1>7. On(born, sent, c, p) /\ c.anchored /\ HeldIds(c) = HeldIds(b)
  BY <1>3, <1>6, NoteEndSound
<1>8. On(born, sent, r, p) /\ r.anchored /\ HeldIds(r) = {}
  BY <1>7, RestartSound
<1> HIDE DEF r, d
<1>9. On(born, sent, d, p) /\ d.anchored /\ HeldIds(d) = {}
  <2>1. SameTimeline(d, r)
    BY <1>4, <1>8, HasEndIgnored DEF On, Sound
  <2> QED BY <1>8, <2>1, SameSound DEF On, SameTimeline
<1>10. CASE k = j
  BY <1>10
<1>11. CASE k = Inserted(c, p, now)
  <2>1. /\ Sound(born, sent, k)
        /\ HeldIds(k) \subseteq HeldIds(c) \cup {<<p.stream, p.sequence>>}
    BY <1>1, <1>7, <1>11, InsertedSound
  <2> HIDE DEF k
  <2> QED BY <1>2, <1>6, <1>7, <2>1 DEF k
<1>12. CASE k = Inserted(d, p, now)
  <2>1. /\ Sound(born, sent, k)
        /\ HeldIds(k) \subseteq HeldIds(d) \cup {<<p.stream, p.sequence>>}
    BY <1>1, <1>9, <1>12, InsertedSound
  <2> HIDE DEF k
  <2> QED BY <1>9, <2>1 DEF k
<1> QED BY <1>5, <1>10, <1>11, <1>12

-------------------------------------------------------------------------------
(* pull() *)

\* A sound buffer with a timeline.
Running(born, sent, j) == Sound(born, sent, j) /\ j.anchored

\* The position of the playout projection.
Playout(j) == TimestampPosition(j.streamId, j.playoutTs)

\* The frame at the cursor, if there is one, is the one projected.
Aligned(j) == HasNext(j) => NextFrame(j).timestamp = j.playoutTs

\* The same anchor, and nothing new is held.
SameAnchor(k, j) ==
  /\ k.streamId = j.streamId
  /\ k.anchorTs = j.anchorTs
  /\ k.anchorLocal = j.anchorLocal
  /\ HeldIds(k) \subseteq HeldIds(j)

\* The playout position of a timeline and when it is due.
LEMMA DueIs ==
  ASSUME NEW born \in Births, NEW sent \in SUBSET Marks, World(born, sent),
         NEW j, Running(born, sent, j)
  PROVE  /\ j.streamId \in Streams
         /\ j.playoutTs \in Serials /\ j.queue.cursor \in Serials
         /\ Playout(j) \in Nat /\ Playout(j) < Half
         /\ Lag(born, j.streamId, j) \in Nat
         /\ Due(j) = TimeOf(born, j.streamId, Playout(j)) + Lag(born, j.streamId, j)
         /\ TimeOf(born, j.streamId, Playout(j)) \in Nat
         /\ Due(j) \in Nat
<1>1. /\ j.streamId \in Streams
      /\ Projected(born, sent, j.streamId, j.queue.cursor, j.playoutTs)
      /\ AnchoredAt(born, j.streamId, j.anchorTs, j.anchorLocal)
  BY DEF Running, Sound
<1>2. /\ j.playoutTs \in Serials /\ j.queue.cursor \in Serials
      /\ TimeOf(born, j.streamId, Playout(j)) <= now + FrameTicks
  BY <1>1 DEF Projected, Playout
<1>3. Playout(j) \in Nat
  BY <1>1, <1>2, PositionTypes DEF Playout
<1>4. Playout(j) < Half
  BY <1>1, <1>2, <1>3, TimesBounded DEF World
<1>5. /\ Lag(born, j.streamId, j) \in Nat
      /\ Due(j) = TimeOf(born, j.streamId, Playout(j)) + Lag(born, j.streamId, j)
      /\ Due(j) \in Nat
  BY <1>1, <1>2, <1>4, DeadlineIs DEF Due, Playout
<1> QED BY <1>1, <1>2, <1>3, <1>4, <1>5, TimeType

\* The frame at the cursor is no earlier than the playout position.
LEMMA NextIs ==
  ASSUME NEW born \in Births, NEW sent \in SUBSET Marks, World(born, sent),
         NEW j, Running(born, sent, j), HasNext(j)
  PROVE  LET f == NextFrame(j)
         IN  /\ Known(sent, f) /\ f.stream = j.streamId /\ f.sequence = j.queue.cursor
             /\ Playout(j) <= Mark(f).ts
             /\ Mark(f).ts = TimestampPosition(j.streamId, f.timestamp)
             /\ Mark(f).ts \in Nat /\ Mark(f).ts < Half
             /\ f.timestamp \in Serials
             /\ TimeOf(born, j.streamId, Mark(f).ts) <= now
             /\ profile.perTalkspurt => Playout(j) = Mark(f).ts
             /\ <<f.stream, f.sequence>> \in HeldIds(j)
<1> DEFINE f == NextFrame(j)
           i == Index(j.queue.cursor)
<1>1. i \in DOMAIN j.queue.slots /\ j.queue.slots[i] = f /\ f.sequence = j.queue.cursor
  BY DEF HasNext, Peek, Holds, NextFrame
<1>2. /\ Windowed(sent, j.streamId, j.queue.cursor, j.queue.slots)
      /\ Projected(born, sent, j.streamId, j.queue.cursor, j.playoutTs)
  BY DEF Running, Sound
<1> HIDE DEF f, i
<1>3. Known(sent, f) /\ f.stream = j.streamId
  BY <1>1, <1>2 DEF Windowed
<1>4. /\ Mark(f) \in sent /\ Mark(f).stream = j.streamId
      /\ Mark(f).seq = SequencePosition(j.streamId, j.queue.cursor)
      /\ Mark(f).ts = TimestampPosition(j.streamId, f.timestamp)
      /\ Mark(f).seq \in Nat /\ Mark(f).ts \in Nat /\ Mark(f).ts < Half
      /\ f.timestamp \in Serials
      /\ TimeOf(born, j.streamId, Mark(f).ts) <= now
      /\ profile.perTalkspurt => Mark(f).seq = Mark(f).ts
  BY <1>1, <1>3, KnownFacts
<1>5. Mark(f).seq - Mark(f).seq <= Mark(f).ts - Playout(j)
  <2>1. Mark(f).seq <= Mark(f).seq
    BY <1>4
  <2> QED BY <1>2, <1>4, <2>1 DEF Projected, Playout
<1>6. Playout(j) \in Nat
  BY DueIs
<1>7. Playout(j) <= Mark(f).ts
  BY <1>4, <1>5, <1>6
<1>8. profile.perTalkspurt => Playout(j) = Mark(f).ts
  BY <1>2, <1>4 DEF Projected, Playout
<1>9. <<f.stream, f.sequence>> \in HeldIds(j)
  BY <1>1 DEF HeldIds
<1> QED BY <1>1, <1>3, <1>4, <1>7, <1>8, <1>9 DEF f

\* peek_and_align() moves the projection forward, onto the frame at the cursor
\* (jitter_buffer.cpp:264-283).
LEMMA AlignSound ==
  ASSUME NEW born \in Births, NEW sent \in SUBSET Marks, World(born, sent),
         NEW j, Running(born, sent, j)
  PROVE  LET k == Align(j)
         IN  /\ Running(born, sent, k) /\ SameAnchor(k, j) /\ Aligned(k)
             /\ k.queue = j.queue
             /\ Playout(j) <= Playout(k)
             /\ profile.perTalkspurt => Playout(k) = Playout(j)
             /\ \/ Playout(k) = Playout(j)
                \/ TimeOf(born, k.streamId, Playout(k)) <= now
<1> DEFINE k == Align(j)
           f == NextFrame(j)
<1>1. BufferFields \subseteq DOMAIN j /\ QueueFields \subseteq DOMAIN j.queue
  BY DEF Running, Sound
<1>2. Playout(j) \in Nat /\ j.playoutTs \in Serials /\ j.streamId \in Streams /\ Playout(j) < Half
  BY DueIs
<1>3. CASE HasNext(j) /\ Precedes(j.playoutTs, f.timestamp)
  <2>1. /\ Known(sent, f) /\ f.stream = j.streamId /\ f.sequence = j.queue.cursor
        /\ Playout(j) <= Mark(f).ts
        /\ Mark(f).ts = TimestampPosition(j.streamId, f.timestamp)
        /\ TimeOf(born, j.streamId, Mark(f).ts) <= now
        /\ profile.perTalkspurt => Playout(j) = Mark(f).ts
    BY <1>3, NextIs
  <2>2. k = [j EXCEPT !.playoutTs = f.timestamp]
    BY <1>3 DEF Align
  <2> HIDE DEF f, k
  <2>3. /\ BufferFields \subseteq DOMAIN k /\ k.queue = j.queue
        /\ (k.anchored <=> j.anchored) /\ (k.hasStream <=> j.hasStream)
        /\ k.streamId = j.streamId /\ k.anchorTs = j.anchorTs
        /\ k.anchorLocal = j.anchorLocal /\ k.playoutTs = f.timestamp
    BY <1>1, <2>2 DEF BufferFields
  <2>4. Projected(born, sent, k.streamId, k.queue.cursor, k.playoutTs)
    BY <2>1, <2>3, ProjectedAtMark
  <2>5. Running(born, sent, k)
    BY <2>3, <2>4 DEF Running, Sound
  <2>6. SameAnchor(k, j)
    BY <2>3 DEF SameAnchor, HeldIds
  <2>7. NextFrame(k) = f
    BY <2>3 DEF NextFrame, f
  <2>8. Aligned(k)
    BY <2>3, <2>7 DEF Aligned
  <2>9. Playout(k) = Mark(f).ts
    BY <2>1, <2>3 DEF Playout
  <2> QED BY <2>1, <2>3, <2>5, <2>6, <2>8, <2>9 DEF k
<1>4. CASE ~(HasNext(j) /\ Precedes(j.playoutTs, f.timestamp))
  <2>1. k = j
    BY <1>4 DEF Align
  <2>2. Aligned(j)
    <3> SUFFICES ASSUME HasNext(j) PROVE f.timestamp = j.playoutTs
      BY DEF Aligned
    <3>1. /\ f.timestamp \in Serials /\ Playout(j) <= Mark(f).ts
          /\ Mark(f).ts = TimestampPosition(j.streamId, f.timestamp)
          /\ Mark(f).ts \in Nat /\ Mark(f).ts < Half
      BY NextIs
    <3> HIDE DEF f
    <3>2. Distance(j.playoutTs, f.timestamp) = Mark(f).ts - Playout(j)
      BY <1>2, <3>1, TimestampDistance DEF Playout
    <3>3. Mark(f).ts = Playout(j)
      BY <1>2, <1>4, <3>1, <3>2 DEF Precedes
    <3>4. /\ FirstTimestamp[j.streamId] \in Serials
          /\ Wrap(f.timestamp - FirstTimestamp[j.streamId])
               = Wrap(j.playoutTs - FirstTimestamp[j.streamId])
      BY <1>2, <3>1, <3>3, ConstantFacts DEF Playout, TimestampPosition
    <3> QED BY <1>2, <3>1, <3>4, PositionInverse
  <2>3. SameAnchor(j, j)
    BY DEF SameAnchor
  <2> HIDE DEF k
  <2> QED BY <1>2, <2>1, <2>2, <2>3 DEF k
<1> QED BY <1>3, <1>4

\* A deadline moves with the playout position.
LEMMA DueMoves ==
  ASSUME NEW born \in Births, NEW sent \in SUBSET Marks, World(born, sent),
         NEW j, Running(born, sent, j), NEW k, Running(born, sent, k),
         SameAnchor(k, j), NEW d \in Int, Playout(k) >= Playout(j) + d
  PROVE  /\ Due(j) + FrameTicks * d <= Due(k)
         /\ Playout(k) = Playout(j) + d => Due(k) = Due(j) + FrameTicks * d
<1> DEFINE n == j.streamId
           lag == Lag(born, n, j)
           x == Playout(j)
           y == Playout(k)
<1>1. n \in Streams /\ x \in Nat /\ Due(j) = TimeOf(born, n, x) + lag /\ lag \in Nat
  BY DueIs
<1>2. k.streamId = n /\ Lag(born, k.streamId, k) = lag
  BY DEF SameAnchor, Lag
<1>3. y \in Nat /\ Due(k) = TimeOf(born, n, y) + lag
  BY <1>2, DueIs
<1> HIDE DEF n, lag, x, y
<1>4. x + d \in Int /\ x + d <= y
  BY <1>1, <1>3 DEF x, y
<1>5. /\ TimeOf(born, n, x + d) = TimeOf(born, n, x) + FrameTicks * d
      /\ TimeOf(born, n, x + d) <= TimeOf(born, n, y)
      /\ TimeOf(born, n, x) \in Int /\ TimeOf(born, n, y) \in Int /\ TimeOf(born, n, x + d) \in Int
  BY <1>1, <1>3, <1>4, TimeType
<1>6. FrameTicks * d \in Int
  BY ConstantFacts
<1> QED BY <1>1, <1>3, <1>5, <1>6 DEF x, y

\* Whole frames behind the clock.
LEMMA BehindIs ==
  ASSUME NEW late \in Nat
  PROVE  /\ late \div FrameTicks \in Nat
         /\ FrameTicks * (late \div FrameTicks) <= late
         /\ late < FrameTicks * (late \div FrameTicks) + FrameTicks
<1>1. FrameTicks \in Nat /\ FrameTicks > 0
  BY ConstantFacts
<1>2. late = FrameTicks * (late \div FrameTicks) + (late % FrameTicks)
  BY <1>1
<1>3. late % FrameTicks \in 0 .. FrameTicks - 1
  BY <1>1
<1>4. late \div FrameTicks \in Nat
  BY <1>1
<1>5. FrameTicks * (late \div FrameTicks) \in Nat
  BY <1>1, <1>4, TicksGrow
<1> QED BY <1>1, <1>2, <1>3, <1>4, <1>5

\* A jump of the whole timeline (jitter_buffer.cpp:315-334).
LEMMA CatchUpSound ==
  ASSUME NEW born \in Births, NEW sent \in SUBSET Marks, World(born, sent),
         NEW j, Running(born, sent, j), NEW jump \in Nat, jump > 0,
         Due(j) + FrameTicks * jump <= now
  PROVE  LET k == CatchUp(j, jump)
         IN  /\ Running(born, sent, k) /\ SameAnchor(k, j) /\ Aligned(k)
             /\ Playout(j) + jump <= Playout(k)
             /\ profile.perTalkspurt => Playout(k) = Playout(j) + jump
             /\ TimeOf(born, k.streamId, Playout(k)) <= now
<1> DEFINE n == j.streamId
           q == j.queue
           s == SkipToQ(q, Wrap(q.cursor + jump))
           t == Wrap(j.playoutTs + jump)
           i == [j EXCEPT !.queue = s, !.playoutTs = t, !.concealRun = 0]
           k == CatchUp(j, jump)
<1>1. /\ BufferFields \subseteq DOMAIN j /\ QueueFields \subseteq DOMAIN q
      /\ n \in Streams /\ q.started /\ j.hasStream
      /\ Projected(born, sent, n, q.cursor, j.playoutTs)
      /\ Windowed(sent, n, q.cursor, q.slots)
  BY DEF Running, Sound
<1>2. /\ Playout(j) \in Nat /\ TimeOf(born, n, Playout(j)) \in Nat
      /\ TimeOf(born, n, Playout(j)) <= Due(j) /\ Due(j) \in Nat
      /\ q.cursor \in Serials
  BY DueIs
<1>3. TimeOf(born, n, Playout(j) + jump) <= now
      /\ TimeOf(born, n, Playout(j) + jump) <= now + FrameTicks
  <2>1. TimeOf(born, n, Playout(j) + jump) = TimeOf(born, n, Playout(j)) + FrameTicks * jump
    BY <1>1, <1>2, TimeType
  <2>2. FrameTicks * jump \in Nat /\ now \in Nat /\ FrameTicks \in Nat
    BY TicksGrow, ConstantFacts DEF World, ProfileOK
  <2> QED BY <1>2, <2>1, <2>2
<1>4. /\ Projected(born, sent, n, Wrap(q.cursor + jump), t)
      /\ TimestampPosition(n, t) = Playout(j) + jump
      /\ SequencePosition(n, q.cursor) + jump < Half
  BY <1>1, <1>3, ProjectedMoved DEF Playout
<1>5. /\ QueueFields \subseteq DOMAIN s /\ s.started
      /\ s.cursor = Wrap(q.cursor + jump)
      /\ Windowed(sent, n, s.cursor, s.slots)
      /\ \A h \in DOMAIN s.slots : h \in DOMAIN q.slots /\ s.slots[h] = q.slots[h]
  BY <1>1, <1>2, <1>4, Skipping
<1>6. k = Align(i)
  BY DEF CatchUp
<1> HIDE DEF s, t
<1>7. /\ BufferFields \subseteq DOMAIN i /\ i.queue = s /\ i.playoutTs = t
      /\ (i.anchored <=> j.anchored) /\ (i.hasStream <=> j.hasStream)
      /\ i.streamId = n /\ i.anchorTs = j.anchorTs /\ i.anchorLocal = j.anchorLocal
  BY <1>1 DEF BufferFields
<1> HIDE DEF i, k
<1>8. Running(born, sent, i)
  BY <1>4, <1>5, <1>7 DEF Running, Sound
<1>9. SameAnchor(i, j)
  BY <1>5, <1>7 DEF SameAnchor, HeldIds
<1>10. Playout(i) = Playout(j) + jump
  BY <1>4, <1>7 DEF Playout
<1>11. /\ Running(born, sent, k) /\ SameAnchor(k, i) /\ Aligned(k)
       /\ Playout(i) <= Playout(k)
       /\ profile.perTalkspurt => Playout(k) = Playout(i)
       /\ Playout(k) = Playout(i) \/ TimeOf(born, k.streamId, Playout(k)) <= now
  BY <1>6, <1>8, AlignSound
<1>12. SameAnchor(k, j) /\ k.streamId = n
  BY <1>7, <1>9, <1>11 DEF SameAnchor
<1>13. TimeOf(born, k.streamId, Playout(k)) <= now
  BY <1>3, <1>10, <1>11, <1>12
<1> QED BY <1>10, <1>11, <1>12, <1>13 DEF k

\* The horizon up to which a single jump catches up whatever the stall.
WithinJump == profile.horizon <= FrameTicks * (MaxJump + MaxCatchup)

\* A due pull works on a timeline that is at the clock, and within the catch-up
\* limit of it (jitter_buffer.cpp:302-334).
LEMMA ReadySound ==
  ASSUME NEW born \in Births, NEW sent \in SUBSET Marks, World(born, sent),
         NEW j, Running(born, sent, j), ~Waits(j, now)
  PROVE  LET r == Ready(j, now)
         IN  /\ Running(born, sent, r) /\ SameAnchor(r, j) /\ Aligned(r)
             /\ TimeOf(born, r.streamId, Playout(r)) <= now
             /\ WithinJump => now < Due(r) + (MaxCatchup + 1) * FrameTicks
             /\ profile.perTalkspurt => Due(r) <= now
<1> DEFINE a == Align(j)
           late == now - Due(a)
           behind == Behind(a, now)
           jump == IF behind < MaxJump THEN behind ELSE MaxJump
           r == Ready(j, now)
           limit == (MaxCatchup + 1) * FrameTicks
<1>1. Running(born, sent, a) /\ SameAnchor(a, j) /\ Aligned(a)
  BY AlignSound
<1>2. /\ now \in Nat /\ (now = 1 \/ now <= profile.horizon) /\ profile.horizon \in Nat
      /\ FrameTicks \in Nat /\ FrameTicks > 0 /\ MaxCatchup \in Nat
      /\ MaxJump \in Nat /\ MaxJump > 0
  BY ConstantFacts DEF World, ProfileOK
<1>3. ~(now < Due(a))
  BY DEF Waits, Running
<1>4. behind = late \div FrameTicks
  BY DEF Behind
<1>5. r = IF behind > MaxCatchup THEN CatchUp(a, jump) ELSE a
  BY DEF Ready
<1> HIDE DEF a, behind, r
<1>6. /\ Due(a) \in Nat /\ a.streamId \in Streams
      /\ TimeOf(born, a.streamId, Playout(a)) \in Nat
      /\ TimeOf(born, a.streamId, Playout(a)) <= Due(a) /\ Playout(a) \in Nat
  BY <1>1, DueIs
<1>7. late \in Nat /\ now = Due(a) + late
  BY <1>2, <1>3, <1>6
<1> HIDE DEF late
<1>8. behind \in Nat /\ FrameTicks * behind <= late /\ late < FrameTicks * behind + FrameTicks
  BY <1>4, <1>7, BehindIs
<1>9. /\ limit = FrameTicks * MaxCatchup + FrameTicks /\ limit \in Nat
      /\ FrameTicks * MaxCatchup \in Nat
  <2>1. FrameTicks * (MaxCatchup + 1) = FrameTicks * MaxCatchup + FrameTicks * 1
    BY <1>2, TicksAdd
  <2>2. FrameTicks * MaxCatchup \in Nat
    BY <1>2, TicksGrow
  <2>3. limit = FrameTicks * (MaxCatchup + 1) /\ FrameTicks * 1 = FrameTicks
    BY <1>2
  <2> QED BY <1>2, <2>1, <2>2, <2>3
<1> HIDE DEF limit
<1>10. CASE behind <= MaxCatchup
  <2>1. r = a
    BY <1>2, <1>5, <1>8, <1>10
  <2>2. FrameTicks * behind <= FrameTicks * MaxCatchup /\ FrameTicks * behind \in Int
    BY <1>2, <1>8, <1>10, TicksMonotone
  <2>3. now < Due(a) + limit
    BY <1>2, <1>6, <1>7, <1>8, <1>9, <2>2
  <2>4. TimeOf(born, a.streamId, Playout(a)) <= now /\ Due(a) <= now
    BY <1>2, <1>3, <1>6
  <2> QED BY <1>1, <2>1, <2>3, <2>4 DEF limit, r
<1>11. CASE behind > MaxCatchup
  <2>1. r = CatchUp(a, jump)
    BY <1>5, <1>11
  <2>2. jump \in Nat /\ jump > 0 /\ jump <= behind /\ jump <= MaxJump
        /\ (jump = behind \/ jump = MaxJump)
    BY <1>2, <1>8, <1>11
  <2> HIDE DEF jump
  <2>3. FrameTicks * jump \in Nat /\ FrameTicks * jump <= late
    <3>1. FrameTicks * jump <= FrameTicks * behind /\ FrameTicks * jump \in Int
          /\ FrameTicks * behind \in Int
      BY <1>2, <1>8, <2>2, TicksMonotone
    <3>2. FrameTicks * jump \in Nat
      BY <1>2, <2>2, TicksGrow
    <3> QED BY <1>7, <1>8, <3>1, <3>2
  <2>4. Due(a) + FrameTicks * jump <= now
    BY <1>6, <1>7, <2>3
  <2>5. /\ Running(born, sent, r) /\ SameAnchor(r, a) /\ Aligned(r)
        /\ Playout(a) + jump <= Playout(r)
        /\ profile.perTalkspurt => Playout(r) = Playout(a) + jump
        /\ TimeOf(born, r.streamId, Playout(r)) <= now
    BY <1>1, <2>1, <2>2, <2>4, CatchUpSound
  <2>6. Due(r) \in Nat /\ Playout(r) \in Nat
    BY <2>5, DueIs
  <2>7. /\ Due(a) + FrameTicks * jump <= Due(r)
        /\ Playout(r) = Playout(a) + jump => Due(r) = Due(a) + FrameTicks * jump
    <3>1. jump \in Int /\ Playout(r) >= Playout(a) + jump
      BY <1>6, <2>2, <2>5, <2>6
    <3> QED BY <1>1, <2>5, <3>1, DueMoves
  <2>8. SameAnchor(r, j)
    BY <1>1, <2>5 DEF SameAnchor
  <2>9. profile.perTalkspurt => Due(r) <= now
    BY <2>4, <2>5, <2>7
  <2>10. ASSUME WithinJump PROVE now < Due(r) + limit
    <3>1. CASE jump = behind
      BY <1>2, <1>6, <1>7, <1>8, <1>9, <2>3, <2>6, <2>7, <3>1
    <3>2. CASE jump = MaxJump
      <4>1. FrameTicks * (MaxJump + MaxCatchup) = FrameTicks * jump + FrameTicks * MaxCatchup
        BY <1>2, <3>2, TicksAdd
      <4>2. now <= FrameTicks * jump + FrameTicks * MaxCatchup
        <5>1. FrameTicks * jump >= 1
          BY <1>2, <2>2, TicksGrow
        <5> QED BY <1>2, <1>9, <2>3, <2>10, <4>1, <5>1 DEF WithinJump
      <4> QED BY <1>2, <1>6, <1>9, <2>3, <2>6, <2>7, <4>2
    <3> QED BY <2>2, <3>1, <3>2
  <2> QED BY <2>5, <2>8, <2>9, <2>10 DEF limit, r
<1> QED BY <1>2, <1>8, <1>10, <1>11

\* advance() and the next playout position: the frame at the cursor is dropped, and
\* the timeline is due a frame time later.
LEMMA SteppedIs ==
  ASSUME NEW born \in Births, NEW sent \in SUBSET Marks, World(born, sent),
         NEW r, Running(born, sent, r), TimeOf(born, r.streamId, Playout(r)) <= now,
         NEW run
  PROVE  LET k == Stepped(r, run)
         IN  /\ Running(born, sent, k)
             /\ SameAnchor(k, r)
             /\ Due(k) = Due(r) + FrameTicks
             /\ SequencePosition(k.streamId, k.queue.cursor)
                  = SequencePosition(r.streamId, r.queue.cursor) + 1
             /\ \A x, y : <<x, y>> \in HeldIds(k) => y # r.queue.cursor
             /\ \A x, y : <<x, y>> \in HeldIds(r) /\ y # r.queue.cursor => <<x, y>> \in HeldIds(k)
             /\ (k.open <=> r.open) /\ (k.hasStream <=> r.hasStream)
             /\ (k.hasEnd <=> r.hasEnd) /\ k.endSequence = r.endSequence
<1> DEFINE k == Stepped(r, run)
           n == r.streamId
           q == r.queue
           s == AdvanceQ(q)
           t == Wrap(r.playoutTs + 1)
<1>1. /\ BufferFields \subseteq DOMAIN r /\ QueueFields \subseteq DOMAIN q
      /\ n \in Streams /\ q.started /\ r.anchored
      /\ Projected(born, sent, n, q.cursor, r.playoutTs)
      /\ Windowed(sent, n, q.cursor, q.slots)
  BY DEF Running, Sound
<1>2. /\ Playout(r) \in Nat /\ q.cursor \in Serials /\ r.playoutTs \in Serials
      /\ TimeOf(born, n, Playout(r)) \in Nat /\ Due(r) \in Nat
  BY DueIs
<1>3. TimeOf(born, n, Playout(r) + 1) <= now + FrameTicks
  <2>1. TimeOf(born, n, Playout(r) + 1) = TimeOf(born, n, Playout(r)) + FrameTicks * 1
    BY <1>1, <1>2, TimeType
  <2>2. FrameTicks * 1 = FrameTicks /\ FrameTicks \in Nat /\ now \in Nat
    BY ConstantFacts DEF World, ProfileOK
  <2> QED BY <1>2, <2>1, <2>2
<1>4. /\ Projected(born, sent, n, Wrap(q.cursor + 1), t)
      /\ SequencePosition(n, q.cursor) + 1 < Half
  BY <1>1, <1>3, ProjectedMoved DEF Playout
<1>5. /\ QueueFields \subseteq DOMAIN s /\ s.started
      /\ s.cursor = Wrap(q.cursor + 1)
      /\ Windowed(sent, n, s.cursor, s.slots)
      /\ \A i \in DOMAIN s.slots :
           i \in DOMAIN q.slots /\ s.slots[i] = q.slots[i] /\ q.slots[i].sequence # q.cursor
      /\ \A i \in DOMAIN q.slots :
           q.slots[i].sequence # q.cursor => i \in DOMAIN s.slots /\ s.slots[i] = q.slots[i]
  BY <1>1, <1>2, <1>4, Advancing
<1> HIDE DEF s, t, k
<1>6. /\ BufferFields \subseteq DOMAIN k /\ k.queue = s /\ k.playoutTs = t
      /\ (k.anchored <=> r.anchored) /\ (k.hasStream <=> r.hasStream)
      /\ k.streamId = n /\ k.anchorTs = r.anchorTs /\ k.anchorLocal = r.anchorLocal
      /\ (k.open <=> r.open) /\ (k.hasEnd <=> r.hasEnd) /\ k.endSequence = r.endSequence
  BY <1>1 DEF Stepped, BufferFields, s, t, k
<1>7. Running(born, sent, k)
  BY <1>1, <1>4, <1>5, <1>6 DEF Running, Sound
<1>8. SameAnchor(k, r)
  <2>1. HeldIds(k) \subseteq HeldIds(r)
    BY <1>5, <1>6 DEF HeldIds
  <2> QED BY <1>6, <2>1 DEF SameAnchor
<1>9. SequencePosition(n, s.cursor) = SequencePosition(n, q.cursor) + 1
  BY <1>1, <1>2, <1>4, <1>5, PositionStep
<1>10. Playout(k) = Playout(r) + 1
  <2>1. Playout(r) + 1 < Half
    BY <1>1, <1>2, <1>3, TimesBounded DEF World
  <2>2. TimestampPosition(n, t) = TimestampPosition(n, r.playoutTs) + 1
    BY <1>1, <1>2, <2>1, PositionStep DEF Playout, t
  <2> QED BY <1>6, <2>2 DEF Playout
<1>11. Due(k) = Due(r) + FrameTicks
  <2>1. 1 \in Int /\ Playout(k) >= Playout(r) + 1
    BY <1>2, <1>10
  <2>2. Due(k) = Due(r) + FrameTicks * 1
    BY <1>7, <1>8, <1>10, <2>1, DueMoves
  <2>3. FrameTicks * 1 = FrameTicks
    BY ConstantFacts
  <2> QED BY <2>2, <2>3
<1>12. /\ \A x, y : <<x, y>> \in HeldIds(k) => y # q.cursor
       /\ \A x, y : <<x, y>> \in HeldIds(r) /\ y # q.cursor => <<x, y>> \in HeldIds(k)
  BY <1>5, <1>6 DEF HeldIds
<1> QED BY <1>6, <1>7, <1>8, <1>9, <1>11, <1>12 DEF k

\* pull() keeps the buffer sound, and no longer holds what it played
\* (jitter_buffer.cpp:285-420).
LEMMA PulledSound ==
  ASSUME NEW born \in Births, NEW sent \in SUBSET Marks, World(born, sent),
         NEW j, Sound(born, sent, j), NEW ok
  PROVE  LET k == Pulled(j, now, ok)
             r == Ready(j, now)
         IN  /\ Sound(born, sent, k)
             /\ HeldIds(k) \subseteq HeldIds(j)
             /\ j.open /\ ~Waits(j, now) /\ HasNext(r)
                  => <<NextFrame(r).stream, NextFrame(r).sequence>> \in HeldIds(j) \ HeldIds(k)
<1> DEFINE k == Pulled(j, now, ok)
           r == Ready(j, now)
           a == Align(j)
           run == NextConcealRun(r, ok)
<1>1. CASE ~j.open \/ ~j.anchored
  BY <1>1 DEF Pulled, Waits
<1>2. CASE j.open /\ j.anchored /\ Waits(j, now)
  <2>1. k = a
    BY <1>2 DEF Pulled
  <2>2. Running(born, sent, a) /\ SameAnchor(a, j)
    BY <1>2, AlignSound DEF Running
  <2> HIDE DEF k, a
  <2> QED BY <1>2, <2>1, <2>2 DEF Running, SameAnchor, k
<1>3. CASE j.open /\ j.anchored /\ ~Waits(j, now)
  <2>1. k = Stepped(r, run)
    BY <1>3 DEF Pulled
  <2>2. /\ Running(born, sent, r) /\ SameAnchor(r, j)
        /\ TimeOf(born, r.streamId, Playout(r)) <= now
    BY <1>3, ReadySound DEF Running
  <2> HIDE DEF r, run, k
  <2>3. /\ Running(born, sent, k) /\ SameAnchor(k, r)
        /\ \A x, y : <<x, y>> \in HeldIds(k) => y # r.queue.cursor
    BY <2>1, <2>2, SteppedIs
  <2>4. ASSUME HasNext(r)
        PROVE  <<NextFrame(r).stream, NextFrame(r).sequence>> \in HeldIds(j) \ HeldIds(k)
    <3>1. /\ <<NextFrame(r).stream, NextFrame(r).sequence>> \in HeldIds(r)
          /\ NextFrame(r).sequence = r.queue.cursor
      BY <2>2, <2>4, NextIs
    <3> QED BY <2>2, <2>3, <3>1 DEF SameAnchor
  <2> QED BY <2>2, <2>3, <2>4 DEF Running, SameAnchor, k, r
<1> QED BY <1>1, <1>2, <1>3

-------------------------------------------------------------------------------
(* Time, the talker and the network *)

\* What time and the talker may do to a sound buffer: the streams it can be on keep
\* their births, and a new mark is the talker's next one.
Later(born, sent, born2, sent2) ==
  /\ now' \in Nat /\ now <= now'
  /\ profile' = profile
  /\ talker'.stream \in Nat /\ talker.stream <= talker'.stream
  /\ \A n \in Streams : n <= talker.stream => born2[n] = born[n]
  /\ talker'.stream = talker.stream /\ talker.stream # 0 =>
       /\ NextSeq(talker') \in Nat /\ NextTs(talker') \in Nat
       /\ NextTs(talker) - NextSeq(talker) <= NextTs(talker') - NextSeq(talker')
  /\ sent \subseteq sent2
  /\ \A m \in sent2 \ sent :
       /\ m.stream = talker'.stream
       /\ talker'.stream = talker.stream => m.seq = NextSeq(talker) /\ m.ts = NextTs(talker)

\* The buffer stays sound meanwhile.
LEMMA SoundLater ==
  ASSUME NEW born \in Births, NEW sent \in SUBSET Marks,
         NEW born2 \in Births, NEW sent2 \in SUBSET Marks,
         World(born, sent), Sound(born, sent, jb), UNCHANGED jb,
         Later(born, sent, born2, sent2)
  PROVE  Sound(born2, sent2, jb)'
<1> DEFINE n == jb.streamId
           c == SequencePosition(n, jb.queue.cursor)
           t == TimestampPosition(n, jb.playoutTs)
<1>1. /\ BufferFields \subseteq DOMAIN jb /\ QueueFields \subseteq DOMAIN jb.queue
      /\ jb.hasStream => n \in Streams /\ n <= talker.stream
      /\ ~jb.anchored => jb.queue = EmptyQueue
      /\ jb.anchored => jb.hasStream /\ jb.queue.started
  BY DEF Sound
<1>2. /\ now \in Nat /\ FrameTicks \in Nat
      /\ talker.stream \in Nat /\ MaxStreams \in Nat
  BY ConstantFacts DEF World, ProfileOK, TalkerOK
<1>3. jb.hasStream => n <= talker'.stream
  BY <1>1, <1>2 DEF Later, Streams
<1>4. ASSUME jb.anchored
      PROVE  /\ Projected(born2, sent2, n, jb.queue.cursor, jb.playoutTs)'
             /\ AnchoredAt(born2, n, jb.anchorTs, jb.anchorLocal)'
             /\ Windowed(sent2, n, jb.queue.cursor, jb.queue.slots)'
  <2>1. /\ n \in Streams /\ n <= talker.stream /\ n \in Nat /\ n # 0
        /\ Projected(born, sent, n, jb.queue.cursor, jb.playoutTs)
        /\ AnchoredAt(born, n, jb.anchorTs, jb.anchorLocal)
        /\ Windowed(sent, n, jb.queue.cursor, jb.queue.slots)
    BY <1>4 DEF Sound, Streams
  <2>2. \A x : TimeOf(born2, n, x) = TimeOf(born, n, x)
    BY <2>1 DEF Later, TimeOf
  <2>3. AnchoredAt(born2, n, jb.anchorTs, jb.anchorLocal)'
    <3> DEFINE due == TimeOf(born, n, TimestampPosition(n, jb.anchorTs))
    <3>1. /\ jb.anchorTs \in Serials /\ jb.anchorLocal \in Nat /\ due <= now
          /\ due + TargetDelay <= jb.anchorLocal
          /\ jb.anchorLocal <= due + TargetDelay + profile.delay
      BY <2>1 DEF AnchoredAt
    <3>2. due \in Nat /\ TimeOf(born2, n, TimestampPosition(n, jb.anchorTs)) = due
      <4>1. TimestampPosition(n, jb.anchorTs) \in Nat
        BY <2>1, <3>1, PositionTypes
      <4>2. due \in Nat
        BY <2>1, <4>1, TimeType
      <4> QED BY <2>2, <4>2
    <3> HIDE DEF due
    <3>3. due <= now'
      BY <1>2, <3>1, <3>2 DEF Later
    <3> QED BY <3>1, <3>2, <3>3 DEF AnchoredAt, Later
  <2>4. /\ jb.queue.cursor \in Serials /\ jb.playoutTs \in Serials /\ c <= t
        /\ TimeOf(born, n, t) <= now + FrameTicks
        /\ n = talker.stream => t - c <= NextTs(talker) - NextSeq(talker)
        /\ \A m \in sent : m.stream = n /\ c <= m.seq => m.seq - c <= m.ts - t
        /\ profile.perTalkspurt => c = t
    BY <2>1 DEF Projected
  <2>5. c \in Nat /\ t \in Nat /\ TimeOf(born, n, t) \in Nat
    <3>1. c \in Nat /\ t \in Nat
      <4>1. n \in Streams
        BY <2>1
      <4>2. jb.queue.cursor \in Serials /\ jb.playoutTs \in Serials
        BY <2>4
      <4> QED BY <4>1, <4>2, PositionTypes
    <3> HIDE DEF c, t
    <3> QED BY <2>1, <3>1, TimeNat
  <2> HIDE DEF c, t
  <2>6. n = talker.stream => NextSeq(talker) \in Nat /\ NextTs(talker) \in Nat
    <3>1. talker.sequence \in Serials /\ talker.timestamp \in Serials
      BY DEF World, TalkerOK
    <3> QED BY <2>1, <3>1, PositionTypes DEF NextSeq, NextTs
  <2>7. TimeOf(born2, n, t) <= now' + FrameTicks
    BY <1>2, <2>2, <2>4, <2>5 DEF Later
  <2>8. n = talker'.stream => n = talker.stream
    BY <1>2, <2>1 DEF Later
  <2>9. n = talker'.stream => t - c <= NextTs(talker') - NextSeq(talker')
    <3> SUFFICES ASSUME n = talker'.stream PROVE t - c <= NextTs(talker') - NextSeq(talker')
      OBVIOUS
    <3>1. t - c <= NextTs(talker) - NextSeq(talker) /\ NextSeq(talker) \in Nat /\ NextTs(talker) \in Nat
      BY <2>4, <2>6, <2>8
    <3>2. NextTs(talker) - NextSeq(talker) <= NextTs(talker') - NextSeq(talker') /\ NextSeq(talker') \in Nat /\ NextTs(talker') \in Nat
      BY <2>1, <2>8 DEF Later
    <3> QED BY <2>5, <3>1, <3>2
  <2>10. ASSUME NEW m \in sent2, m.stream = n, c <= m.seq
         PROVE  m.seq - c <= m.ts - t
    <3>1. CASE m \in sent
      BY <2>4, <2>10, <3>1
    <3>2. CASE m \notin sent
      <4>1. n = talker.stream /\ m.seq = NextSeq(talker) /\ m.ts = NextTs(talker)
        BY <2>8, <2>10, <3>2 DEF Later
      <4> QED BY <2>4, <2>5, <2>6, <4>1
    <3> QED BY <3>1, <3>2
  <2>11. Projected(born2, sent2, n, jb.queue.cursor, jb.playoutTs)'
    BY <2>4, <2>7, <2>9, <2>10 DEF Projected, Later, c, t
  <2>12. Windowed(sent2, n, jb.queue.cursor, jb.queue.slots)'
    BY <2>1 DEF Windowed, Known, Later
  <2> QED BY <2>3, <2>11, <2>12
<1> QED BY <1>1, <1>3, <1>4 DEF Sound

\* What every tick does.
Ticking ==
  /\ now' = now + 1
  /\ now < profile.horizon
  /\ profile' = profile
  /\ \A p \in network : p.sent + profile.delay > now

\* The talker's next positions.
LEMMA NextTypes ==
  ASSUME NEW born \in Births, TalkerOK(born), talker.stream # 0
  PROVE  /\ talker.stream \in Streams
         /\ NextSeq(talker) \in Nat /\ NextTs(talker) \in Nat
         /\ TimeOf(born, talker.stream, NextTs(talker)) \in Nat
<1>1. talker.stream \in Streams /\ talker.sequence \in Serials /\ talker.timestamp \in Serials
  BY ConstantFacts DEF TalkerOK, Streams
<1>2. NextSeq(talker) \in Nat /\ NextTs(talker) \in Nat
  BY <1>1, PositionTypes DEF NextSeq, NextTs
<1> QED BY <1>1, <1>2, TimeNat

\* The talker's next positions are below half a word.
LEMMA NextBounded ==
  ASSUME NEW born \in Births, NEW sent \in SUBSET Marks, World(born, sent), Ticking,
         talker.stream # 0, TimeOf(born, talker.stream, NextTs(talker)) <= now + 1
  PROVE  NextSeq(talker) + 1 < Half /\ NextTs(talker) + 1 < Half
<1>1. TalkerOK(born) /\ born[talker.stream] >= FrameTicks /\ NextSeq(talker) <= NextTs(talker)
  BY NextTypes DEF World, TalkerOK
<1>2. talker.stream \in Streams /\ NextSeq(talker) \in Nat /\ NextTs(talker) \in Nat
  BY <1>1, NextTypes
<1>3. now \in Nat /\ now + 1 < Half /\ born[talker.stream] \in Nat /\ FrameTicks \in Nat
      /\ FrameTicks > 0 /\ Half \in Nat
  BY <1>2, ConstantFacts DEF World, ProfileOK, Ticking, Births
<1>4. FrameTicks * NextTs(talker) \in Nat /\ NextTs(talker) <= FrameTicks * NextTs(talker)
  BY <1>2, <1>3, TicksGrow
<1>5. born[talker.stream] + FrameTicks * NextTs(talker) <= now + 1
  BY DEF TimeOf
<1> QED BY <1>1, <1>2, <1>3, <1>4, <1>5

\* Ticks that end a frame time are the talker's.
LEMMA BoundaryIs ==
  ASSUME NEW born \in Births, NEW sent \in SUBSET Marks, World(born, sent), Ticking,
         talker.stream # 0
  PROVE  /\ FrameBoundary => TimeOf(born, talker.stream, NextTs(talker)) = now'
         /\ ~FrameBoundary => now' < TimeOf(born, talker.stream, NextTs(talker))
<1> DEFINE next == TimeOf(born, talker.stream, NextTs(talker))
<1>1. next \in Nat
  BY NextTypes DEF World
<1>2. now < next /\ next <= now + FrameTicks /\ next % FrameTicks = 0
  BY DEF World, TalkerOK
<1>3. now \in Nat /\ now' = now + 1 /\ FrameTicks \in Nat \ {0}
  BY ConfigAssumption DEF World, ProfileOK, Ticking
<1> HIDE DEF next
<1>4. ASSUME FrameBoundary PROVE next = now'
  <2>1. now' % FrameTicks = 0
    BY <1>4 DEF FrameBoundary
  <2>2. next \in Int /\ now' \in Int /\ next - now' < FrameTicks /\ now' - next < FrameTicks
        /\ next % FrameTicks = now' % FrameTicks
    BY <1>1, <1>2, <1>3, <2>1
  <2> QED BY <1>3, <2>2, ModUnique
<1>5. ASSUME ~FrameBoundary PROVE now' < next
  <2>1. now' # next
    BY <1>2, <1>5 DEF FrameBoundary
  <2> QED BY <1>1, <1>2, <1>3, <2>1
<1> QED BY <1>4, <1>5 DEF next

\* What a tick leaves true of the world, but for the talker and the packet it
\* may have sent.
LEMMA WorldLater ==
  ASSUME NEW born \in Births, NEW sent \in SUBSET Marks, World(born, sent), Ticking,
         NEW born2 \in Births, NEW sent2 \in SUBSET Marks,
         Later(born, sent, born2, sent2),
         \A n \in Streams : born2[n] >= FrameTicks,
         TalkerOK(born2)',
         talker'.stream = talker.stream /\ talker.stream # 0 =>
           NextSeq(talker) <= NextSeq(talker') /\ NextSeq(talker') - NextSeq(talker) <= NextTs(talker') - NextTs(talker),
         \A m \in sent2 \ sent : MarkOK(born2, m)',
         Timed(sent2),
         \A p \in network' \ network : PacketOK(born2, sent2, p)'
  PROVE  World(born2, sent2)'
<1>1. /\ now \in Nat \ {0} /\ now' = now + 1 /\ now' \in Nat \ {0} /\ profile' = profile
      /\ profile \in Profiles /\ profile.horizon \in Nat
      /\ profile.horizon < Half /\ profile.delay \in Nat /\ Half \in Nat
  BY ConstantFacts DEF World, ProfileOK, Ticking
<1>2. ProfileOK'
  BY <1>1 DEF ProfileOK, Ticking
<1>3. talker.stream \in Nat /\ talker'.stream \in Nat
  BY ConstantFacts DEF World, TalkerOK, Later
<1>4. ASSUME NEW n \in Streams, n <= talker.stream, NEW x
      PROVE  TimeOf(born2, n, x) = TimeOf(born, n, x)
  BY <1>4 DEF Later, TimeOf
<1>5. ASSUME NEW m \in sent PROVE MarkOK(born2, m)'
  <2>1. m.stream \in Streams /\ m.stream \in Nat /\ m.stream # 0 /\ m.seq \in Nat /\ m.ts \in Nat
    BY ConstantFacts DEF Marks, Streams
  <2>2. MarkOK(born, m)
    BY DEF World
  <2>3. TimeOf(born2, m.stream, m.ts) = TimeOf(born, m.stream, m.ts)
    BY <1>4, <2>1, <2>2 DEF MarkOK
  <2>4. TimeOf(born, m.stream, m.ts) \in Nat
    BY <2>1, TimeNat
  <2>5. TimeOf(born2, m.stream, m.ts) <= now'
    BY <1>1, <2>2, <2>3, <2>4 DEF MarkOK
  <2>6. m.stream <= talker'.stream
    BY <1>3, <2>1, <2>2 DEF MarkOK, Later
  <2>7. ASSUME m.stream = talker'.stream
        PROVE  m.seq < NextSeq(talker') /\ NextSeq(talker') - m.seq <= NextTs(talker') - m.ts
    <3>1. m.stream = talker.stream /\ talker'.stream = talker.stream /\ talker.stream # 0
      BY <1>3, <2>1, <2>2, <2>7 DEF MarkOK, Later
    <3>2. m.seq < NextSeq(talker) /\ NextSeq(talker) - m.seq <= NextTs(talker) - m.ts
      BY <2>2, <3>1 DEF MarkOK
    <3>3. NextSeq(talker) \in Nat /\ NextTs(talker) \in Nat /\ NextSeq(talker') \in Nat /\ NextTs(talker') \in Nat
      BY <3>1, NextTypes DEF World, Later
    <3> QED BY <2>1, <3>1, <3>2, <3>3
  <2> QED BY <1>1, <2>2, <2>5, <2>6, <2>7 DEF MarkOK
<1>6. \A m \in sent2 : MarkOK(born2, m)'
  BY <1>5
<1>7. ASSUME NEW p \in network PROVE PacketOK(born2, sent2, p)'
  <2>1. PacketOK(born, sent, p) /\ Known(sent, p)
    BY DEF World, PacketOK
  <2>2. p.stream \in Streams /\ p.stream <= talker.stream /\ Mark(p).ts \in Nat
    BY <2>1, KnownFacts
  <2>3. p.sent = TimeOf(born2, p.stream, Mark(p).ts) /\ p.sent \in Nat
    BY <1>4, <2>1, <2>2, TimeNat DEF PacketOK
  <2>4. now' <= p.sent + profile.delay
    BY <1>1, <2>3 DEF Ticking
  <2>5. Known(sent2, p)
    BY <2>1 DEF Known, Later
  <2> QED BY <1>1, <2>3, <2>4, <2>5 DEF PacketOK
<1>8. \A p \in network' : PacketOK(born2, sent2, p)'
  BY <1>7
<1> QED BY <1>2, <1>6, <1>8 DEF World

\* What a tick adds: at most one packet, of a position no packet had before.
Fresh(sent) ==
  \A p, q \in network' \ network :
    /\ p = q
    /\ \A m \in sent : ~(m.stream = p.stream /\ m.seq = Mark(p).seq)

\* The invariant after a tick, beside a history that has only grown.
Ticked(sent) ==
  \E born2 \in Births, sent2 \in SUBSET Marks :
    /\ InvWith(born2, sent2)'
    /\ sent2 = sent \cup {Mark(p) : p \in network' \ network}
    /\ Fresh(sent)

\* A tick inside a frame time.
LEMMA StillStep ==
  ASSUME NEW born \in Births, NEW sent \in SUBSET Marks, InvWith(born, sent), Ticking,
         ~FrameBoundary, UNCHANGED <<jb, talker, network>>
  PROVE  Ticked(sent)
<1>1. World(born, sent) /\ Sound(born, sent, jb)
  BY DEF InvWith
<1>2. NextSeq(talker') = NextSeq(talker) /\ NextTs(talker') = NextTs(talker)
  BY DEF NextSeq, NextTs
<1>3. now \in Nat /\ now' = now + 1 /\ profile' = profile /\ FrameTicks \in Nat
  BY <1>1, ConstantFacts DEF World, ProfileOK, Ticking
<1>4. TalkerOK(born) /\ talker.stream \in Nat /\ MaxStreams \in Nat
  BY <1>1, ConstantFacts DEF World, TalkerOK
<1>5. talker.stream # 0 => /\ NextSeq(talker) \in Nat /\ NextTs(talker) \in Nat
                           /\ TimeOf(born, talker.stream, NextTs(talker)) \in Nat
  BY <1>4, NextTypes
<1>6. Later(born, sent, born, sent)
  BY <1>2, <1>3, <1>4, <1>5 DEF Later
<1>7. TalkerOK(born)'
  <2>1. talker.stream # 0 => now' < TimeOf(born, talker.stream, NextTs(talker))
    BY <1>1, BoundaryIs
  <2>2. talker.stream # 0 => TimeOf(born, talker.stream, NextTs(talker)) <= now' + FrameTicks
    BY <1>3, <1>4, <1>5 DEF TalkerOK
  <2> QED BY <1>2, <1>3, <1>4, <2>1, <2>2 DEF TalkerOK
<1>8. /\ \A n \in Streams : born[n] >= FrameTicks
      /\ Timed(sent)
  BY <1>1 DEF World
<1>9. World(born, sent)'
  <2>1. talker'.stream = talker.stream /\ talker.stream # 0 =>
           NextSeq(talker) <= NextSeq(talker') /\ NextSeq(talker') - NextSeq(talker) <= NextTs(talker') - NextTs(talker)
    BY <1>2, <1>5
  <2>2. /\ \A m \in sent \ sent : MarkOK(born, m)'
        /\ \A p \in network' \ network : PacketOK(born, sent, p)'
    OBVIOUS
  <2> QED BY <1>1, <1>6, <1>7, <1>8, <2>1, <2>2, WorldLater
<1>10. Sound(born, sent, jb)'
  BY <1>1, <1>6, SoundLater
<1>11. Fresh(sent) /\ sent = sent \cup {Mark(p) : p \in network' \ network}
  BY DEF Fresh
<1> QED BY <1>9, <1>10, <1>11 DEF Ticked, InvWith

\* One more frame time is a whole one.
LEMMA WholeFrames ==
  ASSUME NEW a \in Nat, a % FrameTicks = 0
  PROVE  (a + FrameTicks) % FrameTicks = 0
<1>1. FrameTicks \in Nat \ {0} /\ FrameTicks \in Int /\ a \in Int
  BY ConfigAssumption
<1>2. FrameTicks % FrameTicks = 0
  BY <1>1
<1> QED BY <1>1, <1>2, ModShift

\* Whole frame times are at least one.
LEMMA FullFrame ==
  ASSUME NEW a \in Nat, a > 0, a % FrameTicks = 0
  PROVE  FrameTicks <= a
<1>1. FrameTicks \in Nat \ {0} /\ a \in Int
  BY ConfigAssumption
<1>2. a \in 0 .. FrameTicks - 1 => a % FrameTicks = a
  BY <1>1, ModNear
<1> QED BY <1>1, <1>2

\* The next timestamp is had a frame time later.
LEMMA NextFrameTime ==
  ASSUME NEW born \in Births, NEW n \in Streams, NEW ts \in Nat, NEW time \in Nat,
         time % FrameTicks = 0, TimeOf(born, n, ts) = time
  PROVE  /\ time < TimeOf(born, n, ts + 1)
         /\ TimeOf(born, n, ts + 1) <= time + FrameTicks
         /\ TimeOf(born, n, ts + 1) % FrameTicks = 0
<1> DEFINE next == TimeOf(born, n, ts + 1)
<1>1. next = time + FrameTicks * 1
  BY TimeType
<1>2. FrameTicks * 1 = FrameTicks /\ FrameTicks \in Nat /\ FrameTicks > 0
  BY ConstantFacts
<1>3. (time + FrameTicks) % FrameTicks = 0
  BY WholeFrames
<1> HIDE DEF next
<1>4. next = time + FrameTicks
  BY <1>1, <1>2
<1>5. time < next /\ next <= time + FrameTicks
  BY <1>2, <1>4
<1>6. next % FrameTicks = 0
  BY <1>3, <1>4
<1> QED BY <1>5, <1>6 DEF next

\* A frame time out of a talkspurt.
LEMMA QuietStep ==
  ASSUME NEW born \in Births, NEW sent \in SUBSET Marks, InvWith(born, sent), Ticking,
         FrameBoundary, Quiet, UNCHANGED jb
  PROVE  Ticked(sent)
<1>1. World(born, sent) /\ Sound(born, sent, jb)
  BY DEF InvWith
<1>2. now \in Nat /\ now' = now + 1 /\ profile' = profile /\ FrameTicks \in Nat
  BY <1>1, ConstantFacts DEF World, ProfileOK, Ticking
<1>3. TalkerOK(born) /\ talker.stream \in Nat /\ MaxStreams \in Nat
  BY <1>1, ConstantFacts DEF World, TalkerOK
<1>4. /\ ~talker.talking /\ network' = network
      /\ talker' = [talker EXCEPT !.timestamp = Wrap(@ + 1)]
  BY DEF Quiet
<1>5. /\ talker' \in [stream : 0 .. MaxStreams, sequence : Serials,
                      timestamp : Serials, talking : BOOLEAN]
      /\ talker'.stream = talker.stream /\ talker'.sequence = talker.sequence
      /\ talker'.timestamp = Wrap(talker.timestamp + 1) /\ ~talker'.talking
  <2>1. talker \in [stream : 0 .. MaxStreams, sequence : Serials,
                    timestamp : Serials, talking : BOOLEAN]
    BY <1>3 DEF TalkerOK
  <2>2. Wrap(talker.timestamp + 1) \in Serials
    <3>1. talker.timestamp \in Serials
      BY <2>1
    <3>2. talker.timestamp + 1 \in Int
      BY <3>1, ModulusFacts
    <3> QED BY <3>2, WrapType
  <2> QED BY <1>4, <2>1, <2>2
<1>6. ASSUME talker.stream # 0
      PROVE  /\ NextSeq(talker') = NextSeq(talker) /\ NextTs(talker') = NextTs(talker) + 1
             /\ NextSeq(talker) \in Nat /\ NextTs(talker) \in Nat
             /\ TimeOf(born, talker.stream, NextTs(talker)) = now'
             /\ talker.stream \in Streams
  <2>1. NextSeq(talker) \in Nat /\ NextTs(talker) \in Nat /\ talker.stream \in Streams
    BY <1>3, <1>6, NextTypes
  <2>2. TimeOf(born, talker.stream, NextTs(talker)) = now'
    BY <1>1, <1>6, BoundaryIs
  <2>3. NextTs(talker) + 1 < Half
    BY <1>1, <1>2, <1>6, <2>2, NextBounded
  <2>4. talker.timestamp \in Serials
    BY <1>3 DEF TalkerOK
  <2>5. NextTs(talker') = NextTs(talker) + 1
    <3>1. TimestampPosition(talker.stream, Wrap(talker.timestamp + 1))
            = TimestampPosition(talker.stream, talker.timestamp) + 1
      BY <2>1, <2>3, <2>4, PositionStep DEF NextTs
    <3> QED BY <1>5, <3>1 DEF NextTs
  <2>6. NextSeq(talker') = NextSeq(talker)
    BY <1>5 DEF NextSeq
  <2> QED BY <2>1, <2>2, <2>5, <2>6
<1>7. Later(born, sent, born, sent)
  BY <1>2, <1>3, <1>5, <1>6 DEF Later
<1>8. TalkerOK(born)'
  <2>1. ASSUME talker.stream # 0
        PROVE  /\ NextSeq(talker') <= NextTs(talker')
               /\ now' < TimeOf(born, talker'.stream, NextTs(talker'))
               /\ TimeOf(born, talker'.stream, NextTs(talker')) <= now' + FrameTicks
               /\ TimeOf(born, talker'.stream, NextTs(talker')) % FrameTicks = 0
    <3>1. NextSeq(talker') <= NextTs(talker')
      BY <1>3, <1>6, <2>1 DEF TalkerOK
    <3>2. now' % FrameTicks = 0
      BY DEF FrameBoundary
    <3>3. now' \in Nat /\ talker'.stream = talker.stream /\ NextTs(talker') = NextTs(talker) + 1
      BY <1>2, <1>5, <1>6, <2>1
    <3> QED BY <1>6, <2>1, <3>1, <3>2, <3>3, NextFrameTime
  <2> QED BY <1>5, <2>1 DEF TalkerOK
<1>9. /\ \A n \in Streams : born[n] >= FrameTicks
      /\ Timed(sent)
  BY <1>1 DEF World
<1>10. World(born, sent)'
  <2>1. talker'.stream = talker.stream /\ talker.stream # 0 =>
           NextSeq(talker) <= NextSeq(talker') /\ NextSeq(talker') - NextSeq(talker) <= NextTs(talker') - NextTs(talker)
    BY <1>6
  <2>2. /\ \A m \in sent \ sent : MarkOK(born, m)'
        /\ \A p \in network' \ network : PacketOK(born, sent, p)'
    BY <1>4
  <2> QED BY <1>1, <1>7, <1>8, <1>9, <2>1, <2>2, WorldLater
<1>11. Sound(born, sent, jb)'
  BY <1>1, <1>7, SoundLater
<1>12. Fresh(sent) /\ sent = sent \cup {Mark(p) : p \in network' \ network}
  BY <1>4 DEF Fresh
<1> QED BY <1>10, <1>11, <1>12 DEF Ticked, InvWith

Talkers ==
  [stream : 0 .. MaxStreams, sequence : Serials, timestamp : Serials,
   talking : BOOLEAN]

\* A mark later than all others of its stream, and as far from each in time as in
\* sequence, may be added.
LEMMA TimedExtended ==
  ASSUME NEW sent \in SUBSET Marks, Timed(sent), NEW k \in Marks,
         \A m \in sent : m.stream = k.stream =>
           m.seq < k.seq /\ k.seq - m.seq <= k.ts - m.ts
  PROVE  Timed(sent \cup {k})
<1> SUFFICES ASSUME NEW m \in sent \cup {k}, NEW l \in sent \cup {k},
                    m.stream = l.stream, m.seq <= l.seq
             PROVE  l.seq - m.seq <= l.ts - m.ts
  BY DEF Timed
<1>1. m.seq \in Nat /\ m.ts \in Nat /\ l.seq \in Nat /\ l.ts \in Nat
  BY DEF Marks
<1>2. CASE m \in sent /\ l \in sent
  BY <1>2 DEF Timed
<1>3. CASE m \in sent /\ l = k
  BY <1>3
<1>4. CASE m = k /\ l \in sent
  BY <1>1, <1>4
<1>5. CASE m = k /\ l = k
  BY <1>1, <1>5
<1> QED BY <1>2, <1>3, <1>4, <1>5

\* What Emit() sends and what it leaves of the talker.
LEMMA EmitIs ==
  ASSUME NEW t \in Talkers, t.stream \in Streams, NEW start, NEW end \in BOOLEAN,
         Emit(t, start, end),
         NextSeq(t) + 1 < Half, NextTs(t) + 1 < Half
  PROVE  /\ talker' \in Talkers /\ talker'.stream = t.stream
         /\ NextSeq(talker') = NextSeq(t) + 1
         /\ NextTs(talker') = NextTs(t) + 1
         /\ talker'.talking <=> ~end
         /\ \E p : /\ network' = network \cup {p}
                   /\ p.sent = now'
                   /\ \A sent : Mark(t) \in sent => Known(sent, p)
                   /\ Mark(p) = Mark(t) /\ p.stream = t.stream
                   /\ p.start = start /\ (p.end <=> end) /\ p.oversized \in profile.oversize
<1>1. t.sequence \in Serials /\ t.timestamp \in Serials
  BY DEF Talkers
<1>2. t.sequence + 1 \in Int /\ t.timestamp + 1 \in Int
  BY <1>1, ModulusFacts
<1>3. Wrap(t.sequence + 1) \in Serials /\ Wrap(t.timestamp + 1) \in Serials
  BY <1>2, WrapType
<1>4. talker' = [t EXCEPT !.sequence = Wrap(@ + 1), !.timestamp = Wrap(@ + 1),
                          !.talking = ~end]
  BY DEF Emit
<1>5. /\ talker' \in Talkers /\ talker'.stream = t.stream
      /\ talker'.sequence = Wrap(t.sequence + 1)
      /\ talker'.timestamp = Wrap(t.timestamp + 1)
      /\ talker'.talking <=> ~end
  BY <1>3, <1>4 DEF Talkers
<1>6. NextSeq(talker') = NextSeq(t) + 1 /\ NextTs(talker') = NextTs(t) + 1
  BY <1>1, <1>5, PositionStep DEF NextSeq, NextTs
<1>7. PICK r \in profile.redundant, o \in profile.oversize :
        network' = network \cup {Packet(t, start, end, r, o)}
  BY DEF Emit
<1> DEFINE p == Packet(t, start, end, r, o)
<1>8. /\ {"stream", "sequence", "timestamp"} \subseteq DOMAIN p
      /\ p.stream = t.stream /\ p.sequence = t.sequence /\ p.timestamp = t.timestamp
      /\ p.sent = now' /\ p.start = start /\ (p.end <=> end) /\ p.oversized = o
  BY DEF Packet
<1> HIDE DEF p
<1>9. Mark(p) = Mark(t)
  BY <1>8 DEF Mark
<1>10. \A sent : Mark(t) \in sent => Known(sent, p)
  BY <1>1, <1>8, <1>9 DEF Known
<1> QED BY <1>5, <1>6, <1>7, <1>8, <1>9, <1>10 DEF p

\* The frame `k` was sent: on a stream `born2` has, and later than what the stream
\* had before.
Sending(born, sent, born2, k) ==
  /\ \A n \in Streams : born2[n] >= FrameTicks
  /\ \A n \in Streams : n <= talker.stream => born2[n] = born[n]
  /\ k.seq <= k.ts
  /\ profile.perTalkspurt => k.seq = k.ts
  /\ TimeOf(born2, k.stream, k.ts) = now'
  /\ talker.stream <= k.stream
  /\ talker.stream = k.stream => NextSeq(talker) = k.seq /\ NextTs(talker) = k.ts
  /\ \A m \in sent : m.stream = k.stream => m.seq < k.seq /\ k.seq - m.seq <= k.ts - m.ts
  /\ talker' \in Talkers /\ talker'.stream = k.stream
  /\ NextSeq(talker') = k.seq + 1
  /\ NextTs(talker') = k.ts + 1
  /\ \E p : /\ network' = network \cup {p}
            /\ p.sent = now'
            /\ \A s : k \in s => Known(s, p)
            /\ Mark(p) = k /\ p.stream = k.stream

\* A frame of a stream leaves the invariant true.
LEMMA SendStep ==
  ASSUME NEW born \in Births, NEW sent \in SUBSET Marks, InvWith(born, sent), Ticking,
         FrameBoundary, UNCHANGED jb,
         NEW born2 \in Births, NEW k \in Marks, Sending(born, sent, born2, k)
  PROVE  Ticked(sent)
<1> DEFINE sent2 == sent \cup {k}
<1>1. World(born, sent) /\ Sound(born, sent, jb) /\ TalkerOK(born)
  BY DEF InvWith, World
<1>2. now \in Nat /\ now' = now + 1 /\ now' \in Nat /\ now <= now' /\ profile' = profile
      /\ FrameTicks \in Nat /\ profile.delay \in Nat
  BY <1>1, ConstantFacts DEF World, ProfileOK, Ticking
<1>3. k.stream \in Streams /\ k.stream \in Nat /\ k.stream # 0 /\ k.seq \in Nat /\ k.ts \in Nat
  BY ConstantFacts DEF Streams, Marks
<1>4. sent2 \in SUBSET Marks /\ sent \subseteq sent2 /\ k \in sent2
      /\ \A m \in sent2 \ sent : m = k
  OBVIOUS
<1>5. Timed(sent2)
  BY <1>1, TimedExtended DEF World, Sending
<1> HIDE DEF sent2
<1>6. PICK p : /\ network' = network \cup {p}
               /\ p.sent = now'
               /\ \A s : k \in s => Known(s, p)
               /\ Mark(p) = k /\ p.stream = k.stream
  BY DEF Sending
<1>7. /\ talker' \in Talkers /\ talker'.stream = k.stream
      /\ NextSeq(talker') = k.seq + 1
      /\ NextTs(talker') = k.ts + 1
  BY DEF Sending
<1>8. talker.stream = k.stream => NextSeq(talker) = k.seq /\ NextTs(talker) = k.ts
  BY DEF Sending
<1>9. Later(born, sent, born2, sent2)
  <2>1. talker'.stream \in Nat /\ talker.stream <= talker'.stream
    BY <1>3, <1>7 DEF Sending
  <2>2. \A n \in Streams : n <= talker.stream => born2[n] = born[n]
    BY DEF Sending
  <2>3. talker'.stream = talker.stream =>
          /\ NextSeq(talker') \in Nat /\ NextTs(talker') \in Nat
          /\ NextTs(talker) - NextSeq(talker) <= NextTs(talker') - NextSeq(talker')
    BY <1>3, <1>7, <1>8
  <2>4. \A m \in sent2 \ sent :
          /\ m.stream = talker'.stream
          /\ talker'.stream = talker.stream => m.seq = NextSeq(talker) /\ m.ts = NextTs(talker)
    BY <1>4, <1>7, <1>8
  <2> QED BY <1>2, <1>4, <2>1, <2>2, <2>3, <2>4 DEF Later
<1>10. TalkerOK(born2)'
  <2>1. now' % FrameTicks = 0
    BY DEF FrameBoundary
  <2>2. TimeOf(born2, k.stream, k.ts) = now'
    BY DEF Sending
  <2>3. /\ now' < TimeOf(born2, k.stream, k.ts + 1)
        /\ TimeOf(born2, k.stream, k.ts + 1) <= now' + FrameTicks
        /\ TimeOf(born2, k.stream, k.ts + 1) % FrameTicks = 0
    BY <1>2, <1>3, <2>1, <2>2, NextFrameTime
  <2>4. NextSeq(talker') <= NextTs(talker')
    BY <1>3, <1>7 DEF Sending
  <2>5. profile'.perTalkspurt => NextSeq(talker') = NextTs(talker')
    BY <1>2, <1>7 DEF Sending
  <2>6. talker'.stream # 0
    BY <1>3, <1>7
  <2> QED BY <1>7, <2>3, <2>4, <2>5, <2>6 DEF TalkerOK, Talkers
<1>11. MarkOK(born2, k)'
  <2>1. k.seq < NextSeq(talker') /\ NextSeq(talker') - k.seq <= NextTs(talker') - k.ts
    BY <1>3, <1>7
  <2>2. k.stream <= talker'.stream /\ TimeOf(born2, k.stream, k.ts) <= now'
    BY <1>2, <1>3, <1>7 DEF Sending
  <2>3. k.seq <= k.ts /\ (profile'.perTalkspurt => k.seq = k.ts)
    BY <1>2 DEF Sending
  <2> QED BY <2>1, <2>2, <2>3 DEF MarkOK
<1>12. PacketOK(born2, sent2, p)'
  <2>1. now' <= p.sent + profile'.delay
    BY <1>2, <1>6
  <2>2. Known(sent2, p)
    BY <1>4, <1>6
  <2>3. p.sent = TimeOf(born2, p.stream, Mark(p).ts)
    BY <1>6 DEF Sending
  <2> QED BY <2>1, <2>2, <2>3 DEF PacketOK
<1>13. World(born2, sent2)'
  <2>1. talker'.stream = talker.stream /\ talker.stream # 0 =>
           NextSeq(talker) <= NextSeq(talker') /\ NextSeq(talker') - NextSeq(talker) <= NextTs(talker') - NextTs(talker)
    BY <1>3, <1>7, <1>8
  <2>2. \A n \in Streams : born2[n] >= FrameTicks
    BY DEF Sending
  <2>3. \A m \in sent2 \ sent : MarkOK(born2, m)'
    BY <1>4, <1>11
  <2>4. \A x \in network' \ network : PacketOK(born2, sent2, x)'
    BY <1>6, <1>12
  <2> QED BY <1>1, <1>4, <1>5, <1>9, <1>10, <2>1, <2>2, <2>3, <2>4, WorldLater
<1>14. Sound(born2, sent2, jb)'
  BY <1>1, <1>4, <1>9, SoundLater
<1>15. Fresh(sent)
  <2>1. \A m \in sent : ~(m.stream = k.stream /\ m.seq = k.seq)
    <3> SUFFICES ASSUME NEW m \in sent, m.stream = k.stream, m.seq = k.seq PROVE FALSE
      OBVIOUS
    <3>1. m.seq \in Nat /\ m.seq < k.seq
      BY DEF Marks, Sending
    <3> QED BY <1>3, <3>1
  <2> QED BY <1>6, <2>1 DEF Fresh
<1>16. sent2 = sent \cup {Mark(x) : x \in network' \ network}
  <2>1. p \in network => k \in sent
    BY <1>1, <1>6 DEF World, PacketOK, Known
  <2> QED BY <1>6, <2>1 DEF sent2
<1> QED BY <1>4, <1>13, <1>14, <1>15, <1>16 DEF Ticked, InvWith

\* The next frame of a stream (session.cpp: transmit_available()).
LEMMA ContinueStep ==
  ASSUME NEW born \in Births, NEW sent \in SUBSET Marks, InvWith(born, sent), Ticking,
         FrameBoundary, UNCHANGED jb, talker.stream # 0,
         NEW t \in Talkers, t.stream = talker.stream, t.sequence = talker.sequence,
         t.timestamp = talker.timestamp, NEW start, NEW end \in BOOLEAN,
         profile.perTalkspurt => NextSeq(talker) = NextTs(talker),
         Emit(t, start, end)
  PROVE  Ticked(sent)
<1>1. World(born, sent) /\ TalkerOK(born)
  BY DEF InvWith, World
<1>2. PICK k : k = Mark(t)
  OBVIOUS
<1>3. NextSeq(t) = NextSeq(talker) /\ NextTs(t) = NextTs(talker) /\ talker.stream \in Nat
  BY <1>1, ConstantFacts DEF NextSeq, NextTs, TalkerOK
<1>4. talker.stream \in Streams /\ NextSeq(talker) \in Nat /\ NextTs(talker) \in Nat
  BY <1>1, NextTypes
<1>5. k \in Marks /\ k.stream = talker.stream /\ k.seq = NextSeq(talker) /\ k.ts = NextTs(talker)
  BY <1>2, <1>3, <1>4 DEF Mark, Marks, NextSeq, NextTs
<1>6. TimeOf(born, talker.stream, NextTs(talker)) = now'
  BY <1>1, BoundaryIs
<1>7. NextSeq(talker) + 1 < Half /\ NextTs(talker) + 1 < Half
  <2>1. TimeOf(born, talker.stream, NextTs(talker)) <= now + 1
    BY <1>1, <1>6 DEF Ticking, World, ProfileOK
  <2> QED BY <1>1, <2>1, NextBounded
<1>8. /\ talker' \in Talkers /\ talker'.stream = t.stream
      /\ NextSeq(talker') = NextSeq(t) + 1
      /\ NextTs(talker') = NextTs(t) + 1
      /\ \E p : /\ network' = network \cup {p}
                /\ p.sent = now'
                /\ \A s : Mark(t) \in s => Known(s, p)
                /\ Mark(p) = Mark(t) /\ p.stream = t.stream
  BY <1>3, <1>4, <1>7, EmitIs
<1>9. Sending(born, sent, born, k)
  <2>1. \A n \in Streams : born[n] >= FrameTicks
    BY <1>1 DEF World
  <2>2. k.seq <= k.ts
    BY <1>1, <1>5 DEF TalkerOK
  <2>3. \A m \in sent : m.stream = k.stream => m.seq < k.seq /\ k.seq - m.seq <= k.ts - m.ts
    BY <1>1, <1>5 DEF World, MarkOK
  <2>4. \E p : /\ network' = network \cup {p}
               /\ p.sent = now'
               /\ \A s : k \in s => Known(s, p)
               /\ Mark(p) = k /\ p.stream = k.stream
    BY <1>2, <1>5, <1>8
  <2>5. talker.stream <= k.stream
    BY <1>3, <1>5
  <2> QED BY <1>3, <1>5, <1>6, <1>8, <2>1, <2>2, <2>3, <2>4, <2>5 DEF Sending
<1> QED BY <1>5, <1>9, SendStep

\* The first frame of a new stream (Session::start_transmit()).
LEMMA OpenStep ==
  ASSUME NEW born \in Births, NEW sent \in SUBSET Marks, InvWith(born, sent), Ticking,
         FrameBoundary, UNCHANGED jb,
         NEW n \in Streams, n = talker.stream + 1,
         NEW t \in Talkers, t.stream = n, t.sequence = FirstSequence[n],
         t.timestamp = FirstTimestamp[n], NEW start, NEW end \in BOOLEAN,
         Emit(t, start, end)
  PROVE  Ticked(sent)
<1>1. World(born, sent) /\ TalkerOK(born)
  BY DEF InvWith, World
<1>2. PICK k : k = Mark(t)
  OBVIOUS
<1>3. NextSeq(t) = 0 /\ NextTs(t) = 0
  BY FirstPosition DEF NextSeq, NextTs
<1>4. k \in Marks /\ k.stream = n /\ k.seq = 0 /\ k.ts = 0
  BY <1>2, <1>3 DEF Mark, Marks, NextSeq, NextTs
<1>5. talker.stream \in Nat /\ n \in Nat
  BY <1>1, ConstantFacts DEF TalkerOK
<1>6. NextSeq(t) + 1 < Half /\ NextTs(t) + 1 < Half
  BY <1>3, ConstantFacts
<1>7. /\ talker' \in Talkers /\ talker'.stream = t.stream
      /\ NextSeq(talker') = NextSeq(t) + 1
      /\ NextTs(talker') = NextTs(t) + 1
      /\ \E p : /\ network' = network \cup {p}
                /\ p.sent = now'
                /\ \A s : Mark(t) \in s => Known(s, p)
                /\ Mark(p) = Mark(t) /\ p.stream = t.stream
  BY <1>6, EmitIs
<1>8. now' \in Nat /\ FrameTicks <= now'
  <2>1. now' \in Nat /\ now' > 0 /\ FrameTicks \in Nat /\ FrameTicks > 0
    BY <1>1, ConstantFacts DEF World, ProfileOK, Ticking
  <2>2. now' % FrameTicks = 0
    BY DEF FrameBoundary
  <2> QED BY <2>1, <2>2, FullFrame
<1>9. PICK b : b = now'
  OBVIOUS
<1>10. PICK born2 : born2 = [born EXCEPT ![n] = b]
  OBVIOUS
<1>11. born2 \in Births /\ born2[n] = now' /\ \A i \in Streams : i # n => born2[i] = born[i]
  BY <1>8, <1>9, <1>10 DEF Births
<1>12. Sending(born, sent, born2, k)
  <2>1. \A i \in Streams : born2[i] >= FrameTicks
    BY <1>1, <1>8, <1>11 DEF World
  <2>2. \A i \in Streams : i <= talker.stream => born2[i] = born[i]
    BY <1>5, <1>11
  <2>3. TimeOf(born2, k.stream, k.ts) = now'
    <3>1. FrameTicks * 0 = 0
      BY ConstantFacts
    <3> QED BY <1>4, <1>8, <1>11, <3>1 DEF TimeOf
  <2>4. \A m \in sent : m.stream # k.stream
    BY <1>1, <1>4, <1>5 DEF World, MarkOK
  <2>5. \E p : /\ network' = network \cup {p}
               /\ p.sent = now'
               /\ \A s : k \in s => Known(s, p)
               /\ Mark(p) = k /\ p.stream = k.stream
    BY <1>2, <1>4, <1>7
  <2>6. talker.stream <= k.stream /\ talker.stream # k.stream
    BY <1>4, <1>5
  <2> QED BY <1>3, <1>4, <1>7, <2>1, <2>2, <2>3, <2>4, <2>5, <2>6 DEF Sending
<1> QED BY <1>4, <1>11, <1>12, SendStep

\* A tick leaves the invariant true.
LEMMA TickStep ==
  ASSUME NEW born \in Births, NEW sent \in SUBSET Marks, InvWith(born, sent), Tick
  PROVE  Ticked(sent)
<1>1. Ticking /\ UNCHANGED jb
  BY DEF Tick, Ticking
<1>2. TalkerOK(born) /\ talker \in Talkers
  BY DEF InvWith, World, TalkerOK, Talkers
<1>3. CASE ~FrameBoundary
  <2>1. UNCHANGED <<jb, talker, network>>
    BY <1>3 DEF Tick
  <2> QED BY <1>1, <1>3, <2>1, StillStep
<1>4. CASE FrameBoundary /\ Quiet
  BY <1>1, <1>4, QuietStep
<1>5. CASE FrameBoundary /\ talker.talking /\ \E end \in {budget.sends = 1, TRUE} : Emit(talker, FALSE, end)
  <2>1. PICK end : end \in BOOLEAN /\ Emit(talker, FALSE, end)
    BY <1>5
  <2>2. talker.stream # 0 /\ (profile.perTalkspurt => NextSeq(talker) = NextTs(talker))
    BY <1>2, <1>5 DEF TalkerOK
  <2> QED BY <1>1, <1>2, <1>5, <2>1, <2>2, ContinueStep
<1>6. CASE FrameBoundary /\ ~talker.talking /\ Emit(Opening, TRUE, FALSE)
           /\ (profile.perTalkspurt => talker.stream < MaxStreams)
  <2>1. CASE talker.stream = 0 \/ profile.perTalkspurt
    <3>1. PICK n : n = talker.stream + 1
      OBVIOUS
    <3>2. n \in Streams
      BY <1>2, <1>6, <2>1, <3>1, ConstantFacts DEF Streams, Talkers
    <3>3. PICK t : t = Opening
      OBVIOUS
    <3>4. t = [talker EXCEPT !.stream = n, !.sequence = FirstSequence[n],
                             !.timestamp = FirstTimestamp[n], !.talking = TRUE]
      BY <2>1, <3>1, <3>3 DEF Opening
    <3>5. FirstSequence[n] \in Serials /\ FirstTimestamp[n] \in Serials /\ n \in 0 .. MaxStreams
      BY <3>2, ConstantFacts DEF Streams
    <3>6. /\ t \in Talkers /\ t.stream = n /\ t.sequence = FirstSequence[n]
          /\ t.timestamp = FirstTimestamp[n]
      BY <1>2, <3>4, <3>5 DEF Talkers
    <3>7. Emit(t, TRUE, FALSE)
      BY <1>6, <3>3
    <3> QED BY <1>1, <1>6, <3>1, <3>2, <3>6, <3>7, OpenStep
  <2>2. CASE talker.stream # 0 /\ ~profile.perTalkspurt
    <3>1. PICK t : t = Opening
      OBVIOUS
    <3>2. t = [talker EXCEPT !.talking = TRUE]
      BY <2>2, <3>1 DEF Opening
    <3>3. /\ t \in Talkers /\ t.stream = talker.stream /\ t.sequence = talker.sequence
          /\ t.timestamp = talker.timestamp
      BY <1>2, <3>2 DEF Talkers
    <3>4. Emit(t, TRUE, FALSE)
      BY <1>6, <3>1
    <3> QED BY <1>1, <1>6, <2>2, <3>3, <3>4, ContinueStep
  <2> QED BY <2>1, <2>2
<1> QED BY <1>3, <1>4, <1>5, <1>6 DEF Tick, Talk

-------------------------------------------------------------------------------
(* The other actions *)

\* Nothing but deliveries and losses: the world stays as it is.
LEMMA WorldSame ==
  ASSUME NEW born \in Births, NEW sent \in SUBSET Marks, World(born, sent),
         UNCHANGED <<now, talker, profile>>, network' \subseteq network
  PROVE  World(born, sent)'
<1>1. ProfileOK'
  BY DEF World, ProfileOK
<1>2. TalkerOK(born)'
  <2>1. TalkerOK(born) /\ talker' = talker /\ now' = now /\ profile' = profile
    BY DEF World
  <2> QED BY <2>1 DEF TalkerOK
<1>3. ASSUME NEW m \in sent PROVE MarkOK(born, m)'
  <2>1. MarkOK(born, m) /\ talker' = talker /\ now' = now /\ profile' = profile
    BY DEF World
  <2> QED BY <2>1 DEF MarkOK
<1>4. ASSUME NEW p \in network' PROVE PacketOK(born, sent, p)'
  <2>1. PacketOK(born, sent, p) /\ now' = now /\ profile' = profile
    BY DEF World
  <2> QED BY <2>1 DEF PacketOK
<1> QED BY <1>1, <1>2, <1>3, <1>4 DEF World

\* A buffer that is sound is so in the next state, if time and talker stand still.
LEMMA SoundSame ==
  ASSUME NEW born \in Births, NEW sent \in SUBSET Marks, NEW j,
         UNCHANGED <<now, talker, profile>>, jb' = j, Sound(born, sent, j)
  PROVE  Sound(born, sent, jb)'
<1>1. talker' = talker /\ now' = now /\ profile' = profile
  OBVIOUS
<1>2. ASSUME j.anchored
      PROVE  Projected(born, sent, j.streamId, j.queue.cursor, j.playoutTs)'
  <2>1. Projected(born, sent, j.streamId, j.queue.cursor, j.playoutTs)
    BY <1>2 DEF Sound
  <2> QED BY <1>1, <2>1 DEF Projected
<1>3. ASSUME j.anchored
      PROVE  AnchoredAt(born, j.streamId, j.anchorTs, j.anchorLocal)'
  <2>1. AnchoredAt(born, j.streamId, j.anchorTs, j.anchorLocal)
    BY <1>3 DEF Sound
  <2> QED BY <1>1, <2>1 DEF AnchoredAt
<1>4. ASSUME j.anchored
      PROVE  /\ Projected(born, sent, jb.streamId, jb.queue.cursor, jb.playoutTs)'
             /\ AnchoredAt(born, jb.streamId, jb.anchorTs, jb.anchorLocal)'
  BY <1>2, <1>3, <1>4 DEF Projected, AnchoredAt
<1> QED BY <1>1, <1>4 DEF Sound

\* A buffer that was just opened or closed is sound and holds nothing.
LEMMA EmptySound ==
  ASSUME NEW born \in Births, NEW sent \in SUBSET Marks, NEW j \in {OpenBuffer, ClosedBuffer}
  PROVE  Sound(born, sent, j) /\ HeldIds(j) = {}
<1>1. /\ BufferFields \subseteq DOMAIN j /\ j.queue = EmptyQueue
      /\ ~j.hasStream /\ ~j.anchored
  BY DEF OpenBuffer, ClosedBuffer, BufferFields
<1>2. QueueFields \subseteq DOMAIN EmptyQueue /\ DOMAIN EmptyQueue.slots = {}
  BY EmptyWindow
<1> QED BY <1>1, <1>2 DEF Sound, HeldIds

-------------------------------------------------------------------------------
(* Every packet is in one place *)

Id(x) == <<x.stream, x.sequence>>

WasSent(sent, id) ==
  \E m \in sent : m.stream = id[1] /\ m.seq = SequencePosition(id[1], id[2])

\* As long as the network copies nothing, a packet is in flight, held or played,
\* and only one of them.
Once(sent) ==
  /\ {"copies", "stalls", "sends", "lost", "closes"} \subseteq DOMAIN budget
  /\ budget.copies = 0
  /\ \A p, q \in network : Id(p) = Id(q) => p = q
  /\ \A p \in network : Id(p) \notin HeldIds(jb) \cup played
  /\ HeldIds(jb) \cap played = {}
  /\ \A id \in played : WasSent(sent, id)
  /\ PlayedOnce

\* What is held was sent.
LEMMA HeldSent ==
  ASSUME NEW born \in Births, NEW sent \in SUBSET Marks, World(born, sent),
         NEW j, Sound(born, sent, j), NEW id \in HeldIds(j)
  PROVE  WasSent(sent, id)
<1>1. PICK i \in DOMAIN j.queue.slots : id = Id(j.queue.slots[i])
  BY DEF HeldIds, Id
<1>2. j.anchored
  BY <1>1, EmptyWindow DEF Sound
<1>3. Known(sent, j.queue.slots[i])
  BY <1>1, <1>2 DEF Sound, Windowed
<1> DEFINE x == j.queue.slots[i]
<1>4. Mark(x) \in sent /\ Mark(x).stream = x.stream
      /\ Mark(x).seq = SequencePosition(x.stream, x.sequence)
  BY <1>3, KnownFacts
<1>5. id[1] = x.stream /\ id[2] = x.sequence
  BY <1>1 DEF Id
<1> HIDE DEF x
<1> QED BY <1>4, <1>5 DEF WasSent

\* What is in flight was sent.
LEMMA FlyingSent ==
  ASSUME NEW born \in Births, NEW sent \in SUBSET Marks, World(born, sent),
         NEW p \in network
  PROVE  WasSent(sent, Id(p))
<1>1. Known(sent, p)
  BY DEF World, PacketOK
<1>2. Mark(p) \in sent /\ Mark(p).stream = p.stream
      /\ Mark(p).seq = SequencePosition(p.stream, p.sequence)
  BY <1>1, KnownFacts
<1>3. Id(p)[1] = p.stream /\ Id(p)[2] = p.sequence
  BY DEF Id
<1> QED BY <1>2, <1>3 DEF WasSent

\* The two together: the inductive invariant, for a history of births and marks.
Full(born, sent) ==
  InvWith(born, sent) /\ (profile.copies = 0 => Once(sent))

\* The inductive invariant.
Inv == \E born \in Births, sent \in SUBSET Marks : Full(born, sent)

\* A tick: a fresh packet is nowhere else.
LEMMA TickOnce ==
  ASSUME NEW born \in Births, NEW sent \in SUBSET Marks, World(born, sent),
         Sound(born, sent, jb), Once(sent), Tick, Fresh(sent),
         NEW sent2, sent \subseteq sent2
  PROVE  Once(sent2)'
<1>1. jb' = jb /\ played' = played /\ out' = out /\ profile' = profile
  BY DEF Tick
<1>2. /\ {"copies", "stalls", "sends", "lost", "closes"} \subseteq DOMAIN budget'
      /\ budget'.copies = 0
  <2>1. \/ budget' = budget
        \/ budget' = [budget EXCEPT !.sends = @ - 1, !.stalls = IF pulled THEN @ ELSE @ - 1]
        \/ budget' = [budget EXCEPT !.stalls = IF pulled THEN @ ELSE @ - 1]
    BY DEF Tick
  <2> QED BY <2>1 DEF Once
<1>3. ASSUME NEW p \in network' \ network PROVE ~WasSent(sent, Id(p))
  <2>1. \A m \in sent : ~(m.stream = p.stream /\ m.seq = Mark(p).seq)
    BY <1>3 DEF Fresh
  <2>2. Mark(p).seq = SequencePosition(p.stream, p.sequence)
    BY DEF Mark
  <2>3. Id(p)[1] = p.stream /\ Id(p)[2] = p.sequence
    BY DEF Id
  <2> QED BY <2>1, <2>2, <2>3 DEF WasSent
<1>4. ASSUME NEW p \in network', NEW q \in network', Id(p) = Id(q) PROVE p = q
  <2>1. CASE p \in network /\ q \in network
    BY <1>4, <2>1 DEF Once
  <2>2. CASE p \notin network /\ q \notin network
    BY <2>2 DEF Fresh
  <2>3. CASE p \in network /\ q \notin network
    BY <1>3, <1>4, <2>3, FlyingSent
  <2>4. CASE p \notin network /\ q \in network
    BY <1>3, <1>4, <2>4, FlyingSent
  <2> QED BY <2>1, <2>2, <2>3, <2>4
<1>5. ASSUME NEW p \in network' PROVE Id(p) \notin HeldIds(jb) \cup played
  <2>1. CASE p \in network
    BY <2>1 DEF Once
  <2>2. CASE p \notin network
    <3>1. ~WasSent(sent, Id(p))
      BY <1>3, <2>2
    <3>2. Id(p) \notin HeldIds(jb)
      BY <3>1, HeldSent
    <3>3. Id(p) \notin played
      BY <3>1 DEF Once
    <3> QED BY <3>2, <3>3
  <2> QED BY <2>1, <2>2
<1>6. \A id \in played : WasSent(sent2, id)
  BY DEF Once, WasSent
<1>7. PlayedOnce'
  BY <1>1 DEF Once, PlayedOnce
<1>8. HeldIds(jb) \cap played = {}
  BY DEF Once
<1>9. HeldIds(jb') = HeldIds(jb)
  BY <1>1
<1>10. \A p \in network' : Id(p) \notin HeldIds(jb') \cup played'
  BY <1>1, <1>5, <1>9
<1>11. HeldIds(jb') \cap played' = {}
  BY <1>1, <1>8, <1>9
<1>12. \A id \in played' : WasSent(sent2, id)
  BY <1>1, <1>6
<1> QED BY <1>2, <1>4, <1>7, <1>10, <1>11, <1>12 DEF Once

\* A delivery moves a packet from the network into the buffer, or drops it.
LEMMA ReceiveInv ==
  ASSUME NEW born \in Births, NEW sent \in SUBSET Marks, InvWith(born, sent),
         NEW p \in network, Receive(p), network' \subseteq network
  PROVE  /\ InvWith(born, sent)'
         /\ HeldIds(jb') \subseteq HeldIds(jb) \cup {Id(p)}
<1>1. World(born, sent) /\ Sound(born, sent, jb) /\ PacketOK(born, sent, p)
  BY DEF InvWith, World
<1>2. /\ UNCHANGED <<now, talker, profile>>
      /\ jb' = Pushed(jb, p, now)
  BY DEF Receive
<1>3. /\ Sound(born, sent, Pushed(jb, p, now))
      /\ HeldIds(Pushed(jb, p, now)) \subseteq HeldIds(jb) \cup {<<p.stream, p.sequence>>}
  BY <1>1, PushedSound
<1>4. Sound(born, sent, jb)'
  BY <1>2, <1>3, SoundSame
<1>5. World(born, sent)'
  BY <1>1, <1>2, WorldSame
<1> QED BY <1>2, <1>3, <1>4, <1>5 DEF InvWith, Id

\* Deliver(p) leaves the invariant true.
LEMMA DeliverInv ==
  ASSUME NEW born \in Births, NEW sent \in SUBSET Marks, Full(born, sent),
         NEW p \in network, Deliver(p)
  PROVE  Full(born, sent)'
<1>1. /\ Receive(p) /\ network' = network \ {p} /\ budget' = budget
      /\ played' = played /\ out' = out /\ profile' = profile
  BY DEF Deliver, Receive
<1>2. /\ InvWith(born, sent)'
      /\ HeldIds(jb') \subseteq HeldIds(jb) \cup {Id(p)}
  BY <1>1, ReceiveInv DEF Full
<1>3. ASSUME profile.copies = 0 PROVE Once(sent)'
  <2>1. Once(sent)
    BY <1>3 DEF Full
  <2>2. \A q \in network' : q \in network /\ Id(q) # Id(p)
    BY <1>1, <2>1 DEF Once
  <2>3. \A q \in network' : Id(q) \notin HeldIds(jb') \cup played'
    BY <1>1, <1>2, <2>1, <2>2 DEF Once
  <2>4. HeldIds(jb') \cap played' = {}
    BY <1>1, <1>2, <2>1 DEF Once
  <2>5. PlayedOnce'
    BY <1>1, <2>1 DEF Once, PlayedOnce
  <2>6. \A q, r \in network' : Id(q) = Id(r) => q = r
    BY <2>1, <2>2 DEF Once
  <2> QED BY <1>1, <2>1, <2>3, <2>4, <2>5, <2>6 DEF Once
<1> QED BY <1>1, <1>2, <1>3 DEF Full

\* Duplicate(p) leaves the invariant true.
LEMMA DuplicateInv ==
  ASSUME NEW born \in Births, NEW sent \in SUBSET Marks, Full(born, sent),
         NEW p \in network, Duplicate(p)
  PROVE  Full(born, sent)'
<1>1. Receive(p) /\ network' = network /\ budget.copies > 0 /\ profile' = profile
  BY DEF Duplicate, Receive
<1>2. InvWith(born, sent)'
  BY <1>1, ReceiveInv DEF Full
<1>3. ~(profile.copies = 0)
  BY <1>1 DEF Full, Once
<1> QED BY <1>1, <1>2, <1>3 DEF Full

\* Lose(p) leaves the invariant true.
LEMMA LoseInv ==
  ASSUME NEW born \in Births, NEW sent \in SUBSET Marks, Full(born, sent),
         NEW p \in network, Lose(p)
  PROVE  Full(born, sent)'
<1>1. /\ network' = network \ {p} /\ budget' = [budget EXCEPT !.lost = @ - 1]
      /\ jb' = jb /\ played' = played /\ out' = out /\ profile' = profile
      /\ UNCHANGED <<now, talker, profile>>
  BY DEF Lose
<1>2. World(born, sent)'
  BY <1>1, WorldSame DEF Full, InvWith
<1>3. Sound(born, sent, jb)'
  BY <1>1, SoundSame DEF Full, InvWith
<1>4. ASSUME profile.copies = 0 PROVE Once(sent)'
  <2>1. Once(sent) /\ HeldIds(jb') = HeldIds(jb)
    BY <1>1, <1>4 DEF Full
  <2>2. PlayedOnce'
    BY <1>1, <2>1 DEF Once, PlayedOnce
  <2>3. /\ {"copies", "stalls", "sends", "lost", "closes"} \subseteq DOMAIN budget'
        /\ budget'.copies = 0
    BY <1>1, <2>1 DEF Once
  <2>4. /\ \A x, y \in network' : Id(x) = Id(y) => x = y
        /\ \A x \in network' : Id(x) \notin HeldIds(jb') \cup played'
    BY <1>1, <2>1 DEF Once
  <2>5. HeldIds(jb') \cap played' = {} /\ \A id \in played' : WasSent(sent, id)
    BY <1>1, <2>1 DEF Once
  <2> QED BY <2>2, <2>3, <2>4, <2>5 DEF Once
<1> QED BY <1>1, <1>2, <1>3, <1>4 DEF Full, InvWith

\* close() and open() leave the invariant true.
LEMMA OwnerInv ==
  ASSUME NEW born \in Births, NEW sent \in SUBSET Marks, Full(born, sent),
         Close \/ \E opened \in BOOLEAN : Open(opened)
  PROVE  Full(born, sent)'
<1>1. /\ network' = network /\ budget' = [budget EXCEPT !.closes = @ - 1]
      /\ jb' \in {OpenBuffer, ClosedBuffer} /\ played' = played
      /\ out' = NothingOut /\ profile' = profile
      /\ UNCHANGED <<now, talker, profile>>
  BY DEF Close, Open
<1>2. World(born, sent)'
  BY <1>1, WorldSame DEF Full, InvWith
<1>3. Sound(born, sent, jb') /\ HeldIds(jb') = {}
  BY <1>1, EmptySound
<1>4. Sound(born, sent, jb)'
  BY <1>1, <1>3, SoundSame
<1>5. ASSUME profile.copies = 0 PROVE Once(sent)'
  <2>1. Once(sent)
    BY <1>5 DEF Full
  <2>2. PlayedOnce'
    BY <1>1 DEF PlayedOnce, NothingOut
  <2>3. /\ {"copies", "stalls", "sends", "lost", "closes"} \subseteq DOMAIN budget'
        /\ budget'.copies = 0
    BY <1>1, <2>1 DEF Once
  <2>4. /\ \A x, y \in network' : Id(x) = Id(y) => x = y
        /\ \A x \in network' : Id(x) \notin HeldIds(jb') \cup played'
    BY <1>1, <1>3, <2>1 DEF Once
  <2>5. HeldIds(jb') \cap played' = {} /\ \A id \in played' : WasSent(sent, id)
    BY <1>1, <1>3, <2>1 DEF Once
  <2> QED BY <2>2, <2>3, <2>4, <2>5 DEF Once
<1> QED BY <1>1, <1>2, <1>4, <1>5 DEF Full, InvWith

\* What a pull gives to the speaker: a frame that was held and no longer is.
LEMMA PullIs ==
  ASSUME NEW born \in Births, NEW sent \in SUBSET Marks, InvWith(born, sent),
         NEW ok, Pull(ok)
  PROVE  LET r == Ready(jb, now)
             f == NextFrame(r)
         IN  \/ /\ out'.source # "Packet" /\ played' = played
             \/ /\ jb.open /\ ~Waits(jb, now) /\ HasNext(r)
                /\ Id(f) \in HeldIds(jb) \ HeldIds(jb')
                /\ out' = [source |-> "Packet", at |-> now,
                           due |-> DeadlineOf(r, f.timestamp),
                           again |-> Id(f) \in played]
                /\ played' = played \cup {Id(f)}
<1> DEFINE r == Ready(jb, now)
           f == NextFrame(r)
           source == IF ~jb.open \/ Waits(jb, now) THEN "Silence"
                     ELSE PullSource(r, ok)
<1>1. World(born, sent) /\ Sound(born, sent, jb) /\ jb' = Pulled(jb, now, ok)
  BY DEF InvWith, Pull
<1>2. CASE source = "Packet"
  <2>1. jb.open /\ ~Waits(jb, now) /\ HasNext(r)
    BY <1>2 DEF PullSource
  <2>2. <<f.stream, f.sequence>> \in HeldIds(jb) \ HeldIds(jb')
    BY <1>1, <2>1, PulledSound
  <2>3. /\ out' = [source |-> source, at |-> now,
                   due |-> DeadlineOf(r, f.timestamp),
                   again |-> <<f.stream, f.sequence>> \in played]
        /\ played' = played \cup {<<f.stream, f.sequence>>}
    BY <1>2 DEF Pull
  <2> HIDE DEF r, f, source
  <2>4. Id(f) = <<f.stream, f.sequence>>
    BY DEF Id
  <2> QED BY <1>2, <2>1, <2>2, <2>3, <2>4 DEF r, f
<1>3. CASE source # "Packet"
  <2>1. out' = [source |-> source] /\ played' = played
    BY <1>3 DEF Pull
  <2> HIDE DEF source
  <2>2. out'.source # "Packet"
    BY <1>3, <2>1
  <2> QED BY <2>1, <2>2
<1> QED BY <1>2, <1>3

\* Pull(ok) leaves the invariant true.
LEMMA PullInv ==
  ASSUME NEW born \in Births, NEW sent \in SUBSET Marks, Full(born, sent),
         NEW ok, Pull(ok)
  PROVE  Full(born, sent)'
<1> DEFINE r == Ready(jb, now)
           f == NextFrame(r)
<1>1. /\ World(born, sent) /\ Sound(born, sent, jb) /\ InvWith(born, sent)
      /\ UNCHANGED <<now, talker, profile>> /\ network' = network
      /\ budget' = budget /\ profile' = profile
      /\ jb' = Pulled(jb, now, ok)
  BY DEF Full, InvWith, Pull
<1>2. Sound(born, sent, jb') /\ HeldIds(jb') \subseteq HeldIds(jb)
  BY <1>1, PulledSound
<1>3. Sound(born, sent, jb)'
  BY <1>1, <1>2, SoundSame
<1>4. World(born, sent)'
  BY <1>1, WorldSame
<1>5. \/ /\ out'.source # "Packet" /\ played' = played
      \/ /\ Id(f) \in HeldIds(jb) \ HeldIds(jb')
         /\ out' = [source |-> "Packet", at |-> now,
                    due |-> DeadlineOf(r, f.timestamp),
                    again |-> Id(f) \in played]
         /\ played' = played \cup {Id(f)}
  BY <1>1, PullIs
<1> HIDE DEF r, f
<1>6. ASSUME profile.copies = 0 PROVE Once(sent)'
  <2>1. Once(sent)
    BY <1>6 DEF Full
  <2>2. /\ PlayedOnce' /\ HeldIds(jb') \cap played' = {}
        /\ \A id \in played' : WasSent(sent, id)
        /\ \A x \in network : Id(x) \notin HeldIds(jb') \cup played'
    <3>1. CASE out'.source # "Packet" /\ played' = played
      BY <1>2, <2>1, <3>1 DEF Once, PlayedOnce
    <3>2. CASE /\ Id(f) \in HeldIds(jb) \ HeldIds(jb')
               /\ out' = [source |-> "Packet", at |-> now,
                          due |-> DeadlineOf(r, f.timestamp),
                          again |-> Id(f) \in played]
               /\ played' = played \cup {Id(f)}
      <4>1. Id(f) \notin played /\ WasSent(sent, Id(f))
        BY <1>1, <2>1, <3>2, HeldSent DEF Once
      <4>2. ~out'.again
        BY <3>2, <4>1
      <4>3. PlayedOnce'
        BY <4>2 DEF PlayedOnce
      <4>4. HeldIds(jb') \cap played' = {}
        BY <1>2, <2>1, <3>2 DEF Once
      <4>5. \A id \in played' : WasSent(sent, id)
        BY <2>1, <3>2, <4>1 DEF Once
      <4>6. \A x \in network : Id(x) \notin HeldIds(jb') \cup played'
        BY <1>2, <2>1, <3>2 DEF Once
      <4> QED BY <4>3, <4>4, <4>5, <4>6
    <3> QED BY <1>5, <3>1, <3>2
  <2>3. network' = network /\ budget' = budget
    BY <1>1
  <2>4. \A x, y \in network' : Id(x) = Id(y) => x = y
    BY <2>1, <2>3 DEF Once
  <2>5. \A x \in network' : Id(x) \notin HeldIds(jb') \cup played'
    BY <2>2, <2>3
  <2>6. /\ {"copies", "stalls", "sends", "lost", "closes"} \subseteq DOMAIN budget'
        /\ budget'.copies = 0
    BY <2>1, <2>3 DEF Once
  <2> QED BY <2>2, <2>4, <2>5, <2>6 DEF Once
<1> QED BY <1>1, <1>3, <1>4, <1>6 DEF Full, InvWith

\* Nothing happens to a history of which nothing changes.
LEMMA StutterInv ==
  ASSUME NEW born \in Births, NEW sent \in SUBSET Marks, Full(born, sent), UNCHANGED vars
  PROVE  Full(born, sent)'
<1>1. /\ UNCHANGED <<now, talker, profile>> /\ network' = network /\ budget' = budget
      /\ profile' = profile /\ jb' = jb /\ played' = played /\ out' = out
  BY DEF vars
<1>2. World(born, sent)' /\ Sound(born, sent, jb)'
  BY <1>1, WorldSame, SoundSame DEF Full, InvWith
<1>3. Once(sent) => Once(sent)'
  BY <1>1 DEF Once, PlayedOnce
<1> QED BY <1>1, <1>2, <1>3 DEF Full, InvWith

\* The invariant holds at the start.
LEMMA InitInv == Init => Inv
<1> SUFFICES ASSUME Init PROVE Inv
  OBVIOUS
<1>1. PICK born : born = [n \in Streams |-> FrameTicks]
  OBVIOUS
<1>2. born \in Births /\ \A n \in Streams : born[n] >= FrameTicks
  BY <1>1, ConstantFacts DEF Births
<1>3. {} \in SUBSET Marks
  OBVIOUS
<1>4. ProfileOK
  BY ConstantFacts DEF Init, ProfileOK
<1>5. 0 \in Serials /\ 0 \in 0 .. MaxStreams
  BY ModulusFacts, ConstantFacts
<1>6. TalkerOK(born)
  BY <1>5 DEF Init, TalkerOK
<1>7. World(born, {})
  BY <1>2, <1>4, <1>6 DEF Init, World, Timed
<1>8. Sound(born, {}, jb) /\ HeldIds(jb) = {}
  BY <1>2, <1>3, EmptySound DEF Init
<1>9. profile.copies = 0 => Once({})
  BY <1>8 DEF Init, Once, PlayedOnce, NothingOut
<1>10. Full(born, {})
  BY <1>7, <1>8, <1>9 DEF Full, InvWith
<1> QED BY <1>2, <1>3, <1>10 DEF Inv

\* Every step leaves it true.
LEMMA NextInv == Inv /\ [Next]_vars => Inv'
<1> SUFFICES ASSUME Inv, [Next]_vars PROVE Inv'
  OBVIOUS
<1>1. PICK born \in Births, sent \in SUBSET Marks : Full(born, sent)
  BY DEF Inv
<1>2. CASE Tick
  <2>1. Ticked(sent)
    BY <1>1, <1>2, TickStep DEF Full
  <2>2. PICK born2 \in Births, sent2 \in SUBSET Marks :
          /\ InvWith(born2, sent2)'
          /\ sent2 = sent \cup {Mark(p) : p \in network' \ network}
          /\ Fresh(sent)
    BY <2>1 DEF Ticked
  <2>3. profile' = profile /\ World(born, sent) /\ Sound(born, sent, jb)
    BY <1>1, <1>2 DEF Tick, Full, InvWith
  <2>4. profile.copies = 0 => Once(sent2)'
    BY <1>1, <1>2, <2>2, <2>3, TickOnce DEF Full
  <2>5. Full(born2, sent2)'
    BY <2>2, <2>3, <2>4 DEF Full
  <2> QED BY <2>5 DEF Inv
<1>3. ASSUME ~Tick PROVE Full(born, sent)'
  <2>1. ASSUME NEW p \in network, Deliver(p) PROVE Full(born, sent)'
    BY <1>1, <2>1, DeliverInv
  <2>2. ASSUME NEW p \in network, Duplicate(p) PROVE Full(born, sent)'
    BY <1>1, <2>2, DuplicateInv
  <2>3. ASSUME NEW p \in network, Lose(p) PROVE Full(born, sent)'
    BY <1>1, <2>3, LoseInv
  <2>4. ASSUME NEW ok, Pull(ok) PROVE Full(born, sent)'
    BY <1>1, <2>4, PullInv
  <2>5. CASE Close \/ \E opened \in BOOLEAN : Open(opened)
    BY <1>1, <2>5, OwnerInv
  <2>6. CASE UNCHANGED vars
    BY <1>1, <2>6, StutterInv
  <2> QED BY <1>3, <2>1, <2>2, <2>3, <2>4, <2>5, <2>6 DEF Next, Finish
<1> QED BY <1>2, <1>3 DEF Inv

\* The invariant holds always.
LEMMA AlwaysInv == Spec => []Inv
BY InitInv, NextInv, PTL DEF Spec

-------------------------------------------------------------------------------
(* What the invariant says of the properties *)

\* The frames of a sound buffer: known, of its stream, on or after the cursor, and
\* no closer to the playout position than to the cursor.
LEMMA HeldFrame ==
  ASSUME NEW born \in Births, NEW sent \in SUBSET Marks, World(born, sent),
         NEW j, Sound(born, sent, j), NEW i \in DOMAIN j.queue.slots
  PROVE  LET f == j.queue.slots[i]
         IN  /\ Distance(j.playoutTs, f.timestamp) >= Distance(j.queue.cursor, f.sequence)
             /\ DeadlineOf(j, f.timestamp) <= now + TargetDelay + profile.delay
<1> DEFINE f == j.queue.slots[i]
           n == j.streamId
           c == SequencePosition(n, j.queue.cursor)
           t == Playout(j)
<1>1. j.anchored
  BY EmptyWindow DEF Sound
<1>2. /\ Running(born, sent, j) /\ n \in Streams
      /\ Projected(born, sent, n, j.queue.cursor, j.playoutTs)
      /\ AnchoredAt(born, n, j.anchorTs, j.anchorLocal)
      /\ Windowed(sent, n, j.queue.cursor, j.queue.slots)
  BY <1>1 DEF Running, Sound
<1>3. /\ Known(sent, f) /\ f.stream = n
      /\ Mark(f).seq - c \in 0 .. Capacity - 1
  BY <1>2 DEF Windowed
<1> HIDE DEF f
<1>4. /\ f.sequence \in Serials /\ f.timestamp \in Serials
      /\ Mark(f) \in sent
      /\ Mark(f).stream = n
      /\ Mark(f).seq = SequencePosition(n, f.sequence)
      /\ Mark(f).ts = TimestampPosition(n, f.timestamp)
      /\ Mark(f).seq \in Nat /\ Mark(f).ts \in Nat
      /\ Mark(f).seq <= Mark(f).ts /\ Mark(f).ts < Half
      /\ TimeOf(born, n, Mark(f).ts) <= now
  BY <1>3, KnownFacts
<1>5. /\ j.playoutTs \in Serials /\ j.queue.cursor \in Serials
      /\ t \in Nat /\ t < Half
  BY <1>2, DueIs
<1>6. c \in Nat /\ c <= t
  BY <1>2, <1>5, PositionTypes DEF Projected, Playout
<1>7. c <= Mark(f).seq
  BY <1>3, <1>4, <1>6, ConstantFacts
<1>8. Mark(f).seq - c <= Mark(f).ts - t
  BY <1>2, <1>4, <1>7 DEF Projected, Playout
<1>9. Distance(j.queue.cursor, f.sequence) = Mark(f).seq - c
  <2>1. SequencePosition(n, f.sequence) < Half /\ c < Half
    BY <1>4, <1>5, <1>6, ConstantFacts
  <2> QED BY <1>2, <1>4, <1>5, <2>1, SequenceDistance
<1>10. Distance(j.playoutTs, f.timestamp) = Mark(f).ts - t
  BY <1>2, <1>4, <1>5, TimestampDistance DEF Playout
<1>11. DeadlineOf(j, f.timestamp) <= now + TargetDelay + profile.delay
  <2>1. /\ Lag(born, n, j) \in TargetDelay .. TargetDelay + profile.delay
        /\ DeadlineOf(j, f.timestamp) = TimeOf(born, n, Mark(f).ts) + Lag(born, n, j)
        /\ Lag(born, n, j) \in Nat
    BY <1>2, <1>4, DeadlineIs
  <2>2. now \in Nat /\ TargetDelay \in Nat /\ profile.delay \in Nat
    BY ConstantFacts DEF World, ProfileOK
  <2>3. TimeOf(born, n, Mark(f).ts) \in Nat
    BY <1>2, <1>4, TimeNat
  <2> QED BY <1>4, <2>1, <2>2, <2>3
<1>12. Distance(j.playoutTs, f.timestamp) >= Distance(j.queue.cursor, f.sequence)
  BY <1>4, <1>5, <1>6, <1>8, <1>9, <1>10
<1> QED BY <1>11, <1>12 DEF f

\* The projection playout_ts_, only ever corrected forward by peek_and_align(), is
\* never ahead of a frame that is still to be played, whatever the network and
\* the device do (jitter_buffer.cpp:264-283).
THEOREM ProjectionSafe == Spec => []ProjectionNeverAhead
<1>1. Inv => ProjectionNeverAhead
  BY HeldFrame DEF Inv, Full, InvWith, ProjectionNeverAhead
<1> QED BY <1>1, AlwaysInv, PTL

\* Anchoring and re-anchoring never build up delay: what is buffered is due within
\* the target delay plus the worst delay of the network (anchor(), deadline_for()).
THEOREM LatencySafe == Spec => []LatencyBounded
<1>1. Inv => LatencyBounded
  BY HeldFrame DEF Inv, Full, InvWith, LatencyBounded
<1> QED BY <1>1, AlwaysInv, PTL

\* While the network makes no copies no packet goes to the speaker twice, although
\* a START may pull the cursor back (jitter_buffer.cpp:172-188).
THEOREM PlayedOnceSafe == Spec => []PlayedOnce
<1>1. Inv => PlayedOnce
  BY DEF Inv, Full, Once, PlayedOnce
<1> QED BY <1>1, AlwaysInv, PTL

\* What is played is not too late, up to the horizon a single jump can catch up
\* with; and never early, where every talkspurt has its own stream.
Timely ==
  /\ WithinJump => NeverTooLate
  /\ profile.perTalkspurt => NeverEarly

\* A pull is timely.
LEMMA PullTimely ==
  ASSUME NEW born \in Births, NEW sent \in SUBSET Marks, InvWith(born, sent),
         NEW ok, Pull(ok)
  PROVE  Timely'
<1> DEFINE r == Ready(jb, now)
           f == NextFrame(r)
<1>1. World(born, sent) /\ Sound(born, sent, jb) /\ profile' = profile
  BY DEF InvWith, Pull
<1>2. CASE out'.source # "Packet"
  BY <1>2 DEF Timely, NeverTooLate, NeverEarly
<1>3. CASE /\ ~Waits(jb, now) /\ HasNext(r)
           /\ out' = [source |-> "Packet", at |-> now,
                      due |-> DeadlineOf(r, f.timestamp),
                      again |-> Id(f) \in played]
  <2>1. Running(born, sent, jb)
    BY <1>1, <1>3 DEF Running, Waits
  <2>2. /\ Aligned(r)
        /\ WithinJump => now < Due(r) + (MaxCatchup + 1) * FrameTicks
        /\ profile.perTalkspurt => Due(r) <= now
        /\ Running(born, sent, r)
    BY <1>1, <1>3, <2>1, ReadySound
  <2>3. DeadlineOf(r, f.timestamp) = Due(r)
    BY <1>3, <2>2 DEF Aligned, Due
  <2>4. Due(r) \in Nat /\ now \in Nat
    BY <1>1, <2>2, DueIs DEF World, ProfileOK
  <2> HIDE DEF r, f
  <2>5. out'.at = now /\ out'.due = Due(r)
    BY <1>3, <2>3
  <2>6. WithinJump' => WithinJump
    BY <1>1 DEF WithinJump
  <2>7. WithinJump' => NeverTooLate'
    BY <2>2, <2>5, <2>6 DEF NeverTooLate
  <2>8. profile'.perTalkspurt => NeverEarly'
    BY <1>1, <2>2, <2>4, <2>5 DEF NeverEarly
  <2> QED BY <2>7, <2>8 DEF Timely
<1> QED BY <1>2, <1>3, PullIs

\* And so is every other step.
LEMMA NextTimely == Inv /\ Timely /\ [Next]_vars => Timely'
<1> SUFFICES ASSUME Inv, Timely, [Next]_vars PROVE Timely'
  OBVIOUS
<1>1. CASE \E ok : Pull(ok)
  BY <1>1, PullTimely DEF Inv, Full
<1>2. CASE out' = NothingOut
  BY <1>2 DEF Timely, NeverTooLate, NeverEarly, NothingOut
<1>3. CASE out' = out /\ profile' = profile
  BY <1>3 DEF Timely, NeverTooLate, NeverEarly, WithinJump
<1> QED BY <1>1, <1>2, <1>3 DEF Next, Tick, Deliver, Duplicate, Receive, Lose, Close, Open,
                                Finish, vars

\* No frame goes to the speaker further behind its deadline than
\* max_catchup_frames as long as kMaxCatchupJump frames catch up with the clock,
\* and none before it where every talkspurt has its own stream
\* (jitter_buffer.cpp:302-334).
THEOREM PlayoutTimely ==
  Spec => [](Timely /\ (WithinJump /\ profile.perTalkspurt => PlayedInTime))
<1>1. Init => Timely
  BY DEF Init, Timely, NeverTooLate, NeverEarly, NothingOut
<1>2. Timely => (WithinJump /\ profile.perTalkspurt => PlayedInTime)
  BY DEF Timely, PlayedInTime
<1> QED BY <1>1, <1>2, AlwaysInv, NextTimely, PTL DEF Spec

-------------------------------------------------------------------------------
(* A path in order: no packet of the live stream is behind the cursor *)

\* Every talkspurt has its stream, and the network keeps the order, makes no copies
\* and delays less than the target.
Punctual ==
  /\ profile.perTalkspurt
  /\ profile.ordered
  /\ profile.copies = 0
  /\ profile.delay < TargetDelay

Ahead ==
  \A p \in network :
    jb.anchored /\ p.stream = jb.streamId =>
      SequencePosition(jb.streamId, jb.queue.cursor) <= Mark(p).seq

\* Where the cursor of a stream may be when its packet has been placed.
CursorAt(k, j, p) ==
  \/ k.queue.cursor = p.sequence
  \/ j.anchored /\ j.streamId = p.stream /\ k.queue.cursor = j.queue.cursor

\* Adopting a packet moves no cursor.
LEMMA AdoptCursor ==
  ASSUME NEW born \in Births, NEW sent \in SUBSET Marks, NEW j, Sound(born, sent, j),
         NEW p, NEW arrival
  PROVE  LET k == [Adopt(j, p) EXCEPT !.lastArrival = arrival]
         IN  k.anchored => j.anchored /\ j.streamId = p.stream /\ k.queue = j.queue
<1> DEFINE i == IF j.hasStream /\ p.stream # j.streamId THEN ResetStream(j) ELSE j
           k == [Adopt(j, p) EXCEPT !.lastArrival = arrival]
<1>1. BufferFields \subseteq DOMAIN j /\ (j.anchored => j.hasStream)
  BY DEF Sound
<1>2. /\ BufferFields \subseteq DOMAIN i
      /\ i.anchored => i = j /\ ~(j.hasStream /\ p.stream # j.streamId)
  BY <1>1 DEF ResetStream, BufferFields
<1>3. k = [[i EXCEPT !.hasStream = TRUE, !.streamId = p.stream] EXCEPT !.lastArrival = arrival]
  BY DEF Adopt
<1> HIDE DEF i, k
<1>4. (k.anchored <=> i.anchored) /\ k.queue = i.queue
  BY <1>2, <1>3 DEF BufferFields
<1> QED BY <1>1, <1>2, <1>4 DEF k

\* Placing a packet leaves the cursor where it is or puts it at the packet.
LEMMA PlaceCursor ==
  ASSUME NEW born \in Births, NEW sent \in SUBSET Marks, NEW p, NEW j, On(born, sent, j, p)
  PROVE  CursorAt(Place(j, p, now), j, p)
<1> DEFINE k == Place(j, p, now)
           l == [j EXCEPT !.hasEnd = FALSE]
<1>1. /\ BufferFields \subseteq DOMAIN j /\ QueueFields \subseteq DOMAIN j.queue
      /\ j.streamId = p.stream /\ (~j.anchored => j.queue = EmptyQueue)
  BY DEF On, Sound
<1>2. BufferFields \subseteq DOMAIN l /\ l.queue = j.queue
  BY <1>1 DEF BufferFields
<1>3. CASE ~j.anchored
  <2> DEFINE s == StartQ(j.queue, p.sequence)
  <2>1. k = [Anchor(j, p.timestamp, now) EXCEPT !.queue = s, !.playoutTs = p.timestamp]
    BY <1>3 DEF Place
  <2>2. s.cursor = p.sequence
    BY <1>1, <1>3, EmptyWindow DEF StartQ, QueueFields
  <2> HIDE DEF s, k
  <2>3. k.queue = s
    BY <1>1, <2>1 DEF Anchor, BufferFields
  <2> QED BY <2>2, <2>3 DEF CursorAt, k
<1>4. CASE j.anchored /\ ~p.start
  BY <1>1, <1>4 DEF Place, CursorAt
<1>5. CASE j.anchored /\ p.start /\ PrecedesOrEqual(j.queue.cursor, p.sequence)
  <2>1. k = Anchor(l, p.timestamp, now)
    BY <1>5 DEF Place
  <2> HIDE DEF l, k
  <2>2. k.queue = l.queue
    BY <1>2, <2>1 DEF Anchor, BufferFields
  <2> QED BY <1>1, <1>2, <1>5, <2>2 DEF CursorAt, k
<1>6. CASE j.anchored /\ p.start /\ ~PrecedesOrEqual(j.queue.cursor, p.sequence)
  <2>1. k = Restart(l, p, now)
    BY <1>6 DEF Place
  <2> HIDE DEF l, k
  <2>2. k.queue = ResyncQ(p.sequence)
    BY <1>2, <2>1 DEF Restart, Anchor, BufferFields
  <2>3. k.queue.cursor = p.sequence
    BY <2>2 DEF ResyncQ
  <2> QED BY <2>3 DEF CursorAt, k
<1> QED BY <1>3, <1>4, <1>5, <1>6

\* The buffer when the packet is offered to the queue.
LEMMA PreparedIs ==
  ASSUME NEW born \in Births, NEW sent \in SUBSET Marks, World(born, sent),
         NEW p, PacketOK(born, sent, p), NEW j, Sound(born, sent, j)
  PROVE  LET c == Prepared(j, p, now)
         IN  On(born, sent, c, p) /\ c.anchored /\ CursorAt(c, j, p)
<1> DEFINE a == [Adopt(j, p) EXCEPT !.lastArrival = now]
           b == Place(a, p, now)
           c == Prepared(j, p, now)
<1>1. On(born, sent, a, p)
  BY AdoptSound DEF PacketOK
<1>2. a.anchored => j.anchored /\ j.streamId = p.stream /\ a.queue = j.queue
  BY AdoptCursor
<1>3. c = NoteEnd(b, p)
  BY DEF Prepared
<1> HIDE DEF a
<1>4. On(born, sent, b, p) /\ b.anchored
  BY <1>1, PlaceSound
<1>5. CursorAt(b, a, p)
  BY <1>1, PlaceCursor
<1> HIDE DEF b, c
<1>6. On(born, sent, c, p) /\ c.anchored
  BY <1>3, <1>4, NoteEndSound
<1>7. c.queue = b.queue
  <2>1. BufferFields \subseteq DOMAIN b
    BY <1>4 DEF On, Sound
  <2> QED BY <1>3, <2>1 DEF NoteEnd, BufferFields
<1>8. CursorAt(c, j, p)
  BY <1>2, <1>5, <1>7 DEF CursorAt
<1> QED BY <1>6, <1>8 DEF c

\* insert() moves no cursor, once there is one.
LEMMA InsertedCursor ==
  ASSUME NEW j, BufferFields \subseteq DOMAIN j, QueueFields \subseteq DOMAIN j.queue,
         j.queue.started, NEW p
  PROVE  LET k == Inserted(j, p, now)
         IN  /\ k.queue.cursor = j.queue.cursor
             /\ k.streamId = j.streamId
             /\ k.anchored <=> j.anchored
<1> DEFINE k == Inserted(j, p, now)
           s == InsertQ(j.queue, FrameOf(j, p), Offer(j, p, now))
<1>1. k = [j EXCEPT !.queue = s]
  BY DEF Inserted
<1>2. s.cursor = j.queue.cursor
  BY DEF InsertQ, StartQ, Store, QueueFields
<1> HIDE DEF k, s
<1> QED BY <1>1, <1>2 DEF BufferFields, k

\* push() leaves the buffer alone, or leaves it on the stream of the packet with the
\* cursor where it was or at the packet.
LEMMA PushedCursor ==
  ASSUME NEW born \in Births, NEW sent \in SUBSET Marks, World(born, sent),
         NEW p, PacketOK(born, sent, p), NEW j, Sound(born, sent, j)
  PROVE  LET k == Pushed(j, p, now)
         IN  k = j \/ (k.streamId = p.stream /\ CursorAt(k, j, p))
<1> DEFINE k == Pushed(j, p, now)
           c == Prepared(j, p, now)
           r == Restart(c, p, now)
           d == Jumped(c, p, now)
<1>1. On(born, sent, c, p) /\ c.anchored /\ CursorAt(c, j, p)
  BY PreparedIs
<1>2. d = [r EXCEPT !.hasEnd = FALSE]
  BY DEF Jumped
<1>3. k = j \/ k = Inserted(c, p, now) \/ k = Inserted(d, p, now)
  BY DEF Pushed
<1> HIDE DEF c
<1>4. On(born, sent, r, p) /\ r.anchored
  BY <1>1, RestartSound
<1>5. r.queue.cursor = p.sequence
  <2>1. BufferFields \subseteq DOMAIN c
    BY <1>1 DEF On, Sound
  <2>2. r.queue = ResyncQ(p.sequence)
    BY <2>1 DEF Restart, Anchor, BufferFields
  <2> HIDE DEF r
  <2> QED BY <2>2 DEF ResyncQ
<1> HIDE DEF r, d
<1>6. /\ BufferFields \subseteq DOMAIN d /\ d.queue = r.queue /\ d.streamId = r.streamId
  BY <1>2, <1>4 DEF On, Sound, BufferFields
<1>7. /\ QueueFields \subseteq DOMAIN d.queue /\ d.queue.started
      /\ d.queue.cursor = p.sequence /\ d.streamId = p.stream
  BY <1>4, <1>5, <1>6 DEF On, Sound
<1>8. /\ BufferFields \subseteq DOMAIN c /\ QueueFields \subseteq DOMAIN c.queue
      /\ c.queue.started /\ c.streamId = p.stream
  BY <1>1 DEF On, Sound
<1>9. CASE k = Inserted(c, p, now)
  <2>1. k.queue.cursor = c.queue.cursor /\ k.streamId = c.streamId
    BY <1>8, <1>9, InsertedCursor
  <2> HIDE DEF k
  <2> QED BY <1>1, <1>8, <2>1 DEF CursorAt, k
<1>10. CASE k = Inserted(d, p, now)
  <2>1. k.queue.cursor = d.queue.cursor /\ k.streamId = d.streamId
    BY <1>6, <1>7, <1>10, InsertedCursor
  <2> HIDE DEF k
  <2> QED BY <1>7, <2>1 DEF CursorAt, k
<1> QED BY <1>3, <1>9, <1>10

\* What happens less than a frame time after is no later in the stream.
LEMMA TimeOrder ==
  ASSUME NEW born \in Births, NEW n \in Streams, NEW x \in Nat, NEW y \in Nat,
         TimeOf(born, n, x) < TimeOf(born, n, y) + FrameTicks
  PROVE  x <= y
<1>1. FrameTicks \in Nat /\ FrameTicks > 0 /\ born[n] \in Nat
  BY ConstantFacts DEF Births
<1>2. born[n] + FrameTicks * x < born[n] + FrameTicks * y + FrameTicks
  BY DEF TimeOf
<1>3. ASSUME y < x PROVE FALSE
  <2>1. y + 1 <= x
    BY <1>3
  <2>2. FrameTicks * (y + 1) <= FrameTicks * x /\ FrameTicks * x \in Int
    BY <1>1, <2>1, TicksMonotone
  <2>3. FrameTicks * (y + 1) = FrameTicks * y + FrameTicks * 1 /\ FrameTicks * y \in Int
    BY <1>1, TicksAdd
  <2>4. FrameTicks * 1 = FrameTicks
    BY <1>1
  <2> QED BY <1>1, <1>2, <2>2, <2>3, <2>4
<1> QED BY <1>3

\* What was sent no earlier is no earlier in its stream.
LEMMA SentOrder ==
  ASSUME NEW born \in Births, NEW sent \in SUBSET Marks, World(born, sent),
         NEW p, PacketOK(born, sent, p), NEW q, PacketOK(born, sent, q),
         p.stream = q.stream, p.sent <= q.sent, profile.perTalkspurt
  PROVE  Mark(p).seq <= Mark(q).seq
<1>1. /\ p.stream \in Streams /\ Mark(p).ts \in Nat /\ Mark(p).seq = Mark(p).ts
      /\ Mark(q).ts \in Nat /\ Mark(q).seq = Mark(q).ts
  BY KnownFacts DEF PacketOK
<1>2. /\ p.sent = TimeOf(born, p.stream, Mark(p).ts)
      /\ q.sent = TimeOf(born, p.stream, Mark(q).ts)
  BY DEF PacketOK
<1>3. TimeOf(born, p.stream, Mark(p).ts) \in Nat /\ TimeOf(born, p.stream, Mark(q).ts) \in Nat
  BY <1>1, TimeNat
<1>4. TimeOf(born, p.stream, Mark(p).ts) < TimeOf(born, p.stream, Mark(q).ts) + FrameTicks
  BY <1>2, <1>3, ConstantFacts
<1>5. Mark(p).ts <= Mark(q).ts
  BY <1>1, <1>4, TimeOrder
<1> QED BY <1>1, <1>5

\* The deadline of a packet is the target delay or more after it was sent: it is
\* still to come while the packet is in flight.
LEMMA NotYetDue ==
  ASSUME NEW born \in Births, NEW sent \in SUBSET Marks, World(born, sent),
         NEW p, PacketOK(born, sent, p), profile.delay < TargetDelay,
         NEW j, Running(born, sent, j), j.streamId = p.stream
  PROVE  /\ now < DeadlineOf(j, p.timestamp)
         /\ DeadlineOf(j, p.timestamp) \in Nat
<1>1. /\ p.stream \in Streams /\ p.timestamp \in Serials /\ Mark(p).ts \in Nat
      /\ Mark(p).ts = TimestampPosition(p.stream, p.timestamp) /\ Mark(p).ts < Half
  BY KnownFacts DEF PacketOK
<1>2. AnchoredAt(born, p.stream, j.anchorTs, j.anchorLocal)
  BY DEF Running, Sound
<1>3. /\ Lag(born, p.stream, j) \in TargetDelay .. TargetDelay + profile.delay
      /\ Lag(born, p.stream, j) \in Nat
      /\ DeadlineOf(j, p.timestamp) = TimeOf(born, p.stream, Mark(p).ts) + Lag(born, p.stream, j)
      /\ DeadlineOf(j, p.timestamp) \in Nat
  BY <1>1, <1>2, DeadlineIs
<1>4. TimeOf(born, p.stream, Mark(p).ts) \in Nat
  BY <1>1, TimeNat
<1>5. /\ now <= TimeOf(born, p.stream, Mark(p).ts) + profile.delay
      /\ now \in Nat /\ profile.delay \in Nat /\ TargetDelay \in Nat
  BY ConstantFacts DEF PacketOK, World, ProfileOK
<1> QED BY <1>3, <1>4, <1>5

\* What a tick does on the wire: nothing, or one packet of the talker's stream or of
\* the next one.
Silent ==
  /\ network' = network
  /\ talker'.stream = talker.stream
  /\ talker'.talking <=> talker.talking
  /\ NextSeq(talker') = NextSeq(talker)

Sends(p) ==
  /\ network' = network \cup {p}
  /\ p.sent = now'
  /\ p.stream = talker'.stream
  /\ NextSeq(talker') = Mark(p).seq + 1
  /\ p.oversized \in profile.oversize
  /\ p.end <=> ~talker'.talking
  /\ \/ /\ talker'.stream = talker.stream /\ talker.stream # 0 /\ talker.talking
        /\ Mark(p).seq = NextSeq(talker) /\ ~p.start
     \/ /\ talker'.stream = talker.stream + 1 /\ ~talker.talking /\ talker'.talking
        /\ Mark(p).seq = 0 /\ p.start

\* Every tick is one of the two, where every talkspurt has its stream.
LEMMA TickSends ==
  ASSUME NEW born \in Births, NEW sent \in SUBSET Marks, World(born, sent), Tick,
         profile.perTalkspurt
  PROVE  Silent \/ \E p : Sends(p)
<1>1. Ticking /\ TalkerOK(born) /\ talker \in Talkers
  BY DEF Tick, Ticking, World, TalkerOK, Talkers
<1>2. CASE UNCHANGED <<talker, network>>
  BY <1>2 DEF Silent
<1>3. CASE Quiet
  <2>1. talker'.stream = talker.stream /\ talker'.sequence = talker.sequence
        /\ (talker'.talking <=> talker.talking) /\ network' = network
    BY <1>1, <1>3 DEF Quiet, Talkers
  <2> QED BY <2>1 DEF Silent, NextSeq
<1>4. CASE FrameBoundary /\ talker.talking /\ \E end \in {budget.sends = 1, TRUE} : Emit(talker, FALSE, end)
  <2>1. PICK end : end \in BOOLEAN /\ Emit(talker, FALSE, end)
    BY <1>4
  <2>2. talker.stream # 0
    BY <1>1, <1>4 DEF TalkerOK
  <2>3. talker.stream \in Streams
    BY <1>1, <2>2, NextTypes
  <2>4. TimeOf(born, talker.stream, NextTs(talker)) <= now + 1
    BY <1>1, <1>4, <2>2, BoundaryIs DEF Ticking, World, ProfileOK
  <2>5. NextSeq(talker) + 1 < Half /\ NextTs(talker) + 1 < Half
    BY <1>1, <2>2, <2>4, NextBounded
  <2>6. PICK t : t = talker
    OBVIOUS
  <2>7. /\ t \in Talkers /\ t.stream \in Streams /\ NextSeq(t) + 1 < Half /\ NextTs(t) + 1 < Half
        /\ Emit(t, FALSE, end)
    BY <1>1, <2>1, <2>3, <2>5, <2>6
  <2>8. /\ talker'.stream = t.stream
        /\ NextSeq(talker') = NextSeq(t) + 1
        /\ talker'.talking <=> ~end
        /\ \E p : /\ network' = network \cup {p}
                  /\ p.sent = now'
                  /\ Mark(p) = Mark(t) /\ p.stream = t.stream
                  /\ p.start = FALSE /\ (p.end <=> end) /\ p.oversized \in profile.oversize
    <3>1. CASE end = TRUE
      <4>1. Emit(t, FALSE, TRUE)
        BY <2>7, <3>1
      <4> QED BY <2>7, <3>1, <4>1, EmitIs
    <3>2. CASE end = FALSE
      <4>1. Emit(t, FALSE, FALSE)
        BY <2>7, <3>2
      <4> QED BY <2>7, <3>2, <4>1, EmitIs
    <3> QED BY <2>1, <3>1, <3>2
  <2>9. PICK p : /\ network' = network \cup {p}
                 /\ p.sent = now'
                 /\ Mark(p) = Mark(t) /\ p.stream = t.stream
                 /\ p.start = FALSE /\ (p.end <=> end) /\ p.oversized \in profile.oversize
    BY <2>8
  <2>10. Mark(t).seq = NextSeq(t)
    BY DEF Mark, NextSeq
  <2>11. Sends(p)
    BY <1>4, <2>2, <2>6, <2>8, <2>9, <2>10 DEF Sends
  <2> QED BY <2>11
<1>5. CASE FrameBoundary /\ ~talker.talking /\ Emit(Opening, TRUE, FALSE)
           /\ (profile.perTalkspurt => talker.stream < MaxStreams)
  <2>1. PICK n : n = talker.stream + 1
    OBVIOUS
  <2>2. n \in Streams
    BY <1>1, <1>5, <2>1, ConstantFacts DEF Streams, Talkers
  <2>3. PICK t : t = Opening
    OBVIOUS
  <2>4. t = [talker EXCEPT !.stream = n, !.sequence = FirstSequence[n],
                           !.timestamp = FirstTimestamp[n], !.talking = TRUE]
    BY <2>1, <2>3 DEF Opening
  <2>5. FirstSequence[n] \in Serials /\ FirstTimestamp[n] \in Serials /\ n \in 0 .. MaxStreams
    BY <2>2, ConstantFacts DEF Streams
  <2>6. /\ t \in Talkers /\ t.stream = n /\ t.sequence = FirstSequence[n]
        /\ t.timestamp = FirstTimestamp[n]
    BY <1>1, <2>4, <2>5 DEF Talkers
  <2>7. Emit(t, TRUE, FALSE)
    BY <1>5, <2>3
  <2>8. NextSeq(t) = 0 /\ NextTs(t) = 0
    BY <2>2, <2>6, FirstPosition DEF NextSeq, NextTs
  <2>9. NextSeq(t) + 1 < Half /\ NextTs(t) + 1 < Half
    BY <2>8, ConstantFacts
  <2>10. /\ talker'.stream = t.stream
         /\ NextSeq(talker') = NextSeq(t) + 1
         /\ talker'.talking <=> ~FALSE
         /\ \E p : /\ network' = network \cup {p}
                   /\ p.sent = now'
                   /\ Mark(p) = Mark(t) /\ p.stream = t.stream
                   /\ p.start = TRUE /\ ~p.end /\ p.oversized \in profile.oversize
    BY <2>2, <2>6, <2>7, <2>9, EmitIs
  <2>11. PICK p : /\ network' = network \cup {p}
                  /\ p.sent = now'
                  /\ Mark(p) = Mark(t) /\ p.stream = t.stream
                  /\ p.start = TRUE /\ ~p.end /\ p.oversized \in profile.oversize
    BY <2>10
  <2>12. Mark(t).seq = NextSeq(t)
    BY DEF Mark, NextSeq
  <2>13. Sends(p)
    BY <1>5, <2>1, <2>6, <2>8, <2>10, <2>11, <2>12 DEF Sends
  <2> QED BY <2>13
<1> QED BY <1>2, <1>3, <1>4, <1>5 DEF Tick, Talk

\* A timeline that is due is not past what is still in flight.
LEMMA DueAhead ==
  ASSUME NEW born \in Births, NEW sent \in SUBSET Marks, World(born, sent),
         NEW p, PacketOK(born, sent, p), profile.delay < TargetDelay, profile.perTalkspurt,
         NEW j, Running(born, sent, j), j.streamId = p.stream, Due(j) <= now + FrameTicks
  PROVE  SequencePosition(j.streamId, j.queue.cursor) <= Mark(p).seq
<1> DEFINE n == j.streamId
           lag == Lag(born, n, j)
           x == Playout(j)
           y == Mark(p).ts
<1>1. /\ n \in Streams /\ x \in Nat /\ lag \in Nat
      /\ Due(j) = TimeOf(born, n, x) + lag
  BY DueIs
<1>2. /\ p.timestamp \in Serials /\ y \in Nat /\ y < Half
      /\ y = TimestampPosition(n, p.timestamp) /\ Mark(p).seq = y
  BY KnownFacts DEF PacketOK
<1>3. SequencePosition(n, j.queue.cursor) = x
  BY DEF Running, Sound, Projected, Playout
<1>4. now < DeadlineOf(j, p.timestamp)
  BY NotYetDue
<1>5. DeadlineOf(j, p.timestamp) = TimeOf(born, n, y) + lag
  <2>1. AnchoredAt(born, n, j.anchorTs, j.anchorLocal)
    BY DEF Running, Sound
  <2> QED BY <1>1, <1>2, <2>1, DeadlineIs
<1>6. now \in Nat /\ FrameTicks \in Nat
  BY ConstantFacts DEF World, ProfileOK
<1>7. TimeOf(born, n, y) \in Nat /\ TimeOf(born, n, x) \in Nat
  BY <1>1, <1>2, TimeNat
<1> HIDE DEF n, lag, x, y
<1>8. TimeOf(born, n, x) < TimeOf(born, n, y) + FrameTicks
  BY <1>1, <1>4, <1>5, <1>6, <1>7
<1>9. x <= y
  BY <1>1, <1>2, <1>8, TimeOrder
<1> QED BY <1>2, <1>3, <1>9 DEF n

\* A tick puts nothing behind the cursor.
LEMMA TickAhead ==
  ASSUME NEW born \in Births, NEW sent \in SUBSET Marks, InvWith(born, sent), Tick,
         Punctual, Ahead
  PROVE  Ahead'
<1>1. World(born, sent) /\ Sound(born, sent, jb) /\ jb' = jb /\ profile.perTalkspurt
  BY DEF InvWith, Tick, Punctual
<1>2. SUFFICES ASSUME NEW p \in network', jb.anchored, p.stream = jb.streamId
               PROVE  SequencePosition(jb.streamId, jb.queue.cursor) <= Mark(p).seq
  BY <1>1 DEF Ahead
<1>3. CASE p \in network
  BY <1>2, <1>3 DEF Ahead
<1>4. CASE Sends(p)
  <2>1. Running(born, sent, jb)
    BY <1>1, <1>2 DEF Running
  <2>2. /\ jb.streamId \in Streams /\ Playout(jb) \in Nat
        /\ jb.streamId <= talker.stream
        /\ SequencePosition(jb.streamId, jb.queue.cursor) = Playout(jb)
        /\ TimeOf(born, jb.streamId, Playout(jb)) <= now + FrameTicks
    BY <1>1, <2>1, DueIs DEF Running, Sound, Projected, Playout
  <2>3. /\ talker \in Talkers /\ TalkerOK(born) /\ Ticking
        /\ now \in Nat /\ FrameTicks \in Nat
    BY <1>1, ConstantFacts DEF World, TalkerOK, Talkers, ProfileOK, Tick, Ticking
  <2>4. talker'.stream # talker.stream + 1
    BY <1>2, <1>4, <2>2, <2>3, ConstantFacts DEF Sends, Streams, Talkers
  <2>5. /\ talker.stream # 0 /\ talker.talking /\ jb.streamId = talker.stream
        /\ Mark(p).seq = NextSeq(talker)
    BY <1>2, <1>4, <2>4 DEF Sends
  <2>6. NextSeq(talker) \in Nat /\ NextTs(talker) \in Nat
    BY <2>3, <2>5, NextTypes
  <2>7. NextSeq(talker) = NextTs(talker)
    BY <1>1, <2>3, <2>5 DEF TalkerOK
  <2>8. now < TimeOf(born, talker.stream, NextTs(talker))
    BY <2>3, <2>5 DEF TalkerOK
  <2>9. /\ TimeOf(born, talker.stream, NextTs(talker)) \in Nat
        /\ TimeOf(born, talker.stream, Playout(jb)) \in Nat
    BY <2>2, <2>5, <2>6, TimeNat
  <2>10. TimeOf(born, talker.stream, Playout(jb))
           < TimeOf(born, talker.stream, NextTs(talker)) + FrameTicks
    BY <2>2, <2>3, <2>5, <2>8, <2>9
  <2>11. Playout(jb) <= NextTs(talker)
    BY <2>2, <2>5, <2>6, <2>10, TimeOrder
  <2> QED BY <2>2, <2>5, <2>7, <2>11
<1>5. p \in network \/ Sends(p)
  <2>1. Silent \/ \E q : Sends(q)
    BY <1>1, TickSends
  <2> QED BY <1>2, <2>1 DEF Silent, Sends
<1> QED BY <1>3, <1>4, <1>5

\* A pull passes nothing that is in flight.
LEMMA PullAhead ==
  ASSUME NEW born \in Births, NEW sent \in SUBSET Marks, InvWith(born, sent),
         NEW ok, Pull(ok), Punctual, Ahead
  PROVE  Ahead'
<1>1. /\ World(born, sent) /\ Sound(born, sent, jb) /\ network' = network
      /\ profile.perTalkspurt /\ profile.delay < TargetDelay
  BY DEF InvWith, Pull, Punctual
<1>2. PICK k : k = Pulled(jb, now, ok)
  OBVIOUS
<1>3. jb' = k
  BY <1>2 DEF Pull
<1>4. SUFFICES ASSUME NEW p \in network, k.anchored, p.stream = k.streamId
               PROVE  SequencePosition(k.streamId, k.queue.cursor) <= Mark(p).seq
  BY <1>1, <1>3 DEF Ahead
<1>5. CASE ~jb.open \/ ~jb.anchored
  <2>1. k = jb
    BY <1>2, <1>5 DEF Pulled
  <2> QED BY <1>4, <2>1 DEF Ahead
<1>6. CASE jb.open /\ jb.anchored /\ Waits(jb, now)
  <2>1. k = Align(jb)
    BY <1>2, <1>6 DEF Pulled
  <2>2. k.queue = jb.queue /\ k.streamId = jb.streamId
    BY <1>1, <1>6, <2>1, AlignSound DEF Running, SameAnchor
  <2> QED BY <1>4, <1>6, <2>2 DEF Ahead
<1>7. CASE jb.open /\ jb.anchored /\ ~Waits(jb, now)
  <2>1. PICK r : r = Ready(jb, now)
    OBVIOUS
  <2>2. /\ Running(born, sent, r) /\ Due(r) <= now
        /\ TimeOf(born, r.streamId, Playout(r)) <= now
    BY <1>1, <1>7, <2>1, ReadySound DEF Running
  <2>3. PICK run : k = Stepped(r, run)
    BY <1>2, <1>7, <2>1 DEF Pulled
  <2>4. Running(born, sent, k) /\ Due(k) = Due(r) + FrameTicks
    BY <1>1, <2>2, <2>3, SteppedIs
  <2>5. Due(k) <= now + FrameTicks
    BY <1>1, <2>2, <2>4, DueIs, ConstantFacts DEF World, ProfileOK
  <2>6. PacketOK(born, sent, p)
    BY <1>1, <1>4 DEF World
  <2> QED BY <1>1, <1>4, <2>4, <2>5, <2>6, DueAhead
<1> QED BY <1>5, <1>6, <1>7

\* Nor does a packet that arrives in order.
LEMMA DeliverAhead ==
  ASSUME NEW born \in Births, NEW sent \in SUBSET Marks, InvWith(born, sent),
         NEW p \in network, Deliver(p), Punctual, Ahead
  PROVE  Ahead'
<1>1. /\ World(born, sent) /\ Sound(born, sent, jb) /\ network' = network \ {p}
      /\ profile.perTalkspurt /\ \A q \in network : p.sent <= q.sent
  BY DEF InvWith, Deliver, Punctual
<1>2. PICK k : k = Pushed(jb, p, now)
  OBVIOUS
<1>3. jb' = k
  BY <1>2 DEF Deliver, Receive
<1>4. SUFFICES ASSUME NEW q \in network, k.anchored, q.stream = k.streamId
               PROVE  SequencePosition(k.streamId, k.queue.cursor) <= Mark(q).seq
  BY <1>1, <1>3 DEF Ahead
<1>5. PacketOK(born, sent, p) /\ PacketOK(born, sent, q)
  BY <1>1, <1>4 DEF World
<1>6. k = jb \/ (k.streamId = p.stream /\ CursorAt(k, jb, p))
  BY <1>1, <1>2, <1>5, PushedCursor
<1>7. CASE k = jb
  BY <1>4, <1>7 DEF Ahead
<1>8. CASE k.streamId = p.stream /\ k.queue.cursor = p.sequence
  <2>1. Mark(p).seq = SequencePosition(p.stream, p.sequence)
    BY DEF Mark
  <2> QED BY <1>1, <1>4, <1>5, <1>8, <2>1, SentOrder
<1>9. CASE k.streamId = p.stream /\ jb.anchored /\ jb.streamId = p.stream
           /\ k.queue.cursor = jb.queue.cursor
  BY <1>4, <1>9 DEF Ahead
<1> QED BY <1>6, <1>7, <1>8, <1>9 DEF CursorAt

\* What the queue says of a packet that arrives in order and before its deadline.
LEMMA OfferInTime ==
  ASSUME NEW born \in Births, NEW sent \in SUBSET Marks, InvWith(born, sent),
         NEW p \in network, Punctual, Ahead
  PROVE  LET c == Prepared(jb, p, now)
         IN  /\ On(born, sent, c, p) /\ c.anchored /\ CursorAt(c, jb, p)
             /\ Distance(c.queue.cursor, p.sequence)
                  = Mark(p).seq - SequencePosition(p.stream, c.queue.cursor)
             /\ SequencePosition(p.stream, c.queue.cursor) <= Mark(p).seq
             /\ ~(now > DeadlineOf(c, p.timestamp))
             /\ Offer(c, p, now) \notin {"Late", "TooOld"}
<1>1. World(born, sent) /\ Sound(born, sent, jb) /\ profile.delay < TargetDelay
  BY DEF InvWith, Punctual
<1>2. PacketOK(born, sent, p)
  BY <1>1 DEF World
<1>3. PICK c : c = Prepared(jb, p, now)
  OBVIOUS
<1>4. On(born, sent, c, p) /\ c.anchored /\ CursorAt(c, jb, p)
  BY <1>1, <1>2, <1>3, PreparedIs
<1>5. /\ p.stream \in Streams /\ p.sequence \in Serials /\ p.timestamp \in Serials
      /\ Mark(p).seq = SequencePosition(p.stream, p.sequence)
      /\ Mark(p).seq \in Nat /\ Mark(p).ts \in Nat /\ Mark(p).seq <= Mark(p).ts
      /\ Mark(p).ts < Half
  BY <1>1, <1>2, KnownFacts DEF PacketOK
<1>6. /\ Running(born, sent, c) /\ c.streamId = p.stream /\ c.queue.started
      /\ c.queue.cursor \in Serials
  BY <1>4 DEF On, Running, Sound, Projected
<1>7. SequencePosition(p.stream, c.queue.cursor) <= Mark(p).seq
  BY <1>4, <1>5 DEF CursorAt, Ahead
<1>8. SequencePosition(p.stream, c.queue.cursor) \in Nat
  BY <1>5, <1>6, PositionTypes
<1>9. Distance(c.queue.cursor, p.sequence) = Mark(p).seq - SequencePosition(p.stream, c.queue.cursor)
  BY <1>5, <1>6, <1>7, <1>8, SequenceDistance, ConstantFacts
<1>10. ~(now > DeadlineOf(c, p.timestamp))
  <2>1. now < DeadlineOf(c, p.timestamp) /\ DeadlineOf(c, p.timestamp) \in Nat
    BY <1>1, <1>2, <1>6, NotYetDue
  <2>2. now \in Nat
    BY <1>1 DEF World, ProfileOK
  <2> QED BY <2>1, <2>2
<1>11. Offer(c, p, now) \notin {"Late", "TooOld"}
  <2>1. FrameOf(c, p).sequence = p.sequence /\ FrameOf(c, p).deadline = DeadlineOf(c, p.timestamp)
    BY DEF FrameOf
  <2>2. StartQ(c.queue, FrameOf(c, p).sequence) = c.queue
    BY <1>6 DEF StartQ
  <2>3. ~(Distance(c.queue.cursor, p.sequence) < 0)
    BY <1>5, <1>7, <1>8, <1>9
  <2> QED BY <1>10, <2>1, <2>2, <2>3 DEF Offer, InsertVerdict
<1> QED BY <1>3, <1>4, <1>7, <1>9, <1>10, <1>11

InTime ==
  Punctual => Ahead /\ verdict.result \notin {"Late", "TooOld"}

\* Nothing on such a path is called late.
LEMMA NextInTime == Inv /\ InTime /\ [Next]_vars => InTime'
<1> SUFFICES ASSUME Inv, InTime, [Next]_vars, Punctual'
             PROVE  Ahead' /\ verdict'.result \notin {"Late", "TooOld"}
  BY DEF InTime
<1>1. PICK born \in Births, sent \in SUBSET Marks : Full(born, sent)
  BY DEF Inv
<1>2. InvWith(born, sent)
  BY <1>1 DEF Full
<1>3. profile' = profile
  BY DEF Next, Tick, Deliver, Duplicate, Receive, Lose, Pull, Close, Open, Finish, vars
<1>4. Punctual /\ Ahead /\ verdict.result \notin {"Late", "TooOld"}
  BY <1>3 DEF Punctual, InTime
<1>5. CASE Tick
  <2>1. verdict' = verdict
    BY <1>5 DEF Tick
  <2> QED BY <1>2, <1>4, <1>5, <2>1, TickAhead
<1>6. ASSUME NEW p \in network, Deliver(p)
      PROVE  Ahead' /\ verdict'.result \notin {"Late", "TooOld"}
  <2>1. Offer(Prepared(jb, p, now), p, now) \notin {"Late", "TooOld"}
    BY <1>2, <1>4, <1>6, OfferInTime
  <2>2. PushVerdict(jb, p, now) \notin {"Late", "TooOld"}
    BY <2>1 DEF PushVerdict
  <2>3. verdict'.result = PushVerdict(jb, p, now)
    BY <1>6 DEF Deliver, Receive
  <2> QED BY <1>2, <1>4, <1>6, <2>2, <2>3, DeliverAhead
<1>7. ASSUME NEW p \in network, Duplicate(p) PROVE FALSE
  <2>1. budget.copies = 0
    BY <1>1, <1>4 DEF Full, Once, Punctual
  <2> QED BY <1>7, <2>1 DEF Duplicate
<1>8. ASSUME NEW p \in network, Lose(p)
      PROVE  Ahead' /\ verdict'.result \notin {"Late", "TooOld"}
  <2>1. network' \subseteq network /\ jb' = jb /\ verdict' = verdict
    BY <1>8 DEF Lose
  <2> QED BY <1>4, <2>1 DEF Ahead
<1>9. ASSUME NEW ok, Pull(ok)
      PROVE  Ahead' /\ verdict'.result \notin {"Late", "TooOld"}
  <2>1. verdict' = verdict
    BY <1>9 DEF Pull
  <2> QED BY <1>2, <1>4, <1>9, <2>1, PullAhead
<1>10. CASE Close \/ \E opened \in BOOLEAN : Open(opened)
  <2>1. ~jb'.anchored /\ verdict' = verdict
    BY <1>10 DEF Close, Open, OpenBuffer, ClosedBuffer
  <2> QED BY <1>4, <2>1 DEF Ahead
<1>11. CASE UNCHANGED vars
  BY <1>4, <1>11 DEF vars, Ahead
<1> QED BY <1>5, <1>6, <1>7, <1>8, <1>9, <1>10, <1>11 DEF Next, Finish

\* Where every talkspurt has its stream and the network keeps the order, copies
\* nothing and delays less than the target, push() calls no packet late, whatever
\* is lost, stalls or is closed: so LateMeansLate holds (jitter_buffer.cpp:125-240).
THEOREM NothingLate ==
  Spec => [](Punctual => verdict.result \notin {"Late", "TooOld"} /\ LateMeansLate)
<1>1. Init => InTime
  BY DEF Init, InTime, Ahead
<1>2. InTime => (Punctual => verdict.result \notin {"Late", "TooOld"} /\ LateMeansLate)
  BY DEF InTime, LateMeansLate
<1> QED BY <1>1, <1>2, AlwaysInv, NextInTime, PTL DEF Spec

-------------------------------------------------------------------------------
(* The environment the buffer is built for: nothing vanishes, nothing is invented *)

\* Beside what Covered and Punctual say, the buffer may be a frame behind without a
\* jump, its window holds what the target delay and the network's keep waiting,
\* and the decoder decodes what it is given.
BuiltFor ==
  /\ Covered
  /\ Punctual
  /\ MaxCatchup >= 1
  /\ FrameTicks + TargetDelay + profile.delay <= FrameTicks * Capacity
  /\ \A ok \in profile.decoders : "decode" \in ok

\* Nobody may fail any more, and the packets in flight are whole and in order: the
\* stream of the buffer or a later one, which starts with its START.
Calm ==
  /\ jb.open
  /\ {"copies", "stalls", "sends", "lost", "closes"} \subseteq DOMAIN budget
  /\ budget.lost = 0 /\ budget.stalls = 0 /\ budget.closes = 0
  /\ jb.hasStream <=> jb.anchored

Plain(p) == (p.start <=> Mark(p).seq = 0) /\ ~p.oversized

Orderly ==
  /\ \A p \in network : Plain(p)
  /\ \A p \in network : jb.hasStream =>
       /\ jb.streamId <= p.stream
       /\ p.stream = jb.streamId => Mark(p).seq > 0
  /\ \A p, q \in network : p.stream < q.stream => p.sent < q.sent

\* Every packet sent is of an earlier stream, in flight, held or played.
Accounted(n, s) ==
  \/ jb.hasStream /\ n < jb.streamId
  \/ \E p \in network : p.stream = n /\ p.sequence = s
  \/ jb.hasStream /\ n = jb.streamId /\ <<n, s>> \in HeldIds(jb) \cup played

Whole(sent) ==
  \A n \in Streams, s \in Serials : WasSent(sent, <<n, s>>) => Accounted(n, s)

\* The marks of a stream have no holes, and go up to the talker.
Marked(sent, n, k) == \E m \in sent : m.stream = n /\ m.seq = k

Dense(sent) ==
  /\ \A m \in sent : \A k \in 0 .. m.seq : Marked(sent, m.stream, k)
  /\ talker.stream # 0 => NextSeq(talker) > 0 /\ Marked(sent, talker.stream, NextSeq(talker) - 1)

\* `b` is the last frame time: everything in flight was sent by then, and the
\* timeline is due after it, or within the frame time before it if this frame time's
\* pull is still to come.
OnTime(b) ==
  /\ b % FrameTicks = 0
  /\ b <= now /\ now < b + FrameTicks
  /\ \A p \in network : p.sent <= b
  /\ jb.anchored => b < Due(jb) + FrameTicks /\ (pulled => b < Due(jb))

\* A stream that is over has its END in flight, or known to the buffer.
Over(n) == n < talker.stream \/ (n = talker.stream /\ ~talker.talking)

Last(sent, n, k) == \A m \in sent : m.stream = n => m.seq <= k

EndKnown(sent, n) ==
  \/ \E p \in network : p.stream = n /\ p.end /\ Last(sent, n, Mark(p).seq)
  \/ jb.hasStream /\ n < jb.streamId
  \/ /\ jb.hasStream /\ n = jb.streamId /\ jb.hasEnd
     /\ Last(sent, n, SequencePosition(n, jb.endSequence))

Ends(sent) ==
  /\ \A n \in Streams : Over(n) => EndKnown(sent, n)
  /\ jb.hasEnd => /\ jb.hasStream /\ jb.endSequence \in Serials
                  /\ WasSent(sent, <<jb.streamId, jb.endSequence>>)

\* What was played is behind the cursor.
Behindhand ==
  \A n, s : <<n, s>> \in played =>
    /\ jb.hasStream
    /\ \/ n < jb.streamId
       \/ /\ n = jb.streamId
          /\ SequencePosition(n, s) < SequencePosition(n, jb.queue.cursor)

Steady(sent) ==
  /\ Calm
  /\ Orderly
  /\ Whole(sent)
  /\ Dense(sent)
  /\ \E b \in Nat : OnTime(b)
  /\ Ends(sent)
  /\ Behindhand
  /\ out.source # "Concealment"

Settled(born, sent) == Full(born, sent) /\ Once(sent) /\ BuiltFor /\ Steady(sent) /\ Ahead

\* What that says of the environment.
LEMMA BuiltForIs ==
  ASSUME BuiltFor, ProfileOK
  PROVE  /\ profile.perTalkspurt /\ profile.ordered /\ profile.copies = 0
         /\ profile.lost = 0 /\ profile.stalls = 0 /\ profile.closes = 0
         /\ profile.delay < TargetDelay /\ profile.delay \in Nat
         /\ \A o \in profile.oversize : ~o
<1>1. profile \in Profiles
  BY DEF ProfileOK
<1>2. /\ profile.delay \in Nat /\ profile.lost \in Nat /\ profile.copies \in Nat
      /\ profile.stalls \in Nat /\ profile.closes \in Nat
      /\ profile.oversize \subseteq BOOLEAN
  BY <1>1, NetworkAssumption
<1>3. /\ profile.perTalkspurt /\ profile.ordered /\ profile.copies = 0
      /\ profile.delay < TargetDelay /\ TRUE \notin profile.oversize
      /\ profile.lost + profile.copies + profile.stalls + profile.closes = 0
  BY DEF BuiltFor, Punctual, Covered
<1>4. profile.lost = 0 /\ profile.stalls = 0 /\ profile.closes = 0
  BY <1>2, <1>3
<1>5. \A o \in profile.oversize : ~o
  BY <1>2, <1>3
<1> QED BY <1>2, <1>3, <1>4, <1>5

\* The identity of a mark.
LEMMA MarkedIs ==
  ASSUME NEW sent, NEW n, NEW s
  PROVE  WasSent(sent, <<n, s>>) <=> Marked(sent, n, SequencePosition(n, s))
BY DEF WasSent, Marked

\* A sequence number is known by its position.
LEMMA SamePosition ==
  ASSUME NEW n \in Streams, NEW s \in Serials, NEW t \in Serials,
         SequencePosition(n, s) = SequencePosition(n, t)
  PROVE  s = t
BY PositionInverse, ConstantFacts DEF SequencePosition

\* A tick leaves the buffer alone, and moves on with a device that has pulled.
LEMMA TickClock ==
  ASSUME NEW born \in Births, NEW sent \in SUBSET Marks, Settled(born, sent), Tick
  PROVE  Calm' /\ \E b \in Nat : OnTime(b)'
<1>1. /\ World(born, sent) /\ Sound(born, sent, jb) /\ jb' = jb /\ now' = now + 1
      /\ Calm /\ now \in Nat /\ FrameTicks \in Nat /\ FrameTicks > 0
  BY ConstantFacts DEF Settled, Steady, Full, InvWith, Tick, World, ProfileOK
<1>2. PICK b \in Nat : OnTime(b)
  BY DEF Settled, Steady
<1>3. b % FrameTicks = 0 /\ b <= now /\ now < b + FrameTicks /\ \A p \in network : p.sent <= b
  BY <1>2 DEF OnTime
<1>4. jb.anchored => Due(jb) \in Nat
  BY <1>1, DueIs DEF Running
<1>5. CASE ~FrameBoundary
  <2>1. UNCHANGED <<network, budget, pulled>>
    BY <1>5 DEF Tick
  <2>2. (b + FrameTicks) % FrameTicks = 0
    BY <1>3, WholeFrames
  <2>3. now + 1 # b + FrameTicks
    BY <1>1, <1>5, <2>2 DEF FrameBoundary
  <2>4. b <= now + 1 /\ now + 1 < b + FrameTicks
    BY <1>1, <1>2, <1>3, <2>3
  <2>5. OnTime(b)'
    BY <1>1, <1>2, <2>1, <2>4 DEF OnTime
  <2>6. Calm'
    BY <1>1, <2>1 DEF Calm
  <2> QED BY <1>2, <2>5, <2>6
<1>6. CASE FrameBoundary
  <2>1. /\ pulled /\ ~pulled'
        /\ \/ budget' = [budget EXCEPT !.sends = @ - 1, !.stalls = IF pulled THEN @ ELSE @ - 1]
           \/ budget' = [budget EXCEPT !.stalls = IF pulled THEN @ ELSE @ - 1]
    BY <1>1, <1>6 DEF Tick, Calm
  <2>2. PICK c : c = now + 1
    OBVIOUS
  <2>3. c \in Nat /\ c % FrameTicks = 0 /\ c = now' /\ b <= c /\ c <= b + FrameTicks
    BY <1>1, <1>2, <1>3, <1>6, <2>2 DEF FrameBoundary
  <2>4. \A p \in network' : p.sent <= c
    <3>1. Silent \/ \E q : Sends(q)
      BY <1>1, TickSends DEF Settled, BuiltFor, Punctual
    <3>2. \A p \in network : p.sent <= c
      <4>1. \A p \in network : p.sent \in Nat
        BY <1>1, KnownFacts, TimeNat DEF World, PacketOK
      <4> QED BY <1>3, <2>3, <4>1
    <3>3. CASE Silent
      BY <3>2, <3>3 DEF Silent
    <3>4. ASSUME NEW q, Sends(q) PROVE \A p \in network' : p.sent <= c
      <4>1. network' = network \cup {q} /\ q.sent = c
        BY <2>3, <3>4 DEF Sends
      <4> QED BY <2>3, <3>2, <4>1
    <3> QED BY <3>1, <3>3, <3>4
  <2>5. jb.anchored => c < Due(jb) + FrameTicks
    <3>1. jb.anchored => b < Due(jb)
      BY <1>2, <2>1 DEF OnTime
    <3> QED BY <1>1, <1>2, <1>4, <2>3, <3>1
  <2>6. OnTime(c)'
    BY <1>1, <2>1, <2>3, <2>4, <2>5 DEF OnTime
  <2>7. Calm'
    <3>1. /\ {"copies", "stalls", "sends", "lost", "closes"} \subseteq DOMAIN budget'
          /\ budget'.lost = 0 /\ budget'.stalls = 0 /\ budget'.closes = 0
      BY <1>1, <2>1 DEF Calm
    <3> QED BY <1>1, <3>1 DEF Calm
  <2> QED BY <2>3, <2>6, <2>7
<1> QED BY <1>5, <1>6

\* A tick in which nothing is sent.
LEMMA SilentSteady ==
  ASSUME NEW born \in Births, NEW sent \in SUBSET Marks, Settled(born, sent), Tick, Silent
  PROVE  Steady(sent)'
<1>1. /\ jb' = jb /\ out' = out /\ played' = played /\ network' = network
      /\ talker'.stream = talker.stream /\ (talker'.talking <=> talker.talking)
      /\ NextSeq(talker') = NextSeq(talker)
  BY DEF Tick, Silent
<1>2. Calm' /\ \E b \in Nat : OnTime(b)'
  BY TickClock
<1>3. /\ Orderly /\ Whole(sent) /\ Dense(sent) /\ Ends(sent) /\ Behindhand
      /\ out.source # "Concealment"
  BY DEF Settled, Steady
<1>4. Orderly'
  BY <1>1, <1>3 DEF Orderly
<1>5. Whole(sent)'
  BY <1>1, <1>3 DEF Whole, Accounted
<1>6. Dense(sent)'
  BY <1>1, <1>3 DEF Dense
<1>7. Ends(sent)'
  BY <1>1, <1>3 DEF Ends, Over, EndKnown
<1>8. Behindhand'
  BY <1>1, <1>3 DEF Behindhand
<1> QED BY <1>1, <1>2, <1>3, <1>4, <1>5, <1>6, <1>7, <1>8 DEF Steady

\* The packet a tick sends is on the talker's stream, after everything on it, or the
\* first of the next stream.
LEMMA SentIs ==
  ASSUME NEW born \in Births, NEW sent \in SUBSET Marks, Settled(born, sent), Tick,
         NEW p, Sends(p)
  PROVE  /\ Plain(p) /\ p.stream \in Streams /\ p.sequence \in Serials
         /\ talker.stream \in Nat /\ talker.stream <= p.stream
         /\ Mark(p).stream = p.stream /\ Mark(p).seq \in Nat
         /\ \A q \in network : q.stream \in Streams /\ q.stream <= talker.stream
         /\ \A q \in network : q.sent < p.sent
         /\ \A m \in sent : m.stream \in Nat /\ m.stream <= talker.stream /\ m.seq \in Nat
         /\ \A m \in sent : m.stream = p.stream => m.seq < Mark(p).seq
         /\ p.stream = talker.stream => Mark(p).seq > 0
         /\ \A k \in 0 .. Mark(p).seq - 1 : Marked(sent, p.stream, k)
         /\ jb.hasStream => jb.streamId \in Streams /\ jb.streamId <= talker.stream
<1>1. /\ World(born, sent) /\ Sound(born, sent, jb) /\ TalkerOK(born) /\ Dense(sent)
      /\ now' = now + 1 /\ now \in Nat /\ profile.perTalkspurt
      /\ \A o \in profile.oversize : ~o
  BY BuiltForIs DEF Settled, Full, InvWith, World, ProfileOK, Steady, Tick
<1>2. talker \in Talkers /\ talker.stream \in 0 .. MaxStreams
  BY <1>1 DEF TalkerOK, Talkers
<1>3. \A m \in sent : m.stream \in Nat /\ m.seq \in Nat /\ m.ts \in Nat /\ m.stream \in Streams
  BY ConstantFacts DEF Marks, Streams
<1>4. \A m \in sent : /\ m.stream <= talker.stream
                      /\ m.stream = talker.stream => m.seq < NextSeq(talker)
  BY <1>1 DEF World, MarkOK
<1>5. \A q \in network : q.stream \in Streams /\ q.stream <= talker.stream
  BY <1>1, KnownFacts DEF World, PacketOK
<1>6. \A q \in network : q.sent < p.sent
  <2> SUFFICES ASSUME NEW q \in network PROVE q.sent < p.sent
    OBVIOUS
  <2>1. q.sent = TimeOf(born, q.stream, Mark(q).ts) /\ Known(sent, q)
    BY <1>1 DEF World, PacketOK
  <2>2. TimeOf(born, q.stream, Mark(q).ts) <= now /\ TimeOf(born, q.stream, Mark(q).ts) \in Nat
    BY <1>1, <2>1, KnownFacts, TimeNat
  <2> QED BY <1>1, <2>1, <2>2 DEF Sends
<1>7. ~p.oversized /\ p.stream = talker'.stream /\ Mark(p).stream = p.stream
  BY <1>1 DEF Sends, Mark
<1>8. jb.hasStream => jb.streamId \in Streams /\ jb.streamId <= talker.stream
  BY <1>1 DEF Sound
<1>9. p.stream \in Streams /\ p.sequence \in Serials
  <2>1. Ticked(sent)
    BY TickStep DEF Settled, Full
  <2>2. PICK born2 \in Births, sent2 \in SUBSET Marks : InvWith(born2, sent2)'
    BY <2>1 DEF Ticked
  <2>3. p \in network'
    BY DEF Sends
  <2>4. World(born2, sent2)'
    BY <2>2 DEF InvWith
  <2>5. \A q \in network' : PacketOK(born2, sent2, q)'
    BY <2>4 DEF World
  <2>6. PacketOK(born2, sent2, p)'
    BY <2>3, <2>5
  <2> QED BY <2>6 DEF PacketOK, Known
<1>10. CASE /\ talker'.stream = talker.stream /\ talker.stream # 0
            /\ Mark(p).seq = NextSeq(talker) /\ ~p.start
  <2>1. NextSeq(talker) \in Nat /\ NextSeq(talker) > 0
        /\ Marked(sent, talker.stream, NextSeq(talker) - 1)
    BY <1>1, <1>10, NextTypes DEF Dense
  <2>2. PICK m \in sent : m.stream = talker.stream /\ m.seq = NextSeq(talker) - 1
    BY <2>1 DEF Marked
  <2>3. \A k \in 0 .. m.seq : Marked(sent, m.stream, k)
    BY <1>1 DEF Dense
  <2>4. \A k \in 0 .. Mark(p).seq - 1 : Marked(sent, p.stream, k)
    BY <1>7, <1>10, <2>2, <2>3
  <2>5. Plain(p)
    BY <1>7, <1>10, <2>1 DEF Plain
  <2>6. talker.stream \in Nat /\ talker.stream <= p.stream /\ p.stream = talker.stream
    BY <1>2, <1>7, <1>10, ConstantFacts
  <2> QED BY <1>3, <1>4, <1>5, <1>6, <1>7, <1>8, <1>9, <1>10, <2>1, <2>4, <2>5, <2>6
<1>11. CASE talker'.stream = talker.stream + 1 /\ Mark(p).seq = 0 /\ p.start
  <2>1. Plain(p)
    BY <1>7, <1>11 DEF Plain
  <2>2. talker.stream \in Nat /\ p.stream = talker.stream + 1
    BY <1>2, <1>7, <1>11, ConstantFacts
  <2>3. talker.stream <= p.stream /\ p.stream # talker.stream
    BY <2>2
  <2>4. \A m \in sent : m.stream # p.stream
    BY <1>3, <1>4, <2>2
  <2>5. \A k \in 0 .. Mark(p).seq - 1 : Marked(sent, p.stream, k)
    BY <1>11
  <2> QED BY <1>3, <1>4, <1>5, <1>6, <1>7, <1>8, <1>9, <1>11, <2>1, <2>2, <2>3, <2>4, <2>5
<1> QED BY <1>10, <1>11 DEF Sends

\* A tick in which a packet is sent.
LEMMA SendSteady ==
  ASSUME NEW born \in Births, NEW sent \in SUBSET Marks, Settled(born, sent), Tick,
         NEW p, Sends(p), NEW sent2, sent2 = sent \cup {Mark(p)}
  PROVE  Steady(sent2)'
<1>1. /\ jb' = jb /\ out' = out /\ played' = played /\ network' = network \cup {p}
      /\ talker'.stream = p.stream
      /\ NextSeq(talker') = Mark(p).seq + 1
      /\ p.end <=> ~talker'.talking
  BY DEF Tick, Sends
<1>2. /\ Plain(p) /\ p.stream \in Streams /\ p.sequence \in Serials
      /\ talker.stream \in Nat /\ talker.stream <= p.stream
      /\ Mark(p).stream = p.stream /\ Mark(p).seq \in Nat
      /\ \A q \in network : q.stream \in Streams /\ q.stream <= talker.stream
      /\ \A q \in network : q.sent < p.sent
      /\ \A m \in sent : m.stream \in Nat /\ m.stream <= talker.stream /\ m.seq \in Nat
      /\ \A m \in sent : m.stream = p.stream => m.seq < Mark(p).seq
      /\ p.stream = talker.stream => Mark(p).seq > 0
      /\ \A k \in 0 .. Mark(p).seq - 1 : Marked(sent, p.stream, k)
      /\ jb.hasStream => jb.streamId \in Streams /\ jb.streamId <= talker.stream
  BY SentIs
<1>3. Calm' /\ \E b \in Nat : OnTime(b)'
  BY TickClock
<1>4. /\ Orderly /\ Whole(sent) /\ Dense(sent) /\ Ends(sent) /\ Behindhand
      /\ out.source # "Concealment"
  BY DEF Settled, Steady
<1>5. Mark(p).seq = SequencePosition(p.stream, p.sequence)
  BY DEF Mark
<1>6. p.stream \in Nat /\ \A n \in Streams : n \in Nat
  BY <1>2, ConstantFacts DEF Streams
<1>7. Orderly'
  <2>1. \A q \in network' : Plain(q)
    BY <1>1, <1>2, <1>4 DEF Orderly
  <2>2. \A q \in network' : jb.hasStream =>
          /\ jb.streamId <= q.stream
          /\ q.stream = jb.streamId => Mark(q).seq > 0
    <3>1. jb.hasStream => jb.streamId <= p.stream /\ (p.stream = jb.streamId => Mark(p).seq > 0)
      BY <1>2, <1>6
    <3> QED BY <1>1, <1>4, <3>1 DEF Orderly
  <2>3. \A q, r \in network' : q.stream < r.stream => q.sent < r.sent
    <3>1. \A q \in network : ~(p.stream < q.stream)
      BY <1>2, <1>6
    <3>2. ~(p.stream < p.stream)
      BY <1>6
    <3> QED BY <1>1, <1>2, <1>4, <3>1, <3>2 DEF Orderly
  <2> QED BY <1>1, <2>1, <2>2, <2>3 DEF Orderly
<1>8. Whole(sent2)'
  <2> SUFFICES ASSUME NEW n \in Streams, NEW s \in Serials, WasSent(sent2, <<n, s>>)
               PROVE  Accounted(n, s)'
    BY DEF Whole
  <2>1. PICK m \in sent2 : m.stream = n /\ m.seq = SequencePosition(n, s)
    BY DEF WasSent
  <2>2. CASE m \in sent
    <3>1. WasSent(sent, <<n, s>>)
      BY <2>1, <2>2 DEF WasSent
    <3>2. Accounted(n, s)
      BY <1>4, <3>1 DEF Whole
    <3> QED BY <1>1, <3>2 DEF Accounted
  <2>3. CASE m = Mark(p)
    <3>1. n = p.stream /\ SequencePosition(n, s) = SequencePosition(n, p.sequence)
      BY <1>2, <1>5, <2>1, <2>3
    <3>2. s = p.sequence
      BY <1>2, <3>1, SamePosition
    <3> QED BY <1>1, <3>1, <3>2 DEF Accounted
  <2> QED BY <2>2, <2>3
<1>9. Dense(sent2)'
  <2>1. \A n, k : Marked(sent, n, k) => Marked(sent2, n, k)
    BY DEF Marked
  <2>2. Marked(sent2, p.stream, Mark(p).seq)
    BY <1>2 DEF Marked
  <2>3. \A k \in 0 .. Mark(p).seq : Marked(sent2, p.stream, k)
    <3> SUFFICES ASSUME NEW k \in 0 .. Mark(p).seq PROVE Marked(sent2, p.stream, k)
      OBVIOUS
    <3>1. k = Mark(p).seq \/ k \in 0 .. Mark(p).seq - 1
      BY <1>2
    <3> QED BY <1>2, <2>1, <2>2, <3>1
  <2>4. \A m \in sent2 : \A k \in 0 .. m.seq : Marked(sent2, m.stream, k)
    <3>1. \A m \in sent : \A k \in 0 .. m.seq : Marked(sent2, m.stream, k)
      BY <1>4, <2>1 DEF Dense
    <3> QED BY <1>2, <2>3, <3>1
  <2>5. NextSeq(talker') > 0 /\ NextSeq(talker') - 1 = Mark(p).seq
    BY <1>1, <1>2
  <2>6. NextSeq(talker') > 0 /\ Marked(sent2, talker'.stream, NextSeq(talker') - 1)
    BY <1>1, <2>2, <2>5
  <2> QED BY <2>4, <2>6 DEF Dense
<1>10. Ends(sent2)'
  <2>1. ASSUME NEW n \in Streams, Over(n)' PROVE EndKnown(sent2, n)'
    <3>1. CASE n = p.stream
      <4>1. p.end
        BY <1>1, <1>6, <2>1, <3>1 DEF Over
      <4>2. Last(sent2, n, Mark(p).seq)
        BY <1>2, <3>1 DEF Last
      <4> QED BY <1>1, <3>1, <4>1, <4>2 DEF EndKnown
    <3>2. CASE n # p.stream
      <4>1. Over(n)
        <5>1. n < p.stream
          BY <1>1, <1>6, <2>1, <3>2 DEF Over
        <5>2. CASE p.stream = talker.stream
          BY <5>1, <5>2 DEF Over
        <5>3. CASE p.stream = talker.stream + 1 /\ ~talker.talking
          BY <1>2, <1>6, <5>1, <5>3 DEF Over
        <5> QED BY <1>1, <5>2, <5>3 DEF Sends
      <4>2. EndKnown(sent, n)
        BY <1>4, <4>1 DEF Ends
      <4>3. \A k : Last(sent, n, k) => Last(sent2, n, k)
        BY <1>2, <3>2 DEF Last
      <4> QED BY <1>1, <4>2, <4>3 DEF EndKnown
    <3> QED BY <3>1, <3>2
  <2>2. \A id : WasSent(sent, id) => WasSent(sent2, id)
    BY DEF WasSent
  <2>3. jb'.hasEnd => /\ jb'.hasStream /\ jb'.endSequence \in Serials
                      /\ WasSent(sent2, <<jb'.streamId, jb'.endSequence>>)
    BY <1>1, <1>4, <2>2 DEF Ends
  <2> QED BY <2>1, <2>3 DEF Ends
<1>11. Behindhand'
  BY <1>1, <1>4 DEF Behindhand
<1> QED BY <1>1, <1>3, <1>4, <1>7, <1>8, <1>9, <1>10, <1>11 DEF Steady

\* A tick.
LEMMA TickSteady ==
  ASSUME NEW born \in Births, NEW sent \in SUBSET Marks, Settled(born, sent), Tick,
         NEW sent2, sent2 = sent \cup {Mark(p) : p \in network' \ network}
  PROVE  Steady(sent2)'
<1>1. World(born, sent) /\ profile.perTalkspurt
  BY DEF Settled, Full, InvWith, BuiltFor, Punctual
<1>2. CASE Silent
  <2>1. sent2 = sent
    BY <1>2 DEF Silent
  <2> QED BY <1>2, <2>1, SilentSteady
<1>3. ASSUME NEW p, Sends(p) PROVE Steady(sent2)'
  <2>1. \A q \in network : q.sent < p.sent
    BY <1>3, SentIs
  <2>2. p \notin network
    <3>1. p \in network => p.sent \in Nat
      BY <1>1, KnownFacts, TimeNat DEF World, PacketOK
    <3> QED BY <2>1, <3>1
  <2>3. network' \ network = {p}
    BY <1>3, <2>2 DEF Sends
  <2>4. sent2 = sent \cup {Mark(p)}
    BY <2>3
  <2> QED BY <1>3, <2>4, SendSteady
<1> QED BY <1>1, <1>2, <1>3, TickSends

-------------------------------------------------------------------------------
(* A packet arrives: it joins its stream, or starts it *)

OtherwiseSame(k, j) ==
  /\ BufferFields \subseteq DOMAIN k
  /\ (k.open <=> j.open) /\ (k.hasStream <=> j.hasStream) /\ (k.anchored <=> j.anchored)
  /\ k.streamId = j.streamId
  /\ k.anchorTs = j.anchorTs /\ k.anchorLocal = j.anchorLocal
  /\ k.playoutTs = j.playoutTs

NewEnd(j, p) == p.end /\ (~j.hasEnd \/ Precedes(j.endSequence, p.sequence))

EndAs(k, j, p) ==
  /\ k.hasEnd <=> j.hasEnd \/ p.end
  /\ NewEnd(j, p) => k.endSequence = p.sequence
  /\ ~NewEnd(j, p) => k.endSequence = j.endSequence

\* The END of a stream is noted, and nothing else (jitter_buffer.cpp:190-196).
LEMMA NoteEndIs ==
  ASSUME NEW j, BufferFields \subseteq DOMAIN j, NEW p
  PROVE  LET k == NoteEnd(j, p)
         IN  OtherwiseSame(k, j) /\ k.queue = j.queue /\ EndAs(k, j, p)
<1>1. PICK k : k = NoteEnd(j, p)
  OBVIOUS
<1>2. CASE NewEnd(j, p)
  <2>1. k = [j EXCEPT !.hasEnd = TRUE, !.endSequence = p.sequence]
    BY <1>1, <1>2 DEF NoteEnd, NewEnd
  <2>2. k.hasEnd /\ k.endSequence = p.sequence /\ k.queue = j.queue /\ OtherwiseSame(k, j)
    BY <2>1 DEF BufferFields, OtherwiseSame
  <2>3. p.end
    BY <1>2 DEF NewEnd
  <2>4. EndAs(k, j, p)
    BY <1>2, <2>2, <2>3 DEF EndAs
  <2> QED BY <1>1, <2>2, <2>4
<1>3. CASE ~NewEnd(j, p)
  <2>1. k = j
    BY <1>1, <1>3 DEF NoteEnd, NewEnd
  <2>2. p.end => j.hasEnd
    BY <1>3 DEF NewEnd
  <2>3. k.hasEnd <=> j.hasEnd \/ p.end
    BY <2>1, <2>2
  <2>4. EndAs(k, j, p)
    BY <1>3, <2>1, <2>3 DEF EndAs
  <2> QED BY <1>1, <2>1, <2>4 DEF OtherwiseSame
<1> QED BY <1>2, <1>3

\* An accepted packet is held beside what was (reorder_queue.cpp:84-110).
LEMMA StoredIs ==
  ASSUME NEW j, BufferFields \subseteq DOMAIN j, QueueFields \subseteq DOMAIN j.queue,
         j.queue.started, NEW p, Offer(j, p, now) = "Accepted"
  PROVE  LET k == Inserted(j, p, now)
         IN  /\ OtherwiseSame(k, j)
             /\ k.queue.cursor = j.queue.cursor
             /\ k.hasEnd <=> j.hasEnd
             /\ k.endSequence = j.endSequence
             /\ HeldIds(j) \cup {Id(p)} \subseteq HeldIds(k)
<1> DEFINE q == j.queue
           f == FrameOf(j, p)
           slots == [i \in DOMAIN q.slots \cup {Index(f.sequence)} |->
                       IF i = Index(f.sequence) THEN f ELSE q.slots[i]]
           s == InsertQ(q, f, "Accepted")
<1>1. PICK k : k = Inserted(j, p, now)
  OBVIOUS
<1>2. k = [j EXCEPT !.queue = s]
  BY <1>1 DEF Inserted
<1>3. Index(f.sequence) \notin DOMAIN q.slots
  <2>1. StartQ(q, f.sequence) = q
    BY DEF StartQ
  <2>2. InsertVerdict(q, f, p.oversized, now) = "Accepted"
    BY DEF Offer
  <2> HIDE DEF f, q
  <2> QED BY <2>2 DEF InsertVerdict
<1>4. s = Store(q, f)
  BY DEF InsertQ, StartQ
<1>5. s.slots = slots /\ s.cursor = q.cursor
  <2> HIDE DEF f, s
  <2> QED BY <1>4 DEF Store, QueueFields
<1>6. f.stream = p.stream /\ f.sequence = p.sequence
  BY DEF FrameOf
<1> HIDE DEF f, s
<1>7. /\ \A i \in DOMAIN q.slots : i \in DOMAIN slots /\ slots[i] = q.slots[i]
      /\ Index(f.sequence) \in DOMAIN slots /\ slots[Index(f.sequence)] = f
  BY <1>3
<1> HIDE DEF slots
<1>8. k.queue = s /\ OtherwiseSame(k, j) /\ (k.hasEnd <=> j.hasEnd) /\ k.endSequence = j.endSequence
  BY <1>2 DEF BufferFields, OtherwiseSame
<1>9. HeldIds(j) \subseteq HeldIds(k)
  BY <1>5, <1>7, <1>8 DEF HeldIds
<1>10. Id(p) \in HeldIds(k)
  BY <1>5, <1>6, <1>7, <1>8 DEF HeldIds, Id
<1> QED BY <1>1, <1>5, <1>8, <1>9, <1>10

Joined(k, p) ==
  /\ k.open /\ k.hasStream /\ k.anchored
  /\ k.streamId = jb.streamId
  /\ k.queue.cursor = jb.queue.cursor
  /\ Due(k) = Due(jb)
  /\ HeldIds(jb) \cup {Id(p)} \subseteq HeldIds(k)
  /\ EndAs(k, jb, p)

Taken(k, p) ==
  /\ k.open /\ k.hasStream /\ k.anchored
  /\ k.streamId = p.stream
  /\ k.queue.cursor = p.sequence
  /\ now < Due(k)
  /\ Id(p) \in HeldIds(k)
  /\ k.hasEnd <=> p.end
  /\ p.end => k.endSequence = p.sequence

\* A packet of the live stream is inside the window.
LEMMA InWindow ==
  ASSUME NEW born \in Births, NEW sent \in SUBSET Marks, Settled(born, sent),
         NEW p \in network, jb.hasStream, p.stream = jb.streamId
  PROVE  Mark(p).seq - SequencePosition(p.stream, jb.queue.cursor) < Capacity
<1>1. /\ World(born, sent) /\ Sound(born, sent, jb) /\ jb.anchored /\ ProfileOK
      /\ PacketOK(born, sent, p) /\ profile.perTalkspurt
      /\ FrameTicks + TargetDelay + profile.delay <= FrameTicks * Capacity
  BY DEF Settled, Steady, Full, InvWith, World, Calm, BuiltFor, Punctual
<1>2. Running(born, sent, jb)
  BY <1>1 DEF Running
<1>3. PICK b \in Nat : OnTime(b)
  BY DEF Settled, Steady
<1> DEFINE n == jb.streamId
           x == Playout(jb)
           y == Mark(p).ts
           lag == Lag(born, n, jb)
<1>4. /\ n \in Streams /\ x \in Nat /\ lag \in Nat
      /\ Due(jb) = TimeOf(born, n, x) + lag
      /\ SequencePosition(n, jb.queue.cursor) = x
  BY <1>1, <1>2, DueIs DEF Running, Sound, Projected, Playout
<1>5. y \in Nat /\ Mark(p).seq = y /\ p.sent = TimeOf(born, n, y)
  BY <1>1, KnownFacts DEF PacketOK
<1>6. lag <= TargetDelay + profile.delay /\ profile.delay \in Nat
  <2>1. AnchoredAt(born, n, jb.anchorTs, jb.anchorLocal) /\ jb.playoutTs \in Serials /\ x < Half
    BY <1>1, <1>2, DueIs DEF Running, Sound
  <2>2. lag \in TargetDelay .. TargetDelay + profile.delay
    BY <1>1, <1>4, <2>1, DeadlineIs DEF Playout
  <2> QED BY <1>1, <1>4, <2>2, ConstantFacts DEF ProfileOK
<1>7. p.sent <= b /\ b < Due(jb) + FrameTicks
  BY <1>1, <1>3 DEF OnTime
<1>8. /\ FrameTicks \in Nat /\ FrameTicks > 0 /\ TargetDelay \in Nat /\ Capacity \in Nat
      /\ born[n] \in Nat
  BY <1>4, ConstantFacts DEF Births
<1>9. /\ born[n] + FrameTicks * y <= b
      /\ b < born[n] + FrameTicks * x + lag + FrameTicks
  BY <1>4, <1>5, <1>7 DEF TimeOf
<1>10. FrameTicks + TargetDelay + profile.delay <= FrameTicks * Capacity
  BY <1>1
<1> HIDE DEF n, x, y, lag
<1>11. FrameTicks * x \in Int /\ FrameTicks * y \in Int /\ FrameTicks * Capacity \in Int
  BY <1>4, <1>5, <1>8, TicksAdd
<1>12. FrameTicks * y < FrameTicks * x + FrameTicks * Capacity
  BY <1>3, <1>4, <1>6, <1>8, <1>9, <1>10, <1>11
<1>13. ASSUME x + Capacity <= y PROVE FALSE
  <2>1. FrameTicks * (x + Capacity) <= FrameTicks * y
    BY <1>4, <1>5, <1>8, <1>13, TicksMonotone
  <2>2. FrameTicks * (x + Capacity) = FrameTicks * x + FrameTicks * Capacity
    BY <1>4, <1>8, TicksAdd
  <2> QED BY <1>11, <1>12, <2>1, <2>2
<1>14. y - x < Capacity
  BY <1>4, <1>5, <1>8, <1>13
<1> QED BY <1>4, <1>5, <1>14 DEF n

\* push() of an accepted packet stores it.
LEMMA PushAccepted ==
  ASSUME NEW p, NEW c, c = Prepared(jb, p, now), jb.open, ~IsForeign(jb, p, now),
         BufferFields \subseteq DOMAIN c, QueueFields \subseteq DOMAIN c.queue,
         c.queue.started, ~p.oversized,
         Distance(c.queue.cursor, p.sequence) \in 0 .. Capacity - 1,
         ~(now > DeadlineOf(c, p.timestamp)),
         Index(p.sequence) \notin DOMAIN c.queue.slots
  PROVE  LET k == Pushed(jb, p, now)
         IN  /\ OtherwiseSame(k, c)
             /\ k.queue.cursor = c.queue.cursor
             /\ k.hasEnd <=> c.hasEnd
             /\ k.endSequence = c.endSequence
             /\ HeldIds(c) \cup {Id(p)} \subseteq HeldIds(k)
<1>1. Offer(c, p, now) = "Accepted"
  <2>1. FrameOf(c, p).sequence = p.sequence /\ FrameOf(c, p).deadline = DeadlineOf(c, p.timestamp)
    BY DEF FrameOf
  <2>2. StartQ(c.queue, FrameOf(c, p).sequence) = c.queue
    BY DEF StartQ
  <2>3. /\ ~(Distance(c.queue.cursor, p.sequence) < 0)
        /\ ~(Distance(c.queue.cursor, p.sequence) >= Capacity)
    BY ConstantFacts
  <2> QED BY <2>1, <2>2, <2>3 DEF Offer, InsertVerdict
<1>2. Pushed(jb, p, now) = Inserted(c, p, now)
  BY <1>1 DEF Pushed
<1> QED BY <1>1, <1>2, StoredIs

\* Two packets in one window of a stream do not share a slot.
LEMMA SlotFree ==
  ASSUME NEW born \in Births, NEW sent \in SUBSET Marks, World(born, sent),
         NEW j, Running(born, sent, j), NEW p, Known(sent, p), p.stream = j.streamId,
         Distance(j.queue.cursor, p.sequence) \in 0 .. Capacity - 1,
         Id(p) \notin HeldIds(j)
  PROVE  Index(p.sequence) \notin DOMAIN j.queue.slots
<1> SUFFICES ASSUME Index(p.sequence) \in DOMAIN j.queue.slots PROVE FALSE
  OBVIOUS
<1>1. PICK f : f = j.queue.slots[Index(p.sequence)]
  OBVIOUS
<1>2. /\ Known(sent, f) /\ f.stream = j.streamId /\ Index(f.sequence) = Index(p.sequence)
      /\ Mark(f).seq - SequencePosition(j.streamId, j.queue.cursor) \in 0 .. Capacity - 1
  BY <1>1 DEF Running, Sound, Windowed
<1>3. /\ j.streamId \in Streams /\ f.sequence \in Serials /\ p.sequence \in Serials
      /\ Mark(f).seq = SequencePosition(j.streamId, f.sequence)
      /\ Mark(f).seq \in Nat /\ Mark(f).seq < Half
  BY <1>2, KnownFacts, ConstantFacts
<1>4. j.queue.cursor \in Serials /\ Playout(j) \in Nat /\ Playout(j) < Half
  BY DueIs
<1>5. /\ SequencePosition(j.streamId, j.queue.cursor) <= Playout(j)
      /\ SequencePosition(j.streamId, j.queue.cursor) \in Nat
  BY <1>3, <1>4, PositionTypes DEF Running, Sound, Projected, Playout
<1>6. Distance(j.queue.cursor, f.sequence)
        = Mark(f).seq - SequencePosition(j.streamId, j.queue.cursor)
  <2>1. SequencePosition(j.streamId, j.queue.cursor) < Half
    BY <1>4, <1>5, ConstantFacts
  <2>2. SequencePosition(j.streamId, f.sequence) < Half
    BY <1>3
  <2> QED BY <1>3, <1>4, <2>1, <2>2, SequenceDistance
<1>7. f.sequence = p.sequence
  <2>1. Distance(j.queue.cursor, f.sequence) \in 0 .. Capacity - 1
    BY <1>2, <1>6
  <2>2. Capacity \in Nat \ {0} /\ Modulus % Capacity = 0
    BY CapacityAssumption
  <2>3. f.sequence % Capacity = p.sequence % Capacity
    BY <1>2 DEF Index
  <2> QED BY <1>3, <1>4, <2>1, <2>2, <2>3, SameRemainder
<1>8. Id(f) = Id(p)
  BY <1>2, <1>7 DEF Id
<1>9. Id(f) \in HeldIds(j)
  BY <1>1 DEF HeldIds, Id
<1> QED BY <1>8, <1>9

\* A packet of the live stream joins it.
LEMMA Joins ==
  ASSUME NEW born \in Births, NEW sent \in SUBSET Marks, Settled(born, sent),
         NEW p \in network, jb.hasStream, p.stream = jb.streamId
  PROVE  Joined(Pushed(jb, p, now), p)
<1>1. /\ InvWith(born, sent) /\ World(born, sent) /\ Sound(born, sent, jb) /\ Ahead /\ Punctual
      /\ jb.open /\ jb.anchored /\ ~p.start /\ ~p.oversized /\ PacketOK(born, sent, p)
      /\ Id(p) \notin HeldIds(jb)
  BY DEF Settled, Steady, Full, InvWith, World, Calm, BuiltFor, Orderly, Plain, Once
<1>2. BufferFields \subseteq DOMAIN jb /\ QueueFields \subseteq DOMAIN jb.queue /\ jb.queue.started
  BY <1>1 DEF Sound
<1>3. PICK a : a = [Adopt(jb, p) EXCEPT !.lastArrival = now]
  OBVIOUS
<1>4. a = [[jb EXCEPT !.hasStream = TRUE, !.streamId = p.stream] EXCEPT !.lastArrival = now]
  BY <1>3 DEF Adopt
<1>5. /\ OtherwiseSame(a, jb) /\ a.queue = jb.queue /\ (a.hasEnd <=> jb.hasEnd)
      /\ a.endSequence = jb.endSequence
  BY <1>2, <1>4 DEF OtherwiseSame, BufferFields
<1>6. Place(a, p, now) = a
  BY <1>1, <1>5 DEF Place, OtherwiseSame
<1>7. PICK c : c = Prepared(jb, p, now)
  OBVIOUS
<1>8. c = NoteEnd(a, p)
  BY <1>3, <1>6, <1>7 DEF Prepared
<1>9. OtherwiseSame(c, a) /\ c.queue = a.queue /\ EndAs(c, a, p)
  BY <1>5, <1>8, NoteEndIs DEF OtherwiseSame
<1>10. OtherwiseSame(c, jb) /\ c.queue = jb.queue /\ EndAs(c, jb, p)
  <2>1. OtherwiseSame(c, jb) /\ c.queue = jb.queue
    BY <1>5, <1>9 DEF OtherwiseSame
  <2>2. NewEnd(a, p) <=> NewEnd(jb, p)
    BY <1>5 DEF NewEnd
  <2> QED BY <1>5, <1>9, <2>1, <2>2 DEF EndAs
<1>11. /\ On(born, sent, c, p) /\ c.anchored
       /\ Distance(c.queue.cursor, p.sequence)
            = Mark(p).seq - SequencePosition(p.stream, c.queue.cursor)
       /\ SequencePosition(p.stream, c.queue.cursor) <= Mark(p).seq
       /\ ~(now > DeadlineOf(c, p.timestamp))
  BY <1>1, <1>7, OfferInTime
<1>12. Distance(c.queue.cursor, p.sequence) \in 0 .. Capacity - 1
  <2>1. Mark(p).seq - SequencePosition(p.stream, c.queue.cursor) < Capacity
    BY <1>10, InWindow
  <2>2. p.stream \in Streams /\ Mark(p).seq \in Nat
    BY <1>1, KnownFacts DEF PacketOK
  <2>3. SequencePosition(p.stream, c.queue.cursor) \in Nat
    BY <1>11, <2>2, PositionTypes DEF On, Sound, Projected
  <2> QED BY <1>11, <2>1, <2>2, <2>3, ConstantFacts
<1>13. HeldIds(c) = HeldIds(jb)
  BY <1>10 DEF HeldIds
<1>14. Index(p.sequence) \notin DOMAIN c.queue.slots
  <2>1. Running(born, sent, c) /\ p.stream = c.streamId /\ Known(sent, p)
    BY <1>1, <1>11 DEF On, Running, PacketOK
  <2>2. Id(p) \notin HeldIds(c)
    BY <1>1, <1>13
  <2> QED BY <1>1, <1>12, <2>1, <2>2, SlotFree
<1>15. ~IsForeign(jb, p, now)
  BY DEF IsForeign
<1>16. PICK k : k = Pushed(jb, p, now)
  OBVIOUS
<1>17. /\ BufferFields \subseteq DOMAIN c /\ QueueFields \subseteq DOMAIN c.queue
       /\ c.queue.started
  BY <1>11 DEF On, Sound
<1>18. /\ OtherwiseSame(k, c) /\ k.queue.cursor = c.queue.cursor
       /\ k.hasEnd <=> c.hasEnd
       /\ k.endSequence = c.endSequence
       /\ HeldIds(c) \cup {Id(p)} \subseteq HeldIds(k)
  BY <1>1, <1>7, <1>11, <1>12, <1>14, <1>15, <1>16, <1>17, PushAccepted
<1>19. /\ k.open /\ k.hasStream /\ k.anchored /\ k.streamId = jb.streamId
       /\ k.queue.cursor = jb.queue.cursor
       /\ k.anchorTs = jb.anchorTs /\ k.anchorLocal = jb.anchorLocal
       /\ k.playoutTs = jb.playoutTs
  BY <1>1, <1>10, <1>18 DEF OtherwiseSame
<1>20. Due(k) = Due(jb)
  BY <1>19 DEF Due, DeadlineOf
<1>21. EndAs(k, jb, p)
  BY <1>10, <1>18 DEF EndAs
<1>22. HeldIds(jb) \cup {Id(p)} \subseteq HeldIds(k)
  BY <1>13, <1>18
<1>23. Joined(k, p)
  BY <1>19, <1>20, <1>21, <1>22 DEF Joined
<1> QED BY <1>16, <1>23

\* The first packet of a later stream takes the buffer over.
LEMMA Takes ==
  ASSUME NEW born \in Births, NEW sent \in SUBSET Marks, Settled(born, sent),
         NEW p \in network, p.start, jb.hasStream => p.stream # jb.streamId
  PROVE  Taken(Pushed(jb, p, now), p)
<1>1. /\ InvWith(born, sent) /\ World(born, sent) /\ Sound(born, sent, jb) /\ Ahead /\ Punctual
      /\ jb.open /\ (jb.hasStream <=> jb.anchored) /\ ~p.oversized /\ PacketOK(born, sent, p)
      /\ (jb.hasEnd => jb.hasStream) /\ profile.delay < TargetDelay
  BY DEF Settled, Steady, Full, InvWith, World, Calm, BuiltFor, Orderly, Plain, Ends, Punctual
<1>2. BufferFields \subseteq DOMAIN jb /\ (~jb.anchored => jb.queue = EmptyQueue)
  BY <1>1 DEF Sound
<1>3. PICK i : i = IF jb.hasStream /\ p.stream # jb.streamId THEN ResetStream(jb) ELSE jb
  OBVIOUS
<1>4. /\ BufferFields \subseteq DOMAIN i /\ i.queue = EmptyQueue /\ ~i.anchored /\ ~i.hasEnd
      /\ i.open
  BY <1>1, <1>2, <1>3 DEF ResetStream, BufferFields
<1>5. PICK a : a = [Adopt(jb, p) EXCEPT !.lastArrival = now]
  OBVIOUS
<1>6. a = [[i EXCEPT !.hasStream = TRUE, !.streamId = p.stream] EXCEPT !.lastArrival = now]
  BY <1>3, <1>5 DEF Adopt
<1>7. /\ BufferFields \subseteq DOMAIN a /\ a.queue = EmptyQueue /\ ~a.anchored /\ ~a.hasEnd
      /\ a.open /\ a.hasStream /\ a.streamId = p.stream
  BY <1>4, <1>6 DEF BufferFields
<1>8. PICK s : s = StartQ(EmptyQueue, p.sequence)
  OBVIOUS
<1>9. s.cursor = p.sequence /\ s.slots = NoSlots /\ s.started
  BY <1>8 DEF StartQ, EmptyQueue
<1>10. PICK b : b = Place(a, p, now)
  OBVIOUS
<1>11. b = [Anchor(a, p.timestamp, now) EXCEPT !.queue = s, !.playoutTs = p.timestamp]
  BY <1>7, <1>8, <1>10 DEF Place
<1>12. /\ BufferFields \subseteq DOMAIN b /\ b.queue = s /\ b.playoutTs = p.timestamp
       /\ b.open /\ b.hasStream /\ b.anchored /\ b.streamId = p.stream /\ ~b.hasEnd
  BY <1>7, <1>11 DEF Anchor, BufferFields
<1>13. PICK c : c = Prepared(jb, p, now)
  OBVIOUS
<1>14. c = NoteEnd(b, p)
  BY <1>5, <1>10, <1>13 DEF Prepared
<1>15. OtherwiseSame(c, b) /\ c.queue = b.queue /\ EndAs(c, b, p)
  BY <1>12, <1>14, NoteEndIs
<1>16. (c.hasEnd <=> p.end) /\ (p.end => c.endSequence = p.sequence)
  BY <1>12, <1>15 DEF EndAs, NewEnd
<1>17. /\ c.queue = s /\ c.open /\ c.hasStream /\ c.anchored /\ c.streamId = p.stream
       /\ c.playoutTs = p.timestamp
  BY <1>12, <1>15 DEF OtherwiseSame
<1>18. /\ On(born, sent, c, p)
       /\ Distance(c.queue.cursor, p.sequence)
            = Mark(p).seq - SequencePosition(p.stream, c.queue.cursor)
       /\ ~(now > DeadlineOf(c, p.timestamp))
  BY <1>1, <1>13, OfferInTime
<1>19. Distance(c.queue.cursor, p.sequence) \in 0 .. Capacity - 1
  <2>1. Mark(p).seq = SequencePosition(p.stream, p.sequence) /\ Mark(p).seq \in Nat
    BY <1>1, KnownFacts DEF PacketOK
  <2>2. SequencePosition(p.stream, c.queue.cursor) = Mark(p).seq
    BY <1>9, <1>17, <2>1
  <2>3. Distance(c.queue.cursor, p.sequence) = 0
    BY <1>18, <2>1, <2>2
  <2> QED BY <2>3, ConstantFacts
<1>20. Index(p.sequence) \notin DOMAIN c.queue.slots
  BY <1>9, <1>17 DEF NoSlots
<1>21. ~IsForeign(jb, p, now)
  BY DEF IsForeign
<1>22. PICK k : k = Pushed(jb, p, now)
  OBVIOUS
<1>23. /\ BufferFields \subseteq DOMAIN c /\ QueueFields \subseteq DOMAIN c.queue
       /\ c.queue.started
  BY <1>9, <1>17, <1>18 DEF On, Sound
<1>24. /\ OtherwiseSame(k, c) /\ k.queue.cursor = c.queue.cursor
       /\ k.hasEnd <=> c.hasEnd
       /\ k.endSequence = c.endSequence
       /\ HeldIds(c) \cup {Id(p)} \subseteq HeldIds(k)
  BY <1>1, <1>13, <1>18, <1>19, <1>20, <1>21, <1>22, <1>23, PushAccepted
<1>25. now < DeadlineOf(c, p.timestamp)
  <2>1. Running(born, sent, c)
    BY <1>17, <1>18 DEF On, Running
  <2> QED BY <1>1, <1>17, <2>1, NotYetDue
<1>26. Due(k) = DeadlineOf(c, p.timestamp)
  BY <1>17, <1>24 DEF Due, DeadlineOf, OtherwiseSame
<1>27. /\ k.open /\ k.hasStream /\ k.anchored /\ k.streamId = p.stream
       /\ k.queue.cursor = p.sequence
  BY <1>9, <1>17, <1>24 DEF OtherwiseSame
<1>28. Taken(k, p)
  BY <1>16, <1>24, <1>25, <1>26, <1>27 DEF Taken
<1> QED BY <1>22, <1>28

\* The oldest packet in flight is the first of its stream, if that is not the stream
\* of the buffer.
LEMMA StartFirst ==
  ASSUME NEW born \in Births, NEW sent \in SUBSET Marks, Settled(born, sent),
         NEW p \in network, \A q \in network : p.sent <= q.sent,
         jb.hasStream => p.stream # jb.streamId
  PROVE  /\ p.start /\ Mark(p).seq = 0
         /\ jb.hasStream => jb.streamId < p.stream /\ jb.streamId \in Nat
<1>1. /\ World(born, sent) /\ Sound(born, sent, jb) /\ PacketOK(born, sent, p) /\ Plain(p)
      /\ Dense(sent) /\ Whole(sent) /\ profile.perTalkspurt
      /\ jb.hasStream => jb.streamId <= p.stream
  BY DEF Settled, Steady, Full, InvWith, World, Orderly, BuiltFor, Punctual
<1>2. /\ p.stream \in Streams /\ Mark(p) \in sent /\ Mark(p).stream = p.stream
      /\ Mark(p).seq \in Nat
  BY <1>1, KnownFacts DEF PacketOK
<1>3. jb.hasStream => jb.streamId < p.stream /\ jb.streamId \in Nat
  BY <1>1, <1>2, ConstantFacts DEF Sound, Streams
<1>4. PICK s : s = FirstSequence[p.stream]
  OBVIOUS
<1>5. s \in Serials /\ SequencePosition(p.stream, s) = 0
  BY <1>2, <1>4, FirstPosition, ConstantFacts
<1>6. Marked(sent, p.stream, 0)
  BY <1>1, <1>2 DEF Dense
<1>7. WasSent(sent, <<p.stream, s>>)
  BY <1>5, <1>6, MarkedIs
<1>8. Accounted(p.stream, s)
  BY <1>1, <1>2, <1>5, <1>7 DEF Whole
<1>9. PICK q \in network : q.stream = p.stream /\ q.sequence = s
  <2>1. ~(jb.hasStream /\ p.stream < jb.streamId)
    BY <1>2, <1>3, ConstantFacts DEF Streams
  <2> QED BY <1>8, <2>1 DEF Accounted
<1>10. Mark(q).seq = 0
  BY <1>5, <1>9 DEF Mark
<1>11. Mark(p).seq <= Mark(q).seq
  <2>1. PacketOK(born, sent, q) /\ p.sent <= q.sent
    BY <1>1, <1>9 DEF World
  <2> QED BY <1>1, <1>9, <2>1, SentOrder
<1>12. Mark(p).seq = 0
  BY <1>2, <1>10, <1>11
<1> QED BY <1>1, <1>3, <1>12 DEF Plain

\* An END arrives with the last packet of its stream.
LEMMA EndCovers ==
  ASSUME NEW born \in Births, NEW sent \in SUBSET Marks, Settled(born, sent),
         NEW p \in network, NEW k, EndAs(k, jb, p), jb.hasStream, p.stream = jb.streamId
  PROVE  /\ k.hasEnd => /\ k.endSequence \in Serials
                        /\ WasSent(sent, <<p.stream, k.endSequence>>)
         /\ p.end /\ Last(sent, p.stream, Mark(p).seq)
              => Last(sent, p.stream, SequencePosition(p.stream, k.endSequence))
         /\ jb.hasEnd /\ Last(sent, p.stream, SequencePosition(p.stream, jb.endSequence))
              => Last(sent, p.stream, SequencePosition(p.stream, k.endSequence))
<1>1. World(born, sent) /\ PacketOK(born, sent, p) /\ Ends(sent)
  BY DEF Settled, Steady, Full, InvWith, World
<1>2. /\ p.stream \in Streams /\ p.sequence \in Serials /\ Mark(p).seq \in Nat
      /\ Mark(p).seq = SequencePosition(p.stream, p.sequence) /\ Mark(p).seq < Half
  BY <1>1, KnownFacts, ConstantFacts DEF PacketOK
<1>3. WasSent(sent, <<p.stream, p.sequence>>)
  BY <1>1, FlyingSent DEF Id
<1>4. \A m \in sent : m.seq \in Nat
  BY DEF Marks
<1> DEFINE e == jb.endSequence
           x == SequencePosition(p.stream, e)
<1>5. ASSUME jb.hasEnd
      PROVE  /\ e \in Serials /\ WasSent(sent, <<p.stream, e>>)
             /\ x \in Nat /\ x < Half
             /\ Distance(e, p.sequence) = Mark(p).seq - x
  <2>1. e \in Serials /\ WasSent(sent, <<p.stream, e>>)
    BY <1>1, <1>5 DEF Ends
  <2>2. PICK m \in sent : m.stream = p.stream /\ m.seq = x
    BY <2>1 DEF WasSent
  <2>3. x \in Nat /\ x < Half
    <3>1. m \in Marks /\ MarkOK(born, m) /\ ProfileOK /\ born[p.stream] >= FrameTicks
      BY <1>1, <1>2, <2>2 DEF World
    <3>2. m.ts \in Nat /\ m.seq \in Nat /\ TimeOf(born, p.stream, m.ts) <= now /\ m.seq <= m.ts
      BY <2>2, <3>1 DEF Marks, MarkOK
    <3>3. TimeOf(born, p.stream, m.ts) <= now + FrameTicks
      BY <1>2, <3>1, <3>2, TimeNat, ConstantFacts DEF ProfileOK
    <3>4. m.ts < Half
      BY <1>2, <3>1, <3>2, <3>3, TimesBounded
    <3> QED BY <2>2, <3>2, <3>4, ConstantFacts
  <2>4. Distance(e, p.sequence) = Mark(p).seq - x
    BY <1>2, <2>1, <2>3, SequenceDistance
  <2> QED BY <2>1, <2>3, <2>4
<1> HIDE DEF e, x
<1>6. CASE NewEnd(jb, p)
  <2>1. k.endSequence = p.sequence
    BY <1>6 DEF EndAs
  <2>2. jb.hasEnd => x < Mark(p).seq
    BY <1>2, <1>5, <1>6 DEF NewEnd, Precedes, e
  <2>3. jb.hasEnd /\ Last(sent, p.stream, x) => Last(sent, p.stream, Mark(p).seq)
    BY <1>2, <1>4, <1>5, <2>2 DEF Last
  <2> QED BY <1>2, <1>3, <2>1, <2>3 DEF e, x
<1>7. CASE ~NewEnd(jb, p)
  <2>1. k.endSequence = e /\ (p.end => jb.hasEnd) /\ (k.hasEnd => jb.hasEnd)
    BY <1>7 DEF EndAs, NewEnd, e
  <2>2. p.end => Mark(p).seq <= x
    <3>1. p.end => ~(Distance(e, p.sequence) > 0)
      BY <1>7, <2>1 DEF NewEnd, Precedes, e
    <3> QED BY <1>2, <1>5, <2>1, <3>1
  <2>3. p.end /\ Last(sent, p.stream, Mark(p).seq) => Last(sent, p.stream, x)
    BY <1>2, <1>4, <1>5, <2>1, <2>2 DEF Last
  <2> QED BY <1>5, <2>1, <2>3 DEF e, x
<1> QED BY <1>6, <1>7

\* The packet joins its stream.
LEMMA JoinSteady ==
  ASSUME NEW born \in Births, NEW sent \in SUBSET Marks, Settled(born, sent),
         NEW p \in network, Deliver(p), jb.hasStream, p.stream = jb.streamId
  PROVE  Steady(sent)'
<1>1. PICK k : k = Pushed(jb, p, now)
  OBVIOUS
<1>2. /\ jb' = k /\ network' = network \ {p} /\ UNCHANGED <<now, talker, pulled, out, played, budget>>
  BY <1>1 DEF Deliver, Receive
<1>3. Joined(k, p)
  BY <1>1, Joins
<1>4. /\ k.open /\ k.hasStream /\ k.anchored /\ k.streamId = jb.streamId
      /\ k.queue.cursor = jb.queue.cursor /\ Due(k) = Due(jb)
      /\ HeldIds(jb) \cup {Id(p)} \subseteq HeldIds(k)
      /\ EndAs(k, jb, p)
  BY <1>3 DEF Joined
<1>5. /\ Calm /\ Orderly /\ Whole(sent) /\ Dense(sent) /\ Ends(sent) /\ Behindhand
      /\ out.source # "Concealment"
  BY DEF Settled, Steady
<1>6. Calm'
  BY <1>2, <1>4, <1>5 DEF Calm
<1>7. Orderly'
  BY <1>2, <1>4, <1>5 DEF Orderly
<1>8. Whole(sent)'
  <2> SUFFICES ASSUME NEW n \in Streams, NEW s \in Serials, WasSent(sent, <<n, s>>)
               PROVE  Accounted(n, s)'
    BY DEF Whole
  <2>1. Accounted(n, s)
    BY <1>5 DEF Whole
  <2>2. CASE n < jb.streamId
    BY <1>2, <1>4, <2>2 DEF Accounted
  <2>3. ASSUME NEW q \in network, q.stream = n, q.sequence = s PROVE Accounted(n, s)'
    <3>1. CASE q = p
      <4>1. <<n, s>> \in HeldIds(k) /\ n = k.streamId
        BY <1>4, <2>3, <3>1 DEF Id
      <4> QED BY <1>2, <1>4, <4>1 DEF Accounted
    <3>2. CASE q # p
      BY <1>2, <2>3, <3>2 DEF Accounted
    <3> QED BY <3>1, <3>2
  <2>4. CASE n = jb.streamId /\ <<n, s>> \in HeldIds(jb) \cup played
    BY <1>2, <1>4, <2>4 DEF Accounted
  <2> QED BY <2>1, <2>2, <2>3, <2>4 DEF Accounted
<1>9. Dense(sent)'
  BY <1>2, <1>5 DEF Dense
<1>10. \E b \in Nat : OnTime(b)'
  <2>1. PICK b \in Nat : OnTime(b)
    BY DEF Settled, Steady
  <2>2. OnTime(b)'
    BY <1>2, <1>4, <1>5, <2>1 DEF OnTime, Calm
  <2> QED BY <2>1, <2>2
<1>11. Ends(sent)'
  <2>1. /\ k.hasEnd => k.endSequence \in Serials /\ WasSent(sent, <<p.stream, k.endSequence>>)
        /\ p.end /\ Last(sent, p.stream, Mark(p).seq)
             => Last(sent, p.stream, SequencePosition(p.stream, k.endSequence))
        /\ jb.hasEnd /\ Last(sent, p.stream, SequencePosition(p.stream, jb.endSequence))
             => Last(sent, p.stream, SequencePosition(p.stream, k.endSequence))
    BY <1>4, EndCovers
  <2>2. (p.end => k.hasEnd) /\ (jb.hasEnd => k.hasEnd)
    BY <1>4 DEF EndAs
  <2>3. ASSUME NEW n \in Streams, Over(n)' PROVE EndKnown(sent, n)'
    <3>1. Over(n)
      BY <1>2, <2>3 DEF Over
    <3>2. EndKnown(sent, n)
      BY <1>5, <3>1 DEF Ends
    <3>3. ASSUME NEW q \in network, q.stream = n, q.end, Last(sent, n, Mark(q).seq)
          PROVE  EndKnown(sent, n)'
      <4>1. CASE q = p
        <5>1. k.hasEnd /\ n = k.streamId
              /\ Last(sent, n, SequencePosition(n, k.endSequence))
          BY <1>4, <2>1, <2>2, <3>3, <4>1
        <5> QED BY <1>2, <1>4, <5>1 DEF EndKnown
      <4>2. CASE q # p
        BY <1>2, <3>3, <4>2 DEF EndKnown
      <4> QED BY <4>1, <4>2
    <3>4. CASE n < jb.streamId
      BY <1>2, <1>4, <3>4 DEF EndKnown
    <3>5. CASE /\ n = jb.streamId /\ jb.hasEnd
               /\ Last(sent, n, SequencePosition(n, jb.endSequence))
      <4>1. k.hasEnd /\ n = k.streamId
            /\ Last(sent, n, SequencePosition(n, k.endSequence))
        BY <1>4, <2>1, <2>2, <3>5
      <4> QED BY <1>2, <1>4, <4>1 DEF EndKnown
    <3> QED BY <3>2, <3>3, <3>4, <3>5 DEF EndKnown
  <2>4. jb'.hasEnd => /\ jb'.hasStream /\ jb'.endSequence \in Serials
                      /\ WasSent(sent, <<jb'.streamId, jb'.endSequence>>)
    BY <1>2, <1>4, <2>1
  <2> QED BY <2>3, <2>4 DEF Ends
<1>12. Behindhand'
  BY <1>2, <1>4, <1>5 DEF Behindhand
<1> QED BY <1>2, <1>5, <1>6, <1>7, <1>8, <1>9, <1>10, <1>11, <1>12 DEF Steady

\* The packet starts its stream.
LEMMA TakeSteady ==
  ASSUME NEW born \in Births, NEW sent \in SUBSET Marks, Settled(born, sent),
         NEW p \in network, Deliver(p), jb.hasStream => p.stream # jb.streamId
  PROVE  Steady(sent)'
<1>1. PICK k : k = Pushed(jb, p, now)
  OBVIOUS
<1>2. /\ jb' = k /\ network' = network \ {p} /\ UNCHANGED <<now, talker, pulled, out, played, budget>>
  BY <1>1 DEF Deliver, Receive
<1>3. /\ World(born, sent) /\ Sound(born, sent, jb) /\ Once(sent)
      /\ \A q \in network : p.sent <= q.sent
      /\ now \in Nat
  BY DEF Settled, Full, InvWith, World, ProfileOK, BuiltFor, Punctual, Deliver
<1>4. /\ p.start /\ Mark(p).seq = 0
      /\ jb.hasStream => jb.streamId < p.stream /\ jb.streamId \in Nat
  BY <1>3, StartFirst
<1>5. Taken(k, p)
  BY <1>1, <1>4, Takes
<1>6. /\ k.open /\ k.hasStream /\ k.anchored /\ k.streamId = p.stream
      /\ k.queue.cursor = p.sequence /\ now < Due(k) /\ Id(p) \in HeldIds(k)
      /\ k.hasEnd <=> p.end
      /\ p.end => k.endSequence = p.sequence
  BY <1>5 DEF Taken
<1>7. /\ Calm /\ Orderly /\ Whole(sent) /\ Dense(sent) /\ Ends(sent) /\ Behindhand
      /\ out.source # "Concealment"
  BY DEF Settled, Steady
<1>8. /\ p.stream \in Streams /\ p.sequence \in Serials
      /\ Mark(p).seq = SequencePosition(p.stream, p.sequence)
      /\ \A q \in network : q.stream \in Nat /\ q.sent \in Nat
  <2>1. \A q \in network : Known(sent, q) /\ q.sent = TimeOf(born, q.stream, Mark(q).ts)
    BY <1>3 DEF World, PacketOK
  <2>2. \A q \in network : q.stream \in Streams /\ Mark(q).ts \in Nat
    BY <1>3, <2>1, KnownFacts
  <2>3. ASSUME NEW q \in network PROVE q.stream \in Nat /\ q.sent \in Nat
    <3>1. q.stream \in Streams /\ Mark(q).ts \in Nat
          /\ q.sent = TimeOf(born, q.stream, Mark(q).ts)
      BY <2>1, <2>2
    <3>2. TimeOf(born, q.stream, Mark(q).ts) \in Nat
      BY <3>1, TimeNat
    <3>3. q.stream \in Nat
      BY <3>1, ConstantFacts DEF Streams
    <3> QED BY <3>1, <3>2, <3>3
  <2>4. p.stream \in Streams /\ p.sequence \in Serials
        /\ Mark(p).seq = SequencePosition(p.stream, p.sequence)
    BY <1>3, <2>1, KnownFacts
  <2> QED BY <2>3, <2>4
<1>9. Calm'
  BY <1>2, <1>6, <1>7 DEF Calm
<1>10. Orderly'
  <2>1. \A q \in network' : Plain(q)
    BY <1>2, <1>7 DEF Orderly
  <2>2. ASSUME NEW q \in network'
        PROVE  p.stream <= q.stream /\ (q.stream = p.stream => Mark(q).seq > 0)
    <3>1. q \in network /\ q # p /\ p.sent <= q.sent
      BY <1>2, <1>3
    <3>2. q.stream < p.stream => q.sent < p.sent
      BY <1>7, <3>1 DEF Orderly
    <3>3. p.stream <= q.stream
      BY <1>8, <3>1, <3>2
    <3>4. ASSUME q.stream = p.stream PROVE Mark(q).seq > 0
      <4>1. /\ q.sequence \in Serials /\ Mark(q).seq \in Nat
            /\ Mark(q).seq = SequencePosition(p.stream, q.sequence)
        BY <1>3, <3>1, <3>4, KnownFacts DEF World, PacketOK
      <4>2. q.sequence # p.sequence
        BY <1>3, <3>1, <3>4 DEF Once, Id
      <4>3. Mark(q).seq # 0
        BY <1>4, <1>8, <4>1, <4>2, SamePosition
      <4> QED BY <4>1, <4>3
    <3> QED BY <3>3, <3>4
  <2>3. \A q, r \in network' : q.stream < r.stream => q.sent < r.sent
    BY <1>2, <1>7 DEF Orderly
  <2> QED BY <1>2, <1>6, <2>1, <2>2, <2>3 DEF Orderly
<1>11. Whole(sent)'
  <2> SUFFICES ASSUME NEW n \in Streams, NEW s \in Serials, WasSent(sent, <<n, s>>)
               PROVE  Accounted(n, s)'
    BY DEF Whole
  <2>1. Accounted(n, s) /\ n \in Nat
    BY <1>7, ConstantFacts DEF Whole, Streams
  <2>2. CASE jb.hasStream /\ n <= jb.streamId
    <3>1. n < p.stream
      BY <1>4, <1>8, <2>1, <2>2
    <3> QED BY <1>2, <1>6, <3>1 DEF Accounted
  <2>3. ASSUME NEW q \in network, q.stream = n, q.sequence = s PROVE Accounted(n, s)'
    <3>1. CASE q = p
      <4>1. <<n, s>> \in HeldIds(k) /\ n = k.streamId
        BY <1>6, <2>3, <3>1 DEF Id
      <4> QED BY <1>2, <1>6, <4>1 DEF Accounted
    <3>2. CASE q # p
      BY <1>2, <2>3, <3>2 DEF Accounted
    <3> QED BY <3>1, <3>2
  <2>4. jb.hasStream /\ (n < jb.streamId \/ n = jb.streamId) => n <= jb.streamId
    BY <1>4, <2>1
  <2> QED BY <2>1, <2>2, <2>3, <2>4 DEF Accounted
<1>12. Dense(sent)'
  BY <1>2, <1>7 DEF Dense
<1>13. \E b \in Nat : OnTime(b)'
  <2>1. PICK b \in Nat : OnTime(b)
    BY DEF Settled, Steady
  <2>2. b < Due(k) + FrameTicks /\ b < Due(k)
    <3>1. b <= now
      BY <2>1 DEF OnTime
    <3>2. Sound(born, sent, k)
      BY <1>1, <1>3, PushedSound DEF World
    <3>3. Due(k) \in Nat
      BY <1>3, <1>6, <3>2, DueIs DEF Running
    <3> QED BY <1>3, <1>6, <2>1, <3>1, <3>3, ConstantFacts
  <2>3. OnTime(b)'
    BY <1>2, <2>1, <2>2 DEF OnTime
  <2> QED BY <2>1, <2>3
<1>14. Ends(sent)'
  <2>1. WasSent(sent, <<p.stream, p.sequence>>)
    BY <1>3, FlyingSent DEF Id
  <2>2. ASSUME NEW n \in Streams, Over(n)' PROVE EndKnown(sent, n)'
    <3>1. Over(n) /\ n \in Nat
      BY <1>2, <2>2, ConstantFacts DEF Over, Streams
    <3>2. EndKnown(sent, n)
      BY <1>7, <3>1 DEF Ends
    <3>3. ASSUME NEW q \in network, q.stream = n, q.end, Last(sent, n, Mark(q).seq)
          PROVE  EndKnown(sent, n)'
      <4>1. CASE q = p
        <5>1. k.hasEnd /\ n = k.streamId
              /\ Last(sent, n, SequencePosition(n, k.endSequence))
          BY <1>6, <1>8, <3>3, <4>1
        <5> QED BY <1>2, <1>6, <5>1 DEF EndKnown
      <4>2. CASE q # p
        BY <1>2, <3>3, <4>2 DEF EndKnown
      <4> QED BY <4>1, <4>2
    <3>4. CASE jb.hasStream /\ n <= jb.streamId
      <4>1. n < p.stream
        BY <1>4, <1>8, <3>1, <3>4
      <4> QED BY <1>2, <1>6, <4>1 DEF EndKnown
    <3>5. jb.hasStream /\ (n < jb.streamId \/ n = jb.streamId) => n <= jb.streamId
      BY <1>4, <3>1
    <3> QED BY <3>2, <3>3, <3>4, <3>5 DEF EndKnown
  <2>3. jb'.hasEnd => /\ jb'.hasStream /\ jb'.endSequence \in Serials
                      /\ WasSent(sent, <<jb'.streamId, jb'.endSequence>>)
    BY <1>2, <1>6, <1>8, <2>1
  <2> QED BY <2>2, <2>3 DEF Ends
<1>15. Behindhand'
  <2> SUFFICES ASSUME NEW n, NEW s, <<n, s>> \in played
               PROVE  n < p.stream
    BY <1>2, <1>6 DEF Behindhand
  <2>1. jb.hasStream /\ (n < jb.streamId \/ n = jb.streamId)
    BY <1>7 DEF Behindhand
  <2>2. n \in Nat
    <3>1. WasSent(sent, <<n, s>>)
      BY <1>3 DEF Once
    <3> QED BY <3>1, ConstantFacts DEF WasSent, Marks, Streams
  <2> QED BY <1>4, <1>8, <2>1, <2>2
<1> QED BY <1>2, <1>7, <1>9, <1>10, <1>11, <1>12, <1>13, <1>14, <1>15 DEF Steady

-------------------------------------------------------------------------------
(* The device pulls: it waits, plays the frame at the cursor, or is past the end *)

StillAt(k, j) ==
  /\ (k.open <=> j.open) /\ (k.hasStream <=> j.hasStream) /\ (k.anchored <=> j.anchored)
  /\ k.streamId = j.streamId
  /\ k.queue = j.queue
  /\ Due(k) = Due(j)
  /\ (k.hasEnd <=> j.hasEnd) /\ k.endSequence = j.endSequence

\* peek_and_align() changes nothing where every talkspurt has its stream.
LEMMA AlignStill ==
  ASSUME NEW born \in Births, NEW sent \in SUBSET Marks, World(born, sent),
         NEW j, Running(born, sent, j), profile.perTalkspurt
  PROVE  StillAt(Align(j), j) /\ Running(born, sent, Align(j))
<1>1. PICK k : k = Align(j)
  OBVIOUS
<1>2. /\ Running(born, sent, k) /\ k.queue = j.queue /\ Playout(k) = Playout(j)
      /\ k.streamId = j.streamId /\ k.anchorTs = j.anchorTs /\ k.anchorLocal = j.anchorLocal
  BY <1>1, AlignSound DEF SameAnchor
<1>3. BufferFields \subseteq DOMAIN j
  BY DEF Running, Sound
<1>4. k = j \/ k = [j EXCEPT !.playoutTs = NextFrame(j).timestamp]
  BY <1>1 DEF Align
<1>5. /\ (k.open <=> j.open) /\ (k.hasStream <=> j.hasStream) /\ (k.anchored <=> j.anchored)
      /\ (k.hasEnd <=> j.hasEnd) /\ k.endSequence = j.endSequence
  BY <1>3, <1>4 DEF BufferFields
<1>6. Due(k) = Due(j)
  <2>1. Lag(born, j.streamId, k) = Lag(born, j.streamId, j)
    BY <1>2 DEF Lag
  <2>2. Due(k) = TimeOf(born, k.streamId, Playout(k)) + Lag(born, k.streamId, k)
    BY <1>2, DueIs
  <2>3. Due(j) = TimeOf(born, j.streamId, Playout(j)) + Lag(born, j.streamId, j)
    BY DueIs
  <2> QED BY <1>2, <2>1, <2>2, <2>3
<1> QED BY <1>1, <1>2, <1>5, <1>6 DEF StillAt

\* A device that pulls every frame time never makes the cursor jump.
LEMMA ReadyStill ==
  ASSUME NEW born \in Births, NEW sent \in SUBSET Marks, Settled(born, sent),
         jb.anchored, ~pulled, ~Waits(jb, now)
  PROVE  LET r == Ready(jb, now)
         IN  StillAt(r, jb) /\ Running(born, sent, r) /\ Due(jb) <= now
<1>1. /\ World(born, sent) /\ Running(born, sent, jb) /\ profile.perTalkspurt
      /\ MaxCatchup >= 1 /\ now \in Nat
  BY DEF Settled, Full, InvWith, Running, BuiltFor, Punctual, World, ProfileOK
<1>2. PICK a : a = Align(jb)
  OBVIOUS
<1>3. StillAt(a, jb) /\ Running(born, sent, a)
  BY <1>1, <1>2, AlignStill
<1>4. Due(a) = Due(jb) /\ Due(a) \in Nat
  BY <1>1, <1>3, DueIs DEF StillAt
<1>5. Due(a) <= now
  BY <1>1, <1>2, <1>4 DEF Waits
<1>6. PICK b \in Nat : OnTime(b)
  BY DEF Settled, Steady
<1>7. b < Due(a) + FrameTicks /\ now < b + FrameTicks
  BY <1>4, <1>6 DEF OnTime
<1>8. PICK late : late = now - Due(a)
  OBVIOUS
<1>9. late \in Nat /\ late < FrameTicks + FrameTicks /\ FrameTicks \in Nat
  BY <1>1, <1>4, <1>5, <1>6, <1>7, <1>8, ConstantFacts
<1>10. PICK d : d = late \div FrameTicks
  OBVIOUS
<1>11. d \in Nat /\ FrameTicks * d <= late
  BY <1>9, <1>10, BehindIs
<1>12. ASSUME d > 1 PROVE FALSE
  <2>1. FrameTicks * 2 <= FrameTicks * d /\ FrameTicks * d \in Int
    BY <1>9, <1>11, <1>12, TicksMonotone
  <2>2. FrameTicks * 2 = FrameTicks + FrameTicks
    BY <1>9
  <2> QED BY <1>9, <1>11, <2>1, <2>2
<1>13. ~(Behind(a, now) > MaxCatchup)
  <2>1. Behind(a, now) = d
    BY <1>8, <1>10 DEF Behind
  <2> QED BY <1>1, <1>11, <1>12, <2>1, ConstantFacts
<1>14. Ready(jb, now) = a
  BY <1>2, <1>13 DEF Ready
<1> QED BY <1>3, <1>4, <1>5, <1>14

\* Where nothing waits at the cursor of a timeline that is due, the stream is over
\* and the buffer knows its END.
LEMMA PastTheEnd ==
  ASSUME NEW born \in Births, NEW sent \in SUBSET Marks, Settled(born, sent),
         jb.anchored, Due(jb) <= now, NEW r, StillAt(r, jb), ~HasNext(r)
  PROVE  PastEnd(r)
<1>1. /\ World(born, sent) /\ Sound(born, sent, jb) /\ Running(born, sent, jb) /\ Ahead
      /\ profile.perTalkspurt /\ profile.delay < TargetDelay /\ now \in Nat
      /\ Dense(sent) /\ Whole(sent) /\ Ends(sent) /\ Behindhand /\ jb.hasStream
      /\ TalkerOK(born)
  BY DEF Settled, Steady, Full, InvWith, World, Running, BuiltFor, Punctual, Calm, ProfileOK
<1> DEFINE n == jb.streamId
           c == jb.queue.cursor
           x == SequencePosition(n, c)
<1>2. /\ n \in Streams /\ c \in Serials /\ x = Playout(jb) /\ x \in Nat /\ x < Half
      /\ n \in Nat /\ n <= talker.stream
      /\ jb.playoutTs \in Serials
      /\ jb.queue.started
      /\ Windowed(sent, n, c, jb.queue.slots)
  <2>1. n \in Streams /\ c \in Serials /\ Playout(jb) \in Nat /\ Playout(jb) < Half
        /\ jb.playoutTs \in Serials
    BY <1>1, DueIs
  <2>2. x = Playout(jb)
    BY <1>1 DEF Sound, Projected, Playout
  <2> QED BY <1>1, <2>1, <2>2, ConstantFacts DEF Sound, Streams
<1>3. ~Holds(jb.queue, c)
  <2>1. Distance(c, c) = x - x
    BY <1>2, SequenceDistance
  <2>2. Distance(c, c) \in 0 .. Capacity - 1
    BY <1>2, <2>1, ConstantFacts
  <2> QED BY <1>2, <2>2 DEF HasNext, Peek, StillAt
<1> HIDE DEF n, c, x
<1>4. ASSUME Marked(sent, n, x) PROVE FALSE
  <2>1. WasSent(sent, <<n, c>>)
    BY <1>4, MarkedIs DEF x
  <2>2. Accounted(n, c)
    BY <1>1, <1>2, <2>1 DEF Whole
  <2>3. ~(n < jb.streamId)
    BY <1>2 DEF n
  <2>4. ASSUME NEW q \in network, q.stream = n, q.sequence = c PROVE FALSE
    <3>1. PacketOK(born, sent, q)
      BY <1>1 DEF World
    <3>2. /\ q.timestamp \in Serials /\ Mark(q).ts = TimestampPosition(n, q.timestamp)
          /\ Mark(q).seq = x /\ Mark(q).seq = Mark(q).ts
      BY <1>1, <2>4, <3>1, KnownFacts DEF PacketOK, x
    <3>3. TimestampPosition(n, q.timestamp) = TimestampPosition(n, jb.playoutTs)
      BY <1>2, <3>2 DEF Playout, n
    <3>4. q.timestamp = jb.playoutTs
      BY <1>2, <3>2, <3>3, PositionInverse, ConstantFacts DEF TimestampPosition
    <3>5. now < DeadlineOf(jb, q.timestamp) /\ DeadlineOf(jb, q.timestamp) \in Nat
      BY <1>1, <2>4, <3>1, NotYetDue DEF n
    <3> QED BY <1>1, <3>4, <3>5 DEF Due
  <2>5. <<n, c>> \notin HeldIds(jb)
    <3> SUFFICES ASSUME <<n, c>> \in HeldIds(jb) PROVE FALSE
      OBVIOUS
    <3>1. PICK i \in DOMAIN jb.queue.slots : jb.queue.slots[i].sequence = c
      BY DEF HeldIds
    <3>2. Index(c) = i
      BY <1>2, <3>1 DEF Windowed
    <3> QED BY <1>3, <3>1, <3>2 DEF Holds
  <2>6. <<n, c>> \notin played
    BY <1>1, <1>2, <2>3 DEF Behindhand, n, c, x
  <2> QED BY <2>2, <2>3, <2>4, <2>5, <2>6 DEF Accounted
<1>5. ASSUME NEW m \in sent, m.stream = n PROVE m.seq < x /\ m.seq \in Nat
  <2>1. m.seq \in Nat
    BY DEF Marks
  <2>2. x \in 0 .. m.seq => Marked(sent, n, x)
    BY <1>1, <1>5 DEF Dense
  <2> QED BY <1>2, <1>4, <2>1, <2>2
<1>6. Over(n)
  <2>1. talker.stream \in Nat
    BY <1>1, ConstantFacts DEF TalkerOK
  <2>2. ASSUME n = talker.stream, talker.talking PROVE FALSE
    <3>1. talker.stream # 0
      BY <1>2, <2>2, ConstantFacts DEF Streams
    <3>2. NextSeq(talker) \in Nat /\ NextTs(talker) \in Nat /\ NextSeq(talker) = NextTs(talker)
      BY <1>1, <2>2, <3>1, NextTypes DEF TalkerOK
    <3>3. NextSeq(talker) > 0 /\ Marked(sent, n, NextSeq(talker) - 1)
      BY <1>1, <2>2, <3>1 DEF Dense
    <3>4. PICK m \in sent : m.stream = n /\ m.seq = NextSeq(talker) - 1
      BY <3>3 DEF Marked
    <3>5. NextTs(talker) <= x
      BY <1>2, <1>5, <3>2, <3>4
    <3>6. now < TimeOf(born, n, NextTs(talker))
      BY <1>1, <2>2, <3>1 DEF TalkerOK
    <3>7. TimeOf(born, n, NextTs(talker)) <= TimeOf(born, n, x)
      BY <1>2, <3>2, <3>5, TimeType
    <3>8. /\ Due(jb) = TimeOf(born, n, x) + Lag(born, n, jb) /\ Lag(born, n, jb) \in Nat
          /\ Due(jb) \in Nat
      BY <1>1, <1>2, DueIs DEF n
    <3>9. TimeOf(born, n, x) \in Nat /\ TimeOf(born, n, NextTs(talker)) \in Nat
      BY <1>2, <3>2, TimeNat
    <3> QED BY <1>1, <3>6, <3>7, <3>8, <3>9
  <2> QED BY <1>2, <2>1, <2>2 DEF Over
<1>7. EndKnown(sent, n)
  BY <1>1, <1>2, <1>6 DEF Ends
<1>8. jb.hasEnd
  <2>1. ASSUME NEW p \in network, p.stream = n PROVE FALSE
    <3>1. x <= Mark(p).seq
      BY <1>1, <2>1 DEF Ahead, n, c, x
    <3>2. Mark(p) \in sent /\ Mark(p).stream = n
      BY <1>1, <2>1, KnownFacts DEF World, PacketOK
    <3>3. Mark(p).seq < x /\ Mark(p).seq \in Nat
      BY <1>5, <3>2
    <3> QED BY <1>2, <3>1, <3>3
  <2>2. ~(n < jb.streamId)
    BY <1>2 DEF n
  <2> QED BY <1>7, <2>1, <2>2 DEF EndKnown
<1>9. PICK e : e = jb.endSequence
  OBVIOUS
<1>10. e \in Serials /\ WasSent(sent, <<n, e>>)
  BY <1>1, <1>8, <1>9 DEF Ends, n
<1>11. PICK m \in sent : m.stream = n /\ m.seq = SequencePosition(n, e)
  BY <1>10 DEF WasSent
<1>12. SequencePosition(n, e) \in Nat /\ SequencePosition(n, e) < x
  BY <1>5, <1>11
<1>13. Distance(c, e) = SequencePosition(n, e) - x
  <2>1. SequencePosition(n, e) < Half /\ SequencePosition(n, c) < Half
    BY <1>2, <1>12, ConstantFacts DEF x
  <2> QED BY <1>2, <1>10, <2>1, SequenceDistance DEF x
<1>14. ~PrecedesOrEqual(c, e)
  BY <1>2, <1>12, <1>13 DEF PrecedesOrEqual
<1>15. r.hasEnd /\ r.queue.cursor = c /\ r.endSequence = e
  BY <1>8, <1>9 DEF StillAt, c
<1> QED BY <1>14, <1>15 DEF PastEnd

\* The device waits, and is on time if the timeline is not due.
LEMMA WaitSteady ==
  ASSUME NEW born \in Births, NEW sent \in SUBSET Marks, Settled(born, sent),
         NEW k, jb' = k, StillAt(k, jb), played' = played, out'.source # "Concealment",
         UNCHANGED <<now, talker, network, budget>>,
         jb.anchored => now < Due(jb) /\ Due(jb) \in Nat
  PROVE  Steady(sent)'
<1>1. /\ Calm /\ Orderly /\ Whole(sent) /\ Dense(sent) /\ Ends(sent) /\ Behindhand
      /\ now \in Nat
  BY DEF Settled, Steady, Full, InvWith, World, ProfileOK
<1>2. /\ (k.open <=> jb.open) /\ (k.hasStream <=> jb.hasStream) /\ (k.anchored <=> jb.anchored)
      /\ k.streamId = jb.streamId /\ k.queue = jb.queue /\ Due(k) = Due(jb)
      /\ (k.hasEnd <=> jb.hasEnd) /\ k.endSequence = jb.endSequence
  BY DEF StillAt
<1>3. Calm'
  BY <1>1, <1>2 DEF Calm
<1>4. Orderly'
  BY <1>1, <1>2 DEF Orderly
<1>5. Whole(sent)'
  <2>1. HeldIds(k) = HeldIds(jb)
    BY <1>2 DEF HeldIds
  <2> QED BY <1>1, <1>2, <2>1 DEF Whole, Accounted
<1>6. Dense(sent)'
  BY <1>1 DEF Dense
<1>7. \E b \in Nat : OnTime(b)'
  <2>1. PICK b \in Nat : OnTime(b)
    BY DEF Settled, Steady
  <2>2. jb.anchored => b < Due(jb)
    BY <1>1, <2>1 DEF OnTime
  <2>3. OnTime(b)'
    BY <1>2, <2>1, <2>2 DEF OnTime
  <2> QED BY <2>1, <2>3
<1>8. Ends(sent)'
  BY <1>1, <1>2 DEF Ends, Over, EndKnown
<1>9. Behindhand'
  BY <1>1, <1>2 DEF Behindhand
<1> QED BY <1>3, <1>4, <1>5, <1>6, <1>7, <1>8, <1>9 DEF Steady

\* The cursor moves on by one frame, and what it leaves behind was played.
Moved(k, j, before, after) ==
  /\ k.open /\ k.hasStream /\ k.anchored
  /\ k.streamId = j.streamId
  /\ Due(k) = Due(j) + FrameTicks
  /\ SequencePosition(k.streamId, k.queue.cursor) = SequencePosition(j.streamId, j.queue.cursor) + 1
  /\ \A x, y : <<x, y>> \in HeldIds(j) => <<x, y>> \in HeldIds(k) \cup after
  /\ before \subseteq after
  /\ after \subseteq before \cup {<<j.streamId, j.queue.cursor>>}
  /\ (k.hasEnd <=> j.hasEnd) /\ k.endSequence = j.endSequence

\* The device plays on.
LEMMA MoveSteady ==
  ASSUME NEW born \in Births, NEW sent \in SUBSET Marks, Settled(born, sent),
         NEW k, jb' = k, jb.anchored, Moved(k, jb, played, played'),
         out'.source # "Concealment", UNCHANGED <<now, talker, network, budget>>
  PROVE  Steady(sent)'
<1>1. /\ Calm /\ Orderly /\ Whole(sent) /\ Dense(sent) /\ Ends(sent) /\ Behindhand
      /\ World(born, sent) /\ Running(born, sent, jb) /\ jb.hasStream
  BY DEF Settled, Steady, Full, InvWith, Running, Calm
<1>2. /\ k.open /\ k.hasStream /\ k.anchored /\ k.streamId = jb.streamId
      /\ Due(k) = Due(jb) + FrameTicks
      /\ SequencePosition(k.streamId, k.queue.cursor)
           = SequencePosition(jb.streamId, jb.queue.cursor) + 1
      /\ \A x, y : <<x, y>> \in HeldIds(jb) => <<x, y>> \in HeldIds(k) \cup played'
      /\ played \subseteq played'
      /\ played' \subseteq played \cup {<<jb.streamId, jb.queue.cursor>>}
      /\ (k.hasEnd <=> jb.hasEnd) /\ k.endSequence = jb.endSequence
  BY DEF Moved
<1>3. Calm'
  BY <1>1, <1>2 DEF Calm
<1>4. Orderly'
  BY <1>1, <1>2 DEF Orderly
<1>5. Whole(sent)'
  <2> SUFFICES ASSUME NEW n \in Streams, NEW s \in Serials, WasSent(sent, <<n, s>>)
               PROVE  Accounted(n, s)'
    BY DEF Whole
  <2>1. Accounted(n, s)
    BY <1>1 DEF Whole
  <2>2. CASE n < jb.streamId \/ \E p \in network : p.stream = n /\ p.sequence = s
    BY <1>2, <2>2 DEF Accounted
  <2>3. CASE n = jb.streamId /\ <<n, s>> \in HeldIds(jb) \cup played
    <3>1. <<n, s>> \in HeldIds(k) \cup played'
      BY <1>2, <2>3
    <3> QED BY <1>2, <2>3, <3>1 DEF Accounted
  <2> QED BY <2>1, <2>2, <2>3 DEF Accounted
<1>6. Dense(sent)'
  BY <1>1 DEF Dense
<1>7. \E b \in Nat : OnTime(b)'
  <2>1. PICK b \in Nat : OnTime(b)
    BY DEF Settled, Steady
  <2>2. b < Due(jb) + FrameTicks
    BY <2>1 DEF OnTime
  <2>3. Due(jb) \in Nat /\ FrameTicks \in Nat
    BY <1>1, DueIs, ConstantFacts
  <2>4. b < Due(k) /\ b < Due(k) + FrameTicks
    BY <1>2, <2>1, <2>2, <2>3
  <2>5. OnTime(b)'
    BY <2>1, <2>4 DEF OnTime
  <2> QED BY <2>1, <2>5
<1>8. Ends(sent)'
  BY <1>1, <1>2 DEF Ends, Over, EndKnown
<1>9. Behindhand'
  <2> SUFFICES ASSUME NEW n, NEW s, <<n, s>> \in played'
               PROVE  \/ n < k.streamId
                      \/ /\ n = k.streamId
                         /\ SequencePosition(n, s) < SequencePosition(n, k.queue.cursor)
    BY <1>2 DEF Behindhand
  <2>1. jb.streamId \in Streams /\ jb.queue.cursor \in Serials
    BY <1>1, DueIs
  <2>2. SequencePosition(jb.streamId, jb.queue.cursor) \in Nat
    BY <2>1, PositionTypes
  <2>3. CASE <<n, s>> \in played
    <3>1. ASSUME n = jb.streamId PROVE SequencePosition(n, s) \in Nat
      <4>1. WasSent(sent, <<n, s>>)
        BY <2>3 DEF Settled, Once
      <4> QED BY <4>1 DEF WasSent, Marks
    <3>2. \/ n < jb.streamId
          \/ /\ n = jb.streamId
             /\ SequencePosition(n, s) < SequencePosition(n, jb.queue.cursor)
      BY <1>1, <2>3 DEF Behindhand
    <3> QED BY <1>2, <2>2, <3>1, <3>2
  <2>4. CASE n = jb.streamId /\ s = jb.queue.cursor
    BY <1>2, <2>2, <2>4
  <2> QED BY <1>2, <2>3, <2>4
<1> QED BY <1>3, <1>4, <1>5, <1>6, <1>7, <1>8, <1>9 DEF Steady

\* A pull.
LEMMA PullSteady ==
  ASSUME NEW born \in Births, NEW sent \in SUBSET Marks, Settled(born, sent),
         NEW ok \in profile.decoders, Pull(ok)
  PROVE  Steady(sent)'
<1>1. /\ World(born, sent) /\ Sound(born, sent, jb) /\ jb.open /\ "decode" \in ok
      /\ profile.perTalkspurt /\ (jb.hasStream <=> jb.anchored) /\ now \in Nat
  BY DEF Settled, Steady, Calm, BuiltFor, Punctual, Full, InvWith, World, ProfileOK
<1>2. PICK k : k = Pulled(jb, now, ok)
  OBVIOUS
<1>3. jb' = k /\ ~pulled /\ UNCHANGED <<now, talker, network, budget>>
  BY <1>2 DEF Pull
<1>4. CASE Waits(jb, now)
  <2>1. out' = [source |-> "Silence"] /\ played' = played
    BY <1>4 DEF Pull
  <2>2. out'.source # "Concealment"
    BY <2>1
  <2>3. StillAt(k, jb) /\ (jb.anchored => now < Due(jb) /\ Due(jb) \in Nat)
    <3>1. CASE ~jb.anchored
      <4>1. k = jb
        BY <1>2, <3>1 DEF Pulled
      <4> QED BY <3>1, <4>1 DEF StillAt
    <3>2. CASE jb.anchored
      <4>1. PICK a : a = Align(jb)
        OBVIOUS
      <4>2. k = a
        BY <1>1, <1>2, <1>4, <3>2, <4>1 DEF Pulled
      <4>3. StillAt(a, jb)
        BY <1>1, <3>2, <4>1, AlignStill DEF Running
      <4>4. now < Due(a)
        BY <1>4, <3>2, <4>1 DEF Waits
      <4>5. Due(jb) \in Nat
        BY <1>1, <3>2, DueIs DEF Running
      <4> QED BY <4>2, <4>3, <4>4, <4>5 DEF StillAt
    <3> QED BY <3>1, <3>2
  <2> QED BY <1>3, <2>1, <2>2, <2>3, WaitSteady
<1>5. CASE ~Waits(jb, now)
  <2>1. jb.anchored /\ jb.hasStream
    BY <1>1, <1>5 DEF Waits
  <2>2. PICK r : r = Ready(jb, now)
    OBVIOUS
  <2>3. StillAt(r, jb) /\ Running(born, sent, r) /\ Due(jb) <= now
    BY <1>3, <1>5, <2>1, <2>2, ReadyStill
  <2>4. TimeOf(born, r.streamId, Playout(r)) <= now
    BY <1>1, <1>5, <2>1, <2>2, ReadySound DEF Running
  <2>5. PICK run : k = Stepped(r, run)
    BY <1>1, <1>2, <1>5, <2>1, <2>2 DEF Pulled
  <2>6. /\ Running(born, sent, k) /\ SameAnchor(k, r) /\ Due(k) = Due(r) + FrameTicks
        /\ SequencePosition(k.streamId, k.queue.cursor)
             = SequencePosition(r.streamId, r.queue.cursor) + 1
        /\ \A x, y : <<x, y>> \in HeldIds(r) /\ y # r.queue.cursor => <<x, y>> \in HeldIds(k)
        /\ (k.open <=> r.open) /\ (k.hasStream <=> r.hasStream)
        /\ (k.hasEnd <=> r.hasEnd) /\ k.endSequence = r.endSequence
    BY <1>1, <2>3, <2>4, <2>5, SteppedIs
  <2>7. /\ r.streamId = jb.streamId /\ r.queue = jb.queue /\ Due(r) = Due(jb)
        /\ (r.open <=> jb.open) /\ (r.hasStream <=> jb.hasStream)
        /\ (r.hasEnd <=> jb.hasEnd) /\ r.endSequence = jb.endSequence
        /\ HeldIds(r) = HeldIds(jb)
    BY <2>3 DEF StillAt, HeldIds
  <2>8. /\ k.open /\ k.hasStream /\ k.anchored /\ k.streamId = jb.streamId
        /\ Due(k) = Due(jb) + FrameTicks
        /\ SequencePosition(k.streamId, k.queue.cursor)
             = SequencePosition(jb.streamId, jb.queue.cursor) + 1
        /\ \A x, y : <<x, y>> \in HeldIds(jb) /\ y # jb.queue.cursor => <<x, y>> \in HeldIds(k)
        /\ (k.hasEnd <=> jb.hasEnd) /\ k.endSequence = jb.endSequence
    BY <1>1, <2>1, <2>6, <2>7 DEF Running, SameAnchor
  <2>9. \A x, y : <<x, y>> \in HeldIds(jb) => x = jb.streamId
    BY <1>1, <2>1 DEF HeldIds, Sound, Windowed
  <2>10. /\ out'.source # "Concealment"
         /\ \/ HasNext(r) /\ played' = played \cup {<<jb.streamId, jb.queue.cursor>>}
            \/ ~HasNext(r) /\ played' = played
    <3>1. CASE HasNext(r)
      <4>1. PullSource(r, ok) = "Packet"
        BY <1>1, <3>1 DEF PullSource
      <4>2. NextFrame(r).stream = jb.streamId /\ NextFrame(r).sequence = jb.queue.cursor
        BY <1>1, <2>3, <2>7, <3>1, NextIs
      <4>3. /\ out'.source = "Packet"
            /\ played' = played \cup {<<NextFrame(r).stream, NextFrame(r).sequence>>}
        BY <1>1, <1>5, <2>2, <4>1 DEF Pull
      <4> QED BY <3>1, <4>2, <4>3
    <3>2. CASE ~HasNext(r)
      <4>1. PastEnd(r)
        BY <2>1, <2>3, <3>2, PastTheEnd
      <4>2. PullSource(r, ok) = "Silence"
        BY <3>2, <4>1 DEF PullSource
      <4>3. out' = [source |-> "Silence"] /\ played' = played
        BY <1>1, <1>5, <2>2, <4>2 DEF Pull
      <4> QED BY <3>2, <4>3
    <3> QED BY <3>1, <3>2
  <2>11. ~HasNext(r) => \A x, y : <<x, y>> \in HeldIds(jb) => y # jb.queue.cursor
    <3> SUFFICES ASSUME NEW x, NEW y, <<x, y>> \in HeldIds(jb), y = jb.queue.cursor
                 PROVE  HasNext(r)
      OBVIOUS
    <3>1. PICK i \in DOMAIN jb.queue.slots : jb.queue.slots[i].sequence = jb.queue.cursor
      BY DEF HeldIds
    <3>2. Index(jb.queue.cursor) = i /\ jb.queue.started
      BY <1>1, <2>1, <3>1 DEF Sound, Windowed
    <3>3. Holds(jb.queue, jb.queue.cursor)
      BY <3>1, <3>2 DEF Holds
    <3>4. jb.streamId \in Streams /\ jb.queue.cursor \in Serials
          /\ SequencePosition(jb.streamId, jb.queue.cursor) \in Nat
          /\ SequencePosition(jb.streamId, jb.queue.cursor) < Half
      <4>1. Running(born, sent, jb)
        BY <1>1, <2>1 DEF Running
      <4>2. SequencePosition(jb.streamId, jb.queue.cursor) = Playout(jb)
        BY <1>1, <2>1 DEF Sound, Projected, Playout
      <4> QED BY <1>1, <4>1, <4>2, DueIs
    <3>5. Distance(jb.queue.cursor, jb.queue.cursor) \in 0 .. Capacity - 1
      <4>1. PICK x0 : x0 = SequencePosition(jb.streamId, jb.queue.cursor)
        OBVIOUS
      <4>2. Distance(jb.queue.cursor, jb.queue.cursor) = x0 - x0
        BY <3>4, <4>1, SequenceDistance
      <4> QED BY <3>4, <4>1, <4>2, ConstantFacts
    <3> QED BY <2>7, <3>2, <3>3, <3>5 DEF HasNext, Peek
  <2>12. \A x, y : <<x, y>> \in HeldIds(jb) => <<x, y>> \in HeldIds(k) \cup played'
    <3> SUFFICES ASSUME NEW x, NEW y, <<x, y>> \in HeldIds(jb)
                 PROVE  <<x, y>> \in HeldIds(k) \cup played'
      OBVIOUS
    <3>1. CASE y # jb.queue.cursor
      BY <2>8, <3>1
    <3>2. CASE y = jb.queue.cursor
      BY <2>9, <2>10, <2>11, <3>2
    <3> QED BY <3>1, <3>2
  <2>13. Moved(k, jb, played, played')
    BY <2>8, <2>10, <2>12 DEF Moved
  <2>14. out'.source # "Concealment"
    BY <2>10
  <2> QED BY <1>3, <2>1, <2>13, <2>14, MoveSteady
<1> QED BY <1>4, <1>5

-------------------------------------------------------------------------------
(* Nothing vanishes and nothing is invented *)

\* The inductive invariant with the environment's part.
SteadyInv ==
  \E born \in Births, sent \in SUBSET Marks : Full(born, sent) /\ (BuiltFor => Steady(sent))

\* It holds at the start.
LEMMA InitSteady == Init => SteadyInv
<1> SUFFICES ASSUME Init PROVE SteadyInv
  OBVIOUS
<1>1. PICK born \in Births, sent \in SUBSET Marks : Full(born, sent)
  BY InitInv DEF Inv
<1>2. sent = {}
  <2>1. talker.stream = 0
    BY DEF Init
  <2>2. ASSUME NEW m \in sent PROVE FALSE
    <3>1. m.stream <= 0 /\ m.stream \in Streams
      BY <1>1, <2>1 DEF Full, InvWith, World, MarkOK, Marks
    <3> QED BY <3>1, ConstantFacts DEF Streams
  <2> QED BY <2>2
<1>3. ASSUME BuiltFor PROVE Steady({})
  <2>1. profile.lost = 0 /\ profile.stalls = 0 /\ profile.closes = 0
    BY <1>1, <1>3, BuiltForIs DEF Full, InvWith, World
  <2>2. /\ jb.open /\ ~jb.hasStream /\ ~jb.anchored /\ ~jb.hasEnd
    BY DEF Init, OpenBuffer, ClosedBuffer
  <2>3. network = {} /\ played = {} /\ talker.stream = 0 /\ now = 1
    BY DEF Init
  <2>4. Calm
    BY <2>1, <2>2 DEF Init, Calm
  <2>5. Orderly /\ Behindhand
    BY <2>3 DEF Orderly, Behindhand
  <2>6. Whole({}) /\ Dense({})
    BY <2>3 DEF Whole, Dense, WasSent
  <2>7. \E b \in Nat : OnTime(b)
    <3>1. FrameTicks \in Nat /\ FrameTicks > 0
      BY ConstantFacts
    <3>2. CASE FrameTicks = 1
      <4>1. 1 % FrameTicks = 0
        BY <3>2
      <4>2. OnTime(1)
        BY <2>2, <2>3, <3>2, <4>1 DEF OnTime
      <4> QED BY <4>2
    <3>3. CASE FrameTicks > 1
      <4>1. 0 % FrameTicks = 0
        BY <3>1, <3>3
      <4>2. OnTime(0)
        BY <2>2, <2>3, <3>1, <3>3, <4>1 DEF OnTime
      <4> QED BY <4>2
    <3> QED BY <3>1, <3>2, <3>3
  <2>8. Ends({})
    <3>1. \A n \in Streams : ~Over(n)
      BY <2>3, ConstantFacts DEF Over, Streams
    <3> QED BY <2>2, <3>1 DEF Ends
  <2>9. out.source # "Concealment"
    BY DEF Init, NothingOut
  <2> QED BY <2>4, <2>5, <2>6, <2>7, <2>8, <2>9 DEF Steady
<1> QED BY <1>1, <1>2, <1>3 DEF SteadyInv

\* A step of another kind than a tick.
LEMMA OtherSteady ==
  ASSUME NEW born \in Births, NEW sent \in SUBSET Marks, Settled(born, sent),
         [Next]_vars, ~Tick
  PROVE  Steady(sent)'
<1>1. Calm /\ budget.copies = 0
  BY DEF Settled, Steady, Once
<1>2. ASSUME NEW p \in network, Deliver(p) PROVE Steady(sent)'
  <2>1. CASE jb.hasStream /\ p.stream = jb.streamId
    BY <1>2, <2>1, JoinSteady
  <2>2. CASE jb.hasStream => p.stream # jb.streamId
    BY <1>2, <2>2, TakeSteady
  <2> QED BY <2>1, <2>2
<1>3. ASSUME NEW p \in network, Duplicate(p) \/ Lose(p) PROVE FALSE
  BY <1>1, <1>3 DEF Duplicate, Lose, Calm
<1>4. ASSUME NEW ok \in profile.decoders, Pull(ok) PROVE Steady(sent)'
  BY <1>4, PullSteady
<1>5. CASE Close \/ \E opened \in BOOLEAN : Open(opened)
  BY <1>1, <1>5 DEF Close, Open, Calm
<1>6. CASE UNCHANGED vars
  <2>1. /\ jb' = jb /\ now' = now /\ talker' = talker /\ network' = network
        /\ budget' = budget /\ pulled' = pulled /\ out' = out /\ played' = played
    BY <1>6 DEF vars
  <2>2. Steady(sent)
    BY DEF Settled
  <2>3. Calm' /\ Orderly' /\ Behindhand' /\ out'.source # "Concealment"
    BY <2>1, <2>2 DEF Steady, Calm, Orderly, Behindhand
  <2>4. Whole(sent)'
    BY <2>1, <2>2 DEF Steady, Whole, Accounted
  <2>5. Dense(sent)'
    BY <2>1, <2>2 DEF Steady, Dense
  <2>6. \E b \in Nat : OnTime(b)'
    BY <2>1, <2>2 DEF Steady, OnTime
  <2>7. Ends(sent)'
    BY <2>1, <2>2 DEF Steady, Ends, Over, EndKnown
  <2> QED BY <2>3, <2>4, <2>5, <2>6, <2>7 DEF Steady
<1> QED BY <1>2, <1>3, <1>4, <1>5, <1>6 DEF Next, Finish

\* Every step leaves it true.
LEMMA NextSteady == SteadyInv /\ InTime /\ [Next]_vars => SteadyInv'
<1> SUFFICES ASSUME SteadyInv, InTime, [Next]_vars PROVE SteadyInv'
  OBVIOUS
<1>1. PICK born \in Births, sent \in SUBSET Marks : Full(born, sent) /\ (BuiltFor => Steady(sent))
  BY DEF SteadyInv
<1>2. profile' = profile
  BY DEF Next, Tick, Deliver, Duplicate, Receive, Lose, Pull, Close, Open, Finish, vars
<1>3. BuiltFor' => BuiltFor
  BY <1>2 DEF BuiltFor, Covered, Punctual
<1>4. BuiltFor => Settled(born, sent)
  BY <1>1 DEF Settled, Full, BuiltFor, Punctual, InTime
<1>5. CASE Tick
  <2>1. Ticked(sent)
    BY <1>1, <1>5, TickStep DEF Full
  <2>2. PICK born2 \in Births, sent2 \in SUBSET Marks :
          /\ InvWith(born2, sent2)'
          /\ sent2 = sent \cup {Mark(p) : p \in network' \ network}
          /\ Fresh(sent)
    BY <2>1 DEF Ticked
  <2>3. World(born, sent) /\ Sound(born, sent, jb)
    BY <1>1 DEF Full, InvWith
  <2>4. profile.copies = 0 => Once(sent2)'
    BY <1>1, <1>5, <2>2, <2>3, TickOnce DEF Full
  <2>5. Full(born2, sent2)'
    BY <1>2, <2>2, <2>4 DEF Full
  <2>6. BuiltFor' => Steady(sent2)'
    BY <1>3, <1>4, <1>5, <2>2, TickSteady
  <2> QED BY <2>5, <2>6 DEF SteadyInv
<1>6. CASE ~Tick
  <2>1. BuiltFor' => Steady(sent)'
    BY <1>3, <1>4, <1>6, OtherSteady
  <2>2. Full(born, sent)'
    <3>1. ASSUME NEW p \in network, Deliver(p) PROVE Full(born, sent)'
      BY <1>1, <3>1, DeliverInv
    <3>2. ASSUME NEW p \in network, Duplicate(p) PROVE Full(born, sent)'
      BY <1>1, <3>2, DuplicateInv
    <3>3. ASSUME NEW p \in network, Lose(p) PROVE Full(born, sent)'
      BY <1>1, <3>3, LoseInv
    <3>4. ASSUME NEW ok, Pull(ok) PROVE Full(born, sent)'
      BY <1>1, <3>4, PullInv
    <3>5. CASE Close \/ \E opened \in BOOLEAN : Open(opened)
      BY <1>1, <3>5, OwnerInv
    <3>6. CASE UNCHANGED vars
      BY <1>1, <3>6, StutterInv
    <3> QED BY <1>6, <3>1, <3>2, <3>3, <3>4, <3>5, <3>6 DEF Next, Finish
  <2> QED BY <2>1, <2>2 DEF SteadyInv
<1> QED BY <1>5, <1>6

\* The invariant holds always.
LEMMA AlwaysSteady == Spec => []SteadyInv
<1>1. Init => InTime
  BY DEF Init, InTime, Ahead
<1> QED BY <1>1, AlwaysInv, NextInTime, InitSteady, NextSteady, PTL DEF Spec

\* Every packet of the live stream is in flight, held or played.
LEMMA Found ==
  ASSUME NEW born \in Births, NEW sent \in SUBSET Marks, InvWith(born, sent), Steady(sent)
  PROVE  NoFrameVanishes
<1>1. /\ World(born, sent) /\ Sound(born, sent, jb) /\ Calm /\ Whole(sent) /\ Dense(sent)
  BY DEF InvWith, Steady
<1>2. PICK n : n = talker.stream
  OBVIOUS
<1>3. PICK d : d = NextSeq(talker)
  OBVIOUS
<1>4. SUFFICES ASSUME jb.hasStream, jb.streamId = n, NEW k \in 0 .. d - 1,
                      NEW s, s = Wrap(FirstSequence[n] + k)
               PROVE  \/ \E p \in network : p.stream = n /\ p.sequence = s
                      \/ Holds(jb.queue, s)
                      \/ <<n, s>> \in played
  BY <1>2, <1>3 DEF NoFrameVanishes, NextSeq, SequencePosition
<1>5. n \in Streams /\ n # 0 /\ n \in Nat
  BY <1>1, <1>4, ConstantFacts DEF Sound, Streams
<1>6. d \in Nat /\ d > 0 /\ Marked(sent, n, d - 1)
  <2>1. d \in Nat
    BY <1>1, <1>2, <1>3, <1>5, NextTypes DEF World, TalkerOK
  <2> QED BY <1>1, <1>2, <1>3, <1>5, <2>1 DEF Dense
<1>7. PICK m \in sent : m.stream = n /\ m.seq = d - 1
  BY <1>6 DEF Marked
<1>8. k \in 0 .. m.seq /\ k \in Nat
  BY <1>4, <1>6, <1>7
<1>9. Marked(sent, n, k)
  BY <1>1, <1>7, <1>8 DEF Dense
<1>10. k < Half
  <2>1. MarkOK(born, m) /\ ProfileOK /\ born[n] >= FrameTicks
    BY <1>1, <1>5 DEF World
  <2>2. m.ts \in Nat /\ m.seq <= m.ts /\ TimeOf(born, n, m.ts) <= now
    BY <1>7, <2>1 DEF MarkOK, Marks
  <2>3. TimeOf(born, n, m.ts) <= now + FrameTicks
    <3>1. TimeOf(born, n, m.ts) \in Nat /\ now \in Nat /\ FrameTicks \in Nat
      BY <1>5, <2>1, <2>2, TimeNat, ConstantFacts DEF ProfileOK
    <3> QED BY <2>2, <3>1
  <2>4. m.ts < Half
    BY <1>5, <2>1, <2>2, <2>3, TimesBounded
  <2> QED BY <1>6, <1>7, <1>8, <2>2, <2>4, ConstantFacts
<1>11. s \in Serials /\ SequencePosition(n, s) = k
  <2>1. FirstSequence[n] \in Serials /\ SequencePosition(n, FirstSequence[n]) = 0
    BY <1>5, ConstantFacts, FirstPosition
  <2>2. SequencePosition(n, FirstSequence[n]) + k = k
    BY <1>8, <2>1
  <2> QED BY <1>4, <1>5, <1>8, <1>10, <2>1, <2>2, PositionStep
<1>12. WasSent(sent, <<n, s>>)
  BY <1>9, <1>11, MarkedIs
<1>13. Accounted(n, s)
  BY <1>1, <1>5, <1>11, <1>12 DEF Whole
<1>14. <<n, s>> \in HeldIds(jb) => Holds(jb.queue, s)
  <2> SUFFICES ASSUME <<n, s>> \in HeldIds(jb) PROVE Holds(jb.queue, s)
    OBVIOUS
  <2>1. PICK i \in DOMAIN jb.queue.slots : jb.queue.slots[i].sequence = s
    BY DEF HeldIds
  <2>2. Index(s) = i
    BY <1>1, <1>4, <2>1 DEF Sound, Windowed, Calm
  <2> QED BY <2>1, <2>2 DEF Holds
<1>15. ~(n < jb.streamId)
  BY <1>4, <1>5
<1> QED BY <1>13, <1>14, <1>15 DEF Accounted

\* In the environment the buffer is built for, every packet of the live stream is in
\* flight, held or played: nothing that was sent vanishes (push() and pull(),
\* jitter_buffer.cpp:125-420).
THEOREM NothingVanishes == Spec => [](BuiltFor => NoFrameVanishes)
<1>1. SteadyInv => (BuiltFor => NoFrameVanishes)
  BY Found DEF SteadyInv, Full
<1> QED BY <1>1, AlwaysSteady, PTL

\* And there the device never hears a frame that the decoder made up: the cursor is
\* on a frame that is held, or past the END of its stream (jitter_buffer.cpp:336-400).
THEOREM NothingInvented == Spec => [](BuiltFor => NoConcealment)
<1>1. SteadyInv => (BuiltFor => NoConcealment)
  BY DEF SteadyInv, Steady, NoConcealment
<1> QED BY <1>1, AlwaysSteady, PTL
===============================================================================
