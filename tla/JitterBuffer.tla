----------------------------- MODULE JitterBuffer -----------------------------
(***************************************************************************)
(* The playout policy (core/include/radio/jitter_buffer.hpp,               *)
(* core/src/audio/jitter_buffer.cpp): push() places an arriving packet on  *)
(* the local timeline, pull() produces one frame per tick of the audio     *)
(* device.  The operators below are its methods on the record `jb` of its  *)
(* fields; the reorder queue inside it is jb.queue.  JitterNetwork drives  *)
(* them with a sender, a network and a device.                             *)
(*                                                                         *)
(* Timestamps count frames (960 samples each); local time counts ticks, of *)
(* which FrameTicks make one frame.  The PCM, the decoder's history and    *)
(* the per-source counters are left out: what a pull produced is its       *)
(* source, and whether a decoder call succeeds is a choice of the caller.  *)
(***************************************************************************)
EXTENDS ReorderQueueOps

CONSTANTS
  FrameTicks,     \* frame_us_
  TargetDelay,    \* Config::target_delay_us
  Fec,            \* Config::fec
  MaxConcealRun,  \* Config::max_conceal_run
  MaxCatchup,     \* Config::max_catchup_frames
  MaxJump,        \* kMaxCatchupJump
  StreamIdle      \* Config::stream_idle_us

ASSUME ConfigAssumption ==
  /\ FrameTicks \in Nat \ {0}
  /\ {TargetDelay, MaxConcealRun, MaxCatchup, StreamIdle} \subseteq Nat
  /\ MaxJump \in Nat \ {0}
  /\ MaxJump < Half
  /\ Fec \in BOOLEAN

\* The buffer as close() and open() leave it.
ClosedBuffer ==
  [open |-> FALSE, queue |-> EmptyQueue, anchored |-> FALSE,
   hasStream |-> FALSE, streamId |-> 0, lastArrival |-> 0,
   anchorTs |-> 0, anchorLocal |-> 0, playoutTs |-> 0,
   concealRun |-> 0, hasEnd |-> FALSE, endSequence |-> 0]

OpenBuffer == [ClosedBuffer EXCEPT !.open = TRUE]

ResetStream(j) ==
  [j EXCEPT !.queue = EmptyQueue, !.anchored = FALSE,
            !.hasStream = FALSE, !.concealRun = 0, !.hasEnd = FALSE]

\* The local time a sender timestamp is due, saturating at zero.
DeadlineOf(j, timestamp) ==
  LET at == j.anchorLocal + FrameTicks * Distance(j.anchorTs, timestamp)
  IN  IF at < 0 THEN 0 ELSE at

\* Mutants: each new anchor is pushed behind the last one; the target delay is
\* left out.
AnchorAccumulates(j, timestamp, arrival) ==
  [j EXCEPT !.anchorTs = timestamp, !.anchored = TRUE,
            !.anchorLocal = (IF @ > arrival THEN @ ELSE arrival) + TargetDelay]

AnchorUndelayed(j, timestamp, arrival) ==
  [j EXCEPT !.anchorTs = timestamp, !.anchorLocal = arrival, !.anchored = TRUE]

Anchor(j, timestamp, arrival) ==
  [j EXCEPT !.anchorTs = timestamp, !.anchorLocal = arrival + TargetDelay,
            !.anchored = TRUE]

-------------------------------------------------------------------------------
(* push() *)

\* A packet of another stream that neither announces itself nor finds the
\* current stream idle is refused before anything changes.
IsForeign(j, packet, arrival) ==
  /\ j.hasStream
  /\ packet.stream # j.streamId
  /\ ~packet.start
  /\ ~ (arrival > j.lastArrival /\ arrival - j.lastArrival >= StreamIdle)

\* Takes the packet's stream as the current one, dropping another.
Adopt(j, packet) ==
  [(IF j.hasStream /\ packet.stream # j.streamId THEN ResetStream(j) ELSE j)
     EXCEPT !.hasStream = TRUE, !.streamId = packet.stream]

\* Mutant: the playout position is not moved with the cursor.
RestartKeepsProjection(j, packet, arrival) ==
  [Anchor(j, packet.timestamp, arrival)
     EXCEPT !.queue = ResyncQ(packet.sequence), !.concealRun = 0]

\* Restarts the timeline at the packet, whatever was held.
Restart(j, packet, arrival) ==
  [Anchor(j, packet.timestamp, arrival)
     EXCEPT !.queue = ResyncQ(packet.sequence),
            !.playoutTs = packet.timestamp, !.concealRun = 0]

\* Mutant: a talkspurt start never restarts the timeline.
PlaceAnchors(j, packet, arrival) ==
  IF ~j.anchored
  THEN [Anchor(j, packet.timestamp, arrival)
          EXCEPT !.queue = StartQ(j.queue, packet.sequence),
                 !.playoutTs = packet.timestamp]
  ELSE IF ~packet.start THEN j
  ELSE Anchor([j EXCEPT !.hasEnd = FALSE], packet.timestamp, arrival)

\* The first packet of a stream anchors it; a talkspurt start moves the anchor,
\* and restarts the timeline if the cursor has already passed it.
Place(j, packet, arrival) ==
  IF ~j.anchored
  THEN [Anchor(j, packet.timestamp, arrival)
          EXCEPT !.queue = StartQ(j.queue, packet.sequence),
                 !.playoutTs = packet.timestamp]
  ELSE IF ~packet.start THEN j
  ELSE LET k == [j EXCEPT !.hasEnd = FALSE]
       IN  IF PrecedesOrEqual(j.queue.cursor, packet.sequence)
           THEN Anchor(k, packet.timestamp, arrival)
           ELSE Restart(k, packet, arrival)

NoteEnd(j, packet) ==
  IF packet.end /\ (~j.hasEnd \/ Precedes(j.endSequence, packet.sequence))
  THEN [j EXCEPT !.hasEnd = TRUE, !.endSequence = packet.sequence]
  ELSE j

FrameOf(j, packet) ==
  [stream |-> packet.stream, sequence |-> packet.sequence,
   timestamp |-> packet.timestamp, redundant |-> packet.redundant,
   deadline |-> DeadlineOf(j, packet.timestamp)]

\* The buffer when the packet reaches queue_.insert().
Prepared(j, packet, arrival) ==
  NoteEnd(Place([Adopt(j, packet) EXCEPT !.lastArrival = arrival],
                packet, arrival), packet)

\* insert(), and the verdict it gives.
Offer(j, packet, arrival) ==
  InsertVerdict(j.queue, FrameOf(j, packet), packet.oversized, arrival)

Inserted(j, packet, arrival) ==
  [j EXCEPT !.queue = InsertQ(@, FrameOf(j, packet),
                              Offer(j, packet, arrival))]

\* A packet beyond the window restarts the timeline and is offered again.
Jumped(j, packet, arrival) ==
  [Restart(j, packet, arrival) EXCEPT !.hasEnd = FALSE]

PushVerdict(j, packet, arrival) ==
  IF ~j.open THEN "Closed"
  ELSE IF IsForeign(j, packet, arrival) THEN "Foreign"
  ELSE LET prepared == Prepared(j, packet, arrival)
           verdict  == Offer(prepared, packet, arrival)
           again    == Offer(Jumped(prepared, packet, arrival), packet, arrival)
       IN  IF verdict # "TooFarAhead" THEN verdict
           ELSE IF again = "Accepted" THEN "Resynced" ELSE "Oversized"

Pushed(j, packet, arrival) ==
  LET prepared == Prepared(j, packet, arrival)
  IN  IF ~j.open \/ IsForeign(j, packet, arrival) THEN j
      ELSE IF Offer(prepared, packet, arrival) = "TooFarAhead"
      THEN Inserted(Jumped(prepared, packet, arrival), packet, arrival)
      ELSE Inserted(prepared, packet, arrival)

-------------------------------------------------------------------------------
(* pull() *)

\* The frame at the cursor, where there is one.
HasNext(j) == Peek(j.queue, j.queue.cursor)
NextFrame(j) == j.queue.slots[Index(j.queue.cursor)]

\* peek_and_align(): the playout position follows a sender that skipped ahead.
Align(j) ==
  IF HasNext(j) /\ Precedes(j.playoutTs, NextFrame(j).timestamp)
  THEN [j EXCEPT !.playoutTs = NextFrame(j).timestamp]
  ELSE j

Due(j) == DeadlineOf(j, j.playoutTs)

\* Whole frames the timeline is behind the clock.
Behind(j, now) == (now - Due(j)) \div FrameTicks

CatchUp(j, jump) ==
  Align([j EXCEPT !.queue = SkipToQ(@, Wrap(@.cursor + jump)),
                  !.playoutTs = Wrap(@ + jump), !.concealRun = 0])

\* The buffer a due pull works on: aligned, and jumped forward if too late.
Ready(j, now) ==
  LET a == Align(j)
      behind == Behind(a, now)
  IN  IF behind > MaxCatchup
      THEN CatchUp(a, IF behind < MaxJump THEN behind ELSE MaxJump)
      ELSE a

\* Mutant: the queue is not advanced.
SteppedInPlace(j, run) ==
  [j EXCEPT !.playoutTs = Wrap(@ + 1), !.concealRun = run]

\* queue_.advance() and playout_ts_ += frame_ts_.
Stepped(j, run) ==
  [j EXCEPT !.queue = AdvanceQ(@), !.playoutTs = Wrap(@ + 1),
            !.concealRun = run]

\* Mutant: the end mark is ignored.
PastEndIgnored(j) == FALSE

PastEnd(j) == j.hasEnd /\ ~PrecedesOrEqual(j.queue.cursor, j.endSequence)

\* Redundancy for the frame at the cursor travels in the packet after it.
CanRecover(j) ==
  LET next == Wrap(j.queue.cursor + 1)
  IN  /\ Fec
      /\ Peek(j.queue, next)
      /\ j.queue.slots[Index(next)].redundant

\* Mutant: the wait is decided before peeking at the timestamp of the next frame.
WaitsUnaligned(j, now) == ~j.anchored \/ now < Due(j)

\* pull() waits while nothing is anchored or the next frame is not due.
Waits(j, now) == ~j.anchored \/ now < Due(Align(j))

\* Where a due pull takes its frame from; `ok` is the set of decoder calls
\* that succeed.
PullSource(j, ok) ==
  IF HasNext(j) THEN IF "decode" \in ok THEN "Packet" ELSE "Silence"
  ELSE IF PastEnd(j) THEN "Silence"
  ELSE IF CanRecover(j) /\ "recover" \in ok THEN "ForwardCorrection"
  ELSE IF j.concealRun >= MaxConcealRun THEN "Silence"
  ELSE IF "conceal" \in ok THEN "Concealment" ELSE "Silence"

\* The run of concealed frames after a due pull.
NextConcealRun(j, ok) ==
  IF HasNext(j) THEN IF "decode" \in ok THEN 0 ELSE j.concealRun
  ELSE IF PastEnd(j) THEN j.concealRun
  ELSE IF CanRecover(j) /\ "recover" \in ok THEN 0
  ELSE j.concealRun + 1

Pulled(j, now, ok) ==
  IF ~j.open \/ ~j.anchored THEN j
  ELSE IF Waits(j, now) THEN Align(j)
  ELSE LET r == Ready(j, now) IN Stepped(r, NextConcealRun(r, ok))
===============================================================================
