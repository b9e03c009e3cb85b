----------------------------- MODULE ReorderQueue -----------------------------
(***************************************************************************)
(* The reorder queue as a state machine: any caller, any order of calls.   *)
(* Its fields are the record `queue` (see ReorderQueueOps) and the         *)
(* counters `stats`.  `result` is what the last call returned; the five    *)
(* counters of refused arrivals only repeat it and are left out.           *)
(*                                                                         *)
(* Two history variables say what the counters leave implicit: `flushed`   *)
(* counts the frames a resync dropped without counting them, and `origin`  *)
(* is where the cursor would be had it never been played from.             *)
(***************************************************************************)
EXTENDS ReorderQueueOps

CONSTANTS
  Times,       \* the values `now` and a deadline can take
  MaxAccepted, \* bound on the frames accepted between two resets
  MaxTicks,    \* bound on the positions the cursor is asked to move over
  MaxResyncs   \* bound on the calls of resync() between two resets

ASSUME TimesAssumption == Times \subseteq Int

ASSUME BoundsAssumption ==
  /\ MaxAccepted \in Nat
  /\ MaxTicks \in Nat
  /\ MaxResyncs \in Nat

VARIABLES queue, stats, result, flushed, origin

vars == <<queue, stats, result, flushed, origin>>

Frames == [sequence : Serials, deadline : Times]

Counters ==
  {"Accepted", "Delivered", "Gap", "Expired", "Discarded", "Resyncs"}

ZeroStats == [c \in Counters |-> 0]

\* `n` more on a counter.
Count(c, n) == [stats EXCEPT ![c] = @ + n]

Ticks == stats["Delivered"] + stats["Gap"]

Init ==
  /\ queue = EmptyQueue
  /\ stats = ZeroStats
  /\ result = "None"
  /\ flushed = 0
  /\ origin = 0

\* Keeps `origin` right when the cursor is put somewhere rather than moved.
Reorigin(q) == origin' = Wrap(q.cursor - Ticks)

Start(first) ==
  /\ queue' = StartQ(queue, first)
  /\ result' = "None"
  /\ IF queue.started THEN UNCHANGED origin ELSE Reorigin(queue')
  /\ UNCHANGED <<stats, flushed>>

Insert(frame, oversized, now) ==
  /\ result' = InsertVerdict(queue, frame, oversized, now)
  /\ queue' = InsertQ(queue, frame, result')
  /\ IF result' = "Accepted"
     THEN stats["Accepted"] < MaxAccepted /\ stats' = Count("Accepted", 1)
     ELSE UNCHANGED stats
  /\ IF queue.started THEN UNCHANGED origin ELSE Reorigin(queue')
  /\ UNCHANGED flushed

Advance ==
  /\ Ticks < MaxTicks
  /\ result' = AdvanceResult(queue)
  /\ queue' = AdvanceQ(queue)
  /\ stats' = Count(result', 1)
  /\ UNCHANGED <<flushed, origin>>

\* Mutants: the frames jumped over are not counted as discarded; the jump is
\* counted only as far as the loop walks.
SkipToUncounted(sequence) ==
  LET frames == SkipFrames(queue, sequence)
  IN  /\ Ticks + frames <= MaxTicks
      /\ result' = "Skipped"
      /\ queue' = SkipToQ(queue, sequence)
      /\ stats' = Count("Gap", frames)
      /\ UNCHANGED <<flushed, origin>>

SkipToWalked(sequence) ==
  LET frames == SkipFrames(queue, sequence)
      walked == IF frames < Capacity THEN frames ELSE Capacity
  IN  /\ Ticks + frames <= MaxTicks
      /\ result' = "Skipped"
      /\ queue' = SkipToQ(queue, sequence)
      /\ stats' = [stats EXCEPT
                     !["Gap"] = @ + walked,
                     !["Discarded"] =
                        @ + Cardinality(Skipped(queue, frames))]
      /\ UNCHANGED <<flushed, origin>>

SkipTo(sequence) ==
  LET frames == SkipFrames(queue, sequence)
  IN  /\ Ticks + frames <= MaxTicks
      /\ result' = "Skipped"
      /\ queue' = SkipToQ(queue, sequence)
      /\ stats' = [stats EXCEPT
                     !["Gap"] = @ + frames,
                     !["Discarded"] =
                        @ + Cardinality(Skipped(queue, frames))]
      /\ UNCHANGED <<flushed, origin>>

DropExpired(now) ==
  /\ result' = "Dropped"
  /\ queue' = DropExpiredQ(queue, now)
  /\ stats' = Count("Expired", Cardinality(Expired(queue, now)))
  /\ UNCHANGED <<flushed, origin>>

Resync(sequence) ==
  /\ stats["Resyncs"] < MaxResyncs
  /\ queue' = ResyncQ(sequence)
  /\ result' = "None"
  /\ stats' = Count("Resyncs", 1)
  /\ flushed' = flushed + queue.held
  /\ Reorigin(queue')

Reset ==
  /\ queue' = EmptyQueue
  /\ result' = "None"
  /\ stats' = ZeroStats
  /\ flushed' = 0
  /\ origin' = 0

Next ==
  \/ \E s \in Serials : Start(s) \/ SkipTo(s) \/ Resync(s)
  \/ \E f \in Frames, oversized \in BOOLEAN, now \in Times :
       Insert(f, oversized, now)
  \/ Advance
  \/ \E now \in Times : DropExpired(now)
  \/ Reset

Spec == Init /\ [][Next]_vars

-------------------------------------------------------------------------------

Queues ==
  [slots : UNION {[D -> Frames] : D \in SUBSET Indices},
   cursor : Serials, highest : Serials, held : Nat, started : BOOLEAN]

\* The fields stay in their types: indices in the array, serial numbers in the
\* machine word, and no count below zero.
TypeOK ==
  /\ queue \in Queues
  /\ stats \in [Counters -> Nat]
  /\ flushed \in Nat
  /\ origin \in Serials

\* Every stored frame sits in the slot its own sequence selects and lies in
\* the window that starts at the cursor.  This is the argument of the comment
\* in insert() ("Occupancy implies the same sequence"): without it a free-slot
\* test would call a new frame a duplicate, or peek() would never find one.
SlotsInWindow ==
  /\ \A i \in DOMAIN queue.slots :
       LET s == queue.slots[i].sequence
       IN  Index(s) = i /\ Distance(queue.cursor, s) \in 0 .. Capacity - 1
  /\ ~queue.started => DOMAIN queue.slots = {}

HeldIsOccupancy == queue.held = Cardinality(DOMAIN queue.slots)

\* depth() may subtract without going negative: while anything is held the
\* highest mark lies in the window and no held frame is beyond it, whatever
\* was expired, skipped or resynchronised before.
HighestCoversHeld ==
  queue.held # 0 =>
    /\ Distance(queue.cursor, queue.highest) \in 0 .. Capacity - 1
    /\ \A i \in DOMAIN queue.slots :
         Distance(queue.slots[i].sequence, queue.highest) >= 0

\* The reported depth spans at least what is held and at most one window.
DepthIsSane == queue.held <= Depth(queue) /\ Depth(queue) <= Capacity

Balanced ==
  stats["Accepted"] = queue.held + stats["Delivered"] + stats["Discarded"]
                        + stats["Expired"] + flushed

\* Every accepted frame is accounted for once: still in a slot, delivered,
\* discarded by a catch-up, expired, or flushed by a resync.  held_ is kept by
\* ++ and -- in five methods, and is the number of occupied slots after each.
FramesConserved == HeldIsOccupancy /\ Balanced

\* Every position the cursor has moved over was counted once, as a delivered
\* frame or as a gap: walking and jumping keep the same books.
TimelineAccounted ==
  queue.started => queue.cursor = Wrap(origin + Ticks)

\* The play cursor only moves forward (reorder_queue.hpp:32) except where the
\* caller resynchronises or resets.
CursorNeverRewinds ==
  [][queue.started /\ queue'.started /\ stats'["Resyncs"] = stats["Resyncs"]
       => Distance(queue.cursor, queue'.cursor) >= 0]_vars

\* The circular store behaves as a set of frames on a timeline: same verdict
\* for every arrival, same frame or gap at every step.
Timeline ==
  INSTANCE FrameTimeline WITH
    waiting <- {queue.slots[i] : i \in DOMAIN queue.slots},
    cursor <- queue.cursor,
    started <- queue.started

ImplementsTimeline == Timeline!Spec
===============================================================================
