--------------------------- MODULE ReorderQueueOps ---------------------------
(***************************************************************************)
(* The methods of ReorderQueue (core/include/radio/reorder_queue.hpp,      *)
(* core/src/audio/reorder_queue.cpp) as operators on the fields of one     *)
(* queue: what each returns and the queue it leaves.  ReorderQueue makes a *)
(* state machine of them, JitterBuffer calls them inside its own methods.  *)
(*                                                                         *)
(* A queue is a record:                                                    *)
(*   slots    the occupied slots: a function from the set of occupied      *)
(*            indices to the frames stored there                           *)
(*   cursor   the sequence number the consumer wants next                  *)
(*   highest  the highest sequence accepted, meaningful while held # 0     *)
(*   held     the number of stored frames, as the code counts it           *)
(*   started  whether the cursor has been anchored                         *)
(* A frame is a record with at least the fields sequence and deadline; the *)
(* payload bytes are left out, only whether they fit a slot is kept.       *)
(***************************************************************************)
EXTENDS Serial, FiniteSets

CONSTANT Capacity  \* kCapacity, the number of slots and the window's width

\* kCapacity divides 2^32 (both are powers of two), and the window reaches
\* less than half-way round the sequence space.
ASSUME CapacityAssumption ==
  /\ Capacity \in Nat \ {0}
  /\ Modulus % Capacity = 0
  /\ Capacity <= Half

Indices == 0 .. Capacity - 1

\* `sequence & (kCapacity - 1)`.
Index(sequence) == sequence % Capacity

InsertVerdicts ==
  {"Accepted", "Duplicate", "Late", "TooOld", "TooFarAhead", "Oversized"}

StepResults == {"Delivered", "Gap"}

NoSlots == [i \in {} |-> i]

\* A queue as constructed, and as reset() leaves it.
EmptyQueue ==
  [slots |-> NoSlots, cursor |-> 0, highest |-> 0, held |-> 0,
   started |-> FALSE]

\* The slot of `sequence` is occupied by that very sequence: the test peek(),
\* has_next(), step_once() and skip_to() all make.
Holds(q, sequence) ==
  /\ Index(sequence) \in DOMAIN q.slots
  /\ q.slots[Index(sequence)].sequence = sequence

\* Mutant: a second start() moves the cursor.
StartQAgain(q, first) ==
  [q EXCEPT !.cursor = first, !.highest = first, !.started = TRUE]

StartQ(q, first) ==
  IF q.started THEN q
  ELSE [q EXCEPT !.cursor = first, !.highest = first, !.started = TRUE]

ResyncQ(sequence) ==
  [slots |-> NoSlots, cursor |-> sequence, highest |-> sequence, held |-> 0,
   started |-> TRUE]

\* Mutant: the window is one slot too wide (`>` for `>=`).
InsertVerdictWide(q, frame, oversized, now) ==
  LET offset == Distance(StartQ(q, frame.sequence).cursor, frame.sequence)
  IN  IF oversized THEN "Oversized"
      ELSE IF offset < 0
           THEN IF offset > -Capacity THEN "Late" ELSE "TooOld"
      ELSE IF offset > Capacity THEN "TooFarAhead"
      ELSE IF now > frame.deadline THEN "Late"
      ELSE IF Index(frame.sequence) \in DOMAIN q.slots THEN "Duplicate"
      ELSE "Accepted"

\* What insert() returns.  The tests are made in this order, on the cursor
\* that start() has anchored if nothing had been received.
InsertVerdict(q, frame, oversized, now) ==
  LET offset == Distance(StartQ(q, frame.sequence).cursor, frame.sequence)
  IN  IF oversized THEN "Oversized"
      ELSE IF offset < 0
           THEN IF offset > -Capacity THEN "Late" ELSE "TooOld"
      ELSE IF offset >= Capacity THEN "TooFarAhead"
      ELSE IF now > frame.deadline THEN "Late"
      ELSE IF Index(frame.sequence) \in DOMAIN q.slots THEN "Duplicate"
      ELSE "Accepted"

\* Mutant: the highest mark follows the last arrival.
RaiseHighestLast(q, sequence) == sequence

\* `if (held_ == 0 || precedes(highest_, sequence)) highest_ = sequence`.
RaiseHighest(q, sequence) ==
  IF q.held = 0 \/ Precedes(q.highest, sequence) THEN sequence ELSE q.highest

\* Writes the frame into the slot its sequence selects.
Store(q, frame) ==
  [q EXCEPT
     !.slots = [i \in DOMAIN q.slots \cup {Index(frame.sequence)} |->
                  IF i = Index(frame.sequence) THEN frame ELSE q.slots[i]],
     !.highest = RaiseHighest(q, frame.sequence),
     !.held = q.held + 1]

\* The queue insert() leaves: anchored by any frame that fits a slot, with the
\* frame stored only if it was accepted.
InsertQ(q, frame, verdict) ==
  IF verdict = "Oversized" THEN q
  ELSE IF verdict = "Accepted" THEN Store(StartQ(q, frame.sequence), frame)
  ELSE StartQ(q, frame.sequence)

\* peek(): whether a frame is held for a sequence inside the window.
Peek(q, sequence) ==
  /\ q.started
  /\ Distance(q.cursor, sequence) \in 0 .. Capacity - 1
  /\ Holds(q, sequence)

\* Removes the frames of a set of slots.
Free(q, freed) ==
  [q EXCEPT !.slots = [i \in DOMAIN q.slots \ freed |-> q.slots[i]],
            !.held = q.held - Cardinality(freed)]

\* What one advance() returns, and the queue it leaves: the frame at the cursor
\* is freed and the cursor steps on; an unanchored queue stays put.
AdvanceResult(q) ==
  IF q.started /\ Holds(q, q.cursor) THEN "Delivered" ELSE "Gap"

\* Mutant: the slot passed over is not cleared.
AdvanceQKeepsSlot(q) ==
  IF ~q.started THEN q ELSE [q EXCEPT !.cursor = Wrap(q.cursor + 1)]

AdvanceQ(q) ==
  IF ~q.started THEN q
  ELSE LET freed == IF Holds(q, q.cursor) THEN {Index(q.cursor)} ELSE {}
       IN  [Free(q, freed) EXCEPT !.cursor = Wrap(q.cursor + 1)]

\* skip_to(): the number of positions jumped, and the slots its loop clears
\* while it walks at most one window.
SkipFrames(q, sequence) ==
  IF q.started /\ Distance(q.cursor, sequence) > 0
  THEN Distance(q.cursor, sequence)
  ELSE 0

Skipped(q, frames) ==
  LET stepped == IF frames < Capacity THEN frames ELSE Capacity
      passed  == {Wrap(q.cursor + k) : k \in 0 .. stepped - 1}
  IN  {Index(s) : s \in {p \in passed : Holds(q, p)}}

SkipToQ(q, sequence) ==
  LET frames == SkipFrames(q, sequence)
  IN  IF frames = 0 THEN q
      ELSE [Free(q, Skipped(q, frames)) EXCEPT !.cursor = sequence]

\* drop_expired(): the slots whose deadline has passed.
Expired(q, now) == {i \in DOMAIN q.slots : now > q.slots[i].deadline}

DropExpiredQ(q, now) == Free(q, Expired(q, now))

\* depth(): frames of timeline from the cursor to the furthest frame accepted.
Depth(q) == IF q.held = 0 THEN 0 ELSE Distance(q.cursor, q.highest) + 1
===============================================================================
