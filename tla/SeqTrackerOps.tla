---------------------------- MODULE SeqTrackerOps ----------------------------
(***************************************************************************)
(* Per-stream sequence accounting (core/include/radio/seq_tracker.hpp,     *)
(* core/src/metrics/seq_tracker.cpp): a circular bitmap of the last Window *)
(* sequence numbers, and from it the counts of packets received and lost.  *)
(* The operators are its methods on the record of its fields; `bits` is    *)
(* the set of slots marked.  The counters of duplicates and of ancient     *)
(* arrivals repeat the verdict and are left out.                           *)
(***************************************************************************)
EXTENDS Serial, FiniteSets

CONSTANT Window  \* kWindowSize

ASSUME WindowAssumption ==
  /\ Window \in Nat \ {0}
  /\ Modulus % Window = 0
  /\ Window <= Half

Slot(seq) == seq % Window

NewTracker ==
  [started |-> FALSE, base |-> 0, highest |-> 0, bits |-> {},
   received |-> 0, reordered |-> 0]

\* Mutant: the last position passed over is not cleared.
ClearedShort(bits, from, to) ==
  IF Distance(from, to) >= Window THEN {}
  ELSE bits \ {Slot(Wrap(from + k)) : k \in 1 .. Distance(from, to) - 2}

\* clear_range_exclusive(): the bits left when the mark moves from one sequence
\* to a later one.
Cleared(bits, from, to) ==
  IF Distance(from, to) >= Window THEN {}
  ELSE bits \ {Slot(Wrap(from + k)) : k \in 1 .. Distance(from, to) - 1}

\* Mutant: a window one position too long.
VerdictLong(t, seq) ==
  LET ahead == Distance(t.highest, seq)
  IN  IF ~t.started THEN "First"
      ELSE IF ahead > 0 THEN "InOrder"
      ELSE IF ahead = 0 THEN "Duplicate"
      ELSE IF -ahead > Window THEN "TooOld"
      ELSE IF Slot(seq) \in t.bits THEN "Duplicate" ELSE "Reordered"

\* What observe() returns.
Verdict(t, seq) ==
  LET ahead == Distance(t.highest, seq)
  IN  IF ~t.started THEN "First"
      ELSE IF ahead > 0 THEN "InOrder"
      ELSE IF ahead = 0 THEN "Duplicate"
      ELSE IF -ahead >= Window THEN "TooOld"
      ELSE IF Slot(seq) \in t.bits THEN "Duplicate" ELSE "Reordered"

\* Mutant: the base is not pulled back.
FilledBaseKept(t, seq) ==
  [t EXCEPT !.bits = @ \cup {Slot(seq)}, !.received = @ + 1,
            !.reordered = @ + 1]

\* A reordered arrival fills its place, before the first one seen if need be.
Filled(t, seq) ==
  [t EXCEPT !.bits = @ \cup {Slot(seq)}, !.received = @ + 1,
            !.reordered = @ + 1,
            !.base = IF Precedes(seq, @) THEN seq ELSE @]

\* The tracker observe() leaves.
Observed(t, seq) ==
  CASE Verdict(t, seq) = "First" ->
         [NewTracker EXCEPT !.started = TRUE, !.base = seq, !.highest = seq,
                            !.bits = {Slot(seq)}, !.received = 1]
    [] Verdict(t, seq) = "InOrder" ->
         [t EXCEPT !.bits = Cleared(@, t.highest, seq) \cup {Slot(seq)},
                   !.highest = seq, !.received = @ + 1]
    [] Verdict(t, seq) = "Reordered" -> Filled(t, seq)
    [] OTHER -> t

\* expected() and lost().
Expected(t) ==
  IF ~t.started \/ Distance(t.base, t.highest) < 0 THEN 0
  ELSE Distance(t.base, t.highest) + 1

Lost(t) == IF Expected(t) > t.received THEN Expected(t) - t.received ELSE 0
===============================================================================
