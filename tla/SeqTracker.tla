------------------------------ MODULE SeqTracker ------------------------------
(***************************************************************************)
(* Sequence accounting against a stream without end: the sender numbers    *)
(* its packets 0, 1, 2, ...; a packet carries its position cut to the      *)
(* machine word, and may arrive in any order, any number of times.  `seen` *)
(* and `top` are history: the positions that were counted, and the         *)
(* furthest.                                                               *)
(***************************************************************************)
EXTENDS SeqTrackerOps

CONSTANTS
  Positions,  \* the positions of the packets that arrive
  MaxSpan     \* bound on the distance between two of them

ASSUME TrackerAssumption ==
  /\ Positions \subseteq Int
  /\ MaxSpan \in Nat

VARIABLES
  tracker,  \* the fields of SeqTracker
  verdict,  \* what the last observe() returned
  fresh,    \* whether its packet had not been counted before
  seen, top

vars == <<tracker, verdict, fresh, seen, top>>

Init ==
  /\ tracker = NewTracker
  /\ verdict = "None"
  /\ fresh = TRUE
  /\ seen = {}
  /\ top = 0

\* A packet arrives that a receiver can place: less than half the word away.
Observe(p) ==
  /\ \A q \in seen : p - q \in -MaxSpan .. MaxSpan
  /\ seen # {} => p - top \in 1 - Half .. Half - 1
  /\ verdict' = Verdict(tracker, Wrap(p))
  /\ tracker' = Observed(tracker, Wrap(p))
  /\ fresh' = (p \notin seen)
  /\ seen' = IF verdict' \in {"Duplicate", "TooOld"} THEN seen
             ELSE seen \cup {p}
  /\ top' = IF verdict' \in {"First", "InOrder"} THEN p ELSE top

Reset ==
  /\ tracker' = NewTracker
  /\ verdict' = "None"
  /\ fresh' = TRUE
  /\ seen' = {}
  /\ top' = 0

Next == (\E p \in Positions : Observe(p)) \/ Reset

Spec == Init /\ [][Next]_vars

-------------------------------------------------------------------------------

\* After any number of laps the bitmap remembers exactly the packets counted
\* in the window behind the mark: no bit of an earlier lap survives
\* (seq_tracker.cpp:27-35).
WindowIsExact ==
  tracker.started =>
    \A p \in top - Window + 1 .. top :
      Slot(Wrap(p)) \in tracker.bits <=> p \in seen

\* A packet is counted as received only the first time, and called a duplicate
\* only if it was counted before; "I have no idea" stays distinct
\* (seq_tracker.cpp:72-76).
VerdictIsTrue ==
  /\ verdict \in {"First", "InOrder", "Reordered"} => fresh
  /\ verdict = "Duplicate" => ~fresh

\* lost() is the number of positions of the span never counted, wherever in
\* the word the stream began and however its packets were reordered.
LossIsTrue ==
  tracker.started =>
    Lost(tracker) =
      Cardinality({p \in Positions : p <= top /\ p \notin seen
                                       /\ \E q \in seen : q < p})
===============================================================================
