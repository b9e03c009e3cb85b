--------------------------- MODULE SeqTrackerProofs ---------------------------
(***************************************************************************)
(* Sequence accounting is right for every word size, every window that     *)
(* divides the word and every stream.                                      *)
(***************************************************************************)
EXTENDS SeqTracker, SerialProofs, FiniteSetTheorems

-------------------------------------------------------------------------------
(* The inductive invariant *)

\* The fields of SeqTracker.
Trackers ==
  [started : BOOLEAN, base : Serials, highest : Serials, bits : SUBSET Nat,
   received : Nat, reordered : Nat]

\* The bits of the window behind the mark are those of the positions counted.
Exact(bits, mark, counted) ==
  \A p \in Int : p <= mark /\ mark - p < Window =>
    (p % Window \in bits <=> p \in counted)

\* The mark is on the furthest position counted.
Marked(t, counted, mark) ==
  /\ mark \in counted
  /\ \A q \in counted : q <= mark
  /\ t.highest = Wrap(mark)
  /\ Exact(t.bits, mark, counted)

Inv ==
  /\ tracker \in Trackers
  /\ seen \subseteq Positions
  /\ top \in Int
  /\ tracker.started <=> seen # {}
  /\ tracker.started => Marked(tracker, seen, top)
  /\ VerdictIsTrue

-------------------------------------------------------------------------------
(* Positions, serial numbers and slots *)

\* The window divides the word and is at most half of it.
LEMMA WindowFacts ==
  /\ Window \in Nat \ {0}
  /\ Window <= Half
  /\ Modulus % Window = 0
  BY WindowAssumption

\* The slot of a position does not depend on where the word wraps.
LEMMA SlotOfPosition ==
  ASSUME NEW p \in Int
  PROVE  Slot(Wrap(p)) = p % Window
  BY WindowFacts, WrapMod DEF Slot

\* Positions less than a window apart have slots of their own.
LEMMA SlotsApart ==
  ASSUME NEW p \in Int, NEW q \in Int, p - q < Window, q - p < Window,
         p % Window = q % Window
  PROVE  p = q
  BY WindowFacts, ModUnique

\* The slot of a position is a number.
LEMMA SlotType ==
  ASSUME NEW p \in Int
  PROVE  p % Window \in Nat
  BY WindowFacts, ModRange

-------------------------------------------------------------------------------
(* clear_range_exclusive() *)

\* Clearing the positions passed over, and marking the new one, leaves exactly
\* the window behind the new mark: no bit of an earlier lap survives.
LEMMA ClearedExact ==
  ASSUME NEW bits \in SUBSET Nat, NEW counted \in SUBSET Int,
         NEW mark \in Int, NEW p \in Int, p - mark \in 1 .. Half - 1,
         \A q \in counted : q <= mark, Exact(bits, mark, counted)
  PROVE  Exact(Cleared(bits, Wrap(mark), Wrap(p)) \cup {Slot(Wrap(p))},
               p, counted \cup {p})
<1> DEFINE d == p - mark
           passed == {(mark + k) % Window : k \in 1 .. d - 1}
           kept == IF d >= Window THEN {} ELSE bits \ passed
           new == kept \cup {p % Window}
<1>1. d \in 1 .. Half - 1 /\ d \in Int
  BY ModulusFacts
<1>2. Distance(Wrap(mark), Wrap(p)) = d
  BY <1>1, ModulusFacts, DistanceOfPositions
<1>3. \A k \in Int : Slot(Wrap(Wrap(mark) + k)) = (mark + k) % Window
  <2> TAKE k \in Int
  <2>1. Wrap(Wrap(mark) + k) = Wrap(mark + k) /\ mark + k \in Int
    BY WrapAdd
  <2> QED
    BY <2>1, SlotOfPosition
<1>4. Cleared(bits, Wrap(mark), Wrap(p)) \cup {Slot(Wrap(p))} = new
  <2>1. {Slot(Wrap(Wrap(mark) + k)) : k \in 1 .. d - 1} = passed
    BY <1>1, <1>3
  <2>2. Cleared(bits, Wrap(mark), Wrap(p)) = kept
    <3> HIDE DEF d, passed
    <3> QED
      BY <1>2, <2>1 DEF Cleared
  <2>3. Slot(Wrap(p)) = p % Window
    BY SlotOfPosition
  <2> QED
    BY <2>2, <2>3
<1>5. Window \in Nat \ {0}
  BY WindowFacts
<1>6. ASSUME NEW q \in Int, q <= p, p - q < Window
      PROVE  q % Window \in new <=> q \in counted \cup {p}
  <2>1. CASE q = p
    BY <2>1
  <2>2. CASE q # p
    <3>1. q % Window # p % Window
      <4>1. p - q < Window /\ q - p < Window
        BY <1>5, <1>6
      <4> QED
        BY <2>2, <4>1, SlotsApart
    <3>2. CASE d >= Window
      <4>1. q > mark
        BY <1>1, <1>5, <1>6, <3>2
      <4>2. q \notin counted
        BY <4>1
      <4> QED
        BY <2>2, <3>1, <3>2, <4>2
    <3>3. CASE d < Window /\ q > mark
      <4>1. q - mark \in 1 .. d - 1 /\ mark + (q - mark) = q
        BY <1>1, <1>6, <2>2, <3>3
      <4>2. q % Window \in passed
        BY <4>1
      <4>3. q \notin counted
        BY <3>3
      <4> HIDE DEF d, passed
      <4> QED
        BY <1>1, <1>5, <2>2, <3>1, <3>3, <4>2, <4>3
    <3>4. CASE d < Window /\ q <= mark
      <4>1. mark - q < Window
        BY <1>1, <1>5, <1>6
      <4>2. q % Window \in bits <=> q \in counted
        BY <3>4, <4>1 DEF Exact
      <4>3. ASSUME NEW k \in 1 .. d - 1
            PROVE  q % Window # (mark + k) % Window
        <5>1. /\ mark + k \in Int /\ mark + k - q < Window
              /\ q - (mark + k) < Window /\ mark + k # q
          BY <1>1, <1>5, <1>6, <3>4, <4>3
        <5> QED
          BY <5>1, SlotsApart
      <4>4. q % Window \notin passed
        BY <4>3
      <4> HIDE DEF d, passed
      <4> QED
        BY <1>1, <1>5, <2>2, <3>1, <3>4, <4>2, <4>4
    <3> QED
      BY <1>1, <1>5, <3>2, <3>3, <3>4
  <2> QED
    BY <2>1, <2>2
<1>7. Exact(new, p, counted \cup {p})
  <2> HIDE DEF new
  <2> QED
    BY <1>6 DEF Exact
<1> QED
  BY <1>4, <1>7

-------------------------------------------------------------------------------
(* observe() *)

\* The fields observe() leaves, by verdict.
Outcome(t, s, v, u) ==
  /\ u \in Trackers
  /\ v = "First" => /\ u.started /\ u.base = s /\ u.highest = s
                    /\ u.bits = {Slot(s)} /\ u.received = 1
  /\ v = "InOrder" => /\ u.started = t.started /\ u.base = t.base
                      /\ u.highest = s
                      /\ u.bits = Cleared(t.bits, t.highest, s) \cup {Slot(s)}
                      /\ u.received = t.received + 1
  /\ v = "Reordered" => /\ u.started = t.started /\ u.highest = t.highest
                        /\ u.base = IF Precedes(s, t.base) THEN s ELSE t.base
                        /\ u.bits = t.bits \cup {Slot(s)}
                        /\ u.received = t.received + 1
  /\ v \in {"Duplicate", "TooOld"} => u = t

\* observe() has one of those outcomes.
LEMMA ObservedFields ==
  ASSUME NEW t \in Trackers, NEW s \in Serials
  PROVE  Outcome(t, s, Verdict(t, s), Observed(t, s))
<1> DEFINE v == Verdict(t, s)
           u == Observed(t, s)
           bits == Cleared(t.bits, t.highest, s) \cup {Slot(s)}
           more == t.bits \cup {Slot(s)}
           base == IF Precedes(s, t.base) THEN s ELSE t.base
<1> SUFFICES Outcome(t, s, v, u)
  OBVIOUS
<1>1. Slot(s) \in Nat /\ s \in Int
  <2>1. s \in Int
    BY ModulusFacts
  <2> QED
    BY <2>1, SlotType DEF Slot
<1>2. bits \in SUBSET Nat /\ more \in SUBSET Nat /\ base \in Serials
  BY <1>1 DEF Cleared, Trackers
<1>3. 0 \in Serials
  BY ModulusFacts
<1>4. v \in {"First", "InOrder", "Reordered", "Duplicate", "TooOld"}
  BY DEF Verdict
<1>5. CASE v = "First"
  <2>1. u = [NewTracker EXCEPT !.started = TRUE, !.base = s, !.highest = s,
                               !.bits = {Slot(s)}, !.received = 1]
    BY <1>5 DEF Observed
  <2>2. u = [started |-> TRUE, base |-> s, highest |-> s, bits |-> {Slot(s)},
             received |-> 1, reordered |-> 0]
    BY <2>1 DEF NewTracker
  <2> HIDE DEF u, v
  <2>3. u \in Trackers
    BY <1>1, <2>2 DEF Trackers
  <2> QED
    BY <1>5, <2>2, <2>3 DEF Outcome
<1>6. CASE v = "InOrder"
  <2>1. u = [t EXCEPT !.bits = bits, !.highest = s, !.received = @ + 1]
    BY <1>6 DEF Observed
  <2> HIDE DEF u, v, bits
  <2>2. u \in Trackers
    <3> DEFINE n == t.received + 1
    <3>1. n \in Nat
      BY DEF Trackers
    <3>2. u = [t EXCEPT !.bits = bits, !.highest = s, !.received = n]
      BY <2>1
    <3> HIDE DEF n
    <3> QED
      BY <1>2, <3>1, <3>2 DEF Trackers
  <2>3. /\ u.started = t.started /\ u.base = t.base /\ u.highest = s
        /\ u.bits = bits /\ u.received = t.received + 1
    BY <2>1 DEF Trackers
  <2> QED
    BY <1>6, <2>2, <2>3 DEF Outcome, bits
<1>7. CASE v = "Reordered"
  <2>1. u = [t EXCEPT !.bits = more, !.received = @ + 1, !.reordered = @ + 1,
                      !.base = base]
    BY <1>7 DEF Observed, Filled
  <2> HIDE DEF u, v, more, base
  <2>2. u \in Trackers
    <3> DEFINE n == t.received + 1
               m == t.reordered + 1
    <3>1. n \in Nat /\ m \in Nat
      BY DEF Trackers
    <3>2. u = [t EXCEPT !.bits = more, !.received = n, !.reordered = m,
                        !.base = base]
      BY <2>1
    <3> HIDE DEF n, m
    <3> QED
      BY <1>2, <3>1, <3>2 DEF Trackers
  <2>3. /\ u.started = t.started /\ u.base = base /\ u.highest = t.highest
        /\ u.bits = more /\ u.received = t.received + 1
    BY <2>1 DEF Trackers
  <2> QED
    BY <1>7, <2>2, <2>3 DEF Outcome, more, base
<1>8. CASE v \in {"Duplicate", "TooOld"}
  <2>1. u = t
    BY <1>8 DEF Observed
  <2> HIDE DEF u, v
  <2> QED
    BY <1>8, <2>1 DEF Outcome
<1> QED
  BY <1>4, <1>5, <1>6, <1>7, <1>8

\* What the verdict says of a packet a receiver can place.
LEMMA VerdictMeans ==
  ASSUME NEW t \in Trackers, NEW counted \in SUBSET Int, NEW mark \in Int,
         NEW p \in Int, t.started, Marked(t, counted, mark),
         p - mark \in 1 - Half .. Half - 1
  PROVE  /\ Verdict(t, Wrap(p)) = "InOrder" => p > mark /\ p \notin counted
         /\ Verdict(t, Wrap(p)) = "Reordered" =>
              p < mark /\ mark - p < Window /\ p \notin counted
         /\ Verdict(t, Wrap(p)) = "Duplicate" => p \in counted
         /\ Verdict(t, Wrap(p)) # "First"
<1> DEFINE v == Verdict(t, Wrap(p))
           d == p - mark
<1>1. d \in Int /\ d \in -Half .. Half - 1 /\ Window \in Nat \ {0}
  BY ModulusFacts, WindowFacts
<1>2. Distance(t.highest, Wrap(p)) = d
  <2>1. t.highest = Wrap(mark)
    BY DEF Marked
  <2> QED
    BY <1>1, <2>1, DistanceOfPositions
<1>3. Slot(Wrap(p)) = p % Window
  BY SlotOfPosition
<1>4. v = IF d > 0 THEN "InOrder"
          ELSE IF d = 0 THEN "Duplicate"
          ELSE IF -d >= Window THEN "TooOld"
          ELSE IF p % Window \in t.bits THEN "Duplicate" ELSE "Reordered"
  <2> HIDE DEF d
  <2> QED
    BY <1>2, <1>3 DEF Verdict
<1> HIDE DEF v
<1>5. mark \in counted /\ \A q \in counted : q <= mark
  BY DEF Marked
<1>6. ASSUME d <= 0, -d < Window
      PROVE  p % Window \in t.bits <=> p \in counted
  <2>1. p <= mark /\ mark - p < Window
    BY <1>6
  <2> QED
    BY <2>1 DEF Marked, Exact
<1>7. CASE d > 0
  <2>1. p > mark
    BY <1>7
  <2>2. p \notin counted
    BY <1>5, <2>1
  <2> QED
    BY <1>4, <1>7, <2>1, <2>2 DEF v
<1>8. CASE d = 0
  <2>1. p = mark
    BY <1>8
  <2> QED
    BY <1>4, <1>5, <1>8, <2>1 DEF v
<1>9. CASE d < 0 /\ -d >= Window
  BY <1>1, <1>4, <1>9 DEF v
<1>10. CASE d < 0 /\ -d < Window
  <2>1. p < mark /\ mark - p < Window
    BY <1>10
  <2>2. p % Window \in t.bits <=> p \in counted
    BY <1>1, <1>6, <1>10
  <2> HIDE DEF d
  <2>3. v = IF p % Window \in t.bits THEN "Duplicate" ELSE "Reordered"
    BY <1>1, <1>4, <1>10
  <2> QED
    BY <2>1, <2>2, <2>3 DEF v
<1> QED
  BY <1>1, <1>7, <1>8, <1>9, <1>10

\* A reordered arrival adds its own bit and no other.
LEMMA FilledExact ==
  ASSUME NEW bits \in SUBSET Nat, NEW counted \in SUBSET Int,
         NEW mark \in Int, NEW p \in Int, p < mark, mark - p < Window,
         Exact(bits, mark, counted)
  PROVE  Exact(bits \cup {Slot(Wrap(p))}, mark, counted \cup {p})
<1>1. Slot(Wrap(p)) = p % Window
  BY SlotOfPosition
<1>2. ASSUME NEW q \in Int, q <= mark, mark - q < Window
      PROVE  q % Window \in bits \cup {p % Window} <=> q \in counted \cup {p}
  <2>1. q % Window \in bits <=> q \in counted
    BY <1>2 DEF Exact
  <2>2. q - p < Window /\ p - q < Window
    BY <1>2, WindowFacts
  <2>3. q % Window = p % Window => q = p
    BY <2>2, SlotsApart
  <2> QED
    BY <2>1, <2>3
<1> QED
  BY <1>1, <1>2 DEF Exact

\* The first packet alone is in the window behind itself.
LEMMA FirstExact ==
  ASSUME NEW p \in Int
  PROVE  Exact({Slot(Wrap(p))}, p, {p})
<1>1. Slot(Wrap(p)) = p % Window
  BY SlotOfPosition
<1>2. ASSUME NEW q \in Int, q <= p, p - q < Window
      PROVE  q % Window = p % Window <=> q = p
  <2>1. q - p < Window
    BY <1>2, WindowFacts
  <2> QED
    BY <1>2, <2>1, SlotsApart
<1> QED
  BY <1>1, <1>2 DEF Exact

\* What a step of observe() does to the positions counted.
LEMMA ObserveStep ==
  ASSUME Inv, NEW p \in Positions, Observe(p)
  PROVE  /\ Inv'
         /\ verdict' = Verdict(tracker, Wrap(p))
         /\ ~tracker.started => verdict' = "First" /\ seen' = {p} /\ top' = p
         /\ tracker.started /\ verdict' = "InOrder" =>
              seen' = seen \cup {p} /\ top' = p /\ p > top /\ p \notin seen
         /\ tracker.started /\ verdict' = "Reordered" =>
              seen' = seen \cup {p} /\ top' = top /\ p < top /\ p \notin seen
         /\ verdict' \in {"Duplicate", "TooOld"} => UNCHANGED <<seen, top, tracker>>
         /\ verdict' \in {"First", "InOrder", "Reordered", "Duplicate", "TooOld"}
         /\ verdict' = "First" => ~tracker.started
<1> DEFINE s == Wrap(p)
           t == tracker
           u == tracker'
           v == verdict'
<1>1. /\ v = Verdict(t, s) /\ u = Observed(t, s) /\ fresh' = (p \notin seen)
      /\ seen' = IF v \in {"Duplicate", "TooOld"} THEN seen ELSE seen \cup {p}
      /\ top' = IF v \in {"First", "InOrder"} THEN p ELSE top
      /\ seen # {} => p - top \in 1 - Half .. Half - 1
  BY DEF Observe
<1>2. /\ t \in Trackers /\ seen \subseteq Positions /\ seen \in SUBSET Int
      /\ top \in Int /\ p \in Int /\ s \in Serials
      /\ t.started <=> seen # {}
      /\ t.started => Marked(t, seen, top)
  BY TrackerAssumption, WrapType DEF Inv
<1>3. v \in {"First", "InOrder", "Reordered", "Duplicate", "TooOld"}
  BY <1>1 DEF Verdict
<1> HIDE DEF s, t, u, v
<1>outcome. Outcome(t, s, v, u)
  BY <1>1, <1>2, ObservedFields
<1>4. u \in Trackers /\ seen' \subseteq Positions /\ top' \in Int
  BY <1>1, <1>2, <1>outcome DEF Outcome
<1>5. CASE ~t.started
  <2>1. v = "First"
    BY <1>1, <1>5 DEF Verdict
  <2>2. u.started /\ u.highest = s /\ u.bits = {Slot(s)}
    BY <1>outcome, <2>1 DEF Outcome
  <2>3. seen' = {p} /\ top' = p /\ fresh'
    BY <1>1, <1>2, <1>5, <2>1
  <2>4. Marked(u, seen', top')
    BY <1>2, <2>2, <2>3, FirstExact DEF Marked, s
  <2>5. VerdictIsTrue'
    BY <2>1, <2>3 DEF VerdictIsTrue, v
  <2>6. Inv'
    BY <1>4, <2>2, <2>3, <2>4, <2>5 DEF Inv, u
  <2> QED
    BY <1>1, <1>5, <2>1, <2>3, <2>6 DEF t, u, v, s
<1>6. CASE t.started
  <2>1. /\ v = "InOrder" => p > top /\ p \notin seen
        /\ v = "Reordered" => p < top /\ top - p < Window /\ p \notin seen
        /\ v = "Duplicate" => p \in seen
        /\ v # "First"
    <3>1. p - top \in 1 - Half .. Half - 1 /\ Marked(t, seen, top)
      BY <1>1, <1>2, <1>6
    <3> QED
      BY <1>1, <1>2, <1>6, <3>1, VerdictMeans DEF s
  <2>2. VerdictIsTrue'
    BY <1>1, <2>1 DEF VerdictIsTrue, v
  <2>3. /\ top \in seen /\ \A q \in seen : q <= top
        /\ t.highest = Wrap(top) /\ Exact(t.bits, top, seen)
        /\ t.bits \in SUBSET Nat
    BY <1>2, <1>6 DEF Marked, Trackers
  <2>4. CASE v = "InOrder"
    <3>1. seen' = seen \cup {p} /\ top' = p /\ p > top
      BY <1>1, <2>1, <2>4
    <3>2. /\ u.started = t.started /\ u.highest = s
          /\ u.bits = Cleared(t.bits, t.highest, s) \cup {Slot(s)}
      BY <1>outcome, <2>4 DEF Outcome
    <3>3. p - top \in 1 .. Half - 1
      BY <1>1, <1>2, <1>6, <3>1, ModulusFacts
    <3>4. Exact(u.bits, p, seen')
      BY <1>2, <2>3, <3>1, <3>2, <3>3, ClearedExact DEF s
    <3>5. \A q \in seen' : q <= p
      BY <1>2, <2>3, <3>1
    <3>6. Marked(u, seen', top')
      BY <3>1, <3>2, <3>4, <3>5 DEF Marked, s
    <3>7. Inv'
      BY <1>4, <1>6, <2>2, <3>1, <3>2, <3>6 DEF Inv, u
    <3> QED
      BY <1>1, <1>3, <1>6, <2>1, <2>4, <3>1, <3>7 DEF t, u, v, s
  <2>5. CASE v = "Reordered"
    <3>1. seen' = seen \cup {p} /\ top' = top /\ p < top /\ top - p < Window
      BY <1>1, <2>1, <2>5
    <3>2. /\ u.started = t.started /\ u.highest = t.highest
          /\ u.bits = t.bits \cup {Slot(s)}
      BY <1>outcome, <2>5 DEF Outcome
    <3>3. Exact(u.bits, top, seen')
      BY <1>2, <2>3, <3>1, <3>2, FilledExact DEF s
    <3>4. Marked(u, seen', top')
      BY <1>2, <2>3, <3>1, <3>2, <3>3 DEF Marked
    <3>5. Inv'
      BY <1>4, <1>6, <2>2, <3>1, <3>2, <3>4 DEF Inv, u
    <3> QED
      BY <1>1, <1>3, <1>6, <2>1, <2>5, <3>1, <3>5 DEF t, u, v, s
  <2>6. CASE v \in {"Duplicate", "TooOld"}
    <3>1. u = t /\ seen' = seen /\ top' = top
      BY <1>1, <1>outcome, <2>6 DEF Outcome
    <3>2. Inv'
      BY <1>2, <2>2, <3>1 DEF Inv, u, t
    <3> QED
      BY <1>1, <1>3, <1>6, <2>1, <2>6, <3>1, <3>2 DEF t, u, v, s
  <2> QED
    BY <1>3, <2>1, <2>4, <2>5, <2>6
<1> QED
  BY <1>5, <1>6

-------------------------------------------------------------------------------
(* The bitmap and the verdicts *)

\* A new tracker has counted nothing.
LEMMA NewTrackerType ==
  /\ NewTracker \in Trackers
  /\ ~NewTracker.started
<1>1. 0 \in Serials
  BY ModulusFacts
<1> QED
  BY <1>1 DEF NewTracker, Trackers

\* The invariant holds initially.
LEMMA InitInv == Init => Inv
  BY NewTrackerType DEF Init, Inv, VerdictIsTrue

\* Every step keeps the invariant.
LEMMA NextInv == Inv /\ [Next]_vars => Inv'
<1> SUFFICES ASSUME Inv, [Next]_vars PROVE Inv'
  OBVIOUS
<1>1. ASSUME NEW p \in Positions, Observe(p) PROVE Inv'
  BY <1>1, ObserveStep
<1>2. ASSUME Reset PROVE Inv'
  BY <1>2, NewTrackerType DEF Reset, Inv, VerdictIsTrue
<1>3. CASE UNCHANGED vars
  BY <1>3 DEF vars, Inv, Marked, Exact, VerdictIsTrue
<1> QED
  BY <1>1, <1>2, <1>3 DEF Next

\* After any number of laps the bitmap remembers exactly the packets counted in
\* the window behind the mark.
THEOREM WindowCorrect == Spec => []WindowIsExact
<1>1. ASSUME Inv PROVE WindowIsExact
  <2>1. SUFFICES ASSUME tracker.started, NEW p \in top - Window + 1 .. top
                 PROVE  Slot(Wrap(p)) \in tracker.bits <=> p \in seen
    BY DEF WindowIsExact
  <2>2. top \in Int /\ Exact(tracker.bits, top, seen) /\ Window \in Nat
    BY <1>1, <2>1, WindowFacts DEF Inv, Marked
  <2>3. p \in Int /\ p <= top /\ top - p < Window
    BY <2>2
  <2>4. Slot(Wrap(p)) = p % Window
    BY <2>3, SlotOfPosition
  <2> QED
    BY <2>2, <2>3, <2>4 DEF Exact
<1> QED
  BY <1>1, InitInv, NextInv, PTL DEF Spec

\* A packet is counted only the first time, and called a duplicate only if it was
\* counted before.
THEOREM VerdictCorrect == Spec => []VerdictIsTrue
<1>1. Inv => VerdictIsTrue
  BY DEF Inv
<1> QED
  BY <1>1, InitInv, NextInv, PTL DEF Spec

-------------------------------------------------------------------------------
(* The loss *)

\* What the loss is computed from: the number of positions counted, and the first.
Spanned ==
  seen # {} =>
    /\ IsFiniteSet(seen)
    /\ Cardinality(seen) = tracker.received
    /\ \A a, b \in seen : b - a <= MaxSpan
    /\ \E low \in seen : /\ \A q \in seen : low <= q
                         /\ tracker.base = Wrap(low)

\* Counting a position not counted before.
LEMMA CountedOneMore ==
  ASSUME NEW S, IsFiniteSet(S), NEW n, Cardinality(S) = n, NEW p, p \notin S
  PROVE  IsFiniteSet(S \cup {p}) /\ Cardinality(S \cup {p}) = n + 1
  BY FS_AddElement

\* observe() keeps the count and the first position, when the positions are less
\* than half the word apart.
LEMMA SpannedStep ==
  ASSUME MaxSpan < Half, Inv, Spanned, NEW p \in Positions, Observe(p)
  PROVE  Spanned'
<1>1. /\ tracker \in Trackers /\ seen \subseteq Positions /\ Positions \subseteq Int
      /\ top \in Int /\ p \in Int /\ Wrap(p) \in Serials /\ MaxSpan \in Nat
      /\ tracker.started <=> seen # {}
      /\ tracker.started => Marked(tracker, seen, top)
  BY TrackerAssumption, WrapType DEF Inv
<1>2. /\ tracker' = Observed(tracker, Wrap(p))
      /\ \A q \in seen : p - q \in -MaxSpan .. MaxSpan
  BY DEF Observe
<1>3. /\ verdict' = Verdict(tracker, Wrap(p))
      /\ ~tracker.started => verdict' = "First" /\ seen' = {p} /\ top' = p
      /\ tracker.started /\ verdict' = "InOrder" =>
           seen' = seen \cup {p} /\ top' = p /\ p > top /\ p \notin seen
      /\ tracker.started /\ verdict' = "Reordered" =>
           seen' = seen \cup {p} /\ top' = top /\ p < top /\ p \notin seen
      /\ verdict' \in {"Duplicate", "TooOld"} => UNCHANGED <<seen, top, tracker>>
      /\ verdict' \in {"First", "InOrder", "Reordered", "Duplicate", "TooOld"}
      /\ verdict' = "First" => ~tracker.started
  BY ObserveStep
<1>4. Outcome(tracker, Wrap(p), verdict', tracker')
  BY <1>1, <1>2, <1>3, ObservedFields
<1>5. CASE ~tracker.started
  <2>1. seen' = {p} /\ tracker'.received = 1 /\ tracker'.base = Wrap(p)
    BY <1>3, <1>4, <1>5 DEF Outcome
  <2>2. IsFiniteSet({p}) /\ Cardinality({p}) = 1
    BY FS_Singleton
  <2>3. p - p <= MaxSpan /\ p <= p
    BY <1>1
  <2> QED
    BY <2>1, <2>2, <2>3 DEF Spanned
<1>6. CASE verdict' \in {"Duplicate", "TooOld"}
  BY <1>3, <1>6 DEF Spanned
<1>7. CASE tracker.started /\ verdict' \in {"InOrder", "Reordered"}
  <2>1. seen # {} /\ seen' = seen \cup {p} /\ p \notin seen
        /\ tracker'.received = tracker.received + 1
    BY <1>1, <1>3, <1>4, <1>7 DEF Outcome
  <2>2. PICK low \in seen : (\A q \in seen : low <= q) /\ tracker.base = Wrap(low)
    BY <2>1 DEF Spanned
  <2>3. IsFiniteSet(seen') /\ Cardinality(seen') = tracker'.received
    BY <2>1, CountedOneMore DEF Spanned
  <2>4. \A a, b \in seen' : b - a <= MaxSpan
    <3>1. \A q \in seen : q \in Int /\ p - q <= MaxSpan /\ q - p <= MaxSpan
      BY <1>1, <1>2
    <3>2. \A a, b \in seen : b - a <= MaxSpan
      BY <2>1 DEF Spanned
    <3> QED
      BY <1>1, <2>1, <3>1, <3>2
  <2>5. CASE verdict' = "InOrder"
    <3>1. tracker'.base = Wrap(low) /\ p > top
      BY <1>3, <1>4, <1>7, <2>2, <2>5 DEF Outcome
    <3>2. low <= top /\ low \in Int
      BY <1>1, <1>7 DEF Marked
    <3>3. low \in seen' /\ \A q \in seen' : low <= q
      BY <1>1, <2>1, <2>2, <3>1, <3>2
    <3> QED
      BY <2>3, <2>4, <3>1, <3>3 DEF Spanned
  <2>6. CASE verdict' = "Reordered"
    <3>1. tracker'.base = IF Precedes(Wrap(p), Wrap(low)) THEN Wrap(p) ELSE Wrap(low)
      BY <1>4, <2>2, <2>6 DEF Outcome
    <3>2. low \in Int /\ low - p \in -Half .. Half - 1
      BY <1>1, <1>2, ModulusFacts
    <3>3. Precedes(Wrap(p), Wrap(low)) <=> low - p > 0
      BY <1>1, <3>2, DistanceOfPositions DEF Precedes
    <3>4. CASE low - p > 0
      <4>1. p \in seen' /\ tracker'.base = Wrap(p)
        BY <2>1, <3>1, <3>3, <3>4
      <4>2. \A q \in seen' : p <= q
        BY <1>1, <2>1, <2>2, <3>2, <3>4
      <4> QED
        BY <2>3, <2>4, <4>1, <4>2 DEF Spanned
    <3>5. CASE ~(low - p > 0)
      <4>1. low \in seen' /\ tracker'.base = Wrap(low)
        BY <2>1, <3>1, <3>3, <3>5
      <4>2. \A q \in seen' : low <= q
        BY <1>1, <2>1, <2>2, <3>2, <3>5
      <4> QED
        BY <2>3, <2>4, <4>1, <4>2 DEF Spanned
    <3> QED
      BY <3>4, <3>5
  <2> QED
    BY <1>7, <2>5, <2>6
<1> QED
  BY <1>3, <1>5, <1>6, <1>7

\* lost() is the number of positions of the span never counted, for a stream whose
\* packets are numbered without holes and arrive less than half the word apart.
THEOREM LossCorrect ==
  ASSUME MaxSpan < Half,
         \A a, b \in Positions : a .. b \subseteq Positions
  PROVE  Spec => []LossIsTrue
<1>1. Init => Spanned
  BY DEF Init, Spanned
<1>2. Inv /\ Spanned /\ [Next]_vars => Spanned'
  <2> SUFFICES ASSUME Inv, Spanned, [Next]_vars PROVE Spanned'
    OBVIOUS
  <2>1. ASSUME NEW p \in Positions, Observe(p) PROVE Spanned'
    BY <2>1, SpannedStep
  <2>2. ASSUME Reset PROVE Spanned'
    BY <2>2 DEF Reset, Spanned
  <2>3. CASE UNCHANGED vars
    BY <2>3 DEF vars, Spanned
  <2> QED
    BY <2>1, <2>2, <2>3 DEF Next
<1>3. ASSUME Inv, Spanned PROVE LossIsTrue
  <2> DEFINE missed == {p \in Positions : p <= top /\ p \notin seen
                                           /\ \E q \in seen : q < p}
  <2>1. SUFFICES ASSUME tracker.started PROVE Lost(tracker) = Cardinality(missed)
    BY DEF LossIsTrue
  <2>2. /\ tracker \in Trackers /\ seen # {} /\ seen \subseteq Positions
        /\ Positions \subseteq Int /\ top \in seen /\ top \in Int
        /\ \A q \in seen : q <= top /\ q \in Int
        /\ tracker.highest = Wrap(top) /\ MaxSpan \in Nat
        /\ tracker.received \in Nat
    BY <1>3, <2>1, TrackerAssumption DEF Inv, Marked, Trackers
  <2>3. PICK low \in seen : (\A q \in seen : low <= q) /\ tracker.base = Wrap(low)
    BY <1>3, <2>2 DEF Spanned
  <2>4. /\ low \in Int /\ low <= top /\ top - low <= MaxSpan
        /\ top - low \in -Half .. Half - 1
    BY <1>3, <2>2, <2>3, ModulusFacts DEF Spanned
  <2>5. Distance(tracker.base, tracker.highest) = top - low
    BY <2>2, <2>3, <2>4, DistanceOfPositions
  <2>6. Expected(tracker) = top - low + 1
    BY <2>1, <2>2, <2>4, <2>5 DEF Expected
  <2>7. missed = (low .. top) \ seen
    <3>1. ASSUME NEW p \in missed PROVE p \in (low .. top) \ seen
      <4>1. PICK q \in seen : q < p
        BY <3>1
      <4>2. p \in Int /\ p <= top /\ p \notin seen /\ q \in Int /\ low <= q
        BY <2>2, <2>3, <3>1, <4>1
      <4> QED
        BY <2>2, <2>4, <4>1, <4>2
    <3>2. ASSUME NEW p \in (low .. top) \ seen PROVE p \in missed
      <4>1. p \in Positions
        BY <2>2, <2>3, <3>2
      <4>2. low < p /\ p <= top
        BY <2>2, <2>3, <2>4
      <4> QED
        BY <2>3, <3>2, <4>1, <4>2
    <3> QED
      BY <3>1, <3>2
  <2>8. IsFiniteSet(low .. top) /\ Cardinality(low .. top) = top - low + 1
    BY <2>2, <2>4, FS_Interval
  <2>9. (low .. top) \cap seen = seen
    <3>1. \A q \in seen : q \in low .. top
      BY <2>2, <2>3, <2>4
    <3> QED
      BY <3>1
  <2> HIDE DEF missed
  <2>10. Cardinality(missed) = (top - low + 1) - tracker.received
    <3> DEFINE span == low .. top
    <3>1. IsFiniteSet(span) /\ Cardinality(span) = top - low + 1
          /\ span \cap seen = seen /\ missed = span \ seen
      BY <2>7, <2>8, <2>9
    <3>2. Cardinality(seen) = tracker.received
      BY <1>3, <2>2 DEF Spanned
    <3> HIDE DEF span
    <3>3. Cardinality(span \ seen) = Cardinality(span) - Cardinality(span \cap seen)
      BY <3>1, FS_Difference
    <3>4. Cardinality(missed) = Cardinality(span) - Cardinality(seen)
      BY <3>1, <3>3, Zenon
    <3>5. Cardinality(span) = top - low + 1
      BY <3>1
    <3> QED
      BY <2>2, <2>4, <3>2, <3>4, <3>5
  <2>11. IsFiniteSet(missed) /\ Cardinality(missed) \in Nat
    <3> DEFINE span == low .. top
    <3>1. IsFiniteSet(span) /\ missed = span \ seen
      BY <2>7, <2>8
    <3> HIDE DEF span
    <3>2. IsFiniteSet(missed)
      BY <3>1, FS_Difference
    <3> QED
      BY <3>2, FS_CardinalityType
  <2> QED
    BY <2>2, <2>4, <2>6, <2>10, <2>11 DEF Lost
<1> QED
  BY <1>1, <1>2, <1>3, InitInv, NextInv, PTL DEF Spec
===============================================================================
