----------------------------- MODULE ProberProofs -----------------------------
(***************************************************************************)
(* The prober's books, round trips and clock samples are right for every   *)
(* number of slots, every timeout, every window and every clock offset.    *)
(***************************************************************************)
EXTENDS Prober, FiniteSetTheorems, WellFoundedInduction, TLAPS

-------------------------------------------------------------------------------
(* The inductive invariant *)

\* The slots of a prober that wait for a reply.
Waiting(p) == {i \in Slots : p.slots[i].outstanding}

SlotRecords == [id : Nat, sent : Nat, outstanding : BOOLEAN]

\* A sample the clock estimate may rest on.
Sound(s) ==
  s.own => /\ s.rtt = s.trueRtt
           /\ 2 * (s.offset - Offset) <= s.rtt + 1
           /\ -(2 * (s.offset - Offset)) <= s.rtt + 1

SampleRecords ==
  [rtt : Int, offset : Int, answered : Int, trueRtt : Int, own : BOOLEAN]

SoundSamples == {s \in SampleRecords : Sound(s)}

\* The fields of Prober.
Probers ==
  [slots : [Slots -> SlotRecords], nextId : Nat,
   pacer : [started : BOOLEAN, next : Int], window : Seq(SoundSamples),
   stats : [Counters -> Nat], lastReply : Nat, lastRtt : Int]

\* Every probe that left waits or was counted once.
Balanced(p) ==
  p.stats["sent"] = Cardinality(Waiting(p)) + p.stats["replied"]
                    + p.stats["timedOut"] + p.stats["impossible"]

\* A probe that waits was sent in this session, under an id already used.
Dated(p) ==
  \A i \in Slots : p.slots[i].outstanding =>
    /\ p.slots[i].id < p.nextId
    /\ p.slots[i].sent \in born .. now

\* The last reply was sent a plausible round trip before it was accepted.
Recent(p) ==
  p.lastReply # 0 =>
    /\ p.window # <<>>
    /\ LET last == p.window[Len(p.window)]
       IN  last.own => p.lastReply - last.answered <= MaxPlausible

\* A datagram or request that goes back to a PING of this session names an id
\* already used, and the slot waiting under that id was filled when it left.
Tied(p, d) ==
  /\ d.id \in Nat
  /\ d.t1 \in Nat
  /\ d.t1 <= now
  /\ d.t1 >= born =>
       /\ d.id < p.nextId
       /\ \A i \in Slots :
            p.slots[i].outstanding /\ p.slots[i].id = d.id
              => p.slots[i].sent = d.t1

\* The peer's timestamps are in order, read by our clock.
InOrder(d) ==
  /\ d.t2 \in Int
  /\ d.t3 \in Int
  /\ d.t1 <= d.t2 - Offset
  /\ d.t2 <= d.t3
  /\ d.t3 - Offset <= now

Clock ==
  /\ now \in Nat
  /\ born \in Nat
  /\ born <= now

InFlight(p) ==
  /\ \A d \in network : Tied(p, d) /\ (d.kind = "pong" => InOrder(d))
  /\ \A d \in asked : /\ Tied(p, d)
                      /\ d.t2 \in Int
                      /\ d.t1 <= d.t2 - Offset
                      /\ d.t2 - Offset <= now

Inv ==
  /\ Clock
  /\ prober \in Probers
  /\ Balanced(prober)
  /\ Dated(prober)
  /\ Recent(prober)
  /\ InFlight(prober)

-------------------------------------------------------------------------------
(* What the prober's methods do, as relations between its states *)

\* No probe is added.
AddsNone(p, q) ==
  /\ Waiting(q) = Waiting(p)
  /\ \A i \in Waiting(p) : q.slots[i] = p.slots[i]
  /\ \A c \in Counters \ {"withdrawn"} : q.stats[c] = p.stats[c]

\* A probe is added in a slot, under a fresh id.
Adds(p, q, time, s) ==
  /\ q.slots = [p.slots EXCEPT ![s] =
                  [id |-> p.nextId, sent |-> time, outstanding |-> TRUE]]
  /\ q.nextId = p.nextId + 1
  /\ q.stats = [p.stats EXCEPT !["sent"] = @ + 1]

ProbesOnce(p, q, time) ==
  /\ q \in Probers
  /\ q.window = p.window
  /\ q.lastReply = p.lastReply
  /\ q.nextId >= p.nextId
  /\ \/ q.pacer = p.pacer
     \/ PacerDue(p.pacer, time) /\ q.pacer = AdvancePacer(p.pacer, time)
  /\ AddsNone(p, q) \/ \E s \in Slots \ Waiting(p) : Adds(p, q, time, s)

\* Probes are only retired.
OnlyRetires(p, q) ==
  /\ q \in Probers
  /\ q.nextId = p.nextId
  /\ q.pacer = p.pacer
  /\ \A i \in Slots :
       /\ q.slots[i].id = p.slots[i].id
       /\ q.slots[i].sent = p.slots[i].sent
       /\ q.slots[i].outstanding => p.slots[i].outstanding

-------------------------------------------------------------------------------
(* Slots *)

\* A nonempty set of natural numbers has a least element.
LEMMA LeastMember ==
  ASSUME NEW S \in SUBSET Nat, S # {}
  PROVE  Min(S) \in S
<1>1. PICK x \in S : \A y \in S : <<y, x>> \notin OpToRel(<, Nat)
  BY WFMin, NatLessThanWellFounded, Zenon
<1>2. \A y \in S : ~ (y < x)
  BY <1>1, Zenon DEF OpToRel
<1>3. \A y \in S : x <= y
  BY <1>2
<1> QED
  BY <1>3, Zenon DEF Min

\* The slots are numbered, and there are finitely many of them.
LEMMA SlotFacts ==
  /\ Slots \subseteq Nat
  /\ \A S \in SUBSET Slots : IsFiniteSet(S) /\ Cardinality(S) \in Nat
<1>1. MaxOutstanding \in Int /\ 1 \in Int
  BY ProberAssumption
<1>2. IsFiniteSet(Slots)
  BY <1>1, FS_Interval DEF Slots
<1>3. \A S \in SUBSET Slots : IsFiniteSet(S) /\ Cardinality(S) \in Nat
  BY <1>2, FS_Subset, FS_CardinalityType
<1> QED
  BY <1>3 DEF Slots

\* The slots that wait are among the slots.
LEMMA WaitingFinite ==
  ASSUME NEW p
  PROVE  /\ Waiting(p) \subseteq Slots
         /\ IsFiniteSet(Waiting(p))
         /\ Cardinality(Waiting(p)) \in Nat
  BY SlotFacts DEF Waiting

-------------------------------------------------------------------------------
(* due_probe() and withdraw() *)

\* The schedule stays a schedule.
LEMMA PacerType ==
  ASSUME NEW p \in [started : BOOLEAN, next : Int], NEW time \in Int
  PROVE  AdvancePacer(p, time) \in [started : BOOLEAN, next : Int]
  BY PacerAssumption DEF AdvancePacer, StartPacer

\* Filling a slot leaves the other fields as they are.
LEMMA FilledFields ==
  ASSUME NEW p \in Probers, NEW slot \in Slots, NEW time \in Nat,
         NEW sent \in BOOLEAN, NEW q, q = Filled(p, slot, time, sent)
  PROVE  /\ q \in Probers
         /\ q.slots = [p.slots EXCEPT ![slot] =
                         [id |-> p.nextId, sent |-> time, outstanding |-> sent]]
         /\ q.nextId = p.nextId + 1
         /\ q.stats = [p.stats EXCEPT ![IF sent THEN "sent" ELSE "withdrawn"] = @ + 1]
         /\ q.window = p.window
         /\ q.lastReply = p.lastReply
         /\ q.pacer = p.pacer
<1> DEFINE s == [id |-> p.nextId, sent |-> time, outstanding |-> sent]
           c == IF sent THEN "sent" ELSE "withdrawn"
           n == p.nextId + 1
           slots == [p.slots EXCEPT ![slot] = s]
           stats == [p.stats EXCEPT ![c] = @ + 1]
<1>1. q = [p EXCEPT !.slots[slot] = s, !.nextId = n, !.stats[c] = @ + 1]
  BY DEF Filled
<1>2. s \in SlotRecords /\ c \in Counters /\ n \in Nat
  BY DEF SlotRecords, Counters, Probers
<1> HIDE DEF s, c, n
<1>3. slots \in [Slots -> SlotRecords] /\ stats \in [Counters -> Nat]
  BY <1>2 DEF Probers
<1>4. q = [p EXCEPT !.slots = slots, !.nextId = n, !.stats = stats]
  BY <1>1, <1>2 DEF Probers
<1> HIDE DEF slots, stats
<1>5. q \in Probers
  BY <1>2, <1>3, <1>4 DEF Probers
<1>6. /\ q.slots = slots /\ q.nextId = n /\ q.stats = stats
      /\ q.window = p.window /\ q.lastReply = p.lastReply /\ q.pacer = p.pacer
  BY <1>2, <1>3, <1>4 DEF Probers
<1> QED
  BY <1>5, <1>6 DEF slots, stats, s, c, n

\* A pass that sends fills a slot that did not wait, under a fresh id, and counts
\* the probe; one that is refused, or not due, adds none.
LEMMA ProbedFacts ==
  ASSUME NEW p \in Probers, NEW time \in Nat, NEW sent \in BOOLEAN
  PROVE  ProbesOnce(p, Probed(p, time, sent), time)
<1> DEFINE unused == {i \in Slots : ~p.slots[i].outstanding}
           slot   == Min(unused)
           pacer  == AdvancePacer(p.pacer, time)
           paced  == [p EXCEPT !.pacer = pacer]
           q      == Probed(p, time, sent)
<1> SUFFICES ProbesOnce(p, q, time)
  OBVIOUS
<1>1. /\ p.slots \in [Slots -> SlotRecords] /\ p.nextId \in Nat
      /\ p.stats \in [Counters -> Nat]
      /\ pacer \in [started : BOOLEAN, next : Int]
  <2>1. p.pacer \in [started : BOOLEAN, next : Int]
    BY DEF Probers
  <2>2. pacer \in [started : BOOLEAN, next : Int]
    BY <2>1, PacerType, time \in Int
  <2> HIDE DEF pacer
  <2> QED
    BY <2>2 DEF Probers
<1>2. paced \in Probers /\ paced.slots = p.slots /\ paced.stats = p.stats
      /\ paced.window = p.window /\ paced.lastReply = p.lastReply
      /\ paced.nextId = p.nextId /\ paced.pacer = pacer
  <2> HIDE DEF pacer
  <2> QED
    BY <1>1 DEF Probers
<1>3. CASE ~PacerDue(p.pacer, time)
  <2>1. q = p
    BY <1>3 DEF Probed
  <2> HIDE DEF q
  <2> QED
    BY <1>1, <2>1 DEF ProbesOnce, AddsNone
<1>4. CASE PacerDue(p.pacer, time) /\ unused = {}
  <2>1. q = paced
    BY <1>4 DEF Probed
  <2> HIDE DEF paced, q
  <2>2. AddsNone(p, q)
    BY <1>2, <2>1 DEF Waiting, AddsNone
  <2> QED
    BY <1>1, <1>2, <1>4, <2>1, <2>2 DEF ProbesOnce, pacer
<1>5. CASE PacerDue(p.pacer, time) /\ unused # {}
  <2>1. q = Filled(paced, slot, time, sent)
    BY <1>5 DEF Probed
  <2>2. slot \in Slots \ Waiting(p)
    <3>1. unused \in SUBSET Nat
      BY SlotFacts
    <3>2. slot \in unused
      <4> HIDE DEF unused
      <4> QED
        BY <1>5, <3>1, LeastMember
    <3> QED
      BY <3>2 DEF Waiting
  <2> HIDE DEF paced, slot, unused, pacer, q
  <2>3. /\ q \in Probers
        /\ q.slots = [p.slots EXCEPT ![slot] =
                        [id |-> p.nextId, sent |-> time, outstanding |-> sent]]
        /\ q.nextId = p.nextId + 1
        /\ q.stats = [p.stats EXCEPT ![IF sent THEN "sent" ELSE "withdrawn"] = @ + 1]
        /\ q.window = p.window /\ q.lastReply = p.lastReply
        /\ q.pacer = pacer
    BY <1>2, <2>1, <2>2, FilledFields
  <2>4. CASE sent
    <3>1. q.slots = [p.slots EXCEPT ![slot] =
                       [id |-> p.nextId, sent |-> time, outstanding |-> TRUE]]
      BY <2>3, <2>4
    <3>2. q.stats = [p.stats EXCEPT !["sent"] = @ + 1]
      BY <2>3, <2>4
    <3>3. Adds(p, q, time, slot)
      BY <2>3, <3>1, <3>2 DEF Adds
    <3>4. q.nextId >= p.nextId
      BY <1>1, <2>3
    <3> QED
      BY <1>5, <2>2, <2>3, <3>3, <3>4 DEF ProbesOnce, pacer
  <2>5. CASE ~sent
    <3>1. \A c \in Counters \ {"withdrawn"} : q.stats[c] = p.stats[c]
      BY <1>1, <2>3, <2>5 DEF Counters
    <3>2. \A i \in Waiting(p) : q.slots[i] = p.slots[i]
      BY <1>1, <2>2, <2>3 DEF Waiting
    <3>3. \A i \in Slots : q.slots[i].outstanding <=> p.slots[i].outstanding
      BY <1>1, <2>2, <2>3, <2>5 DEF Waiting
    <3>4. Waiting(q) = Waiting(p)
      BY <3>3 DEF Waiting
    <3>5. q.nextId >= p.nextId
      BY <1>1, <2>3
    <3>6. AddsNone(p, q)
      BY <3>1, <3>2, <3>4 DEF AddsNone
    <3> QED
      BY <1>5, <2>3, <3>5, <3>6 DEF ProbesOnce, pacer
  <2> QED
    BY <2>4, <2>5
<1> QED
  BY <1>3, <1>4, <1>5

-------------------------------------------------------------------------------
(* expire() *)

\* The probes given up on are no longer waited for, and are counted.
LEMMA ExpiredFacts ==
  ASSUME NEW p \in Probers, NEW time \in Nat
  PROVE  /\ OnlyRetires(p, Expired(p, time))
         /\ Balanced(p) => Balanced(Expired(p, time))
         /\ Recent(p) => Recent(Expired(p, time))
<1> DEFINE late == {i \in Slots : /\ p.slots[i].outstanding
                                  /\ time >= p.slots[i].sent
                                  /\ time - p.slots[i].sent >= Timeout}
           slots == [i \in Slots |->
                       [p.slots[i] EXCEPT !.outstanding = @ /\ i \notin late]]
           k == Cardinality(late)
           q == Expired(p, time)
<1>1. q = [p EXCEPT !.slots = slots, !.stats["timedOut"] = @ + k]
  BY DEF Expired
<1>2. late \subseteq Waiting(p) /\ late \subseteq Slots
  BY DEF Waiting
<1>3. k \in Nat
  BY <1>2, SlotFacts
<1>4. p.slots \in [Slots -> SlotRecords] /\ p.stats \in [Counters -> Nat]
  BY DEF Probers
<1> HIDE DEF late
<1>5. \A i \in Slots : /\ slots[i] \in SlotRecords
                       /\ slots[i].id = p.slots[i].id
                       /\ slots[i].sent = p.slots[i].sent
                       /\ slots[i].outstanding <=> i \in Waiting(p) \ late
  BY <1>2, <1>4 DEF SlotRecords, Waiting
<1>6. slots \in [Slots -> SlotRecords]
  BY <1>5
<1> HIDE DEF slots, k, q
<1>7. /\ q.slots = slots
      /\ q.stats = [p.stats EXCEPT !["timedOut"] = @ + k]
      /\ q.window = p.window /\ q.lastReply = p.lastReply
      /\ q.nextId = p.nextId /\ q.pacer = p.pacer
  BY <1>1, <1>3, <1>4, <1>6 DEF Probers
<1>8. q \in Probers
  <2>1. [p.stats EXCEPT !["timedOut"] = @ + k] \in [Counters -> Nat]
    BY <1>3, <1>4 DEF Counters
  <2> QED
    BY <1>1, <1>6, <2>1 DEF Probers
<1>9. Waiting(q) = Waiting(p) \ late
  BY <1>2, <1>5, <1>7 DEF Waiting
<1>10. Cardinality(Waiting(q)) = Cardinality(Waiting(p)) - k
  <2>1. Waiting(p) \cap late = late
    BY <1>2
  <2> QED
    BY <1>9, <2>1, WaitingFinite, FS_Difference DEF k
<1>11. Balanced(p) => Balanced(q)
  <2>1. /\ q.stats["timedOut"] = p.stats["timedOut"] + k
        /\ q.stats["sent"] = p.stats["sent"]
        /\ q.stats["replied"] = p.stats["replied"]
        /\ q.stats["impossible"] = p.stats["impossible"]
        /\ \A c \in Counters : p.stats[c] \in Nat
    BY <1>4, <1>7 DEF Counters
  <2>2. /\ Cardinality(Waiting(p)) \in Nat
        /\ {"sent", "replied", "timedOut", "impossible"} \subseteq Counters
    BY WaitingFinite DEF Counters
  <2> QED
    BY <1>3, <1>10, <2>1, <2>2 DEF Balanced
<1>12. OnlyRetires(p, q)
  BY <1>5, <1>7, <1>8 DEF Waiting, OnlyRetires
<1>13. Recent(p) => Recent(q)
  BY <1>7 DEF Recent
<1> QED
  BY <1>11, <1>12, <1>13 DEF q

-------------------------------------------------------------------------------
(* on_pong() *)

\* C++ division drops at most one half.
LEMMA HalvedNear ==
  ASSUME NEW n \in Int
  PROVE  /\ Halved(n) \in Int
         /\ 2 * Halved(n) <= n + 1
         /\ n <= 2 * Halved(n) + 1
<1>1. \A m \in Nat : m \div 2 \in Nat /\ 2 * (m \div 2) <= m /\ m <= 2 * (m \div 2) + 1
  OBVIOUS
<1>2. CASE n >= 0
  BY <1>1, <1>2 DEF Halved
<1>3. CASE n < 0
  <2>1. -n \in Nat
    BY <1>3
  <2> DEFINE h == (-n) \div 2
  <2>2. h \in Nat /\ 2 * h <= -n /\ -n <= 2 * h + 1 /\ Halved(n) = -h
    BY <1>1, <1>3, <2>1 DEF Halved
  <2> HIDE DEF h
  <2> QED
    BY <2>2
<1> QED
  BY <1>2, <1>3

\* A sample that may be kept, of an exchange that measured m.
Fit(s, m, t4) ==
  /\ s \in SoundSamples
  /\ s.rtt = m.rtt
  /\ s.own => t4 - s.answered <= s.rtt

\* The exchange of a PING with its own PONG measures the time both were under
\* way, and the offset to within half of it.
LEMMA SampleSound ==
  ASSUME NEW t1 \in Int, NEW t4 \in Int, NEW pong,
         pong.t1 \in Int, pong.t2 \in Int, pong.t3 \in Int,
         pong.t1 <= pong.t2 - Offset, pong.t3 - Offset <= t4,
         pong.t1 >= born => pong.t1 = t1
  PROVE  LET m == Measured(t1, pong.t2, pong.t3, t4)
         IN  Fit(Witnessed(m, pong, t4), m, t4)
<1> DEFINE rtt    == (t4 - t1) - (pong.t3 - pong.t2)
           offset == Halved((pong.t2 - t1) + (pong.t3 - t4))
           answered == pong.t3 - Offset
           trueRtt == (pong.t2 - Offset - pong.t1) + (t4 - (pong.t3 - Offset))
           own == pong.t1 >= born
           m == Measured(t1, pong.t2, pong.t3, t4)
           s == Witnessed(m, pong, t4)
<1>1. s = [rtt |-> rtt, offset |-> offset, answered |-> answered,
           trueRtt |-> trueRtt, own |-> own]
  BY DEF Measured, Witnessed
<1>2. Offset \in Int
  BY ProberAssumption
<1>3. rtt \in Int /\ offset \in Int /\ answered \in Int /\ trueRtt \in Int
      /\ own \in BOOLEAN
  BY <1>2, HalvedNear
<1>4. /\ own => rtt = trueRtt
      /\ own => t4 - answered <= rtt
      /\ own => 2 * (offset - Offset) <= rtt + 1
      /\ own => -(2 * (offset - Offset)) <= rtt + 1
  <2>1. SUFFICES ASSUME own
                 PROVE  /\ rtt = trueRtt
                        /\ t4 - answered <= rtt
                        /\ 2 * (offset - Offset) <= rtt + 1
                        /\ -(2 * (offset - Offset)) <= rtt + 1
    OBVIOUS
  <2>2. pong.t1 = t1
    BY <2>1
  <2> DEFINE n == (pong.t2 - t1) + (pong.t3 - t4)
  <2>3. n \in Int /\ offset \in Int /\ 2 * offset <= n + 1 /\ n <= 2 * offset + 1
    BY HalvedNear
  <2>4. n - 2 * Offset <= rtt /\ 2 * Offset - n <= rtt /\ rtt = trueRtt
        /\ t4 - answered <= rtt
    BY <1>2, <2>2
  <2> HIDE DEF offset, n
  <2> QED
    BY <1>2, <1>3, <2>3, <2>4
<1> HIDE DEF rtt, offset, answered, trueRtt, own, s
<1>5. /\ s \in SampleRecords
      /\ s.rtt = rtt /\ s.offset = offset /\ s.answered = answered
      /\ s.trueRtt = trueRtt /\ s.own = own
  BY <1>1, <1>3 DEF SampleRecords
<1> QED
  BY <1>3, <1>4, <1>5 DEF Fit, SoundSamples, Sound, Measured, rtt, s

\* The window keeps the newest sample last and never grows empty.
LEMMA RememberedFacts ==
  ASSUME NEW window \in Seq(SoundSamples), NEW s \in SoundSamples,
         NEW w, w = Remembered(window, s)
  PROVE  w \in Seq(SoundSamples) /\ w # <<>> /\ w[Len(w)] = s
<1> DEFINE longer == Append(window, s)
<1>1. /\ longer \in Seq(SoundSamples) /\ Len(longer) = Len(window) + 1
      /\ longer[Len(longer)] = s /\ Len(window) \in Nat
  OBVIOUS
<1>2. w = IF Len(longer) > SyncWindow THEN Tail(longer) ELSE longer
  BY DEF Remembered
<1> HIDE DEF longer
<1>3. CASE Len(longer) > SyncWindow
  <2>1. Len(longer) > 1
    BY <1>1, <1>3, SyncAssumption
  <2> QED
    BY <1>1, <1>2, <1>3, <2>1
<1>4. CASE ~(Len(longer) > SyncWindow)
  BY <1>1, <1>2, <1>4
<1> QED
  BY <1>3, <1>4

\* A probe that was waited for is counted once when its reply is taken.
LEMMA RepliedFacts ==
  ASSUME NEW p \in Probers, Balanced(p), Recent(p),
         NEW slot \in Waiting(p), NEW t4 \in Nat, NEW pong,
         pong.t1 \in Int, pong.t2 \in Int, pong.t3 \in Int,
         pong.t1 <= pong.t2 - Offset, pong.t3 - Offset <= t4,
         pong.t1 >= born => pong.t1 = p.slots[slot].sent
  PROVE  /\ OnlyRetires(p, Replied(p, slot, pong, t4))
         /\ Balanced(Replied(p, slot, pong, t4))
         /\ Recent(Replied(p, slot, pong, t4))
<1> DEFINE t1    == p.slots[slot].sent
           echo  == IF pong.t1 # t1 THEN 1 ELSE 0
           done  == [p EXCEPT !.slots[slot].outstanding = FALSE,
                              !.stats["badEcho"] = @ + echo]
           slots == [p.slots EXCEPT ![slot].outstanding = FALSE]
           stats == [p.stats EXCEPT !["badEcho"] = @ + echo]
           m     == Measured(t1, pong.t2, pong.t3, t4)
           s     == Witnessed(m, pong, t4)
           w     == Remembered(p.window, s)
           q     == Replied(p, slot, pong, t4)
<1>1. /\ slot \in Slots /\ p.slots \in [Slots -> SlotRecords]
      /\ p.stats \in [Counters -> Nat] /\ p.window \in Seq(SoundSamples)
      /\ p.nextId \in Nat /\ p.lastReply \in Nat /\ p.slots[slot].outstanding
  BY DEF Probers, Waiting
<1>2. t1 \in Nat /\ echo \in Nat
  BY <1>1 DEF SlotRecords
<1>3. /\ slots \in [Slots -> SlotRecords]
      /\ \A i \in Slots : /\ slots[i].id = p.slots[i].id
                          /\ slots[i].sent = p.slots[i].sent
                          /\ slots[i].outstanding <=> i \in Waiting(p) \ {slot}
  BY <1>1 DEF SlotRecords, Waiting
<1>4. /\ stats \in [Counters -> Nat]
      /\ \A c \in Counters \ {"badEcho"} : stats[c] = p.stats[c]
  <2>1. "badEcho" \in Counters
    BY DEF Counters
  <2> HIDE DEF echo
  <2> QED
    BY <1>1, <1>2, <2>1
<1>5. done = [p EXCEPT !.slots = slots, !.stats = stats]
  <2> HIDE DEF echo
  <2> QED
    BY <1>1 DEF Probers
<1>6. /\ done \in Probers /\ done.slots = slots /\ done.stats = stats
      /\ done.window = p.window /\ done.lastReply = p.lastReply
      /\ done.nextId = p.nextId /\ done.pacer = p.pacer
  <2> HIDE DEF done, slots, stats
  <2> QED
    BY <1>3, <1>4, <1>5 DEF Probers
<1>7. ASSUME NEW r \in Probers, r.slots = slots
      PROVE  /\ Waiting(r) = Waiting(p) \ {slot}
             /\ Cardinality(Waiting(r)) = Cardinality(Waiting(p)) - 1
             /\ Cardinality(Waiting(p)) \in Nat
  <2>1. Waiting(r) = Waiting(p) \ {slot}
    <3> HIDE DEF slots
    <3> QED
      BY <1>3, <1>7 DEF Waiting
  <2> QED
    BY <2>1, WaitingFinite, FS_RemoveElement
<1>8. ASSUME NEW c \in {"replied", "impossible"}, q \in Probers, q.slots = slots,
             q.stats = [stats EXCEPT ![c] = @ + 1]
      PROVE  Balanced(q)
  <2>1. /\ q.stats["sent"] = p.stats["sent"]
        /\ q.stats["timedOut"] = p.stats["timedOut"]
        /\ q.stats["replied"] + q.stats["impossible"]
             = p.stats["replied"] + p.stats["impossible"] + 1
        /\ \A x \in Counters : p.stats[x] \in Nat /\ q.stats[x] \in Nat
    <3>1. /\ {"sent", "replied", "timedOut", "impossible"} \subseteq Counters
          /\ c \in Counters /\ c \notin {"sent", "timedOut"}
      BY <1>8 DEF Counters
    <3> HIDE DEF stats
    <3>2. /\ \A x \in Counters : p.stats[x] \in Nat /\ q.stats[x] \in Nat
          /\ q.stats["sent"] = p.stats["sent"]
          /\ q.stats["timedOut"] = p.stats["timedOut"]
      <4>1. \A x \in Counters : p.stats[x] \in Nat /\ stats[x] \in Nat
        BY <1>1, <1>4
      <4>2. q.stats \in [Counters -> Nat]
        BY <1>8 DEF Probers
      <4>3. q.stats["sent"] = stats["sent"] /\ q.stats["timedOut"] = stats["timedOut"]
        BY <1>4, <1>8, <3>1
      <4> QED
        BY <1>4, <3>1, <4>1, <4>2, <4>3
    <3>3. /\ stats["replied"] = p.stats["replied"]
          /\ stats["impossible"] = p.stats["impossible"]
      BY <1>4, <3>1
    <3>4. CASE c = "replied"
      BY <1>4, <1>8, <3>1, <3>2, <3>3, <3>4
    <3>5. CASE c = "impossible"
      BY <1>4, <1>8, <3>1, <3>2, <3>3, <3>5
    <3> QED
      BY <1>8, <3>2, <3>4, <3>5
  <2>2. /\ Cardinality(Waiting(q)) = Cardinality(Waiting(p)) - 1
        /\ Cardinality(Waiting(p)) \in Nat
    BY <1>7, <1>8
  <2>3. {"sent", "replied", "timedOut", "impossible"} \subseteq Counters
    BY DEF Counters
  <2> QED
    BY <2>1, <2>2, <2>3 DEF Balanced
<1>9. q = IF ~Plausible(t1, pong.t2, pong.t3, t4)
          THEN [done EXCEPT !.stats["impossible"] = @ + 1]
          ELSE [done EXCEPT !.stats["replied"] = @ + 1,
                            !.window = Remembered(@, s),
                            !.lastReply = t4, !.lastRtt = m.rtt]
  BY DEF Replied
<1> HIDE DEF q
<1>10. Fit(s, m, t4)
  <2>1. t1 \in Int /\ t4 \in Int /\ (pong.t1 >= born => pong.t1 = t1)
    BY <1>2
  <2> HIDE DEF t1
  <2> QED
    BY <2>1, SampleSound
<1>11. w \in Seq(SoundSamples) /\ w # <<>> /\ w[Len(w)] = s
  <2>1. w = Remembered(p.window, s)
    OBVIOUS
  <2> HIDE DEF s, w
  <2> QED
    BY <1>1, <1>10, <2>1, RememberedFacts DEF Fit
<1>12. ASSUME q \in Probers, q.slots = slots, q.nextId = p.nextId,
              q.pacer = p.pacer
       PROVE  OnlyRetires(p, q)
  <2> HIDE DEF slots
  <2> QED
    BY <1>3, <1>12 DEF Waiting, OnlyRetires
<1>13. CASE ~Plausible(t1, pong.t2, pong.t3, t4)
  <2> DEFINE more == [stats EXCEPT !["impossible"] = @ + 1]
  <2>1. q = [done EXCEPT !.stats["impossible"] = @ + 1]
    BY <1>9, <1>13
  <2>2. more \in [Counters -> Nat]
    <3> HIDE DEF stats
    <3> QED
      BY <1>4 DEF Counters
  <2>3. q = [done EXCEPT !.stats = more]
    <3> HIDE DEF done, stats
    <3> QED
      BY <1>6, <2>1 DEF Probers
  <2>4. /\ q \in Probers /\ q.slots = slots /\ q.stats = more
        /\ q.window = p.window /\ q.lastReply = p.lastReply
        /\ q.nextId = p.nextId /\ q.pacer = p.pacer
    <3> HIDE DEF done, slots, stats, more
    <3> QED
      BY <1>6, <2>2, <2>3 DEF Probers
  <2>5. Balanced(q)
    BY <1>8, <2>4
  <2>6. Recent(q)
    BY <2>4 DEF Recent
  <2> HIDE DEF slots, more
  <2> QED
    BY <1>12, <2>4, <2>5, <2>6 DEF q
<1>14. CASE Plausible(t1, pong.t2, pong.t3, t4)
  <2> DEFINE more == [stats EXCEPT !["replied"] = @ + 1]
  <2>1. q = [done EXCEPT !.stats["replied"] = @ + 1,
                         !.window = Remembered(@, s),
                         !.lastReply = t4, !.lastRtt = m.rtt]
    BY <1>9, <1>14
  <2>2. more \in [Counters -> Nat]
    <3> HIDE DEF stats
    <3> QED
      BY <1>4 DEF Counters
  <2>3. m.rtt \in Int /\ m.rtt <= MaxPlausible
    BY <1>2, <1>14, SyncAssumption DEF Measured, Plausible
  <2>4. q = [done EXCEPT !.stats = more, !.window = w, !.lastReply = t4,
                         !.lastRtt = m.rtt]
    <3> HIDE DEF done, stats, s, m
    <3> QED
      BY <1>6, <2>1 DEF Probers
  <2>5. /\ q \in Probers /\ q.slots = slots /\ q.stats = more
        /\ q.window = w /\ q.lastReply = t4
        /\ q.nextId = p.nextId /\ q.pacer = p.pacer
    <3> HIDE DEF done, slots, stats, more, w, m
    <3> QED
      BY <1>6, <1>11, <2>2, <2>3, <2>4 DEF Probers
  <2>6. Balanced(q)
    BY <1>8, <2>5
  <2>7. Recent(q)
    <3>1. s.own => t4 - s.answered <= MaxPlausible
      <4>1. s.answered \in Int /\ s.rtt \in Int /\ MaxPlausible \in Int
        BY <1>10, SyncAssumption DEF Fit, SoundSamples, SampleRecords
      <4> HIDE DEF s, m
      <4> QED
        BY <1>10, <2>3, <4>1 DEF Fit
    <3> HIDE DEF s, w
    <3> QED
      BY <1>11, <2>5, <3>1 DEF Recent
  <2> HIDE DEF slots, more
  <2> QED
    BY <1>12, <2>5, <2>6, <2>7 DEF q
<1> QED
  BY <1>13, <1>14

-------------------------------------------------------------------------------
(* The steps of the system *)

\* What was in flight or waiting stays so when probes are only retired.
LEMMA RetiredKept ==
  ASSUME NEW p, NEW q, OnlyRetires(p, q)
  PROVE  /\ Dated(p) => Dated(q)
         /\ \A d : Tied(p, d) => Tied(q, d)
<1>1. Dated(p) => Dated(q)
  BY DEF Dated, OnlyRetires
<1>2. ASSUME NEW d, Tied(p, d)
      PROVE  Tied(q, d)
  BY <1>2 DEF Tied, OnlyRetires
<1> QED
  BY <1>1, <1>2

\* on_pong() keeps the invariant, whatever reply it is given.
LEMMA ReceiveSound ==
  ASSUME Inv, NEW pong \in network, pong.kind = "pong", Receive(pong)
  PROVE  /\ prober' \in Probers /\ Balanced(prober') /\ Recent(prober')
         /\ prober'.pacer = prober.pacer
         /\ Dated(prober) => Dated(prober')
         /\ \A d : Tied(prober, d) => Tied(prober', d)
<1> DEFINE p == prober
           q == prober'
           S == Matching(pong.id)
<1>1. p \in Probers /\ Balanced(p) /\ Recent(p) /\ now \in Nat
  BY DEF Inv, Clock
<1>2. Tied(p, pong) /\ InOrder(pong)
  BY DEF Inv, InFlight
<1>3. S \subseteq Waiting(p) /\ \A i \in S : p.slots[i].id = pong.id
  BY DEF Matching, Outstanding, Waiting
<1>4. CASE S = {}
  <2> DEFINE stats == [p.stats EXCEPT !["stale"] = @ + 1]
  <2>1. q = [p EXCEPT !.stats["stale"] = @ + 1]
    BY <1>4 DEF Receive
  <2>2. "stale" \in Counters /\ p.stats \in [Counters -> Nat]
        /\ {"sent", "replied", "timedOut", "impossible"} \subseteq Counters \ {"stale"}
    BY <1>1 DEF Counters, Probers
  <2>3. /\ stats \in [Counters -> Nat]
        /\ \A c \in Counters \ {"stale"} : stats[c] = p.stats[c]
    BY <2>2
  <2>4. q = [p EXCEPT !.stats = stats]
    BY <1>1, <2>1 DEF Probers
  <2>5. /\ q \in Probers /\ q.stats = stats /\ q.slots = p.slots
        /\ q.window = p.window /\ q.lastReply = p.lastReply
        /\ q.nextId = p.nextId /\ q.pacer = p.pacer
    <3> HIDE DEF stats, p, q
    <3> QED
      BY <1>1, <2>3, <2>4 DEF Probers
  <2>6. Balanced(q) /\ Recent(q)
    <3>1. Waiting(q) = Waiting(p)
      BY <2>5 DEF Waiting
    <3> HIDE DEF stats, p, q
    <3>2. Balanced(q)
      BY <1>1, <2>2, <2>3, <2>5, <3>1 DEF Balanced
    <3>3. Recent(q)
      BY <1>1, <2>5 DEF Recent
    <3> QED
      BY <3>2, <3>3
  <2>7. /\ Dated(p) => Dated(q)
        /\ \A d : Tied(p, d) => Tied(q, d)
    <3> HIDE DEF p, q
    <3>1. OnlyRetires(p, q)
      BY <2>5 DEF OnlyRetires
    <3> QED
      BY <3>1, RetiredKept
  <2> QED
    BY <2>5, <2>6, <2>7
<1>5. CASE S # {}
  <2> DEFINE slot == Min(S)
  <2>1. slot \in S
    <3>1. S \in SUBSET Nat
      BY <1>3, WaitingFinite, SlotFacts
    <3> HIDE DEF S
    <3> QED
      BY <1>5, <3>1, LeastMember
  <2>2. q = Replied(p, slot, pong, now)
    BY <1>5 DEF Receive
  <2> HIDE DEF S, slot
  <2>3. slot \in Waiting(p) /\ p.slots[slot].id = pong.id
    BY <1>3, <2>1
  <2>4. pong.t1 >= born => pong.t1 = p.slots[slot].sent
    BY <1>2, <2>3 DEF Tied, Waiting
  <2>5. /\ pong.t1 \in Int /\ pong.t2 \in Int /\ pong.t3 \in Int
        /\ pong.t1 <= pong.t2 - Offset /\ pong.t3 - Offset <= now
    BY <1>2 DEF Tied, InOrder
  <2> HIDE DEF p, q
  <2>6. OnlyRetires(p, q) /\ Balanced(q) /\ Recent(q)
    BY <1>1, <2>2, <2>3, <2>4, <2>5, RepliedFacts
  <2>7. /\ Dated(p) => Dated(q)
        /\ \A d : Tied(p, d) => Tied(q, d)
    BY <2>6, RetiredKept
  <2> QED
    BY <2>6, <2>7 DEF p, q, OnlyRetires
<1> QED
  BY <1>4, <1>5

\* A probing pass keeps the invariant, whether or not the socket takes the PING.
LEMMA ServiceSound ==
  ASSUME Inv, NEW sent \in BOOLEAN, Service(sent)
  PROVE  Inv'
<1> DEFINE p == prober
           r == Probed(prober, now, sent)
           q == prober'
           filled == {i \in Slots : r.slots[i].outstanding} \ Outstanding
<1>1. /\ q = Expired(r, now)
      /\ network' = network \cup {Ping(r.slots[i]) : i \in filled}
      /\ UNCHANGED <<now, asked, born>>
  BY DEF Service
<1>2. /\ p \in Probers /\ Balanced(p) /\ Recent(p) /\ Dated(p) /\ InFlight(p)
      /\ Clock /\ now \in Nat /\ born \in Nat /\ born <= now
  BY DEF Inv, Clock
<1>3. r = Probed(p, now, sent) /\ Outstanding = Waiting(p) /\ filled = Waiting(r) \ Waiting(p)
  BY DEF Outstanding, Waiting
<1> HIDE DEF p, r, q, filled
<1>4. ProbesOnce(p, r, now)
  BY <1>2, <1>3, ProbedFacts
<1>5. Recent(r) /\ r \in Probers /\ r.nextId >= p.nextId
  BY <1>2, <1>4 DEF Recent, ProbesOnce
<1>6. /\ p.slots \in [Slots -> SlotRecords] /\ p.stats \in [Counters -> Nat]
      /\ p.nextId \in Nat /\ r.nextId \in Nat
      /\ {"sent", "replied", "timedOut", "impossible"} \subseteq Counters \ {"withdrawn"}
      /\ Cardinality(Waiting(p)) \in Nat
  BY <1>2, <1>5, WaitingFinite DEF Probers, Counters
<1>7. Balanced(r) /\ Dated(r) /\ (\A d : Tied(p, d) => Tied(r, d))
      /\ \A i \in filled : Tied(r, Ping(r.slots[i])) /\ Ping(r.slots[i]).kind = "ping"
  <2>1. CASE AddsNone(p, r)
    <3>1. Balanced(r)
      BY <1>2, <1>6, <2>1 DEF Balanced, AddsNone
    <3>2. Dated(r)
      BY <1>2, <1>5, <1>6, <2>1 DEF Dated, Waiting, SlotRecords, AddsNone
    <3>3. ASSUME NEW d, Tied(p, d) PROVE Tied(r, d)
      BY <1>5, <1>6, <2>1, <3>3 DEF Tied, Waiting, AddsNone
    <3>4. filled = {}
      BY <1>3, <2>1 DEF AddsNone
    <3> QED
      BY <3>1, <3>2, <3>3, <3>4
  <2>2. ASSUME NEW s \in Slots \ Waiting(p), Adds(p, r, now, s)
        PROVE  Balanced(r) /\ Dated(r) /\ (\A d : Tied(p, d) => Tied(r, d))
               /\ \A i \in filled : Tied(r, Ping(r.slots[i])) /\ Ping(r.slots[i]).kind = "ping"
    <3>1. /\ \A i \in Slots \ {s} : r.slots[i] = p.slots[i]
          /\ r.slots[s].id = p.nextId /\ r.slots[s].sent = now
          /\ r.slots[s].outstanding /\ r.nextId = p.nextId + 1
      BY <1>6, <2>2 DEF Adds
    <3>2. Waiting(r) = Waiting(p) \cup {s} /\ filled = {s}
      BY <1>3, <3>1 DEF Waiting
    <3>3. Cardinality(Waiting(r)) = Cardinality(Waiting(p)) + 1
      BY <3>2, WaitingFinite, FS_AddElement
    <3>4. Balanced(r)
      <4>1. /\ r.stats["sent"] = p.stats["sent"] + 1
            /\ r.stats["replied"] = p.stats["replied"]
            /\ r.stats["timedOut"] = p.stats["timedOut"]
            /\ r.stats["impossible"] = p.stats["impossible"]
        BY <1>6, <2>2 DEF Adds
      <4> QED
        BY <1>2, <1>6, <3>3, <4>1 DEF Balanced
    <3>5. Dated(r)
      BY <1>2, <1>6, <2>2, <3>1 DEF Dated, SlotRecords
    <3>6. ASSUME NEW d, Tied(p, d) PROVE Tied(r, d)
      BY <1>6, <2>2, <3>1, <3>6 DEF Tied
    <3>7. Tied(r, Ping(r.slots[s])) /\ Ping(r.slots[s]).kind = "ping"
      <4>1. \A i \in Slots \ {s} : r.slots[i].outstanding => r.slots[i].id < p.nextId
        BY <1>2, <3>1 DEF Dated
      <4> DEFINE d == Ping(r.slots[s])
      <4>2. d.id = p.nextId /\ d.t1 = now /\ d.kind = "ping"
        BY <3>1 DEF Ping
      <4> HIDE DEF d
      <4>3. ASSUME NEW i \in Slots, r.slots[i].outstanding, r.slots[i].id = d.id
            PROVE  r.slots[i].sent = d.t1
        BY <1>6, <3>1, <4>1, <4>2, <4>3
      <4>4. Tied(r, d)
        BY <1>2, <1>6, <3>1, <4>2, <4>3 DEF Tied
      <4> QED
        BY <4>2, <4>4 DEF d
    <3> QED
      BY <3>2, <3>4, <3>5, <3>6, <3>7
  <2> QED
    BY <1>4, <2>1, <2>2 DEF ProbesOnce
<1>8. /\ q \in Probers /\ Balanced(q) /\ Recent(q) /\ Dated(q)
      /\ \A d : Tied(r, d) => Tied(q, d)
  <2>1. OnlyRetires(r, q) /\ Balanced(q) /\ Recent(q)
    BY <1>1, <1>2, <1>5, <1>7, ExpiredFacts
  <2> QED
    BY <1>7, <2>1, RetiredKept DEF OnlyRetires
<1>9. InFlight(prober)'
  <2>1. \A d \in network : Tied(q, d) /\ (d.kind = "pong" => InOrder(d))
    BY <1>2, <1>7, <1>8 DEF InFlight
  <2>2. \A d \in network' : Tied(q, d) /\ (d.kind = "pong" => InOrder(d))
    BY <1>1, <1>7, <1>8, <2>1
  <2>3. \A d \in asked : /\ Tied(q, d) /\ d.t2 \in Int
                         /\ d.t1 <= d.t2 - Offset /\ d.t2 - Offset <= now
    BY <1>2, <1>7, <1>8 DEF InFlight
  <2> QED
    BY <1>1, <2>2, <2>3 DEF InFlight, Tied, InOrder, q
<1> QED
  BY <1>1, <1>2, <1>8, <1>9 DEF Inv, Clock, Dated, q

\* The session begins with nothing sent and nothing under way.
LEMMA FreshSound ==
  ASSUME NEW time \in Nat
  PROVE  /\ StartedProber(time) \in Probers
         /\ \A i \in Slots : ~StartedProber(time).slots[i].outstanding
         /\ Balanced(StartedProber(time))
         /\ StartedProber(time).lastReply = 0
         /\ StartedProber(time).pacer = StartPacer(time)
<1> DEFINE slots == [i \in Slots |-> Free]
           stats == [c \in Counters |-> 0]
           pacer == StartPacer(time)
           p == StartedProber(time)
<1>1. /\ slots \in [Slots -> SlotRecords] /\ stats \in [Counters -> Nat]
      /\ pacer \in [started : BOOLEAN, next : Int]
      /\ \A i \in Slots : ~slots[i].outstanding
  BY DEF Free, SlotRecords, StartPacer
<1>2. <<>> \in Seq(SoundSamples)
  OBVIOUS
<1>3. p = [slots |-> slots, nextId |-> 1, pacer |-> pacer, window |-> <<>>,
           stats |-> stats, lastReply |-> 0, lastRtt |-> 0]
  BY DEF StartedProber, NewProber
<1> HIDE DEF slots, stats, pacer, p
<1>4. p \in Probers
  BY <1>1, <1>2, <1>3 DEF Probers
<1>5. Waiting(p) = {} /\ \A i \in Slots : ~p.slots[i].outstanding
  BY <1>1, <1>3 DEF Waiting
<1>6. Balanced(p)
  <2>1. {"sent", "replied", "timedOut", "impossible"} \subseteq Counters
    BY DEF Counters
  <2>2. p.stats["sent"] = 0 /\ p.stats["replied"] = 0
        /\ p.stats["timedOut"] = 0 /\ p.stats["impossible"] = 0
    BY <1>3, <2>1 DEF stats
  <2>3. Cardinality(Waiting(p)) = 0
    BY <1>5, FS_EmptySet
  <2> QED
    BY <2>2, <2>3 DEF Balanced
<1> QED
  BY <1>3, <1>4, <1>5, <1>6 DEF p, pacer

\* The invariant holds initially.
LEMMA InitInv == Init => Inv
<1> SUFFICES ASSUME Init PROVE Inv
  OBVIOUS
<1>1. now = 1 /\ born = 1 /\ prober = StartedProber(1) /\ network = {} /\ asked = {}
  BY DEF Init
<1>2. /\ prober \in Probers /\ Balanced(prober) /\ prober.lastReply = 0
      /\ \A i \in Slots : ~prober.slots[i].outstanding
  BY <1>1, FreshSound
<1>3. Clock /\ InFlight(prober)
  BY <1>1 DEF Clock, InFlight
<1>4. Dated(prober) /\ Recent(prober)
  BY <1>2 DEF Dated, Recent
<1> QED
  BY <1>2, <1>3, <1>4 DEF Inv

\* The peer's note of a PING is honest.
LEMMA NotedSound ==
  ASSUME Inv, NEW d \in network
  PROVE  /\ Tied(prober, Noted(d)) /\ Noted(d).t2 \in Int
         /\ Noted(d).t1 <= Noted(d).t2 - Offset /\ Noted(d).t2 - Offset <= now
<1>1. Tied(prober, d) /\ now \in Nat /\ Offset \in Int
  BY ProberAssumption DEF Inv, InFlight, Clock
<1>2. Noted(d).id = d.id /\ Noted(d).t1 = d.t1 /\ Noted(d).t2 = now + Offset
  BY DEF Noted
<1>3. Tied(prober, Noted(d))
  BY <1>1, <1>2 DEF Tied
<1>4. d.t1 \in Nat /\ d.t1 <= now
  BY <1>1 DEF Tied
<1> QED
  BY <1>1, <1>2, <1>3, <1>4

\* What the invariant says stays true of a step that leaves the clock and the
\* prober alone, when what is new in flight satisfies it.
LEMMA TransportSound ==
  ASSUME Inv, UNCHANGED <<now, prober, born>>,
         \A d \in network' \ network :
           Tied(prober, d) /\ (d.kind = "pong" => InOrder(d)),
         \A d \in asked' \ asked :
           /\ Tied(prober, d) /\ d.t2 \in Int
           /\ d.t1 <= d.t2 - Offset /\ d.t2 - Offset <= now
  PROVE  Inv'
<1>1. \A d \in network' : Tied(prober, d) /\ (d.kind = "pong" => InOrder(d))
  BY DEF Inv, InFlight
<1>2. \A d \in asked' : /\ Tied(prober, d) /\ d.t2 \in Int
                        /\ d.t1 <= d.t2 - Offset /\ d.t2 - Offset <= now
  BY DEF Inv, InFlight
<1>3. InFlight(prober)'
  BY <1>1, <1>2 DEF InFlight, Tied, InOrder
<1> QED
  BY <1>3 DEF Inv, Clock, Dated, Balanced, Recent, Waiting

\* Every step keeps the invariant.
LEMMA NextInv == Inv /\ [Next]_vars => Inv'
<1> SUFFICES ASSUME Inv, [Next]_vars PROVE Inv'
  OBVIOUS
<1>1. ASSUME NEW sent \in BOOLEAN, Service(sent) PROVE Inv'
  BY <1>1, ServiceSound
<1>2. ASSUME NEW d \in network, d.kind = "pong", Receive(d),
             network' \subseteq network, UNCHANGED <<now, asked, born>>
      PROVE  Inv'
  <2>1. /\ prober' \in Probers /\ Balanced(prober') /\ Recent(prober')
        /\ Dated(prober) => Dated(prober')
        /\ \A e : Tied(prober, e) => Tied(prober', e)
    BY <1>2, ReceiveSound
  <2>2. \A e \in network' : Tied(prober', e) /\ (e.kind = "pong" => InOrder(e))
    BY <1>2, <2>1 DEF Inv, InFlight
  <2>3. \A e \in asked : /\ Tied(prober', e) /\ e.t2 \in Int
                         /\ e.t1 <= e.t2 - Offset /\ e.t2 - Offset <= now
    BY <2>1 DEF Inv, InFlight
  <2>4. InFlight(prober)'
    BY <1>2, <2>2, <2>3 DEF InFlight, Tied, InOrder
  <2>5. Dated(prober') /\ Clock
    BY <2>1 DEF Inv
  <2> QED
    BY <1>2, <2>1, <2>4, <2>5 DEF Inv, Clock, Dated
<1>3. ASSUME NEW d \in network, OnPong(d) PROVE Inv'
  <2>1. d.kind = "pong" /\ Receive(d) /\ network' = network \ {d}
        /\ UNCHANGED <<now, asked, born>>
    BY <1>3 DEF OnPong
  <2> QED
    BY <1>2, <2>1
<1>4. ASSUME NEW d \in network, Ask(d) PROVE Inv'
  <2>1. network' = network \ {d} /\ asked' = asked \cup {Noted(d)}
        /\ UNCHANGED <<now, prober, born>>
    BY <1>4 DEF Ask
  <2> QED
    BY <2>1, NotedSound, TransportSound
<1>5. ASSUME NEW d \in network, Lose(d) PROVE Inv'
  <2>1. network' = network \ {d} /\ asked' = asked
        /\ UNCHANGED <<now, prober, born>>
    BY <1>5 DEF Lose
  <2> QED
    BY <2>1, TransportSound
<1>6. ASSUME NEW d \in network, Copy(d) PROVE Inv'
  <2>1. UNCHANGED <<now, network, born>>
    BY <1>6 DEF Copy
  <2>2. CASE d.kind = "ping" /\ asked' = asked \cup {Noted(d)} /\ UNCHANGED prober
    BY <2>1, <2>2, NotedSound, TransportSound
  <2>3. CASE d.kind = "pong" /\ Receive(d) /\ UNCHANGED asked
    BY <1>2, <2>1, <2>3
  <2> QED
    BY <1>6, <2>2, <2>3 DEF Copy
<1>7. ASSUME NEW r \in asked, Answer(r) PROVE Inv'
  <2> DEFINE d == [kind |-> "pong", id |-> r.id, t1 |-> r.t1, t2 |-> r.t2,
                   t3 |-> now + Offset]
  <2>1. network' = network \cup {d} /\ asked' = asked \ {r}
        /\ UNCHANGED <<now, prober, born>>
    BY <1>7 DEF Answer
  <2>2. /\ Tied(prober, r) /\ r.t2 \in Int /\ r.t1 <= r.t2 - Offset
        /\ r.t2 - Offset <= now /\ now \in Nat /\ Offset \in Int
    BY ProberAssumption DEF Inv, InFlight, Clock
  <2>3. d.id = r.id /\ d.t1 = r.t1 /\ d.t2 = r.t2 /\ d.t3 = now + Offset
    OBVIOUS
  <2> HIDE DEF d
  <2>4. Tied(prober, d)
    BY <2>2, <2>3 DEF Tied
  <2>5. InOrder(d)
    <3>1. r.t1 \in Nat
      BY <2>2 DEF Tied
    <3> QED
      BY <2>2, <2>3, <3>1 DEF InOrder
  <2> QED
    BY <2>1, <2>4, <2>5, TransportSound
<1>8. ASSUME Restart PROVE Inv'
  <2>1. now' = now + 1 /\ born' = now' /\ prober' = StartedProber(now')
        /\ UNCHANGED <<network, asked>> /\ now \in Nat /\ born \in Nat
    BY <1>8 DEF Restart, Inv, Clock
  <2>2. /\ prober' \in Probers /\ Balanced(prober') /\ prober'.lastReply = 0
        /\ \A i \in Slots : ~prober'.slots[i].outstanding
    BY <2>1, FreshSound
  <2>3. \A d : Tied(prober, d) => Tied(prober, d)'
    BY <2>1 DEF Tied
  <2>4. \A d : Tied(prober, d) /\ InOrder(d) => InOrder(d)'
    BY <2>1, ProberAssumption DEF Tied, InOrder
  <2>5. \A d \in asked : d.t2 \in Int /\ d.t1 <= d.t2 - Offset /\ d.t2 - Offset <= now'
    BY <2>1, ProberAssumption DEF Inv, InFlight
  <2>6. InFlight(prober)'
    BY <2>1, <2>3, <2>4, <2>5 DEF Inv, InFlight
  <2>7. Dated(prober)' /\ Recent(prober)'
    BY <2>2 DEF Dated, Recent
  <2> QED
    BY <2>1, <2>2, <2>6, <2>7 DEF Inv, Clock
<1>9. ASSUME Tick PROVE Inv'
  <2>1. now' = now + 1 /\ UNCHANGED <<prober, network, asked, born>>
        /\ now \in Nat /\ born \in Nat /\ born <= now /\ prober \in Probers
    BY <1>9 DEF Tick, Inv, Clock
  <2>2. \A d : Tied(prober, d) => Tied(prober, d)'
    BY <2>1 DEF Tied
  <2>3. \A d : InOrder(d) => InOrder(d)'
    BY <2>1, ProberAssumption DEF InOrder
  <2>4. \A d \in asked : d.t2 \in Int /\ d.t1 <= d.t2 - Offset /\ d.t2 - Offset <= now'
    BY <2>1, ProberAssumption DEF Inv, InFlight
  <2>5. InFlight(prober)'
    BY <2>1, <2>2, <2>3, <2>4 DEF Inv, InFlight
  <2>6. Dated(prober)'
    <3>1. \A i \in Slots : prober.slots[i].outstanding =>
                             prober.slots[i].id < prober.nextId /\ prober.slots[i].sent \in born .. now
      BY DEF Inv, Dated
    <3> QED
      BY <2>1, <3>1 DEF Dated
  <2> QED
    BY <2>1, <2>5, <2>6 DEF Inv, Clock, Balanced, Recent, Waiting
<1>10. CASE UNCHANGED vars
  <2>1. UNCHANGED <<now, prober, network, asked, born>>
    BY <1>10 DEF vars
  <2> QED
    BY <2>1, TransportSound
<1> QED
  BY <1>1, <1>3, <1>4, <1>5, <1>6, <1>7, <1>8, <1>9, <1>10 DEF Next

-------------------------------------------------------------------------------
(* What follows *)

\* Every probe that left is still waited for, or was counted exactly once.
THEOREM ProbesCorrect == Spec => []ProbesAccounted
<1>1. Inv => ProbesAccounted
  BY DEF Inv, Balanced, ProbesAccounted, Outstanding, Waiting
<1> QED
  BY <1>1, InitInv, NextInv, PTL DEF Spec

\* The samples in the window are sound.
LEMMA SamplesSound ==
  ASSUME Inv, NEW s \in Samples
  PROVE  s \in SoundSamples
<1>1. prober.window \in Seq(SoundSamples)
  BY DEF Inv, Probers
<1> QED
  BY <1>1 DEF Samples

\* A round trip measured in a session is the one its own PING and PONG made.
THEOREM RttCorrect == Spec => []RttTrueInSession
<1>1. ASSUME Inv PROVE RttTrueInSession
  BY <1>1, SamplesSound DEF RttTrueInSession, SoundSamples, Sound
<1> QED
  BY <1>1, InitInv, NextInv, PTL DEF Spec

\* The clock offset is known to within half the round trip.
THEOREM OffsetCorrect == Spec => []OffsetBounded
<1>1. ASSUME Inv PROVE OffsetBounded
  BY <1>1, SamplesSound DEF OffsetBounded, SoundSamples, Sound
<1> QED
  BY <1>1, InitInv, NextInv, PTL DEF Spec

\* A link shown as up was answered within the link's timeout and the longest
\* round trip that is believed.
THEOREM LinkCorrect == Spec => []LinkIsFresh
<1>1. ASSUME Inv PROVE LinkIsFresh
  <2> DEFINE last == prober.window[Len(prober.window)]
  <2>1. SUFFICES ASSUME LinkOf(prober, now) = "Up", last.own
                 PROVE  now - last.answered <= LinkTimeout + MaxPlausible
    BY DEF LinkIsFresh
  <2>2. prober.lastReply # 0 /\ now - prober.lastReply <= LinkTimeout
    BY <2>1 DEF LinkOf
  <2>3. prober.window # <<>> /\ prober.lastReply - last.answered <= MaxPlausible
    BY <1>1, <2>1, <2>2 DEF Inv, Recent
  <2>4. /\ prober.window \in Seq(SoundSamples) /\ now \in Nat
        /\ prober.lastReply \in Nat
    BY <1>1 DEF Inv, Probers, Clock
  <2>5. last \in SoundSamples
    BY <2>3, <2>4
  <2>6. last.answered \in Int
    BY <2>5 DEF SoundSamples, SampleRecords
  <2> HIDE DEF last
  <2> QED
    BY <2>2, <2>3, <2>4, <2>6, ProberAssumption, SyncAssumption
<1> QED
  BY <1>1, InitInv, NextInv, PTL DEF Spec

-------------------------------------------------------------------------------
(* The burst after a stall *)

\* Departures at one instant walk the schedule up from the tolerance.
Paced ==
  /\ burst \in Nat
  /\ burst >= 1 => prober.pacer.next >= now - Tolerance + (burst - 1) * Interval

\* The number of whole intervals within the tolerance.
LEMMA WholeIntervals ==
  ASSUME NEW a \in Nat, NEW b \in Nat \ {0}, NEW n \in Nat, n * b <= a
  PROVE  n <= a \div b
<1>1. a \div b \in Nat /\ a < b * ((a \div b) + 1)
  OBVIOUS
<1>2. SUFFICES ASSUME n >= (a \div b) + 1 PROVE FALSE
  BY <1>1
<1> DEFINE k == (a \div b) + 1
<1>3. k \in Nat /\ n >= k /\ a < b * k
  BY <1>1, <1>2
<1> HIDE DEF k
<1>4. (n - k) * b >= 0 /\ (n - k) * b = n * b - b * k /\ n * b \in Int /\ b * k \in Int
  BY <1>3
<1> QED
  BY <1>3, <1>4

\* Where advance() leaves the schedule.
LEMMA AdvanceFacts ==
  ASSUME NEW p \in [started : BOOLEAN, next : Int], NEW time \in Nat,
         PacerDue(p, time), Interval # 0
  PROVE  /\ Tolerance \in Nat /\ Interval \in Nat \ {0}
         /\ AdvancePacer(p, time).next >= time - Tolerance
         /\ p.next <= time
         /\ p.next + Interval >= time - Tolerance
              => AdvancePacer(p, time).next = p.next + Interval
<1>1. Tolerance \in Nat /\ Interval \in Nat \ {0}
  BY PacerAssumption DEF Tolerance
<1> QED
  BY <1>1 DEF AdvancePacer, StartPacer, PacerDue

\* A pass keeps the burst on the schedule.
LEMMA BurstStep ==
  ASSUME Interval # 0, Inv, Paced, BurstBounded, [Next]_vars
  PROVE  Paced' /\ BurstBounded'
<1>1. /\ prober \in Probers /\ now \in Nat /\ burst \in Nat
      /\ prober.pacer \in [started : BOOLEAN, next : Int]
  BY DEF Inv, Clock, Probers, Paced
<1>2. Tolerance \in Nat /\ Interval \in Nat \ {0} /\ Tolerance \div Interval \in Nat
  BY PacerAssumption DEF Tolerance
<1>3. CASE prober'.pacer = prober.pacer /\ UNCHANGED <<now, burst>>
  BY <1>3 DEF Paced, BurstBounded
<1>4. CASE burst' = 0
  BY <1>2, <1>4 DEF Paced, BurstBounded
<1>5. ASSUME NEW sent \in BOOLEAN, Service(sent)
      PROVE  Paced' /\ BurstBounded'
  <2> DEFINE r == Probed(prober, now, sent)
             next == prober.pacer.next
  <2>1. /\ prober' = Expired(r, now)
        /\ burst' = IF r.pacer = prober.pacer THEN burst ELSE burst + 1
        /\ now' = now
    BY <1>5 DEF Service
  <2>2. ProbesOnce(prober, r, now)
    BY <1>1, ProbedFacts
  <2> HIDE DEF r
  <2>3. prober'.pacer = r.pacer
    <3>1. r \in Probers
      BY <2>2 DEF ProbesOnce
    <3> QED
      BY <1>1, <2>1, <3>1, ExpiredFacts DEF OnlyRetires
  <2>4. CASE r.pacer = prober.pacer
    BY <1>3, <2>1, <2>3, <2>4
  <2>5. CASE r.pacer # prober.pacer
    <3> DEFINE later == AdvancePacer(prober.pacer, now).next
    <3>1. PacerDue(prober.pacer, now) /\ prober'.pacer.next = later
      BY <2>2, <2>3, <2>5 DEF ProbesOnce
    <3>2. /\ later >= now - Tolerance /\ next <= now
          /\ next + Interval >= now - Tolerance => later = next + Interval
      BY <1>1, <3>1, AdvanceFacts
    <3>3. burst' = burst + 1 /\ now' = now /\ next \in Int
      BY <1>1, <2>1, <2>5
    <3> HIDE DEF later, next
    <3>4. CASE burst = 0
      <4>1. burst' = 1 /\ (burst' - 1) * Interval = 0
        BY <1>2, <3>3, <3>4
      <4>2. later >= now - Tolerance + (burst' - 1) * Interval
        BY <1>1, <1>2, <3>2, <4>1
      <4>3. Paced'
        BY <3>1, <3>3, <4>1, <4>2 DEF Paced, Tolerance
      <4>4. BurstBounded'
        BY <1>2, <4>1 DEF BurstBounded, Tolerance
      <4> QED
        BY <4>3, <4>4
    <3>5. CASE burst >= 1
      <4> DEFINE n == burst - 1
                 before == n * Interval
      <4>1. n \in Nat /\ before \in Nat /\ next >= now - Tolerance + before
        BY <1>1, <1>2, <3>5 DEF Paced, next
      <4>2. burst * Interval = before + Interval
        BY <1>1, <1>2
      <4>3. n <= Tolerance \div Interval
        <5>1. before <= Tolerance
          <6> HIDE DEF n, before
          <6> QED
            BY <1>1, <1>2, <3>2, <3>3, <4>1
        <5> HIDE DEF n
        <5> QED
          BY <1>2, <4>1, <5>1, WholeIntervals
      <4>4. later >= now - Tolerance + burst * Interval
        <5> HIDE DEF n, before
        <5> QED
          BY <1>1, <1>2, <3>2, <3>3, <4>1, <4>2
      <4>5. burst' - 1 = burst /\ burst' \in Nat
        BY <1>1, <3>3
      <4>6. Paced'
        BY <3>1, <3>3, <4>4, <4>5 DEF Paced, Tolerance
      <4>7. BurstBounded'
        BY <1>1, <1>2, <3>3, <4>3 DEF BurstBounded, Tolerance
      <4> QED
        BY <4>6, <4>7
    <3> QED
      BY <1>1, <3>4, <3>5
  <2> QED
    BY <2>4, <2>5
<1>6. ASSUME NEW d \in network, OnPong(d) \/ Ask(d) \/ Lose(d) \/ Copy(d)
      PROVE  prober'.pacer = prober.pacer /\ UNCHANGED <<now, burst>>
  <2>1. ASSUME d.kind = "pong", Receive(d) PROVE prober'.pacer = prober.pacer
    BY <2>1, ReceiveSound
  <2> QED
    BY <1>6, <2>1 DEF OnPong, Ask, Lose, Copy
<1>7. ASSUME NEW r \in asked, Answer(r)
      PROVE  prober'.pacer = prober.pacer /\ UNCHANGED <<now, burst>>
  BY <1>7 DEF Answer
<1>8. ASSUME Restart \/ Tick PROVE burst' = 0
  BY <1>8 DEF Restart, Tick
<1>9. CASE UNCHANGED vars
  BY <1>3, <1>9 DEF vars
<1> QED
  BY <1>3, <1>4, <1>5, <1>6, <1>7, <1>8, <1>9 DEF Next

\* With an interval at all, a stall is followed by no longer burst than the
\* tolerance holds.
THEOREM BurstCorrect == Interval # 0 => (Spec => []BurstBounded)
<1> SUFFICES ASSUME Interval # 0 PROVE Spec => []BurstBounded
  OBVIOUS
<1>1. Init => Paced /\ BurstBounded
  <2>1. Tolerance \in Nat /\ Interval \in Nat \ {0} /\ Tolerance \div Interval \in Nat
    BY PacerAssumption DEF Tolerance
  <2> QED
    BY <2>1 DEF Init, Paced, BurstBounded
<1>2. Inv /\ Paced /\ BurstBounded /\ [Next]_vars => Paced' /\ BurstBounded'
  BY BurstStep
<1> QED
  BY <1>1, <1>2, InitInv, NextInv, PTL DEF Spec
===============================================================================
