-------------------------- MODULE ReorderQueueProofs --------------------------
(***************************************************************************)
(* Proofs about the reorder queue, for every word size, every capacity     *)
(* that divides it and reaches at most half-way round, and any number of   *)
(* calls.                                                                  *)
(***************************************************************************)
EXTENDS ReorderQueue, SerialProofs, FiniteSetTheorems

\* The parts of the inductive invariant, of one queue.
InWindow(q) ==
  /\ \A i \in DOMAIN q.slots :
       /\ Index(q.slots[i].sequence) = i
       /\ Distance(q.cursor, q.slots[i].sequence) \in 0 .. Capacity - 1
  /\ ~q.started => DOMAIN q.slots = {}

Counted(q) == q.held = Cardinality(DOMAIN q.slots)

Covered(q) ==
  q.held # 0 =>
    /\ Distance(q.cursor, q.highest) \in 0 .. Capacity - 1
    /\ \A i \in DOMAIN q.slots :
         Distance(q.slots[i].sequence, q.highest) >= 0

Sound(q) == q \in Queues /\ InWindow(q) /\ Counted(q) /\ Covered(q)

-------------------------------------------------------------------------------

\* What membership in Queues says of the fields.
LEMMA QueueFields ==
  ASSUME NEW q \in Queues
  PROVE  /\ DOMAIN q.slots \subseteq Indices
         /\ \A i \in DOMAIN q.slots :
              /\ q.slots[i] \in Frames
              /\ q.slots[i].sequence \in Serials
              /\ q.slots[i].deadline \in Int
         /\ q.slots \in [DOMAIN q.slots -> Frames]
         /\ q.cursor \in Serials /\ q.highest \in Serials
         /\ q.held \in Nat /\ q.started \in BOOLEAN
         /\ IsFiniteSet(DOMAIN q.slots)
<1>1. PICK D \in SUBSET Indices : q.slots \in [D -> Frames]
  BY DEF Queues
<1>2. DOMAIN q.slots = D
  BY <1>1
<1>3. IsFiniteSet(Indices)
  BY CapacityAssumption, FS_Interval DEF Indices
<1>4. IsFiniteSet(D)
  BY <1>3, FS_Subset
<1>5. \A f \in Frames : f.sequence \in Serials /\ f.deadline \in Int
  BY TimesAssumption DEF Frames
<1> QED
  BY <1>1, <1>2, <1>4, <1>5 DEF Queues

\* Capacity and word size, as the window argument uses them.
LEMMA CapacityFacts ==
  /\ Capacity \in Nat \ {0}
  /\ Capacity <= Half
  /\ Modulus % Capacity = 0
  /\ \A s \in Serials : Index(s) \in Indices
<1>1. Capacity \in Nat \ {0} /\ Capacity <= Half /\ Modulus % Capacity = 0
  BY CapacityAssumption
<1>2. \A s \in Serials : s \in Int
  BY ModulusFacts
<1>3. \A s \in Int : s % Capacity \in 0 .. Capacity - 1
  BY <1>1, ModRange
<1> QED
  BY <1>1, <1>2, <1>3 DEF Index, Indices

\* Going on from the cursor keeps distances, as long as nothing is passed.
LEMMA DistanceFrom ==
  ASSUME NEW c \in Serials, NEW s \in Serials, NEW d \in 0 .. Half - 1,
         NEW k \in 0 .. Half - 1, Distance(c, s) = k, d <= k
  PROVE  Distance(Wrap(c + d), s) = k - d
<1>1. Wrap(c + d) \in Serials /\ Wrap(c + d) \in {c + d, c + d - Modulus}
  BY ModulusFacts, WrapNear, WrapType
<1>2. k \in {s - c, s - c + Modulus, s - c - Modulus}
  BY DistanceType
<1> DEFINE e == Wrap(c + d)
<1>3. e \in Serials /\ e \in {c + d, c + d - Modulus}
  BY <1>1
<1> HIDE DEF e
<1>4. k - d \in -Half .. Half - 1
  BY ModulusFacts
<1>5. k - d \in {s - e, s - e + Modulus, s - e - Modulus}
  BY <1>2, <1>3, ModulusFacts
<1>6. Distance(e, s) = k - d
  BY <1>3, <1>4, <1>5, DistanceUnique
<1> QED
  BY <1>6 DEF e

\* In one window, distances subtract.
LEMMA DistanceBetween ==
  ASSUME NEW c \in Serials, NEW s \in Serials, NEW t \in Serials,
         Distance(c, s) \in 0 .. Capacity - 1,
         Distance(c, t) \in 0 .. Capacity - 1
  PROVE  Distance(s, t) = Distance(c, t) - Distance(c, s)
<1> DEFINE i == Distance(c, s)
           j == Distance(c, t)
<1>1. i \in {s - c, s - c + Modulus, s - c - Modulus}
  BY DistanceType
<1>2. j \in {t - c, t - c + Modulus, t - c - Modulus}
  BY DistanceType
<1>3. i \in 0 .. Capacity - 1 /\ j \in 0 .. Capacity - 1
  OBVIOUS
<1> HIDE DEF i, j
<1>4. j - i \in -Half .. Half - 1
  BY <1>3, CapacityFacts, ModulusFacts
<1>5. j - i \in {t - s, t - s + Modulus, t - s - Modulus}
  BY <1>1, <1>2, <1>3, CapacityFacts, ModulusFacts
<1>6. Distance(s, t) = j - i
  BY <1>4, <1>5, DistanceUnique
<1> QED
  BY <1>6 DEF i, j

-------------------------------------------------------------------------------

\* Clearing slots keeps the books: the count goes down by what was cleared.
LEMMA FreeSound ==
  ASSUME NEW q \in Queues, Counted(q), NEW freed \in SUBSET DOMAIN q.slots
  PROVE  /\ Free(q, freed) \in Queues
         /\ Counted(Free(q, freed))
         /\ DOMAIN Free(q, freed).slots = DOMAIN q.slots \ freed
         /\ \A i \in DOMAIN q.slots \ freed :
              Free(q, freed).slots[i] = q.slots[i]
         /\ Free(q, freed).cursor = q.cursor
         /\ Free(q, freed).highest = q.highest
         /\ Free(q, freed).started = q.started
         /\ Free(q, freed).held = q.held - Cardinality(freed)
         /\ Cardinality(freed) \in Nat
<1> DEFINE D == DOMAIN q.slots
           f == [i \in D \ freed |-> q.slots[i]]
<1>1. IsFiniteSet(D) /\ D \subseteq Indices /\ \A i \in D : q.slots[i] \in Frames
  BY QueueFields
<1>2. IsFiniteSet(freed) /\ Cardinality(freed) \in Nat
  BY <1>1, FS_Subset, FS_CardinalityType
<1>3. /\ Cardinality(D \ freed) = Cardinality(D) - Cardinality(D \cap freed)
      /\ D \cap freed = freed
      /\ Cardinality(D \ freed) \in Nat
      /\ Cardinality(D) \in Nat
  BY <1>1, FS_Difference, FS_CardinalityType
<1>4. f \in UNION {[E -> Frames] : E \in SUBSET Indices}
  <2>1. f \in [D \ freed -> Frames] /\ D \ freed \in SUBSET Indices
    BY <1>1
  <2> QED
    BY <2>1
<1>5. q.held - Cardinality(freed) \in Nat
  BY <1>2, <1>3 DEF Counted
<1>6. Free(q, freed) = [q EXCEPT !.slots = f, !.held = q.held - Cardinality(freed)]
  BY DEF Free
<1>7. Free(q, freed) \in Queues
  BY <1>4, <1>5, <1>6 DEF Queues
<1>8. /\ Free(q, freed).slots = f
      /\ Free(q, freed).held = q.held - Cardinality(freed)
      /\ Free(q, freed).cursor = q.cursor
      /\ Free(q, freed).highest = q.highest
      /\ Free(q, freed).started = q.started
  BY <1>6 DEF Queues
<1>9. DOMAIN f = D \ freed /\ \A i \in D \ freed : f[i] = q.slots[i]
  OBVIOUS
<1>10. Counted(Free(q, freed))
  BY <1>3, <1>8, <1>9 DEF Counted
<1> QED
  BY <1>2, <1>7, <1>8, <1>9, <1>10

\* A queue without frames is sound wherever its cursor stands.
LEMMA EmptySlots ==
  ASSUME NEW c \in Serials, NEW h \in Serials, NEW b \in BOOLEAN
  PROVE  Sound([slots |-> NoSlots, cursor |-> c, highest |-> h, held |-> 0,
                started |-> b])
<1> DEFINE q == [slots |-> NoSlots, cursor |-> c, highest |-> h, held |-> 0,
                 started |-> b]
<1>1. DOMAIN NoSlots = {} /\ NoSlots \in [{} -> Frames]
  BY DEF NoSlots
<1>2. NoSlots \in UNION {[E -> Frames] : E \in SUBSET Indices}
  <2>1. {} \in SUBSET Indices
    OBVIOUS
  <2> QED
    BY <1>1, <2>1
<1>3. q \in Queues
  BY <1>2 DEF Queues
<1>4. InWindow(q) /\ Counted(q) /\ Covered(q)
  BY <1>1, FS_EmptySet DEF InWindow, Counted, Covered
<1> QED
  BY <1>3, <1>4 DEF Sound

\* reset() and resync() leave a sound queue.
LEMMA ResyncSound ==
  /\ Sound(EmptyQueue)
  /\ \A s \in Serials : Sound(ResyncQ(s))
<1>1. 0 \in Serials /\ FALSE \in BOOLEAN /\ TRUE \in BOOLEAN
  BY ModulusFacts
<1>2. Sound(EmptyQueue)
  BY <1>1, EmptySlots, Zenon DEF EmptyQueue
<1>3. \A s \in Serials : Sound(ResyncQ(s))
  BY <1>1, EmptySlots, Zenon DEF ResyncQ
<1> QED
  BY <1>2, <1>3

\* start() only ever moves the cursor of a queue that holds nothing.
LEMMA StartSound ==
  ASSUME NEW q, Sound(q), NEW first \in Serials
  PROVE  /\ Sound(StartQ(q, first))
         /\ StartQ(q, first).slots = q.slots
         /\ StartQ(q, first).held = q.held
         /\ StartQ(q, first).started
         /\ q.started => StartQ(q, first) = q
         /\ ~q.started => StartQ(q, first).cursor = first
<1>1. q \in Queues /\ InWindow(q) /\ Counted(q) /\ Covered(q)
  BY DEF Sound
<1>2. CASE q.started
  BY <1>1, <1>2 DEF StartQ
<1>3. CASE ~q.started
  <2> DEFINE p == [q EXCEPT !.cursor = first, !.highest = first,
                            !.started = TRUE]
  <2>1. StartQ(q, first) = p
    BY <1>3 DEF StartQ
  <2>2. /\ p \in Queues
        /\ p.slots = q.slots /\ p.held = q.held /\ p.cursor = first
        /\ p.highest = first /\ p.started
    BY <1>1 DEF Queues
  <2>3. DOMAIN q.slots = {} /\ q.held = 0
    BY <1>1, <1>3, FS_EmptySet DEF InWindow, Counted
  <2> HIDE DEF p
  <2>4. InWindow(p) /\ Counted(p) /\ Covered(p)
    BY <1>1, <2>2, <2>3 DEF InWindow, Counted, Covered
  <2> QED
    BY <1>3, <2>1, <2>2, <2>4 DEF Sound
<1> QED
  BY <1>1, <1>2, <1>3 DEF Queues

\* A free slot inside the window takes a frame: the count, the window and the
\* highest mark stay right, in whatever order frames arrive.
LEMMA StoreSound ==
  ASSUME NEW q, Sound(q), q.started, NEW frame \in Frames,
         Index(frame.sequence) \notin DOMAIN q.slots,
         Distance(q.cursor, frame.sequence) \in 0 .. Capacity - 1
  PROVE  /\ Sound(Store(q, frame))
         /\ Store(q, frame).held = q.held + 1
         /\ Store(q, frame).cursor = q.cursor
         /\ Store(q, frame).started
<1> DEFINE D == DOMAIN q.slots
           n == Index(frame.sequence)
           f == [i \in D \cup {n} |-> IF i = n THEN frame ELSE q.slots[i]]
           h == RaiseHighest(q, frame.sequence)
           p == Store(q, frame)
<1>1. q \in Queues /\ InWindow(q) /\ Counted(q) /\ Covered(q)
  BY DEF Sound
<1>2. frame.sequence \in Serials /\ frame.deadline \in Int
  BY TimesAssumption DEF Frames
<1>3. /\ IsFiniteSet(D) /\ D \subseteq Indices
      /\ \A i \in D : q.slots[i] \in Frames /\ q.slots[i].sequence \in Serials
      /\ q.held \in Nat /\ q.cursor \in Serials /\ q.highest \in Serials
  BY <1>1, QueueFields
<1>4. n \in Indices
  BY <1>2, CapacityFacts
<1>5. Cardinality(D \cup {n}) = Cardinality(D) + 1
  BY <1>3, FS_AddElement
<1>6. f \in UNION {[E -> Frames] : E \in SUBSET Indices}
  <2>1. f \in [D \cup {n} -> Frames] /\ D \cup {n} \in SUBSET Indices
    BY <1>3, <1>4
  <2> QED
    BY <2>1
<1>7. h \in Serials
  BY <1>2, <1>3 DEF RaiseHighest
<1>8. p = [q EXCEPT !.slots = f, !.highest = h, !.held = q.held + 1]
  BY DEF Store
<1>9. /\ DOMAIN f = D \cup {n}
      /\ f[n] = frame
      /\ \A i \in D : f[i] = q.slots[i]
  OBVIOUS
<1> HIDE DEF f, h, p
<1>10. /\ p \in Queues /\ p.slots = f /\ p.highest = h /\ p.held = q.held + 1
       /\ p.cursor = q.cursor /\ p.started = q.started
  <2>1. q.held + 1 \in Nat
    BY <1>3
  <2>2. p \in Queues
    BY <1>1, <1>6, <1>7, <1>8, <2>1 DEF Queues
  <2>3. /\ p.slots = f /\ p.highest = h /\ p.held = q.held + 1
        /\ p.cursor = q.cursor /\ p.started = q.started
    BY <1>1, <1>8 DEF Queues
  <2> QED
    BY <2>2, <2>3
<1>11. InWindow(p)
  BY <1>1, <1>10, <1>9 DEF InWindow
<1>12. Counted(p)
  BY <1>1, <1>5, <1>10, <1>9 DEF Counted
<1>13. Covered(p)
  <2>1. \A i \in DOMAIN f : f[i].sequence \in Serials
                            /\ Distance(q.cursor, f[i].sequence) \in 0 .. Capacity - 1
    BY <1>1, <1>2, <1>3, <1>9 DEF InWindow
  <2>2. Distance(q.cursor, h) \in 0 .. Capacity - 1
    BY <1>1 DEF Covered, RaiseHighest, h
  <2>3. ASSUME NEW i \in DOMAIN f
        PROVE  Distance(f[i].sequence, h) >= 0
    <3>1. Distance(frame.sequence, h) >= 0
      <4>1. CASE h = frame.sequence
        <5>1. Distance(frame.sequence, h)
                = Distance(q.cursor, h) - Distance(q.cursor, frame.sequence)
          BY <1>2, <1>3, <1>7, <2>2, DistanceBetween
        <5> QED
          BY <5>1, <4>1, <2>2, CapacityFacts
      <4>2. CASE h # frame.sequence
        <5>1. q.held # 0 /\ ~Precedes(q.highest, frame.sequence) /\ h = q.highest
          BY <4>2 DEF RaiseHighest, h
        <5>2. /\ Distance(q.highest, frame.sequence)
                   = Distance(q.cursor, frame.sequence) - Distance(q.cursor, h)
              /\ Distance(frame.sequence, h)
                   = Distance(q.cursor, h) - Distance(q.cursor, frame.sequence)
          BY <1>2, <1>3, <1>7, <2>2, <5>1, DistanceBetween
        <5> QED
          BY <5>1, <5>2, <2>2, CapacityFacts DEF Precedes
      <4> QED
        BY <4>1, <4>2
    <3>2. CASE i = n
      BY <3>1, <3>2, <1>9
    <3>3. CASE i # n
      <4>1. i \in D /\ f[i] = q.slots[i]
        BY <3>3, <1>9
      <4>2. q.held # 0
        BY <4>1, <1>1, <1>3, FS_EmptySet DEF Counted
      <4>3. Distance(q.slots[i].sequence, q.highest) >= 0
        BY <4>1, <4>2, <1>1 DEF Covered
      <4>4. CASE h = q.highest
        BY <4>1, <4>3, <4>4
      <4>5. CASE h # q.highest
        <5>1. h = frame.sequence /\ Precedes(q.highest, frame.sequence)
          BY <4>2, <4>5 DEF RaiseHighest, h
        <5>2. Distance(q.cursor, q.highest) \in 0 .. Capacity - 1
          BY <4>2, <1>1 DEF Covered
        <5>3. /\ Distance(q.slots[i].sequence, q.highest)
                   = Distance(q.cursor, q.highest)
                       - Distance(q.cursor, q.slots[i].sequence)
              /\ Distance(q.slots[i].sequence, h)
                   = Distance(q.cursor, h)
                       - Distance(q.cursor, q.slots[i].sequence)
              /\ Distance(q.highest, h)
                   = Distance(q.cursor, h) - Distance(q.cursor, q.highest)
          BY <1>2, <1>3, <1>7, <2>1, <2>2, <4>1, <5>2, DistanceBetween
        <5>4. /\ Distance(q.cursor, h) \in Int
              /\ Distance(q.cursor, q.highest) \in Int
              /\ Distance(q.cursor, q.slots[i].sequence) \in Int
          BY <2>1, <2>2, <4>1, <5>2
        <5> QED
          BY <4>1, <4>3, <5>1, <5>3, <5>4 DEF Precedes
      <4> QED
        BY <4>4, <4>5
    <3> QED
      BY <3>2, <3>3
  <2> QED
    BY <1>10, <2>2, <2>3 DEF Covered
<1> QED
  BY <1>10, <1>11, <1>12, <1>13 DEF Sound, p

\* The cursor moves d positions on and every frame it passes is cleared: what
\* advance(), skip_to() and (with d = 0) drop_expired() have in common.
LEMMA PassSound ==
  ASSUME NEW q, Sound(q), NEW freed \in SUBSET DOMAIN q.slots, NEW d \in Nat,
         \A i \in DOMAIN q.slots \ freed :
           d <= Distance(q.cursor, q.slots[i].sequence)
  PROVE  Sound([Free(q, freed) EXCEPT !.cursor = Wrap(q.cursor + d)])
<1> DEFINE c == Wrap(q.cursor + d)
           r == Free(q, freed)
           p == [r EXCEPT !.cursor = c]
           D == DOMAIN q.slots \ freed
<1>1. q \in Queues /\ InWindow(q) /\ Counted(q) /\ Covered(q)
  BY DEF Sound
<1>2. /\ q.cursor \in Serials /\ q.highest \in Serials /\ q.held \in Nat
      /\ \A i \in DOMAIN q.slots : q.slots[i].sequence \in Serials
      /\ IsFiniteSet(DOMAIN q.slots)
  BY <1>1, QueueFields
<1>3. c \in Serials
  <2>1. q.cursor + d \in Int
    BY <1>2, ModulusFacts
  <2> QED
    BY <2>1, WrapType
<1>4. /\ r \in Queues /\ Counted(r) /\ DOMAIN r.slots = D
      /\ \A i \in D : r.slots[i] = q.slots[i]
      /\ r.highest = q.highest /\ r.started = q.started
  BY <1>1, FreeSound
<1> HIDE DEF c, r
<1>5. p \in Queues
  BY <1>3, <1>4 DEF Queues
<1>6. /\ p.slots = r.slots /\ p.held = r.held /\ p.cursor = c
      /\ p.highest = r.highest /\ p.started = r.started
  BY <1>4 DEF Queues
<1> HIDE DEF p
<1>7. Counted(p)
  BY <1>4, <1>6 DEF Counted
\* A position of the window at or beyond the new cursor stays in the window.
<1>8. ASSUME NEW s \in Serials, Distance(q.cursor, s) \in 0 .. Capacity - 1,
             d <= Distance(q.cursor, s)
      PROVE  Distance(c, s) \in 0 .. Capacity - 1
  <2> DEFINE k == Distance(q.cursor, s)
  <2>1. k \in 0 .. Half - 1 /\ d \in 0 .. Half - 1 /\ d <= k
    BY <1>8, CapacityFacts, ModulusFacts
  <2>2. Distance(c, s) = k - d
    BY <1>2, <1>8, <2>1, DistanceFrom DEF c
  <2> QED
    BY <1>8, <2>1, <2>2, CapacityFacts
<1>9. InWindow(p)
  <2>1. ASSUME NEW i \in D
        PROVE  /\ Index(q.slots[i].sequence) = i
               /\ Distance(c, q.slots[i].sequence) \in 0 .. Capacity - 1
    BY <1>1, <1>2, <1>8 DEF InWindow
  <2>2. ~q.started => D = {}
    BY <1>1 DEF InWindow
  <2> QED
    BY <1>4, <1>6, <2>1, <2>2 DEF InWindow
<1>10. Covered(p)
  <2>1. SUFFICES ASSUME p.held # 0
                 PROVE  /\ Distance(c, q.highest) \in 0 .. Capacity - 1
                        /\ \A i \in D : Distance(q.slots[i].sequence, q.highest) >= 0
    BY <1>4, <1>6 DEF Covered
  <2>2. PICK i \in D : TRUE
    <3>1. D # {}
      BY <1>4, <1>6, <1>7, <2>1, FS_EmptySet DEF Counted
    <3> QED
      BY <3>1
  <2>3. q.held # 0
    BY <1>1, <1>2, <2>2, FS_EmptySet DEF Counted
  <2>4. /\ Distance(q.cursor, q.highest) \in 0 .. Capacity - 1
        /\ \A j \in DOMAIN q.slots : Distance(q.slots[j].sequence, q.highest) >= 0
    BY <1>1, <2>3 DEF Covered
  <2> DEFINE k == Distance(q.cursor, q.slots[i].sequence)
             h == Distance(q.cursor, q.highest)
  <2>5. k \in 0 .. Capacity - 1 /\ d <= k
    BY <1>1, <2>2 DEF InWindow
  <2>6. Distance(q.slots[i].sequence, q.highest) = h - k
    BY <1>2, <2>2, <2>4, <2>5, DistanceBetween
  <2>7. h - k >= 0 /\ h \in 0 .. Capacity - 1
    BY <2>2, <2>4, <2>6
  <2> HIDE DEF h, k
  <2>8. d <= h
    BY <2>5, <2>7, CapacityFacts
  <2> QED
    BY <1>2, <1>8, <2>4, <2>8 DEF h
<1> QED
  BY <1>5, <1>7, <1>9, <1>10 DEF Sound, p, r, c

\* The frame of the window at distance k from the cursor has sequence
\* Wrap(cursor + k), and its slot holds it.
LEMMA HeldAt ==
  ASSUME NEW q, Sound(q), NEW i \in DOMAIN q.slots
  PROVE  /\ q.slots[i].sequence
              = Wrap(q.cursor + Distance(q.cursor, q.slots[i].sequence))
         /\ Holds(q, q.slots[i].sequence)
         /\ Index(q.slots[i].sequence) = i
<1>1. q \in Queues /\ InWindow(q)
  BY DEF Sound
<1>2. q.cursor \in Serials /\ q.slots[i].sequence \in Serials
  BY <1>1, QueueFields
<1>3. Index(q.slots[i].sequence) = i
  BY <1>1 DEF InWindow
<1> QED
  BY <1>2, <1>3, DistanceInverse DEF Holds

\* advance() leaves a sound queue.
LEMMA AdvanceSound ==
  ASSUME NEW q, Sound(q)
  PROVE  /\ Sound(AdvanceQ(q))
         /\ AdvanceQ(q).held = IF AdvanceResult(q) = "Delivered"
                               THEN q.held - 1 ELSE q.held
         /\ AdvanceQ(q).cursor = IF q.started THEN Wrap(q.cursor + 1)
                                 ELSE q.cursor
         /\ AdvanceQ(q).started = q.started
<1>1. q \in Queues /\ InWindow(q) /\ Counted(q)
  BY DEF Sound
<1>2. CASE ~q.started
  BY <1>1, <1>2 DEF AdvanceQ, AdvanceResult, Queues
<1>3. CASE q.started
  <2> DEFINE freed == IF Holds(q, q.cursor) THEN {Index(q.cursor)} ELSE {}
             p == [Free(q, freed) EXCEPT !.cursor = Wrap(q.cursor + 1)]
  <2>1. AdvanceQ(q) = p
    BY <1>3 DEF AdvanceQ
  <2>2. freed \in SUBSET DOMAIN q.slots
    BY DEF Holds
  <2>3. ASSUME NEW i \in DOMAIN q.slots \ freed
        PROVE  1 <= Distance(q.cursor, q.slots[i].sequence)
    <3>1. /\ q.slots[i].sequence
               = Wrap(q.cursor + Distance(q.cursor, q.slots[i].sequence))
          /\ Holds(q, q.slots[i].sequence)
          /\ Index(q.slots[i].sequence) = i
      BY HeldAt
    <3>2. Distance(q.cursor, q.slots[i].sequence) \in Nat
      BY <1>1, CapacityFacts DEF InWindow
    <3>3. Distance(q.cursor, q.slots[i].sequence) # 0
      <4>1. q.cursor \in Serials
        BY <1>1, QueueFields
      <4>2. Wrap(q.cursor + 0) = q.cursor
        BY <4>1, WrapNear, ModulusFacts
      <4>3. q.slots[i].sequence # q.cursor
        BY <3>1
      <4> QED
        BY <3>1, <4>2, <4>3
    <3> QED
      BY <3>2, <3>3
  <2>4. Sound(p)
    BY <2>2, <2>3, PassSound
  <2>5. /\ Free(q, freed) \in Queues
        /\ Free(q, freed).held = q.held - Cardinality(freed)
        /\ Free(q, freed).started = q.started
    BY <1>1, <2>2, FreeSound
  <2>6. p.held = q.held - Cardinality(freed) /\ p.cursor = Wrap(q.cursor + 1)
        /\ p.started = q.started
    BY <2>5 DEF Queues
  <2>7. Cardinality(freed) = IF AdvanceResult(q) = "Delivered" THEN 1 ELSE 0
    BY <1>3, FS_EmptySet, FS_Singleton DEF AdvanceResult
  <2>8. q.held \in Nat
    BY <1>1, QueueFields
  <2> HIDE DEF p, freed
  <2>9. p.held = IF AdvanceResult(q) = "Delivered" THEN q.held - 1 ELSE q.held
    BY <2>6, <2>7, <2>8
  <2> QED
    BY <1>3, <2>1, <2>4, <2>6, <2>9
<1> QED
  BY <1>1, <1>2, <1>3 DEF Queues

\* skip_to() leaves a sound queue: the slots its loop visits are exactly those
\* of the frames the jump passes.
LEMMA SkipToSound ==
  ASSUME NEW q, Sound(q), NEW sequence \in Serials
  PROVE  /\ Sound(SkipToQ(q, sequence))
         /\ SkipToQ(q, sequence).held
              = q.held - Cardinality(Skipped(q, SkipFrames(q, sequence)))
         /\ Cardinality(Skipped(q, SkipFrames(q, sequence))) \in Nat
         /\ SkipFrames(q, sequence) \in 0 .. Half - 1
         /\ SkipToQ(q, sequence).started = q.started
         /\ q.started => SkipToQ(q, sequence).cursor
                           = Wrap(q.cursor + SkipFrames(q, sequence))
<1> DEFINE frames == SkipFrames(q, sequence)
           freed == Skipped(q, frames)
<1>1. q \in Queues /\ InWindow(q) /\ Counted(q)
  BY DEF Sound
<1>2. q.cursor \in Serials /\ q.held \in Nat
  BY <1>1, QueueFields
<1>3. frames \in 0 .. Half - 1
  <2> DEFINE k == Distance(q.cursor, sequence)
  <2>1. k \in -Half .. Half - 1
    BY <1>2, DistanceType
  <2>2. (frames = k /\ k > 0) \/ frames = 0
    BY DEF SkipFrames
  <2> HIDE DEF k, frames
  <2> QED
    BY <2>1, <2>2, ModulusFacts
<1>4. freed \in SUBSET DOMAIN q.slots
  BY DEF Skipped, Holds
<1>5. CASE frames = 0
  <2>1. SkipToQ(q, sequence) = q
    BY <1>5 DEF SkipToQ
  <2>2. freed = {}
    <3>1. (IF frames < Capacity THEN frames ELSE Capacity) = 0
      BY <1>5, CapacityFacts
    <3>2. 0 .. 0 - 1 = {}
      OBVIOUS
    <3> QED
      BY <3>1, <3>2 DEF Skipped
  <2>3. Wrap(q.cursor + 0) = q.cursor
    BY <1>2, WrapNear, ModulusFacts
  <2> QED
    BY <1>2, <1>3, <1>5, <2>1, <2>2, <2>3, FS_EmptySet
<1>6. CASE frames # 0
  <2> DEFINE p == [Free(q, freed) EXCEPT !.cursor = sequence]
  <2>1. SkipToQ(q, sequence) = p
    BY <1>6 DEF SkipToQ
  <2>2. sequence = Wrap(q.cursor + frames)
    <3>1. frames = Distance(q.cursor, sequence)
      BY <1>6 DEF SkipFrames
    <3> QED
      BY <1>2, <3>1, DistanceInverse
  <2>3. ASSUME NEW i \in DOMAIN q.slots \ freed
        PROVE  frames <= Distance(q.cursor, q.slots[i].sequence)
    <3> DEFINE k == Distance(q.cursor, q.slots[i].sequence)
               stepped == IF frames < Capacity THEN frames ELSE Capacity
    <3>1. /\ q.slots[i].sequence = Wrap(q.cursor + k)
          /\ Holds(q, q.slots[i].sequence)
          /\ Index(q.slots[i].sequence) = i
      BY HeldAt
    <3>2. k \in 0 .. Capacity - 1
      BY <1>1 DEF InWindow
    <3>3. ~ (k \in 0 .. stepped - 1)
      <4>1. i \notin freed
        OBVIOUS
      <4> HIDE DEF k
      <4> QED
        BY <3>1, <4>1 DEF Skipped
    <3> HIDE DEF k
    <3>4. frames <= k
      BY <1>3, <3>2, <3>3, CapacityFacts, ModulusFacts
    <3> QED
      BY <3>4 DEF k
  <2>4. frames \in Nat
    BY <1>3, ModulusFacts
  <2>5. Sound(p)
    <3> HIDE DEF frames, freed
    <3> QED
      BY <1>4, <2>2, <2>3, <2>4, PassSound
  <2>6. /\ Free(q, freed) \in Queues
        /\ Free(q, freed).held = q.held - Cardinality(freed)
        /\ Free(q, freed).started = q.started
        /\ Cardinality(freed) \in Nat
    BY <1>1, <1>4, FreeSound
  <2>7. /\ p.held = q.held - Cardinality(freed)
        /\ p.cursor = sequence /\ p.started = q.started
    BY <2>6 DEF Queues
  <2> HIDE DEF p, frames, freed
  <2> QED
    BY <1>3, <2>1, <2>2, <2>5, <2>6, <2>7 DEF frames, freed
<1> QED
  BY <1>5, <1>6

\* drop_expired() leaves a sound queue, wherever in the window it drops from.
LEMMA DropExpiredSound ==
  ASSUME NEW q, Sound(q), NEW now
  PROVE  /\ Sound(DropExpiredQ(q, now))
         /\ DropExpiredQ(q, now).held = q.held - Cardinality(Expired(q, now))
         /\ Cardinality(Expired(q, now)) \in Nat
         /\ DropExpiredQ(q, now).cursor = q.cursor
         /\ DropExpiredQ(q, now).started = q.started
<1> DEFINE freed == Expired(q, now)
           p == Free(q, freed)
<1>1. q \in Queues /\ InWindow(q) /\ Counted(q)
  BY DEF Sound
<1>2. freed \in SUBSET DOMAIN q.slots
  BY DEF Expired
<1>3. /\ p \in Queues /\ p.held = q.held - Cardinality(freed)
      /\ p.cursor = q.cursor /\ p.started = q.started
      /\ Cardinality(freed) \in Nat
  BY <1>1, <1>2, FreeSound
<1>4. Wrap(q.cursor + 0) = q.cursor
  BY <1>1, QueueFields, WrapNear, ModulusFacts
<1>5. \A i \in DOMAIN q.slots \ freed :
        0 <= Distance(q.cursor, q.slots[i].sequence)
  BY <1>1, CapacityFacts DEF InWindow
<1>6. Sound([p EXCEPT !.cursor = q.cursor])
  <2> HIDE DEF freed
  <2> QED
    BY <1>2, <1>4, <1>5, PassSound
<1>7. [p EXCEPT !.cursor = q.cursor] = p
  BY <1>3 DEF Queues
<1> QED
  BY <1>3, <1>6, <1>7 DEF DropExpiredQ

\* insert() leaves a sound queue whatever it answers, and a frame more exactly
\* when it accepts.
LEMMA InsertSound ==
  ASSUME NEW q, Sound(q), NEW frame \in Frames, NEW oversized \in BOOLEAN,
         NEW now \in Times
  PROVE  LET verdict == InsertVerdict(q, frame, oversized, now)
             after == InsertQ(q, frame, verdict)
         IN  /\ Sound(after)
             /\ after.held = IF verdict = "Accepted" THEN q.held + 1 ELSE q.held
             /\ q.started => after.cursor = q.cursor /\ after.started
<1> DEFINE verdict == InsertVerdict(q, frame, oversized, now)
           p == StartQ(q, frame.sequence)
           after == InsertQ(q, frame, verdict)
<1>1. frame.sequence \in Serials
  BY DEF Frames
<1>2. /\ Sound(p) /\ p.slots = q.slots /\ p.held = q.held /\ p.started
      /\ q.started => p = q
  BY <1>1, StartSound
<1>3. CASE verdict = "Accepted"
  <2> DEFINE offset == Distance(p.cursor, frame.sequence)
  <2>1. /\ ~ (offset < 0)
        /\ ~ (offset >= Capacity)
        /\ Index(frame.sequence) \notin DOMAIN q.slots
    BY <1>3 DEF InsertVerdict
  <2>2. offset \in 0 .. Capacity - 1
    <3>1. p.cursor \in Serials
      BY <1>2, QueueFields DEF Sound
    <3>2. offset \in -Half .. Half - 1
      BY <1>1, <3>1, DistanceType
    <3> HIDE DEF offset
    <3> QED
      BY <2>1, <3>2, CapacityFacts, ModulusFacts
  <2>3. /\ Sound(Store(p, frame))
        /\ Store(p, frame).held = p.held + 1
        /\ Store(p, frame).cursor = p.cursor
        /\ Store(p, frame).started
    <3> HIDE DEF p
    <3> QED
      BY <1>2, <2>1, <2>2, StoreSound
  <2>4. after = Store(p, frame)
    BY <1>3 DEF InsertQ
  <2> HIDE DEF verdict, p, after
  <2> QED
    BY <1>2, <1>3, <2>3, <2>4 DEF verdict, after
<1>4. CASE verdict # "Accepted"
  <2>1. after = q \/ after = p
    BY <1>4 DEF InsertQ
  <2>2. after = q => after.cursor = q.cursor
    OBVIOUS
  <2> HIDE DEF verdict, p, after
  <2> QED
    BY <1>2, <1>4, <2>1 DEF verdict, after
<1> QED
  BY <1>3, <1>4

-------------------------------------------------------------------------------

\* The inductive invariant: each part needs the others.  The count is right
\* only if a slot is cleared by the frame it holds (the window), the highest
\* mark is right only if the window is, the books balance only if the count is.
Inv ==
  /\ TypeOK
  /\ SlotsInWindow
  /\ HeldIsOccupancy
  /\ HighestCoversHeld
  /\ Balanced
  /\ TimelineAccounted

\* The structural part of the invariant is soundness of the queue.
LEMMA InvIsSound ==
  TypeOK /\ SlotsInWindow /\ HeldIsOccupancy /\ HighestCoversHeld
    <=> /\ Sound(queue) /\ stats \in [Counters -> Nat]
        /\ flushed \in Nat /\ origin \in Serials
  BY DEF TypeOK, SlotsInWindow, HeldIsOccupancy, HighestCoversHeld, Sound,
         InWindow, Counted, Covered

\* The initial state is sound, with empty books.
LEMMA InitInv == Init => Inv
<1> SUFFICES ASSUME Init PROVE Inv
  OBVIOUS
<1>1. Sound(queue)
  BY ResyncSound DEF Init
<1>2. stats \in [Counters -> Nat] /\ flushed \in Nat /\ origin \in Serials
  BY ModulusFacts DEF Init, ZeroStats, Counters
<1>3. Balanced /\ TimelineAccounted
  BY DEF Init, ZeroStats, Counters, EmptyQueue, Balanced,
         TimelineAccounted
<1> QED
  BY <1>1, <1>2, <1>3, InvIsSound DEF Inv

\* Every call preserves the invariant.
LEMMA NextInv == Inv /\ [Next]_vars => Inv'
<1> SUFFICES ASSUME Inv, [Next]_vars PROVE Inv'
  OBVIOUS
<1> USE DEF Counters
<1>1. /\ Sound(queue) /\ stats \in [Counters -> Nat]
      /\ flushed \in Nat /\ origin \in Serials
      /\ Balanced /\ TimelineAccounted
  BY InvIsSound DEF Inv
<1>2. /\ queue.cursor \in Serials /\ queue.held \in Nat
      /\ queue.cursor \in Int /\ origin \in Int
  BY <1>1, QueueFields, ModulusFacts DEF Sound
<1>3. Ticks \in Nat /\ Ticks \in Int
  BY <1>1 DEF Ticks
\* It is enough that the queue is sound and the books balance.
<1>4. SUFFICES /\ Sound(queue') /\ stats' \in [Counters -> Nat]
               /\ flushed' \in Nat /\ origin' \in Serials
               /\ Balanced' /\ TimelineAccounted'
  <2>1. (/\ Sound(queue) /\ stats \in [Counters -> Nat]
         /\ flushed \in Nat /\ origin \in Serials)'
        => (TypeOK /\ SlotsInWindow /\ HeldIsOccupancy /\ HighestCoversHeld)'
    BY InvIsSound, PTL
  <2> QED
    BY <2>1 DEF Inv
\* Where the cursor is put somewhere, the origin is put with it.
<1>5. ASSUME Reorigin(queue'), queue'.cursor \in Serials, Ticks' = Ticks
      PROVE  origin' \in Serials /\ TimelineAccounted'
  <2>1. queue'.cursor - Ticks \in Int /\ queue'.cursor \in Int
    BY <1>3, <1>5, ModulusFacts
  <2>2. origin' = Wrap(queue'.cursor - Ticks)
    BY <1>5 DEF Reorigin
  <2>3. Wrap(Wrap(queue'.cursor - Ticks) + Ticks)
          = Wrap((queue'.cursor - Ticks) + Ticks)
    BY <1>3, <2>1, WrapAdd, Zenon
  <2>4. (queue'.cursor - Ticks) + Ticks = queue'.cursor
    BY <1>3, <2>1
  <2>5. Wrap(queue'.cursor) = queue'.cursor
    BY <1>5, <2>1, WrapNear, ModulusFacts
  <2>6. origin' \in Serials
    BY <2>1, <2>2, WrapType
  <2> QED
    BY <1>5, <2>2, <2>3, <2>4, <2>5, <2>6 DEF TimelineAccounted
\* Where the cursor moves, as many ticks are counted.
<1>6. ASSUME NEW n \in Nat, Ticks' = Ticks + n, origin' = origin,
             queue.started => queue'.cursor = Wrap(queue.cursor + n),
             queue'.started => queue.started
      PROVE  TimelineAccounted'
  <2>1. CASE ~queue.started
    BY <1>6, <2>1 DEF TimelineAccounted
  <2>2. CASE queue.started
    <3>1. origin + Ticks \in Int
      BY <1>2, <1>3
    <3>2. Wrap(Wrap(origin + Ticks) + n) = Wrap((origin + Ticks) + n)
      BY <3>1, WrapAdd
    <3>3. (origin + Ticks) + n = origin + (Ticks + n)
      BY <1>2, <1>3
    <3> QED
      BY <1>1, <1>6, <2>2, <3>2, <3>3 DEF TimelineAccounted
  <2> QED
    BY <2>1, <2>2
<1> DEFINE Goal == /\ Sound(queue') /\ stats' \in [Counters -> Nat]
                   /\ flushed' \in Nat /\ origin' \in Serials
                   /\ Balanced' /\ TimelineAccounted'
<1>7. ASSUME NEW s \in Serials, Start(s)
      PROVE  Goal
  <2>1. /\ Sound(queue') /\ queue'.held = queue.held /\ queue'.started
        /\ queue.started => queue' = queue
    BY <1>1, <1>7, StartSound DEF Start
  <2>2. UNCHANGED <<stats, flushed>>
    BY <1>7 DEF Start
  <2>3. Ticks' = Ticks /\ Balanced'
    BY <1>1, <2>1, <2>2 DEF Ticks, Balanced
  <2>4. queue'.cursor \in Serials
    BY <2>1, QueueFields DEF Sound
  <2>5. origin' \in Serials /\ TimelineAccounted'
    <3>1. CASE queue.started
      BY <1>1, <1>7, <2>1, <2>3, <3>1 DEF Start, TimelineAccounted
    <3>2. CASE ~queue.started
      BY <1>5, <1>7, <2>3, <2>4, <3>2 DEF Start
    <3> QED
      BY <3>1, <3>2
  <2> QED
    BY <1>1, <2>1, <2>2, <2>3, <2>5
<1>8. ASSUME NEW f \in Frames, NEW oversized \in BOOLEAN, NEW now \in Times,
             Insert(f, oversized, now)
      PROVE  Goal
  <2>1. /\ Sound(queue')
        /\ queue'.held = IF result' = "Accepted" THEN queue.held + 1
                         ELSE queue.held
        /\ queue.started => queue'.cursor = queue.cursor /\ queue'.started
    BY <1>1, <1>8, InsertSound DEF Insert
  <2>2. /\ stats' = IF result' = "Accepted" THEN Count("Accepted", 1) ELSE stats
        /\ flushed' = flushed
    BY <1>8 DEF Insert
  <2>3. /\ stats' \in [Counters -> Nat]
        /\ \A c \in Counters \ {"Accepted"} : stats'[c] = stats[c]
        /\ stats'["Accepted"] = IF result' = "Accepted"
                                THEN stats["Accepted"] + 1 ELSE stats["Accepted"]
    BY <1>1, <2>2 DEF Count
  <2>4. Ticks' = Ticks
    BY <2>3 DEF Ticks
  <2>5. Balanced'
    BY <1>1, <1>2, <2>1, <2>2, <2>3 DEF Balanced
  <2>6. queue'.cursor \in Serials
    BY <2>1, QueueFields DEF Sound
  <2>7. origin' \in Serials /\ TimelineAccounted'
    <3>1. CASE queue.started
      BY <1>1, <1>8, <2>1, <2>4, <3>1 DEF Insert, TimelineAccounted
    <3>2. CASE ~queue.started
      BY <1>5, <1>8, <2>4, <2>6, <3>2 DEF Insert
    <3> QED
      BY <3>1, <3>2
  <2> QED
    BY <1>1, <2>1, <2>2, <2>3, <2>5, <2>7
<1>9. ASSUME Advance
      PROVE  Goal
  <2>1. /\ Sound(queue')
        /\ queue'.held = IF result' = "Delivered" THEN queue.held - 1
                         ELSE queue.held
        /\ queue'.cursor = IF queue.started THEN Wrap(queue.cursor + 1)
                           ELSE queue.cursor
        /\ queue'.started = queue.started
    BY <1>1, <1>9, AdvanceSound DEF Advance
  <2>2. /\ stats' = Count(result', 1) /\ result' \in {"Delivered", "Gap"}
        /\ UNCHANGED <<flushed, origin>>
    BY <1>9 DEF Advance, AdvanceResult
  <2>3. /\ stats' \in [Counters -> Nat]
        /\ \A c \in Counters \ {result'} : stats'[c] = stats[c]
        /\ stats'[result'] = stats[result'] + 1
    BY <1>1, <2>2 DEF Count
  <2>4. Ticks' = Ticks + 1
    BY <1>1, <2>2, <2>3 DEF Ticks
  <2>5. Balanced'
    BY <1>1, <1>2, <2>1, <2>2, <2>3 DEF Balanced
  <2>6. TimelineAccounted'
    BY <1>6, <2>1, <2>2, <2>4
  <2> QED
    BY <1>1, <2>1, <2>2, <2>3, <2>5, <2>6
<1>10. ASSUME NEW s \in Serials, SkipTo(s)
       PROVE  Goal
  <2> DEFINE n == SkipFrames(queue, s)
             k == Cardinality(Skipped(queue, n))
  <2>1. /\ Sound(queue') /\ queue'.held = queue.held - k /\ k \in Nat
        /\ n \in 0 .. Half - 1
        /\ queue'.started = queue.started
        /\ queue.started => queue'.cursor = Wrap(queue.cursor + n)
    BY <1>1, <1>10, SkipToSound DEF SkipTo
  <2>2. n \in Nat
    BY <2>1, ModulusFacts
  <2>3. /\ stats' = [stats EXCEPT !["Gap"] = @ + n, !["Discarded"] = @ + k]
        /\ UNCHANGED <<flushed, origin>>
    BY <1>10 DEF SkipTo
  <2> HIDE DEF n, k
  <2>4. /\ stats' \in [Counters -> Nat]
        /\ \A c \in Counters \ {"Gap", "Discarded"} : stats'[c] = stats[c]
        /\ stats'["Gap"] = stats["Gap"] + n
        /\ stats'["Discarded"] = stats["Discarded"] + k
    BY <1>1, <2>1, <2>2, <2>3
  <2>5. Ticks' = Ticks + n
    BY <1>1, <2>2, <2>4 DEF Ticks
  <2>6. Balanced'
    BY <1>1, <1>2, <2>1, <2>3, <2>4 DEF Balanced
  <2>7. TimelineAccounted'
    BY <1>6, <2>1, <2>2, <2>3, <2>5
  <2> QED
    BY <1>1, <2>1, <2>3, <2>4, <2>6, <2>7
<1>11. ASSUME NEW now \in Times, DropExpired(now)
       PROVE  Goal
  <2> DEFINE k == Cardinality(Expired(queue, now))
  <2>1. /\ Sound(queue') /\ queue'.held = queue.held - k /\ k \in Nat
        /\ queue'.cursor = queue.cursor /\ queue'.started = queue.started
    BY <1>1, <1>11, DropExpiredSound DEF DropExpired
  <2>2. stats' = Count("Expired", k) /\ UNCHANGED <<flushed, origin>>
    BY <1>11 DEF DropExpired
  <2> HIDE DEF k
  <2>3. /\ stats' \in [Counters -> Nat]
        /\ \A c \in Counters \ {"Expired"} : stats'[c] = stats[c]
        /\ stats'["Expired"] = stats["Expired"] + k
    BY <1>1, <2>1, <2>2 DEF Count
  <2>4. Ticks' = Ticks
    BY <2>3 DEF Ticks
  <2>5. Balanced'
    BY <1>1, <1>2, <2>1, <2>2, <2>3 DEF Balanced
  <2>6. TimelineAccounted'
    BY <1>1, <2>1, <2>2, <2>4 DEF TimelineAccounted
  <2> QED
    BY <1>1, <2>1, <2>2, <2>3, <2>5, <2>6
<1>12. ASSUME NEW s \in Serials, Resync(s)
       PROVE  Goal
  <2>1. /\ Sound(queue') /\ queue'.held = 0 /\ queue'.cursor = s
    BY <1>12, ResyncSound DEF Resync, ResyncQ
  <2>2. /\ stats' = Count("Resyncs", 1) /\ flushed' = flushed + queue.held
        /\ Reorigin(queue')
    BY <1>12 DEF Resync
  <2>3. /\ stats' \in [Counters -> Nat]
        /\ \A c \in Counters \ {"Resyncs"} : stats'[c] = stats[c]
    BY <1>1, <2>2 DEF Count
  <2>4. Ticks' = Ticks
    BY <2>3 DEF Ticks
  <2>5. Balanced'
    BY <1>1, <1>2, <2>1, <2>2, <2>3 DEF Balanced
  <2>6. origin' \in Serials /\ TimelineAccounted'
    BY <1>5, <2>1, <2>2, <2>4
  <2>7. flushed' \in Nat
    BY <1>1, <1>2, <2>2
  <2> QED
    BY <2>1, <2>3, <2>5, <2>6, <2>7
<1>13. ASSUME Reset
       PROVE  Goal
  <2>1. Sound(queue')
    BY <1>13, ResyncSound DEF Reset
  <2>2. /\ stats' \in [Counters -> Nat] /\ flushed' \in Nat
        /\ origin' \in Serials
    BY <1>13, ModulusFacts DEF Reset, ZeroStats
  <2>3. Balanced' /\ TimelineAccounted'
    BY <1>13 DEF Reset, ZeroStats, EmptyQueue, Balanced,
                 TimelineAccounted
  <2> QED
    BY <2>1, <2>2, <2>3
<1>14. CASE UNCHANGED vars
  BY <1>1, <1>14 DEF vars, Balanced, TimelineAccounted, Ticks
<1> QED
  BY <1>7, <1>8, <1>9, <1>10, <1>11, <1>12, <1>13, <1>14 DEF Next

\* The type invariant of the queue, for every word size and capacity.
THEOREM TypeCorrect == Spec => []TypeOK
<1>1. Inv => TypeOK
  BY DEF Inv
<1> QED
  BY <1>1, InitInv, NextInv, PTL DEF Spec

\* Every frame sits in its own slot, inside the window: "occupancy implies the
\* same sequence" (insert(), reorder_queue.cpp:127-130).
THEOREM WindowCorrect == Spec => []SlotsInWindow
<1>1. Inv => SlotsInWindow
  BY DEF Inv
<1> QED
  BY <1>1, InitInv, NextInv, PTL DEF Spec

\* The highest mark is in the window and no held frame is beyond it.
THEOREM HighestCorrect == Spec => []HighestCoversHeld
<1>1. Inv => HighestCoversHeld
  BY DEF Inv
<1> QED
  BY <1>1, InitInv, NextInv, PTL DEF Spec

\* The count of held frames is the number of occupied slots, and every accepted
\* frame is held or was delivered, discarded, expired or flushed, once.
THEOREM BooksBalance == Spec => []FramesConserved
<1>1. Inv => FramesConserved
  BY DEF Inv, FramesConserved
<1> QED
  BY <1>1, InitInv, NextInv, PTL DEF Spec

\* Every position the cursor has passed since the start or the last resync was
\* delivered or counted missing (advance() and skip_to()).
THEOREM TimelineCorrect == Spec => []TimelineAccounted
<1>1. Inv => TimelineAccounted
  BY DEF Inv
<1> QED
  BY <1>1, InitInv, NextInv, PTL DEF Spec

\* depth() spans at least the frames held and at most one window: the held
\* frames lie at different distances between the cursor and the highest mark.
THEOREM DepthCorrect == Spec => []DepthIsSane
<1>1. ASSUME Inv
      PROVE  DepthIsSane
  <2> DEFINE D == DOMAIN queue.slots
             h == Distance(queue.cursor, queue.highest)
             g == [i \in D |-> Distance(queue.cursor, queue.slots[i].sequence)]
  <2>1. Sound(queue) /\ queue \in Queues /\ InWindow(queue) /\ Counted(queue)
        /\ Covered(queue)
    BY <1>1, InvIsSound DEF Inv, Sound
  <2>2. /\ queue.held \in Nat /\ queue.cursor \in Serials
        /\ queue.highest \in Serials
        /\ \A i \in D : queue.slots[i].sequence \in Serials
    BY <2>1, QueueFields
  <2>3. CASE queue.held = 0
    BY <2>3, CapacityFacts DEF DepthIsSane, Depth
  <2>4. CASE queue.held # 0
    <3>1. /\ h \in 0 .. Capacity - 1
          /\ \A i \in D : Distance(queue.slots[i].sequence, queue.highest) >= 0
      BY <2>1, <2>4 DEF Covered
    <3>2. ASSUME NEW i \in D
          PROVE  g[i] \in 0 .. h
      <4>1. g[i] \in 0 .. Capacity - 1
        BY <2>1 DEF InWindow
      <4>2. Distance(queue.slots[i].sequence, queue.highest) = h - g[i]
        BY <2>2, <3>1, <4>1, DistanceBetween
      <4>3. h - g[i] >= 0
        BY <3>1, <4>2
      <4> HIDE DEF g, h
      <4> QED
        BY <3>1, <4>1, <4>3, CapacityFacts
    <3>3. ASSUME NEW i \in D, NEW j \in D, g[i] = g[j]
          PROVE  i = j
      <4>1. queue.slots[i].sequence = queue.slots[j].sequence
        BY <2>1, <3>3, HeldAt
      <4> QED
        BY <2>1, <4>1, HeldAt
    <3>4. g \in Injection(D, 0 .. h)
      <4>1. g \in [D -> 0 .. h]
        BY <3>2
      <4> QED
        BY <3>3, <4>1 DEF Injection, IsInjective
    <3>5. IsFiniteSet(0 .. h) /\ Cardinality(0 .. h) = h + 1
      <4>1. h \in Int /\ ~ (0 > h)
        BY <3>1, CapacityFacts
      <4> HIDE DEF h
      <4> QED
        BY <4>1, FS_Interval
    <3>6. Cardinality(D) <= h + 1
      <4> HIDE DEF g, D, h
      <4> QED
        BY <3>4, <3>5, FS_Injection
    <3> QED
      BY <2>1, <2>4, <3>1, <3>6, CapacityFacts DEF DepthIsSane, Depth, Counted
  <2> QED
    BY <2>3, <2>4
<1> QED
  BY <1>1, InitInv, NextInv, PTL DEF Spec

\* The cursor "only moves forward" (reorder_queue.hpp:32): no call but resync()
\* and reset() takes it back.
THEOREM CursorForward == Spec => CursorNeverRewinds
<1> DEFINE Forward ==
      queue.started /\ queue'.started /\ stats'["Resyncs"] = stats["Resyncs"]
        => Distance(queue.cursor, queue'.cursor) >= 0
<1>1. ASSUME Inv, [Next]_vars
      PROVE  [Forward]_vars
  <2>1. Sound(queue) /\ stats \in [Counters -> Nat] /\ queue.cursor \in Serials
    BY <1>1, InvIsSound, QueueFields DEF Inv, Sound
  <2>2. ASSUME NEW n \in 0 .. Half - 1,
               queue'.cursor = Wrap(queue.cursor + n)
        PROVE  Forward
    <3>1. Distance(queue.cursor, queue'.cursor) = n
      BY <2>1, <2>2, DistanceForward
    <3>2. n >= 0
      BY ModulusFacts
    <3> QED
      BY <3>1, <3>2
  <2>3. ASSUME queue'.cursor = queue.cursor
        PROVE  Forward
    <3>1. queue'.cursor = Wrap(queue.cursor + 0) /\ 0 \in 0 .. Half - 1
      BY <2>1, <2>3, WrapNear, ModulusFacts
    <3> QED
      BY <2>2, <3>1
  <2>4. SUFFICES ASSUME queue.started, Next PROVE Forward
    BY <1>1
  <2>5. ASSUME NEW s \in Serials, Start(s) PROVE Forward
    BY <2>1, <2>3, <2>4, <2>5, StartSound DEF Start
  <2>6. ASSUME NEW f \in Frames, NEW oversized \in BOOLEAN, NEW now \in Times,
               Insert(f, oversized, now)
        PROVE  Forward
    BY <2>1, <2>3, <2>4, <2>6, InsertSound DEF Insert
  <2>7. ASSUME Advance PROVE Forward
    <3>1. queue'.cursor = Wrap(queue.cursor + 1) /\ 1 \in 0 .. Half - 1
      BY <2>1, <2>4, <2>7, AdvanceSound, ModulusFacts DEF Advance
    <3> QED
      BY <2>2, <3>1
  <2>8. ASSUME NEW s \in Serials, SkipTo(s) PROVE Forward
    BY <2>1, <2>2, <2>4, <2>8, SkipToSound DEF SkipTo
  <2>9. ASSUME NEW now \in Times, DropExpired(now) PROVE Forward
    BY <2>1, <2>3, <2>9, DropExpiredSound DEF DropExpired
  <2>10. ASSUME NEW s \in Serials, Resync(s) PROVE Forward
    BY <2>1, <2>10 DEF Resync, Count, Counters
  <2>11. ASSUME Reset PROVE Forward
    BY <2>11 DEF Reset, EmptyQueue
  <2> QED
    BY <2>4, <2>5, <2>6, <2>7, <2>8, <2>9, <2>10, <2>11 DEF Next
<1> QED
  BY <1>1, InitInv, NextInv, PTL DEF Spec, CursorNeverRewinds

-------------------------------------------------------------------------------
(***************************************************************************)
(* The reorder queue implements the frame timeline: every call, whatever   *)
(* the state of the circular store, is the abstract operation of the same  *)
(* result.                                                                 *)
(***************************************************************************)

\* The frames in the store.
Waiting(q) == {q.slots[i] : i \in DOMAIN q.slots}

\* The abstract specification computes with the same serial arithmetic.
LEMMA SameArithmetic ==
  /\ Timeline!Serials = Serials
  /\ Timeline!Frames = Frames
  /\ \A n : Timeline!Wrap(n) = Wrap(n)
  /\ \A a, b : Timeline!Distance(a, b) = Distance(a, b)
  /\ \A a, b : Timeline!Precedes(a, b) <=> Precedes(a, b)
<1>1. Timeline!Modulus = Modulus
  BY DEF Timeline!Modulus, Modulus
<1>2. \A n : Timeline!Wrap(n) = Wrap(n)
  BY <1>1 DEF Timeline!Wrap, Wrap
<1>3. \A a, b : Timeline!Distance(a, b) = Distance(a, b)
  BY <1>1, <1>2 DEF Timeline!Distance, Distance
<1>4. Timeline!Serials = Serials
  BY <1>1 DEF Timeline!Serials, Serials
<1> QED
  BY <1>2, <1>3, <1>4 DEF Timeline!Precedes, Precedes, Timeline!Frames, Frames

\* Two sequence numbers of one window that select the same slot are equal:
\* the argument of the comment at the occupancy test of insert().
LEMMA OneSequencePerSlot ==
  ASSUME NEW c \in Serials, NEW s \in Serials, NEW t \in Serials,
         Distance(c, s) \in 0 .. Capacity - 1,
         Distance(c, t) \in 0 .. Capacity - 1,
         Index(s) = Index(t)
  PROVE  s = t
BY CapacityFacts, SameRemainder DEF Index

\* A sequence number waits exactly when its slot holds it.
LEMMA HoldsIsWaiting ==
  ASSUME NEW q, Sound(q), NEW s
  PROVE  Holds(q, s) <=> \E f \in Waiting(q) : f.sequence = s
<1>1. ASSUME Holds(q, s)
      PROVE  \E f \in Waiting(q) : f.sequence = s
  BY <1>1 DEF Holds, Waiting
<1>2. ASSUME NEW f \in Waiting(q), f.sequence = s
      PROVE  Holds(q, s)
  <2>1. PICK i \in DOMAIN q.slots : f = q.slots[i]
    BY DEF Waiting
  <2> QED
    BY <1>2, <2>1, HeldAt
<1> QED
  BY <1>1, <1>2

\* Clearing slots takes exactly their frames out of the waiting set.
LEMMA WaitingAfterFree ==
  ASSUME NEW q \in Queues, Counted(q), NEW freed \in SUBSET DOMAIN q.slots
  PROVE  Waiting(Free(q, freed)) = {q.slots[i] : i \in DOMAIN q.slots \ freed}
<1>1. /\ DOMAIN Free(q, freed).slots = DOMAIN q.slots \ freed
      /\ \A i \in DOMAIN q.slots \ freed :
              Free(q, freed).slots[i] = q.slots[i]
  BY FreeSound
<1> QED
  BY <1>1 DEF Waiting

-------------------------------------------------------------------------------

\* The fields of the refinement mapping.
LEMMA MappedVars ==
  Timeline!vars = <<Waiting(queue), queue.cursor, queue.started, result>>
  BY DEF Timeline!vars, Waiting

\* start() fixes the timeline.
LEMMA StartRefines ==
  ASSUME Sound(queue), NEW s \in Serials, Start(s)
  PROVE  Timeline!Fix(s)
<1>1. /\ queue'.slots = queue.slots /\ queue'.started
      /\ queue.started => queue' = queue
      /\ ~queue.started => queue'.cursor = s
  BY StartSound DEF Start
<1>2. queue'.started = TRUE
  BY StartSound DEF Start, Sound, Queues
<1> QED
  BY <1>1, <1>2 DEF Start, Timeline!Fix, Timeline!Anchor, Timeline!From

\* advance() plays the frame at the cursor, or misses it.
LEMMA AdvanceRefines ==
  ASSUME Sound(queue), Advance
  PROVE  Timeline!Play \/ Timeline!Miss
<1>1. queue \in Queues /\ InWindow(queue) /\ Counted(queue)
  BY DEF Sound
<1>2. /\ queue' = AdvanceQ(queue) /\ result' = AdvanceResult(queue)
  BY DEF Advance
<1>3. /\ queue'.cursor = IF queue.started THEN Wrap(queue.cursor + 1)
                         ELSE queue.cursor
      /\ queue'.started = queue.started
  BY <1>2, AdvanceSound
<1>4. Timeline!Wrap(queue.cursor + 1) = Wrap(queue.cursor + 1)
  BY SameArithmetic
<1>5. CASE queue.started /\ Holds(queue, queue.cursor)
  <2> DEFINE n == Index(queue.cursor)
             p == Free(queue, {n})
  <2>1. n \in DOMAIN queue.slots /\ queue.slots[n].sequence = queue.cursor
    BY <1>5 DEF Holds
  <2>2. queue' = [p EXCEPT !.cursor = Wrap(queue.cursor + 1)]
    BY <1>2, <1>5 DEF AdvanceQ
  <2>3. p \in Queues /\ Waiting(p) = {queue.slots[i] : i \in DOMAIN queue.slots \ {n}}
    BY <1>1, <2>1, FreeSound, WaitingAfterFree
  <2>4. queue'.slots = p.slots
    BY <2>2, <2>3 DEF Queues
  <2>5. Waiting(queue') = Waiting(p)
    BY <2>4 DEF Waiting
  <2>6. \A i \in DOMAIN queue.slots :
          queue.slots[i].sequence # queue.cursor <=> i # n
    BY <1>1, <2>1 DEF InWindow
  <2>7. Waiting(queue') = {f \in Waiting(queue) : f.sequence # queue.cursor}
    BY <2>3, <2>5, <2>6 DEF Waiting
  <2>8. result' = "Delivered"
    BY <1>2, <1>5 DEF AdvanceResult
  <2>9. \E f \in Waiting(queue) : queue.started /\ f.sequence = queue.cursor
    BY <1>5, HoldsIsWaiting
  <2> QED
    BY <1>3, <1>4, <1>5, <2>7, <2>8, <2>9 DEF Timeline!Play, Waiting
<1>6. CASE ~ (queue.started /\ Holds(queue, queue.cursor))
  <2>1. ~ \E f \in Waiting(queue) : queue.started /\ f.sequence = queue.cursor
    BY <1>6, HoldsIsWaiting
  <2>2. result' = "Gap"
    BY <1>2, <1>6 DEF AdvanceResult
  <2>3. queue'.slots = queue.slots
    <3>1. CASE ~queue.started
      BY <1>2, <3>1 DEF AdvanceQ
    <3>2. CASE queue.started
      <4>1. queue' = [Free(queue, {}) EXCEPT !.cursor = Wrap(queue.cursor + 1)]
        BY <1>2, <1>6, <3>2 DEF AdvanceQ
      <4>2. /\ Free(queue, {}) \in Queues
            /\ DOMAIN Free(queue, {}).slots = DOMAIN queue.slots
            /\ \A i \in DOMAIN queue.slots :
                 Free(queue, {}).slots[i] = queue.slots[i]
        <5>1. {} \in SUBSET DOMAIN queue.slots
              /\ DOMAIN queue.slots \ {} = DOMAIN queue.slots
          OBVIOUS
        <5>2. /\ Free(queue, {}) \in Queues
              /\ DOMAIN Free(queue, {}).slots = DOMAIN queue.slots \ {}
              /\ \A i \in DOMAIN queue.slots \ {} :
                   Free(queue, {}).slots[i] = queue.slots[i]
          BY <1>1, <5>1, FreeSound
        <5> QED
          BY <5>1, <5>2
      <4>3. /\ Free(queue, {}).slots \in [DOMAIN queue.slots -> Frames]
            /\ queue.slots \in [DOMAIN queue.slots -> Frames]
        BY <1>1, <4>2, QueueFields
      <4>4. Free(queue, {}).slots = queue.slots
        BY <4>2, <4>3
      <4> QED
        BY <4>1, <4>2, <4>4 DEF Queues
    <3> QED
      BY <3>1, <3>2
  <2> QED
    BY <1>3, <1>4, <2>1, <2>2, <2>3 DEF Timeline!Miss, Waiting
<1> QED
  BY <1>5, <1>6

\* drop_expired() expires.
LEMMA DropExpiredRefines ==
  ASSUME Sound(queue), NEW now \in Times, DropExpired(now)
  PROVE  Timeline!Expire(now)
<1>1. queue \in Queues /\ Counted(queue)
  BY DEF Sound
<1>2. queue' = Free(queue, Expired(queue, now)) /\ result' = "Dropped"
  BY DEF DropExpired, DropExpiredQ
<1>3. queue'.cursor = queue.cursor /\ queue'.started = queue.started
  BY DropExpiredSound DEF DropExpired
<1>4. Waiting(queue')
        = {queue.slots[i] : i \in DOMAIN queue.slots \ Expired(queue, now)}
  <2>1. Expired(queue, now) \in SUBSET DOMAIN queue.slots
    BY DEF Expired
  <2> QED
    BY <1>1, <1>2, <2>1, WaitingAfterFree
<1>5. \A i \in DOMAIN queue.slots :
        i \notin Expired(queue, now) <=> now <= queue.slots[i].deadline
  <2>1. now \in Int
    BY TimesAssumption
  <2>2. \A i \in DOMAIN queue.slots : queue.slots[i].deadline \in Int
    BY <1>1, QueueFields
  <2> QED
    BY <2>1, <2>2 DEF Expired
<1>6. Waiting(queue') = {f \in Waiting(queue) : now <= f.deadline}
  BY <1>4, <1>5 DEF Waiting
<1> QED
  BY <1>2, <1>3, <1>6 DEF Timeline!Expire, Waiting

\* resync() and reset() begin afresh.
LEMMA RestartRefines ==
  /\ \A s \in Serials : Resync(s) => Timeline!Restart(s, TRUE)
  /\ Reset => Timeline!Restart(0, FALSE)
  BY DEF Resync, ResyncQ, Reset, EmptyQueue, NoSlots, Timeline!Restart

\* skip_to() jumps, abandoning exactly the frames it passes.
LEMMA SkipToRefines ==
  ASSUME Sound(queue), NEW s \in Serials, SkipTo(s)
  PROVE  Timeline!Jump(s)
<1> DEFINE n == SkipFrames(queue, s)
           freed == Skipped(queue, n)
           D == DOMAIN queue.slots
           Dist(t) == Distance(queue.cursor, t)
<1>1. /\ queue \in Queues /\ InWindow(queue) /\ Counted(queue)
      /\ queue.cursor \in Serials
  BY QueueFields DEF Sound
<1>2. queue' = SkipToQ(queue, s) /\ result' = "Skipped"
  BY DEF SkipTo
<1>3. n \in 0 .. Half - 1 /\ queue'.started = queue.started
  BY <1>2, SkipToSound
<1>4. CASE n = 0
  <2>1. queue' = queue
    BY <1>2, <1>4 DEF SkipToQ
  <2>2. ~ (queue.started /\ Precedes(queue.cursor, s))
    BY <1>4 DEF SkipFrames, Precedes
  <2> QED
    BY <1>2, <2>1, <2>2, SameArithmetic DEF Timeline!Jump
<1>5. CASE n # 0
  <2>1. n = Dist(s) /\ queue.started /\ Dist(s) > 0
    BY <1>5 DEF SkipFrames
  <2>2. queue' = [Free(queue, freed) EXCEPT !.cursor = s]
    BY <1>2, <1>5 DEF SkipToQ
  <2>3. freed \in SUBSET D
    BY DEF Skipped, Holds
  <2>4. /\ Free(queue, freed) \in Queues
        /\ Waiting(Free(queue, freed)) = {queue.slots[i] : i \in D \ freed}
    BY <1>1, <2>3, FreeSound, WaitingAfterFree
  <2>5. queue'.cursor = s /\ queue'.slots = Free(queue, freed).slots
    BY <2>2, <2>4 DEF Queues
  <2>6. Waiting(queue') = {queue.slots[i] : i \in D \ freed}
    BY <2>4, <2>5 DEF Waiting
  <2> DEFINE stepped == IF n < Capacity THEN n ELSE Capacity
  <2>7. stepped \in Nat /\ stepped <= n /\ stepped <= Capacity
        /\ (stepped = n \/ stepped = Capacity)
    BY <1>3, CapacityFacts, ModulusFacts
  <2>8. freed = {Index(t) : t \in {p \in {Wrap(queue.cursor + k) : k \in 0 .. stepped - 1}
                                     : Holds(queue, p)}}
    BY DEF Skipped
  <2>9. ASSUME NEW i \in D
        PROVE  i \in freed <=> Dist(queue.slots[i].sequence) < n
    <3> DEFINE t == queue.slots[i].sequence
    <3>1. /\ t = Wrap(queue.cursor + Dist(t)) /\ Holds(queue, t) /\ Index(t) = i
      BY HeldAt
    <3>2. Dist(t) \in 0 .. Capacity - 1
      BY <1>1 DEF InWindow
    <3>3. ASSUME Dist(t) < n
          PROVE  i \in freed
      <4>1. Dist(t) \in 0 .. stepped - 1
        <5> HIDE DEF t, Dist, stepped, n
        <5> QED
          BY <1>3, <2>7, <3>2, <3>3, CapacityFacts, ModulusFacts
      <4> HIDE DEF t, Dist, stepped, n, freed
      <4> QED
        BY <2>8, <3>1, <4>1
    <3>4. ASSUME i \in freed
          PROVE  Dist(t) < n
      <4>1. PICK k \in 0 .. stepped - 1 :
              Holds(queue, Wrap(queue.cursor + k)) /\ Index(Wrap(queue.cursor + k)) = i
        <5> HIDE DEF stepped, n, freed
        <5> QED
          BY <2>8, <3>4
      <4>2. t = Wrap(queue.cursor + k)
        BY <4>1 DEF Holds
      <4>3. k \in 0 .. Half - 1 /\ k < n
        <5> HIDE DEF stepped, n
        <5> QED
          BY <1>3, <2>7, CapacityFacts, ModulusFacts
      <4>4. Dist(t) = k
        BY <1>1, <4>2, <4>3, DistanceForward
      <4> QED
        BY <4>3, <4>4
    <3> QED
      BY <3>3, <3>4
  <2> HIDE DEF freed, n
  <2>10. Waiting(queue') = {f \in Waiting(queue) : ~ (Dist(f.sequence) < n)}
    BY <2>6, <2>9 DEF Waiting
  <2> QED
    BY <1>2, <1>3, <2>1, <2>5, <2>10, SameArithmetic
       DEF Timeline!Jump, Waiting, Precedes
<1> QED
  BY <1>4, <1>5

\* insert() accepts, refuses, or rejects for the reason it gives.
LEMMA InsertRefines ==
  ASSUME Sound(queue), NEW f \in Frames, NEW oversized \in BOOLEAN,
         NEW now \in Times, Insert(f, oversized, now)
  PROVE  Timeline!Refuse \/ Timeline!Accept(f, now) \/ Timeline!Reject(f, now)
<1> DEFINE p == StartQ(queue, f.sequence)
           offset == Distance(p.cursor, f.sequence)
<1>1. f.sequence \in Serials /\ f.deadline \in Int /\ now \in Int
  BY TimesAssumption DEF Frames
<1>2. /\ Sound(p) /\ p.slots = queue.slots /\ p.started
      /\ queue.started => p = queue
      /\ ~queue.started => p.cursor = f.sequence
  BY <1>1, StartSound
<1>3. p \in Queues /\ p.cursor \in Serials /\ p.started = TRUE
  BY <1>2, QueueFields DEF Sound
<1>4. Timeline!From(f.sequence) = p.cursor
  BY <1>2 DEF Timeline!From
<1>5. offset \in Int /\ Timeline!Distance(p.cursor, f.sequence) = offset
  <2>1. offset \in -Half .. Half - 1
    BY <1>1, <1>3, DistanceType
  <2> QED
    BY <2>1, SameArithmetic, ModulusFacts
<1>6. /\ result' = InsertVerdict(queue, f, oversized, now)
      /\ queue' = InsertQ(queue, f, result')
  BY DEF Insert
<1>7. Waiting(p) = Waiting(queue)
  BY <1>2 DEF Waiting
<1>8. CASE result' = "Oversized"
  <2>1. queue' = queue
    BY <1>6, <1>8 DEF InsertQ
  <2> QED
    BY <1>8, <2>1 DEF Timeline!Refuse
<1>9. CASE result' = "Accepted"
  <2>1. /\ ~ (offset < 0) /\ ~ (offset >= Capacity) /\ ~ (now > f.deadline)
        /\ Index(f.sequence) \notin DOMAIN queue.slots
    BY <1>6, <1>9 DEF InsertVerdict
  <2>2. queue' = Store(p, f)
    BY <1>6, <1>9 DEF InsertQ
  <2>3. /\ queue'.cursor = p.cursor /\ queue'.started
        /\ queue' \in Queues
    <3>1. offset \in 0 .. Capacity - 1
      <4> HIDE DEF offset
      <4> QED
        BY <1>5, <2>1, CapacityFacts
    <3> HIDE DEF p
    <3> QED
      BY <1>2, <2>1, <2>2, <3>1, StoreSound DEF Sound
  <2>4. queue'.started = TRUE
    BY <2>3 DEF Queues
  <2>5. queue'.slots = [i \in DOMAIN queue.slots \cup {Index(f.sequence)} |->
                          IF i = Index(f.sequence) THEN f ELSE queue.slots[i]]
    <3> HIDE DEF p
    <3> QED
      BY <1>2, <1>3, <2>2 DEF Store, Queues
  <2>6. Waiting(queue') = Waiting(queue) \cup {f}
    BY <2>1, <2>5 DEF Waiting
  <2>7. \A g \in Waiting(queue) : g.sequence # f.sequence
    BY <2>1, HoldsIsWaiting DEF Holds
  <2>8. offset \in 0 .. Capacity - 1 /\ now <= f.deadline
    <3> HIDE DEF offset
    <3> QED
      BY <1>1, <1>5, <2>1, CapacityFacts
  <2> HIDE DEF p
  <2>9. Timeline!Accept(f, now)
    BY <1>4, <1>5, <1>9, <2>3, <2>4, <2>6, <2>7, <2>8
       DEF Timeline!Accept, Timeline!Anchor, Waiting
  <2> QED
    BY <2>9
<1>10. CASE result' \notin {"Oversized", "Accepted"}
  <2>1. queue' = p
    BY <1>6, <1>10 DEF InsertQ
  <2>2. result' = IF offset < 0
                  THEN IF offset > -Capacity THEN "Late" ELSE "TooOld"
                  ELSE IF offset >= Capacity THEN "TooFarAhead"
                  ELSE IF now > f.deadline THEN "Late" ELSE "Duplicate"
    BY <1>6, <1>10 DEF InsertVerdict
  <2>3. result' = CASE offset >= Capacity -> "TooFarAhead"
                    [] offset <= -Capacity -> "TooOld"
                    [] offset \in 1 - Capacity .. -1 -> "Late"
                    [] offset \in 0 .. Capacity - 1 ->
                         IF now > f.deadline THEN "Late" ELSE "Duplicate"
    <3> HIDE DEF offset
    <3> QED
      BY <1>1, <1>5, <2>2, CapacityFacts
  <2>4. ASSUME result' = "Duplicate"
        PROVE  \E g \in Waiting(queue) : g.sequence = f.sequence
    <3>1. /\ ~ (offset < 0) /\ ~ (offset >= Capacity)
          /\ Index(f.sequence) \in DOMAIN queue.slots
      BY <1>6, <2>4 DEF InsertVerdict
    <3> DEFINE i == Index(f.sequence)
               t == p.slots[i].sequence
    <3>2. /\ i \in DOMAIN p.slots /\ t \in Serials
      BY <1>2, <1>3, <3>1, QueueFields
    <3>3. Distance(p.cursor, t) \in 0 .. Capacity - 1 /\ Index(t) = i
      BY <1>2, <3>2 DEF Sound, InWindow
    <3>4. offset \in 0 .. Capacity - 1
      <4> HIDE DEF offset
      <4> QED
        BY <1>5, <3>1, CapacityFacts
    <3>5. t = f.sequence
      BY <1>1, <1>3, <3>2, <3>3, <3>4, OneSequencePerSlot
    <3> QED
      BY <1>2, <3>1, <3>5 DEF Waiting
  <2> HIDE DEF p
  <2>5. Timeline!Reject(f, now)
    BY <1>2, <1>3, <1>4, <1>5, <2>1, <2>3, <2>4
       DEF Timeline!Reject, Timeline!Anchor, Waiting
  <2> QED
    BY <2>5
<1> QED
  BY <1>8, <1>9, <1>10

-------------------------------------------------------------------------------

\* An initial queue is an initial timeline.
LEMMA InitRefines == Init => Timeline!Init
  BY DEF Init, EmptyQueue, NoSlots, Timeline!Init

\* Every step of a sound queue is a step of the timeline, or none.
LEMMA NextRefines ==
  Inv /\ [Next]_vars => [Timeline!Next]_(Timeline!vars)
<1> SUFFICES ASSUME Inv, [Next]_vars
             PROVE  Timeline!Next \/ UNCHANGED Timeline!vars
  OBVIOUS
<1>1. Sound(queue)
  BY InvIsSound DEF Inv
<1>2. ASSUME NEW s \in Serials, Start(s) PROVE Timeline!Next
  BY <1>1, <1>2, StartRefines, SameArithmetic DEF Timeline!Next
<1>3. ASSUME NEW s \in Serials, SkipTo(s) PROVE Timeline!Next
  BY <1>1, <1>3, SkipToRefines, SameArithmetic DEF Timeline!Next
<1>4. ASSUME NEW s \in Serials, Resync(s) PROVE Timeline!Next
  BY <1>4, RestartRefines, SameArithmetic DEF Timeline!Next
<1>5. ASSUME NEW f \in Frames, NEW oversized \in BOOLEAN, NEW now \in Times,
             Insert(f, oversized, now)
      PROVE  Timeline!Next
  BY <1>1, <1>5, InsertRefines, SameArithmetic DEF Timeline!Next
<1>6. ASSUME Advance PROVE Timeline!Next
  BY <1>1, <1>6, AdvanceRefines DEF Timeline!Next
<1>7. ASSUME NEW now \in Times, DropExpired(now) PROVE Timeline!Next
  BY <1>1, <1>7, DropExpiredRefines DEF Timeline!Next
<1>8. ASSUME Reset PROVE Timeline!Next
  BY <1>8, RestartRefines DEF Timeline!Next
<1>9. CASE UNCHANGED vars
  BY <1>9 DEF vars, Timeline!vars
<1> QED
  BY <1>2, <1>3, <1>4, <1>5, <1>6, <1>7, <1>8, <1>9 DEF Next

\* The circular store, its index mask and its held count are invisible: the
\* reorder queue implements the frame timeline.
THEOREM QueueIsTimeline == Spec => ImplementsTimeline
<1>1. Spec => []Inv
  BY InitInv, NextInv, PTL DEF Spec
<1> QED
  BY <1>1, InitRefines, NextRefines, PTL DEF Spec, ImplementsTimeline, Timeline!Spec
===============================================================================
