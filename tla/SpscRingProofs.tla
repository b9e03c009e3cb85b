---------------------------- MODULE SpscRingProofs ----------------------------
(***************************************************************************)
(* Proofs about the ring, for every word size, every capacity that divides *)
(* it, every run of items and however late a store becomes visible.        *)
(***************************************************************************)
EXTENDS SpscRing, SerialProofs, SequenceTheorems

\* A call copies what it announced: never more than was offered, and all of it
\* before the index is stored.
CallsComplete ==
  /\ producer.pc = "idle" => producer.accepted = 0 /\ producer.copied = 0
  /\ producer.pc = "copy" => /\ producer.copied < producer.accepted
                             /\ producer.accepted <= Len(producer.items)
  /\ producer.pc = "store" => producer.copied = producer.accepted
  /\ consumer.pc \in {"idle", "drop"} => consumer.copied = <<>>
  /\ consumer.pc = "idle" => consumer.taken = 0
  /\ consumer.pc = "copy" => Len(consumer.copied) < consumer.taken
  /\ consumer.pc = "store" => Len(consumer.copied) = consumer.taken

\* The inductive invariant.
Inv == TypeOK /\ CallsComplete /\ IndicesOrdered

\* How far an index is ahead of what the producer last saw of the reader.
Ahead(i) == Wrap(i - producer.seen)

\* The assumptions, as the proofs use them.
LEMMA RingFacts ==
  /\ Capacity \in Nat \ {0}
  /\ Modulus % Capacity = 0
  /\ Capacity < Modulus
  /\ Modulus \in Nat \ {0}
  /\ Serials = 0 .. Modulus - 1
  /\ \A n \in Int : Slot(n) \in Slots
<1>1. \A n \in Int : n % Capacity \in 0 .. Capacity - 1
  BY RingAssumption, ModRange
<1> QED
  BY <1>1, RingAssumption, ModulusFacts DEF Slot, Slots

\* An index is seen no earlier than it was seen before and no later than it is.
LEMMA VisibleIs ==
  ASSUME NEW seen \in Serials, NEW index \in Serials,
         NEW v \in Visible(seen, index)
  PROVE  \E k \in Nat : k <= Wrap(index - seen) /\ v = Wrap(seen + k)
<1>1. PICK k \in 0 .. Wrap(index - seen) : v = Wrap(seen + k)
  BY DEF Visible
<1>2. Wrap(index - seen) \in Int
  <2>1. Wrap(index - seen) \in Serials
    BY AheadOf
  <2> QED
    BY <2>1, RingFacts
<1>3. k \in Nat /\ k <= Wrap(index - seen)
  BY <1>2
<1> QED
  BY <1>1, <1>3

\* The smaller of two numbers.
LEMMA LeastIs ==
  ASSUME NEW a \in Int, NEW b \in Int
  PROVE  Least(a, b) \in {a, b} /\ Least(a, b) <= a /\ Least(a, b) <= b
  BY DEF Least

\* The ring starts empty.
LEMMA InitInv == Init => Inv
<1> SUFFICES ASSUME Init PROVE Inv
  OBVIOUS
<1>1. 0 \in Serials /\ 0 \in 0 .. Capacity /\ <<>> \in Seq(Values)
  BY RingFacts
<1>2. TypeOK
  BY <1>1 DEF Init, TypeOK
<1>3. CallsComplete
  BY DEF Init, CallsComplete
<1>4. Wrap(0 - 0) = 0
  BY <1>1, AheadOf, AheadUnique, RingFacts
<1>5. IndicesOrdered
  BY <1>4, RingFacts DEF Init, IndicesOrdered
<1> QED
  BY <1>2, <1>3, <1>5 DEF Inv

\* The types of the fields.
LEMMA Fields ==
  ASSUME TypeOK
  PROVE  /\ producer.seen \in Serials /\ consumer.seen \in Serials
         /\ producer.accepted \in Nat /\ producer.copied \in Nat
         /\ consumer.taken \in Nat
         /\ consumer.copied \in Seq(Values) /\ Len(consumer.copied) \in Nat
         /\ Ahead(read) \in Serials /\ Ahead(write) \in Serials
         /\ Ahead(consumer.seen) \in Serials
<1>1. /\ producer.seen \in Serials /\ consumer.seen \in Serials
      /\ write \in Serials /\ read \in Serials
  BY DEF TypeOK
<1>2. /\ Ahead(read) \in Serials /\ Ahead(write) \in Serials
      /\ Ahead(consumer.seen) \in Serials
  BY <1>1, AheadOf DEF Ahead
<1> QED
  BY <1>1, <1>2, RingFacts DEF TypeOK

\* The order of the indices, as numbers.
LEMMA Order ==
  ASSUME TypeOK, IndicesOrdered
  PROVE  /\ Ahead(read) \in Nat /\ Ahead(write) \in Nat
         /\ Ahead(consumer.seen) \in Nat
         /\ Ahead(read) + consumer.taken <= Ahead(consumer.seen)
         /\ Ahead(read) <= Ahead(consumer.seen)
         /\ Ahead(consumer.seen) <= Ahead(write)
         /\ Ahead(read) <= Ahead(write)
         /\ Ahead(write) + producer.accepted <= Capacity
         /\ Ahead(write) <= Capacity
         /\ write \in Serials /\ read \in Serials
<1>1. /\ Ahead(read) \in Nat /\ Ahead(write) \in Nat
      /\ Ahead(consumer.seen) \in Nat
  BY Fields, RingFacts
<1>2. /\ Ahead(read) + consumer.taken <= Ahead(consumer.seen)
      /\ Ahead(consumer.seen) <= Ahead(write)
      /\ Ahead(write) + producer.accepted <= Capacity
  BY DEF IndicesOrdered, Ahead
<1>3. write \in Serials /\ read \in Serials
  BY DEF TypeOK
<1>4. consumer.taken \in Nat /\ producer.accepted \in Nat /\ Capacity \in Nat
  BY Fields, RingAssumption
<1>5. Ahead(read) <= Ahead(consumer.seen)
  BY <1>1, <1>2, <1>4
<1>6. Ahead(read) <= Ahead(write)
  BY <1>1, <1>2, <1>5
<1>7. Ahead(write) <= Capacity
  BY <1>1, <1>2, <1>4
<1> QED
  BY <1>1, <1>2, <1>3, <1>5, <1>6, <1>7

\* push_bulk() sees the reader where it is or was, and announces no more than
\* it has room for from there.
LEMMA PushInv ==
  ASSUME Inv, NEW items \in Runs, Push(items)
  PROVE  Inv'
<1>1. TypeOK /\ CallsComplete /\ IndicesOrdered /\ producer.pc = "idle"
  BY DEF Inv, Push
<1>2. PICK seen \in Visible(producer.seen, read) :
        producer' = IF Accepts(Len(items), seen) = 0
                    THEN [producer EXCEPT !.seen = seen]
                    ELSE [pc |-> "copy", seen |-> seen, items |-> items,
                          accepted |-> Accepts(Len(items), seen), copied |-> 0]
  BY DEF Push
<1>3. UNCHANGED <<write, read, slots, consumer, observer>>
  BY DEF Push
<1>4. read \in Serials /\ write \in Serials
  BY <1>1 DEF TypeOK
<1>5. PICK k \in Nat : k <= Wrap(read - producer.seen)
                       /\ seen = Wrap(producer.seen + k)
  BY <1>1, <1>4, Fields, VisibleIs
<1> DEFINE accepted == Accepts(Len(items), seen)
<1>6. /\ seen \in Serials
      /\ Wrap(read - seen) = Ahead(read) - k
      /\ Wrap(write - seen) = Ahead(write) - k
      /\ Wrap(consumer.seen - seen) = Ahead(consumer.seen) - k
  <2>1. k <= Ahead(read) /\ k <= Ahead(consumer.seen) /\ k <= Ahead(write)
    BY <1>1, <1>5, Fields, RingFacts DEF IndicesOrdered, Ahead
  <2> QED
    BY <1>1, <1>4, <1>5, <2>1, Fields, AheadShift DEF Ahead
<1>7. items \in Seq(Values) /\ Len(items) \in Nat
  <2>1. PICK n \in 1 .. MaxCount : items \in [1 .. n -> Values]
    BY DEF Runs
  <2>2. n \in Nat
    BY RingAssumption
  <2> QED
    BY <2>1, <2>2
<1>8. /\ accepted \in 0 .. Capacity /\ accepted <= Len(items)
      /\ Wrap(write - seen) + accepted <= Capacity
  <2> DEFINE room == Capacity - Wrap(write - seen)
  <2>1. room \in 0 .. Capacity
    <3>1. k <= Ahead(read)
      BY <1>5 DEF Ahead
    <3>2. Ahead(write) - k \in 0 .. Capacity
      BY <1>1, <3>1, Order, RingFacts
    <3> QED
      BY <1>6, <3>2, RingFacts
  <2>2. accepted \in {Len(items), room} /\ accepted <= Len(items)
        /\ accepted <= room
    BY <1>7, <2>1, LeastIs, RingFacts DEF Accepts
  <2>3. Wrap(write - seen) \in Int
    BY <1>6, Fields, <1>1, RingFacts
  <2> HIDE DEF accepted
  <2> QED
    BY <1>7, <2>1, <2>2, <2>3, RingFacts
<1> HIDE DEF accepted
<1>9. producer'.seen = seen /\ producer'.accepted = accepted
  BY <1>1, <1>2 DEF TypeOK, CallsComplete, accepted
<1>10. TypeOK'
  <2>1. producer' \in [pc : {"idle", "copy", "store"}, seen : Serials,
                       items : Seq(Values), accepted : 0 .. Capacity,
                       copied : 0 .. Capacity]
    <3>1. producer \in [pc : {"idle", "copy", "store"}, seen : Serials,
                        items : Seq(Values), accepted : 0 .. Capacity,
                        copied : 0 .. Capacity]
      BY <1>1 DEF TypeOK
    <3>2. 0 \in 0 .. Capacity
      BY RingFacts
    <3>3. CASE accepted = 0
      BY <1>2, <1>6, <3>1, <3>3 DEF accepted
    <3>4. CASE accepted # 0
      BY <1>2, <1>6, <1>7, <1>8, <3>2, <3>4 DEF accepted
    <3> QED
      BY <3>3, <3>4
  <2> QED
    BY <1>1, <1>3, <2>1 DEF TypeOK
<1>11. CallsComplete'
  BY <1>1, <1>2, <1>3, <1>7, <1>8, RingFacts DEF TypeOK, CallsComplete, accepted
<1>12. IndicesOrdered'
  <2>1. /\ Ahead(read) + consumer.taken <= Ahead(consumer.seen)
        /\ Ahead(consumer.seen) <= Ahead(write)
    BY <1>1 DEF IndicesOrdered, Ahead
  <2>2. /\ (Ahead(read) - k) + consumer.taken <= Ahead(consumer.seen) - k
        /\ Ahead(consumer.seen) - k <= Ahead(write) - k
    BY <1>1, <2>1, Fields, RingFacts
  <2> QED
    BY <1>3, <1>6, <1>8, <1>9, <2>2 DEF IndicesOrdered
<1> QED
  BY <1>10, <1>11, <1>12 DEF Inv

\* Copying an item into a slot touches no index.
LEMMA PushCopyInv ==
  ASSUME Inv, PushCopy
  PROVE  Inv'
<1>1. /\ TypeOK /\ CallsComplete /\ IndicesOrdered /\ producer.pc = "copy"
      /\ UNCHANGED <<write, read, consumer, observer>>
  BY DEF Inv, PushCopy
<1>2. /\ producer.copied < producer.accepted
      /\ producer.accepted <= Len(producer.items)
      /\ producer.copied \in 0 .. Capacity /\ producer.accepted \in 0 .. Capacity
      /\ producer.items \in Seq(Values)
  BY <1>1 DEF CallsComplete, TypeOK
<1>3. producer.copied + 1 \in 0 .. Capacity
      /\ producer.copied + 1 \in 1 .. Len(producer.items)
  BY <1>2, RingFacts
<1>4. producer' = [producer EXCEPT
        !.copied = producer.copied + 1,
        !.pc = IF producer.copied + 1 = producer.accepted
               THEN "store" ELSE "copy"]
  BY DEF PushCopy
<1>5. slots' \in [Slots -> Values]
  <2>1. producer.items[producer.copied + 1] \in Values
    BY <1>2, <1>3
  <2> QED
    BY <1>1, <2>1 DEF PushCopy, TypeOK
<1>6. TypeOK'
  BY <1>1, <1>3, <1>4, <1>5 DEF TypeOK
<1>7. CallsComplete'
  <2>1. /\ producer'.copied = producer.copied + 1
        /\ producer'.accepted = producer.accepted
        /\ producer'.items = producer.items
        /\ producer'.pc = IF producer.copied + 1 = producer.accepted
                          THEN "store" ELSE "copy"
    BY <1>1, <1>4 DEF TypeOK
  <2> QED
    BY <1>1, <1>2, <2>1 DEF CallsComplete
<1>8. IndicesOrdered'
  BY <1>1, <1>4 DEF IndicesOrdered, TypeOK
<1> QED
  BY <1>6, <1>7, <1>8 DEF Inv

\* Storing the write index hands over what was announced, and no more.
LEMMA PushStoreInv ==
  ASSUME Inv, PushStore
  PROVE  Inv'
<1>1. /\ TypeOK /\ CallsComplete /\ IndicesOrdered /\ producer.pc = "store"
      /\ UNCHANGED <<read, slots, consumer, observer>>
      /\ write' = Wrap(write + producer.accepted)
      /\ producer' = [producer EXCEPT !.pc = "idle", !.items = <<>>,
                                      !.accepted = 0, !.copied = 0]
  BY DEF Inv, PushStore
<1>2. /\ producer'.seen = producer.seen /\ producer'.accepted = 0
      /\ producer'.copied = 0 /\ producer'.pc = "idle"
  BY <1>1 DEF TypeOK
<1>3. Ahead(write) + producer.accepted <= Capacity
  BY <1>1 DEF IndicesOrdered, Ahead
<1>4. /\ Wrap(write + producer.accepted) \in Serials
      /\ Wrap(Wrap(write + producer.accepted) - producer.seen)
           = Ahead(write) + producer.accepted
  <2>1. Wrap(write - producer.seen) + producer.accepted < Modulus
    BY <1>1, <1>3, Fields, RingFacts DEF Ahead
  <2>2. write \in Serials
    BY <1>1 DEF TypeOK
  <2> QED
    BY <1>1, <2>1, <2>2, Fields, AheadStep DEF Ahead
<1>5. TypeOK'
  <2>1. 0 \in 0 .. Capacity /\ <<>> \in Seq(Values)
    BY RingFacts
  <2> QED
    BY <1>1, <1>4, <2>1 DEF TypeOK
<1>6. CallsComplete'
  BY <1>1, <1>2 DEF CallsComplete
<1>7. IndicesOrdered'
  <2>1. /\ Ahead(read) + consumer.taken <= Ahead(consumer.seen)
        /\ Ahead(consumer.seen) <= Ahead(write) + producer.accepted
        /\ Ahead(write) + producer.accepted + 0 <= Capacity
    BY <1>1, <1>3, Fields, RingFacts DEF IndicesOrdered, Ahead
  <2> QED
    BY <1>1, <1>2, <1>4, <2>1 DEF IndicesOrdered, Ahead
<1> QED
  BY <1>5, <1>6, <1>7 DEF Inv

\* What a consumer sees lies between what it saw before and the writer, and it
\* takes no more than lies between it and that.
LEMMA TakesIs ==
  ASSUME Inv, NEW seen \in Visible(consumer.seen, write), NEW count \in Nat
  PROVE  /\ seen \in Serials
         /\ Takes(count, seen) \in 0 .. Capacity
         /\ Ahead(read) + Takes(count, seen) <= Ahead(seen)
         /\ Ahead(seen) <= Ahead(write)
<1>1. TypeOK /\ IndicesOrdered /\ write \in Serials /\ read \in Serials
      /\ producer.seen \in Serials /\ consumer.seen \in Serials
  BY Fields, Order DEF Inv
<1>2. PICK k \in Nat : k <= Wrap(write - consumer.seen)
                       /\ seen = Wrap(consumer.seen + k)
  BY <1>1, VisibleIs
<1>3. Wrap(write - consumer.seen) = Ahead(write) - Ahead(consumer.seen)
  BY <1>1, Order, AheadBetween DEF Ahead
<1>4. Ahead(consumer.seen) + k <= Ahead(write) /\ Ahead(write) < Modulus
  BY <1>1, <1>2, <1>3, Order, RingFacts
<1>5. seen \in Serials /\ Ahead(seen) = Ahead(consumer.seen) + k
  <2>1. Ahead(consumer.seen) + k < Modulus
    BY <1>1, <1>4, Order, RingFacts
  <2> QED
    BY <1>1, <1>2, <2>1, AheadStep DEF Ahead
<1>6. Ahead(seen) \in Nat /\ Ahead(read) <= Ahead(seen)
      /\ Ahead(seen) <= Ahead(write)
  BY <1>1, <1>4, <1>5, Order
<1>7. Wrap(seen - read) = Ahead(seen) - Ahead(read)
  BY <1>1, <1>5, <1>6, AheadBetween DEF Ahead
<1>8. Ahead(seen) - Ahead(read) \in 0 .. Capacity
  BY <1>1, <1>6, Order, RingFacts
<1> DEFINE taken == Takes(count, seen)
<1>9. /\ taken \in {count, Ahead(seen) - Ahead(read)}
      /\ taken <= count /\ taken <= Ahead(seen) - Ahead(read)
  BY <1>7, <1>8, LeastIs DEF Takes
<1> HIDE DEF taken
<1>10. taken \in 0 .. Capacity /\ Ahead(read) + taken <= Ahead(seen)
  BY <1>1, <1>6, <1>8, <1>9, Order, RingFacts
<1> QED
  BY <1>5, <1>6, <1>10 DEF taken

\* pop_bulk() sees the writer where it is or was, and announces no more than
\* it will find.
LEMMA PopInv ==
  ASSUME Inv, NEW count \in 1 .. MaxCount, Pop(count)
  PROVE  Inv'
<1>1. /\ TypeOK /\ CallsComplete /\ IndicesOrdered /\ consumer.pc = "idle"
      /\ UNCHANGED <<write, read, slots, producer, observer>>
  BY DEF Inv, Pop
<1>2. PICK seen \in Visible(consumer.seen, write) :
        consumer' = IF Takes(count, seen) = 0
                    THEN [consumer EXCEPT !.seen = seen]
                    ELSE [consumer EXCEPT !.pc = "copy", !.seen = seen,
                                          !.taken = Takes(count, seen)]
  BY DEF Pop
<1> DEFINE taken == Takes(count, seen)
<1>3. count \in Nat
  BY RingAssumption
<1>4. /\ seen \in Serials /\ taken \in 0 .. Capacity
      /\ Ahead(read) + taken <= Ahead(seen) /\ Ahead(seen) <= Ahead(write)
  BY <1>2, <1>3, TakesIs
<1> HIDE DEF taken
<1>5. consumer.taken = 0 /\ consumer.copied = <<>>
  BY <1>1 DEF CallsComplete
<1>6. /\ consumer'.seen = seen /\ consumer'.taken = taken
      /\ consumer'.copied = <<>>
      /\ consumer'.pc = IF taken = 0 THEN "idle" ELSE "copy"
  BY <1>1, <1>2, <1>5 DEF TypeOK, taken
<1>7. TypeOK'
  BY <1>1, <1>2, <1>4 DEF TypeOK, taken
<1>8. CallsComplete'
  BY <1>1, <1>4, <1>6, RingFacts DEF CallsComplete
<1>9. IndicesOrdered'
  BY <1>1, <1>4, <1>6 DEF IndicesOrdered, Ahead
<1> QED
  BY <1>7, <1>8, <1>9 DEF Inv

\* discard() announces like pop_bulk().
LEMMA DiscardInv ==
  ASSUME Inv, NEW count \in 1 .. MaxCount, Discard(count)
  PROVE  Inv'
<1>1. /\ TypeOK /\ CallsComplete /\ IndicesOrdered /\ consumer.pc = "idle"
      /\ UNCHANGED <<write, read, slots, producer, observer>>
  BY DEF Inv, Discard
<1>2. PICK seen \in Visible(consumer.seen, write) :
        consumer' = IF Takes(count, seen) = 0
                    THEN [consumer EXCEPT !.seen = seen]
                    ELSE [consumer EXCEPT !.pc = "drop", !.seen = seen,
                                          !.taken = Takes(count, seen)]
  BY DEF Discard
<1> DEFINE taken == Takes(count, seen)
<1>3. count \in Nat
  BY RingAssumption
<1>4. /\ seen \in Serials /\ taken \in 0 .. Capacity
      /\ Ahead(read) + taken <= Ahead(seen) /\ Ahead(seen) <= Ahead(write)
  BY <1>2, <1>3, TakesIs
<1> HIDE DEF taken
<1>5. consumer.taken = 0 /\ consumer.copied = <<>>
  BY <1>1 DEF CallsComplete
<1>6. /\ consumer'.seen = seen /\ consumer'.taken = taken
      /\ consumer'.copied = <<>>
      /\ consumer'.pc = IF taken = 0 THEN "idle" ELSE "drop"
  BY <1>1, <1>2, <1>5 DEF TypeOK, taken
<1>7. TypeOK'
  BY <1>1, <1>2, <1>4 DEF TypeOK, taken
<1>8. CallsComplete'
  BY <1>1, <1>4, <1>6, RingFacts DEF CallsComplete
<1>9. IndicesOrdered'
  BY <1>1, <1>4, <1>6 DEF IndicesOrdered, Ahead
<1> QED
  BY <1>7, <1>8, <1>9 DEF Inv

\* Copying an item out of a slot touches no index.
LEMMA PopCopyInv ==
  ASSUME Inv, PopCopy
  PROVE  Inv'
<1>1. /\ TypeOK /\ CallsComplete /\ IndicesOrdered /\ consumer.pc = "copy"
      /\ UNCHANGED <<write, read, slots, producer, observer>>
  BY DEF Inv, PopCopy
<1> DEFINE item == slots[Slot(Wrap(read + Len(consumer.copied)))]
<1>2. consumer' = [consumer EXCEPT
        !.copied = Append(consumer.copied, item),
        !.pc = IF Len(consumer.copied) + 1 = consumer.taken
               THEN "store" ELSE "copy"]
  BY DEF PopCopy
<1>3. item \in Values
  <2>1. read + Len(consumer.copied) \in Int
    BY <1>1, Fields, Order, RingFacts
  <2>2. Wrap(read + Len(consumer.copied)) \in Int
    BY <2>1, WrapType, RingFacts
  <2> QED
    BY <1>1, <2>2, RingFacts DEF TypeOK
<1> HIDE DEF item
<1>4. /\ consumer.copied \in Seq(Values) /\ consumer.taken \in Nat
      /\ Append(consumer.copied, item) \in Seq(Values)
      /\ Len(Append(consumer.copied, item)) = Len(consumer.copied) + 1
      /\ Len(consumer.copied) \in Nat
  BY <1>1, <1>3, Fields
<1>5. /\ consumer'.seen = consumer.seen /\ consumer'.taken = consumer.taken
      /\ consumer'.copied = Append(consumer.copied, item)
      /\ consumer'.pc = IF Len(consumer.copied) + 1 = consumer.taken
                        THEN "store" ELSE "copy"
  BY <1>1, <1>2 DEF TypeOK
<1>6. TypeOK'
  BY <1>1, <1>2, <1>4 DEF TypeOK
<1>7. CallsComplete'
  <2>1. Len(consumer.copied) < consumer.taken
    BY <1>1 DEF CallsComplete
  <2>2. CASE Len(consumer.copied) + 1 = consumer.taken
    BY <1>1, <1>4, <1>5, <2>2 DEF CallsComplete
  <2>3. CASE Len(consumer.copied) + 1 # consumer.taken
    BY <1>1, <1>4, <1>5, <2>1, <2>3 DEF CallsComplete
  <2> QED
    BY <2>2, <2>3
<1>8. IndicesOrdered'
  BY <1>1, <1>5 DEF IndicesOrdered
<1> QED
  BY <1>6, <1>7, <1>8 DEF Inv

\* Storing the read index gives back what was announced, and no more.
LEMMA ReadStored ==
  ASSUME Inv, read' = Wrap(read + consumer.taken),
         UNCHANGED <<write, producer>>,
         consumer'.seen = consumer.seen, consumer'.taken = 0
  PROVE  read' \in Serials /\ IndicesOrdered'
<1>1. TypeOK /\ IndicesOrdered
  BY DEF Inv
<1>2. Ahead(read) + consumer.taken < Modulus
  <2>1. /\ Ahead(read) \in Nat /\ consumer.taken \in Nat
        /\ Ahead(consumer.seen) \in Nat /\ Ahead(write) \in Nat
        /\ Ahead(read) + consumer.taken <= Ahead(consumer.seen)
        /\ Ahead(consumer.seen) <= Ahead(write) /\ Ahead(write) <= Capacity
    BY <1>1, Fields, Order
  <2> QED
    BY <2>1, RingFacts
<1>3. /\ read' \in Serials
      /\ Wrap(read' - producer.seen) = Ahead(read) + consumer.taken
  BY <1>1, <1>2, Fields, Order, AheadStep DEF Ahead
<1>4. (Ahead(read) + consumer.taken) + 0 <= Ahead(consumer.seen)
  BY <1>1, Fields, Order
<1>5. Ahead(consumer.seen) <= Ahead(write)
      /\ Ahead(write) + producer.accepted <= Capacity
  BY <1>1, Order
<1> QED
  BY <1>3, <1>4, <1>5 DEF IndicesOrdered, Ahead

\* The end of pop_bulk().
LEMMA PopStoreInv ==
  ASSUME Inv, PopStore
  PROVE  Inv'
<1>1. /\ TypeOK /\ CallsComplete /\ IndicesOrdered
      /\ UNCHANGED <<write, slots, producer, observer>>
      /\ read' = Wrap(read + consumer.taken)
      /\ consumer' = [consumer EXCEPT !.pc = "idle",
                        !.delivered = consumer.copied,
                        !.taken = 0, !.copied = <<>>]
  BY DEF Inv, PopStore
<1>2. /\ consumer'.seen = consumer.seen /\ consumer'.taken = 0
      /\ consumer'.copied = <<>> /\ consumer'.pc = "idle"
  BY <1>1 DEF TypeOK
<1>3. read' \in Serials /\ IndicesOrdered'
  BY <1>1, <1>2, ReadStored
<1>4. TypeOK'
  <2>1. 0 \in 0 .. Capacity /\ <<>> \in Seq(Values)
    BY RingFacts
  <2> QED
    BY <1>1, <1>3, <2>1 DEF TypeOK
<1>5. CallsComplete'
  BY <1>1, <1>2 DEF CallsComplete
<1> QED
  BY <1>3, <1>4, <1>5 DEF Inv

\* The end of discard().
LEMMA DiscardStoreInv ==
  ASSUME Inv, DiscardStore
  PROVE  Inv'
<1>1. /\ TypeOK /\ CallsComplete /\ IndicesOrdered /\ consumer.pc = "drop"
      /\ UNCHANGED <<write, slots, producer, observer>>
      /\ read' = Wrap(read + consumer.taken)
      /\ consumer' = [consumer EXCEPT !.pc = "idle", !.taken = 0]
  BY DEF Inv, DiscardStore
<1>2. /\ consumer'.seen = consumer.seen /\ consumer'.taken = 0
      /\ consumer'.copied = consumer.copied /\ consumer'.pc = "idle"
  BY <1>1 DEF TypeOK
<1>3. read' \in Serials /\ IndicesOrdered'
  BY <1>1, <1>2, ReadStored
<1>4. TypeOK'
  <2>1. 0 \in 0 .. Capacity
    BY RingFacts
  <2> QED
    BY <1>1, <1>3, <2>1 DEF TypeOK
<1>5. CallsComplete'
  BY <1>1, <1>2 DEF CallsComplete
<1> QED
  BY <1>3, <1>4, <1>5 DEF Inv

\* size() changes nothing but what its caller holds.
LEMMA SizeInv ==
  ASSUME Inv, SizeLoadWrite \/ SizeLoadRead
  PROVE  Inv'
<1>1. /\ TypeOK /\ CallsComplete /\ IndicesOrdered
      /\ UNCHANGED <<write, read, slots, producer, consumer>>
  BY DEF Inv, SizeLoadWrite, SizeLoadRead
<1>2. CallsComplete' /\ IndicesOrdered'
  BY <1>1 DEF CallsComplete, IndicesOrdered
<1>3. observer' \in [pc : {"idle", "loaded"}, write : Serials, size : Serials]
  <2>1. CASE SizeLoadWrite
    BY <1>1, <2>1 DEF SizeLoadWrite, TypeOK
  <2>2. CASE SizeLoadRead
    <3>1. observer.write - read \in Int
      BY <1>1, RingFacts DEF TypeOK
    <3>2. Wrap(observer.write - read) \in Serials /\ 0 \in Serials
      BY <3>1, WrapType, RingFacts
    <3> QED
      BY <2>2, <3>2 DEF SizeLoadRead
  <2> QED
    BY <2>1, <2>2
<1>4. TypeOK'
  BY <1>1, <1>3 DEF TypeOK
<1> QED
  BY <1>2, <1>4 DEF Inv

\* reset() empties the ring, whatever the indices were.
LEMMA ResetInv ==
  ASSUME Inv, Reset
  PROVE  Inv'
<1>1. /\ TypeOK /\ CallsComplete /\ IndicesOrdered
      /\ producer.pc = "idle" /\ consumer.pc = "idle"
      /\ UNCHANGED <<slots, observer>>
      /\ write' = 0 /\ read' = 0
      /\ producer' = [producer EXCEPT !.seen = 0]
      /\ consumer' = [consumer EXCEPT !.seen = 0]
  BY DEF Inv, Reset
<1>2. 0 \in Serials
  BY RingFacts
<1>3. /\ producer'.seen = 0 /\ producer'.accepted = producer.accepted
      /\ producer'.copied = producer.copied /\ producer'.pc = "idle"
      /\ consumer'.seen = 0 /\ consumer'.taken = consumer.taken
      /\ consumer'.copied = consumer.copied /\ consumer'.pc = "idle"
  BY <1>1 DEF TypeOK
<1>4. TypeOK'
  BY <1>1, <1>2 DEF TypeOK
<1>5. CallsComplete'
  BY <1>1, <1>3 DEF CallsComplete
<1>6. Wrap(0 - 0) = 0
  BY <1>2, AheadOf, AheadUnique, RingFacts
<1>7. producer.accepted = 0 /\ consumer.taken = 0
  BY <1>1 DEF CallsComplete
<1>8. IndicesOrdered'
  BY <1>1, <1>3, <1>6, <1>7, RingFacts DEF IndicesOrdered
<1> QED
  BY <1>4, <1>5, <1>8 DEF Inv

\* Every step of either thread keeps the invariant.
LEMMA NextInv == Inv /\ [Next]_vars => Inv'
<1> SUFFICES ASSUME Inv, [Next]_vars PROVE Inv'
  OBVIOUS
<1>1. CASE \E items \in Runs : Push(items)
  BY <1>1, PushInv
<1>2. CASE PushCopy
  BY <1>2, PushCopyInv
<1>3. CASE PushStore
  BY <1>3, PushStoreInv
<1>4. CASE \E count \in 1 .. MaxCount : Pop(count) \/ Discard(count)
  BY <1>4, PopInv, DiscardInv
<1>5. CASE PopCopy
  BY <1>5, PopCopyInv
<1>6. CASE PopStore
  BY <1>6, PopStoreInv
<1>7. CASE DiscardStore
  BY <1>7, DiscardStoreInv
<1>8. CASE SizeLoadWrite \/ SizeLoadRead
  BY <1>8, SizeInv
<1>9. CASE Reset
  BY <1>9, ResetInv
<1>10. CASE UNCHANGED vars
  BY <1>10 DEF vars, Inv, TypeOK, CallsComplete, IndicesOrdered
<1> QED
  BY <1>1, <1>2, <1>3, <1>4, <1>5, <1>6, <1>7, <1>8, <1>9, <1>10 DEF Next

\* Where a slot lies, counted from what the producer last saw of the reader.
LEMMA SlotAhead ==
  ASSUME NEW index \in Serials, NEW i \in Nat, producer.seen \in Serials
  PROVE  Slot(Wrap(index + i)) = (producer.seen + Ahead(index) + i) % Capacity
<1>1. /\ index \in Int /\ producer.seen \in Int /\ Modulus \in Int
      /\ index + i \in Int
  BY RingFacts
<1>2. Slot(Wrap(index + i)) = (index + i) % Capacity
  BY <1>1, RingFacts, WrapMod DEF Slot
<1>3. Ahead(index) \in {index - producer.seen, index - producer.seen + Modulus}
  BY AheadOf DEF Ahead
<1>4. (index + i + Modulus) % Capacity = (index + i) % Capacity
  BY <1>1, RingFacts, ModShift
<1>5. producer.seen + Ahead(index) + i \in {index + i, index + i + Modulus}
  BY <1>1, <1>3
<1> QED
  BY <1>2, <1>4, <1>5

\* The slots still to be filled and the slots still to be copied lie within one
\* capacity of each other, and the first follow the second.
LEMMA InvNoRace == Inv => NoRace
<1> SUFFICES ASSUME Inv,
                    NEW i \in producer.copied .. producer.accepted - 1,
                    NEW j \in Len(consumer.copied) .. consumer.taken - 1,
                    Slot(Wrap(write + i)) = Slot(Wrap(read + j))
             PROVE  FALSE
  BY DEF NoRace
<1>1. TypeOK /\ IndicesOrdered
  BY DEF Inv
<1>2. /\ i \in Nat /\ i < producer.accepted /\ j \in Nat /\ j < consumer.taken
      /\ producer.seen \in Serials /\ producer.seen \in Int
  BY <1>1, Fields, RingFacts
<1> DEFINE a == producer.seen + Ahead(write) + i
           b == producer.seen + Ahead(read) + j
<1>3. a \in Int /\ b \in Int /\ b < a /\ a - b < Capacity
  <2>1. /\ Ahead(read) \in Nat /\ consumer.taken \in Nat
        /\ Ahead(consumer.seen) \in Nat /\ Ahead(write) \in Nat
        /\ producer.accepted \in Nat
        /\ Ahead(read) + consumer.taken <= Ahead(consumer.seen)
        /\ Ahead(consumer.seen) <= Ahead(write)
        /\ Ahead(write) + producer.accepted <= Capacity
    BY <1>1, Fields, Order
  <2>2. Capacity \in Nat
    BY RingFacts
  <2>3. /\ Ahead(read) + j < Ahead(write) + i
        /\ Ahead(write) + i < Capacity
    BY <1>2, <2>1, <2>2
  <2> DEFINE w == Ahead(write) + i
             r == Ahead(read) + j
  <2>4. w \in Nat /\ r \in Nat /\ r < w /\ w < Capacity
    BY <1>2, <2>1, <2>3
  <2>5. a = producer.seen + w /\ b = producer.seen + r
    BY <1>2, <2>1
  <2> HIDE DEF w, r, a, b
  <2> QED
    BY <1>2, <2>2, <2>4, <2>5
<1>4. a % Capacity = b % Capacity
  BY <1>1, <1>2, Order, SlotAhead
<1> HIDE DEF a, b
<1>5. a = b
  <2>1. b - a < Capacity
    BY <1>3, RingFacts
  <2> QED
    BY <1>3, <1>4, <2>1, RingFacts, ModUnique
<1> QED
  BY <1>3, <1>5

\* The invariant holds in every state of the ring.
LEMMA InvCorrect == Spec => []Inv
<1>1. Init => Inv
  BY InitInv
<1>2. Inv /\ [Next]_vars => Inv'
  BY NextInv
<1> QED
  BY <1>1, <1>2, PTL DEF Spec

\* The indices stay in the word and the counts within the capacity.
THEOREM RingTypeCorrect == Spec => []TypeOK
<1>1. Inv => TypeOK
  BY DEF Inv
<1> QED
  BY <1>1, InvCorrect, PTL

\* However stale what a side sees, the four indices keep their order around the
\* word and lie within one capacity.
THEOREM RingOrdered == Spec => []IndicesOrdered
<1>1. Inv => IndicesOrdered
  BY DEF Inv
<1> QED
  BY <1>1, InvCorrect, PTL

\* The producer never writes a slot that the consumer may be reading.
THEOREM RingRaceFree == Spec => []NoRace
<1>1. Inv => NoRace
  BY InvNoRace
<1> QED
  BY <1>1, InvCorrect, PTL

-------------------------------------------------------------------------------
(* The ring is a bounded queue *)

\* What the ring holds, oldest first.
Contents == [k \in 1 .. Wrap(write - read) |-> slots[Slot(Wrap(read + k - 1))]]

\* What has been copied is where it belongs: the items of a call of push_bulk()
\* are in the slots from the write index on, and what pop_bulk() has copied out
\* is what the slots from the read index on hold.
Copied ==
  /\ producer.pc = "idle" => producer.items = <<>>
  /\ producer.pc # "idle" => /\ producer.accepted >= 1
                             /\ producer.accepted <= Len(producer.items)
  /\ \A i \in 0 .. producer.copied - 1 :
       slots[Slot(Wrap(write + i))] = producer.items[i + 1]
  /\ consumer.pc # "idle" => consumer.taken >= 1
  /\ \A j \in 0 .. Len(consumer.copied) - 1 :
       consumer.copied[j + 1] = slots[Slot(Wrap(read + j))]

\* How much the ring holds, and what the two calls do to it.
LEMMA Size ==
  ASSUME TypeOK, IndicesOrdered
  PROVE  /\ Wrap(write - read) \in Nat
         /\ Wrap(write - read) + producer.accepted <= Capacity
         /\ consumer.taken <= Wrap(write - read)
<1>1. Wrap(write - read) = Ahead(write) - Ahead(read)
  BY Fields, Order, AheadBetween DEF Ahead
<1>2. /\ Ahead(read) \in Nat /\ Ahead(write) \in Nat
      /\ Ahead(consumer.seen) \in Nat
      /\ Ahead(read) + consumer.taken <= Ahead(consumer.seen)
      /\ Ahead(consumer.seen) <= Ahead(write)
      /\ Ahead(write) + producer.accepted <= Capacity
      /\ consumer.taken \in Nat /\ producer.accepted \in Nat
      /\ Capacity \in Nat
  BY Fields, Order, RingFacts
<1> QED
  BY <1>1, <1>2

\* The slot of an index, before or after the wrap.
LEMMA SlotOf ==
  ASSUME NEW n \in Int
  PROVE  Slot(Wrap(n)) = n % Capacity
  BY RingFacts, WrapMod DEF Slot

\* Indices less than one capacity apart have different slots.
LEMMA Apart ==
  ASSUME NEW n \in Int, NEW i \in Nat, NEW j \in Nat,
         i < Capacity, j < Capacity, i # j
  PROVE  Slot(Wrap(n + i)) # Slot(Wrap(n + j))
<1> DEFINE a == n + i
           b == n + j
<1>1. a \in Int /\ b \in Int /\ a - b < Capacity /\ b - a < Capacity /\ a # b
  BY RingFacts
<1> HIDE DEF a, b
<1>2. a % Capacity # b % Capacity
  BY <1>1, RingFacts, ModUnique
<1>3. Slot(Wrap(a)) # Slot(Wrap(b))
  BY <1>1, <1>2, SlotOf
<1> QED
  BY <1>3 DEF a, b

\* The slots from the write index on follow those that the ring holds.
LEMMA WriteFollows ==
  ASSUME TypeOK, NEW i \in Nat
  PROVE  Slot(Wrap(write + i)) = Slot(Wrap(read + (Wrap(write - read) + i)))
<1>1. /\ write \in Serials /\ read \in Serials
      /\ write \in Int /\ read \in Int /\ Modulus \in Int
  BY RingFacts DEF TypeOK
<1> DEFINE w == Wrap(write - read)
<1>2. w \in Int /\ w \in {write - read, write - read + Modulus}
  <2>1. w \in Serials /\ w \in {write - read, write - read + Modulus}
    BY <1>1, AheadOf
  <2> HIDE DEF w
  <2> QED
    BY <2>1, RingFacts
<1> HIDE DEF w
<1> DEFINE n == read + (w + i)
           m == write + i
<1>3. n \in Int /\ m \in Int /\ n \in {m, m + Modulus}
  BY <1>1, <1>2
<1> HIDE DEF n, m
<1>4. (m + Modulus) % Capacity = m % Capacity
  BY <1>1, <1>3, RingFacts, ModShift
<1>5. n % Capacity = m % Capacity
  BY <1>3, <1>4
<1>6. Slot(Wrap(m)) = Slot(Wrap(n))
  BY <1>3, <1>5, SlotOf
<1> QED
  BY <1>6 DEF n, m, w

\* The slots a call of push_bulk() fills differ from each other and from those
\* that the ring holds.
LEMMA Fresh ==
  ASSUME TypeOK, IndicesOrdered, NEW i \in Nat, i < producer.accepted
  PROVE  /\ \A j \in 0 .. Wrap(write - read) - 1 :
              Slot(Wrap(write + i)) # Slot(Wrap(read + j))
         /\ \A j \in 0 .. i - 1 :
              Slot(Wrap(write + i)) # Slot(Wrap(write + j))
<1> DEFINE w == Wrap(write - read)
<1>1. /\ w \in Nat /\ w + i < Capacity /\ i < Capacity /\ Capacity \in Nat
      /\ read \in Int /\ write \in Int
  <2>1. producer.accepted \in Nat /\ w \in Nat /\ Capacity \in Nat
        /\ w + producer.accepted <= Capacity
    BY Fields, Size, RingFacts
  <2>2. read \in Int /\ write \in Int
    BY RingFacts DEF TypeOK
  <2> HIDE DEF w
  <2> QED
    BY <2>1, <2>2
<1>2. Slot(Wrap(write + i)) = Slot(Wrap(read + (w + i)))
  BY WriteFollows
<1> HIDE DEF w
<1>3. ASSUME NEW j \in 0 .. w - 1
      PROVE  Slot(Wrap(write + i)) # Slot(Wrap(read + j))
  <2>1. j \in Nat /\ j < Capacity /\ w + i \in Nat /\ w + i # j
    BY <1>1
  <2> QED
    BY <1>1, <1>2, <2>1, Apart
<1>4. ASSUME NEW j \in 0 .. i - 1
      PROVE  Slot(Wrap(write + i)) # Slot(Wrap(write + j))
  <2>1. j \in Nat /\ j < Capacity /\ i # j
    BY <1>1
  <2> QED
    BY <1>1, <2>1, Apart
<1> QED
  BY <1>3, <1>4 DEF w

\* Before the first call nothing has been copied.
LEMMA InitCopied == Init => Copied
  BY DEF Init, Copied

\* A push_bulk() that starts has copied nothing.
LEMMA PushCopied ==
  ASSUME Inv, Copied, NEW items \in Runs, Push(items)
  PROVE  Copied'
<1>1. /\ TypeOK /\ CallsComplete /\ producer.pc = "idle"
      /\ UNCHANGED <<write, read, slots, consumer>>
  BY DEF Inv, Push
<1>2. PICK seen \in Visible(producer.seen, read) :
        producer' = IF Accepts(Len(items), seen) = 0
                    THEN [producer EXCEPT !.seen = seen]
                    ELSE [pc |-> "copy", seen |-> seen, items |-> items,
                          accepted |-> Accepts(Len(items), seen), copied |-> 0]
  BY DEF Push
<1>3. Inv'
  BY PushInv
<1>4. producer'.copied = 0
  BY <1>1, <1>2 DEF TypeOK, CallsComplete
<1>5. CASE Accepts(Len(items), seen) = 0
  <2>1. producer'.pc = "idle" /\ producer'.items = <<>>
    BY <1>1, <1>2, <1>5 DEF TypeOK, Copied
  <2> QED
    BY <1>1, <1>4, <2>1 DEF Copied
<1>6. CASE Accepts(Len(items), seen) # 0
  <2>1. producer'.pc = "copy" /\ producer'.accepted # 0
    BY <1>2, <1>6
  <2>2. producer'.accepted \in Nat /\ producer'.accepted <= Len(producer'.items)
    BY <1>3, <2>1, RingFacts DEF Inv, TypeOK, CallsComplete
  <2>3. producer'.accepted >= 1
    BY <2>1, <2>2
  <2> QED
    BY <1>1, <1>4, <2>1, <2>2, <2>3 DEF Copied
<1> QED
  BY <1>5, <1>6

\* The item goes into a slot that holds neither another item of the run nor
\* anything the ring holds.
LEMMA PushCopyCopied ==
  ASSUME Inv, Copied, PushCopy
  PROVE  /\ Copied'
         /\ \A j \in 0 .. Wrap(write - read) - 1 :
              slots'[Slot(Wrap(read + j))] = slots[Slot(Wrap(read + j))]
<1>1. /\ TypeOK /\ CallsComplete /\ IndicesOrdered /\ producer.pc = "copy"
      /\ UNCHANGED <<write, read, consumer, observer>>
  BY DEF Inv, PushCopy
<1>2. /\ producer.copied \in Nat /\ producer.copied < producer.accepted
      /\ slots \in [Slots -> Values] /\ write \in Int /\ read \in Int
      /\ producer.accepted \in Nat
  BY <1>1, RingFacts DEF TypeOK, CallsComplete
<1> DEFINE s == Slot(Wrap(write + producer.copied))
           item == producer.items[producer.copied + 1]
<1>3. /\ \A j \in 0 .. Wrap(write - read) - 1 : s # Slot(Wrap(read + j))
      /\ \A j \in 0 .. producer.copied - 1 : s # Slot(Wrap(write + j))
  BY <1>1, <1>2, Fresh
<1>4. slots' = [slots EXCEPT ![s] = item]
  BY DEF PushCopy
<1>5. s \in Slots
  <2>1. write + producer.copied \in Int
    BY <1>2
  <2>2. Wrap(write + producer.copied) \in Int
    BY <2>1, WrapType, RingFacts
  <2> QED
    BY <2>2, RingFacts
<1>6. /\ slots'[s] = item
      /\ \A n \in Int : Slot(Wrap(n)) # s
                          => slots'[Slot(Wrap(n))] = slots[Slot(Wrap(n))]
  <2>1. ASSUME NEW n \in Int PROVE Slot(Wrap(n)) \in Slots
    BY WrapType, RingFacts
  <2> HIDE DEF s, item
  <2> QED
    BY <1>2, <1>4, <1>5, <2>1
<1>7. /\ producer'.copied = producer.copied + 1
      /\ producer'.accepted = producer.accepted
      /\ producer'.items = producer.items
      /\ producer'.pc \in {"store", "copy"}
  BY <1>1 DEF PushCopy, TypeOK
<1>8. \A j \in 0 .. Wrap(write - read) - 1 :
        slots'[Slot(Wrap(read + j))] = slots[Slot(Wrap(read + j))]
  <2>1. TAKE j \in 0 .. Wrap(write - read) - 1
  <2>2. read + j \in Int
    BY <1>2
  <2> HIDE DEF s
  <2> QED
    BY <1>3, <1>6, <2>2
<1>9. \A i \in 0 .. producer'.copied - 1 :
        slots'[Slot(Wrap(write' + i))] = producer'.items[i + 1]
  <2>1. SUFFICES ASSUME NEW i \in 0 .. producer.copied
                 PROVE  slots'[Slot(Wrap(write + i))] = producer.items[i + 1]
    BY <1>1, <1>2, <1>7
  <2>2. CASE i = producer.copied
    BY <1>6, <2>2
  <2>3. CASE i # producer.copied
    <3>1. i \in 0 .. producer.copied - 1 /\ write + i \in Int
      BY <1>2, <2>3
    <3>2. slots[Slot(Wrap(write + i))] = producer.items[i + 1]
      BY <3>1 DEF Copied
    <3> HIDE DEF s
    <3> QED
      BY <1>3, <1>6, <3>1, <3>2
  <2> QED
    BY <2>2, <2>3
<1>10. \A j \in 0 .. Len(consumer'.copied) - 1 :
         consumer'.copied[j + 1] = slots'[Slot(Wrap(read' + j))]
  <2>1. SUFFICES ASSUME NEW j \in 0 .. Len(consumer.copied) - 1
                 PROVE  consumer.copied[j + 1] = slots'[Slot(Wrap(read + j))]
    BY <1>1
  <2>2. /\ Len(consumer.copied) \in Nat /\ consumer.taken \in Nat
        /\ Wrap(write - read) \in Nat /\ consumer.taken <= Wrap(write - read)
    BY <1>1, Fields, Size
  <2>3. Len(consumer.copied) <= consumer.taken
    BY <1>1, <2>2 DEF CallsComplete, TypeOK
  <2>4. j \in 0 .. Wrap(write - read) - 1
    BY <2>2, <2>3
  <2> QED
    BY <1>8, <2>4 DEF Copied
<1>11. producer'.pc # "idle" /\ producer'.accepted >= 1
       /\ producer'.accepted <= Len(producer'.items)
  BY <1>1, <1>7 DEF Copied
<1>12. consumer'.pc # "idle" => consumer'.taken >= 1
  BY <1>1 DEF Copied
<1> QED
  BY <1>8, <1>9, <1>10, <1>11, <1>12 DEF Copied

\* The end of push_bulk() forgets the run.
LEMMA PushStoreCopied ==
  ASSUME Inv, Copied, PushStore
  PROVE  Copied'
<1>1. TypeOK /\ UNCHANGED <<read, slots, consumer>>
  BY DEF Inv, PushStore
<1>2. /\ producer'.pc = "idle" /\ producer'.items = <<>>
      /\ producer'.copied = 0
  BY <1>1 DEF PushStore, TypeOK
<1> QED
  BY <1>1, <1>2 DEF Copied

\* A pop_bulk() or discard() that starts has copied nothing.
LEMMA PopCopied ==
  ASSUME Inv, Copied, NEW count \in 1 .. MaxCount, Pop(count) \/ Discard(count)
  PROVE  Copied'
<1>1. /\ TypeOK /\ CallsComplete /\ consumer.pc = "idle"
      /\ UNCHANGED <<write, read, slots, producer>>
  BY DEF Inv, Pop, Discard
<1>2. Inv'
  BY PopInv, DiscardInv
<1>3. PICK seen \in Visible(consumer.seen, write), pc \in {"copy", "drop"} :
        consumer' = IF Takes(count, seen) = 0
                    THEN [consumer EXCEPT !.seen = seen]
                    ELSE [consumer EXCEPT !.pc = pc, !.seen = seen,
                                          !.taken = Takes(count, seen)]
  BY DEF Pop, Discard
<1>4. consumer.copied = <<>>
  BY <1>1 DEF CallsComplete
<1>5. /\ consumer'.copied = <<>>
      /\ consumer'.pc # "idle" => consumer'.taken # 0
  BY <1>1, <1>3, <1>4 DEF TypeOK
<1>6. consumer'.taken \in Nat
  BY <1>2, RingFacts DEF Inv, TypeOK
<1>7. consumer'.pc # "idle" => consumer'.taken >= 1
  BY <1>5, <1>6
<1> QED
  BY <1>1, <1>5, <1>7 DEF Copied

\* pop_bulk() copies the next item.
LEMMA PopCopyCopied ==
  ASSUME Inv, Copied, PopCopy
  PROVE  Copied'
<1>1. /\ TypeOK /\ CallsComplete /\ consumer.pc = "copy"
      /\ UNCHANGED <<write, read, slots, producer>>
  BY DEF Inv, PopCopy
<1> DEFINE c == consumer.copied
           item == slots[Slot(Wrap(read + Len(c)))]
<1>2. c \in Seq(Values) /\ Len(c) \in Nat
  BY <1>1, Fields
<1>3. item \in Values
  <2>1. read + Len(c) \in Int
    BY <1>1, <1>2, RingFacts DEF TypeOK
  <2>2. Wrap(read + Len(c)) \in Int
    BY <2>1, WrapType, RingFacts
  <2> QED
    BY <1>1, <2>2, RingFacts DEF TypeOK
<1>4. /\ consumer'.copied = Append(c, item)
      /\ consumer'.taken = consumer.taken /\ consumer'.pc # "idle"
  BY <1>1 DEF PopCopy, TypeOK
<1>5. \A j \in 0 .. Len(c) - 1 : c[j + 1] = slots[Slot(Wrap(read + j))]
  BY DEF Copied
<1>6. item = slots[Slot(Wrap(read + Len(c)))]
  OBVIOUS
<1> HIDE DEF c, item
<1>7. ASSUME NEW j \in 0 .. Len(Append(c, item)) - 1
      PROVE  Append(c, item)[j + 1] = slots[Slot(Wrap(read + j))]
  <2>1. j \in 0 .. Len(c)
    BY <1>2, <1>3
  <2>2. CASE j = Len(c)
    BY <1>2, <1>3, <1>6, <2>2
  <2>3. CASE j # Len(c)
    <3>1. j \in 0 .. Len(c) - 1
      BY <1>2, <2>1, <2>3
    <3>2. Append(c, item)[j + 1] = c[j + 1]
      BY <1>2, <1>3, <3>1
    <3> QED
      BY <1>5, <3>1, <3>2
  <2> QED
    BY <2>2, <2>3
<1>8. consumer.taken >= 1
  BY <1>1 DEF Copied
<1> QED
  BY <1>1, <1>4, <1>7, <1>8 DEF Copied

\* The end of pop_bulk() or discard().
LEMMA ReadStoredCopied ==
  ASSUME Inv, Copied, PopStore \/ DiscardStore
  PROVE  Copied'
<1>1. /\ TypeOK /\ CallsComplete /\ UNCHANGED <<write, slots, producer>>
  BY DEF Inv, PopStore, DiscardStore
<1>2. consumer'.pc = "idle" /\ consumer'.copied = <<>>
  BY <1>1 DEF PopStore, DiscardStore, TypeOK, CallsComplete
<1> QED
  BY <1>1, <1>2 DEF Copied

\* reset() finds nothing under way.
LEMMA ResetCopied ==
  ASSUME Inv, Copied, Reset
  PROVE  Copied'
<1>1. /\ TypeOK /\ CallsComplete /\ UNCHANGED slots
      /\ producer.pc = "idle" /\ consumer.pc = "idle"
  BY DEF Inv, Reset
<1>2. /\ producer'.pc = "idle" /\ producer'.items = producer.items
      /\ producer'.copied = producer.copied
      /\ consumer'.pc = "idle" /\ consumer'.copied = consumer.copied
  BY <1>1 DEF Reset, TypeOK
<1>3. /\ producer.items = <<>> /\ producer.copied = 0
      /\ consumer.copied = <<>>
  BY <1>1 DEF Copied, CallsComplete
<1> QED
  BY <1>2, <1>3 DEF Copied

\* Every step keeps what was copied.
LEMMA NextCopied == Inv /\ Copied /\ [Next]_vars => Copied'
<1> SUFFICES ASSUME Inv, Copied, [Next]_vars PROVE Copied'
  OBVIOUS
<1>1. CASE \E items \in Runs : Push(items)
  BY <1>1, PushCopied
<1>2. CASE PushCopy
  BY <1>2, PushCopyCopied
<1>3. CASE PushStore
  BY <1>3, PushStoreCopied
<1>4. CASE \E count \in 1 .. MaxCount : Pop(count) \/ Discard(count)
  BY <1>4, PopCopied
<1>5. CASE PopCopy
  BY <1>5, PopCopyCopied
<1>6. CASE PopStore \/ DiscardStore
  BY <1>6, ReadStoredCopied
<1>7. CASE Reset
  BY <1>7, ResetCopied
<1>8. CASE SizeLoadWrite \/ SizeLoadRead \/ UNCHANGED vars
  BY <1>8 DEF SizeLoadWrite, SizeLoadRead, vars, Copied
<1> QED
  BY <1>1, <1>2, <1>3, <1>4, <1>5, <1>6, <1>7, <1>8 DEF Next

\* The contents are a sequence of items, one per index between the two.
LEMMA ContentsIs ==
  ASSUME TypeOK, IndicesOrdered
  PROVE  /\ Contents \in Seq(Values)
         /\ Len(Contents) = Wrap(write - read)
         /\ Len(Contents) \in Nat
         /\ \A k \in 1 .. Len(Contents) :
              Contents[k] = slots[Slot(Wrap(read + (k - 1)))]
<1> DEFINE w == Wrap(write - read)
<1>1. w \in Nat
  BY Size
<1>2. read \in Int
  BY RingFacts DEF TypeOK
<1> HIDE DEF w
<1>3. ASSUME NEW k \in 1 .. w
      PROVE  /\ slots[Slot(Wrap(read + k - 1))] \in Values
             /\ read + k - 1 = read + (k - 1)
  <2>1. read + k - 1 \in Int /\ read + k - 1 = read + (k - 1)
    BY <1>1, <1>2
  <2>2. Wrap(read + k - 1) \in Int
    BY <2>1, WrapType, RingFacts
  <2>3. Slot(Wrap(read + k - 1)) \in Slots
    BY <2>2, RingFacts
  <2> QED
    BY <2>1, <2>3 DEF TypeOK
<1>4. Contents = [k \in 1 .. w |-> slots[Slot(Wrap(read + k - 1))]]
  BY DEF Contents, w
<1>5. Contents \in [1 .. w -> Values]
  BY <1>3, <1>4
<1>6. Contents \in Seq(Values) /\ Len(Contents) = w
  BY <1>1, <1>5
<1>7. \A k \in 1 .. w : Contents[k] = slots[Slot(Wrap(read + (k - 1)))]
  BY <1>3, <1>4
<1> QED
  BY <1>1, <1>6, <1>7 DEF w

\* Storing the write index appends the run that was copied.
LEMMA PushStorePuts ==
  ASSUME Inv, Copied, PushStore
  PROVE  /\ Len(Contents) + producer.accepted <= Capacity
         /\ producer.accepted \in 1 .. Capacity
         /\ producer.accepted <= Len(producer.items)
         /\ Contents' = Contents \o SubSeq(producer.items, 1, producer.accepted)
<1>1. /\ TypeOK /\ CallsComplete /\ IndicesOrdered /\ producer.pc = "store"
      /\ UNCHANGED <<read, slots>>
      /\ write' = Wrap(write + producer.accepted)
  BY DEF Inv, PushStore
<1> DEFINE n == producer.accepted
           w == Wrap(write - read)
           run == producer.items
<1>2. /\ n \in Nat /\ n >= 1 /\ n <= Capacity /\ n <= Len(run)
      /\ run \in Seq(Values) /\ Len(run) \in Nat
  BY <1>1, RingFacts DEF TypeOK, Copied
<1>3. w \in Nat /\ w + n <= Capacity /\ Len(Contents) = w
      /\ Contents \in Seq(Values)
  BY <1>1, Size, ContentsIs
<1>4. Wrap(write' - read') = w + n
  <2>1. write \in Serials /\ read \in Serials
    BY <1>1 DEF TypeOK
  <2>2. w + n < Modulus
    BY <1>2, <1>3, RingFacts
  <2> QED
    BY <1>1, <1>2, <2>1, <2>2, AheadStep
<1>5. \A i \in 0 .. n - 1 : slots[Slot(Wrap(write + i))] = run[i + 1]
  BY <1>1 DEF CallsComplete, Copied
<1>6. \A i \in Nat : Slot(Wrap(write + i)) = Slot(Wrap(read + (w + i)))
  BY <1>1, WriteFollows
<1>7. \A k \in 1 .. w : Contents[k] = slots[Slot(Wrap(read + (k - 1)))]
  BY <1>1, <1>3, ContentsIs
<1>8. Inv'
  BY PushStoreInv
<1>9. /\ Contents' \in Seq(Values) /\ Len(Contents') = w + n
      /\ \A k \in 1 .. w + n :
           Contents'[k] = slots[Slot(Wrap(read + (k - 1)))]
  <2>1. TypeOK' /\ IndicesOrdered'
    BY <1>8 DEF Inv
  <2>2. (TypeOK /\ IndicesOrdered
           => /\ Contents \in Seq(Values)
              /\ Len(Contents) = Wrap(write - read)
              /\ \A k \in 1 .. Len(Contents) :
                   Contents[k] = slots[Slot(Wrap(read + (k - 1)))])'
    BY ContentsIs, PTL
  <2>3. /\ Contents' \in Seq(Values) /\ Len(Contents') = Wrap(write' - read')
        /\ \A k \in 1 .. Len(Contents') :
             Contents'[k] = slots'[Slot(Wrap(read' + (k - 1)))]
    BY <2>1, <2>2
  <2> HIDE DEF w, n
  <2> QED
    BY <1>1, <1>4, <2>3
<1> DEFINE part == SubSeq(run, 1, n)
           both == Contents \o part
<1> HIDE DEF n, w, run
<1>10. /\ part \in Seq(Values) /\ Len(part) = n
       /\ \A i \in 1 .. n : part[i] = run[i]
  <2>1. \A i \in 1 .. n : run[i] \in Values
    BY <1>2
  <2>2. /\ part \in Seq(Values)
        /\ Len(part) = IF 1 <= n THEN n - 1 + 1 ELSE 0
        /\ \A i \in 1 .. n - 1 + 1 : part[i] = run[1 + i - 1]
    BY <1>2, <2>1, SubSeqProperties
  <2> HIDE DEF part
  <2> QED
    BY <1>2, <2>2
<1> HIDE DEF part
<1>11. /\ both \in Seq(Values) /\ Len(both) = w + n
       /\ \A k \in 1 .. w + n :
            both[k] = IF k <= w THEN Contents[k] ELSE part[k - w]
  BY <1>3, <1>10, ConcatProperties
<1> HIDE DEF both
<1>12. ASSUME NEW k \in 1 .. w + n
       PROVE  Contents'[k] = both[k]
  <2>1. CASE k <= w
    <3>1. k \in 1 .. w
      BY <1>3, <2>1
    <3> QED
      BY <1>7, <1>9, <1>11, <2>1, <3>1
  <2>2. CASE ~(k <= w)
    <3> DEFINE i == k - 1 - w
    <3>1. i \in 0 .. n - 1 /\ i \in Nat /\ w + i = k - 1 /\ i + 1 = k - w
          /\ k - w \in 1 .. n
      BY <1>2, <1>3, <2>2
    <3> HIDE DEF i
    <3>2. Contents'[k] = slots[Slot(Wrap(read + (w + i)))]
      BY <1>9, <3>1
    <3>3. slots[Slot(Wrap(read + (w + i)))] = run[k - w]
      BY <1>5, <1>6, <3>1
    <3>4. both[k] = run[k - w]
      BY <1>10, <1>11, <2>2, <3>1
    <3> QED
      BY <3>2, <3>3, <3>4
  <2> QED
    BY <2>1, <2>2
<1>13. Contents' = both
  BY <1>9, <1>11, <1>12, SeqEqual
<1>14. n \in 1 .. Capacity
  BY <1>2, RingFacts
<1> QED
  BY <1>2, <1>3, <1>13, <1>14 DEF n, run, both, part

\* Storing the read index takes what was announced from the head.
LEMMA ReadStoreTakes ==
  ASSUME Inv, Copied, PopStore \/ DiscardStore
  PROVE  /\ consumer.taken \in 1 .. Capacity
         /\ consumer.taken <= Len(Contents)
         /\ Contents' = SubSeq(Contents, consumer.taken + 1, Len(Contents))
<1>1. /\ TypeOK /\ CallsComplete /\ IndicesOrdered /\ consumer.pc # "idle"
      /\ UNCHANGED <<write, slots>>
      /\ read' = Wrap(read + consumer.taken)
  BY DEF Inv, PopStore, DiscardStore
<1> DEFINE n == consumer.taken
           w == Wrap(write - read)
<1>2. n \in Nat /\ n >= 1 /\ n <= Capacity
  BY <1>1, RingFacts DEF TypeOK, Copied
<1>3. w \in Nat /\ n <= w /\ Len(Contents) = w /\ Contents \in Seq(Values)
  BY <1>1, Size, ContentsIs
<1>4. write \in Serials /\ read \in Serials /\ read \in Int
  BY <1>1, RingFacts DEF TypeOK
<1>5. Wrap(write' - read') = w - n
  BY <1>1, <1>2, <1>3, <1>4, AheadShift
<1>6. Inv'
  BY PopStoreInv, DiscardStoreInv
<1>7. \A k \in 1 .. w : Contents[k] = slots[Slot(Wrap(read + (k - 1)))]
  BY <1>1, <1>3, ContentsIs
<1>8. /\ Contents' \in Seq(Values) /\ Len(Contents') = w - n
      /\ \A k \in 1 .. w - n :
           Contents'[k] = slots[Slot(Wrap(read' + (k - 1)))]
  <2>1. TypeOK' /\ IndicesOrdered'
    BY <1>6 DEF Inv
  <2>2. (TypeOK /\ IndicesOrdered
           => /\ Contents \in Seq(Values)
              /\ Len(Contents) = Wrap(write - read)
              /\ \A k \in 1 .. Len(Contents) :
                   Contents[k] = slots[Slot(Wrap(read + (k - 1)))])'
    BY ContentsIs, PTL
  <2>3. /\ Contents' \in Seq(Values) /\ Len(Contents') = Wrap(write' - read')
        /\ \A k \in 1 .. Len(Contents') :
             Contents'[k] = slots'[Slot(Wrap(read' + (k - 1)))]
    BY <2>1, <2>2
  <2> HIDE DEF w, n
  <2> QED
    BY <1>1, <1>5, <2>3
<1>9. \A j \in Int : Wrap(read' + j) = Wrap(read + (n + j))
  <2>1. TAKE j \in Int
  <2>2. read + n \in Int /\ (read + n) + j = read + (n + j)
    BY <1>2, <1>4
  <2>3. Wrap(Wrap(read + n) + j) = Wrap((read + n) + j)
    BY <2>2, WrapAdd
  <2> QED
    BY <1>1, <2>2, <2>3
<1> HIDE DEF n, w
<1> DEFINE rest == SubSeq(Contents, n + 1, w)
<1>10. /\ rest \in Seq(Values) /\ Len(rest) = w - n
       /\ \A k \in 1 .. w - n : rest[k] = Contents[n + k]
  <2>1. \A k \in n + 1 .. w : Contents[k] \in Values
    <3>1. TAKE k \in n + 1 .. w
    <3>2. k \in 1 .. Len(Contents)
      BY <1>2, <1>3
    <3> QED
      BY <1>3, <3>2, ElementOfSeq
  <2>2. /\ rest \in Seq(Values)
        /\ Len(rest) = IF n + 1 <= w THEN w - (n + 1) + 1 ELSE 0
        /\ \A k \in 1 .. w - (n + 1) + 1 : rest[k] = Contents[n + 1 + k - 1]
    <3>1. n + 1 \in Int /\ w \in Int
      BY <1>2, <1>3
    <3> QED
      BY <2>1, <3>1, SubSeqProperties
  <2> HIDE DEF rest
  <2> QED
    BY <1>2, <1>3, <2>2
<1> HIDE DEF rest
<1>11. ASSUME NEW k \in 1 .. w - n
       PROVE  Contents'[k] = rest[k]
  <2>1. k - 1 \in Int /\ n + k \in 1 .. w /\ (n + k) - 1 = n + (k - 1)
    BY <1>2, <1>3
  <2>2. Contents'[k] = slots[Slot(Wrap(read + (n + (k - 1))))]
    BY <1>8, <1>9, <2>1
  <2>3. rest[k] = slots[Slot(Wrap(read + (n + (k - 1))))]
    BY <1>7, <1>10, <2>1
  <2> QED
    BY <2>2, <2>3
<1>12. Contents' = rest
  BY <1>8, <1>10, <1>11, SeqEqual
<1>13. n \in 1 .. Capacity
  BY <1>2, RingFacts
<1> QED
  BY <1>3, <1>12, <1>13 DEF n, rest

\* What pop_bulk() has copied when it stores the index is the head of the ring.
LEMMA PopStoreDelivers ==
  ASSUME Inv, Copied, PopStore
  PROVE  consumer'.delivered = SubSeq(Contents, 1, consumer.taken)
<1>1. /\ TypeOK /\ CallsComplete /\ IndicesOrdered /\ consumer.pc = "store"
  BY DEF Inv, PopStore
<1> DEFINE n == consumer.taken
           c == consumer.copied
<1>2. consumer'.delivered = c
  BY <1>1 DEF PopStore, TypeOK
<1>3. /\ n \in Nat /\ n >= 1 /\ Len(c) = n /\ c \in Seq(Values)
  BY <1>1, Fields DEF CallsComplete, Copied
<1>4. n <= Len(Contents) /\ Len(Contents) \in Nat /\ Contents \in Seq(Values)
  BY <1>1, Size, ContentsIs
<1>5. \A k \in 1 .. Len(Contents) :
        Contents[k] = slots[Slot(Wrap(read + (k - 1)))]
  BY <1>1, ContentsIs
<1>6. \A j \in 0 .. Len(c) - 1 : c[j + 1] = slots[Slot(Wrap(read + j))]
  BY DEF Copied
<1> HIDE DEF n, c
<1> DEFINE head == SubSeq(Contents, 1, n)
<1>7. /\ head \in Seq(Values) /\ Len(head) = n
      /\ \A k \in 1 .. n : head[k] = Contents[k]
  <2>1. \A k \in 1 .. n : Contents[k] \in Values
    <3>1. TAKE k \in 1 .. n
    <3>2. k \in 1 .. Len(Contents)
      BY <1>3, <1>4
    <3> QED
      BY <1>4, <3>2, ElementOfSeq
  <2>2. /\ head \in Seq(Values)
        /\ Len(head) = IF 1 <= n THEN n - 1 + 1 ELSE 0
        /\ \A k \in 1 .. n - 1 + 1 : head[k] = Contents[1 + k - 1]
    BY <1>3, <2>1, SubSeqProperties
  <2> HIDE DEF head
  <2> QED
    BY <1>3, <2>2
<1> HIDE DEF head
<1>8. ASSUME NEW k \in 1 .. n
      PROVE  c[k] = head[k]
  <2>1. k - 1 \in 0 .. Len(c) - 1 /\ (k - 1) + 1 = k /\ k \in 1 .. Len(Contents)
    BY <1>3, <1>4
  <2>2. c[(k - 1) + 1] = slots[Slot(Wrap(read + (k - 1)))]
    BY <1>6, <2>1
  <2> QED
    BY <1>5, <1>7, <2>1, <2>2
<1>9. c = head
  BY <1>3, <1>7, <1>8, SeqEqual
<1> QED
  BY <1>2, <1>9 DEF n, head

\* A call that starts, copies or looks leaves the contents as they are.
LEMMA ContentsKept ==
  ASSUME Inv, Copied, \/ UNCHANGED <<write, read, slots>>
                      \/ PushCopy
  PROVE  Contents' = Contents
<1>1. CASE UNCHANGED <<write, read, slots>>
  BY <1>1 DEF Contents
<1>2. CASE PushCopy
  <2>1. TypeOK /\ IndicesOrdered /\ UNCHANGED <<write, read>>
    BY <1>2 DEF Inv, PushCopy
  <2>2. \A j \in 0 .. Wrap(write - read) - 1 :
          slots'[Slot(Wrap(read + j))] = slots[Slot(Wrap(read + j))]
    BY <1>2, PushCopyCopied
  <2>3. Wrap(write - read) \in Nat /\ read \in Int
    BY <2>1, Size, RingFacts DEF TypeOK
  <2>4. \A k \in 1 .. Wrap(write - read) :
          slots'[Slot(Wrap(read + k - 1))] = slots[Slot(Wrap(read + k - 1))]
    <3>1. TAKE k \in 1 .. Wrap(write - read)
    <3>2. k - 1 \in 0 .. Wrap(write - read) - 1 /\ read + (k - 1) = read + k - 1
      BY <2>3
    <3> QED
      BY <2>2, <3>2
  <2> QED
    BY <2>1, <2>4 DEF Contents
<1> QED
  BY <1>1, <1>2

\* The empty ring is the empty queue.
LEMMA InitFifo == Init => Fifo!Init
<1> SUFFICES ASSUME Init PROVE Fifo!Init
  OBVIOUS
<1>1. 0 \in Serials
  BY RingFacts
<1>2. Wrap(write - read) = 0
  BY <1>1, AheadOf, AheadUnique, RingFacts DEF Init
<1>3. Contents = <<>>
  BY <1>2 DEF Contents
<1> QED
  BY <1>3 DEF Init, Fifo!Init, Contents

\* Every step of the ring is a step of the queue or none: a call of push_bulk()
\* offers its run when it starts and puts it in when it stores the index, and
\* pop_bulk() and discard() take when they store theirs.
LEMMA NextFifo ==
  ASSUME Inv, Copied, [Next]_vars
  PROVE  [Fifo!Next]_(Fifo!vars)
<1> DEFINE Stutter ==
      Contents' = Contents /\ producer'.items = producer.items
        /\ consumer'.delivered = consumer.delivered
<1>1. Stutter => [Fifo!Next]_(Fifo!vars)
  BY DEF Fifo!vars, Contents
<1>2. TypeOK
  BY DEF Inv
<1>3. ASSUME NEW items \in Runs, Push(items) PROVE [Fifo!Next]_(Fifo!vars)
  <2>1. PICK seen \in Visible(producer.seen, read) :
          producer' = IF Accepts(Len(items), seen) = 0
                      THEN [producer EXCEPT !.seen = seen]
                      ELSE [pc |-> "copy", seen |-> seen, items |-> items,
                            accepted |-> Accepts(Len(items), seen),
                            copied |-> 0]
    BY <1>3 DEF Push
  <2>2. /\ producer.pc = "idle"
        /\ UNCHANGED <<write, read, slots, consumer, observer>>
    BY <1>3 DEF Push
  <2>3. Contents' = Contents /\ consumer'.delivered = consumer.delivered
    BY <2>2, ContentsKept
  <2>4. CASE Accepts(Len(items), seen) = 0
    <3>1. producer'.items = producer.items
      BY <1>2, <2>1, <2>4 DEF TypeOK
    <3> QED
      BY <1>1, <2>3, <3>1
  <2>5. CASE Accepts(Len(items), seen) # 0
    <3>1. producer'.items = items /\ producer.items = <<>>
      BY <2>1, <2>2, <2>5 DEF Copied
    <3>2. PICK n \in 1 .. MaxCount : items \in [1 .. n -> Values]
      BY DEF Runs
    <3>3. Fifo!Offer(n)
      BY <2>3, <3>1, <3>2 DEF Fifo!Offer, Contents
    <3> QED
      BY <3>2, <3>3 DEF Fifo!Next
  <2> QED
    BY <2>4, <2>5
<1>4. CASE PushCopy
  <2>1. producer'.items = producer.items /\ consumer' = consumer
    BY <1>2, <1>4 DEF PushCopy, TypeOK
  <2> QED
    BY <1>1, <1>4, <2>1, ContentsKept
<1>5. CASE PushStore
  <2>1. producer'.items = <<>> /\ consumer' = consumer
    BY <1>2, <1>5 DEF PushStore, TypeOK
  <2>2. Fifo!Put(producer.accepted) /\ producer.accepted \in 1 .. Capacity
    BY <1>5, <2>1, PushStorePuts DEF Fifo!Put, Contents
  <2> QED
    BY <2>2 DEF Fifo!Next
<1>6. ASSUME NEW count \in 1 .. MaxCount, Pop(count) \/ Discard(count)
      PROVE  [Fifo!Next]_(Fifo!vars)
  <2>1. /\ UNCHANGED <<write, read, slots, producer>>
        /\ consumer'.delivered = consumer.delivered
    BY <1>2, <1>6 DEF Pop, Discard, TypeOK
  <2> QED
    BY <1>1, <2>1, ContentsKept
<1>7. CASE PopCopy
  <2>1. /\ UNCHANGED <<write, read, slots, producer>>
        /\ consumer'.delivered = consumer.delivered
    BY <1>2, <1>7 DEF PopCopy, TypeOK
  <2> QED
    BY <1>1, <2>1, ContentsKept
<1>8. CASE PopStore
  <2>1. producer' = producer
    BY <1>8 DEF PopStore
  <2>2. Fifo!Take(consumer.taken) /\ consumer.taken \in 1 .. Capacity
    BY <1>8, <2>1, ReadStoreTakes, PopStoreDelivers DEF Fifo!Take, Contents
  <2> QED
    BY <2>2 DEF Fifo!Next
<1>9. CASE DiscardStore
  <2>1. producer' = producer /\ consumer'.delivered = consumer.delivered
    BY <1>2, <1>9 DEF DiscardStore, TypeOK
  <2>2. Fifo!Drop(consumer.taken) /\ consumer.taken \in 1 .. Capacity
    BY <1>9, <2>1, ReadStoreTakes DEF Fifo!Drop, Contents
  <2> QED
    BY <2>2 DEF Fifo!Next
<1>10. CASE Reset
  <2>1. /\ producer'.items = producer.items
        /\ consumer'.delivered = consumer.delivered
        /\ write' = 0 /\ read' = 0
    BY <1>2, <1>10 DEF Reset, TypeOK
  <2>2. Wrap(write' - read') = 0
    BY <2>1, AheadOf, AheadUnique, RingFacts
  <2>3. Contents' = <<>>
    BY <2>2 DEF Contents
  <2>4. Fifo!Clear
    BY <2>1, <2>3 DEF Fifo!Clear, Contents
  <2> QED
    BY <2>4 DEF Fifo!Next
<1>11. CASE SizeLoadWrite \/ SizeLoadRead \/ UNCHANGED vars
  <2>1. UNCHANGED <<write, read, slots, producer, consumer>>
    BY <1>11 DEF SizeLoadWrite, SizeLoadRead, vars
  <2> QED
    BY <1>1, <2>1, ContentsKept
<1> HIDE DEF Stutter
<1> QED
  BY <1>3, <1>4, <1>5, <1>6, <1>7, <1>8, <1>9, <1>10, <1>11 DEF Next

\* The ring is a bounded first-in first-out queue with atomic bulk calls: what
\* went in comes out once, whole and in order, though items are copied one at a
\* time by two threads that see each other's indices late.
THEOREM RingIsFifo == Spec => ImplementsFifo
<1>1. Spec => []Inv
  BY InvCorrect
<1>2. Inv /\ Copied /\ [Next]_vars => Copied'
  BY NextCopied
<1>3. Inv /\ Copied /\ [Next]_vars => [Fifo!Next]_(Fifo!vars)
  BY NextFifo
<1> QED
  BY <1>1, <1>2, <1>3, InitCopied, InitFifo, PTL
     DEF Spec, ImplementsFifo, Fifo!Spec
===============================================================================
