------------------------------- MODULE SpscRing -------------------------------
(***************************************************************************)
(* The lock-free ring between an audio callback and an ordinary thread     *)
(* (core/include/radio/spsc_ring.hpp).  Producer and consumer interleave   *)
(* at every access to shared memory: the load of the other side's index,   *)
(* the copy of each item, the store of one's own index.                    *)
(*                                                                         *)
(* The indices are std::size_t that wrap at Modulus.  An acquire load may  *)
(* return any value the other side has stored since the last load (a store *)
(* may take time to become visible) but never an older one; a release      *)
(* store follows the copies before it.  push() and pop() are the bulk      *)
(* calls with a count of one.  A call with a count of zero returns at      *)
(* once.  The counter of refusals repeats what a call returned and is left *)
(* out.                                                                    *)
(***************************************************************************)
EXTENDS Serial, Sequences

CONSTANTS
  Capacity,  \* number of slots
  Values,    \* the items
  MaxCount,  \* bound on the items one call asks to move
  Observed   \* does a third thread call size()?

ASSUME RingAssumption ==
  /\ Capacity \in Nat \ {0}
  /\ Modulus % Capacity = 0
  /\ Capacity < Modulus
  /\ Values # {}
  /\ MaxCount \in Nat
  /\ Observed \in BOOLEAN

VARIABLES
  write, read,  \* write_.index and read_.index
  slots,        \* slots_
  producer,     \* the call of the producing thread
  consumer,     \* the call of the consuming thread
  observer      \* the call of size() by another thread

vars == <<write, read, slots, producer, consumer, observer>>

Slots == 0 .. Capacity - 1

Slot(index) == index % Capacity  \* index & kMask

Least(a, b) == IF a < b THEN a ELSE b

Init ==
  /\ write = 0
  /\ read = 0
  /\ slots \in [Slots -> Values]
  /\ producer = [pc |-> "idle", seen |-> 0, items |-> <<>>, accepted |-> 0,
                 copied |-> 0]
  /\ consumer = [pc |-> "idle", seen |-> 0, taken |-> 0, copied |-> <<>>,
                 delivered |-> <<>>]
  /\ observer = [pc |-> "idle", write |-> 0, size |-> 0]

\* What a load of an index may return: its value when last seen, now, or in
\* between.
Visible(seen, index) == {Wrap(seen + k) : k \in 0 .. Wrap(index - seen)}

-------------------------------------------------------------------------------
(* The producer *)

\* Mutants: one slot too many; the occupancy is ignored.
AcceptsOneMore(count, seen) == Least(count, Capacity - Wrap(write - seen) + 1)

AcceptsAll(count, seen) == Least(count, Capacity)

\* The room a producer sees for `count` items.
Accepts(count, seen) == Least(count, Capacity - Wrap(write - seen))

\* push_bulk() up to the first copy.  Without room the call returns.
Push(items) ==
  /\ producer.pc = "idle"
  /\ \E seen \in Visible(producer.seen, read) :
       LET accepted == Accepts(Len(items), seen)
       IN  producer' =
             IF accepted = 0 THEN [producer EXCEPT !.seen = seen]
             ELSE [pc |-> "copy", seen |-> seen,
                   items |-> items, accepted |-> accepted, copied |-> 0]
  /\ UNCHANGED <<write, read, slots, consumer, observer>>

\* Mutant: the index is stored before the last item is copied.
PushCopyShort ==
  /\ producer.pc = "copy"
  /\ slots' = [slots EXCEPT ![Slot(Wrap(write + producer.copied))] =
                 producer.items[producer.copied + 1]]
  /\ producer' = [producer EXCEPT
       !.copied = @ + 1,
       !.pc = IF producer.copied + 2 >= producer.accepted
              THEN "store" ELSE "copy"]
  /\ UNCHANGED <<write, read, consumer, observer>>

PushCopy ==
  /\ producer.pc = "copy"
  /\ slots' = [slots EXCEPT ![Slot(Wrap(write + producer.copied))] =
                 producer.items[producer.copied + 1]]
  /\ producer' = [producer EXCEPT
       !.copied = @ + 1,
       !.pc = IF producer.copied + 1 = producer.accepted
              THEN "store" ELSE "copy"]
  /\ UNCHANGED <<write, read, consumer, observer>>

PushStore ==
  /\ producer.pc = "store"
  /\ write' = Wrap(write + producer.accepted)
  /\ producer' = [producer EXCEPT !.pc = "idle", !.items = <<>>,
                                  !.accepted = 0, !.copied = 0]
  /\ UNCHANGED <<read, slots, consumer, observer>>

-------------------------------------------------------------------------------
(* The consumer *)

\* Mutant: a full ring looks like an empty one.
TakesModulo(count, seen) == Least(count, Slot(Wrap(seen - read)))

Takes(count, seen) == Least(count, Wrap(seen - read))

\* pop_bulk() up to the first copy.  With nothing there the call returns.
Pop(count) ==
  /\ consumer.pc = "idle"
  /\ \E seen \in Visible(consumer.seen, write) :
       LET taken == Takes(count, seen)
       IN  consumer' =
             IF taken = 0 THEN [consumer EXCEPT !.seen = seen]
             ELSE [consumer EXCEPT !.pc = "copy", !.seen = seen,
                                   !.taken = taken]
  /\ UNCHANGED <<write, read, slots, producer, observer>>

PopCopy ==
  /\ consumer.pc = "copy"
  /\ consumer' = [consumer EXCEPT
       !.copied = Append(@, slots[Slot(Wrap(read + Len(@)))]),
       !.pc = IF Len(consumer.copied) + 1 = consumer.taken
              THEN "store" ELSE "copy"]
  /\ UNCHANGED <<write, read, slots, producer, observer>>

PopStore ==
  /\ consumer.pc = "store"
  /\ read' = Wrap(read + consumer.taken)
  /\ consumer' = [consumer EXCEPT !.pc = "idle", !.delivered = consumer.copied,
                                  !.taken = 0, !.copied = <<>>]
  /\ UNCHANGED <<write, slots, producer, observer>>

\* discard(): as pop_bulk(), without the copies.
Discard(count) ==
  /\ consumer.pc = "idle"
  /\ \E seen \in Visible(consumer.seen, write) :
       LET dropped == Takes(count, seen)
       IN  consumer' =
             IF dropped = 0 THEN [consumer EXCEPT !.seen = seen]
             ELSE [consumer EXCEPT !.pc = "drop", !.seen = seen,
                                   !.taken = dropped]
  /\ UNCHANGED <<write, read, slots, producer, observer>>

DiscardStore ==
  /\ consumer.pc = "drop"
  /\ read' = Wrap(read + consumer.taken)
  /\ consumer' = [consumer EXCEPT !.pc = "idle", !.taken = 0]
  /\ UNCHANGED <<write, slots, producer, observer>>

-------------------------------------------------------------------------------

\* size() from a third thread: the write index first, then the read index.
SizeLoadWrite ==
  /\ Observed
  /\ observer.pc = "idle"
  /\ observer' = [observer EXCEPT !.pc = "loaded", !.write = write]
  /\ UNCHANGED <<write, read, slots, producer, consumer>>

SizeLoadRead ==
  /\ observer.pc = "loaded"
  /\ observer' = [pc |-> "idle", write |-> 0,
                  size |-> Wrap(observer.write - read)]
  /\ UNCHANGED <<write, read, slots, producer, consumer>>

\* reset(), "only safe when neither thread is running".
Reset ==
  /\ producer.pc = "idle" /\ consumer.pc = "idle" /\ observer.pc = "idle"
  /\ write' = 0
  /\ read' = 0
  /\ producer' = [producer EXCEPT !.seen = 0]
  /\ consumer' = [consumer EXCEPT !.seen = 0]
  /\ UNCHANGED <<slots, observer>>

Runs == UNION {[1 .. n -> Values] : n \in 1 .. MaxCount}

Next ==
  \/ \E items \in Runs : Push(items)
  \/ PushCopy \/ PushStore
  \/ \E count \in 1 .. MaxCount : Pop(count) \/ Discard(count)
  \/ PopCopy \/ PopStore \/ DiscardStore
  \/ SizeLoadWrite \/ SizeLoadRead
  \/ Reset

\* The consumer is polled for ever (the playout callback, the network loop),
\* what the producer stored becomes visible, and a running thread goes on.
Fairness ==
  /\ WF_vars(/\ \E count \in 1 .. MaxCount : Pop(count)
             /\ consumer'.seen = write)
  /\ WF_vars(PopCopy \/ PopStore \/ DiscardStore)

Spec == Init /\ [][Next]_vars

FairSpec == Spec /\ Fairness

-------------------------------------------------------------------------------

\* Indices stay in the word, counts within the capacity, and each thread is
\* where its call can be.
TypeOK ==
  /\ write \in Serials /\ read \in Serials
  /\ slots \in [Slots -> Values]
  /\ producer \in [pc : {"idle", "copy", "store"}, seen : Serials,
                   items : Seq(Values), accepted : 0 .. Capacity,
                   copied : 0 .. Capacity]
  /\ consumer \in [pc : {"idle", "copy", "store", "drop"}, seen : Serials,
                   taken : 0 .. Capacity, copied : Seq(Values),
                   delivered : Seq(Values)]
  /\ observer \in [pc : {"idle", "loaded"}, write : Serials, size : Serials]

\* However stale the index a side works from and however often the indices
\* have wrapped, going round the index space from what the producer last saw
\* of the reader one meets the reader, what the reader last saw of the
\* writer, and the writer, all within one capacity.
IndicesOrdered ==
  LET Ahead(i) == Wrap(i - producer.seen)
  IN  /\ Ahead(read) + consumer.taken <= Ahead(consumer.seen)
      /\ Ahead(consumer.seen) <= Ahead(write)
      /\ Ahead(write) + producer.accepted <= Capacity

\* No slot is written while it may be read: the slots a producer's call will
\* still fill are not among those a consumer's call will still copy.  This is
\* what makes plain, unsynchronised copies of the items correct.
NoRace ==
  \A i \in producer.copied .. producer.accepted - 1,
     j \in Len(consumer.copied) .. consumer.taken - 1 :
       Slot(Wrap(write + i)) # Slot(Wrap(read + j))

Fifo ==
  INSTANCE BoundedFifo WITH
    offered <- producer.items,
    items <- [k \in 1 .. Wrap(write - read) |-> slots[Slot(Wrap(read + k - 1))]],
    delivered <- consumer.delivered

\* The ring is a bounded first-in first-out queue whose bulk calls are atomic.
ImplementsFifo == Fifo!Spec

\* A consumer that keeps polling gets what the ring holds, however late the
\* producer's stores become visible and however often the ring was full.
ConsumerServed == Fifo!Fairness

\* size() is "approximate while both threads are running" and at most the
\* capacity: it is shown to the user as a number of buffered samples
\* (audio_engine.cpp:306).
SizeWithinCapacity == observer.size <= Capacity
===============================================================================
