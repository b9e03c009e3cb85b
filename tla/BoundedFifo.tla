----------------------------- MODULE BoundedFifo -----------------------------
(***************************************************************************)
(* What a ring between two threads promises: a bounded queue into which    *)
(* runs of items are put whole, and from whose head runs are taken whole.  *)
(* SpscRing is shown to implement it.                                      *)
(***************************************************************************)
EXTENDS Naturals, Sequences

CONSTANTS Capacity, Values, MaxCount

VARIABLES
  offered,   \* the run the producer is putting in, if any
  items,     \* what is in the queue, oldest first
  delivered  \* what the last take returned

vars == <<offered, items, delivered>>

Init ==
  /\ offered = <<>>
  /\ items = <<>>
  /\ delivered = <<>>

\* The producer asks for a run to be put in.  A call that finds no room is
\* refused and never gets here.
Offer(n) ==
  /\ offered = <<>>
  /\ offered' \in [1 .. n -> Values]
  /\ UNCHANGED <<items, delivered>>

\* The first n items of the run go in at once, and only if they fit.
Put(n) ==
  /\ n <= Len(offered)
  /\ Len(items) + n <= Capacity
  /\ items' = items \o SubSeq(offered, 1, n)
  /\ offered' = <<>>
  /\ UNCHANGED delivered

\* The n oldest items come out, in the order they went in.
Take(n) ==
  /\ n <= Len(items)
  /\ delivered' = SubSeq(items, 1, n)
  /\ items' = SubSeq(items, n + 1, Len(items))
  /\ UNCHANGED offered

\* The n oldest items are thrown away.
Drop(n) ==
  /\ n <= Len(items)
  /\ items' = SubSeq(items, n + 1, Len(items))
  /\ UNCHANGED <<offered, delivered>>

Clear ==
  /\ items' = <<>>
  /\ UNCHANGED <<offered, delivered>>

Next ==
  \/ \E n \in 1 .. MaxCount : Offer(n)
  \/ \E n \in 1 .. Capacity : Put(n) \/ Take(n) \/ Drop(n)
  \/ Clear

\* A consumer that keeps asking is eventually given what is there.
Fairness == WF_vars(\E n \in 1 .. Capacity : Take(n) \/ Drop(n))

Spec == Init /\ [][Next]_vars
===============================================================================
