------------------------------ MODULE BenchProofs ------------------------------
(***************************************************************************)
(* Proofs about the relay and `radiobench ping`, for every scenario, queue *)
(* capacity, timeout, offset of the clocks and number of probes.           *)
(*                                                                         *)
(* The books of the relay balance only because it never holds a packet it  *)
(* has nowhere to send: such a packet would leave its slot uncounted.  A   *)
(* packet from the responder is a reply to one from the client, so the     *)
(* client is known by then.  A round trip is of one exchange only because  *)
(* every PING and PONG, in a socket or a slot, goes back to the probe of   *)
(* its id.                                                                 *)
(***************************************************************************)
EXTENDS Bench, FiniteSetTheorems, SequenceTheorems, WellFoundedInduction, TLAPS

\* The fields of the relay and the tool that the argument is about.
RelayFields ==
  {"phase", "slots", "client", "engine", "log", "forwarded", "emitted", "full",
   "refused", "discarded", "began", "wake"}

ToolFields ==
  {"kind", "pacer", "count", "sent", "done", "waiting", "t1", "settled", "sample"}

\* What the three processes send.
Audios ==
  [size : Nat, version : {Version}, type : {"Audio"}, flags : SUBSET MediaFlags,
   fields : [sequence : Serials, timestamp : Serials]]

Pings ==
  [size : Nat, version : {Version}, type : {"Ping"}, flags : {{}},
   fields : [id : Nat, t3 : Int]]

Pongs ==
  [size : Nat, version : {Version}, type : {"Pong"}, flags : {{}},
   fields : [id : Nat, t1 : Int, t2 : Int, t3 : Int]]

Datagrams == Audios \cup Pings \cup Pongs

\* A probe or a reply has an id already used; of the last one used, it carries the
\* time at which the tool sent that probe.
Tied(t, d) ==
  /\ d.type = "Ping" => /\ d.fields.id <= t.count
                        /\ d.fields.id = t.count => d.fields.t3 = t.t1
  /\ d.type = "Pong" => /\ d.fields.id <= t.count
                        /\ d.fields.id = t.count => d.fields.t1 = t.t1

Own(t) == {d \in Datagrams : Tied(t, d)}

HeldOf(r) == {i \in SlotIndices : r.slots[i].held}

RelayShape(r) ==
  /\ RelayFields \subseteq DOMAIN r
  /\ r.client \in BOOLEAN
  /\ {r.forwarded, r.emitted, r.full, r.refused, r.discarded} \subseteq Nat
  /\ DOMAIN r.slots = SlotIndices
  /\ \A i \in SlotIndices : r.slots[i].held \in BOOLEAN

ToolShape(t) ==
  /\ ToolFields \subseteq DOMAIN t
  /\ {t.count, t.sent, t.settled} \subseteq Nat
  /\ t.t1 \in Int
  /\ t.waiting \in BOOLEAN

\* What the slots hold is from D.
Carries(r, D) == \A i \in HeldOf(r) : r.slots[i].datagram \in D

\* What became of the packets forwarded.
Settled(r) ==
  r.emitted + r.refused + r.full + Cardinality(HeldOf(r)) + r.discarded

\* The client is known before anything is held or can come from the responder.
Acquainted ==
  ~relay.client => /\ HeldOf(relay) = {}
                   /\ inbox["responder"] = <<>>
                   /\ inbox["upstream"] = <<>>

\* The tool's own account of its probes.
Honest(t) ==
  /\ t.sample.rtt = t.sample.true
  /\ t.kind = "ping" => t.sent = t.settled + (IF t.waiting THEN 1 ELSE 0)

Inv ==
  /\ now \in Nat
  /\ ToolShape(tool)
  /\ Honest(tool)
  /\ RelayShape(relay)
  /\ relay.forwarded = Settled(relay)
  /\ relay.phase # "done" => relay.discarded = 0
  /\ Carries(relay, Own(tool))
  /\ inbox \in [Sockets -> Seq(Own(tool))]
  /\ Acquainted

-------------------------------------------------------------------------------
(* Slots *)

\* A nonempty set of natural numbers has a least element.
LEMMA LeastMember ==
  ASSUME NEW S \in SUBSET Nat, S # {}
  PROVE  Min(S) \in S
<1>1. PICK x \in S : \A y \in S : <<y, x>> \notin OpToRel(<, Nat)
  BY WFMin, NatLessThanWellFounded, Zenon
<1>2. \A y \in S : ~ (y < x)
  BY <1>1, Zenon DEF OpToRel
<1>3. \A y \in S : x <= y
  BY <1>2
<1> QED
  BY <1>3, Zenon DEF Min

\* There are finitely many slots.
LEMMA SlotSets ==
  ASSUME NEW S \in SUBSET SlotIndices
  PROVE  /\ S \subseteq Nat
         /\ IsFiniteSet(S)
         /\ Cardinality(S) \in Nat
<1>1. QueueCapacity \in Nat
  BY BenchAssumption
<1>2. IsFiniteSet(SlotIndices)
  BY <1>1, FS_Interval DEF SlotIndices
<1>3. IsFiniteSet(S) /\ Cardinality(S) \in Nat
  BY <1>2, FS_Subset, FS_CardinalityType
<1> QED
  BY <1>1, <1>3 DEF SlotIndices

\* One more packet is accounted for.
Queues(r, q, D) ==
  /\ RelayShape(q)
  /\ Carries(q, D)
  /\ q.forwarded = r.forwarded
  /\ Settled(q) = Settled(r) + 1
  /\ q.phase = r.phase
  /\ q.client = r.client
  /\ q.discarded = r.discarded

\* A packet that is queued takes a free slot or is counted as refused by a full
\* queue (enqueue(), impair/main.cpp:302-317).
LEMMA EnqueueSound ==
  ASSUME NEW r, RelayShape(r), NEW D, Carries(r, D), NEW d \in D,
         NEW socket, NEW release
  PROVE  Queues(r, Enqueue(r, socket, d, release), D)
<1> DEFINE free == {i \in SlotIndices : ~r.slots[i].held}
           q    == Enqueue(r, socket, d, release)
<1>1. Cardinality(HeldOf(r)) \in Nat /\ IsFiniteSet(HeldOf(r))
  BY SlotSets DEF HeldOf
<1>2. CASE free = {}
  <2>1. q = [r EXCEPT !.full = @ + 1]
    BY <1>2 DEF Enqueue
  <2> HIDE DEF q
  <2>2. /\ q.slots = r.slots /\ q.full = r.full + 1 /\ q.forwarded = r.forwarded
        /\ q.emitted = r.emitted /\ q.refused = r.refused
        /\ q.discarded = r.discarded /\ q.phase = r.phase /\ q.client = r.client
        /\ RelayFields \subseteq DOMAIN q
    BY <2>1 DEF RelayShape, RelayFields
  <2>3. HeldOf(q) = HeldOf(r)
    BY <2>2 DEF HeldOf
  <2>4. RelayShape(q)
    BY <2>2 DEF RelayShape
  <2>5. Carries(q, D)
    BY <2>2, <2>3 DEF Carries
  <2>6. Settled(q) = Settled(r) + 1
    BY <1>1, <2>2, <2>3 DEF Settled, RelayShape
  <2>7. Queues(r, q, D)
    BY <2>2, <2>4, <2>5, <2>6 DEF Queues
  <2> QED
    BY <2>7 DEF q
<1>3. CASE free # {}
  <2> DEFINE m == Min(free)
             e == [held |-> TRUE, release |-> release, from |-> socket,
                   datagram |-> d]
  <2>1. q = [r EXCEPT !.slots[m] = e]
    BY <1>3 DEF Enqueue
  <2>2. m \in free
    <3>1. free \in SUBSET Nat
      BY SlotSets
    <3> QED
      BY <1>3, <3>1, LeastMember
  <2>3. e.held = TRUE /\ e.datagram = d
    OBVIOUS
  <2>4. m \in SlotIndices /\ m \notin HeldOf(r)
    BY <2>2 DEF HeldOf
  <2> HIDE DEF q, m, e, free
  <2>5. /\ q.slots = [r.slots EXCEPT ![m] = e] /\ q.full = r.full
        /\ q.forwarded = r.forwarded /\ q.emitted = r.emitted
        /\ q.refused = r.refused /\ q.discarded = r.discarded
        /\ q.phase = r.phase /\ q.client = r.client
        /\ RelayFields \subseteq DOMAIN q
    BY <2>1 DEF RelayShape, RelayFields
  <2>6. DOMAIN q.slots = SlotIndices
    BY <2>5 DEF RelayShape
  <2>7. ASSUME NEW i \in SlotIndices
        PROVE  q.slots[i] = IF i = m THEN e ELSE r.slots[i]
    BY <2>5, <2>7 DEF RelayShape
  <2>8. RelayShape(q)
    BY <2>3, <2>5, <2>6, <2>7 DEF RelayShape
  <2>9. HeldOf(q) = HeldOf(r) \cup {m}
    BY <2>3, <2>4, <2>7 DEF HeldOf
  <2>10. Carries(q, D)
    BY <2>3, <2>7, <2>9, <2>4 DEF Carries, HeldOf
  <2>11. Cardinality(HeldOf(q)) = Cardinality(HeldOf(r)) + 1
    BY <1>1, <2>4, <2>9, FS_AddElement
  <2>12. Settled(q) = Settled(r) + 1
    BY <1>1, <2>5, <2>11 DEF Settled, RelayShape
  <2>13. Queues(r, q, D)
    BY <2>5, <2>8, <2>10, <2>12 DEF Queues
  <2> QED
    BY <2>13 DEF q
<1> QED
  BY <1>2, <1>3

\* The relay goes on, holding what is from D, and its books balance if they did.
Continues(r, q, D) ==
  /\ RelayShape(q)
  /\ Carries(q, D)
  /\ r.forwarded = Settled(r) => q.forwarded = Settled(q)
  /\ q.phase = r.phase
  /\ q.client = r.client
  /\ q.discarded = r.discarded

\* A packet is counted as forwarded and queued.
LEMMA ForwardSound ==
  ASSUME NEW r, RelayShape(r), NEW D, Carries(r, D), NEW d \in D,
         NEW socket, NEW release
  PROVE  Continues(r, Enqueue([r EXCEPT !.forwarded = @ + 1], socket, d, release), D)
<1> DEFINE c == [r EXCEPT !.forwarded = @ + 1]
           q == Enqueue(c, socket, d, release)
<1>1. /\ c.slots = r.slots /\ c.full = r.full /\ c.forwarded = r.forwarded + 1
      /\ c.emitted = r.emitted /\ c.refused = r.refused
      /\ c.discarded = r.discarded /\ c.phase = r.phase /\ c.client = r.client
      /\ RelayFields \subseteq DOMAIN c
  BY DEF RelayShape, RelayFields
<1> HIDE DEF c
<1>2. RelayShape(c)
  BY <1>1 DEF RelayShape
<1>3. HeldOf(c) = HeldOf(r)
  BY <1>1 DEF HeldOf
<1>4. Carries(c, D)
  BY <1>1, <1>3 DEF Carries
<1>5. Settled(c) = Settled(r)
  BY <1>1, <1>3 DEF Settled
<1>6. Queues(c, q, D)
  BY <1>2, <1>4, EnqueueSound
<1> HIDE DEF q
<1>7. Continues(r, q, D)
  BY <1>1, <1>5, <1>6 DEF Queues, Continues
<1> QED
  BY <1>7 DEF q, c

\* One datagram from the tool or the responder: dropped or queued, perhaps twice,
\* and logged; a datagram from the tool makes the client known
\* (impair/main.cpp:362-412).
LEMMA HandledSound ==
  ASSUME RelayShape(relay), NEW D, Carries(relay, D), NEW d \in D,
         NEW socket, NEW decision
  PROVE  LET q == Handled(socket, d, decision)
         IN  /\ RelayShape(q)
             /\ Carries(q, D)
             /\ relay.forwarded = Settled(relay) => q.forwarded = Settled(q)
             /\ q.phase = relay.phase
             /\ q.client = (relay.client \/ socket = "listen")
             /\ q.discarded = relay.discarded
<1> DEFINE client  == relay.client \/ socket = "listen"
           counted == [relay EXCEPT !.engine[socket] = decision.engine,
                                    !.client = client]
           first   == IF decision.verdict # "Forward" THEN counted
                      ELSE Enqueue([counted EXCEPT !.forwarded = @ + 1], socket,
                                   d, now + decision.delay)
           queued  == first.full = relay.full
           both    == IF decision.copies = {} THEN first
                      ELSE Enqueue([first EXCEPT !.forwarded = @ + 1], socket,
                                   d, now + CHOOSE x \in decision.copies : TRUE)
           row     == [from |-> socket, arrival |-> now, datagram |-> d,
                       passed |-> decision.verdict = "Forward",
                       verdict |-> LoggedVerdict(decision, queued)]
           q       == [both EXCEPT !.log = Append(@, row)]
<1>1. Handled(socket, d, decision) = q
  BY DEF Handled
<1>2. client \in BOOLEAN
  BY DEF RelayShape
<1> HIDE DEF client
<1>3. /\ counted.slots = relay.slots /\ counted.full = relay.full
      /\ counted.forwarded = relay.forwarded /\ counted.emitted = relay.emitted
      /\ counted.refused = relay.refused /\ counted.discarded = relay.discarded
      /\ counted.phase = relay.phase /\ counted.client = client
      /\ RelayFields \subseteq DOMAIN counted
  BY DEF RelayShape, RelayFields
<1> HIDE DEF counted
<1>4. RelayShape(counted)
  BY <1>2, <1>3 DEF RelayShape
<1>5. HeldOf(counted) = HeldOf(relay)
  BY <1>3 DEF HeldOf
<1>6. Carries(counted, D) /\ Settled(counted) = Settled(relay)
  BY <1>3, <1>5 DEF Carries, Settled
<1>7. Continues(counted, counted, D)
  BY <1>4, <1>6 DEF Continues
<1>8. Continues(counted, first, D)
  BY <1>4, <1>6, <1>7, ForwardSound
<1> HIDE DEF first
<1>9. RelayShape(first) /\ Carries(first, D)
  BY <1>8 DEF Continues
<1>10. Continues(first, both, D)
  <2>1. Continues(first, first, D)
    BY <1>9 DEF Continues
  <2> QED
    BY <1>9, <2>1, ForwardSound
<1> HIDE DEF both, row
<1>11. /\ q.slots = both.slots /\ q.full = both.full
       /\ q.forwarded = both.forwarded /\ q.emitted = both.emitted
       /\ q.refused = both.refused /\ q.discarded = both.discarded
       /\ q.phase = both.phase /\ q.client = both.client
       /\ RelayFields \subseteq DOMAIN q
  BY <1>10 DEF Continues, RelayShape, RelayFields
<1> HIDE DEF q
<1>12. RelayShape(q)
  BY <1>10, <1>11 DEF Continues, RelayShape
<1>13. HeldOf(q) = HeldOf(both)
  BY <1>11 DEF HeldOf
<1>14. Carries(q, D) /\ Settled(q) = Settled(both)
  BY <1>10, <1>11, <1>13 DEF Continues, Carries, Settled
<1>15. relay.forwarded = Settled(relay) => q.forwarded = Settled(q)
  BY <1>3, <1>6, <1>8, <1>10, <1>11, <1>14 DEF Continues
<1>16. /\ q.phase = relay.phase
       /\ q.client = client
       /\ q.discarded = relay.discarded
  BY <1>3, <1>8, <1>10, <1>11 DEF Continues
<1> QED
  BY <1>1, <1>12, <1>14, <1>15, <1>16 DEF client

\* The walk empties the slots that are due and counts each as sent or refused,
\* since all of them have somewhere to go (impair/main.cpp:326-347).
LEMMA ReleasedSound ==
  ASSUME RelayShape(relay), NEW D, Carries(relay, D),
         NEW refused \in SUBSET DueSlots, HeldOf(relay) # {} => relay.client
  PROVE  /\ Continues(relay, Released(refused), D)
         /\ HeldOf(Released(refused)) = HeldOf(relay) \ DueSlots
<1> DEFINE slots   == [i \in SlotIndices |->
                         IF i \in DueSlots THEN Empty ELSE relay.slots[i]]
           sent    == {i \in DueSlots \ refused : HasTarget(i)}
           failed  == {i \in refused : HasTarget(i)}
           emitted == Cardinality(sent)
           errors  == Cardinality(failed)
           q       == [relay EXCEPT !.slots = slots, !.emitted = @ + emitted,
                                    !.refused = @ + errors]
<1>1. Released(refused) = q
  BY DEF Released
<1>2. DueSlots \subseteq HeldOf(relay) /\ HeldOf(relay) \subseteq SlotIndices
  BY DEF DueSlots, Held, HeldOf
<1>3. \A i \in DueSlots : HasTarget(i)
  BY <1>2 DEF HasTarget
<1>4. sent = DueSlots \ refused /\ failed = refused
  BY <1>3
<1>5. emitted \in Nat /\ errors \in Nat
  BY <1>2, SlotSets
<1>6. emitted + errors = Cardinality(DueSlots)
  <2>1. IsFiniteSet(DueSlots)
    BY <1>2, SlotSets
  <2>2. Cardinality(DueSlots \ refused)
          = Cardinality(DueSlots) - Cardinality(DueSlots \cap refused)
    BY <2>1, FS_Difference
  <2>3. DueSlots \cap refused = refused
    OBVIOUS
  <2>4. Cardinality(DueSlots) \in Nat /\ Cardinality(refused) \in Nat
    BY <1>2, SlotSets
  <2>5. emitted = Cardinality(DueSlots \ refused) /\ errors = Cardinality(refused)
    BY <1>4
  <2> HIDE DEF emitted, errors
  <2>6. Cardinality(DueSlots \ refused) = Cardinality(DueSlots) - Cardinality(refused)
    BY <2>2, <2>3
  <2> QED
    BY <2>4, <2>5, <2>6
<1>7. /\ DOMAIN slots = SlotIndices
      /\ \A i \in SlotIndices :
           slots[i] = IF i \in DueSlots THEN Empty ELSE relay.slots[i]
  OBVIOUS
<1> HIDE DEF slots, sent, failed, emitted, errors
<1>8. /\ q.slots = slots /\ q.full = relay.full
      /\ q.forwarded = relay.forwarded /\ q.emitted = relay.emitted + emitted
      /\ q.refused = relay.refused + errors /\ q.discarded = relay.discarded
      /\ q.phase = relay.phase /\ q.client = relay.client
      /\ RelayFields \subseteq DOMAIN q
  BY DEF RelayShape, RelayFields
<1> HIDE DEF q
<1>9. RelayShape(q)
  <2>1. ASSUME NEW i \in SlotIndices PROVE q.slots[i].held \in BOOLEAN
    <3>1. Empty.held = FALSE
      BY DEF Empty
    <3>2. relay.slots[i].held \in BOOLEAN
      BY DEF RelayShape
    <3> QED
      BY <1>7, <1>8, <3>1, <3>2
  <2>2. {q.forwarded, q.emitted, q.full, q.refused, q.discarded} \subseteq Nat
    BY <1>5, <1>8 DEF RelayShape
  <2>3. q.client \in BOOLEAN
    BY <1>8 DEF RelayShape
  <2> QED
    BY <1>7, <1>8, <2>1, <2>2, <2>3 DEF RelayShape
<1>10. HeldOf(q) = HeldOf(relay) \ DueSlots
  BY <1>7, <1>8 DEF HeldOf, Empty
<1>11. Carries(q, D)
  BY <1>2, <1>7, <1>8, <1>10 DEF Carries
<1>12. Cardinality(HeldOf(q)) + emitted + errors = Cardinality(HeldOf(relay))
  <2>1. IsFiniteSet(HeldOf(relay)) /\ Cardinality(HeldOf(relay)) \in Nat
    BY <1>2, SlotSets
  <2>2. Cardinality(HeldOf(relay) \ DueSlots)
          = Cardinality(HeldOf(relay)) - Cardinality(HeldOf(relay) \cap DueSlots)
    BY <2>1, FS_Difference
  <2>3. HeldOf(relay) \cap DueSlots = DueSlots
    BY <1>2
  <2>4. Cardinality(DueSlots) \in Nat
    BY <1>2, SlotSets
  <2>5. Cardinality(HeldOf(q))
          = Cardinality(HeldOf(relay)) - Cardinality(DueSlots)
    BY <1>10, <2>2, <2>3
  <2> QED
    BY <1>5, <1>6, <2>1, <2>4, <2>5
<1>13. Settled(q) = Settled(relay)
  <2>1. Cardinality(HeldOf(q)) \in Nat /\ Cardinality(HeldOf(relay)) \in Nat
    BY SlotSets DEF HeldOf
  <2> QED
    BY <1>5, <1>8, <1>12, <2>1 DEF Settled, RelayShape
<1>14. Continues(relay, q, D)
  BY <1>8, <1>9, <1>11, <1>13 DEF Continues
<1> QED
  BY <1>1, <1>10, <1>14

\* The end of a pass of the drain: what is given up is counted
\* (impair/main.cpp:455-478).
LEMMA DrainedSound ==
  ASSUME NEW r, RelayShape(r), NEW D, Carries(r, D), r.discarded = 0,
         r.forwarded = Settled(r)
  PROVE  LET q == Drained(r)
         IN  /\ RelayShape(q)
             /\ Carries(q, D)
             /\ q.forwarded = Settled(q)
             /\ q.phase # "done" => q.discarded = 0
             /\ q.client = r.client
             /\ HeldOf(q) \subseteq HeldOf(r)
<1> DEFINE Sound(q) == /\ RelayShape(q)
                       /\ Carries(q, D)
                       /\ q.forwarded = Settled(q)
                       /\ q.phase # "done" => q.discarded = 0
                       /\ q.client = r.client
                       /\ HeldOf(q) \subseteq HeldOf(r)
           left  == HeldOf(r)
           given == Cardinality(left)
           wake  == Min({r.slots[i].release : i \in left})
           empty == [i \in SlotIndices |-> Empty]
<1>1. Drained(r) = IF left = {} THEN [r EXCEPT !.phase = "done"]
                   ELSE IF now - r.began > MaxDrain
                   THEN [r EXCEPT !.phase = "done", !.slots = empty,
                                  !.discarded = given]
                   ELSE [r EXCEPT !.wake = wake]
  BY DEF Drained, HeldOf
<1>2. given \in Nat
  BY SlotSets DEF HeldOf
<1>3. DOMAIN empty = SlotIndices /\ \A i \in SlotIndices : empty[i].held = FALSE
  BY DEF Empty
<1> HIDE DEF wake, empty, given
<1>4. Sound([r EXCEPT !.phase = "done"])
  <2> DEFINE q == [r EXCEPT !.phase = "done"]
  <2>1. /\ q.slots = r.slots /\ q.full = r.full /\ q.forwarded = r.forwarded
        /\ q.emitted = r.emitted /\ q.refused = r.refused
        /\ q.discarded = r.discarded /\ q.phase = "done" /\ q.client = r.client
        /\ RelayFields \subseteq DOMAIN q
    BY DEF RelayShape, RelayFields
  <2> HIDE DEF q
  <2>2. RelayShape(q) /\ HeldOf(q) = HeldOf(r)
    BY <2>1 DEF RelayShape, HeldOf
  <2>3. Sound(q)
    BY <2>1, <2>2 DEF Carries, Settled
  <2> QED
    BY <2>3 DEF q
<1>5. Sound([r EXCEPT !.wake = wake])
  <2> DEFINE q == [r EXCEPT !.wake = wake]
  <2>1. /\ q.slots = r.slots /\ q.full = r.full /\ q.forwarded = r.forwarded
        /\ q.emitted = r.emitted /\ q.refused = r.refused
        /\ q.discarded = r.discarded /\ q.phase = r.phase /\ q.client = r.client
        /\ RelayFields \subseteq DOMAIN q
    BY DEF RelayShape, RelayFields
  <2> HIDE DEF q
  <2>2. RelayShape(q) /\ HeldOf(q) = HeldOf(r)
    BY <2>1 DEF RelayShape, HeldOf
  <2>3. Sound(q)
    BY <2>1, <2>2 DEF Carries, Settled
  <2> QED
    BY <2>3 DEF q
<1>6. Sound([r EXCEPT !.phase = "done", !.slots = empty, !.discarded = given])
  <2> DEFINE q == [r EXCEPT !.phase = "done", !.slots = empty, !.discarded = given]
  <2>1. /\ q.slots = empty /\ q.full = r.full /\ q.forwarded = r.forwarded
        /\ q.emitted = r.emitted /\ q.refused = r.refused
        /\ q.discarded = given /\ q.phase = "done" /\ q.client = r.client
        /\ RelayFields \subseteq DOMAIN q
    BY DEF RelayShape, RelayFields
  <2> HIDE DEF q
  <2>2. RelayShape(q)
    BY <1>2, <1>3, <2>1 DEF RelayShape
  <2>3. HeldOf(q) = {}
    BY <1>3, <2>1 DEF HeldOf
  <2>4. Cardinality(HeldOf(q)) = 0
    BY <2>3, FS_EmptySet
  <2>5. Settled(q) = Settled(r)
    BY <1>2, <2>1, <2>4 DEF Settled, RelayShape, given
  <2>6. Sound(q)
    BY <2>1, <2>2, <2>3, <2>5 DEF Carries
  <2> QED
    BY <2>6 DEF q
<1>7. Sound(Drained(r))
  <2> HIDE DEF Sound, left
  <2> QED
    BY <1>1, <1>4, <1>5, <1>6
<1> QED
  BY <1>7

-------------------------------------------------------------------------------
(* Datagrams and sockets *)

\* A sequence over a set is one over any larger set.
LEMMA Widened ==
  ASSUME NEW S, NEW T, S \subseteq T, NEW b \in [Sockets -> Seq(S)]
  PROVE  b \in [Sockets -> Seq(T)]
<1>1. ASSUME NEW s \in Sockets PROVE b[s] \in Seq(T)
  BY <1>1, SeqDef
<1> QED
  BY <1>1

\* What is sent waits at the end of one socket.
LEMMA PutSound ==
  ASSUME NEW S, NEW b \in [Sockets -> Seq(S)], NEW s \in Sockets, NEW d \in S,
         NEW ok
  PROVE  /\ Put(b, s, d, ok) \in [Sockets -> Seq(S)]
         /\ \A o \in Sockets : o # s => Put(b, s, d, ok)[o] = b[o]
<1>1. b[s] \in Seq(S) /\ SendTo(b[s], d, ok) \in Seq(S)
  BY DEF SendTo
<1> QED
  BY <1>1 DEF Put

\* The sockets between the tool and the relay may change, the others not.
Outer(b, c, S) ==
  /\ c \in [Sockets -> Seq(S)]
  /\ c["responder"] = b["responder"]
  /\ c["upstream"] = b["upstream"]

\* What the tool sends goes to the relay.
LEMMA ListenSound ==
  ASSUME NEW S, NEW b \in [Sockets -> Seq(S)], NEW d \in S, NEW ok
  PROVE  Outer(b, Put(b, "listen", d, ok), S)
<1> DEFINE c == Put(b, "listen", d, ok)
<1>1. {"listen", "responder", "upstream"} \subseteq Sockets
  BY DEF Sockets
<1>2. c \in [Sockets -> Seq(S)] /\ \A o \in Sockets : o # "listen" => c[o] = b[o]
  BY <1>1, PutSound
<1> HIDE DEF c
<1>3. c["responder"] = b["responder"] /\ c["upstream"] = b["upstream"]
  BY <1>1, <1>2
<1>4. Outer(b, c, S)
  BY <1>2, <1>3 DEF Outer
<1> QED
  BY <1>4 DEF c

\* A datagram taken out of a socket is one that was put there, cut at most.
LEMMA TakenSound ==
  ASSUME NEW b \in [Sockets -> Seq(Own(tool))], NEW s \in Sockets, Readable(b[s])
  PROVE  /\ RecvFrom(Head(b[s])) \in Own(tool)
         /\ [b EXCEPT ![s] = Tail(@)] \in [Sockets -> Seq(Own(tool))]
<1> DEFINE d == Head(b[s])
           n == IF d.size > MaxDatagram THEN MaxDatagram ELSE d.size
           e == RecvFrom(d)
<1>1. d \in Own(tool) /\ Tail(b[s]) \in Seq(Own(tool))
  <2>1. b[s] \in Seq(Own(tool)) /\ b[s] # <<>>
    BY DEF Readable
  <2> QED
    BY <2>1
<1> HIDE DEF d
<1>2. e = [d EXCEPT !.size = n]
  BY DEF RecvFrom
<1>3. d \in Datagrams /\ Tied(tool, d)
  BY <1>1 DEF Own
<1>4. n \in Nat
  BY <1>3, WireAssumption DEF Datagrams, Audios, Pings, Pongs
<1> HIDE DEF n, e
<1>5. e \in Datagrams /\ e.type = d.type /\ e.fields = d.fields
  <2>1. CASE d \in Audios
    BY <1>2, <1>4, <2>1 DEF Datagrams, Audios
  <2>2. CASE d \in Pings
    BY <1>2, <1>4, <2>2 DEF Datagrams, Pings
  <2>3. CASE d \in Pongs
    BY <1>2, <1>4, <2>3 DEF Datagrams, Pongs
  <2> QED
    BY <1>3, <2>1, <2>2, <2>3 DEF Datagrams
<1>6. e \in Own(tool)
  BY <1>3, <1>5 DEF Own, Tied
<1>7. [b EXCEPT ![s] = Tail(@)] \in [Sockets -> Seq(Own(tool))]
  BY <1>1
<1> QED
  BY <1>6, <1>7 DEF e, d

\* A media packet is no probe (mode_send.cpp:141-174).
LEMMA MediaOwn ==
  ASSUME ToolShape(tool), NEW flags \in SUBSET MediaFlags, NEW t
  PROVE  MediaOf(flags) \in Own(t)
<1> DEFINE f == [sequence |-> Wrap(FirstSequence + tool.count),
                 timestamp |-> Wrap(FirstTimestamp + Interval * tool.count)]
           d == [size |-> HeaderSize + 1, version |-> Version, type |-> "Audio",
                 flags |-> flags, fields |-> f]
<1>1. MediaOf(flags) = d
  BY WireAssumption DEF MediaOf, EncodeMedia, HeaderSize, PongBodySize
<1>2. tool.count \in Nat /\ FirstSequence \in Int /\ FirstTimestamp \in Int
      /\ Interval \in Nat
  BY BenchAssumption, PacerAssumption, HalfAssumption
  DEF ToolShape, Serials, Modulus
<1>3. \A n \in Int : Wrap(n) \in Serials
  BY HalfAssumption DEF Wrap, Serials, Modulus
<1>4. f \in [sequence : Serials, timestamp : Serials]
  <2>1. FirstSequence + tool.count \in Int
    BY <1>2
  <2>2. FirstTimestamp + Interval * tool.count \in Int
    BY <1>2
  <2> QED
    BY <1>3, <2>1, <2>2
<1> HIDE DEF f
<1>5. d \in Audios
  BY <1>4 DEF Audios, HeaderSize
<1>6. Tied(t, d)
  BY DEF Tied
<1> QED
  BY <1>1, <1>5, <1>6 DEF Own, Datagrams

\* A PING carries the id and the time of the probe (mode_ping.cpp:180-200).
LEMMA PingOwn ==
  ASSUME NEW n \in Nat, NEW time \in Nat, NEW t, t.count = n, t.t1 = time
  PROVE  EncodeControl("Ping", [id |-> n, t3 |-> time], 0) \in Own(t)
<1> DEFINE f == [id |-> n, t3 |-> time]
           d == [size |-> HeaderSize + 0, version |-> Version, type |-> "Ping",
                 flags |-> {}, fields |-> f]
<1>1. EncodeControl("Ping", f, 0) = d
  BY WireAssumption DEF EncodeControl, HeaderSize, PongBodySize
<1>2. f \in [id : Nat, t3 : Int] /\ f.id = n /\ f.t3 = time
  OBVIOUS
<1> HIDE DEF f
<1>3. d \in Pings /\ d.type = "Ping" /\ d.fields = f
  BY <1>2 DEF Pings, HeaderSize
<1>4. Tied(t, d)
  BY <1>2, <1>3 DEF Tied
<1>5. d \in Own(t)
  BY <1>3, <1>4 DEF Own, Datagrams
<1> QED
  BY <1>1, <1>5 DEF f

\* A PONG echoes the id and the time of its PING (encode_pong_for,
\* prober.cpp:142-158).
LEMMA PongOwn ==
  ASSUME NEW d \in Own(tool), d.type = "Ping", now \in Nat
  PROVE  PongFor(d) \in Own(tool)
<1> DEFINE f == [id |-> d.fields.id, t1 |-> d.fields.t3,
                 t2 |-> now + Offset, t3 |-> now + Offset]
           e == [size |-> HeaderSize + PongBodySize, version |-> Version,
                 type |-> "Pong", flags |-> {}, fields |-> f]
<1>1. PongFor(d) = e
  BY WireAssumption DEF PongFor, EncodeControl, HeaderSize, PongBodySize
<1>2. d \in Pings /\ Tied(tool, d)
  BY DEF Own, Datagrams, Audios, Pings, Pongs
<1>3. d.fields.id \in Nat /\ d.fields.t3 \in Int /\ now + Offset \in Int
  BY <1>2, BenchAssumption DEF Pings
<1>4. /\ f \in [id : Nat, t1 : Int, t2 : Int, t3 : Int]
      /\ f.id = d.fields.id /\ f.t1 = d.fields.t3
  BY <1>3
<1> HIDE DEF f
<1>5. e \in Pongs /\ e.type = "Pong" /\ e.fields = f
  BY <1>4 DEF Pongs, HeaderSize, PongBodySize
<1>6. Tied(tool, e)
  BY <1>2, <1>4, <1>5 DEF Tied
<1> QED
  BY <1>1, <1>5, <1>6 DEF Own, Datagrams

\* What the walk sends comes from the slots.
LEMMA CarriedSound ==
  ASSUME NEW D, Carries(relay, D), NEW indices \in SUBSET HeldOf(relay),
         NEW order \in Walks(indices)
  PROVE  Carried(order) \in Seq(D)
<1>1. Cardinality(indices) \in Nat
  BY SlotSets DEF HeldOf
<1>2. order \in [1 .. Cardinality(indices) -> indices]
  BY DEF Walks
<1>3. \A k \in 1 .. Cardinality(indices) : relay.slots[order[k]].datagram \in D
  BY <1>2 DEF Carries
<1> QED
  BY <1>1, <1>2, <1>3, SeqDef DEF Carried

\* The walk adds to two sockets, and to neither before the client is known.
LEMMA EmitSound ==
  ASSUME Inv, NEW refused \in SUBSET DueSlots, Emit(refused)
  PROVE  /\ inbox' \in [Sockets -> Seq(Own(tool))]
         /\ ~relay.client => /\ inbox'["responder"] = <<>>
                             /\ inbox'["upstream"] = <<>>
<1> DEFINE D == Own(tool)
<1>1. PICK there \in Walks(Leaving(refused, "responder")),
           back \in Walks(Leaving(refused, "tool")) :
        inbox' = [inbox EXCEPT !["responder"] = @ \o Carried(there),
                               !["tool"] = @ \o Carried(back)]
  BY DEF Emit
<1>2. inbox \in [Sockets -> Seq(D)] /\ Carries(relay, D)
  BY DEF Inv
<1> HIDE DEF D
<1>3. /\ Leaving(refused, "responder") \in SUBSET HeldOf(relay)
      /\ Leaving(refused, "tool") \in SUBSET HeldOf(relay)
  BY DEF Leaving, DueSlots, Held, HeldOf
<1>4. Carried(there) \in Seq(D) /\ Carried(back) \in Seq(D)
  BY <1>2, <1>3, CarriedSound
<1>5. {"responder", "tool", "upstream"} \subseteq Sockets
  BY DEF Sockets
<1>6. /\ inbox["responder"] \in Seq(D) /\ inbox["tool"] \in Seq(D)
  BY <1>2, <1>5
<1>7. /\ inbox["responder"] \o Carried(there) \in Seq(D)
      /\ inbox["tool"] \o Carried(back) \in Seq(D)
  BY <1>4, <1>6
<1>8. inbox' \in [Sockets -> Seq(D)]
  BY <1>1, <1>2, <1>7
<1>9. ASSUME ~relay.client
      PROVE  inbox'["responder"] = <<>> /\ inbox'["upstream"] = <<>>
  <2>1. /\ HeldOf(relay) = {} /\ inbox["responder"] = <<>>
        /\ inbox["upstream"] = <<>>
    BY <1>9 DEF Inv, Acquainted
  <2>2. Leaving(refused, "responder") = {}
    BY <1>3, <2>1
  <2>3. there \in [1 .. 0 -> {}]
    BY <2>2, FS_EmptySet DEF Walks
  <2>4. DOMAIN Carried(there) = 1 .. 0
    BY <2>3 DEF Carried
  <2>5. Len(Carried(there)) = 0
    BY <1>4, <2>4, LenProperties
  <2>6. Carried(there) = <<>>
    BY <1>4, <2>5
  <2>7. inbox["responder"] \o Carried(there) = <<>>
    BY <2>1, <2>6
  <2>8. inbox'["responder"] = inbox["responder"] \o Carried(there)
    BY <1>1, <1>2, <1>5
  <2>9. inbox'["upstream"] = inbox["upstream"]
    BY <1>1, <1>2, <1>5
  <2> QED
    BY <2>1, <2>7, <2>8, <2>9
<1> QED
  BY <1>8, <1>9 DEF D

-------------------------------------------------------------------------------
(* The invariant *)

\* The tools and the relay start with nothing sent.
LEMMA InitInv == Init => Inv
<1> SUFFICES ASSUME Init PROVE Inv
  OBVIOUS
<1>1. now \in Nat
  BY DEF Init
<1>2. ToolShape(tool) /\ Honest(tool)
  BY DEF Init, ToolShape, ToolFields, Honest
<1>3. RelayShape(relay)
  <2>1. /\ relay.forwarded = 0 /\ relay.emitted = 0 /\ relay.full = 0
        /\ relay.refused = 0 /\ relay.discarded = 0 /\ relay.client = FALSE
        /\ relay.slots = [i \in SlotIndices |-> Empty]
    BY DEF Init
  <2>2. RelayFields \subseteq DOMAIN relay
    BY DEF Init, RelayFields
  <2>3. Empty.held = FALSE
    BY DEF Empty
  <2>4. DOMAIN relay.slots = SlotIndices
    BY <2>1
  <2>5. ASSUME NEW i \in SlotIndices PROVE relay.slots[i].held \in BOOLEAN
    BY <2>1, <2>3, <2>5
  <2>6. {relay.forwarded, relay.emitted, relay.full, relay.refused,
         relay.discarded} \subseteq Nat
    BY <2>1
  <2> QED
    BY <2>1, <2>2, <2>4, <2>5, <2>6 DEF RelayShape
<1>4. HeldOf(relay) = {}
  BY DEF Init, HeldOf, Empty
<1>5. relay.forwarded = Settled(relay) /\ relay.discarded = 0
  <2>1. /\ relay.forwarded = 0 /\ relay.emitted = 0 /\ relay.full = 0
        /\ relay.refused = 0 /\ relay.discarded = 0
    BY DEF Init
  <2>2. Cardinality(HeldOf(relay)) = 0
    BY <1>4, FS_EmptySet
  <2> QED
    BY <2>1, <2>2 DEF Settled
<1>6. Carries(relay, Own(tool))
  BY <1>4 DEF Carries
<1>7. inbox \in [Sockets -> Seq(Own(tool))]
  BY DEF Init
<1>8. Acquainted
  BY <1>4 DEF Init, Acquainted, Sockets
<1> QED
  BY <1>1, <1>2, <1>3, <1>5, <1>6, <1>7, <1>8 DEF Inv

\* The tool acts: the relay does not notice, what is under way stays tied to its
\* probe, and no socket but the relay's outer one and the tool's own changes.
LEMMA ToolActs ==
  ASSUME Inv, now' = now, relay' = relay,
         ToolShape(tool'), Honest(tool'), Own(tool) \subseteq Own(tool'),
         Outer(inbox, inbox', Own(tool'))
  PROVE  Inv'
<1>1. /\ RelayShape(relay') /\ relay'.forwarded = Settled(relay')
      /\ (relay'.phase # "done" => relay'.discarded = 0)
  BY DEF Inv
<1>2. Carries(relay', Own(tool'))
  BY DEF Inv, Carries
<1>3. Acquainted'
  BY DEF Inv, Acquainted, Outer
<1>4. now' \in Nat
  BY DEF Inv
<1>5. inbox' \in [Sockets -> Seq(Own(tool'))]
  BY DEF Outer
<1> QED
  BY <1>1, <1>2, <1>3, <1>4, <1>5 DEF Inv

\* Using up a number leaves what is under way tied.
LEMMA OwnGrows ==
  ASSUME NEW t, NEW u, t.count \in Nat, u.count \in Nat,
         \/ u.count = t.count + 1
         \/ u.count = t.count /\ u.t1 = t.t1
  PROVE  Own(t) \subseteq Own(u)
<1> SUFFICES ASSUME NEW d \in Datagrams, Tied(t, d) PROVE Tied(u, d)
  BY DEF Own
<1>1. CASE d.type = "Ping"
  <2>1. d.fields.id \in Nat
    BY <1>1 DEF Datagrams, Audios, Pings, Pongs
  <2> QED
    BY <1>1, <2>1 DEF Tied
<1>2. CASE d.type = "Pong"
  <2>1. d.fields.id \in Nat
    BY <1>2 DEF Datagrams, Audios, Pings, Pongs
  <2> QED
    BY <1>2, <2>1 DEF Tied
<1> QED
  BY <1>1, <1>2 DEF Tied

\* run_send(): a packet of the stream.
LEMMA SendMediaStep ==
  ASSUME Inv, NEW ok \in BOOLEAN, SendMedia(ok)
  PROVE  Inv'
<1> DEFINE flags == IF tool.count = 0 THEN {"start"} ELSE {}
           sent  == IF ok THEN tool.sent + 1 ELSE tool.sent
           pacer == AdvancePacer(tool.pacer, now)
<1>1. ToolShape(tool) /\ inbox \in [Sockets -> Seq(Own(tool))]
  BY DEF Inv
<1>2. tool' = [tool EXCEPT !.count = @ + 1, !.sent = sent, !.pacer = pacer]
  BY DEF SendMedia
<1>3. inbox' = Put(inbox, "listen", MediaOf(flags), ok)
  BY DEF SendMedia
<1>4. flags \in SUBSET MediaFlags
  BY DEF MediaFlags
<1>5. sent \in Nat
  BY <1>1 DEF ToolShape
<1>6. tool.kind = "send"
  BY DEF SendMedia
<1> HIDE DEF flags, sent, pacer
<1>7. /\ tool'.count = tool.count + 1 /\ tool'.sent = sent
      /\ tool'.kind = tool.kind /\ tool'.sample = tool.sample
      /\ tool'.settled = tool.settled /\ tool'.waiting = tool.waiting
      /\ tool'.t1 = tool.t1 /\ ToolFields \subseteq DOMAIN tool'
  BY <1>1, <1>2 DEF ToolShape, ToolFields
<1>8. ToolShape(tool')
  BY <1>1, <1>5, <1>7 DEF ToolShape
<1>9. Honest(tool')
  BY <1>6, <1>7 DEF Inv, Honest
<1>10. Own(tool) \subseteq Own(tool')
  BY <1>1, <1>7, <1>8, OwnGrows DEF ToolShape
<1>11. inbox \in [Sockets -> Seq(Own(tool'))]
  BY <1>1, <1>10, Widened
<1>12. MediaOf(flags) \in Own(tool')
  BY <1>1, <1>4, MediaOwn
<1>14. Outer(inbox, inbox', Own(tool'))
  BY <1>3, <1>11, <1>12, ListenSound
<1>15. now' = now /\ relay' = relay
  BY DEF SendMedia
<1> QED
  BY <1>8, <1>9, <1>10, <1>14, <1>15, ToolActs

\* run_send(): the end of the talkspurt.
LEMMA SendEndStep ==
  ASSUME Inv, NEW ok \in BOOLEAN, SendEnd(ok)
  PROVE  Inv'
<1>1. ToolShape(tool) /\ inbox \in [Sockets -> Seq(Own(tool))]
  BY DEF Inv
<1>2. tool' = [tool EXCEPT !.done = TRUE]
  BY DEF SendEnd
<1>3. inbox' = Put(inbox, "listen", MediaOf({"end"}), ok /\ tool.sent # 0)
  BY DEF SendEnd
<1>4. /\ tool'.count = tool.count /\ tool'.sent = tool.sent
      /\ tool'.kind = tool.kind /\ tool'.sample = tool.sample
      /\ tool'.settled = tool.settled /\ tool'.waiting = tool.waiting
      /\ tool'.t1 = tool.t1 /\ ToolFields \subseteq DOMAIN tool'
  BY <1>1, <1>2 DEF ToolShape, ToolFields
<1>5. ToolShape(tool') /\ Honest(tool')
  BY <1>1, <1>4 DEF Inv, ToolShape, Honest
<1>6. Own(tool) \subseteq Own(tool')
  BY <1>1, <1>4, <1>5, OwnGrows DEF ToolShape
<1>7. inbox \in [Sockets -> Seq(Own(tool'))]
  BY <1>1, <1>6, Widened
<1>8. MediaOf({"end"}) \in Own(tool')
  BY <1>1, MediaOwn DEF MediaFlags
<1>10. Outer(inbox, inbox', Own(tool'))
  BY <1>3, <1>7, <1>8, ListenSound
<1>11. now' = now /\ relay' = relay
  BY DEF SendEnd
<1> QED
  BY <1>5, <1>6, <1>10, <1>11, ToolActs

\* run_ping(): a probe under the next id.
LEMMA SendPingStep ==
  ASSUME Inv, NEW ok \in BOOLEAN, SendPing(ok)
  PROVE  Inv'
<1> DEFINE n     == tool.count + 1
           ping  == EncodeControl("Ping", [id |-> n, t3 |-> now], 0)
           sent  == IF ok THEN tool.sent + 1 ELSE tool.sent
           pacer == AdvancePacer(tool.pacer, now)
<1>1. /\ ToolShape(tool) /\ inbox \in [Sockets -> Seq(Own(tool))]
      /\ now \in Nat
  BY DEF Inv
<1>2. tool' = [tool EXCEPT !.count = n, !.t1 = now, !.waiting = ok,
                           !.sent = sent, !.pacer = pacer]
  BY DEF SendPing
<1>3. inbox' = Put(inbox, "listen", ping, ok)
  BY DEF SendPing
<1>4. sent \in Nat /\ n \in Nat
  BY <1>1 DEF ToolShape
<1>5. tool.kind = "ping" /\ ~tool.waiting
  BY DEF SendPing
<1>6. tool.sent = tool.settled
  <2>1. tool.sent = tool.settled + 0
    BY <1>5 DEF Inv, Honest
  <2> QED
    BY <1>1, <2>1 DEF ToolShape
<1>7. sent = tool.settled + (IF ok THEN 1 ELSE 0)
  BY <1>1, <1>6 DEF ToolShape
<1> HIDE DEF n, ping, sent, pacer
<1>8. /\ tool'.count = n /\ tool'.sent = sent
      /\ tool'.kind = tool.kind /\ tool'.sample = tool.sample
      /\ tool'.settled = tool.settled /\ tool'.waiting = ok
      /\ tool'.t1 = now /\ ToolFields \subseteq DOMAIN tool'
  BY <1>1, <1>2 DEF ToolShape, ToolFields
<1>9. ToolShape(tool')
  BY <1>1, <1>4, <1>8 DEF ToolShape
<1>10. Honest(tool')
  BY <1>7, <1>8 DEF Inv, Honest
<1>11. Own(tool) \subseteq Own(tool')
  BY <1>1, <1>4, <1>8, OwnGrows DEF ToolShape, n
<1>12. inbox \in [Sockets -> Seq(Own(tool'))]
  BY <1>1, <1>11, Widened
<1>13. ping \in Own(tool')
  BY <1>1, <1>4, <1>8, PingOwn DEF ping
<1>15. Outer(inbox, inbox', Own(tool'))
  BY <1>3, <1>12, <1>13, ListenSound
<1>16. now' = now /\ relay' = relay
  BY DEF SendPing
<1> QED
  BY <1>9, <1>10, <1>11, <1>15, <1>16, ToolActs

\* run_ping(): a reply. The round trip is that of the probe whose id it has
\* (mode_ping.cpp:227-265).
LEMMA ReceivePongStep ==
  ASSUME Inv, ReceivePong
  PROVE  Inv'
<1> DEFINE d       == RecvFrom(Head(inbox["tool"]))
           f       == d.fields
           settled == [tool EXCEPT !.waiting = FALSE, !.settled = @ + 1]
           rtt     == Measured(tool.t1, f.t2, f.t3, now).rtt
           true    == (f.t2 - Offset - f.t1) + (now - (f.t3 - Offset))
           sample  == [rtt |-> rtt, true |-> true]
<1>1. /\ ToolShape(tool) /\ inbox \in [Sockets -> Seq(Own(tool))]
      /\ now \in Nat /\ tool.waiting /\ Readable(inbox["tool"])
      /\ Honest(tool)
  BY DEF Inv, ReceivePong
<1>2. tool' = IF Answers(d) THEN Matched(f) ELSE tool
  BY DEF ReceivePong
<1>3. inbox' = [inbox EXCEPT !["tool"] = Tail(@)]
  BY DEF ReceivePong
<1>4. {"tool", "responder", "upstream"} \subseteq Sockets
  BY DEF Sockets
<1>5. d \in Own(tool) /\ inbox' \in [Sockets -> Seq(Own(tool))]
  BY <1>1, <1>3, <1>4, TakenSound
<1>6. inbox'["responder"] = inbox["responder"] /\ inbox'["upstream"] = inbox["upstream"]
  BY <1>1, <1>3, <1>4
<1>7. now' = now /\ relay' = relay
  BY DEF ReceivePong
<1> HIDE DEF d
<1>8. CASE ~Answers(d)
  <2>1. tool' = tool
    BY <1>2, <1>8
  <2>2. Outer(inbox, inbox', Own(tool'))
    BY <1>5, <1>6, <2>1 DEF Outer
  <2> QED
    BY <1>1, <1>7, <2>1, <2>2, ToolActs
<1>9. CASE Answers(d)
  <2>1. /\ settled.count = tool.count /\ settled.sent = tool.sent
        /\ settled.kind = tool.kind /\ settled.sample = tool.sample
        /\ settled.settled = tool.settled + 1 /\ settled.waiting = FALSE
        /\ settled.t1 = tool.t1 /\ ToolFields \subseteq DOMAIN settled
    BY <1>1 DEF ToolShape, ToolFields
  <2>2. d \in Pongs /\ Tied(tool, d) /\ f.id = tool.count
    BY <1>5, <1>9 DEF Answers, Own, Datagrams, Audios, Pings, Pongs
  <2>3. f.t1 \in Int /\ f.t2 \in Int /\ f.t3 \in Int
    BY <2>2 DEF Pongs
  <2>4. f.t1 = tool.t1
    BY <2>2 DEF Tied, Pongs
  <2>5. rtt = true
    <3>1. rtt = (now - tool.t1) - (f.t3 - f.t2)
      BY DEF Measured
    <3>2. Offset \in Int
      BY BenchAssumption
    <3> HIDE DEF f
    <3> QED
      BY <1>1, <2>3, <2>4, <3>1, <3>2
  <2>6. sample.rtt = sample.true
    BY <2>5
  <2>7. tool' = settled \/ tool' = [settled EXCEPT !.sample = sample]
    BY <1>2, <1>9 DEF Matched
  <2> HIDE DEF settled, sample, f
  <2>8. /\ tool'.count = tool.count /\ tool'.sent = tool.sent
        /\ tool'.kind = tool.kind
        /\ tool'.settled = tool.settled + 1 /\ tool'.waiting = FALSE
        /\ tool'.t1 = tool.t1 /\ ToolFields \subseteq DOMAIN tool'
    BY <2>1, <2>7 DEF ToolFields
  <2>9. tool'.sample = tool.sample \/ tool'.sample = sample
    BY <2>1, <2>7 DEF ToolFields
  <2>10. ToolShape(tool')
    <3>1. {tool'.count, tool'.sent, tool'.settled} \subseteq Nat /\ tool'.t1 \in Int
      BY <1>1, <2>8 DEF ToolShape
    <3>2. tool'.waiting \in BOOLEAN
      BY <2>8
    <3> QED
      BY <2>8, <3>1, <3>2 DEF ToolShape
  <2>11. Honest(tool')
    <3>1. tool'.sample.rtt = tool'.sample.true
      BY <1>1, <2>6, <2>9 DEF Honest
    <3>2. tool.kind = "ping" => tool.sent = tool.settled + 1
      BY <1>1 DEF Honest
    <3>3. tool'.kind = "ping" => tool'.sent = tool'.settled + 0
      BY <1>1, <2>8, <3>2 DEF ToolShape
    <3> QED
      BY <2>8, <3>1, <3>3 DEF Honest
  <2>12. Own(tool) \subseteq Own(tool')
    BY <1>1, <2>8, <2>10, OwnGrows DEF ToolShape
  <2>13. Outer(inbox, inbox', Own(tool'))
    BY <1>5, <1>6, <2>12, Widened DEF Outer
  <2> QED
    BY <1>7, <2>10, <2>11, <2>12, <2>13, ToolActs
<1> QED
  BY <1>8, <1>9

\* run_ping(): the probe under way is given up on.
LEMMA GiveUpStep ==
  ASSUME Inv, GiveUp
  PROVE  Inv'
<1>1. /\ ToolShape(tool) /\ inbox \in [Sockets -> Seq(Own(tool))]
      /\ tool.waiting /\ Honest(tool)
  BY DEF Inv, GiveUp
<1>2. tool' = [tool EXCEPT !.waiting = FALSE, !.settled = @ + 1]
  BY DEF GiveUp
<1>3. /\ tool'.count = tool.count /\ tool'.sent = tool.sent
      /\ tool'.kind = tool.kind /\ tool'.sample = tool.sample
      /\ tool'.settled = tool.settled + 1 /\ tool'.waiting = FALSE
      /\ tool'.t1 = tool.t1 /\ ToolFields \subseteq DOMAIN tool'
  BY <1>1, <1>2 DEF ToolShape, ToolFields
<1>4. ToolShape(tool')
  <2>1. {tool'.count, tool'.sent, tool'.settled} \subseteq Nat /\ tool'.t1 \in Int
    BY <1>1, <1>3 DEF ToolShape
  <2>2. tool'.waiting \in BOOLEAN
    BY <1>3
  <2> QED
    BY <1>3, <2>1, <2>2 DEF ToolShape
<1>5. Honest(tool')
  <2>1. tool.kind = "ping" => tool.sent = tool.settled + 1
    BY <1>1 DEF Honest
  <2>2. tool'.kind = "ping" => tool'.sent = tool'.settled + 0
    BY <1>1, <1>3, <2>1 DEF ToolShape
  <2> QED
    BY <1>1, <1>3, <2>2 DEF Honest
<1>6. Own(tool) \subseteq Own(tool')
  BY <1>1, <1>3, <1>4, OwnGrows DEF ToolShape
<1>7. inbox' = inbox /\ now' = now /\ relay' = relay
  BY DEF GiveUp
<1>8. Outer(inbox, inbox', Own(tool'))
  BY <1>1, <1>6, <1>7, Widened DEF Outer
<1> QED
  BY <1>4, <1>5, <1>6, <1>7, <1>8, ToolActs

\* impair: a datagram comes in on either side.
LEMMA RelayReceiveStep ==
  ASSUME Inv, NEW socket \in {"listen", "upstream"}, RelayReceive(socket)
  PROVE  Inv'
<1> DEFINE D == Own(tool)
           d == RecvFrom(Head(inbox[socket]))
<1>1. /\ RelayShape(relay) /\ Carries(relay, D) /\ inbox \in [Sockets -> Seq(D)]
      /\ Readable(inbox[socket]) /\ relay.forwarded = Settled(relay)
      /\ Acquainted
  BY DEF Inv, RelayReceive
<1>2. socket \in Sockets
  BY DEF Sockets
<1>3. inbox' = [inbox EXCEPT ![socket] = Tail(@)]
  BY DEF RelayReceive
<1>4. d \in D /\ inbox' \in [Sockets -> Seq(D)]
  BY <1>1, <1>2, <1>3, TakenSound
<1>5. PICK decision : relay' = Handled(socket, d, decision)
  BY DEF RelayReceive
<1> HIDE DEF d, D
<1>6. /\ RelayShape(relay') /\ Carries(relay', D)
      /\ relay'.forwarded = Settled(relay')
      /\ relay'.phase = relay.phase
      /\ relay'.client = (relay.client \/ socket = "listen")
      /\ relay'.discarded = relay.discarded
  BY <1>1, <1>4, <1>5, HandledSound
<1>7. relay'.client
  <2>1. CASE socket = "listen"
    BY <1>6, <2>1
  <2>2. CASE socket = "upstream"
    BY <1>1, <1>6, <2>2 DEF Acquainted, Readable, RelayShape
  <2> QED
    BY <2>1, <2>2
<1>8. tool' = tool /\ now' = now
  BY DEF RelayReceive
<1>9. relay'.phase # "done" => relay'.discarded = 0
  BY <1>6 DEF Inv
<1>10. Acquainted'
  BY <1>7 DEF Acquainted
<1>11. ToolShape(tool') /\ Honest(tool') /\ now' \in Nat
  BY <1>8 DEF Inv
<1>12. Carries(relay', Own(tool')) /\ inbox' \in [Sockets -> Seq(Own(tool'))]
  BY <1>4, <1>6, <1>8 DEF D
<1> QED
  BY <1>6, <1>9, <1>10, <1>11, <1>12 DEF Inv

\* impair: the walk, while running or draining, up to the relay's next state.
LEMMA WalkSound ==
  ASSUME Inv, NEW refused \in SUBSET DueSlots
  PROVE  LET q == Released(refused)
         IN  /\ RelayShape(q) /\ Carries(q, Own(tool))
             /\ q.forwarded = Settled(q)
             /\ q.phase = relay.phase /\ q.client = relay.client
             /\ q.discarded = relay.discarded
             /\ HeldOf(q) \subseteq HeldOf(relay)
<1>1. /\ RelayShape(relay) /\ Carries(relay, Own(tool))
      /\ relay.forwarded = Settled(relay)
  BY DEF Inv
<1>2. HeldOf(relay) # {} => relay.client
  BY DEF Inv, Acquainted
<1>3. /\ Continues(relay, Released(refused), Own(tool))
      /\ HeldOf(Released(refused)) = HeldOf(relay) \ DueSlots
  BY <1>1, <1>2, ReleasedSound
<1> QED
  BY <1>1, <1>3 DEF Continues

\* impair: what is due is released.
LEMMA RelayReleaseStep ==
  ASSUME Inv, NEW refused \in SUBSET DueSlots, RelayRelease(refused)
  PROVE  Inv'
<1>1. relay' = Released(refused) /\ tool' = tool /\ now' = now /\ Emit(refused)
  BY DEF RelayRelease
<1>2. /\ RelayShape(relay') /\ Carries(relay', Own(tool))
      /\ relay'.forwarded = Settled(relay')
      /\ relay'.phase = relay.phase /\ relay'.client = relay.client
      /\ relay'.discarded = relay.discarded
      /\ HeldOf(relay') \subseteq HeldOf(relay)
  BY <1>1, WalkSound
<1>3. /\ inbox' \in [Sockets -> Seq(Own(tool))]
      /\ ~relay.client => /\ inbox'["responder"] = <<>>
                          /\ inbox'["upstream"] = <<>>
  BY <1>1, EmitSound
<1>4. Acquainted'
  BY <1>2, <1>3 DEF Inv, Acquainted
<1>5. ToolShape(tool') /\ Honest(tool') /\ now' \in Nat
  BY <1>1 DEF Inv
<1>6. relay'.phase # "done" => relay'.discarded = 0
  BY <1>2 DEF Inv
<1>7. Carries(relay', Own(tool')) /\ inbox' \in [Sockets -> Seq(Own(tool'))]
  BY <1>1, <1>2, <1>3
<1> QED
  BY <1>2, <1>4, <1>5, <1>6, <1>7 DEF Inv

\* impair: a pass of the drain.
LEMMA RelayDrainStep ==
  ASSUME Inv, NEW refused \in SUBSET DueSlots, RelayDrain(refused)
  PROVE  Inv'
<1> DEFINE q == Released(refused)
<1>1. relay' = Drained(q) /\ tool' = tool /\ now' = now /\ Emit(refused)
      /\ relay.phase = "draining"
  BY DEF RelayDrain
<1>2. /\ RelayShape(q) /\ Carries(q, Own(tool))
      /\ q.forwarded = Settled(q)
      /\ q.phase = relay.phase /\ q.client = relay.client
      /\ q.discarded = relay.discarded
      /\ HeldOf(q) \subseteq HeldOf(relay)
  BY WalkSound
<1> HIDE DEF q
<1>3. q.discarded = 0
  BY <1>1, <1>2 DEF Inv
<1>4. /\ RelayShape(relay') /\ Carries(relay', Own(tool))
      /\ relay'.forwarded = Settled(relay')
      /\ (relay'.phase # "done" => relay'.discarded = 0)
      /\ relay'.client = q.client
      /\ HeldOf(relay') \subseteq HeldOf(q)
  BY <1>1, <1>2, <1>3, DrainedSound
<1>5. /\ inbox' \in [Sockets -> Seq(Own(tool))]
      /\ ~relay.client => /\ inbox'["responder"] = <<>>
                          /\ inbox'["upstream"] = <<>>
  BY <1>1, EmitSound
<1>6. Acquainted'
  BY <1>2, <1>4, <1>5 DEF Inv, Acquainted
<1>7. ToolShape(tool') /\ Honest(tool') /\ now' \in Nat
  BY <1>1 DEF Inv
<1>8. Carries(relay', Own(tool')) /\ inbox' \in [Sockets -> Seq(Own(tool'))]
  BY <1>1, <1>4, <1>5
<1> QED
  BY <1>4, <1>6, <1>7, <1>8 DEF Inv

\* impair: the relay is stopped.
LEMMA RelayStopStep ==
  ASSUME Inv, RelayStop
  PROVE  Inv'
<1> DEFINE q == [relay EXCEPT !.phase = "draining", !.began = now, !.wake = now]
<1>1. relay' = q /\ relay.phase = "running" /\ UNCHANGED <<now, tool, inbox>>
  BY DEF RelayStop
<1>2. RelayShape(relay)
  BY DEF Inv
<1>3. /\ q.slots = relay.slots /\ q.full = relay.full
      /\ q.forwarded = relay.forwarded /\ q.emitted = relay.emitted
      /\ q.refused = relay.refused /\ q.discarded = relay.discarded
      /\ q.client = relay.client /\ RelayFields \subseteq DOMAIN q
  BY <1>2 DEF RelayShape, RelayFields
<1> HIDE DEF q
<1>4. RelayShape(q)
  BY <1>2, <1>3 DEF RelayShape
<1>5. HeldOf(q) = HeldOf(relay)
  BY <1>3 DEF HeldOf
<1>6. q.forwarded = Settled(q) /\ q.discarded = 0
  BY <1>1, <1>3, <1>5 DEF Inv, Settled
<1>7. Carries(q, Own(tool))
  BY <1>3, <1>5 DEF Inv, Carries
<1>8. Acquainted'
  BY <1>1, <1>3, <1>5 DEF Inv, Acquainted
<1>9. /\ ToolShape(tool') /\ Honest(tool') /\ now' \in Nat
      /\ inbox' \in [Sockets -> Seq(Own(tool'))]
  BY <1>1 DEF Inv
<1>10. /\ RelayShape(relay') /\ relay'.forwarded = Settled(relay')
       /\ relay'.discarded = 0 /\ Carries(relay', Own(tool'))
  BY <1>1, <1>4, <1>6, <1>7
<1> QED
  BY <1>8, <1>9, <1>10 DEF Inv

\* run_respond(): a PING is answered, a media packet accounted for.
LEMMA RespondStep ==
  ASSUME Inv, NEW ok \in BOOLEAN, Respond(ok)
  PROVE  Inv'
<1> DEFINE D    == Own(tool)
           d    == RecvFrom(Head(inbox["responder"]))
           rest == [inbox EXCEPT !["responder"] = Tail(@)]
<1>1. /\ inbox \in [Sockets -> Seq(D)] /\ Readable(inbox["responder"])
      /\ now \in Nat /\ Acquainted /\ RelayShape(relay)
  BY DEF Inv, Respond
<1>2. relay' = relay /\ tool' = tool /\ now' = now
  BY DEF Respond
<1>3. "responder" \in Sockets /\ "upstream" \in Sockets
  BY DEF Sockets
<1>4. d \in D /\ rest \in [Sockets -> Seq(D)]
  BY <1>1, <1>3, TakenSound
<1>5. relay.client
  BY <1>1 DEF Acquainted, Readable, RelayShape
<1>6. \/ d.type = "Ping" /\ inbox' = Put(rest, "upstream", PongFor(d), ok)
      \/ inbox' = rest
  BY DEF Respond
<1> HIDE DEF d, rest
<1>7. inbox' \in [Sockets -> Seq(D)]
  <2>1. CASE d.type = "Ping" /\ inbox' = Put(rest, "upstream", PongFor(d), ok)
    <3>1. PongFor(d) \in D
      BY <1>1, <1>4, <2>1, PongOwn
    <3> HIDE DEF D
    <3> QED
      BY <1>3, <1>4, <2>1, <3>1, PutSound
  <2> QED
    BY <1>4, <1>6, <2>1
<1>8. Acquainted'
  BY <1>2, <1>5 DEF Acquainted
<1> QED
  BY <1>2, <1>7, <1>8 DEF Inv

\* Every step keeps the invariant.
LEMMA NextInv == Inv /\ [Next]_vars => Inv'
<1> SUFFICES ASSUME Inv, [Next]_vars PROVE Inv'
  OBVIOUS
<1>1. ASSUME NEW ok \in BOOLEAN,
             SendMedia(ok) \/ SendEnd(ok) \/ SendPing(ok) \/ Respond(ok)
      PROVE  Inv'
  BY <1>1, SendMediaStep, SendEndStep, SendPingStep, RespondStep
<1>2. CASE ReceivePong \/ GiveUp
  BY <1>2, ReceivePongStep, GiveUpStep
<1>3. CASE RelayReceive("listen") \/ RelayReceive("upstream")
  BY <1>3, RelayReceiveStep
<1>4. ASSUME NEW refused \in SUBSET DueSlots,
             RelayRelease(refused) \/ RelayDrain(refused)
      PROVE  Inv'
  BY <1>4, RelayReleaseStep, RelayDrainStep
<1>5. CASE RelayStop
  BY <1>5, RelayStopStep
<1>6. CASE Tick
  <2>1. now' \in Nat /\ UNCHANGED <<tool, relay, inbox>>
    BY <1>6 DEF Tick, Inv
  <2>2. Acquainted'
    BY <2>1 DEF Inv, Acquainted
  <2> QED
    BY <2>1, <2>2 DEF Inv
<1>7. CASE UNCHANGED vars
  <2>1. UNCHANGED <<now, tool, relay, inbox>>
    BY <1>7 DEF vars
  <2>2. Acquainted'
    BY <2>1 DEF Inv, Acquainted
  <2> QED
    BY <2>1, <2>2 DEF Inv
<1>8. CASE Finish
  BY <1>7, <1>8 DEF Finish
<1> QED
  BY <1>1, <1>2, <1>3, <1>4, <1>5, <1>6, <1>7, <1>8 DEF Next

\* Every packet the relay let through is held or was counted as sent, refused or
\* discarded, for every scenario and queue capacity (impair/main.cpp:302-347,
\* 414-487).
THEOREM RelayCorrect == Spec => []RelayBooks
<1>1. ASSUME Inv PROVE RelayBooks
  <2>1. Held = HeldOf(relay)
    BY DEF Held, HeldOf
  <2> QED
    BY <1>1, <2>1 DEF Inv, RelayBooks, Settled
<1> QED
  BY <1>1, InitInv, NextInv, PTL DEF Spec

\* The round trip that ping reports is of one probe's own PING and PONG, and every
\* probe that left is waited for or settled once (mode_ping.cpp:186-268).
THEOREM PingCorrect == Spec => []PingIsHonest
<1>1. Inv => PingIsHonest
  BY DEF Inv, Honest, PingIsHonest
<1> QED
  BY <1>1, InitInv, NextInv, PTL DEF Spec
===============================================================================
