------------------------------- MODULE Wavloop -------------------------------
(***************************************************************************)
(* `radiobench wavloop` (tools/radiobench/mode_wavloop.cpp): a file of     *)
(* Frames frames is encoded, sent over the loopback interface, held by the *)
(* network model, played through the jitter buffer, and timed.             *)
(*                                                                         *)
(* One thread does it all, a frame time per tick; the body of a tick takes *)
(* no time.  A datagram comes back from the loopback interface at once, or *)
(* while the loop waits for the next tick.  The audio, the reports and the *)
(* stamps that only time the codec and the socket are left out.            *)
(***************************************************************************)
EXTENDS JitterBuffer, Impairment, Pacer, Sequences, SequencesExt

CONSTANTS
  Scenarios,      \* the configurations of the network model
  Frames,         \* frames_in
  FirstSequence, FirstTimestamp,
  HeldCapacity,   \* kHeldCapacity
  Stall,          \* bound on the loop's lateness
  MaxFailures     \* bound on the frames not encoded and the sends refused

ASSUME WavloopAssumption ==
  /\ Scenarios \subseteq Impairments
  /\ Frames \in Nat \ {0}
  /\ {FirstSequence, FirstTimestamp} \subseteq Serials
  /\ HeldCapacity \in Nat \ {0}
  /\ {Stall, MaxFailures} \subseteq Nat
  /\ Interval = FrameTicks

VARIABLES
  now,
  scenario,  \* the configuration of this run
  tick,      \* the ticks done
  pacer,
  wire,      \* what waits in the socket
  network,   \* the network model's engine
  held,      \* the datagrams the model holds
  jb,        \* the jitter buffer
  records,   \* the stamps of each frame, zero for none
  failures   \* the failures so far

vars == <<now, scenario, tick, pacer, wire, network, held, jb, records, failures>>

FrameIndices == 0 .. Frames - 1
HeldSlots == 1 .. HeldCapacity

Vacant == [occupied |-> FALSE]

Init ==
  /\ now = 1
  /\ scenario \in Scenarios
  /\ tick = 0
  /\ pacer = StartPacer(1)
  /\ wire = <<>>
  /\ network = NewEngine(scenario)
  /\ held = [i \in HeldSlots |-> Vacant]
  /\ jb = OpenBuffer
  /\ records = [f \in FrameIndices |->
                  [captured |-> 0, jitterIn |-> 0, played |-> 0]]
  /\ failures = 0

\* Mutant: the buffer's own delay is forgotten.
DrainTicksHasty(c) ==
  (c.base + 3 * c.jitter + c.reorder + 5 * FrameTicks) \div FrameTicks + 1

\* drain_ticks: how long the loop goes on after the last frame was sent.
DrainTicks(c) ==
  (TargetDelay + c.base + 3 * c.jitter + c.reorder + 5 * FrameTicks)
    \div FrameTicks + 1

TotalTicks == Frames + DrainTicks(scenario)

\* frame_index(): the frames a sequence number stands for, one or none.
FramesOf(sequence) ==
  {f \in FrameIndices : Distance(FirstSequence, sequence) = f}

\* The datagram of the frame of this tick.
PacketOf(frame) ==
  [stream |-> 1, sequence |-> Wrap(FirstSequence + frame),
   timestamp |-> Wrap(FirstTimestamp + frame), start |-> frame = 0,
   end |-> frame = Frames - 1, redundant |-> Fec, oversized |-> FALSE]

-------------------------------------------------------------------------------

\* The first vacant slot takes a copy; without one the rest is given up.
Hold(slots, packet, release) ==
  LET vacant == {i \in HeldSlots : ~slots[i].occupied}
  IN  IF vacant = {} THEN slots
      ELSE [slots EXCEPT ![Min(vacant)] =
              [occupied |-> TRUE, packet |-> packet, release |-> release]]

HoldCopies(packet, decision) ==
  IF decision.verdict # "Forward" THEN held
  ELSE FoldLeft(LAMBDA slots, delay : Hold(slots, packet, now + delay), held,
                <<decision.delay>> \o SetToSeq(decision.copies))

\* drain_socket(): the model decides on what came back.  At most one datagram
\* is ever under way.
DrainSocket(waiting) ==
  IF waiting = <<>> THEN UNCHANGED <<network, held>>
  ELSE \E decision \in Decisions(scenario, network, 1, now) :
         /\ network' = decision.engine
         /\ held' = HoldCopies(Head(waiting), decision)

\* The socket is read while the loop waits for the next tick.
Poll ==
  /\ tick < TotalTicks
  /\ ~PacerDue(pacer, now)
  /\ wire # <<>>
  /\ DrainSocket(wire)
  /\ wire' = <<>>
  /\ UNCHANGED <<now, scenario, tick, pacer, jb, records, failures>>

\* The orders in which the datagrams now due can be released: earliest first.
ReleaseOrders(slots) ==
  LET due == {i \in HeldSlots : slots[i].occupied /\ slots[i].release <= now}
  IN  {order \in [1 .. Cardinality(due) -> due] :
         \A a, b \in DOMAIN order : a < b =>
           /\ order[a] # order[b]
           /\ slots[order[a]].release <= slots[order[b]].release}

\* Mutant: the stamp goes to the frame after the one that was played.
PulledSequenceNext(before, after) == after.queue.cursor

\* Pulled::sequence: the cursor the pull worked at.
PulledSequence(before, after) ==
  IF before.anchored /\ ~Waits(before, now)
  THEN Ready(before, now).queue.cursor ELSE before.queue.cursor

Stamped(r, frames, stage, when) ==
  [f \in FrameIndices |-> IF f \in frames THEN [r[f] EXCEPT ![stage] = when]
                          ELSE r[f]]

\* The release of what is due, and the playout of one frame.
ReleaseAndPlay(slots, recorded, ok) ==
  \E order \in ReleaseOrders(slots) :
    LET pushed  == FoldLeft(LAMBDA j, i : Pushed(j, slots[i].packet,
                                                 slots[i].release), jb, order)
        arrived == FoldLeft(LAMBDA r, i :
                              Stamped(r, FramesOf(slots[i].packet.sequence),
                                      "jitterIn", slots[i].release),
                            recorded, order)
        after   == Pulled(pushed, now, ok)
    IN  /\ jb' = after
        /\ records' = Stamped(arrived, FramesOf(PulledSequence(pushed, after)),
                              "played", now)
        /\ held' = [i \in HeldSlots |->
                      IF \E k \in DOMAIN order : order[k] = i THEN Vacant
                      ELSE slots[i]]

\* The body of a tick.  `encoded` and `sent` are the outcomes of the calls, and
\* `back` says whether the datagram is back before the socket is read.
Tick(encoded, sent, back, ok) ==
  LET sends  == tick < Frames /\ encoded /\ sent
      onWire == wire \o (IF sends THEN <<PacketOf(tick)>> ELSE <<>>)
      recorded == IF tick < Frames THEN [records EXCEPT ![tick].captured = now]
                  ELSE records
  IN  /\ tick < TotalTicks
      /\ PacerDue(pacer, now)
      /\ tick < Frames \/ (encoded /\ sent)
      /\ ~encoded => sent
      /\ (encoded /\ sent) \/ failures < MaxFailures
      /\ failures' = IF encoded /\ sent THEN failures ELSE failures + 1
      /\ IF back
         THEN /\ wire' = <<>>
              /\ IF onWire = <<>>
                 THEN network' = network /\ ReleaseAndPlay(held, recorded, ok)
                 ELSE \E decision \in Decisions(scenario, network, 1, now) :
                        /\ network' = decision.engine
                        /\ ReleaseAndPlay(HoldCopies(Head(onWire), decision),
                                          recorded, ok)
         ELSE /\ onWire # <<>>
              /\ wire' = onWire
              /\ UNCHANGED network
              /\ ReleaseAndPlay(held, recorded, ok)
      /\ tick' = tick + 1
      /\ pacer' = AdvancePacer(pacer, now)
      /\ UNCHANGED <<now, scenario>>

\* Time passes until the next tick is due, and at most Stall more.
Wait ==
  /\ tick < TotalTicks
  /\ now < pacer.next + Stall
  /\ now < pacer.next => wire = <<>>
  /\ now' = now + 1
  /\ UNCHANGED <<scenario, tick, pacer, wire, network, held, jb, records,
                 failures>>

\* The loop is over.
Finish == tick = TotalTicks /\ UNCHANGED vars

Next ==
  \/ \E encoded, sent, back \in BOOLEAN :
       Tick(encoded, sent, back, {"decode", "recover", "conceal"})
  \/ Poll
  \/ Wait
  \/ Finish

Spec == Init /\ [][Next]_vars

-------------------------------------------------------------------------------
(* Properties *)

\* When the loop ends nothing is under way, held or still to be played: "the
\* tail of the file would be reported as loss the harness caused"
\* (mode_wavloop.cpp:467-476).
TailNotCut ==
  tick = TotalTicks =>
    /\ wire = <<>>
    /\ \A i \in HeldSlots : ~held[i].occupied
    /\ jb.queue.held = 0

\* No frame's recorded latency is less than the network and the buffer cost it,
\* whatever was lost, copied, concealed or stamped again, but for the lateness
\* with which it was captured: "the single easiest way to publish a latency
\* figure that is better than the system can achieve"
\* (mode_wavloop.cpp:124-134, 677-683, 699).
LatencyNotUnderstated ==
  tick = TotalTicks =>
    \A f \in FrameIndices :
      LET r == records[f]
      IN  r.captured # 0 /\ r.played >= r.captured =>
            r.played - r.captured >= TargetDelay + Min(Delays(scenario)) - Stall
===============================================================================
