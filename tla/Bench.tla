-------------------------------- MODULE Bench --------------------------------
(***************************************************************************)
(* A benchmark on one host: `radiobench send` or `radiobench ping`         *)
(* (tools/radiobench) talks to `radiobench respond` through the impairment *)
(* relay (tools/impair/main.cpp), whose log says what it did to every      *)
(* packet.                                                                 *)
(*                                                                         *)
(* The sockets between the processes are queues that lose nothing.         *)
(* Everybody acts at once on what is there, and sleeps until exactly what  *)
(* it waits for (poll()'s millisecond is less than a tick), except that    *)
(* the sender may be up to Stall late.  The responder's clock shows        *)
(* now + Offset.  Options and reports are left out, and signals but the    *)
(* one that stops the relay.                                               *)
(***************************************************************************)
EXTENDS SeqTrackerOps, JitterEstimator, Impairment, ClockSync, Pacer, UdpSocket,
        SequencesExt

CONSTANTS
  Tools,           \* "send", "ping"
  Scenarios,       \* the configurations of the network model
  FirstSequence, FirstTimestamp,
  Duration,        \* of a send
  Count,           \* of the probes of a ping
  Timeout,         \* of a probe
  Offset,
  QueueCapacity,   \* kQueueCapacity
  MaxDrain,        \* kMaxDrainUs
  Stall,           \* bound on the sender's lateness
  MaxRefusals,     \* bound on the datagrams sockets refuse
  Horizon          \* bound on the clock

ASSUME BenchAssumption ==
  /\ Scenarios \subseteq Impairments
  /\ {FirstSequence, FirstTimestamp} \subseteq Serials
  /\ QueueCapacity \in Nat \ {0}
  /\ {Duration, Count, Timeout, MaxDrain, Stall, MaxRefusals, Horizon}
       \subseteq Nat
  /\ Offset \in Int

VARIABLES
  now,
  scenario,   \* the configuration of this run
  tool,       \* the state of run_send() or run_ping()
  relay,      \* the state of impair's main()
  responder,  \* the one stream run_respond() sees: its tracker and estimator
  inbox,      \* what waits in each socket
  refusals    \* the datagrams refused so far

vars == <<now, scenario, tool, relay, responder, inbox, refusals>>

\* The relay has two sockets, one for each side.
Sockets == {"tool", "listen", "upstream", "responder"}

Empty == [release |-> 0, held |-> FALSE]

SlotIndices == 1 .. QueueCapacity

Init ==
  /\ now = 0
  /\ scenario \in Scenarios
  /\ \E kind \in Tools :
       tool = [kind |-> kind, pacer |-> StartPacer(0), count |-> 0,
               sent |-> 0, done |-> FALSE, waiting |-> FALSE, t1 |-> 0,
               settled |-> 0, sample |-> [rtt |-> 0, true |-> 0]]
  /\ relay = [phase |-> "running", slots |-> [i \in SlotIndices |-> Empty],
              client |-> FALSE,
              engine |-> [s \in {"listen", "upstream"} |-> NewEngine(scenario)],
              log |-> <<>>, forwarded |-> 0, emitted |-> 0, full |-> 0,
              refused |-> 0, discarded |-> 0, began |-> 0, wake |-> 0]
  /\ responder = [tracker |-> NewTracker, jitter |-> NewEstimator]
  /\ inbox = [s \in Sockets |-> <<>>]
  /\ refusals = 0

\* A datagram is sent to a socket.
Put(box, socket, datagram, ok) ==
  [box EXCEPT ![socket] = SendTo(@, datagram, ok)]

\* A socket may refuse a datagram, as often as the bound allows.
Refusable(ok) ==
  /\ ok \/ refusals < MaxRefusals
  /\ refusals' = IF ok THEN refusals ELSE refusals + 1

-------------------------------------------------------------------------------
(* radiobench send *)

MediaOf(flags) ==
  EncodeMedia(flags,
              [sequence |-> Wrap(FirstSequence + tool.count),
               timestamp |-> Wrap(FirstTimestamp + Interval * tool.count)], 1)

\* A packet of the stream; a refused one has its number all the same.
SendMedia(ok) ==
  /\ tool.kind = "send" /\ ~tool.done
  /\ PacerDue(tool.pacer, now)
  /\ now < Duration
  /\ Refusable(ok)
  /\ inbox' = Put(inbox, "listen",
                  MediaOf(IF tool.count = 0 THEN {"start"} ELSE {}), ok)
  /\ tool' = [tool EXCEPT !.count = @ + 1, !.sent = IF ok THEN @ + 1 ELSE @,
                          !.pacer = AdvancePacer(@, now)]
  /\ UNCHANGED <<now, scenario, relay, responder>>

\* The time is up: the talkspurt is ended if anything was sent.
SendEnd(ok) ==
  /\ tool.kind = "send" /\ ~tool.done
  /\ PacerDue(tool.pacer, now)
  /\ now >= Duration
  /\ Refusable(ok)
  /\ inbox' = Put(inbox, "listen", MediaOf({"end"}), ok /\ tool.sent # 0)
  /\ tool' = [tool EXCEPT !.done = TRUE]
  /\ UNCHANGED <<now, scenario, relay, responder>>

-------------------------------------------------------------------------------
(* radiobench ping *)

SendPing(ok) ==
  /\ tool.kind = "ping" /\ ~tool.waiting
  /\ tool.count < Count
  /\ PacerDue(tool.pacer, now)
  /\ Refusable(ok)
  /\ inbox' = Put(inbox, "listen",
                  EncodeControl("Ping", [id |-> tool.count + 1, t3 |-> now], 0),
                  ok)
  /\ tool' = [tool EXCEPT !.count = @ + 1, !.t1 = now, !.waiting = ok,
                          !.sent = IF ok THEN @ + 1 ELSE @,
                          !.pacer = AdvancePacer(@, now)]
  /\ UNCHANGED <<now, scenario, relay, responder>>

\* Mutant: any well-formed reply is taken for this probe's.
AnswersAny(d) == PongReject(d) = "None" /\ d.type = "Pong"

\* The reply to the probe under way; any other is discarded.
Answers(d) ==
  /\ ControlReject(d) = "None" /\ d.type = "Pong"
  /\ d.fields.id = tool.count
  /\ PongReject(d) = "None"

\* The probe is settled by a reply, even an impossible one.
Matched(f) ==
  LET settled == [tool EXCEPT !.waiting = FALSE, !.settled = @ + 1]
  IN  IF Plausible(tool.t1, f.t2, f.t3, now)
      THEN [settled EXCEPT !.sample =
              [rtt |-> Measured(tool.t1, f.t2, f.t3, now).rtt,
               true |-> (f.t2 - Offset - f.t1) + (now - (f.t3 - Offset))]]
      ELSE settled

ReceivePong ==
  /\ tool.waiting /\ now < tool.t1 + Timeout
  /\ Readable(inbox["tool"])
  /\ LET d == RecvFrom(Head(inbox["tool"]))
     IN  tool' = IF Answers(d) THEN Matched(d.fields) ELSE tool
  /\ inbox' = [inbox EXCEPT !["tool"] = Tail(@)]
  /\ UNCHANGED <<now, scenario, relay, responder, refusals>>

GiveUp ==
  /\ tool.waiting /\ now >= tool.t1 + Timeout
  /\ tool' = [tool EXCEPT !.waiting = FALSE, !.settled = @ + 1]
  /\ UNCHANGED <<now, scenario, relay, responder, inbox, refusals>>

-------------------------------------------------------------------------------
(* impair *)

\* enqueue(): the first free slot, if there is one.
Enqueue(r, socket, datagram, release) ==
  LET free == {i \in SlotIndices : ~r.slots[i].held}
  IN  IF free = {} THEN [r EXCEPT !.full = @ + 1]
      ELSE [r EXCEPT !.slots[Min(free)] =
              [held |-> TRUE, release |-> release, from |-> socket,
               datagram |-> datagram]]

\* Mutant: the log keeps the model's verdict for a packet the queue refused.
LoggedVerdictKept(decision, queued) == decision.verdict

\* A packet the queue refused is logged as dropped.
LoggedVerdict(decision, queued) ==
  IF queued THEN decision.verdict ELSE "DropRateLimit"

\* The relay after a decision: the packet and its copy queued, the log written.
Handled(socket, datagram, decision) ==
  LET counted == [relay EXCEPT !.engine[socket] = decision.engine,
                               !.client = @ \/ socket = "listen"]
      first   == IF decision.verdict # "Forward" THEN counted
                 ELSE Enqueue([counted EXCEPT !.forwarded = @ + 1], socket,
                              datagram, now + decision.delay)
      queued  == first.full = relay.full
      both    == IF decision.copies = {} THEN first
                 ELSE Enqueue([first EXCEPT !.forwarded = @ + 1], socket,
                              datagram,
                              now + CHOOSE d \in decision.copies : TRUE)
  IN  [both EXCEPT !.log = Append(@,
         [from |-> socket, arrival |-> now, datagram |-> datagram,
          passed |-> decision.verdict = "Forward",
          verdict |-> LoggedVerdict(decision, queued)])]

RelayReceive(socket) ==
  /\ relay.phase = "running"
  /\ Readable(inbox[socket])
  /\ LET d == RecvFrom(Head(inbox[socket]))
     IN  \E decision \in Decisions(scenario, relay.engine[socket], d.size, now) :
           relay' = Handled(socket, d, decision)
  /\ inbox' = [inbox EXCEPT ![socket] = Tail(@)]
  /\ UNCHANGED <<now, scenario, tool, responder, refusals>>

Held == {i \in SlotIndices : relay.slots[i].held}
DueSlots == {i \in Held : relay.slots[i].release <= now}

\* Where a packet from one side goes; back to the client once there is one.
Towards(socket) == IF socket = "listen" THEN "responder" ELSE "tool"
HasTarget(i) == relay.slots[i].from = "listen" \/ relay.client

\* The walk over the slots: what is due is sent, in the order of the slots,
\* and its slot freed; `refused` are the sends that fail.
Released(refused) ==
  [relay EXCEPT
     !.slots = [i \in SlotIndices |->
                  IF i \in DueSlots THEN Empty ELSE relay.slots[i]],
     !.emitted = @ + Cardinality({i \in DueSlots \ refused : HasTarget(i)}),
     !.refused = @ + Cardinality({i \in refused : HasTarget(i)})]

\* What the walk sends to a socket, and the order in which it comes to it.
Leaving(refused, socket) ==
  {i \in DueSlots \ refused :
     HasTarget(i) /\ Towards(relay.slots[i].from) = socket}

Walks(indices) ==
  {order \in [1 .. Cardinality(indices) -> indices] :
     \A j, k \in DOMAIN order : j < k => order[j] < order[k]}

Carried(order) == [k \in DOMAIN order |-> relay.slots[order[k]].datagram]

Emit(refused) ==
  /\ Cardinality(refused) <= MaxRefusals - refusals
  /\ refusals' = refusals + Cardinality(refused)
  /\ \E there \in Walks(Leaving(refused, "responder")),
        back \in Walks(Leaving(refused, "tool")) :
       inbox' = [inbox EXCEPT !["responder"] = @ \o Carried(there),
                              !["tool"] = @ \o Carried(back)]

RelayRelease(refused) ==
  /\ relay.phase = "running"
  /\ DueSlots # {}
  /\ Emit(refused)
  /\ relay' = Released(refused)
  /\ UNCHANGED <<now, scenario, tool, responder>>

\* SIGINT, or the scenario's duration is over, once the tool has ended.
RelayStop ==
  /\ relay.phase = "running"
  /\ \/ tool.done
     \/ tool.kind = "ping" /\ tool.count = Count /\ ~tool.waiting
  /\ relay' = [relay EXCEPT !.phase = "draining", !.began = now, !.wake = now]
  /\ UNCHANGED <<now, scenario, tool, responder, inbox, refusals>>

\* Mutant: what is left is neither sent nor counted.
DrainedSilently(r) ==
  LET left == {i \in SlotIndices : r.slots[i].held}
  IN  IF left = {} \/ now - r.began > MaxDrain
      THEN [r EXCEPT !.phase = "done",
                     !.slots = [i \in SlotIndices |-> Empty]]
      ELSE [r EXCEPT !.wake = Min({r.slots[i].release : i \in left})]

\* The rest of a pass of the drain: finished, out of patience, or asleep until
\* the next release.
Drained(r) ==
  LET left == {i \in SlotIndices : r.slots[i].held}
  IN  IF left = {} THEN [r EXCEPT !.phase = "done"]
      ELSE IF now - r.began > MaxDrain
      THEN [r EXCEPT !.phase = "done",
                     !.slots = [i \in SlotIndices |-> Empty],
                     !.discarded = Cardinality(left)]
      ELSE [r EXCEPT !.wake = Min({r.slots[i].release : i \in left})]

RelayDrain(refused) ==
  /\ relay.phase = "draining"
  /\ now >= relay.wake
  /\ Emit(refused)
  /\ relay' = Drained(Released(refused))
  /\ UNCHANGED <<now, scenario, tool, responder>>

-------------------------------------------------------------------------------
(* radiobench respond *)

\* encode_pong_for(), t2 and t3 being the same instant here.
PongFor(d) ==
  EncodeControl("Pong", [id |-> d.fields.id, t1 |-> d.fields.t3,
                         t2 |-> now + Offset, t3 |-> now + Offset],
                PongBodySize)

Accounted(d) ==
  LET f == d.fields
  IN  [tracker |-> Observed(responder.tracker, f.sequence),
       jitter |-> IF "start" \in d.flags
                  THEN Anchored(responder.jitter, f.timestamp, now)
                  ELSE Sampled(responder.jitter, f.timestamp, now)]

Respond(ok) ==
  /\ Readable(inbox["responder"])
  /\ LET d    == RecvFrom(Head(inbox["responder"]))
         rest == [inbox EXCEPT !["responder"] = Tail(@)]
     IN  \/ /\ d.type = "Ping" /\ ControlReject(d) = "None"
            /\ Refusable(ok)
            /\ inbox' = Put(rest, "upstream", PongFor(d), ok)
            /\ UNCHANGED responder
         \/ /\ d.type = "Audio" /\ MediaReject(d) = "None"
            /\ ok
            /\ responder' = Accounted(d)
            /\ inbox' = rest
            /\ UNCHANGED refusals
  /\ UNCHANGED <<now, scenario, tool, relay>>

-------------------------------------------------------------------------------

\* Somebody has something to do at this instant.
Busy ==
  \/ Readable(inbox["responder"])
  \/ relay.phase = "running" /\ Readable(inbox["listen"] \o inbox["upstream"])
  \/ relay.phase # "done" /\ DueSlots # {}
  \/ relay.phase = "draining" /\ relay.wake <= now
  \/ tool.kind = "send" /\ ~tool.done /\ PacerDue(tool.pacer, now - Stall)
  \/ tool.kind = "ping" /\ ~tool.waiting /\ tool.count < Count
       /\ PacerDue(tool.pacer, now)
  \/ tool.waiting /\ (Readable(inbox["tool"]) \/ now >= tool.t1 + Timeout)

Tick ==
  /\ now < Horizon
  /\ ~Busy
  /\ now' = now + 1
  /\ UNCHANGED <<scenario, tool, relay, responder, inbox, refusals>>

\* The clock's bound is reached: the model, not the system, comes to rest.
Finish == now = Horizon /\ ~Busy /\ UNCHANGED vars

Next ==
  \/ \E ok \in BOOLEAN :
       SendMedia(ok) \/ SendEnd(ok) \/ SendPing(ok) \/ Respond(ok)
  \/ ReceivePong \/ GiveUp
  \/ RelayReceive("listen") \/ RelayReceive("upstream")
  \/ \E refused \in SUBSET DueSlots : RelayRelease(refused) \/ RelayDrain(refused)
  \/ RelayStop
  \/ Tick
  \/ Finish

Spec == Init /\ [][Next]_vars

-------------------------------------------------------------------------------
(* Properties *)

Log == {relay.log[i] : i \in DOMAIN relay.log}

\* Every packet the model lets through, and every copy, is still held or was
\* sent, refused by a socket, refused by a full queue or discarded at the end,
\* and counted as that: the report hides no loss (impair/main.cpp:302-317,
\* 326-347, 414-487).
RelayBooks ==
  relay.forwarded = relay.emitted + relay.refused + relay.full
                      + Cardinality(Held) + relay.discarded

\* Once the relay is done, the loss the responder counts is exactly what the
\* relay's log says was dropped between the first and the last packet that came
\* through: "an exact set comparison" (impair/main.cpp:57-59).
LossMatchesLog ==
  /\ relay.phase = "done" /\ inbox["responder"] = <<>>
  /\ refusals = 0 /\ relay.discarded = 0
  =>
    Lost(responder.tracker) =
      Cardinality({row \in Log :
        LET s == row.datagram.fields.sequence
        IN  /\ row.datagram.type = "Audio" /\ row.verdict # "Forward"
            /\ Precedes(responder.tracker.base, s)
            /\ Precedes(s, responder.tracker.highest)})

\* From any packet to any later one, the model lets through no more data than
\* its allowance and what the rate gives in between: the cap makes it a burst
\* allowance "rather than unlimited credit for an idle link"
\* (impairment.cpp:201-216).
RateConforms ==
  scenario.rate # 0 =>
    \A first, last \in DOMAIN relay.log : first <= last =>
      MapThenSumSet(LAMBDA i : relay.log[i].datagram.size,
                    {i \in first .. last :
                       relay.log[i].passed /\ relay.log[i].from = "listen"})
        <= scenario.bucket
             + scenario.rate * (relay.log[last].arrival - relay.log[first].arrival)

\* The jitter the responder reports is the network's own: never more than the
\* spread of the delays it was given and the sender's lateness, wherever in the
\* timestamp space the stream began (jitter_estimator.cpp:22-53).
JitterIsNetworks ==
  responder.jitter.peak <=
    Max(Delays(scenario)) + scenario.reorder - Min(Delays(scenario)) + Stall

\* The round trip `radiobench ping` reports is that of the probe's own PING and
\* PONG, never of "a reply to an earlier probe we already abandoned", and every
\* probe that left is waited for or settled once (mode_ping.cpp:186-268).
PingIsHonest ==
  tool.kind = "ping" =>
    /\ tool.sample.rtt = tool.sample.true
    /\ tool.sent = tool.settled + (IF tool.waiting THEN 1 ELSE 0)
===============================================================================
