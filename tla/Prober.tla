-------------------------------- MODULE Prober --------------------------------
(***************************************************************************)
(* Asynchronous probing (core/include/radio/prober.hpp,                    *)
(* core/src/net/prober.cpp) with the clock estimate it feeds (ClockSync),  *)
(* driven by the network thread of a session (session.cpp) across a        *)
(* network that loses, copies, delays and reorders, against a peer that    *)
(* answers every PING it gets.                                             *)
(*                                                                         *)
(* `now` is the local clock; the peer's clock shows now + Offset.  The     *)
(* receive path runs whenever the thread gets to it, so a PONG may wait in *)
(* the socket; the probing half of a loop pass (probe_if_due and expire,   *)
(* with one reading of the clock) is one action.  A probe header always    *)
(* fits its buffer.  Left out: the publication of the counters, and        *)
(* replies that are malformed or whose echo the peer falsified.            *)
(***************************************************************************)
EXTENDS Pacer, ClockSync, FiniteSets, FiniteSetsExt

CONSTANTS
  MaxOutstanding,  \* kMaxOutstanding
  Timeout,         \* Config::timeout_us
  LinkTimeout,     \* kLinkTimeoutUs
  Offset,          \* the peer's clock minus ours
  MaxDatagrams,    \* bound on the datagrams and requests around at one time
  MaxCopies,       \* bound on the datagrams copied
  MaxProbes,       \* bound on the probes sent in a session
  MaxRestarts,     \* bound on the restarts of the session
  Horizon          \* bound on the clock

ASSUME ProberAssumption ==
  /\ MaxOutstanding \in Nat \ {0}
  /\ {Timeout, LinkTimeout, MaxDatagrams, MaxCopies, MaxProbes,
      MaxRestarts, Horizon} \subseteq Nat
  /\ Offset \in Int

VARIABLES
  now,
  prober,   \* the fields of Prober
  network,  \* the PINGs and PONGs in flight or waiting in a socket
  asked,    \* the PINGs the peer has received and not yet answered
  budget,   \* the copies and restarts left
  born,     \* history: when this session began
  burst     \* history: the departures due_probe() scheduled at this instant

vars == <<now, prober, network, asked, budget, born, burst>>

Slots == 1 .. MaxOutstanding

Free == [id |-> 0, sent |-> 0, outstanding |-> FALSE]

Counters == {"sent", "replied", "timedOut", "stale", "badEcho", "impossible",
             "withdrawn"}

\* Prober::reset(), and start() after it.
NewProber ==
  [slots |-> [i \in Slots |-> Free], nextId |-> 1, pacer |-> StoppedPacer,
   window |-> <<>>, stats |-> [c \in Counters |-> 0],
   lastReply |-> 0, lastRtt |-> 0]

StartedProber(time) == [NewProber EXCEPT !.pacer = StartPacer(time)]

Init ==
  /\ now = 1
  /\ prober = StartedProber(now)
  /\ network = {}
  /\ asked = {}
  /\ budget = [copies |-> MaxCopies, restarts |-> MaxRestarts]
  /\ born = now
  /\ burst = 0

Outstanding == {i \in Slots : prober.slots[i].outstanding}

\* find(): the slots outstanding under a request id.
Matching(id) == {i \in Outstanding : prober.slots[i].id = id}

-------------------------------------------------------------------------------
(* The probing half of the network loop *)

\* Mutant: a probe is known by its slot.
FilledBySlot(p, slot, time, sent) ==
  [p EXCEPT
     !.slots[slot] = [id |-> slot, sent |-> time, outstanding |-> sent],
     !.stats[IF sent THEN "sent" ELSE "withdrawn"] = @ + 1]

\* A slot is taken for a probe; withdraw() frees it if the socket refuses the
\* datagram.
Filled(p, slot, time, sent) ==
  [p EXCEPT
     !.slots[slot] = [id |-> p.nextId, sent |-> time, outstanding |-> sent],
     !.nextId = @ + 1,
     !.stats[IF sent THEN "sent" ELSE "withdrawn"] = @ + 1]

\* due_probe(), and withdraw() where the socket refuses.
Probed(p, time, sent) ==
  LET unused == {i \in Slots : ~p.slots[i].outstanding}
      paced  == [p EXCEPT !.pacer = AdvancePacer(@, time)]
  IN  IF ~PacerDue(p.pacer, time) THEN p
      ELSE IF unused = {} THEN paced
      ELSE Filled(paced, Min(unused), time, sent)

\* Mutant: an expired probe is not counted.
ExpiredUncounted(p, time) ==
  [p EXCEPT !.slots = [i \in Slots |->
     [p.slots[i] EXCEPT !.outstanding = @ /\ time - p.slots[i].sent < Timeout]]]

\* expire(): the probes out of patience are retired and counted.
Expired(p, time) ==
  LET late == {i \in Slots : /\ p.slots[i].outstanding
                             /\ time >= p.slots[i].sent
                             /\ time - p.slots[i].sent >= Timeout}
  IN  [p EXCEPT
         !.slots = [i \in Slots |->
                      [p.slots[i] EXCEPT !.outstanding = @ /\ i \notin late]],
         !.stats["timedOut"] = @ + Cardinality(late)]

\* Mutant: a link that was up stays up.
LinkOfOnceUp(p, time) == IF p.lastReply = 0 THEN "Probing" ELSE "Up"

\* The state of the link that publish_probe_stats() shows.
LinkOf(p, time) ==
  IF p.lastReply = 0 THEN "Probing"
  ELSE IF time - p.lastReply <= LinkTimeout THEN "Up" ELSE "Lost"

Ping(slot) == [kind |-> "ping", id |-> slot.id, t1 |-> slot.sent]

\* probe_if_due() and expire() of one pass; `sent` is whether the socket takes
\* the datagram.
Service(sent) ==
  LET probed == Probed(prober, now, sent)
      filled == {i \in Slots : probed.slots[i].outstanding} \ Outstanding
  IN  /\ filled # {} => /\ prober.stats["sent"] < MaxProbes
                        /\ Cardinality(network \cup asked) < MaxDatagrams
      /\ prober' = Expired(probed, now)
      /\ network' = network \cup {Ping(probed.slots[i]) : i \in filled}
      /\ burst' = IF probed.pacer = prober.pacer THEN burst ELSE burst + 1
      /\ UNCHANGED <<now, asked, budget, born>>

-------------------------------------------------------------------------------
(* Replies *)

\* A sample with its history, by one clock: what the PING behind a PONG and the
\* PONG itself spent under way, when the peer answered, and whether the PING was
\* of this session.
Witnessed(s, pong, t4) ==
  [rtt |-> s.rtt, offset |-> s.offset,
   answered |-> pong.t3 - Offset,
   trueRtt |-> (pong.t2 - Offset - pong.t1) + (t4 - (pong.t3 - Offset)),
   own |-> pong.t1 >= born]

\* on_pong() for a reply whose probe is outstanding in `slot`.
Replied(p, slot, pong, t4) ==
  LET t1   == p.slots[slot].sent
      echo == IF pong.t1 # t1 THEN 1 ELSE 0
      done == [p EXCEPT !.slots[slot].outstanding = FALSE,
                        !.stats["badEcho"] = @ + echo]
      s    == Measured(t1, pong.t2, pong.t3, t4)
  IN  IF ~Plausible(t1, pong.t2, pong.t3, t4)
      THEN [done EXCEPT !.stats["impossible"] = @ + 1]
      ELSE [done EXCEPT !.stats["replied"] = @ + 1,
                        !.window = Remembered(@, Witnessed(s, pong, t4)),
                        !.lastReply = t4, !.lastRtt = s.rtt]

\* on_pong(): a reply to no outstanding probe is only counted.
Receive(pong) ==
  prober' = IF Matching(pong.id) = {}
            THEN [prober EXCEPT !.stats["stale"] = @ + 1]
            ELSE Replied(prober, Min(Matching(pong.id)), pong, now)

\* receive_available() takes a PONG from the socket.
OnPong(pong) ==
  /\ pong.kind = "pong"
  /\ Receive(pong)
  /\ network' = network \ {pong}
  /\ UNCHANGED <<now, asked, budget, born, burst>>

-------------------------------------------------------------------------------
(* The peer, the network and time *)

\* The peer has a PING and notes when it came (t2).
Noted(ping) == [id |-> ping.id, t1 |-> ping.t1, t2 |-> now + Offset]

Ask(ping) ==
  /\ ping.kind = "ping"
  /\ network' = network \ {ping}
  /\ asked' = asked \cup {Noted(ping)}
  /\ UNCHANGED <<now, prober, budget, born, burst>>

\* encode_pong_for() and the send, as late as the peer gets to it (t3).
Answer(request) ==
  /\ asked' = asked \ {request}
  /\ network' = network \cup
       {[kind |-> "pong", id |-> request.id, t1 |-> request.t1,
         t2 |-> request.t2, t3 |-> now + Offset]}
  /\ UNCHANGED <<now, prober, budget, born, burst>>

Lose(datagram) ==
  /\ network' = network \ {datagram}
  /\ UNCHANGED <<now, prober, asked, budget, born, burst>>

\* A copy of a PING reaches the peer, or a copy of a PONG us; the datagram itself
\* stays in flight.
Copy(datagram) ==
  /\ budget.copies > 0
  /\ budget' = [budget EXCEPT !.copies = @ - 1]
  /\ \/ /\ datagram.kind = "ping"
        /\ asked' = asked \cup {Noted(datagram)}
        /\ UNCHANGED prober
     \/ /\ datagram.kind = "pong"
        /\ Receive(datagram)
        /\ UNCHANGED asked
  /\ UNCHANGED <<now, network, born, burst>>

\* The user stops the session and starts it again on the same ports, which
\* takes time; what is under way stays under way.
Restart ==
  /\ now < Horizon
  /\ budget.restarts > 0
  /\ budget' = [budget EXCEPT !.restarts = @ - 1]
  /\ now' = now + 1
  /\ prober' = StartedProber(now')
  /\ born' = now'
  /\ burst' = 0
  /\ UNCHANGED <<network, asked>>

Tick ==
  /\ now < Horizon
  /\ now' = now + 1
  /\ burst' = 0
  /\ UNCHANGED <<prober, network, asked, budget, born>>

Next ==
  \/ \E sent \in BOOLEAN : Service(sent)
  \/ \E d \in network : OnPong(d) \/ Ask(d) \/ Lose(d) \/ Copy(d)
  \/ \E request \in asked : Answer(request)
  \/ Restart
  \/ Tick

Spec == Init /\ [][Next]_vars

-------------------------------------------------------------------------------
(* Properties *)

\* Every probe that left is still waited for, or was counted exactly once, as
\* answered, given up on, or answered impossibly, whatever is lost, copied,
\* late or refused by the socket (due_probe, withdraw, on_pong, expire).
ProbesAccounted ==
  prober.stats["sent"] = Cardinality(Outstanding) + prober.stats["replied"]
                         + prober.stats["timedOut"] + prober.stats["impossible"]

\* However long the loop stalls, no more probes depart at one instant than the
\* schedule's tolerance holds, one that was due and one that is
\* (Pacer::advance under due_probe).
BurstBounded == burst <= Tolerance \div Interval + 2

Samples == {prober.window[i] : i \in DOMAIN prober.window}

\* The round trip of every accepted exchange is the time its own PING and PONG
\* were under way, and never of a reply "paired with some other probe's t1"
\* (find and on_pong, prober.cpp:95-97).
RttIsTrue == \A s \in Samples : s.rtt = s.trueRtt

\* So it is for every reply to a PING of this session, whatever was lost, copied,
\* given up on or answered late.
RttTrueInSession == \A s \in Samples : s.own => s.rtt = s.trueRtt

\* Every sample of this session that the clock estimate may be taken from is off
\* by at most half its round trip, and the half microsecond the division drops
\* (ClockSync::observe, offset_uncertainty_us).
OffsetBounded ==
  \A s \in Samples : s.own =>
    LET error == 2 * (s.offset - Offset)
    IN  error <= s.rtt + 1 /\ -error <= s.rtt + 1

\* While the link is shown as up, the peer was there a short time ago: it sent
\* the last reply accepted no earlier than the link's timeout and the longest
\* round trip that is believed, however long the reply then waited
\* (session.cpp:499-508, session.hpp:220-224).
LinkIsFresh ==
  LinkOf(prober, now) = "Up" =>
    LET last == prober.window[Len(prober.window)]
    IN  last.own => now - last.answered <= LinkTimeout + MaxPlausible
===============================================================================
