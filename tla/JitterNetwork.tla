---------------------------- MODULE JitterNetwork ----------------------------
(***************************************************************************)
(* One talker, a datagram network and the listener's jitter buffer.        *)
(*                                                                         *)
(* The talker follows the protocol (protocol/specification.md 3.1-3.3): a  *)
(* frame per frame time while talking, START on the first packet of a      *)
(* talkspurt and END on the last, sequence numbers without holes, and      *)
(* timestamps that keep counting through silence.  It takes a new stream   *)
(* id per talkspurt (push to talk), or keeps one stream with gaps (full    *)
(* duplex).                                                                *)
(*                                                                         *)
(* The network may lose, duplicate, delay and reorder within the budgets   *)
(* below.  The device pulls one frame per frame time and may stall.  A     *)
(* datagram waits in the receive ring for the next playout callback, which *)
(* drains the ring before it pulls, and push() reads no clock but the      *)
(* arrival time taken at the socket: pushing at arrival is the same        *)
(* computation as long as a callback pulls one frame.                      *)
(***************************************************************************)
EXTENDS JitterBuffer

CONSTANTS
  FirstSequence,   \* first sequence number and timestamp of the n-th stream
  FirstTimestamp,
  MaxStreams,      \* bound on the streams
  Profiles         \* the environments: whether the talker takes a new stream
                   \* for every talkspurt (perTalkspurt); what a packet's
                   \* redundancy and its being larger than a slot can be
                   \* (redundant, oversize); the sets of decoder calls that may
                   \* succeed (decoders); whether the network delivers in the
                   \* order sent (ordered); the bounds on a packet's time in
                   \* it (delay), on losses, copies, stalls of the device,
                   \* packets sent, closes and the clock (horizon)

ASSUME NetworkAssumption ==
  /\ MaxStreams \in Nat \ {0}
  /\ FirstSequence \in [1 .. MaxStreams -> Serials]
  /\ FirstTimestamp \in [1 .. MaxStreams -> Serials]
  /\ \A p \in Profiles :
       /\ {p.perTalkspurt, p.ordered} \subseteq BOOLEAN
       /\ p.redundant \subseteq BOOLEAN /\ p.oversize \subseteq BOOLEAN
       /\ p.decoders \subseteq SUBSET {"decode", "recover", "conceal"}
       /\ {p.delay, p.lost, p.copies, p.stalls, p.sends, p.closes, p.horizon}
            \subseteq Nat
       /\ p.horizon < Half

VARIABLES
  jb,       \* the jitter buffer
  now,      \* the local clock
  talker,   \* the sender: its stream, next sequence and timestamp
  network,  \* packets in flight
  profile,  \* the environment of this behaviour
  budget,   \* what it may still do
  pulled,   \* has the device pulled in this frame time?
  out,      \* what the last pull produced
  verdict,  \* what the last push returned, and whether its deadline had passed
  played    \* history: the packets that went to the speaker

vars ==
  <<jb, now, talker, network, profile, budget, pulled, out, verdict, played>>

NothingOut == [source |-> "None"]

Init ==
  /\ jb = OpenBuffer
  /\ now = 1
  /\ talker = [stream |-> 0, sequence |-> 0, timestamp |-> 0, talking |-> FALSE]
  /\ network = {}
  /\ profile \in Profiles
  /\ budget = [lost |-> profile.lost, copies |-> profile.copies,
               stalls |-> profile.stalls, sends |-> profile.sends,
               closes |-> profile.closes]
  /\ pulled = FALSE
  /\ out = NothingOut
  /\ verdict = [result |-> "None", inTime |-> TRUE]
  /\ played = {}

-------------------------------------------------------------------------------
(* The talker, once per frame time. *)

Packet(t, start, end, redundant, oversized) ==
  [stream |-> t.stream, sequence |-> t.sequence, timestamp |-> t.timestamp,
   start |-> start, end |-> end, redundant |-> redundant,
   oversized |-> oversized, sent |-> now']

\* The talker at the start of a talkspurt: on a fresh stream, or resuming its
\* stream after the gap.
Opening ==
  IF talker.stream = 0 \/ profile.perTalkspurt
  THEN LET n == talker.stream + 1
       IN  [talker EXCEPT !.stream = n, !.sequence = FirstSequence[n],
                          !.timestamp = FirstTimestamp[n], !.talking = TRUE]
  ELSE [talker EXCEPT !.talking = TRUE]

Emit(t, start, end) ==
  /\ \E r \in profile.redundant, o \in profile.oversize :
       network' = network \cup {Packet(t, start, end, r, o)}
  /\ talker' = [t EXCEPT !.sequence = Wrap(@ + 1),
                         !.timestamp = Wrap(@ + 1), !.talking = ~end]

Talk ==
  \/ /\ ~talker.talking
     /\ profile.perTalkspurt => talker.stream < MaxStreams
     /\ budget.sends > 1
     /\ Emit(Opening, TRUE, FALSE)
  \/ /\ talker.talking
     /\ \E end \in {budget.sends = 1, TRUE} : Emit(talker, FALSE, end)

\* Out of a talkspurt the sample clock runs on and nothing is sent.
Quiet ==
  /\ ~talker.talking
  /\ talker' = [talker EXCEPT !.timestamp = Wrap(@ + 1)]
  /\ UNCHANGED network

\* Between frame times only the clock moves.
FrameBoundary == now' % FrameTicks = 0

Tick ==
  /\ now < profile.horizon
  /\ now' = now + 1
  /\ \A p \in network : p.sent + profile.delay > now
  /\ IF FrameBoundary
     THEN /\ pulled \/ budget.stalls > 0
          /\ \/ /\ Talk
                /\ budget' = [budget EXCEPT
                     !.sends = @ - 1,
                     !.stalls = IF pulled THEN @ ELSE @ - 1]
             \/ /\ Quiet
                /\ budget' = [budget EXCEPT
                     !.stalls = IF pulled THEN @ ELSE @ - 1]
          /\ pulled' = FALSE
     ELSE UNCHANGED <<talker, network, budget, pulled>>
  /\ UNCHANGED <<jb, profile, out, verdict, played>>

-------------------------------------------------------------------------------
(* The network and the listener. *)

Receive(p) ==
  /\ verdict' = [result |-> PushVerdict(jb, p, now),
                 inTime |-> now <= DeadlineOf(Prepared(jb, p, now), p.timestamp)]
  /\ jb' = Pushed(jb, p, now)
  /\ UNCHANGED <<now, talker, profile, pulled, out, played>>

Deliver(p) ==
  /\ profile.ordered => \A other \in network : p.sent <= other.sent
  /\ Receive(p)
  /\ network' = network \ {p}
  /\ UNCHANGED budget

\* The packet is delivered and a copy of it stays in the network.
Duplicate(p) ==
  /\ budget.copies > 0
  /\ Receive(p)
  /\ budget' = [budget EXCEPT !.copies = @ - 1]
  /\ UNCHANGED network

Lose(p) ==
  /\ budget.lost > 0
  /\ network' = network \ {p}
  /\ budget' = [budget EXCEPT !.lost = @ - 1]
  /\ UNCHANGED <<jb, now, talker, profile, pulled, out, verdict, played>>

\* One frame for the device: silence while the buffer waits, and otherwise
\* whatever the buffer finds for the cursor.
Pull(ok) ==
  LET ready  == Ready(jb, now)
      source == IF ~jb.open \/ Waits(jb, now) THEN "Silence"
                ELSE PullSource(ready, ok)
      frame  == NextFrame(ready)
      id     == <<frame.stream, frame.sequence>>
  IN  /\ ~pulled
      /\ pulled' = TRUE
      /\ jb' = Pulled(jb, now, ok)
      /\ IF source = "Packet"
         THEN /\ out' = [source |-> source, at |-> now,
                         due |-> DeadlineOf(ready, frame.timestamp),
                         again |-> id \in played]
              /\ played' = played \cup {id}
         ELSE /\ out' = [source |-> source]
              /\ UNCHANGED played
      /\ UNCHANGED <<now, talker, network, profile, budget, verdict>>

\* close() and open() of the owner.  open() closes first, and the decoder may
\* refuse to open.
Close ==
  /\ jb.open
  /\ budget.closes > 0
  /\ budget' = [budget EXCEPT !.closes = @ - 1]
  /\ jb' = ClosedBuffer
  /\ out' = NothingOut
  /\ UNCHANGED <<now, talker, network, profile, pulled, verdict, played>>

Open(opened) ==
  /\ budget.closes > 0
  /\ budget' = [budget EXCEPT !.closes = @ - 1]
  /\ jb' = IF opened THEN OpenBuffer ELSE ClosedBuffer
  /\ out' = NothingOut
  /\ UNCHANGED <<now, talker, network, profile, pulled, verdict, played>>

\* The clock's bound is reached and nothing is left to do: the only way the
\* model, not the system, comes to rest.
Finish == now = profile.horizon /\ UNCHANGED vars

Next ==
  \/ Tick
  \/ \E p \in network : Deliver(p) \/ Duplicate(p) \/ Lose(p)
  \/ \E ok \in profile.decoders : Pull(ok)
  \/ Close
  \/ \E opened \in BOOLEAN : Open(opened)
  \/ Finish

Spec == Init /\ [][Next]_vars

-------------------------------------------------------------------------------

\* playout_ts_ is a projection that is only ever corrected forward
\* (peek_and_align), so it must never run ahead of a frame still to be played:
\* if it did, that frame and every one after it would be played late for good.
ProjectionNeverAhead ==
  \A i \in DOMAIN jb.queue.slots :
    LET f == jb.queue.slots[i]
    IN  Distance(jb.playoutTs, f.timestamp)
          >= Distance(jb.queue.cursor, f.sequence)

\* Anchoring and re-anchoring never build up delay: whatever is buffered is
\* due within the target delay plus the worst delay of the network.
LatencyBounded ==
  \A i \in DOMAIN jb.queue.slots :
    DeadlineOf(jb, jb.queue.slots[i].timestamp) <= now + TargetDelay + profile.delay

\* No packet goes to the speaker twice ("a duplicate is counted and played
\* once", test_jitter_buffer.cpp:272) unless the network copies one: see
\* NoFrameVanishes for what a second START does.
PlayedOnce == profile.copies = 0 /\ out.source = "Packet" => ~out.again

\* "Moving the playout position onto the real timestamp is what makes the
\* deadline check below wait out the silence instead of playing the frame early"
\* (jitter_buffer.cpp:268-270): no frame goes to the speaker before its deadline.
NeverEarly == out.source = "Packet" => out.at >= out.due

\* A frame is not played further behind its deadline than max_catchup_frames,
\* beyond which the cursor jumps (jitter_buffer.cpp:315-334).
NeverTooLate ==
  out.source = "Packet" => out.at < out.due + (MaxCatchup + 1) * FrameTicks

\* A frame is played neither too late nor before its deadline, unless the jump
\* of a device that stalled ends inside a gap of its stream: the frame beyond
\* the gap is then played early.
PlayedInTime ==
  /\ NeverTooLate
  /\ profile.perTalkspurt \/ profile.stalls = 0 => NeverEarly

\* The environment is one the buffer is built for: nothing is lost, copied or
\* oversized, nobody stalls or closes, and the target delay is longer than the
\* network's.  A packet that takes as long as the target may arrive after the
\* pull of the very tick it is due.
Covered ==
  /\ profile.lost + profile.copies + profile.stalls + profile.closes = 0
  /\ profile.delay < TargetDelay
  /\ TRUE \notin profile.oversize

\* A packet is called late only if it arrived after its playout deadline
\* (specification.md 6.2), whatever talkspurts and gaps came before.
LateMeansLate ==
  Covered /\ verdict.result \in {"Late", "TooOld"} => ~verdict.inTime

\* Every packet of the live stream is in flight, held or played: nothing sent
\* inside the buffer's tolerance vanishes ("a swapped pair inside the buffer
\* depth is played in order", test_jitter_buffer.cpp:227).
NoFrameVanishes ==
  LET n == talker.stream
      Sent == {Wrap(FirstSequence[n] + k) :
                 k \in 0 .. Wrap(talker.sequence - FirstSequence[n]) - 1}
  IN  Covered /\ jb.hasStream /\ jb.streamId = n =>
        \A s \in Sent :
          \/ \E p \in network : p.stream = n /\ p.sequence = s
          \/ Holds(jb.queue, s)
          \/ <<n, s>> \in played

\* Where nothing went wrong nothing is invented: "a counter that is non-zero
\* when nothing went wrong is a counter nobody reads"
\* (jitter_buffer.hpp:245-248).
NoConcealment == Covered => out.source # "Concealment"
===============================================================================
