# A verification project for full-duplex-radio

TLA+ models of the parts of this repository that carry its logic, TLC runs that
check them on small instances, and TLAPS proofs of the most important results.
Paths are relative to the repository.

## The system

Two phones (or a phone and a workstation) exchange Opus frames over UDP. The
core library (`core/`) is portable and mostly free of clocks and threads: every
time arrives as an argument. The Android application (`android/`) supplies the
threads: a capture callback, a playback callback and a network thread. The tools
(`tools/`) measure a path or impair it.

```
 microphone callback --SpscRing<pcm>--> network thread --UDP--> peer
 peer --UDP--> network thread --SpscRing<datagram>--> playback callback
                    |                                      |
             Prober, SeqTracker                JitterBuffer (ReorderQueue, decoder)
```

### Inventory

| Component | State | Operations | Interaction | What makes it correct |
|---|---|---|---|---|
| serial arithmetic (`core/include/radio/serial.hpp`) | none | `distance`, `precedes` | used by everything that compares sequence numbers or timestamps | order survives the wrap |
| reorder queue (`core/src/audio/reorder_queue.cpp`) | circular slots, cursor, highest, held, counters | start, insert, peek, advance, skip_to, drop_expired, resync, reset | owned by the jitter buffer | a frame is found where it was put; the cursor goes forward; counters balance |
| jitter buffer (`core/src/audio/jitter_buffer.cpp`) | queue, anchor, projected timestamp, stream id, end mark, concealment run | open, close, push, pull | both from the playback callback; packets come from the ring | frames play once, in order, at their deadline; delay does not build up |
| ring (`core/include/radio/spsc_ring.hpp`) | two monotonic atomic indices, a cached copy of the other side's index on each side, slots | push, pop, discard, size, reset | one producer and one consumer thread, `size` from any | first in first out, no data race |
| sequence tracker (`core/src/metrics/seq_tracker.cpp`) | bitmap, base, highest, counters | observe, reset, expected, lost | network thread, tools | loss and duplicates are those of the packets that came |
| pacer (`core/src/net/pacer.cpp`) | next departure | start, due, advance, reset | prober, `radiobench` | no drift, no burst after a stall |
| prober (`core/src/net/prober.cpp`) and clock estimate (`core/src/time/clock_sync.cpp`) | table of outstanding probes, ids, counters; window of samples | due_probe, withdraw, on_pong, expire; observe | network thread; the peer answers with encode_pong_for | every probe counted once; a round trip is of one exchange; the offset is within half of it |
| session (`android/.../session.cpp`) | socket, codec, rings, talkspurt, receive accounting, link state, network thread | start, stop, callbacks, network loop, snapshot | four threads | talkspurts are framed by START and END; nothing is reset under a thread that uses it; the link state is fresh |
| audio engine (`android/.../audio_engine.cpp`) | two streams, ring, priming flag, pipeline | start, stop, callbacks, error callback | device threads | no reset under a live callback; the head start is dropped; a failed start leaves nothing open |
| application and bridge (`MainActivity.kt`, `jni_bridge.cpp`) | running, mode, permission | Connect, push to talk, onStop | user interface thread calls engine and session | nothing is left running; no handler hangs; the microphone closes |
| wire format (`core/src/proto/proto.cpp`), socket (`core/src/net/udp_socket.cpp`) | none; a queue of datagrams | parse, encode; send, wait, receive | every sender and receiver | nothing malformed is accepted |
| impairment simulator (`core/src/sim/impairment.cpp`) | burst state, token bucket | decide | relay, wavloop | loss, rate and delay as configured |
| relay (`tools/impair/main.cpp`) | delay queue, client, log | receive, release, drain | between a tool and the responder | the log says what happened; nothing disappears uncounted |
| benchmark modes (`tools/radiobench/mode_*.cpp`) | pacer, probe under way; trackers and estimators; records of stamps | send, ping, respond, wavloop | through the relay, or over the loopback interface | what is reported is what the network did |
| jitter estimator (`core/src/metrics/jitter_estimator.cpp`) | last arrival and timestamp, peak | anchor, observe | network thread, respond | network jitter only, across the wrap |
| histogram, trace, WAV files, codec, clock, command lines, benchmark matrix | see `PROJECT.json` | | | |

Hard behaviour: two threads on one ring with relaxed and cached indices; the user
interface thread starting and stopping streams and a session whose callbacks and
network thread are live; device errors in the middle of a start; reordered,
duplicated, late and lost packets; wrap of sequence numbers and timestamps;
silent gaps in which timestamps advance and sequence numbers do not; a device or
a loop that stalls; replies that arrive after a timeout or a restart; partial
failures of a codec or a socket; queues that fill up and are drained at the end.
`PROJECT.json` lists them under `hazards`, each at its line.

## Modules

| Module | Models | Notes |
|---|---|---|
| `Serial` | `serial.hpp` | a word of `2 * Half` values |
| `ReorderQueueOps` | the queue's methods, as operators on the record of its fields | shared by `ReorderQueue` and `JitterBuffer` |
| `ReorderQueue` | the queue alone, one action per method, arguments arbitrary | with its counters, and `origin`, `flushed` as history |
| `FrameTimeline` | abstract: a set of frames on a timeline and a cursor | `ReorderQueue` implements it |
| `JitterBuffer` | the jitter buffer's methods, as operators on the record of its fields | decoder calls are outcomes |
| `JitterNetwork`, `MCJitter` | a talker, a network, a device that pulls, and the jitter buffer | an environment is a value of `profile` |
| `SpscRing` | the ring, one action per load, copy and store | `Visible` is what an acquire load may return |
| `BoundedFifo` | abstract: a bounded queue with atomic bulk calls | `SpscRing` implements it |
| `SeqTrackerOps` | the tracker's methods, as operators | shared by `SeqTracker`, `Talk` and `Bench` |
| `SeqTracker`, `MCSeqTracker` | the tracker against the set of packets it has counted | |
| `Pacer`, `ClockSync`, `JitterEstimator` | the methods of these classes, as operators | |
| `Prober`, `MCProber` | prober, clock estimate, link state, a network, a peer, a network loop | composes `Pacer`, `ClockSync` |
| `AudioEngine` | the device streams: start, stop and callbacks, step by step | |
| `App` | screen, bridge, session start and stop, network thread | composes `AudioEngine` |
| `Wire`, `UdpSocket` | which datagrams are made and taken; the socket | |
| `Talk`, `MCTalk` | push to talk from one phone to the other | composes `Wire`, `UdpSocket`, `SeqTrackerOps` |
| `Impairment` | the network model: the set of decisions `decide()` can make | |
| `Bench`, `MCBench` | `send` or `ping`, the relay and `respond` | composes the eight modules above it needs |
| `Wavloop`, `MCWavloop` | `wavloop` | composes `JitterBuffer`, `Impairment`, `Pacer` |
| `SerialProofs`, `ReorderQueueProofs`, `SpscRingProofs`, `ProberProofs`, `SeqTrackerProofs`, `SessionProofs` (of `Talk` and `App`), `BenchProofs`, `JitterProofs` | proofs | see below |

`map` in `PROJECT.json` gives the lines of every definition.

**Reorder queue.** `queue.slots` is a function on the occupied indices, so
"occupied" is membership in its domain. `Insert(frame, oversized, now)` is
`insert()` whole: the payload test, the first arrival fixing the cursor, the
window tests in the code's order, the deadline test, the free-slot test, the
store. A frame is its sequence and its deadline.

**Jitter buffer.** `Pushed` is `push()` in four parts: `Adopt` (which stream),
`Place` (anchor, restart or re-anchor on START), `NoteEnd`, `Inserted` (with the
resynchronisation of `Jumped` when the queue says too far ahead). `Pulled` is
`pull()`: `Align` (peek_and_align), `Waits` (before the deadline), `CatchUp`
beyond the tolerance, then packet, forward correction, concealment or silence.
Timestamps count frames; ticks of the clock are `FrameTicks` per frame. The
talker of `JitterNetwork` follows `transmit_available()` with a new stream per
talkspurt (`perTalkspurt`), or is a peer that keeps one stream over
its gaps, as `protocol/specification.md` 3.2 lets a full-duplex sender do. A packet is
pushed when it arrives, although it waits in the ring for the next callback:
`push()` uses the arrival time only, and the callback drains the ring before it
pulls. Callbacks that pull several frames at once are not modelled.

**Ring.** The indices are atomics read with acquire and written with release;
each side caches the other's index. An acquire load may return any
value between the cached one and the current one (`Visible`), which covers both
the cache and the delay of visibility. Copies are one item at a time, so that
a race would show. `Reset` requires both sides idle, as its comment does;
`App` shows that its callers keep to that.

**Sequence tracker.** The sender's packets have unbounded positions; the tracker
sees them cut to the word. Positions counted are kept as history, and properties
compare the bitmap and the counters with that set. `Observe` takes only packets
less than half the word from the furthest, the limit RFC 1982 sets.

**Prober.** `Service` is the probing half of a pass of `network_loop()`: one
reading of the clock for `due_probe` (and `withdraw` when the socket refuses) and
`expire`. Replies are taken at any time. The peer notes t2 on arrival and
answers later. `Restart` is a stop and start on the same ports while datagrams
are under way; it takes a tick. `LinkOf` is what `publish_probe_stats()` shows.

**Application.** A handler of the user interface thread is the sequence of steps
it still has to take (`ui`); `start()` and `stop()` of the engine and the session
are such sequences, and `Fail` replaces the rest by a `stop()`. One step is one
call with an effect other threads can see, and the callbacks, the
error callback and the network thread run between any two. The callbacks are three
steps: begin (reading `pipeline_`), prime, and the work with the return. There is
one activity instance, whose `onStop()` ran before it is shown again. The
race on the plain `primed_` is an interleaving of its reads and writes.

**Talk.** `Transmit(encoded, sent)` is one turn of the loop of
`transmit_available()`, with the outcomes of the encoder and the socket.
`handed`, `heard` and `after` are history. `Receive` is `receive_available()` for
one datagram: the cut to the buffer by the socket, the parsers, the accounting.
`Noise` delivers what no encoder of this version makes, with fields that would be
plausible: empty, short, of another version, with reserved flags, control packets.

**Bench.** Two tools, three processes, one clock; the responder's is off by
`Offset`. Everybody acts at once on what is there, except that the sender may be
late (`Stall`), and sleeps until what it waits for. The relay is stopped once the
tool has ended, then drains. `relay.log` is the log the tool writes.
`Decisions(c, e, bytes, now)` is the set of decisions the seeded generator
allows. Data is counted in words of four bytes.

**Wavloop.** A tick is one turn of the loop with the encoder's and the socket's
outcome; a datagram comes back from the loopback interface within the tick, or
while the loop waits. `std::sort` on the release times leaves ties open
(`ReleaseOrders`). `records` holds the stamps; `PulledSequence` is the number the
pull reports, which the loop uses to stamp, also when nothing was played.

## Runs

Passing:

| Run | Question | Bounds |
|---|---|---|
| `reorder_queue` | does any sequence of calls keep slots, count, highest mark and books consistent, and is the queue a timeline? | word of 8, capacity 2: a frame can be in the window, beyond it, late or too old, on either side of the wrap; 3 accepted frames, 4 cursor moves (two laps), 1 resync |
| `jitter` | is every frame played once and in its time, does delay not build up, and on a path the buffer covers is nothing lost, concealed or called late? | four environments: delay 3 against a target of 2, one loss, stalls (5 packets, 10 ticks); both styles of talker in order (7 packets, 13 ticks: talkspurts and gaps); one stream with gaps into a device that stalls (6 packets, 12 ticks); both styles with copies, failing decoders, oversized payloads, close and open (4 packets, 6 ticks). Streams start just before the wrap |
| `spsc_ring` | race freedom, order of the indices, a bounded queue that serves whoever polls it | capacity 2 in a word of 4, runs of 2: the index wraps after two laps |
| `seq_tracker` | bitmap, verdicts and loss | window 4, positions -5 to 8: more than three laps, across the wrap |
| `prober` | accounting, bursts, true round trips, bounded offset, a fresh link | 2 slots, 2 probes sent in a session, timeout 2 of 5 ticks (a stall of twice the pacer's tolerance), one copy, one restart, peer's clock behind |
| `app` | is anything reset, closed or left running under a live thread, and does every handler return? | 3 presses of Connect, so a run after a failed and a stopped one; one disconnection at any moment; every call may fail; a ring of 4 bursts and a cushion of 2, so there is a head start to drop |
| `talk` | are streams well formed, is the loss true, does the microphone close? | 2 talkspurts of 2 packets and END, a ring of 2 frames, 2 faults (copies, malformed datagrams, restarts of either side), any packet lost or reordered, streams across the wrap |
| `bench` | do the relay's books, its log and the reports of the tools agree? | a send of 6 ticks and 2 probes with timeout 5, a queue of 2, so that it fills; 4 scenarios: uniform jitter and loss, Pareto, burst loss with reordering and copies, a rate limit with copies; one refused datagram; timestamps across the wrap |
| `wavloop` | is the tail played, and is no latency understated? | 3 frames in half-frame ticks; uniform with loss, normal, reordering with burst loss and copies; one failure of encoder or socket, one tick of lateness |

Clocks, sends, copies, losses, stalls, errors and restarts are bounded by named
constants. `Finish` is the end of the bounded clock, or of the loop. Deadlock
is checked in every run.

Runs that end in a violation state what a comment or test says and show what the
code does:

| Run | Statement | What the code does |
|---|---|---|
| `start_overtaken` | a swapped pair is played in order | START after its successor throws the successor away |
| `spsc_ring_size` | size is an occupancy | from a third thread it may be negative, that is, huge |
| `prober_restart` | no round trip is made of two exchanges | ids restart at 1 with the session, and a late reply matches |

What the passing runs exclude, by their bounds or in the property:
`NoFrameVanishes`, `NoConcealment` and `LateMeansLate` speak of a path without loss,
copies, stalls or closes whose delay is shorter than the target (`Covered`; a packet
that takes as long as the target may come after the pull of the tick it is due in,
and is concealed), and the run has it in order; `PlayedInTime` leaves out frames played early after a stall in a stream with gaps (below);
`PlayedOnce` is without copies, since a copy of a START that comes after its
original was played has the same cause as `start_overtaken` and is played again.
`RttTrueInSession`, `OffsetBounded` and `LinkIsFresh` speak of replies to the
session's own PINGs. `LossMatchesLog` speaks of runs in which no socket refused
anything and the drain gave nothing up: the log has no row for either.
`wavloop` leaves out the Pareto shape and starts so that sequence 0 is the
last frame; both exclusions are findings, below.

### Other disagreements of code and text

Met while modelling; there is no run for them. Those marked (\*) were confirmed with
TLC on a variant of a run.

* (\*) A delayed copy of the START of the previous talkspurt tears down the current
  stream (`jitter_buffer.cpp:172`), though START or idleness is required "so a
  straggler from the previous talkspurt cannot tear down the current one"
  (`jitter_buffer.hpp:128-131`).
* (\*) `NeverEarly` fails in the environment `Stalling`: after a stall the jump counts the
  time of a silent gap as sequence numbers (`jitter_buffer.cpp:321`), and the frame
  it ends on is played without a second look at its deadline (`:331`), though
  aligning "is what makes the deadline check below wait out the silence instead of
  playing the frame early" (`jitter_buffer.cpp:268-270`).
* (\*) `primed_` is written by `start()` (`audio_engine.cpp:158`) when the playback
  callback may be running; `audio_engine.hpp:194-196` says it is "Touched only by
  the output callback". `HeadStartDropped` holds all the same.
* (\*) The relay sends what is due in the order of its slots
  (`tools/impair/main.cpp:326-347`), so two packets due in one pass may leave
  against the order of their release times, which 38-41 relies on.
* (\*) A Pareto delay has no bound, and the drain of wavloop allows three times the
  scale: the tail of the file can be cut, against `mode_wavloop.cpp:467-469`.
* (\*) Until a packet has arrived a pull reports sequence 0, so if 0 is one of the
  file's frames, and it and those before it are lost, it is stamped as played
  before the first arrival and its latency is understated.
* A disconnection between `requestStart()` and `running_.store(true)`
  (`audio_engine.cpp:160`) leaves the engine marked as running with a dead stream,
  and a late error callback (`:264`) can mark the next run as not running.
* After `onStop()` the screen's `running` is still true (`MainActivity.kt:55-63`),
  and the next press stops what is stopped.
* When the first frame of a talkspurt is not encoded, the stream has no START,
  against `protocol/specification.md:90`.
* A release and press between two captured frames continues the old talkspurt,
  while `Session.kt:50` says "Each press opens a new talkspurt".
* A draw that would make a delay negative gives the base delay
  (`impairment.cpp:184`), where 181-183 says "clamping to zero".
* `recv_from()` cuts a datagram longer than the buffer and only counts it
  (`udp_socket.cpp:264`), so the parsers' limit on the length never applies, and a
  too long but otherwise well-formed packet is taken, against
  `protocol/specification.md:41`.
* `reset_stream()` resets the queue's counters although "Counters survive"
  (`jitter_buffer.hpp:183`); a device that stalled for a frame plays frames past
  their deadline, within the tolerance, against `protocol/specification.md:287`;
  when the START after a gap is lost, a packet ahead of its deadline may be called
  late, against `protocol/specification.md:265`; a sequence span of half the word
  makes `SeqTracker::expected()` zero on the branch its comment calls unreachable.

### Fairness

* `spsc_ring`: the consumer is polled for ever (the playback callback,
  `network_loop`), a call under way goes on, and a release store becomes visible.
  None is assumed of the producer.
* `app`: a handler once begun goes on, the network thread is scheduled (it polls
  with a timeout, so a pass ends), and a data callback, which never blocks, returns. None of the
  user, the device errors or the start of callbacks.
* `talk`: the device calls the capture callback, and the network thread is
  scheduled. None of the user or the network.

The other runs check safety only.

## Proofs

The theorems are for every value of the constants that the named assumptions of
the modules allow. `HalfAssumption`: the word has at least four values.
`CapacityAssumption`, `TimesAssumption`, `BoundsAssumption` and `RingAssumption`:
the capacity is positive, divides the word, and is at most half of it for the
queue, less than the word for the ring. `PacerAssumption`, `SyncAssumption` and
`ProberAssumption` give the prober's settings their ranges and make the table and the
window of samples positive. `WindowAssumption` and `TrackerAssumption`: the
tracker's window is positive, divides the word and is at most half of it;
positions are integers. `WireAssumption`: the longest datagram holds a PONG.
`ConfigAssumption` and `NetworkAssumption` give the jitter buffer's settings and the
environments their ranges: a frame time is at least a tick, a jump at least a frame,
and the clock's horizon is below half the word, beyond which timestamps of one
stream could not be compared.
`TalkAssumption`, `EngineAssumption`, `AppAssumption` and `BenchAssumption` say that
bounds and sizes are naturals, and for `Bench` that the queue has a slot.

* `ReorderQueueProofs`. The inductive invariant is the conjunction of `TypeOK`,
  `SlotsInWindow`, `HeldIsOccupancy`, `HighestCoversHeld`, `Balanced` and
  `TimelineAccounted`. None is inductive alone: the count needs that an insert
  finds its slot free, which needs the window; the books need the count; the
  highest mark needs the window to be ordered, which needs distances below half
  the word. Each method has a lemma about its operator (`StoreSound`,
  `SkipToSound`, ...), and `NextInv` has one step per action. `TypeCorrect`,
  `WindowCorrect`, `HighestCorrect`, `BooksBalance`,
  `TimelineCorrect`, `DepthCorrect` and `CursorForward` follow. `QueueIsTimeline` is
  the refinement of `FrameTimeline`: the frames in the slots are the
  waiting set, and every action maps to an abstract action. It rests on one
  sequence per slot inside a window (`OneSequencePerSlot`).
* `SpscRingProofs`. The inductive invariant is `TypeOK`, `IndicesOrdered` and
  `CallsComplete` (where each thread is in its call and how many items it has
  copied). `IndicesOrdered` puts all four indices on the circle within one
  capacity, from the oldest a producer may work from; race freedom
  (`RingRaceFree`) follows since slots of indices within one capacity differ.
  `RingIsFifo`, the refinement of `BoundedFifo`, adds `Copied`: what the
  producer has copied is in the slots from the write index on, and what the consumer
  has copied out is still what the slots from the read index on hold. A call of
  push takes effect when it stores its index, and so do pop and discard; between,
  the copies change no slot the ring holds (`Fresh`).
* `ProberProofs`. `ProbesCorrect`, `RttCorrect`, `OffsetCorrect`, `LinkCorrect`.
  The books (`Balanced`) are nearly inductive; the round trip is not, since what a
  reply is matched with is decided when it arrives, two datagrams after the slot
  was filled. The invariant therefore ties every datagram in flight to the probe
  it is of: if its PING left in this session, its id has been used and a slot that
  waits under that id was filled when that PING left (`Tied`), and a PONG's stamps
  are in the order of the exchange (`InOrder`). A waiting slot was filled in this
  session (`Dated`), and ids do not repeat in a session. `Recent` dates the last
  reply, for `LinkCorrect`. The samples in the window are then true by
  construction, and the bound on the offset is arithmetic on one sample.
  `BurstCorrect` has its own invariant, `Paced`: what is due at one instant never
  exceeds the tolerance. It assumes a positive interval; with interval zero the
  pacer is switched off.
* `SeqTrackerProofs`. The invariant relates the bitmap to the history `seen`: a
  bit is set exactly if the position of the window it stands for was counted
  (`Marked`, `Exact`), and the highest mark is the furthest position, cut to the
  word. `WindowCorrect` and `VerdictCorrect` need nothing about the
  stream. `LossCorrect` supposes that the stream's positions have no holes and
  span less than half the word (`MaxSpan < Half`), since beyond that `expected()`
  itself is wrong; it adds `Spanned`, that the base is the earliest position
  counted and that `received` is the size of `seen`.
* `SessionProofs`, for `Talk`. `StreamsCorrect`: every stream is well formed, streams not yet
  opened are empty, and the open stream continues (its next number follows its
  last packet and it has no END). `ReleaseCorrect`: `Quiet`, that while
  the button is down or the talkspurt is open no packet has left after the release.
  `ListenerCorrect`: `LossIsOfSentPackets`, for a listener behind a network that loses,
  copies and reorders, and talkers and listeners that restart. `Ordinal` gives every packet
  its place in its stream (the sequence number is the first one plus the place, cut to the
  word) and says that a datagram in the air is such a packet; `Measured` says that the
  tracker has counted exactly the places whose numbers were heard, since the listener took
  up the stream. A malformed datagram changes neither (`NoiseRejected`). The theorem
  supposes `ShortTalkspurts`: a stream has no more packets than the tracker's window
  (kWindowSize = 1024, twenty seconds at 20 ms). In a longer one a packet later than the
  window is called too old although it was sent and did arrive, and the count is then off by it.
* `SessionProofs`, for `App`. `ResetsCorrect`, `HeadStartCorrect`, `StopCorrect`. The
  invariant says where the user interface thread is: between two handlers, or
  at the k-th step of a start or of one of the two stops (`Position`), and for each
  place which streams may be open, which callbacks may run and what the session
  holds (`RestFacts`, `StartFacts(k)`, `StopFacts(k)`). A failure maps a place of the
  start to a place of a stop. `Attached` says that a callback belongs to an open
  stream, and `HeadStart` carries the race on `primed_`: a callback that saw the
  flag set either began before the reset, and is not settled, or trimmed the ring
  in this run.
* `BenchProofs`. `RelayCorrect`, `PingCorrect`. The books balance only because no
  packet is held that has nowhere to go, which the code would drop uncounted: the
  client is known before anything is held or can come from the responder
  (`Acquainted`). `PingCorrect` needs that every PING and PONG, in a slot or a
  socket, has an id already used and, if it is of the last probe, that probe's
  departure time (`Own`), so that a late reply to an abandoned probe has another
  id.
* `JitterProofs`, for `JitterNetwork`. The properties relate sequence numbers,
  timestamps, deadlines and the clock, which are tied together only by when the
  talker sent what. The invariant (`Inv`) therefore says that there are a `born`,
  the local time at which each stream had its first timestamp, and a `sent`, the
  marks (stream, position of the sequence number, position of the timestamp) of the
  packets sent so far, such that every packet in flight and every frame held is such
  a mark, and three things hold of a running buffer. `Projected`: the playout
  position is no further ahead of the cursor than any mark still to be played, nor
  than the talker, is. `AnchoredAt`: the anchor is a timestamp's
  time plus a delay the network can have plus the target. `Windowed`: what is held
  lies within one window of the cursor, each frame in the slot of its number. A
  tick may extend `born` and `sent` (`TickStep`); every other action keeps them. Each
  part of `push()` and `pull()` has its lemma (`AdoptSound`, `PlaceSound`,
  `InsertedSound`, `AlignSound`, `CatchUpSound`, `SteppedIs`).
  `ProjectionSafe` and `LatencySafe` follow for every environment: loss, copies,
  reordering, stalls, failing decoders, closing and opening, both kinds of talker.
  `PlayedOnceSafe` adds `Once`: without copies a packet is in flight, held or
  played, and only one of them.
  `PlayoutTimely`: a played frame is at most `max_catchup_frames` behind its deadline
  as long as one jump catches up with the clock (`WithinJump`: the horizon
  is within kMaxCatchupJump = 2^20 frames, almost six hours of stall at 20 ms), and where every talkspurt
  has its own stream it is never early.
  `NothingLate`: where every talkspurt has its stream and the network keeps the order,
  makes no copies and delays less than the target (`Punctual`), nothing is called late,
  whatever is lost, stalls or is closed; so `LateMeansLate` holds there. It rests on
  `Ahead`, that the cursor has not passed what is in flight.
  `NothingVanishes` and `NothingInvented`: `NoFrameVanishes` and `NoConcealment` in the
  environment the buffer is built for (`BuiltFor`): `Covered`, `Punctual`, a
  tolerance of at least one frame, a decoder that decodes, and a window that holds
  what the target delay and the network keep waiting; the environment
  `InOrder(TRUE)` of the run is one. The invariant is `Steady`: every packet sent is of an earlier stream, in
  flight, held or played (`Whole`); marks have no holes up to the talker (`Dense`);
  the timeline is never a frame time behind the device (`OnTime`), so that it never jumps; and
  a stream that is over has its END in flight or known to the buffer (`Ends`), which
  is why a cursor with no frame under it is past the END (`PastTheEnd`).
* `SerialProofs` holds the modular arithmetic of the queue, the ring, the tracker and the
  jitter buffer.

Each inductive invariant but that of `JitterProofs`, which quantifies over histories TLC
cannot enumerate, was also checked by TLC, as an invariant of the component's run.

Only model-checked:

* `ConsumerServed`, `HandlersReturn`, `TalkspurtsEnd`: liveness under fairness is
  out of the prover's reach.
* Of `JitterNetwork`: that a talker which keeps one stream over its gaps has no frame
  played early, lost, concealed or called late when nothing goes wrong. The proofs of
  these four use that sequence numbers and timestamps of a stream advance together.
  With gaps, and delays beyond the target, a frame can be played early: a START that
  moves the anchor back makes the timeline late, and the jump that follows ends inside a gap.
* `LossMatchesLog`, `RateConforms`, `JitterIsNetworks` of `Bench`: the first compares the
  tracker with the log of a whole run, and the second sums the log with a fold, of
  which nothing can be proved without induction over data; the third bounds the
  time a packet spends in the relay by the model's delays, which needs the
  order of the sleeping loop's wake-ups in the invariant.
* `TailNotCut` and `LatencyNotUnderstated` of `Wavloop` bound the length of a whole run.

## Not modelled

* Audio samples, payload bytes and the codec: outcomes of calls.
* Floating-point statistics: the smoothed jitter, the drift, percentiles.
* The histogram: a pure table look-up whose tests enumerate the edges.
* Text: address, scenario, option and WAV parsing, the byte layout of packets
  (which has test vectors), reports, traces.
* The snapshots for the screen. They read counters without synchronisation;
  whatever they show, nothing depends on it.
* The session's parts in one module: `App` has its threads and lives, `Talk`
  its media, `Prober` its control traffic, `JitterNetwork` its playout. They
  share the socket, over which the media and the probes do not affect each
  other, and the ring, for which `SpscRing` stands.
* More than one stream at the responder and more than one client of the relay.

## Plan

Done: the modules, runs and proofs above. What would come next: `NothingVanishes` for
one stream with gaps, whose invariant has to follow the playout position through
the silence; `ListenerCorrect` for longer
talkspurts, where a packet is at most a window late; and `JitterIsNetworks`, from an invariant on the
relay's wake-ups.
