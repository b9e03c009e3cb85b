--------------------------------- MODULE Talk ---------------------------------
(***************************************************************************)
(* Push to talk from one phone to another (session.cpp): the finger on the *)
(* button, the capture callback, the network thread that encodes and sends *)
(* the captured frames, a network that loses, copies and reorders, and the *)
(* other phone's network thread that parses and measures what arrives.     *)
(*                                                                         *)
(* The network thread takes one frame or one datagram per step: the other  *)
(* threads may run between any two.  A session numbers its streams 1, 2,   *)
(* ... for the random ids it draws; the first sequence number of each is   *)
(* given.  The timestamp moves with the sequence number and the counters   *)
(* repeat the steps: both are left out, as is what becomes of a packet     *)
(* after it was measured (JitterNetwork).                                  *)
(***************************************************************************)
EXTENDS SeqTrackerOps, UdpSocket, SequencesExt

CONSTANTS
  TxFrames,       \* frames that fit in tx_pcm_
  FirstSequence,  \* of each stream
  MaxStreams,     \* bound on the talkspurts
  MaxPackets,     \* bound on the packets of one, the END packet apart
  MaxFaults       \* bound on the copies, malformed datagrams and restarts

ASSUME TalkAssumption ==
  /\ {TxFrames, MaxStreams, MaxPackets} \subseteq Nat \ {0}
  /\ MaxFaults \in Nat
  /\ FirstSequence \in [1 .. MaxStreams -> Serials]

VARIABLES
  finger,        \* on the button?
  transmitting,  \* transmitting_
  mic,           \* frames in tx_pcm_
  tx,            \* talkspurt_open_, stream_id_, sequence_
  air,           \* the datagrams under way
  rx,            \* rx_stream_open_, rx_stream_id_, rx_seq_
  faults,        \* the copies, malformed datagrams and restarts so far
  handed,        \* history: the packets given to the socket, by stream
  heard,         \* history: the sequence numbers measured since rx_seq_.reset()
  after          \* history: the packets given to the socket since the release

talkVars == <<finger, transmitting, mic, tx, air, rx, faults, handed, heard, after>>

Streams == 1 .. MaxStreams

IdleReceiver == [open |-> FALSE, stream |-> 0, tracker |-> NewTracker]

TalkInit ==
  /\ finger = FALSE
  /\ transmitting = FALSE
  /\ mic = 0
  /\ tx = [open |-> FALSE, stream |-> 0, sequence |-> 0]
  /\ air = {}
  /\ rx = IdleReceiver
  /\ faults = 0
  /\ handed = [s \in Streams |-> <<>>]
  /\ heard = {}
  /\ after = 0

-------------------------------------------------------------------------------
(* The talker *)

PushButton ==
  /\ ~finger
  /\ finger' = TRUE
  /\ transmitting' = TRUE
  /\ after' = 0
  /\ UNCHANGED <<mic, tx, air, rx, faults, handed, heard>>

\* The finger leaves, or the gesture is cancelled with the card it was on.
ReleaseButton ==
  /\ finger
  /\ finger' = FALSE
  /\ transmitting' = FALSE
  /\ UNCHANGED <<mic, tx, air, rx, faults, handed, heard, after>>

\* on_capture(): a full ring refuses the frame.
OnCapture ==
  /\ mic < TxFrames
  /\ mic' = mic + 1
  /\ UNCHANGED <<finger, transmitting, tx, air, rx, faults, handed, heard,
                 after>>

\* A talkspurt is a stream: a new id and a new first sequence number.
Opened(t) ==
  [open |-> TRUE, stream |-> t.stream + 1,
   sequence |-> FirstSequence[t.stream + 1]]

Advanced(t) == [t EXCEPT !.sequence = Wrap(@ + 1)]

MediaPacket(t, flags) ==
  EncodeMedia(flags, [stream |-> t.stream, sequence |-> t.sequence], 1)

\* A packet goes to the socket, which may refuse it.
Hand(packet, sent) ==
  /\ handed' = [handed EXCEPT ![packet.fields.stream] = Append(@, packet)]
  /\ air' = IF sent THEN air \cup {packet} ELSE air
  /\ after' = IF transmitting THEN 0 ELSE after + 1

\* Mutant: a frame that was not encoded takes a sequence number.
SpeakAdvancing(t, flags, encoded, sent) ==
  /\ tx' = Advanced(t)
  /\ IF encoded THEN Hand(MediaPacket(t, flags), sent)
     ELSE UNCHANGED <<handed, air, after>>

\* transmit_available() for a frame while transmitting.  A frame that is not
\* encoded takes no sequence number, and loses the START it was to carry.
Speak(t, flags, encoded, sent) ==
  IF encoded
  THEN /\ tx' = Advanced(t)
       /\ Hand(MediaPacket(t, flags), sent)
  ELSE /\ tx' = t
       /\ UNCHANGED <<handed, air, after>>

\* Mutants: the talkspurt is closed only once END is under way, or encoded.
FinishIfSent(encoded, sent) ==
  /\ tx' = [Advanced(tx) EXCEPT !.open = ~(encoded /\ sent)]
  /\ IF encoded THEN Hand(MediaPacket(tx, {"end"}), sent)
     ELSE UNCHANGED <<handed, air, after>>

FinishIfEncoded(encoded, sent) ==
  IF encoded
  THEN /\ tx' = [Advanced(tx) EXCEPT !.open = FALSE]
       /\ Hand(MediaPacket(tx, {"end"}), sent)
  ELSE UNCHANGED <<tx, handed, air, after>>

\* The first frame after the release carries END and closes the talkspurt,
\* whether or not it gets away.
Finish(encoded, sent) ==
  /\ tx' = [Advanced(tx) EXCEPT !.open = FALSE]
  /\ IF encoded THEN Hand(MediaPacket(tx, {"end"}), sent)
     ELSE UNCHANGED <<handed, air, after>>

\* transmit_available(): one frame off the ring.
Transmit(encoded, sent) ==
  /\ mic > 0
  /\ mic' = mic - 1
  /\ \/ /\ transmitting /\ ~tx.open
        /\ tx.stream < MaxStreams
        /\ Speak(Opened(tx), {"start"}, encoded, sent)
     \/ /\ transmitting /\ tx.open
        /\ Len(handed[tx.stream]) < MaxPackets
        /\ Speak(tx, {}, encoded, sent)
     \/ /\ ~transmitting /\ tx.open
        /\ Finish(encoded, sent)
     \/ /\ ~transmitting /\ ~tx.open
        /\ UNCHANGED <<tx, handed, air, after>>
  /\ UNCHANGED <<finger, transmitting, rx, faults, heard>>

\* The talker's session is stopped and started again, perhaps under the finger.
RestartTalker ==
  /\ faults < MaxFaults
  /\ faults' = faults + 1
  /\ transmitting' = FALSE
  /\ mic' = 0
  /\ tx' = [tx EXCEPT !.open = FALSE]
  /\ UNCHANGED <<finger, air, rx, handed, heard, after>>

-------------------------------------------------------------------------------
(* The network and the listener *)

\* Mutant: the window of the last stream is carried over.
MeasuringCarried(fields) ==
  [open |-> TRUE, stream |-> fields.stream, tracker |-> rx.tracker]

\* The receiver that measures a packet: another stream starts afresh.
Measuring(fields) ==
  IF ~rx.open \/ fields.stream # rx.stream
  THEN [open |-> TRUE, stream |-> fields.stream, tracker |-> NewTracker]
  ELSE rx

\* observe_media()
ObserveMedia(fields) ==
  LET r == Measuring(fields)
  IN  /\ rx' = [r EXCEPT !.tracker = Observed(@, fields.sequence)]
      /\ heard' = (IF ~rx.open \/ fields.stream # rx.stream THEN {} ELSE heard)
                    \cup {fields.sequence}

\* receive_available(): only a well-formed media packet reaches the accounting.
Receive(datagram) ==
  LET d == RecvFrom(datagram)
  IN  IF PrefixReject(d) = "None" /\ d.type = "Audio" /\ MediaReject(d) = "None"
      THEN ObserveMedia(d.fields)
      ELSE UNCHANGED <<rx, heard>>

Deliver(datagram) ==
  /\ Receive(datagram)
  /\ air' = air \ {datagram}
  /\ UNCHANGED <<finger, transmitting, mic, tx, faults, handed, after>>

\* A copy is delivered and the datagram stays under way.
Copy(datagram) ==
  /\ faults < MaxFaults
  /\ faults' = faults + 1
  /\ Receive(datagram)
  /\ UNCHANGED <<finger, transmitting, mic, tx, air, handed, after>>

Lose(datagram) ==
  /\ air' = air \ {datagram}
  /\ UNCHANGED <<finger, transmitting, mic, tx, rx, faults, handed, heard,
                 after>>

\* Datagrams that no encoder of this version makes, and control packets, with
\* fields that would pass for the next packet but one.  One that is too long
\* but otherwise well formed is cut to a well-formed one, and is left out with
\* the well-formed packets of others.
NoiseAround(fields) ==
  {d \in [size : {0, PrefixSize, HeaderSize, HeaderSize + 1, MaxDatagram + 1},
          version : {Version, Version + 1}, type : {"Audio", "Ping"},
          flags : {{}, {"reserved"}}, fields : {fields}] :
     \A n \in 1 .. MaxDatagram : RecvFrom(d) # EncodeMedia({}, fields, n)}

Noise ==
  /\ faults < MaxFaults
  /\ rx.open
  /\ faults' = faults + 1
  /\ \E d \in NoiseAround([stream |-> rx.stream,
                           sequence |-> Wrap(rx.tracker.highest + 2)]) :
       Receive(d)
  /\ UNCHANGED <<finger, transmitting, mic, tx, air, handed, after>>

RestartListener ==
  /\ faults < MaxFaults
  /\ faults' = faults + 1
  /\ rx' = IdleReceiver
  /\ heard' = {}
  /\ UNCHANGED <<finger, transmitting, mic, tx, air, handed, after>>

TalkNext ==
  \/ PushButton \/ ReleaseButton
  \/ OnCapture
  \/ \E encoded, sent \in BOOLEAN : Transmit(encoded, sent)
  \/ RestartTalker \/ RestartListener
  \/ \E d \in air : Deliver(d) \/ Copy(d) \/ Lose(d)
  \/ Noise

\* The device calls its capture callback and the network thread is scheduled.
TalkFairness ==
  /\ WF_talkVars(OnCapture)
  /\ WF_talkVars(\E encoded, sent \in BOOLEAN : Transmit(encoded, sent))

TalkSpec == TalkInit /\ [][TalkNext]_talkVars /\ TalkFairness

-------------------------------------------------------------------------------
(* Properties *)

\* Whatever the encoder and the socket refuse, and whatever the listener does,
\* a stream is numbered without holes, only its first packet may carry START,
\* and nothing follows the packet that carries END
\* (session.cpp:212-226, 230-273, 280-316).
StreamsWellFormed ==
  \A s \in Streams : \A i \in DOMAIN handed[s] :
    /\ i > 1 => handed[s][i].fields.sequence =
                  Wrap(handed[s][i - 1].fields.sequence + 1)
    /\ "start" \in handed[s][i].flags => i = 1
    /\ "end" \in handed[s][i].flags => i = Len(handed[s])

\* The loss on the listener's screen is exactly the packets of the stream, between
\* the first and the last measured, that were given to the talker's socket and
\* not measured since: never a frame that was not encoded, a packet of another
\* talkspurt or a malformed datagram (session.cpp:320-352, 375-442).
LossIsOfSentPackets ==
  rx.open =>
    Lost(rx.tracker) =
      Cardinality({i \in DOMAIN handed[rx.stream] :
        LET s == handed[rx.stream][i].fields.sequence
        IN  /\ Precedes(rx.tracker.base, s)
            /\ Precedes(s, rx.tracker.highest)
            /\ s \notin heard})

\* After the finger has left, at most one more packet leaves before the next
\* press, the one that says END, however much was captured meanwhile
\* ("a stuck-open microphone is the worst failure this app has",
\* MainActivity.kt:284-287).
OnePacketAfterRelease == after <= 1

\* A talkspurt that was let go is closed, even if the encoder or the socket
\* refuses its last packet (session.cpp:228-274).
TalkspurtsEnd == ~transmitting /\ tx.open ~> transmitting \/ ~tx.open
===============================================================================
