------------------------------- MODULE MCJitter -------------------------------
(* Instances of JitterNetwork for TLC. *)
EXTENDS JitterNetwork

\* Streams start just before the wrap of the sequence and timestamp space, at
\* positions that differ from stream to stream.
NearWrapSequence == [n \in 1 .. MaxStreams |-> Wrap(0 - 2 - 5 * (n - 1))]
NearWrapTimestamp == [n \in 1 .. MaxStreams |-> Wrap(0 - 2 - 4 * (n - 1))]

\* Decoders that never fail, and decoders of which one call may.
AllSucceed == {{"decode", "recover", "conceal"}}
OneMayFail ==
  {{"decode", "recover", "conceal"} \ {c} :
     c \in {"decode", "recover", "conceal", "none"}}

\* Push to talk over a network that delays beyond the target, reorders and
\* loses, into a device that stalls.
Lossy ==
  [perTalkspurt |-> TRUE, redundant |-> {TRUE}, oversize |-> {FALSE},
   decoders |-> AllSucceed, ordered |-> FALSE, delay |-> 3, lost |-> 1,
   copies |-> 0, stalls |-> 3, sends |-> 5, closes |-> 0, horizon |-> 10]

\* A path in order whose delay the buffer covers, for both kinds of talker.
InOrder(perTalkspurt) ==
  [Lossy EXCEPT !.perTalkspurt = perTalkspurt, !.ordered = TRUE, !.delay = 1,
                !.lost = 0, !.stalls = 0, !.sends = 7, !.horizon = 13]

\* Failing decoders, oversized payloads, missing redundancy, copies, and an
\* owner that closes and opens in the middle.
Rough(perTalkspurt) ==
  [Lossy EXCEPT !.perTalkspurt = perTalkspurt, !.redundant = BOOLEAN,
                !.oversize = BOOLEAN, !.decoders = OneMayFail, !.delay = 1,
                !.lost = 0, !.copies = 1, !.stalls = 0, !.sends = 4,
                !.closes = 1, !.horizon = 6]

\* One stream with gaps, in order, into a device that stalls.
Stalling ==
  [InOrder(FALSE) EXCEPT !.stalls = 3, !.sends = 6, !.horizon = 12]

Environments ==
  {Lossy, Stalling} \cup {InOrder(style) : style \in BOOLEAN}
          \cup {Rough(style) : style \in BOOLEAN}

\* A pair may be swapped, and nothing else.
Swapped == {[InOrder(TRUE) EXCEPT !.ordered = FALSE, !.sends = 5, !.horizon = 10]}
===============================================================================
