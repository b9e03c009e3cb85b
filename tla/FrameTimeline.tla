---------------------------- MODULE FrameTimeline ----------------------------
(***************************************************************************)
(* What a reorder queue promises, without its storage: a set of frames     *)
(* waiting on a timeline, at most one per sequence number, and a cursor    *)
(* that walks over them.  Nothing here knows of slots, indices or a count  *)
(* of occupied slots; ReorderQueue is shown to implement it.               *)
(***************************************************************************)
EXTENDS Serial, FiniteSets

CONSTANTS Capacity, Times

VARIABLES
  waiting,  \* the set of frames received and not yet played
  cursor,   \* the sequence number played next
  started,  \* whether the first arrival has fixed the cursor
  result    \* what the last operation reported

vars == <<waiting, cursor, started, result>>

Frames == [sequence : Serials, deadline : Times]

Init ==
  /\ waiting = {}
  /\ cursor = 0
  /\ started = FALSE
  /\ result = "None"

\* Where the cursor stands for an arrival: the first one fixes it.
From(sequence) == IF started THEN cursor ELSE sequence

\* Too large a payload changes nothing.
Refuse ==
  /\ result' = "Oversized"
  /\ UNCHANGED <<waiting, cursor, started>>

Anchor(sequence) ==
  /\ cursor' = From(sequence)
  /\ started' = TRUE

\* The frame is new, inside the window and in time: it waits.
Accept(frame, now) ==
  /\ Distance(From(frame.sequence), frame.sequence) \in 0 .. Capacity - 1
  /\ now <= frame.deadline
  /\ \A f \in waiting : f.sequence # frame.sequence
  /\ result' = "Accepted"
  /\ waiting' = waiting \cup {frame}
  /\ Anchor(frame.sequence)

\* Any other arrival leaves the waiting frames alone and says why.
Reject(frame, now) ==
  /\ result' =
       LET offset == Distance(From(frame.sequence), frame.sequence)
       IN  CASE offset >= Capacity -> "TooFarAhead"
             [] offset <= -Capacity -> "TooOld"
             [] offset \in 1 - Capacity .. -1 -> "Late"
             [] offset \in 0 .. Capacity - 1 ->
                  IF now > frame.deadline THEN "Late" ELSE "Duplicate"
  /\ result' = "Duplicate" => \E f \in waiting : f.sequence = frame.sequence
  /\ UNCHANGED waiting
  /\ Anchor(frame.sequence)

\* The cursor steps over its position, playing the frame that waits there.
Play ==
  /\ \E f \in waiting : started /\ f.sequence = cursor
  /\ result' = "Delivered"
  /\ waiting' = {f \in waiting : f.sequence # cursor}
  /\ cursor' = Wrap(cursor + 1)
  /\ UNCHANGED started

Miss ==
  /\ ~ \E f \in waiting : started /\ f.sequence = cursor
  /\ result' = "Gap"
  /\ cursor' = IF started THEN Wrap(cursor + 1) ELSE cursor
  /\ UNCHANGED <<waiting, started>>

\* A jump forward abandons exactly the frames it passes.
Jump(sequence) ==
  /\ result' = "Skipped"
  /\ UNCHANGED started
  /\ IF started /\ Precedes(cursor, sequence)
     THEN /\ cursor' = sequence
          /\ waiting' = {f \in waiting : ~ (Distance(cursor, f.sequence)
                                             < Distance(cursor, sequence))}
     ELSE UNCHANGED <<waiting, cursor>>

Expire(now) ==
  /\ result' = "Dropped"
  /\ waiting' = {f \in waiting : now <= f.deadline}
  /\ UNCHANGED <<cursor, started>>

\* The timeline is fixed (start) or begun afresh (resync, reset).
Fix(sequence) ==
  /\ result' = "None"
  /\ Anchor(sequence)
  /\ UNCHANGED waiting

Restart(sequence, live) ==
  /\ result' = "None"
  /\ waiting' = {}
  /\ cursor' = sequence
  /\ started' = live

Next ==
  \/ Refuse
  \/ \E frame \in Frames, now \in Times : Accept(frame, now) \/ Reject(frame, now)
  \/ Play
  \/ Miss
  \/ \E s \in Serials : Jump(s) \/ Fix(s) \/ Restart(s, TRUE)
  \/ \E now \in Times : Expire(now)
  \/ Restart(0, FALSE)

Spec == Init /\ [][Next]_vars
===============================================================================
