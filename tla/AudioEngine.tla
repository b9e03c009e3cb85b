----------------------------- MODULE AudioEngine -----------------------------
(***************************************************************************)
(* The device streams (android/app/src/main/cpp/audio_engine.cpp): start() *)
(* and stop(), called by the user interface thread; the capture and the    *)
(* playback callback, each on a thread of the platform's; and the error    *)
(* callback, on a third that nothing joins.                                *)
(*                                                                         *)
(* A call of the user interface thread is the sequence of steps it has     *)
(* still to take: the engine interleaves with it at every step.  The       *)
(* loopback ring holds bursts, and a playback callback asks for one; what  *)
(* a callback does for a session is left to the session.  A stream's       *)
(* settings and the counters for the screen are left out.                  *)
(***************************************************************************)
EXTENDS Integers, Sequences, FiniteSetsExt

CONSTANTS
  RingBursts,  \* bursts that fit in ring_
  Cushion,     \* bursts the first playback callback keeps
  MaxErrors    \* bound on the disconnections

ASSUME EngineAssumption ==
  /\ {RingBursts, Cushion} \subseteq Nat \ {0}
  /\ MaxErrors \in Nat

VARIABLES
  ui,        \* the steps the user interface thread has still to take
  engine,    \* running_, pipeline_ (is there one?), primed_
  stream,    \* input_ and output_
  ring,      \* the bursts ring_ holds
  callback,  \* where each data callback is
  errors,    \* the error callbacks under way, and the disconnections so far
  trimmed    \* history: the head start of this run was thrown away

engineVars == <<ui, engine, stream, ring, callback, errors, trimmed>>

Directions == {"input", "output"}

Idle == [at |-> "idle", piped |-> FALSE, settled |-> FALSE]

EngineInit ==
  /\ ui = <<>>
  /\ engine = [running |-> FALSE, piped |-> FALSE, primed |-> FALSE]
  /\ stream = [d \in Directions |-> "none"]
  /\ ring = 0
  /\ callback = [d \in Directions |-> Idle]
  /\ errors = [pending |-> {}, seen |-> 0]
  /\ trimmed = FALSE

\* The calling thread is at a step, and goes on to the next.
At(step) == ui # <<>> /\ Head(ui) = step
Proceed == ui' = Tail(ui)

-------------------------------------------------------------------------------
(* start() and stop() *)

EngineStart ==
  <<"reset ring", "open input", "open output", "start input", "start output",
    "reset primed", "set running">>

EngineStop ==
  <<"clear running", "stop output", "close output", "stop input",
    "close input", "drop pipeline">>

\* The step each direction takes.
Opening == [input |-> "open input", output |-> "open output"]
Starting == [input |-> "start input", output |-> "start output"]
Stopping == [input |-> "stop input", output |-> "stop output"]
Closing == [input |-> "close input", output |-> "close output"]

\* running_.load(), pipeline_ and ring_.reset(): a running engine is left alone.
ResetRing(piped) ==
  /\ At("reset ring")
  /\ IF engine.running
     THEN /\ ui' = SubSeq(ui, Len(EngineStart) + 1, Len(ui))
          /\ UNCHANGED <<engine, ring, trimmed>>
     ELSE /\ Proceed
          /\ engine' = [engine EXCEPT !.piped = piped]
          /\ ring' = 0
          /\ trimmed' = FALSE
  /\ UNCHANGED <<stream, callback, errors>>

\* Mutant: a failing start() leaves what it had opened.
FailLeavingStreams(after) == ui' = after

\* A start() that fails stops what it had begun; `after` is what the caller
\* then does.
Fail(after) == ui' = EngineStop \o after

\* open_stream()
OpenStream(d, ok, after) ==
  /\ At(Opening[d])
  /\ IF ok
     THEN Proceed /\ stream' = [stream EXCEPT ![d] = "open"]
     ELSE Fail(after) /\ UNCHANGED stream
  /\ UNCHANGED <<engine, ring, callback, errors, trimmed>>

RequestStart(d, ok, after) ==
  /\ At(Starting[d])
  /\ IF ok
     THEN Proceed /\ stream' = [stream EXCEPT ![d] = "started"]
     ELSE Fail(after) /\ UNCHANGED stream
  /\ UNCHANGED <<engine, ring, callback, errors, trimmed>>

\* Mutant: the flag is left as the last run left it.
KeepPrimed ==
  /\ At("reset primed")
  /\ Proceed
  /\ UNCHANGED <<engine, stream, ring, callback, errors, trimmed>>

\* The playback callback may be running already.
ResetPrimed ==
  /\ At("reset primed")
  /\ Proceed
  /\ engine' = [engine EXCEPT !.primed = FALSE]
  /\ UNCHANGED <<stream, ring, callback, errors, trimmed>>

SetRunning ==
  /\ At("set running")
  /\ Proceed
  /\ engine' = [engine EXCEPT !.running = TRUE]
  /\ UNCHANGED <<stream, ring, callback, errors, trimmed>>

ClearRunning ==
  /\ At("clear running")
  /\ Proceed
  /\ engine' = [engine EXCEPT !.running = FALSE]
  /\ UNCHANGED <<stream, ring, callback, errors, trimmed>>

\* requestStop(): no callback begins after it.
RequestStop(d) ==
  /\ At(Stopping[d])
  /\ Proceed
  /\ stream' = [stream EXCEPT ![d] = IF @ = "started" THEN "stopping" ELSE @]
  /\ UNCHANGED <<engine, ring, callback, errors, trimmed>>

\* close() waits for the callback to return.
CloseStream(d) ==
  /\ At(Closing[d])
  /\ callback[d].at = "idle"
  /\ Proceed
  /\ stream' = [stream EXCEPT ![d] = "none"]
  /\ UNCHANGED <<engine, ring, callback, errors, trimmed>>

DropPipeline ==
  /\ At("drop pipeline")
  /\ Proceed
  /\ engine' = [engine EXCEPT !.piped = FALSE]
  /\ UNCHANGED <<stream, ring, callback, errors, trimmed>>

-------------------------------------------------------------------------------
(* onAudioReady() *)

\* A callback begins on a started stream and reads pipeline_.  `settled` is
\* history: start() had returned.
BeginCallback(d) ==
  /\ stream[d] = "started"
  /\ callback[d].at = "idle"
  /\ callback' = [callback EXCEPT ![d] =
       [at |-> IF d = "output" /\ ~engine.piped THEN "prime" ELSE "work",
        piped |-> engine.piped, settled |-> engine.running]]
  /\ UNCHANGED <<ui, engine, stream, ring, errors, trimmed>>

\* The first playback callback of a run throws the head start away.
Prime ==
  /\ callback["output"].at = "prime"
  /\ callback' = [callback EXCEPT !["output"].at = "work"]
  /\ IF engine.primed
     THEN UNCHANGED <<engine, ring, trimmed>>
     ELSE /\ engine' = [engine EXCEPT !.primed = TRUE]
          /\ ring' = Min({ring, Cushion})
          /\ trimmed' = TRUE
  /\ UNCHANGED <<ui, stream, errors>>

\* push_bulk() and pop_bulk() of the loopback, or the pipeline's work, and the
\* return.
FinishCallback(d) ==
  /\ callback[d].at = "work"
  /\ callback' = [callback EXCEPT ![d] = Idle]
  /\ ring' = IF callback[d].piped THEN ring
             ELSE IF d = "input" THEN Min({ring + 1, RingBursts})
             ELSE Max({ring - 1, 0})
  /\ UNCHANGED <<ui, engine, stream, errors, trimmed>>

-------------------------------------------------------------------------------
(* onErrorAfterClose() *)

\* The platform closes a disconnected stream and hands it to a thread of its
\* own.
Disconnect(d) ==
  /\ stream[d] = "started"
  /\ callback[d].at = "idle"
  /\ errors.seen < MaxErrors
  /\ stream' = [stream EXCEPT ![d] = "dead"]
  /\ errors' = [pending |-> errors.pending \cup {d}, seen |-> errors.seen + 1]
  /\ UNCHANGED <<ui, engine, ring, callback, trimmed>>

OnErrorAfterClose(d) ==
  /\ d \in errors.pending
  /\ errors' = [errors EXCEPT !.pending = @ \ {d}]
  /\ engine' = [engine EXCEPT !.running = FALSE]
  /\ UNCHANGED <<ui, stream, ring, callback, trimmed>>

Platform ==
  \/ \E d \in Directions :
       BeginCallback(d) \/ FinishCallback(d) \/ Disconnect(d)
         \/ OnErrorAfterClose(d)
  \/ Prime

-------------------------------------------------------------------------------

\* No callback is running, and none can begin.
Quiet ==
  \A d \in Directions : callback[d].at = "idle" /\ stream[d] # "started"
===============================================================================
