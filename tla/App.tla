--------------------------------- MODULE App ---------------------------------
(***************************************************************************)
(* The application: the screen (MainActivity.kt) drives the audio engine   *)
(* and the network session through the bridge (jni_bridge.cpp), and the    *)
(* session has a network thread of its own (session.cpp).  start() and     *)
(* stop() of both run on the user interface thread, one handler at a time; *)
(* the callbacks and the network thread run meanwhile.                     *)
(*                                                                         *)
(* The activity has one instance, whose onStop() runs before it is shown   *)
(* or created again.  What the network thread does in a pass is modelled   *)
(* by Talk and Prober.                                                     *)
(***************************************************************************)
EXTENDS AudioEngine

CONSTANT MaxStarts  \* bound on the presses of Connect

ASSUME AppAssumption == MaxStarts \in Nat

VARIABLES
  screen,   \* running, mode, granted, and whether the activity is shown
  session,  \* Session::running_ and what is open: encoder, jitter, socket
  thread,   \* the network thread: none, at the top of its loop, in a pass,
            \* or returned but not joined
  starts    \* the presses of Connect so far

sessionVars == <<session, thread>>
vars == <<engineVars, screen, session, thread, starts>>

Parts == {"encoder", "jitter", "socket"}

Init ==
  /\ EngineInit
  /\ screen \in [running : {FALSE}, mode : {"session", "loopback"},
                 granted : BOOLEAN, shown : {TRUE}]
  /\ session = [running |-> FALSE, open |-> {}]
  /\ thread = "none"
  /\ starts = 0

-------------------------------------------------------------------------------
(* Session::start(), stop() and the life of the network thread *)

SessionStart ==
  <<"open encoder", "open jitter", "open socket", "reset session", "spawn">>

SessionStop == <<"clear session", "join", "close session">>

\* The step that opens each part.
OpeningPart ==
  [encoder |-> "open encoder", jitter |-> "open jitter", socket |-> "open socket"]

\* When an open fails, the parts before it are closed and start() returns false.
OpenPart(part, ok) ==
  /\ At(OpeningPart[part])
  /\ IF session.running
     THEN /\ ui' = SubSeq(ui, Len(SessionStart) + 1, Len(ui))
          /\ UNCHANGED session
     ELSE IF ok
     THEN /\ Proceed
          /\ session' = [session EXCEPT !.open = @ \cup {part}]
     ELSE /\ ui' = <<>>
          /\ session' = [session EXCEPT !.open = {}]
  /\ UNCHANGED <<engine, stream, ring, callback, errors, trimmed,
                 screen, thread, starts>>

\* The resets of the rings, the prober and the accounting.
ResetSession ==
  /\ At("reset session")
  /\ Proceed
  /\ UNCHANGED <<engine, stream, ring, callback, errors, trimmed,
                 screen, session, thread, starts>>

Spawn ==
  /\ At("spawn")
  /\ Proceed
  /\ session' = [session EXCEPT !.running = TRUE]
  /\ thread' = "top"
  /\ UNCHANGED <<engine, stream, ring, callback, errors, trimmed,
                 screen, starts>>

\* Mutant: the flag the network thread watches is left set.
ClearSessionReadOnly ==
  /\ At("clear session")
  /\ ui' = IF session.running THEN Tail(ui)
           ELSE SubSeq(ui, Len(SessionStop) + 1, Len(ui))
  /\ UNCHANGED <<engine, stream, ring, callback, errors, trimmed,
                 screen, session, thread, starts>>

\* running_.exchange(false): a session that is not running is left alone.
ClearSession ==
  /\ At("clear session")
  /\ ui' = IF session.running THEN Tail(ui)
           ELSE SubSeq(ui, Len(SessionStop) + 1, Len(ui))
  /\ session' = [session EXCEPT !.running = FALSE]
  /\ UNCHANGED <<engine, stream, ring, callback, errors, trimmed,
                 screen, thread, starts>>

Join ==
  /\ At("join")
  /\ thread \in {"none", "returned"}
  /\ Proceed
  /\ thread' = "none"
  /\ UNCHANGED <<engine, stream, ring, callback, errors, trimmed,
                 screen, session, starts>>

CloseSession ==
  /\ At("close session")
  /\ Proceed
  /\ session' = [session EXCEPT !.open = {}]
  /\ UNCHANGED <<engine, stream, ring, callback, errors, trimmed,
                 screen, thread, starts>>

\* network_loop(): the flag is read at the top of every pass.
NetworkLoop ==
  /\ thread' = CASE thread = "top" -> IF session.running THEN "pass"
                                      ELSE "returned"
                 [] thread = "pass" -> "top"
                 [] OTHER -> thread
  /\ thread' # thread
  /\ UNCHANGED <<engineVars, screen, session, starts>>

-------------------------------------------------------------------------------
(* The screen *)

\* What a failed AudioEngine.start() leads to.
AudioFailed == SessionStop

\* Mutant: the session is stopped under the callbacks.
StopSessionFirst == SessionStop \o EngineStop

\* AudioEngine.stop() and Session.stop(), in the handler and in onStop().
StopAll == EngineStop \o SessionStop

\* The button: ask for the permission, stop, or start.
Press ==
  /\ ui = <<>>
  /\ screen.shown
  /\ IF ~screen.granted
     THEN /\ \E granted \in BOOLEAN :
               screen' = [screen EXCEPT !.granted = granted]
          /\ UNCHANGED <<ui, starts>>
     ELSE IF screen.running
     THEN /\ ui' = StopAll \o <<"stopped">>
          /\ UNCHANGED <<screen, starts>>
     ELSE /\ starts < MaxStarts
          /\ starts' = starts + 1
          /\ ui' = (IF screen.mode = "session" THEN SessionStart ELSE <<>>)
                     \o EngineStart \o <<"started">>
          /\ UNCHANGED screen
  /\ UNCHANGED <<engine, stream, ring, callback, errors, trimmed, sessionVars>>

\* `running` on the screen takes what the handler decided.
ShowRunning ==
  /\ At("started") \/ At("stopped")
  /\ screen' = [screen EXCEPT !.running = At("started")]
  /\ Proceed
  /\ UNCHANGED <<engine, stream, ring, callback, errors, trimmed, sessionVars,
                 starts>>

\* A filter chip changes the mode of a screen that is not running.
Choose(mode) ==
  /\ ui = <<>>
  /\ screen.shown /\ ~screen.running
  /\ screen' = [screen EXCEPT !.mode = mode]
  /\ UNCHANGED <<engineVars, sessionVars, starts>>

\* onStop()
OnStop ==
  /\ ui = <<>>
  /\ screen.shown
  /\ screen' = [screen EXCEPT !.shown = FALSE]
  /\ ui' = StopAll
  /\ UNCHANGED <<engine, stream, ring, callback, errors, trimmed, sessionVars,
                 starts>>

\* The activity is shown again, with the screen it had or a new one.
Show(recreated) ==
  /\ ui = <<>>
  /\ ~screen.shown
  /\ screen' = IF recreated
               THEN [screen EXCEPT !.shown = TRUE, !.running = FALSE,
                                   !.mode = "session"]
               ELSE [screen EXCEPT !.shown = TRUE]
  /\ UNCHANGED <<engineVars, sessionVars, starts>>

\* A step of start() or stop() of the engine.
EngineStep ==
  /\ \/ ResetRing(screen.mode = "session")
     \/ \E d \in Directions, ok \in BOOLEAN :
          OpenStream(d, ok, AudioFailed) \/ RequestStart(d, ok, AudioFailed)
     \/ \E d \in Directions : RequestStop(d) \/ CloseStream(d)
     \/ ResetPrimed \/ SetRunning \/ ClearRunning \/ DropPipeline
  /\ UNCHANGED <<screen, sessionVars, starts>>

SessionStep ==
  \/ \E part \in Parts, ok \in BOOLEAN : OpenPart(part, ok)
  \/ ResetSession \/ Spawn \/ ClearSession \/ Join \/ CloseSession

PlatformStep == Platform /\ UNCHANGED <<screen, sessionVars, starts>>

Next ==
  \/ Press
  \/ OnStop
  \/ \E recreated \in BOOLEAN : Show(recreated)
  \/ \E mode \in {"session", "loopback"} : Choose(mode)
  \/ EngineStep \/ SessionStep \/ ShowRunning
  \/ NetworkLoop
  \/ PlatformStep

\* A handler once begun goes on, the network thread is scheduled, and a data
\* callback, which never blocks, returns.
Fairness ==
  /\ WF_vars(EngineStep \/ SessionStep \/ ShowRunning)
  /\ WF_vars(NetworkLoop)
  /\ WF_vars(Prime /\ UNCHANGED <<screen, sessionVars, starts>>)
  /\ \A d \in Directions :
       WF_vars(FinishCallback(d) /\ UNCHANGED <<screen, sessionVars, starts>>)

Spec == Init /\ [][Next]_vars /\ Fairness

-------------------------------------------------------------------------------
(* Properties *)

\* What is not safe against a concurrent callback or pass happens when there is
\* none: the ring and the session's rings are reset, pipeline_ is written, and
\* the codec, the jitter buffer and the socket are closed, only while no
\* callback runs or can begin and the network thread is gone
\* (audio_engine.cpp:114-125, 181-183; session.cpp:81-92, 137-145).
ResetsAreQuiet ==
  /\ At("reset ring") /\ ~engine.running => Quiet
  /\ At("drop pipeline") => Quiet
  /\ At("reset session") \/ At("close session") => Quiet /\ thread = "none"
  /\ At("spawn") => thread = "none"

\* A playback callback that begins once start() has returned plays from a ring
\* whose head start has been thrown away in this run, though the flag is reset
\* while an earlier callback may be setting it (audio_engine.cpp:140-144,
\* 158, 232-246).
HeadStartDropped ==
  callback["output"].at = "work" /\ callback["output"].settled
    /\ ~callback["output"].piped => trimmed

\* Whenever a start has failed at any point, a stop has completed or the
\* activity is hidden, nothing is left open or running: not the microphone,
\* not a codec, not the port (MainActivity.kt:55-63, 184-214).
NothingLeftRunning ==
  ui = <<>> /\ (~screen.running \/ ~screen.shown) =>
    /\ \A d \in Directions : stream[d] = "none" /\ callback[d].at = "idle"
    /\ session = [running |-> FALSE, open |-> {}]
    /\ thread = "none"

\* Every handler returns: close() gets its callback back and join() its thread,
\* so the user interface never hangs (audio_engine.cpp:167-179,
\* session.cpp:138-139).
HandlersReturn == ui # <<>> ~> ui = <<>>
===============================================================================
