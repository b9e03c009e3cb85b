----------------------------- MODULE SessionProofs -----------------------------
(***************************************************************************)
(* The application and its session (App), and what the session gives to    *)
(* its socket (Talk).                                                      *)
(*                                                                         *)
(* The application starts and stops its streams, its session and its       *)
(* network thread in an order that is safe against the threads it does not *)
(* control, for every number of starts and of disconnections.  The user    *)
(* interface thread is at a place of one of three calls: a start, a stop   *)
(* of the button's, or the stop that onStop() and a failed start share.    *)
(* The inductive invariant says what is known at each place.               *)
(*                                                                         *)
(* What a talker gives to its socket is well formed for every ring, every  *)
(* number of talkspurts and of packets, and every first sequence number.   *)
(* The argument is about one stream at a time: the open talkspurt's stream *)
(* can be continued (it has no END yet and the next sequence number is the *)
(* successor of its last one), later streams are empty, and the others are *)
(* never written again.                                                    *)
(*                                                                         *)
(* What a listener measures is of those packets: its tracker has counted   *)
(* exactly the places of the stream whose numbers it heard, as long as the *)
(* places of a stream fit in the tracker's window.                         *)
(***************************************************************************)
EXTENDS App, Talk, SerialProofs, SequenceTheorems, FiniteSetTheorems, TLAPS

-------------------------------------------------------------------------------
(* The calls of the user interface thread *)

\* What is left of a call from its k-th step on.
From(call, k) == SubSeq(call, k, Len(call))

StartCall ==
  <<"open encoder", "open jitter", "open socket", "reset session", "spawn",
    "reset ring", "open input", "open output", "start input", "start output",
    "reset primed", "set running", "started">>

StopCall ==
  <<"clear running", "stop output", "close output", "stop input",
    "close input", "drop pipeline", "clear session", "join", "close session">>

StopButtonCall ==
  <<"clear running", "stop output", "close output", "stop input",
    "close input", "drop pipeline", "clear session", "join", "close session",
    "stopped">>

Steps ==
  {"open encoder", "open jitter", "open socket", "reset session", "spawn",
   "reset ring", "open input", "open output", "start input", "start output",
   "reset primed", "set running", "started",
   "clear running", "stop output", "close output", "stop input",
   "close input", "drop pipeline", "clear session", "join", "close session",
   "stopped"}

\* A call is a sequence of steps.
LEMMA CallTypes ==
  /\ StartCall \in Seq(Steps) /\ Len(StartCall) = 13
  /\ StopCall \in Seq(Steps) /\ Len(StopCall) = 9
  /\ StopButtonCall \in Seq(Steps) /\ Len(StopButtonCall) = 10
<1>1. StartCall \in Seq(Steps) /\ Len(StartCall) = 13
  BY DEF StartCall, Steps
<1>2. StopCall \in Seq(Steps) /\ Len(StopCall) = 9
  BY DEF StopCall, Steps
<1>3. StopButtonCall \in Seq(Steps) /\ Len(StopButtonCall) = 10
  BY DEF StopButtonCall, Steps
<1> QED BY <1>1, <1>2, <1>3

\* Two sequences put together, place by place.
LEMMA Together ==
  ASSUME NEW s \in Seq(Steps), NEW t \in Seq(Steps), NEW u \in Seq(Steps),
         Len(u) = Len(s) + Len(t),
         \A i \in 1 .. Len(s) : u[i] = s[i],
         \A i \in 1 .. Len(t) : u[Len(s) + i] = t[i]
  PROVE  s \o t = u
<1>1. s \o t \in Seq(Steps) /\ Len(s \o t) = Len(u)
  BY ConcatProperties
<1>2. Len(s) \in Nat /\ Len(t) \in Nat
  BY LenProperties
<1>3. ASSUME NEW i \in 1 .. Len(u) PROVE (s \o t)[i] = u[i]
  <2>1. (s \o t)[i] = IF i <= Len(s) THEN s[i] ELSE t[i - Len(s)]
    BY ConcatProperties
  <2>2. CASE i <= Len(s)
    BY <1>2, <2>1, <2>2
  <2>3. CASE i > Len(s)
    <3>1. i - Len(s) \in 1 .. Len(t) /\ Len(s) + (i - Len(s)) = i
      BY <1>2, <2>3
    <3> QED BY <1>2, <2>1, <2>3, <3>1
  <2> QED BY <1>2, <2>2, <2>3
<1> QED BY <1>1, <1>3, SeqEqual

\* The whole of a call, and the part of a start after the session's.
LEMMA WholeCalls ==
  /\ SessionStart \o EngineStart \o <<"started">> = From(StartCall, 1)
  /\ <<>> \o EngineStart \o <<"started">> = From(StartCall, 6)
  /\ StopAll \o <<"stopped">> = From(StopButtonCall, 1)
  /\ StopAll = From(StopCall, 1)
  /\ EngineStop \o AudioFailed = From(StopCall, 1)
<1> DEFINE both == <<"open encoder", "open jitter", "open socket", "reset session",
                     "spawn", "reset ring", "open input", "open output",
                     "start input", "start output", "reset primed", "set running">>
           rest == <<"reset ring", "open input", "open output", "start input",
                     "start output", "reset primed", "set running", "started">>
<1>1. EngineStart \in Seq(Steps) /\ Len(EngineStart) = 7
  BY DEF EngineStart, Steps
<1>2. SessionStart \in Seq(Steps) /\ Len(SessionStart) = 5
  BY DEF SessionStart, Steps
<1>3. EngineStop \in Seq(Steps) /\ Len(EngineStop) = 6
  BY DEF EngineStop, Steps
<1>4. SessionStop \in Seq(Steps) /\ Len(SessionStop) = 3
  BY DEF SessionStop, Steps
<1>5. both \in Seq(Steps) /\ Len(both) = 12
  BY DEF Steps
<1>6. rest \in Seq(Steps) /\ Len(rest) = 8
  BY DEF Steps
<1>7. /\ <<"started">> \in Seq(Steps) /\ Len(<<"started">>) = 1
      /\ <<"stopped">> \in Seq(Steps) /\ Len(<<"stopped">>) = 1
  BY DEF Steps
<1>8. SessionStart \o EngineStart = both
  <2>1. /\ \A i \in 1 .. 5 : both[i] = SessionStart[i]
        /\ \A i \in 1 .. 7 : both[5 + i] = EngineStart[i]
    BY DEF SessionStart, EngineStart
  <2> HIDE DEF both
  <2>2. /\ Len(both) = Len(SessionStart) + Len(EngineStart)
        /\ \A i \in 1 .. Len(SessionStart) : both[i] = SessionStart[i]
        /\ \A i \in 1 .. Len(EngineStart) : both[Len(SessionStart) + i] = EngineStart[i]
    BY <1>1, <1>2, <1>5, <2>1
  <2> QED BY <1>1, <1>2, <1>5, <2>1, <2>2, Together
<1>9. both \o <<"started">> = StartCall
  <2>1. /\ \A i \in 1 .. 12 : StartCall[i] = both[i]
        /\ \A i \in 1 .. 1 : StartCall[12 + i] = <<"started">>[i]
    BY DEF StartCall
  <2> HIDE DEF both
  <2>2. /\ Len(StartCall) = Len(both) + Len(<<"started">>)
        /\ \A i \in 1 .. Len(both) : StartCall[i] = both[i]
        /\ \A i \in 1 .. Len(<<"started">>) : StartCall[Len(both) + i] = <<"started">>[i]
    BY <1>5, <1>7, <2>1, CallTypes
  <2> QED BY <1>5, <1>7, <2>1, CallTypes, <2>2, Together
<1>10. EngineStart \o <<"started">> = rest
  <2>1. /\ \A i \in 1 .. 7 : rest[i] = EngineStart[i]
        /\ \A i \in 1 .. 1 : rest[7 + i] = <<"started">>[i]
    BY DEF EngineStart
  <2> HIDE DEF rest
  <2>2. /\ Len(rest) = Len(EngineStart) + Len(<<"started">>)
        /\ \A i \in 1 .. Len(EngineStart) : rest[i] = EngineStart[i]
        /\ \A i \in 1 .. Len(<<"started">>) : rest[Len(EngineStart) + i] = <<"started">>[i]
    BY <1>1, <1>6, <1>7, <2>1
  <2> QED BY <1>1, <1>6, <1>7, <2>1, <2>2, Together
<1>11. rest = From(StartCall, 6)
  <2> DEFINE f == From(StartCall, 6)
  <2>1. /\ f \in Seq(Steps) /\ Len(f) = 8
        /\ \A i \in 1 .. 8 : f[i] = StartCall[6 + i - 1]
    <3>1. \A i \in 6 .. 13 : StartCall[i] \in Steps
      <4> TAKE i \in 6 .. 13
      <4>1. i \in 1 .. Len(StartCall)
        BY CallTypes
      <4> QED BY <4>1, CallTypes, ElementOfSeq
    <3> QED BY <3>1, CallTypes, SubSeqProperties DEF From
  <2>2. \A i \in 1 .. 8 : rest[i] = StartCall[6 + i - 1]
    <3>1. /\ rest[1] = StartCall[6] /\ rest[2] = StartCall[7]
          /\ rest[3] = StartCall[8] /\ rest[4] = StartCall[9]
          /\ rest[5] = StartCall[10] /\ rest[6] = StartCall[11]
          /\ rest[7] = StartCall[12] /\ rest[8] = StartCall[13]
      BY DEF StartCall
    <3> HIDE DEF rest
    <3> QED BY <3>1
  <2> HIDE DEF rest, f
  <2>3. \A i \in 1 .. 8 : f[i] = rest[i]
    BY <2>1, <2>2
  <2>4. f = rest
    BY <1>6, <2>1, <2>3, SeqEqual
  <2> QED BY <2>4 DEF f
<1>12. EngineStop \o SessionStop = StopCall
  <2>1. /\ \A i \in 1 .. 6 : StopCall[i] = EngineStop[i]
        /\ \A i \in 1 .. 3 : StopCall[6 + i] = SessionStop[i]
    BY DEF EngineStop, SessionStop, StopCall
  <2>2. /\ Len(StopCall) = Len(EngineStop) + Len(SessionStop)
        /\ \A i \in 1 .. Len(EngineStop) : StopCall[i] = EngineStop[i]
        /\ \A i \in 1 .. Len(SessionStop) : StopCall[Len(EngineStop) + i] = SessionStop[i]
    BY <1>3, <1>4, <2>1, CallTypes
  <2> QED BY <1>3, <1>4, <2>1, CallTypes, <2>2, Together
<1>13. StopCall \o <<"stopped">> = StopButtonCall
  <2>1. /\ \A i \in 1 .. 9 : StopButtonCall[i] = StopCall[i]
        /\ \A i \in 1 .. 1 : StopButtonCall[9 + i] = <<"stopped">>[i]
    BY DEF StopCall, StopButtonCall
  <2>2. /\ Len(StopButtonCall) = Len(StopCall) + Len(<<"stopped">>)
        /\ \A i \in 1 .. Len(StopCall) : StopButtonCall[i] = StopCall[i]
        /\ \A i \in 1 .. Len(<<"stopped">>) : StopButtonCall[Len(StopCall) + i] = <<"stopped">>[i]
    BY <1>7, <2>1, CallTypes
  <2> QED BY <1>7, <2>1, CallTypes, <2>2, Together
<1>14. <<>> \o EngineStart = EngineStart
  BY <1>1, ConcatEmptySeq
<1>15. /\ From(StartCall, 1) = StartCall
       /\ From(StopCall, 1) = StopCall
       /\ From(StopButtonCall, 1) = StopButtonCall
  BY CallTypes, SubSeqFull DEF From
<1> HIDE DEF both, rest
<1> QED
  BY <1>8, <1>9, <1>10, <1>11, <1>12, <1>13, <1>14, <1>15, Zenon DEF StopAll, AudioFailed

\* One step on.
LEMMA CallSteps ==
  ASSUME NEW call \in Seq(Steps), NEW k \in 1 .. Len(call)
  PROVE  /\ From(call, k) # <<>>
         /\ Head(From(call, k)) = call[k]
         /\ Tail(From(call, k)) = From(call, k + 1)
<1>1. Len(call) \in Nat /\ \A i \in k .. Len(call) : call[i] \in Steps
  BY LenProperties
<1>2. Len(From(call, k)) = Len(call) - k + 1
  BY <1>1, SubSeqProperties DEF From
<1>3. From(call, k) # <<>>
  BY <1>1, <1>2, EmptySeq
<1> QED BY <1>1, <1>3, HeadTailOfSubSeq DEF From

\* Some steps on: an early return of start() or stop().
LEMMA CallSkips ==
  ASSUME NEW call \in Seq(Steps), NEW k \in 1 .. Len(call), NEW n \in Nat,
         k + n <= Len(call)
  PROVE  SubSeq(From(call, k), n + 1, Len(From(call, k))) = From(call, k + n)
<1>1. Len(call) \in Nat /\ \A i \in k .. Len(call) : call[i] \in Steps
  BY LenProperties
<1>2. Len(From(call, k)) = Len(call) - k + 1
  BY <1>1, SubSeqProperties DEF From
<1> QED BY <1>1, <1>2, SubSeqOfSubSeq DEF From

\* Behind its last step a call has returned.
LEMMA CallEnds ==
  ASSUME NEW call \in Seq(Steps)
  PROVE  From(call, Len(call) + 1) = <<>>
BY LenProperties, SubSeqEmpty DEF From

-------------------------------------------------------------------------------
(* The inductive invariant *)

TypeOK ==
  /\ engine \in [running : BOOLEAN, piped : BOOLEAN, primed : BOOLEAN]
  /\ stream \in [Directions -> {"none", "open", "started", "stopping", "dead"}]
  /\ callback \in [Directions -> [at : {"idle", "prime", "work"},
                                  piped : BOOLEAN, settled : BOOLEAN]]
  /\ trimmed \in BOOLEAN
  /\ screen \in [running : BOOLEAN, mode : {"session", "loopback"},
                 granted : BOOLEAN, shown : BOOLEAN]
  /\ session \in [running : BOOLEAN, open : SUBSET Parts]
  /\ thread \in {"none", "top", "pass", "returned"}

\* A callback runs only on a stream that was started and not closed.
Attached ==
  \A d \in Directions :
    callback[d].at # "idle" => stream[d] \in {"started", "stopping"}

\* A session that does not run holds nothing.
SessionSound == ~session.running => session.open = {} /\ thread = "none"

\* Once start() has reset the flag, only a callback that trims sets it.
PrimedHere == engine.primed => trimmed

HeadStart ==
  /\ engine.running => PrimedHere
  /\ callback["output"].at = "prime" /\ callback["output"].settled => PrimedHere
  /\ HeadStartDropped

\* What is known before the k-th step of a start.
StartFacts(k) ==
  /\ screen.shown
  /\ k <= 7 => stream["input"] = "none"
  /\ k <= 8 => stream["output"] = "none"
  /\ k <= 5 => ~session.running /\ thread = "none"
  /\ k > 5 => SessionSound
  /\ k = 12 => PrimedHere

\* What is known before the k-th step of a stop, and behind its last one.
StopFacts(k) ==
  /\ k = 3 => stream["output"] # "started"
  /\ k > 3 => stream["output"] = "none"
  /\ k = 5 => stream["input"] # "started"
  /\ k > 5 => stream["input"] = "none"
  /\ k <= 7 => SessionSound
  /\ k > 7 => ~session.running
  /\ k > 8 => thread = "none"
  /\ k > 9 => session.open = {}

\* What is known between two calls.
RestFacts ==
  /\ SessionSound
  /\ ~screen.running \/ ~screen.shown => StopFacts(10)

StopCalls == {StopCall, StopButtonCall}

InStart(k) == k \in 1 .. 13 /\ ui = From(StartCall, k) /\ StartFacts(k)

InStop(call, k) == k \in 1 .. Len(call) /\ ui = From(call, k) /\ StopFacts(k)

Position ==
  \/ ui = <<>> /\ RestFacts
  \/ \E k \in 1 .. 13 : InStart(k)
  \/ \E call \in StopCalls : \E k \in 1 .. 10 : InStop(call, k)

Inv == TypeOK /\ Attached /\ HeadStart /\ Position

-------------------------------------------------------------------------------
(* Places in the calls *)

\* A step has one place in a start and none in a stop, or the same place in
\* both stops and none in a start.
OnlyStart(step, n) ==
  /\ \A k \in 1 .. 13 : StartCall[k] = step => k = n
  /\ \A k \in 1 .. 9 : StopCall[k] # step
  /\ \A k \in 1 .. 10 : StopButtonCall[k] # step

OnlyStop(step, n) ==
  /\ \A k \in 1 .. 13 : StartCall[k] # step
  /\ \A k \in 1 .. 9 : StopCall[k] = step => k = n
  /\ \A k \in 1 .. 10 : StopButtonCall[k] = step => k = n

\* The places of the steps of a start.
LEMMA StartPlaces ==
  /\ OnlyStart("open encoder", 1)
  /\ OnlyStart("open jitter", 2)
  /\ OnlyStart("open socket", 3)
  /\ OnlyStart("reset session", 4)
  /\ OnlyStart("spawn", 5)
  /\ OnlyStart("reset ring", 6)
  /\ OnlyStart("open input", 7)
  /\ OnlyStart("open output", 8)
  /\ OnlyStart("start input", 9)
  /\ OnlyStart("start output", 10)
  /\ OnlyStart("reset primed", 11)
  /\ OnlyStart("set running", 12)
  /\ OnlyStart("started", 13)
<1>1. OnlyStart("open encoder", 1)
  BY DEF OnlyStart, StartCall, StopCall, StopButtonCall
<1>2. OnlyStart("open jitter", 2)
  BY DEF OnlyStart, StartCall, StopCall, StopButtonCall
<1>3. OnlyStart("open socket", 3)
  BY DEF OnlyStart, StartCall, StopCall, StopButtonCall
<1>4. OnlyStart("reset session", 4)
  BY DEF OnlyStart, StartCall, StopCall, StopButtonCall
<1>5. OnlyStart("spawn", 5)
  BY DEF OnlyStart, StartCall, StopCall, StopButtonCall
<1>6. OnlyStart("reset ring", 6)
  BY DEF OnlyStart, StartCall, StopCall, StopButtonCall
<1>7. OnlyStart("open input", 7)
  BY DEF OnlyStart, StartCall, StopCall, StopButtonCall
<1>8. OnlyStart("open output", 8)
  BY DEF OnlyStart, StartCall, StopCall, StopButtonCall
<1>9. OnlyStart("start input", 9)
  BY DEF OnlyStart, StartCall, StopCall, StopButtonCall
<1>10. OnlyStart("start output", 10)
  BY DEF OnlyStart, StartCall, StopCall, StopButtonCall
<1>11. OnlyStart("reset primed", 11)
  BY DEF OnlyStart, StartCall, StopCall, StopButtonCall
<1>12. OnlyStart("set running", 12)
  BY DEF OnlyStart, StartCall, StopCall, StopButtonCall
<1>13. OnlyStart("started", 13)
  BY DEF OnlyStart, StartCall, StopCall, StopButtonCall
<1> QED BY <1>1, <1>2, <1>3, <1>4, <1>5, <1>6, <1>7, <1>8, <1>9, <1>10, <1>11, <1>12, <1>13

\* The places of the steps of a stop.
LEMMA StopPlaces ==
  /\ OnlyStop("clear running", 1)
  /\ OnlyStop("stop output", 2)
  /\ OnlyStop("close output", 3)
  /\ OnlyStop("stop input", 4)
  /\ OnlyStop("close input", 5)
  /\ OnlyStop("drop pipeline", 6)
  /\ OnlyStop("clear session", 7)
  /\ OnlyStop("join", 8)
  /\ OnlyStop("close session", 9)
  /\ OnlyStop("stopped", 10)
<1>1. OnlyStop("clear running", 1)
  BY DEF OnlyStop, StartCall, StopCall, StopButtonCall
<1>2. OnlyStop("stop output", 2)
  BY DEF OnlyStop, StartCall, StopCall, StopButtonCall
<1>3. OnlyStop("close output", 3)
  BY DEF OnlyStop, StartCall, StopCall, StopButtonCall
<1>4. OnlyStop("stop input", 4)
  BY DEF OnlyStop, StartCall, StopCall, StopButtonCall
<1>5. OnlyStop("close input", 5)
  BY DEF OnlyStop, StartCall, StopCall, StopButtonCall
<1>6. OnlyStop("drop pipeline", 6)
  BY DEF OnlyStop, StartCall, StopCall, StopButtonCall
<1>7. OnlyStop("clear session", 7)
  BY DEF OnlyStop, StartCall, StopCall, StopButtonCall
<1>8. OnlyStop("join", 8)
  BY DEF OnlyStop, StartCall, StopCall, StopButtonCall
<1>9. OnlyStop("close session", 9)
  BY DEF OnlyStop, StartCall, StopCall, StopButtonCall
<1>10. OnlyStop("stopped", 10)
  BY DEF OnlyStop, StartCall, StopCall, StopButtonCall
<1> QED BY <1>1, <1>2, <1>3, <1>4, <1>5, <1>6, <1>7, <1>8, <1>9, <1>10

\* The step the thread is at says where it is.
LEMMA AtStart ==
  ASSUME Position, NEW step, NEW n, OnlyStart(step, n), At(step)
  PROVE  InStart(n)
<1>1. ui # <<>> /\ Head(ui) = step
  BY DEF At
<1>2. ASSUME NEW k \in 1 .. 13, InStart(k) PROVE k = n
  <2>1. Head(ui) = StartCall[k]
    BY <1>2, CallTypes, CallSteps DEF InStart
  <2> QED BY <1>1, <2>1 DEF OnlyStart
<1>3. ASSUME NEW call \in StopCalls, NEW k \in 1 .. 10, InStop(call, k) PROVE FALSE
  <2>1. call \in Seq(Steps) /\ k \in 1 .. Len(call)
    BY <1>3, CallTypes DEF StopCalls, InStop
  <2>2. Head(ui) = call[k]
    BY <1>3, <2>1, CallSteps DEF InStop
  <2> QED BY <1>1, <2>1, <2>2, CallTypes DEF StopCalls, OnlyStart
<1> QED BY <1>1, <1>2, <1>3 DEF Position

\* The same in a stop.
LEMMA AtStop ==
  ASSUME Position, NEW step, NEW n, OnlyStop(step, n), At(step)
  PROVE  \E call \in StopCalls : InStop(call, n)
<1>1. ui # <<>> /\ Head(ui) = step
  BY DEF At
<1>2. ASSUME NEW k \in 1 .. 13, InStart(k) PROVE FALSE
  <2>1. Head(ui) = StartCall[k]
    BY <1>2, CallTypes, CallSteps DEF InStart
  <2> QED BY <1>1, <2>1 DEF OnlyStop
<1>3. ASSUME NEW call \in StopCalls, NEW k \in 1 .. 10, InStop(call, k) PROVE k = n
  <2>1. call \in Seq(Steps) /\ k \in 1 .. Len(call)
    BY <1>3, CallTypes DEF StopCalls, InStop
  <2>2. Head(ui) = call[k]
    BY <1>3, <2>1, CallSteps DEF InStop
  <2> QED BY <1>1, <2>1, <2>2, CallTypes DEF StopCalls, OnlyStop
<1> QED BY <1>1, <1>2, <1>3 DEF Position

\* A thread with no step to take is between two calls.
LEMMA NoCall ==
  ASSUME Position, ui = <<>>
  PROVE  RestFacts
<1>1. ASSUME NEW k \in 1 .. 13, InStart(k) PROVE FALSE
  <2>1. StartCall \in Seq(Steps) /\ k \in 1 .. Len(StartCall)
    BY CallTypes
  <2> QED BY <1>1, <2>1, CallSteps DEF InStart
<1>2. ASSUME NEW call \in StopCalls, NEW k \in 1 .. 10, InStop(call, k) PROVE FALSE
  <2>1. call \in Seq(Steps) /\ k \in 1 .. Len(call)
    BY <1>2, CallTypes DEF StopCalls, InStop
  <2> QED BY <1>2, <2>1, CallSteps DEF InStop
<1> QED BY <1>1, <1>2 DEF Position

\* The thread goes on in a start.
LEMMA StartGoesOn ==
  ASSUME NEW k \in 1 .. 12, ui = From(StartCall, k), Proceed, StartFacts(k + 1)'
  PROVE  Position'
<1>1. StartCall \in Seq(Steps) /\ k \in 1 .. Len(StartCall)
  BY CallTypes
<1>2. ui' = From(StartCall, k + 1)
  BY <1>1, CallSteps DEF Proceed
<1>3. k + 1 \in 1 .. 13
  OBVIOUS
<1> QED BY <1>2, <1>3 DEF Position, InStart

\* The thread goes on in a stop, or returns from it.
LEMMA StopGoesOn ==
  ASSUME NEW call \in StopCalls, NEW k \in 1 .. Len(call), ui = From(call, k),
         Proceed, StopFacts(k + 1)'
  PROVE  Position'
<1> DEFINE n == Len(call)
<1>1. call \in Seq(Steps) /\ (n = 9 \/ n = 10) /\ k \in 1 .. n
  BY CallTypes DEF StopCalls
<1>2. ui' = From(call, k + 1)
  BY <1>1, CallSteps DEF Proceed
<1>3. n = k => ui' = <<>>
  BY <1>1, <1>2, CallEnds
<1>4. \A j \in 1 .. n : ui' = From(call, j) /\ StopFacts(j)' => InStop(call, j)'
  BY DEF InStop
<1> HIDE DEF n
<1>5. CASE k < n
  <2>1. k + 1 \in 1 .. n /\ k + 1 \in 1 .. 10
    BY <1>1, <1>5
  <2> QED BY <1>2, <1>4, <2>1 DEF Position
<1>6. CASE k = n
  <2>1. RestFacts'
    <3>1. k = 9 \/ k = 10
      BY <1>1, <1>6
    <3> QED BY <3>1 DEF RestFacts, StopFacts, SessionSound
  <2> QED BY <1>3, <1>6, <2>1 DEF Position
<1> QED BY <1>1, <1>5, <1>6

-------------------------------------------------------------------------------
(* The threads of the platform and of the session *)

\* What leaves the calls, the session and the streams that are not started alone
\* keeps what is known at the place.
LEMMA Undisturbed ==
  ASSUME Position, UNCHANGED <<ui, screen, session, thread>>,
         \A d \in Directions : stream[d] # "started" => stream'[d] = stream[d],
         PrimedHere => PrimedHere'
  PROVE  Position'
<1>1. /\ stream["output"] # "started" => stream'["output"] = stream["output"]
      /\ stream["input"] # "started" => stream'["input"] = stream["input"]
  BY DEF Directions
<1>2. SessionSound' = SessionSound
  BY DEF SessionSound
<1>3. ASSUME NEW k \in Int, StartFacts(k) PROVE StartFacts(k)'
  BY <1>1, <1>2, <1>3 DEF StartFacts
<1>4. ASSUME NEW k \in Int, StopFacts(k) PROVE StopFacts(k)'
  BY <1>1, <1>2, <1>4 DEF StopFacts
<1>5. RestFacts => RestFacts'
  BY <1>2, <1>4 DEF RestFacts
<1>6. ASSUME NEW k \in 1 .. 13, InStart(k) PROVE InStart(k)'
  BY <1>3, <1>6 DEF InStart
<1>7. ASSUME NEW call \in StopCalls, NEW k \in 1 .. 10, InStop(call, k)
      PROVE  InStop(call, k)'
  BY <1>4, <1>7 DEF InStop
<1> QED BY <1>5, <1>6, <1>7 DEF Position

\* The data callbacks and the error callback (audio_engine.cpp:196-330).
LEMMA PlatformInv ==
  ASSUME Inv, PlatformStep
  PROVE  Inv'
<1>1. TypeOK /\ Attached /\ HeadStart /\ Position
      /\ UNCHANGED <<ui, screen, session, thread>>
  BY DEF Inv, PlatformStep, Platform, sessionVars, BeginCallback, FinishCallback,
         Disconnect, OnErrorAfterClose, Prime
<1>2. TypeOK'
  <2>1. CASE \E d \in Directions : BeginCallback(d)
    BY <1>1, <2>1 DEF BeginCallback, TypeOK, Directions
  <2>2. CASE \E d \in Directions : FinishCallback(d)
    BY <1>1, <2>2 DEF FinishCallback, TypeOK, Idle
  <2>3. CASE \E d \in Directions : Disconnect(d)
    BY <1>1, <2>3 DEF Disconnect, TypeOK
  <2>4. CASE \E d \in Directions : OnErrorAfterClose(d)
    BY <1>1, <2>4 DEF OnErrorAfterClose, TypeOK
  <2>5. CASE Prime
    BY <1>1, <2>5 DEF Prime, TypeOK, Directions
  <2> QED BY <2>1, <2>2, <2>3, <2>4, <2>5 DEF PlatformStep, Platform
<1>3. /\ Attached'
      /\ \A d \in Directions : stream[d] # "started" => stream'[d] = stream[d]
  <2>1. CASE \E d \in Directions : BeginCallback(d)
    BY <1>1, <2>1 DEF BeginCallback, TypeOK, Attached
  <2>2. CASE \E d \in Directions : FinishCallback(d)
    BY <1>1, <2>2 DEF FinishCallback, TypeOK, Idle, Attached
  <2>3. CASE \E d \in Directions : Disconnect(d)
    BY <1>1, <2>3 DEF Disconnect, TypeOK, Attached
  <2>4. CASE \E d \in Directions : OnErrorAfterClose(d)
    BY <1>1, <2>4 DEF OnErrorAfterClose, Attached
  <2>5. CASE Prime
    BY <1>1, <2>5 DEF Prime, TypeOK, Attached, Directions
  <2> QED BY <2>1, <2>2, <2>3, <2>4, <2>5 DEF PlatformStep, Platform
<1>4. HeadStart' /\ (PrimedHere => PrimedHere')
  <2>1. CASE \E d \in Directions : BeginCallback(d)
    <3>1. PICK d \in Directions : BeginCallback(d)
      BY <2>1
    <3> QED BY <1>1, <3>1
            DEF BeginCallback, TypeOK, HeadStart, PrimedHere, HeadStartDropped, Directions
  <2>2. CASE \E d \in Directions : FinishCallback(d)
    BY <1>1, <2>2
       DEF FinishCallback, TypeOK, Idle, HeadStart, PrimedHere, HeadStartDropped, Directions
  <2>3. CASE \E d \in Directions : Disconnect(d)
    BY <1>1, <2>3 DEF Disconnect, HeadStart, PrimedHere, HeadStartDropped
  <2>4. CASE \E d \in Directions : OnErrorAfterClose(d)
    BY <1>1, <2>4 DEF OnErrorAfterClose, TypeOK, HeadStart, PrimedHere, HeadStartDropped
  <2>5. CASE Prime
    BY <1>1, <2>5 DEF Prime, TypeOK, HeadStart, PrimedHere, HeadStartDropped, Directions
  <2> QED BY <2>1, <2>2, <2>3, <2>4, <2>5 DEF PlatformStep, Platform
<1> QED BY <1>1, <1>2, <1>3, <1>4, Undisturbed DEF Inv

\* The network thread leaves the session it was told to leave, and no other
\* (session.cpp:155-205).
LEMMA NetworkInv ==
  ASSUME Inv, NetworkLoop
  PROVE  Inv'
<1>1. /\ UNCHANGED <<ui, engine, stream, callback, trimmed, screen, session>>
      /\ thread \in {"top", "pass"} /\ thread' \in {"top", "pass", "returned"}
      /\ TypeOK /\ Attached /\ HeadStart /\ Position
  BY DEF Inv, NetworkLoop, engineVars, TypeOK
<1>2. TypeOK' /\ Attached' /\ HeadStart'
  BY <1>1 DEF TypeOK, Attached, HeadStart, HeadStartDropped, PrimedHere
<1>3. SessionSound => SessionSound'
  BY <1>1 DEF SessionSound
<1>4. ASSUME NEW k \in Int, StartFacts(k) PROVE StartFacts(k)'
  BY <1>1, <1>3, <1>4 DEF StartFacts, PrimedHere
<1>5. ASSUME NEW k \in Int, StopFacts(k) PROVE StopFacts(k)'
  BY <1>1, <1>3, <1>5 DEF StopFacts
<1>6. RestFacts => RestFacts'
  BY <1>1, <1>3, <1>5 DEF RestFacts
<1>7. ASSUME NEW k \in 1 .. 13, InStart(k) PROVE InStart(k)'
  BY <1>1, <1>4, <1>7 DEF InStart
<1>8. ASSUME NEW call \in StopCalls, NEW k \in 1 .. 10, InStop(call, k)
      PROVE  InStop(call, k)'
  BY <1>1, <1>5, <1>8 DEF InStop
<1>9. Position'
  BY <1>1, <1>6, <1>7, <1>8 DEF Position
<1> QED BY <1>2, <1>9 DEF Inv

-------------------------------------------------------------------------------
(* Session::start() and stop() *)

\* A step that leaves the engine alone keeps what is known of it.
LEMMA EngineAlone ==
  ASSUME Attached, HeadStart, UNCHANGED <<engine, stream, callback, trimmed>>
  PROVE  Attached' /\ HeadStart'
BY DEF Attached, HeadStart, HeadStartDropped, PrimedHere

\* The three opens (session.cpp:44-79).
LEMMA OpenPartInv ==
  ASSUME Inv, NEW part \in Parts, NEW ok \in BOOLEAN, OpenPart(part, ok)
  PROVE  Inv'
<1>1. PICK n \in 1 .. 3 : InStart(n)
  <2>1. CASE part = "encoder"
    <3>1. At("open encoder")
      BY <2>1 DEF OpenPart, OpeningPart
    <3>2. InStart(1)
      BY <3>1, StartPlaces, AtStart DEF Inv
    <3> QED BY <3>2
  <2>2. CASE part = "jitter"
    <3>1. At("open jitter")
      BY <2>2 DEF OpenPart, OpeningPart
    <3>2. InStart(2)
      BY <3>1, StartPlaces, AtStart DEF Inv
    <3> QED BY <3>2
  <2>3. CASE part = "socket"
    <3>1. At("open socket")
      BY <2>3 DEF OpenPart, OpeningPart
    <3>2. InStart(3)
      BY <3>1, StartPlaces, AtStart DEF Inv
    <3> QED BY <3>2
  <2> QED BY <2>1, <2>2, <2>3 DEF Parts
<1>2. /\ UNCHANGED <<engine, stream, callback, trimmed, screen, thread>>
      /\ ~session.running /\ thread = "none" /\ screen.shown
      /\ stream["input"] = "none" /\ stream["output"] = "none"
  BY <1>1 DEF OpenPart, InStart, StartFacts
<1>3. Attached' /\ HeadStart'
  BY <1>2, EngineAlone DEF Inv
<1>4. CASE ok
  <2>1. Proceed /\ session' = [session EXCEPT !.open = @ \cup {part}]
    BY <1>2, <1>4 DEF OpenPart
  <2>2. TypeOK' /\ ~session'.running
    BY <1>2, <2>1 DEF Inv, TypeOK
  <2>3. n + 1 <= 5 /\ n \in 1 .. 12 /\ ui = From(StartCall, n)
    BY <1>1 DEF InStart
  <2>4. StartFacts(n + 1)'
    BY <1>2, <2>2, <2>3 DEF StartFacts
  <2>5. Position'
    BY <2>1, <2>3, <2>4, StartGoesOn
  <2> QED BY <1>3, <2>2, <2>5 DEF Inv
<1>5. CASE ~ok
  <2>1. ui' = <<>> /\ session' = [session EXCEPT !.open = {}]
    BY <1>2, <1>5 DEF OpenPart
  <2>2. TypeOK' /\ ~session'.running /\ session'.open = {}
    BY <1>2, <2>1 DEF Inv, TypeOK
  <2>3. RestFacts'
    BY <1>2, <2>2 DEF RestFacts, StopFacts, SessionSound
  <2> QED BY <1>3, <2>1, <2>2, <2>3 DEF Inv, Position
<1> QED BY <1>4, <1>5

\* The resets, and the thread (session.cpp:81-101).
LEMMA SpawnInv ==
  ASSUME Inv, ResetSession \/ Spawn
  PROVE  Inv'
<1>1. CASE ResetSession
  <2>1. InStart(4)
    BY <1>1, StartPlaces, AtStart DEF Inv, ResetSession
  <2>2. UNCHANGED <<engine, stream, callback, trimmed, screen, session, thread>>
        /\ Proceed
    BY <1>1 DEF ResetSession
  <2>3. StartFacts(4 + 1)' /\ ui = From(StartCall, 4)
    BY <2>1, <2>2 DEF InStart, StartFacts
  <2>4. Position'
    BY <2>2, <2>3, StartGoesOn
  <2> QED BY <2>2, <2>4, EngineAlone DEF Inv, TypeOK
<1>2. CASE Spawn
  <2>1. InStart(5)
    BY <1>2, StartPlaces, AtStart DEF Inv, Spawn
  <2>2. UNCHANGED <<engine, stream, callback, trimmed, screen>> /\ Proceed
        /\ session' = [session EXCEPT !.running = TRUE] /\ thread' = "top"
    BY <1>2 DEF Spawn
  <2>3. TypeOK' /\ session'.running
    BY <2>2 DEF Inv, TypeOK
  <2>4. StartFacts(5 + 1)' /\ ui = From(StartCall, 5)
    BY <2>1, <2>2, <2>3 DEF InStart, StartFacts, SessionSound
  <2>5. Position'
    BY <2>2, <2>4, StartGoesOn
  <2> QED BY <2>2, <2>3, <2>5, EngineAlone DEF Inv
<1> QED BY <1>1, <1>2

\* running_.exchange(false), with its early return (session.cpp:132-137).
LEMMA ClearSessionInv ==
  ASSUME Inv, ClearSession
  PROVE  Inv'
<1>1. PICK call \in StopCalls : InStop(call, 7)
  BY StopPlaces, AtStop DEF Inv, ClearSession
<1>2. /\ UNCHANGED <<engine, stream, callback, trimmed, screen, thread>>
      /\ session' = [session EXCEPT !.running = FALSE]
      /\ ui' = IF session.running THEN Tail(ui)
               ELSE SubSeq(ui, Len(SessionStop) + 1, Len(ui))
  BY DEF ClearSession
<1>3. TypeOK' /\ ~session'.running /\ session'.open = session.open
  BY <1>2 DEF Inv, TypeOK
<1>4. Attached' /\ HeadStart'
  BY <1>2, EngineAlone DEF Inv
<1>5. /\ ui = From(call, 7) /\ 7 \in 1 .. Len(call) /\ SessionSound
      /\ stream["input"] = "none" /\ stream["output"] = "none"
  BY <1>1 DEF InStop, StopFacts
<1>6. CASE session.running
  <2>1. Proceed
    BY <1>2, <1>6 DEF Proceed
  <2>2. StopFacts(7 + 1)'
    BY <1>2, <1>3, <1>5 DEF StopFacts
  <2>3. Position'
    BY <1>5, <2>1, <2>2, StopGoesOn
  <2> QED BY <1>3, <1>4, <2>3 DEF Inv
<1>7. CASE ~session.running
  <2>1. thread = "none" /\ session.open = {}
    BY <1>5, <1>7 DEF SessionSound
  <2>2. StopFacts(10)' /\ RestFacts'
    BY <1>2, <1>3, <1>5, <2>1 DEF StopFacts, RestFacts, SessionSound
  <2>3. Len(SessionStop) = 3
    BY DEF SessionStop
  <2>4. ui' = SubSeq(From(call, 7), 3 + 1, Len(From(call, 7)))
    BY <1>2, <1>5, <1>7, <2>3
  <2>5. CASE call = StopCall
    <3> DEFINE f == From(call, 7)
    <3>1. call \in Seq(Steps) /\ Len(call) = 9
      BY <2>5, CallTypes
    <3>2. \A i \in 7 .. 9 : call[i] \in Steps
      <4> TAKE i \in 7 .. 9
      <4>1. i \in 1 .. Len(call)
        BY <3>1
      <4> QED BY <3>1, <4>1, ElementOfSeq
    <3>3. Len(f) = 3
      BY <3>1, <3>2, SubSeqProperties DEF From
    <3> HIDE DEF f
    <3>4. ui' = <<>>
      BY <2>4, <3>3, SubSeqEmpty DEF f
    <3> QED BY <1>3, <1>4, <2>2, <3>4 DEF Inv, Position
  <2>6. CASE call = StopButtonCall
    <3>1. call \in Seq(Steps) /\ Len(call) = 10
      BY <2>6, CallTypes
    <3>2. ui' = From(call, 7 + 3)
      <4>1. 7 \in 1 .. Len(call) /\ 3 \in Nat /\ 7 + 3 <= Len(call)
        BY <3>1
      <4> QED BY <2>4, <3>1, <4>1, CallSkips
    <3>3. InStop(call, 10)'
      BY <2>2, <3>1, <3>2 DEF InStop
    <3>4. 10 \in 1 .. 10
      OBVIOUS
    <3>5. Position'
      BY <3>3, <3>4 DEF Position
    <3> QED BY <1>3, <1>4, <3>5 DEF Inv
  <2> QED BY <2>5, <2>6 DEF StopCalls
<1> QED BY <1>6, <1>7

\* The join and the closes (session.cpp:138-145).
LEMMA JoinInv ==
  ASSUME Inv, Join \/ CloseSession
  PROVE  Inv'
<1>1. CASE Join
  <2>1. PICK call \in StopCalls : InStop(call, 8)
    BY <1>1, StopPlaces, AtStop DEF Inv, Join
  <2>2. UNCHANGED <<engine, stream, callback, trimmed, screen, session>> /\ Proceed
        /\ thread' = "none"
    BY <1>1 DEF Join
  <2>3. StopFacts(8 + 1)' /\ ui = From(call, 8) /\ 8 \in 1 .. Len(call)
    BY <2>1, <2>2 DEF InStop, StopFacts
  <2>4. Position'
    BY <2>2, <2>3, StopGoesOn
  <2> QED BY <2>2, <2>4, EngineAlone DEF Inv, TypeOK
<1>2. CASE CloseSession
  <2>1. PICK call \in StopCalls : InStop(call, 9)
    BY <1>2, StopPlaces, AtStop DEF Inv, CloseSession
  <2>2. UNCHANGED <<engine, stream, callback, trimmed, screen, thread>> /\ Proceed
        /\ session' = [session EXCEPT !.open = {}]
    BY <1>2 DEF CloseSession
  <2>3. TypeOK' /\ session'.open = {} /\ session'.running = session.running
    BY <2>2 DEF Inv, TypeOK
  <2>4. StopFacts(9 + 1)' /\ ui = From(call, 9) /\ 9 \in 1 .. Len(call)
    BY <2>1, <2>2, <2>3 DEF InStop, StopFacts
  <2>5. Position'
    BY <2>2, <2>4, StopGoesOn
  <2> QED BY <2>2, <2>3, <2>5, EngineAlone DEF Inv
<1> QED BY <1>1, <1>2

-------------------------------------------------------------------------------
(* AudioEngine::start() and stop() *)

\* What an engine step does not touch.
Elsewhere == UNCHANGED <<screen, session, thread>>

\* running_.load() and the reset of the ring (audio_engine.cpp:108-125).
LEMMA ResetRingInv ==
  ASSUME Inv, ResetRing(screen.mode = "session"), Elsewhere
  PROVE  Inv'
<1>1. InStart(6)
  BY StartPlaces, AtStart DEF Inv, ResetRing
<1>2. /\ UNCHANGED <<stream, callback, screen, session, thread>>
      /\ ui = From(StartCall, 6) /\ SessionSound /\ screen.shown
      /\ stream["input"] = "none" /\ stream["output"] = "none"
      /\ TypeOK /\ Attached /\ HeadStart
  <2>1. UNCHANGED <<stream, callback, screen, session, thread>>
    BY DEF ResetRing, Elsewhere
  <2>2. /\ ui = From(StartCall, 6) /\ SessionSound /\ screen.shown
        /\ stream["input"] = "none" /\ stream["output"] = "none"
    BY <1>1 DEF InStart, StartFacts
  <2> QED BY <2>1, <2>2 DEF Inv
<1>3. SessionSound' /\ Attached'
  BY <1>2 DEF SessionSound, Attached
<1>4. CASE engine.running
  <2>1. UNCHANGED <<engine, trimmed>>
        /\ ui' = SubSeq(ui, Len(EngineStart) + 1, Len(ui))
    BY <1>4 DEF ResetRing
  <2>2. Len(EngineStart) = 7
    BY DEF EngineStart
  <2>3. ui' = From(StartCall, 6 + 7)
    <3>1. /\ StartCall \in Seq(Steps) /\ 6 \in 1 .. Len(StartCall)
          /\ 7 \in Nat /\ 6 + 7 <= Len(StartCall)
      BY CallTypes
    <3>2. ui' = SubSeq(From(StartCall, 6), 7 + 1, Len(From(StartCall, 6)))
      BY <1>2, <2>1, <2>2
    <3> QED BY <3>1, <3>2, CallSkips
  <2>4. StartFacts(13)'
    BY <1>2, <1>3 DEF StartFacts
  <2>5. InStart(13)' /\ 13 \in 1 .. 13
    BY <2>3, <2>4 DEF InStart
  <2>6. Position'
    BY <2>5 DEF Position
  <2> QED BY <1>2, <1>3, <2>1, <2>6, EngineAlone DEF Inv, TypeOK
<1>5. CASE ~engine.running
  <2> DEFINE piped == screen.mode = "session"
  <2>1. Proceed /\ engine' = [engine EXCEPT !.piped = piped] /\ trimmed' = FALSE
    BY <1>5 DEF ResetRing
  <2>2. TypeOK' /\ ~engine'.running
    BY <1>2, <1>5, <2>1 DEF TypeOK
  <2>3. callback'["output"].at = "idle"
    BY <1>2 DEF Attached, Directions
  <2>4. HeadStart'
    BY <2>2, <2>3 DEF HeadStart, HeadStartDropped
  <2>5. StartFacts(6 + 1)'
    BY <1>2, <1>3 DEF StartFacts
  <2>6. Position'
    BY <1>2, <2>1, <2>5, StartGoesOn
  <2> QED BY <1>3, <2>2, <2>4, <2>6 DEF Inv
<1> QED BY <1>4, <1>5

\* A start that fails goes on to a stop (audio_engine.cpp:127-156).
LEMMA FailInv ==
  ASSUME TypeOK, Attached, HeadStart, SessionSound, Fail(AudioFailed),
         UNCHANGED <<engine, stream, callback, trimmed, screen, session, thread>>
  PROVE  Inv'
<1>1. ui' = From(StopCall, 1)
  BY WholeCalls DEF Fail
<1>2. StopFacts(1)'
  BY DEF StopFacts, SessionSound
<1>3. 1 \in 1 .. Len(StopCall) /\ 1 \in 1 .. 10 /\ StopCall \in StopCalls
  BY CallTypes DEF StopCalls
<1>4. InStop(StopCall, 1)'
  BY <1>1, <1>2, <1>3 DEF InStop
<1>5. Position'
  BY <1>3, <1>4 DEF Position
<1> QED BY <1>5, EngineAlone DEF Inv, TypeOK

\* open_stream() and requestStart() (audio_engine.cpp:127-156).
LEMMA OpenStreamInv ==
  ASSUME Inv, NEW d \in Directions, NEW ok \in BOOLEAN, Elsewhere,
         OpenStream(d, ok, AudioFailed) \/ RequestStart(d, ok, AudioFailed)
  PROVE  Inv'
<1>1. PICK n \in 7 .. 10 :
        /\ InStart(n)
        /\ n <= 8 => OpenStream(d, ok, AudioFailed) /\ stream[d] = "none"
        /\ n > 8 => RequestStart(d, ok, AudioFailed)
        /\ d = "input" <=> n \in {7, 9}
  <2>1. CASE OpenStream(d, ok, AudioFailed) /\ d = "input"
    <3>1. At("open input")
      BY <2>1 DEF OpenStream, Opening
    <3>2. InStart(7)
      BY <3>1, StartPlaces, AtStart DEF Inv
    <3>3. stream[d] = "none"
      BY <2>1, <3>2 DEF InStart, StartFacts
    <3> QED BY <2>1, <3>2, <3>3
  <2>2. CASE OpenStream(d, ok, AudioFailed) /\ d = "output"
    <3>1. At("open output")
      BY <2>2 DEF OpenStream, Opening
    <3>2. InStart(8)
      BY <3>1, StartPlaces, AtStart DEF Inv
    <3>3. stream[d] = "none"
      BY <2>2, <3>2 DEF InStart, StartFacts
    <3> QED BY <2>2, <3>2, <3>3
  <2>3. CASE RequestStart(d, ok, AudioFailed) /\ d = "input"
    <3>1. At("start input")
      BY <2>3 DEF RequestStart, Starting
    <3>2. InStart(9)
      BY <3>1, StartPlaces, AtStart DEF Inv
    <3> QED BY <2>3, <3>2
  <2>4. CASE RequestStart(d, ok, AudioFailed) /\ d = "output"
    <3>1. At("start output")
      BY <2>4 DEF RequestStart, Starting
    <3>2. InStart(10)
      BY <3>1, StartPlaces, AtStart DEF Inv
    <3> QED BY <2>4, <3>2
  <2> QED BY <2>1, <2>2, <2>3, <2>4 DEF Directions
<1>2. /\ UNCHANGED <<engine, callback, trimmed, screen, session, thread>>
      /\ ui = From(StartCall, n) /\ StartFacts(n)
      /\ TypeOK /\ Attached /\ HeadStart /\ SessionSound
  BY <1>1 DEF OpenStream, RequestStart, Elsewhere, InStart, StartFacts, Inv
<1>3. CASE ~ok
  <2>1. Fail(AudioFailed) /\ UNCHANGED stream
    BY <1>1, <1>3 DEF OpenStream, RequestStart
  <2> QED BY <1>2, <2>1, FailInv
<1>4. CASE ok
  <2>1. Proceed /\ stream' = [stream EXCEPT ![d] = IF n <= 8 THEN "open" ELSE "started"]
    BY <1>1, <1>4 DEF OpenStream, RequestStart
  <2>2. TypeOK'
    BY <1>2, <2>1 DEF TypeOK
  <2>3. n <= 8 => callback[d].at = "idle"
    BY <1>1, <1>2 DEF Attached
  <2>4. Attached'
    BY <1>2, <2>1, <2>3 DEF Attached, TypeOK
  <2>5. HeadStart' /\ SessionSound'
    BY <1>2 DEF HeadStart, HeadStartDropped, PrimedHere, SessionSound
  <2>6. StartFacts(n + 1)'
    <3>1. n = 7 => stream'["output"] = stream["output"]
      BY <1>1, <1>2, <2>1 DEF TypeOK, Directions
    <3> QED BY <1>1, <1>2, <2>5, <3>1 DEF StartFacts
  <2>7. Position'
    BY <1>2, <2>1, <2>6, StartGoesOn
  <2> QED BY <2>2, <2>4, <2>5, <2>7 DEF Inv
<1> QED BY <1>3, <1>4

\* The flag and running_ (audio_engine.cpp:158-161).
LEMMA SetRunningInv ==
  ASSUME Inv, ResetPrimed \/ SetRunning, Elsewhere
  PROVE  Inv'
<1>1. CASE ResetPrimed
  <2>1. InStart(11)
    BY <1>1, StartPlaces, AtStart DEF Inv, ResetPrimed
  <2>2. /\ UNCHANGED <<stream, callback, trimmed, screen, session, thread>> /\ Proceed
        /\ engine' = [engine EXCEPT !.primed = FALSE]
        /\ ui = From(StartCall, 11) /\ StartFacts(11)
        /\ TypeOK /\ Attached /\ HeadStart
    BY <1>1, <2>1 DEF ResetPrimed, Elsewhere, InStart, Inv
  <2>3. TypeOK' /\ ~engine'.primed
    BY <2>2 DEF TypeOK
  <2>4. HeadStart' /\ PrimedHere' /\ Attached' /\ (SessionSound => SessionSound')
    BY <2>2, <2>3 DEF HeadStart, HeadStartDropped, PrimedHere, Attached, SessionSound
  <2>5. StartFacts(11 + 1)'
    BY <2>2, <2>4 DEF StartFacts
  <2>6. Position'
    BY <2>2, <2>5, StartGoesOn
  <2> QED BY <2>3, <2>4, <2>6 DEF Inv
<1>2. CASE SetRunning
  <2>1. InStart(12)
    BY <1>2, StartPlaces, AtStart DEF Inv, SetRunning
  <2>2. /\ UNCHANGED <<stream, callback, trimmed, screen, session, thread>> /\ Proceed
        /\ engine' = [engine EXCEPT !.running = TRUE]
        /\ ui = From(StartCall, 12) /\ StartFacts(12)
        /\ TypeOK /\ Attached /\ HeadStart
    BY <1>2, <2>1 DEF SetRunning, Elsewhere, InStart, Inv
  <2>3. TypeOK' /\ engine'.primed = engine.primed
    BY <2>2 DEF TypeOK
  <2>4. PrimedHere'
    BY <2>2, <2>3 DEF StartFacts, PrimedHere
  <2>5. HeadStart' /\ Attached' /\ (SessionSound => SessionSound')
    BY <2>2, <2>4 DEF HeadStart, HeadStartDropped, Attached, SessionSound
  <2>6. StartFacts(12 + 1)'
    BY <2>2, <2>4, <2>5 DEF StartFacts
  <2>7. Position'
    BY <2>2, <2>6, StartGoesOn
  <2> QED BY <2>3, <2>5, <2>7 DEF Inv
<1> QED BY <1>1, <1>2

\* running_.store(false), requestStop() and close() (audio_engine.cpp:163-179).
LEMMA StopStreamInv ==
  ASSUME Inv, NEW d \in Directions, RequestStop(d) \/ CloseStream(d), Elsewhere
  PROVE  Inv'
<1>1. PICK n \in 2 .. 5 :
        /\ \E call \in StopCalls : InStop(call, n)
        /\ n \in {2, 4} => RequestStop(d)
        /\ n \in {3, 5} => CloseStream(d)
        /\ d = "output" <=> n \in {2, 3}
  <2>1. CASE RequestStop(d) /\ d = "output"
    <3>1. At("stop output")
      BY <2>1 DEF RequestStop, Stopping
    <3>2. \E call \in StopCalls : InStop(call, 2)
      BY <3>1, StopPlaces, AtStop DEF Inv
    <3> QED BY <2>1, <3>2
  <2>2. CASE CloseStream(d) /\ d = "output"
    <3>1. At("close output")
      BY <2>2 DEF CloseStream, Closing
    <3>2. \E call \in StopCalls : InStop(call, 3)
      BY <3>1, StopPlaces, AtStop DEF Inv
    <3> QED BY <2>2, <3>2
  <2>3. CASE RequestStop(d) /\ d = "input"
    <3>1. At("stop input")
      BY <2>3 DEF RequestStop, Stopping
    <3>2. \E call \in StopCalls : InStop(call, 4)
      BY <3>1, StopPlaces, AtStop DEF Inv
    <3> QED BY <2>3, <3>2
  <2>4. CASE CloseStream(d) /\ d = "input"
    <3>1. At("close input")
      BY <2>4 DEF CloseStream, Closing
    <3>2. \E call \in StopCalls : InStop(call, 5)
      BY <3>1, StopPlaces, AtStop DEF Inv
    <3> QED BY <2>4, <3>2
  <2> QED BY <2>1, <2>2, <2>3, <2>4 DEF Directions
<1>2. PICK call \in StopCalls : InStop(call, n)
  BY <1>1
<1>3. /\ UNCHANGED <<engine, callback, trimmed, screen, session, thread>> /\ Proceed
      /\ ui = From(call, n) /\ n \in 1 .. Len(call) /\ StopFacts(n)
      /\ TypeOK /\ Attached /\ HeadStart /\ SessionSound
  BY <1>1, <1>2 DEF RequestStop, CloseStream, Elsewhere, InStop, StopFacts, Inv
<1>4. HeadStart' /\ SessionSound'
  BY <1>3 DEF HeadStart, HeadStartDropped, PrimedHere, SessionSound
<1>5. CASE n \in {2, 4}
  <2>1. stream' = [stream EXCEPT ![d] = IF @ = "started" THEN "stopping" ELSE @]
    BY <1>1, <1>5 DEF RequestStop
  <2>2. /\ stream'[d] # "started"
        /\ \A e \in Directions : e # d => stream'[e] = stream[e]
        /\ \A e \in Directions : stream[e] \in {"started", "stopping"}
                                   => stream'[e] \in {"started", "stopping"}
        /\ TypeOK'
    BY <1>3, <2>1 DEF TypeOK
  <2>3. Attached'
    BY <1>3, <2>2 DEF Attached
  <2>4. StopFacts(n + 1)'
    BY <1>1, <1>3, <1>4, <1>5, <2>2 DEF StopFacts, Directions
  <2>5. Position'
    BY <1>3, <2>4, StopGoesOn
  <2> QED BY <1>4, <2>2, <2>3, <2>5 DEF Inv
<1>6. CASE n \in {3, 5}
  <2>1. stream' = [stream EXCEPT ![d] = "none"] /\ callback[d].at = "idle"
    BY <1>1, <1>6 DEF CloseStream
  <2>2. /\ stream'[d] = "none"
        /\ \A e \in Directions : e # d => stream'[e] = stream[e]
        /\ TypeOK'
    BY <1>3, <2>1 DEF TypeOK
  <2>3. Attached'
    BY <1>3, <2>1, <2>2 DEF Attached
  <2>4. StopFacts(n + 1)'
    BY <1>1, <1>3, <1>4, <1>6, <2>2 DEF StopFacts, Directions
  <2>5. Position'
    BY <1>3, <2>4, StopGoesOn
  <2> QED BY <1>4, <2>2, <2>3, <2>5 DEF Inv
<1> QED BY <1>5, <1>6

\* The first and the last step of stop() (audio_engine.cpp:163-165, 181-183).
LEMMA StopEngineInv ==
  ASSUME Inv, ClearRunning \/ DropPipeline, Elsewhere
  PROVE  Inv'
<1>1. PICK n \in {1, 6} : \E call \in StopCalls : InStop(call, n)
  <2>1. CASE ClearRunning
    <3>1. \E call \in StopCalls : InStop(call, 1)
      BY <2>1, StopPlaces, AtStop DEF Inv, ClearRunning
    <3> QED BY <3>1
  <2>2. CASE DropPipeline
    <3>1. \E call \in StopCalls : InStop(call, 6)
      BY <2>2, StopPlaces, AtStop DEF Inv, DropPipeline
    <3> QED BY <3>1
  <2> QED BY <2>1, <2>2
<1>2. PICK call \in StopCalls : InStop(call, n)
  BY <1>1
<1>3. /\ UNCHANGED <<stream, callback, trimmed, screen, session, thread>> /\ Proceed
      /\ ui = From(call, n) /\ n \in 1 .. Len(call) /\ StopFacts(n)
      /\ TypeOK /\ Attached /\ HeadStart /\ SessionSound
  <2>1. UNCHANGED <<stream, callback, trimmed, screen, session, thread>> /\ Proceed
    BY DEF ClearRunning, DropPipeline, Elsewhere
  <2>2. ui = From(call, n) /\ n \in 1 .. Len(call) /\ StopFacts(n)
    BY <1>2 DEF InStop
  <2>3. SessionSound
    BY <1>1, <2>2 DEF StopFacts
  <2> QED BY <2>1, <2>2, <2>3 DEF Inv
<1>4. TypeOK' /\ engine'.primed = engine.primed /\ (engine'.running => engine.running)
  BY <1>3 DEF ClearRunning, DropPipeline, TypeOK
<1>5. HeadStart' /\ SessionSound' /\ Attached'
  BY <1>3, <1>4 DEF HeadStart, HeadStartDropped, PrimedHere, SessionSound, Attached
<1>6. StopFacts(n + 1)'
  BY <1>1, <1>3, <1>5 DEF StopFacts
<1>7. Position'
  BY <1>3, <1>6, StopGoesOn
<1> QED BY <1>4, <1>5, <1>7 DEF Inv

\* Every step of the engine's calls.
LEMMA EngineInv ==
  ASSUME Inv, EngineStep
  PROVE  Inv'
<1>1. Elsewhere
  BY DEF EngineStep, Elsewhere, sessionVars
<1>2. CASE ResetRing(screen.mode = "session")
  BY <1>1, <1>2, ResetRingInv, Zenon
<1>3. CASE \E d \in Directions, ok \in BOOLEAN :
             OpenStream(d, ok, AudioFailed) \/ RequestStart(d, ok, AudioFailed)
  BY <1>1, <1>3, OpenStreamInv
<1>4. CASE \E d \in Directions : RequestStop(d) \/ CloseStream(d)
  BY <1>1, <1>4, StopStreamInv
<1>5. CASE ResetPrimed \/ SetRunning
  BY <1>1, <1>5, SetRunningInv
<1>6. CASE ClearRunning \/ DropPipeline
  BY <1>1, <1>6, StopEngineInv
<1> QED BY <1>2, <1>3, <1>4, <1>5, <1>6 DEF EngineStep

-------------------------------------------------------------------------------
(* The screen *)

\* The button (MainActivity.kt:184-214).
LEMMA PressInv ==
  ASSUME Inv, Press
  PROVE  Inv'
<1>1. /\ UNCHANGED <<engine, stream, callback, trimmed, session, thread>>
      /\ ui = <<>> /\ screen.shown
      /\ TypeOK /\ Attached /\ HeadStart /\ Position
  BY DEF Inv, Press, sessionVars
<1>2. RestFacts
  BY <1>1, NoCall
<1>3. Attached' /\ HeadStart' /\ SessionSound'
  BY <1>1, <1>2, EngineAlone DEF RestFacts, SessionSound
<1>4. CASE ~screen.granted
  <2>1. PICK granted \in BOOLEAN : screen' = [screen EXCEPT !.granted = granted]
    BY <1>4 DEF Press
  <2>2. ui' = ui
    BY <1>4 DEF Press
  <2>3. TypeOK' /\ screen'.running = screen.running /\ screen'.shown = screen.shown
    BY <1>1, <2>1 DEF TypeOK
  <2>4. RestFacts'
    BY <1>1, <1>2, <1>3, <2>3 DEF RestFacts, StopFacts
  <2> QED BY <1>1, <1>3, <2>2, <2>3, <2>4 DEF Inv, Position
<1>5. CASE screen.granted /\ screen.running
  <2>1. ui' = From(StopButtonCall, 1) /\ screen' = screen
    BY <1>5, WholeCalls DEF Press
  <2>2. StopFacts(1)'
    BY <1>3 DEF StopFacts
  <2>3. 1 \in 1 .. Len(StopButtonCall) /\ 1 \in 1 .. 10 /\ StopButtonCall \in StopCalls
    BY CallTypes DEF StopCalls
  <2>4. InStop(StopButtonCall, 1)'
    BY <2>1, <2>2, <2>3 DEF InStop
  <2>5. Position'
    BY <2>3, <2>4 DEF Position
  <2> QED BY <1>1, <1>3, <2>1, <2>5 DEF Inv, TypeOK
<1>6. CASE screen.granted /\ ~screen.running
  <2>1. screen' = screen
        /\ ui' = (IF screen.mode = "session" THEN SessionStart ELSE <<>>)
                   \o EngineStart \o <<"started">>
    BY <1>6 DEF Press
  <2>2. PICK n \in {1, 6} : ui' = From(StartCall, n)
    BY <2>1, WholeCalls
  <2>3. StopFacts(10)
    BY <1>2, <1>6 DEF RestFacts
  <2>4. StartFacts(n)'
    BY <1>1, <1>3, <2>1, <2>3 DEF StopFacts, StartFacts
  <2>5. InStart(n)' /\ n \in 1 .. 13
    BY <2>2, <2>4 DEF InStart
  <2>6. Position'
    BY <2>5 DEF Position
  <2> QED BY <1>1, <1>3, <2>1, <2>6 DEF Inv, TypeOK
<1> QED BY <1>1, <1>4, <1>5, <1>6 DEF TypeOK

\* `running` on the screen (MainActivity.kt:190-212).
LEMMA ShowRunningInv ==
  ASSUME Inv, ShowRunning
  PROVE  Inv'
<1>1. /\ UNCHANGED <<engine, stream, callback, trimmed, session, thread>> /\ Proceed
      /\ screen' = [screen EXCEPT !.running = At("started")]
      /\ TypeOK /\ Attached /\ HeadStart
  BY DEF Inv, ShowRunning, sessionVars
<1>2. TypeOK' /\ screen'.shown = screen.shown /\ screen'.running = At("started")
  BY <1>1 DEF TypeOK, At
<1>3. Attached' /\ HeadStart'
  BY <1>1, EngineAlone
<1>4. CASE At("started")
  <2>1. InStart(13)
    BY <1>4, StartPlaces, AtStart DEF Inv
  <2>2. StartCall \in Seq(Steps) /\ Len(StartCall) = 13 /\ 13 \in 1 .. Len(StartCall)
    BY CallTypes
  <2>3. ui' = From(StartCall, 13 + 1)
    BY <1>1, <2>1, <2>2, CallSteps DEF InStart, Proceed
  <2>4. ui' = <<>>
    BY <2>2, <2>3, CallEnds
  <2>5. RestFacts'
    BY <1>1, <1>2, <1>4, <2>1 DEF InStart, StartFacts, RestFacts, SessionSound
  <2> QED BY <1>2, <1>3, <2>4, <2>5 DEF Inv, Position
<1>5. CASE At("stopped")
  <2>1. PICK call \in StopCalls : InStop(call, 10)
    BY <1>5, StopPlaces, AtStop DEF Inv
  <2>2. ui = From(call, 10) /\ 10 \in 1 .. Len(call) /\ StopFacts(10)
    BY <2>1 DEF InStop
  <2>3. StopFacts(10 + 1)'
    BY <1>1, <2>2 DEF StopFacts
  <2>4. Position'
    BY <1>1, <2>2, <2>3, StopGoesOn
  <2> QED BY <1>2, <1>3, <2>4 DEF Inv
<1> QED BY <1>4, <1>5 DEF ShowRunning

\* onStop(), the next onStart() and the chips (MainActivity.kt:55-63, 150-170).
LEMMA ScreenInv ==
  ASSUME Inv, NEW recreated \in BOOLEAN, NEW mode \in {"session", "loopback"},
         OnStop \/ Show(recreated) \/ Choose(mode)
  PROVE  Inv'
<1>1. /\ UNCHANGED <<engine, stream, callback, trimmed, session, thread>> /\ ui = <<>>
      /\ TypeOK /\ Attached /\ HeadStart /\ Position
  BY DEF Inv, OnStop, Show, Choose, sessionVars, engineVars
<1>2. RestFacts
  BY <1>1, NoCall
<1>3. Attached' /\ HeadStart' /\ SessionSound'
  BY <1>1, <1>2, EngineAlone DEF RestFacts, SessionSound
<1>4. TypeOK'
  <2>1. CASE OnStop
    BY <1>1, <2>1 DEF OnStop, TypeOK
  <2>2. CASE Show(recreated)
    BY <1>1, <2>2 DEF Show, TypeOK
  <2>3. CASE Choose(mode)
    BY <1>1, <2>3 DEF Choose, TypeOK
  <2> QED BY <2>1, <2>2, <2>3
<1>5. CASE OnStop
  <2>1. ui' = From(StopCall, 1)
    BY <1>5, WholeCalls DEF OnStop
  <2>2. StopFacts(1)'
    BY <1>3 DEF StopFacts
  <2>3. 1 \in 1 .. Len(StopCall) /\ 1 \in 1 .. 10 /\ StopCall \in StopCalls
    BY CallTypes DEF StopCalls
  <2>4. InStop(StopCall, 1)'
    BY <2>1, <2>2, <2>3 DEF InStop
  <2>5. Position'
    BY <2>3, <2>4 DEF Position
  <2> QED BY <1>3, <1>4, <2>5 DEF Inv
<1>6. CASE Show(recreated) \/ Choose(mode)
  <2>1. ui' = <<>> /\ (~screen.running \/ ~screen.shown)
    BY <1>1, <1>6 DEF Show, Choose, engineVars
  <2>2. RestFacts'
    BY <1>1, <1>2, <1>3, <2>1 DEF RestFacts, StopFacts
  <2> QED BY <1>3, <1>4, <2>1, <2>2 DEF Inv, Position
<1> QED BY <1>5, <1>6

-------------------------------------------------------------------------------
(* The theorems *)

\* The application is opened with nothing running.
LEMMA InitInv ==
  Init => Inv
<1> SUFFICES ASSUME Init PROVE Inv
  OBVIOUS
<1>1. TypeOK
  BY DEF Init, EngineInit, TypeOK, Idle, Directions
<1>2. Attached /\ HeadStart
  BY DEF Init, EngineInit, Attached, HeadStart, HeadStartDropped, Idle, Directions
<1>3. RestFacts /\ ui = <<>>
  BY DEF Init, EngineInit, RestFacts, StopFacts, SessionSound, Directions
<1> QED BY <1>1, <1>2, <1>3 DEF Inv, Position

\* Every step keeps the invariant.
LEMMA NextInv ==
  Inv /\ [Next]_vars => Inv'
<1> SUFFICES ASSUME Inv, [Next]_vars PROVE Inv'
  OBVIOUS
<1>1. CASE Press
  BY <1>1, PressInv
<1>2. CASE OnStop
  BY <1>2, ScreenInv
<1>3. ASSUME NEW recreated \in BOOLEAN, Show(recreated) PROVE Inv'
  BY <1>3, ScreenInv
<1>4. ASSUME NEW mode \in {"session", "loopback"}, Choose(mode) PROVE Inv'
  BY <1>4, ScreenInv
<1>5. CASE EngineStep
  BY <1>5, EngineInv
<1>6. CASE SessionStep
  <2>1. ASSUME NEW part \in Parts, NEW ok \in BOOLEAN, OpenPart(part, ok) PROVE Inv'
    BY <2>1, OpenPartInv
  <2> QED BY <1>6, <2>1, SpawnInv, ClearSessionInv, JoinInv DEF SessionStep
<1>7. CASE ShowRunning
  BY <1>7, ShowRunningInv
<1>8. CASE NetworkLoop
  BY <1>8, NetworkInv
<1>9. CASE PlatformStep
  BY <1>9, PlatformInv
<1>10. CASE UNCHANGED vars
  <2>1. UNCHANGED <<ui, engine, stream, callback, trimmed, screen, session, thread>>
    BY <1>10 DEF vars, engineVars
  <2>2. Position' /\ Attached' /\ HeadStart'
    BY <2>1, Undisturbed, EngineAlone DEF Inv, PrimedHere
  <2> QED BY <2>1, <2>2 DEF Inv, TypeOK
<1> QED
  BY <1>1, <1>2, <1>3, <1>4, <1>5, <1>6, <1>7, <1>8, <1>9, <1>10 DEF Next

\* The invariant holds throughout.
LEMMA AlwaysInv ==
  Spec => []Inv
BY InitInv, NextInv, PTL DEF Spec

\* What is not safe against a callback or the network thread happens when there is
\* none (audio_engine.cpp:114-125, 181-183; session.cpp:81-92, 137-145).
THEOREM ResetsCorrect ==
  Spec => []ResetsAreQuiet
<1>1. ASSUME Inv PROVE ResetsAreQuiet
  <2>1. stream["input"] = "none" /\ stream["output"] = "none" => Quiet
    BY <1>1 DEF Inv, Attached, Quiet, Directions
  <2>2. At("reset ring") => Quiet
    <3>1. At("reset ring") => InStart(6)
      BY <1>1, StartPlaces, AtStart DEF Inv
    <3>2. InStart(6) => stream["input"] = "none" /\ stream["output"] = "none"
      BY DEF InStart, StartFacts
    <3> QED BY <2>1, <3>1, <3>2
  <2>3. At("reset session") => Quiet /\ thread = "none"
    <3>1. At("reset session") => InStart(4)
      BY <1>1, StartPlaces, AtStart DEF Inv
    <3>2. InStart(4) => /\ stream["input"] = "none" /\ stream["output"] = "none"
                        /\ thread = "none"
      BY DEF InStart, StartFacts
    <3> QED BY <2>1, <3>1, <3>2
  <2>4. At("spawn") => thread = "none"
    <3>1. At("spawn") => InStart(5)
      BY <1>1, StartPlaces, AtStart DEF Inv
    <3>2. InStart(5) => thread = "none"
      BY DEF InStart, StartFacts
    <3> QED BY <3>1, <3>2
  <2>5. At("drop pipeline") => Quiet
    <3>1. At("drop pipeline") => \E call \in StopCalls : InStop(call, 6)
      BY <1>1, StopPlaces, AtStop DEF Inv
    <3>2. \A call \in StopCalls :
            InStop(call, 6) => stream["input"] = "none" /\ stream["output"] = "none"
      BY DEF InStop, StopFacts
    <3> QED BY <2>1, <3>1, <3>2
  <2>6. At("close session") => Quiet /\ thread = "none"
    <3>1. At("close session") => \E call \in StopCalls : InStop(call, 9)
      BY <1>1, StopPlaces, AtStop DEF Inv
    <3>2. \A call \in StopCalls :
            InStop(call, 9) => /\ stream["input"] = "none" /\ stream["output"] = "none"
                               /\ thread = "none"
      BY DEF InStop, StopFacts
    <3> QED BY <2>1, <3>1, <3>2
  <2> QED BY <2>2, <2>3, <2>4, <2>5, <2>6 DEF ResetsAreQuiet
<1> QED BY <1>1, AlwaysInv, PTL

\* Once start() has returned, playback is from a ring whose head start was thrown
\* away in this run (audio_engine.cpp:140-144, 158, 232-246).
THEOREM HeadStartCorrect ==
  Spec => []HeadStartDropped
<1>1. Inv => HeadStartDropped
  BY DEF Inv, HeadStart
<1> QED BY <1>1, AlwaysInv, PTL

\* After a failed start, a stop or onStop(), nothing is left open or running
\* (MainActivity.kt:55-63, 184-214).
THEOREM StopCorrect ==
  Spec => []NothingLeftRunning
<1>1. ASSUME Inv PROVE NothingLeftRunning
  <2> SUFFICES ASSUME ui = <<>>, ~screen.running \/ ~screen.shown
               PROVE  /\ \A d \in Directions : stream[d] = "none" /\ callback[d].at = "idle"
                      /\ session = [running |-> FALSE, open |-> {}]
                      /\ thread = "none"
    BY DEF NothingLeftRunning
  <2>1. StopFacts(10)
    BY <1>1, NoCall DEF Inv, RestFacts
  <2>2. \A d \in Directions : stream[d] = "none"
    BY <2>1 DEF StopFacts, Directions
  <2>3. \A d \in Directions : callback[d].at = "idle"
    BY <1>1, <2>2 DEF Inv, Attached
  <2>4. session = [running |-> FALSE, open |-> {}]
    BY <1>1, <2>1 DEF Inv, TypeOK, StopFacts
  <2> QED BY <2>1, <2>2, <2>3, <2>4 DEF StopFacts
<1> QED BY <1>1, AlwaysInv, PTL

-------------------------------------------------------------------------------
(* What the talker gives to its socket *)

Fields == [stream : Streams, sequence : Serials]

\* What MediaPacket() makes.
Packets ==
  [size : {HeaderSize + 1}, version : {Version}, type : {"Audio"},
   flags : SUBSET MediaFlags, fields : Fields]

Talkers == [open : BOOLEAN, stream : 0 .. MaxStreams, sequence : Serials]

\* StreamsWellFormed, of one stream.
WellFormed(h) ==
  \A i \in DOMAIN h :
    /\ i > 1 => h[i].fields.sequence = Wrap(h[i - 1].fields.sequence + 1)
    /\ "start" \in h[i].flags => i = 1
    /\ "end" \in h[i].flags => i = Len(h)

\* A packet with this sequence number may follow.
Continues(h, sequence) ==
  /\ \A i \in DOMAIN h : "end" \notin h[i].flags
  /\ Len(h) > 0 => sequence = Wrap(h[Len(h)].fields.sequence + 1)

TalkTypeOK ==
  /\ transmitting \in BOOLEAN
  /\ tx \in Talkers
  /\ handed \in [Streams -> Seq(Packets)]
  /\ after \in Nat

Sound(t, h) ==
  /\ \A s \in Streams : WellFormed(h[s])
  /\ \A s \in Streams : s > t.stream => h[s] = <<>>
  /\ t.open => t.stream \in Streams /\ Continues(h[t.stream], t.sequence)

Released ==
  /\ transmitting \/ tx.open => after = 0
  /\ after <= 1

\* The inductive invariant.
TalkInv == TalkTypeOK /\ Sound(tx, handed) /\ Released

-------------------------------------------------------------------------------
\* A datagram always holds a packet of one frame (session.cpp:255-262).
LEMMA PacketMade ==
  ASSUME NEW t \in Talkers, t.stream \in Streams, NEW flags \in SUBSET MediaFlags
  PROVE  /\ MediaPacket(t, flags) \in Packets
         /\ MediaPacket(t, flags).fields.stream = t.stream
         /\ MediaPacket(t, flags).fields.sequence = t.sequence
         /\ MediaPacket(t, flags).flags = flags
BY WireAssumption
   DEF MediaPacket, EncodeMedia, Packets, Fields, Talkers, HeaderSize,
       PongBodySize, Version

\* Appending to one stream: the packet that comes next keeps it well formed, and
\* it can be continued unless the packet is the last.
LEMMA AppendSound ==
  ASSUME NEW h \in Seq(Packets), NEW p \in Packets,
         WellFormed(h), Continues(h, p.fields.sequence),
         "start" \in p.flags => h = <<>>
  PROVE  /\ WellFormed(Append(h, p))
         /\ "end" \notin p.flags
              => Continues(Append(h, p), Wrap(p.fields.sequence + 1))
<1> DEFINE g == Append(h, p)
           n == Len(h)
<1>1. /\ n \in Nat /\ Len(g) = n + 1 /\ DOMAIN g = 1 .. n + 1 /\ DOMAIN h = 1 .. n
      /\ g[n + 1] = p /\ \A i \in 1 .. n : g[i] = h[i]
  BY AppendProperties, LenProperties
<1>2. h = <<>> => n = 0
  BY EmptySeq
<1> HIDE DEF g, n
<1>3. WellFormed(g)
  <2> SUFFICES ASSUME NEW i \in 1 .. n + 1
               PROVE  /\ i > 1 => g[i].fields.sequence
                                    = Wrap(g[i - 1].fields.sequence + 1)
                      /\ "start" \in g[i].flags => i = 1
                      /\ "end" \in g[i].flags => i = n + 1
    BY <1>1 DEF WellFormed
  <2>1. CASE i = n + 1
    <3>1. i > 1 => n \in 1 .. n /\ i - 1 = n /\ n > 0
      BY <2>1, <1>1
    <3>2. i > 1 => g[i].fields.sequence = Wrap(g[i - 1].fields.sequence + 1)
      BY <2>1, <3>1, <1>1 DEF Continues, n
    <3>3. "start" \in g[i].flags => i = 1
      BY <2>1, <1>1, <1>2
    <3> QED BY <2>1, <3>2, <3>3
  <2>2. CASE i \in 1 .. n
    <3>1. i > 1 => i - 1 \in 1 .. n
      BY <2>2, <1>1
    <3>2. g[i] = h[i] /\ (i > 1 => g[i - 1] = h[i - 1])
      BY <2>2, <3>1, <1>1
    <3>3. "end" \notin h[i].flags
      BY <2>2, <1>1 DEF Continues
    <3>4. /\ i > 1 => h[i].fields.sequence = Wrap(h[i - 1].fields.sequence + 1)
          /\ "start" \in h[i].flags => i = 1
      BY <2>2, <1>1 DEF WellFormed
    <3> QED BY <3>2, <3>3, <3>4
  <2> QED BY <1>1, <2>1, <2>2
<1>4. ASSUME "end" \notin p.flags
      PROVE  Continues(g, Wrap(p.fields.sequence + 1))
  <2>1. \A i \in DOMAIN g : "end" \notin g[i].flags
    <3> TAKE i \in DOMAIN g
    <3>1. i = n + 1 \/ i \in 1 .. n
      BY <1>1
    <3> QED BY <3>1, <1>1, <1>4 DEF Continues
  <2> QED BY <2>1, <1>1 DEF Continues
<1> QED BY <1>3, <1>4 DEF g

\* Hand() writes the packet's own stream alone: what is said of the others stays,
\* and the talker after it may go on unless the packet was the last
\* (session.cpp:263-273, 296-315).
LEMMA HandSound ==
  ASSUME TalkTypeOK, NEW t \in Talkers, t.stream \in Streams,
         NEW flags \in SUBSET MediaFlags, NEW sent,
         \A s \in Streams : WellFormed(handed[s]),
         \A s \in Streams : s > t.stream => handed[s] = <<>>,
         Continues(handed[t.stream], t.sequence),
         "start" \in flags => handed[t.stream] = <<>>,
         Hand(MediaPacket(t, flags), sent),
         NEW u, u.stream = t.stream, u.sequence = Wrap(t.sequence + 1),
         u.open => "end" \notin flags
  PROVE  handed' \in [Streams -> Seq(Packets)] /\ Sound(u, handed')
<1> DEFINE p == MediaPacket(t, flags)
           k == t.stream
<1>1. p \in Packets /\ p.fields.stream = k /\ p.fields.sequence = t.sequence
      /\ p.flags = flags
  BY PacketMade
<1>2. handed' = [handed EXCEPT ![k] = Append(@, p)]
  BY <1>1 DEF Hand
<1> HIDE DEF p, k
<1>3. k \in Streams /\ handed[k] \in Seq(Packets)
  BY DEF k, TalkTypeOK
<1>4. /\ WellFormed(Append(handed[k], p))
      /\ "end" \notin flags => Continues(Append(handed[k], p), Wrap(t.sequence + 1))
  BY <1>1, <1>3, AppendSound DEF k
<1>5. Append(handed[k], p) \in Seq(Packets)
  BY <1>1, <1>3, AppendProperties
<1>6. handed' \in [Streams -> Seq(Packets)]
  BY <1>2, <1>5 DEF TalkTypeOK
<1>7. \A s \in Streams :
        handed'[s] = IF s = k THEN Append(handed[k], p) ELSE handed[s]
  BY <1>2 DEF TalkTypeOK
<1>8. \A s \in Streams : WellFormed(handed'[s])
  BY <1>4, <1>7
<1>9. \A s \in Streams : s > u.stream => handed'[s] = <<>>
  BY <1>3, <1>7 DEF k, Streams
<1>10. u.open => u.stream \in Streams /\ Continues(handed'[u.stream], u.sequence)
  BY <1>3, <1>4, <1>7 DEF k
<1> QED BY <1>6, <1>8, <1>9, <1>10 DEF Sound

-------------------------------------------------------------------------------
\* The frame that opens a talkspurt (session.cpp:235-239, 280-316).
LEMMA OpeningFrame ==
  ASSUME TalkInv, NEW encoded \in BOOLEAN, NEW sent \in BOOLEAN,
         transmitting, ~tx.open, tx.stream < MaxStreams,
         Speak(Opened(tx), {"start"}, encoded, sent), UNCHANGED transmitting
  PROVE  TalkInv'
<1> DEFINE t == Opened(tx)
<1>1. t \in Talkers /\ t.stream \in Streams /\ t.stream = tx.stream + 1 /\ t.open
  BY TalkAssumption DEF Opened, Talkers, Streams, TalkInv, TalkTypeOK
<1> HIDE DEF t
<1>2. /\ handed[t.stream] = <<>>
      /\ \A s \in Streams : s > t.stream => handed[s] = <<>>
      /\ \A s \in Streams : WellFormed(handed[s])
  BY <1>1 DEF TalkInv, Sound, TalkTypeOK, Talkers, Streams
<1>3. Continues(handed[t.stream], t.sequence)
  BY <1>2 DEF Continues
<1>4. CASE encoded
  <2>1. tx' = Advanced(t) /\ Hand(MediaPacket(t, {"start"}), sent)
    BY <1>4 DEF Speak, t
  <2>2. tx' \in Talkers /\ tx'.stream = t.stream /\ tx'.sequence = Wrap(t.sequence + 1)
    BY <1>1, <2>1, WrapType DEF Advanced, Talkers, Serials
  <2>3. {"start"} \in SUBSET MediaFlags /\ "end" \notin {"start"}
    BY DEF MediaFlags
  <2>4. handed' \in [Streams -> Seq(Packets)] /\ Sound(tx', handed')
    BY <1>1, <1>2, <1>3, <2>1, <2>2, <2>3, HandSound DEF TalkInv
  <2>5. after' = 0
    BY <2>1 DEF Hand
  <2> QED BY <2>2, <2>4, <2>5 DEF TalkInv, TalkTypeOK, Released
<1>5. CASE ~encoded
  <2>1. tx' = t /\ handed' = handed /\ after' = after
    BY <1>5 DEF Speak, t
  <2>2. Sound(tx', handed')
    BY <1>1, <1>2, <1>3, <2>1 DEF Sound
  <2> QED BY <1>1, <2>1, <2>2 DEF TalkInv, TalkTypeOK, Released
<1> QED BY <1>4, <1>5

\* A frame in the middle of a talkspurt (session.cpp:280-316).
LEMMA MiddleFrame ==
  ASSUME TalkInv, NEW encoded \in BOOLEAN, NEW sent \in BOOLEAN,
         transmitting, tx.open, Speak(tx, {}, encoded, sent), UNCHANGED transmitting
  PROVE  TalkInv'
<1>1. tx \in Talkers /\ tx.stream \in Streams
  BY DEF TalkInv, TalkTypeOK, Sound
<1>2. CASE encoded
  <2>1. tx' = Advanced(tx) /\ Hand(MediaPacket(tx, {}), sent)
    BY <1>2 DEF Speak
  <2>2. tx' \in Talkers /\ tx'.stream = tx.stream /\ tx'.sequence = Wrap(tx.sequence + 1)
    BY <1>1, <2>1, WrapType DEF Advanced, Talkers, Serials
  <2>3. handed' \in [Streams -> Seq(Packets)] /\ Sound(tx', handed')
    BY <1>1, <2>1, <2>2, HandSound DEF TalkInv, Sound
  <2>4. after' = 0
    BY <2>1 DEF Hand
  <2> QED BY <2>2, <2>3, <2>4 DEF TalkInv, TalkTypeOK, Released
<1>3. CASE ~encoded
  BY <1>3 DEF Speak, TalkInv, TalkTypeOK, Sound, Released
<1> QED BY <1>2, <1>3

\* The frame that closes a talkspurt (session.cpp:240-273).
LEMMA ClosingFrame ==
  ASSUME TalkInv, NEW encoded \in BOOLEAN, NEW sent \in BOOLEAN,
         ~transmitting, tx.open, Finish(encoded, sent), UNCHANGED transmitting
  PROVE  TalkInv'
<1>1. tx \in Talkers /\ tx.stream \in Streams /\ after = 0
  BY DEF TalkInv, TalkTypeOK, Sound, Released
<1>2. tx' \in Talkers /\ tx'.stream = tx.stream /\ ~tx'.open
      /\ tx'.sequence = Wrap(tx.sequence + 1)
  <2>1. Advanced(tx) \in Talkers /\ Advanced(tx).stream = tx.stream
        /\ Advanced(tx).sequence = Wrap(tx.sequence + 1)
    BY <1>1, WrapType DEF Advanced, Talkers, Serials
  <2>2. tx' = [Advanced(tx) EXCEPT !.open = FALSE]
    BY DEF Finish
  <2> QED BY <2>1, <2>2 DEF Talkers
<1>3. CASE encoded
  <2>1. Hand(MediaPacket(tx, {"end"}), sent)
    BY <1>3 DEF Finish
  <2>2. {"end"} \in SUBSET MediaFlags /\ "start" \notin {"end"}
    BY DEF MediaFlags
  <2>3. handed' \in [Streams -> Seq(Packets)] /\ Sound(tx', handed')
    BY <1>1, <1>2, <2>1, <2>2, HandSound DEF TalkInv, Sound
  <2>4. after' = 1
    BY <1>1, <2>1 DEF Hand
  <2> QED BY <1>2, <2>3, <2>4 DEF TalkInv, TalkTypeOK, Released
<1>4. CASE ~encoded
  <2>1. handed' = handed /\ after' = after
    BY <1>4 DEF Finish
  <2>2. Sound(tx', handed')
    BY <1>2, <2>1 DEF TalkInv, Sound
  <2> QED BY <1>1, <1>2, <2>1, <2>2 DEF TalkInv, TalkTypeOK, Released
<1> QED BY <1>3, <1>4

\* A frame off the ring (session.cpp:228-318).
LEMMA TransmitStep ==
  ASSUME TalkInv, NEW encoded \in BOOLEAN, NEW sent \in BOOLEAN, Transmit(encoded, sent)
  PROVE  TalkInv'
<1>1. UNCHANGED transmitting
  BY DEF Transmit
<1>2. CASE /\ transmitting /\ ~tx.open
           /\ tx.stream < MaxStreams
           /\ Speak(Opened(tx), {"start"}, encoded, sent)
  BY <1>1, <1>2, OpeningFrame
<1>3. CASE transmitting /\ tx.open /\ Speak(tx, {}, encoded, sent)
  BY <1>1, <1>3, MiddleFrame
<1>4. CASE ~transmitting /\ tx.open /\ Finish(encoded, sent)
  BY <1>1, <1>4, ClosingFrame
<1>5. CASE ~transmitting /\ ~tx.open /\ UNCHANGED <<tx, handed, air, after>>
  BY <1>1, <1>5 DEF TalkInv, TalkTypeOK, Sound, Released
<1> QED BY <1>2, <1>3, <1>4, <1>5 DEF Transmit

\* Nothing is open and nothing was handed over yet (session.cpp:100-140).
LEMMA TalkInitInv ==
  TalkInit => TalkInv
<1> SUFFICES ASSUME TalkInit PROVE TalkInv
  OBVIOUS
<1>1. \A s \in Streams : handed[s] = <<>>
  BY DEF TalkInit
<1>2. <<>> \in Seq(Packets) /\ \A i \in DOMAIN <<>> : FALSE
  BY EmptySeq
<1>3. TalkTypeOK
  <2>1. 0 \in Serials /\ 0 \in 0 .. MaxStreams
    BY HalfAssumption, TalkAssumption DEF Serials, Modulus
  <2>2. tx \in Talkers
    BY <2>1 DEF TalkInit, Talkers
  <2>3. handed \in [Streams -> Seq(Packets)]
    BY <1>2 DEF TalkInit
  <2> QED BY <2>2, <2>3 DEF TalkInit, TalkTypeOK
<1>4. Sound(tx, handed)
  BY <1>1, <1>2 DEF TalkInit, Sound, WellFormed
<1> QED BY <1>3, <1>4 DEF TalkInit, TalkInv, Released

\* Whatever the listener and the network do leaves the talker alone.
LEMMA TalkNextInv ==
  TalkInv /\ [TalkNext]_talkVars => TalkInv'
<1> SUFFICES ASSUME TalkInv, [TalkNext]_talkVars PROVE TalkInv'
  OBVIOUS
<1>1. CASE PushButton
  BY <1>1 DEF PushButton, TalkInv, TalkTypeOK, Sound, Released
<1>2. CASE ReleaseButton
  BY <1>2 DEF ReleaseButton, TalkInv, TalkTypeOK, Sound, Released
<1>3. ASSUME NEW encoded \in BOOLEAN, NEW sent \in BOOLEAN, Transmit(encoded, sent)
      PROVE  TalkInv'
  BY <1>3, TransmitStep
<1>4. CASE RestartTalker
  <2>1. tx' \in Talkers /\ ~tx'.open /\ tx'.stream = tx.stream
    BY <1>4 DEF RestartTalker, TalkInv, TalkTypeOK, Talkers
  <2> QED BY <1>4, <2>1 DEF RestartTalker, TalkInv, TalkTypeOK, Sound, Released
<1>5. ASSUME UNCHANGED <<transmitting, tx, handed, after>>
      PROVE  TalkInv'
  BY <1>5 DEF TalkInv, TalkTypeOK, Sound, Released
<1>6. CASE OnCapture
  BY <1>5, <1>6 DEF OnCapture
<1>7. CASE RestartListener
  BY <1>5, <1>7 DEF RestartListener
<1>8. ASSUME NEW d \in air, Deliver(d) \/ Copy(d) \/ Lose(d)
      PROVE  TalkInv'
  BY <1>5, <1>8 DEF Deliver, Copy, Lose
<1>9. CASE Noise
  BY <1>5, <1>9 DEF Noise
<1>10. CASE UNCHANGED talkVars
  BY <1>5, <1>10 DEF talkVars
<1> QED BY <1>1, <1>2, <1>3, <1>4, <1>6, <1>7, <1>8, <1>9, <1>10 DEF TalkNext

\* The invariant holds throughout.
LEMMA TalkAlwaysInv ==
  TalkSpec => []TalkInv
BY TalkInitInv, TalkNextInv, PTL DEF TalkSpec

\* Every talkspurt that is given to the socket is numbered without holes, may carry
\* START on its first packet alone and has nothing after END
\* (session.cpp:212-226, 230-273, 280-316).
THEOREM StreamsCorrect ==
  TalkSpec => []StreamsWellFormed
<1>1. TalkInv => StreamsWellFormed
  BY DEF TalkInv, Sound, WellFormed, StreamsWellFormed
<1> QED BY <1>1, TalkAlwaysInv, PTL

\* At most one packet leaves between a release and the next press
\* (session.cpp:240-273, MainActivity.kt:284-287).
THEOREM ReleaseCorrect ==
  TalkSpec => []OnePacketAfterRelease
<1>1. TalkInv => OnePacketAfterRelease
  BY DEF TalkInv, Released, OnePacketAfterRelease
<1> QED BY <1>1, TalkAlwaysInv, PTL

-------------------------------------------------------------------------------
(* What the listener measures *)

\* A packet of a stream has a place, from 1 on; this is its sequence number, for the
\* place before the first being `f`.
Number(f, i) == Wrap(f + i)

Before(s) == FirstSequence[s] - 1

\* The fields of SeqTracker.
Trackers ==
  [started : BOOLEAN, base : Serials, highest : Serials, bits : SUBSET Nat,
   received : Nat, reordered : Nat]

\* The tracker has counted the packets at the places P, of n.
Counted(t, f, P, n) ==
  /\ t \in Trackers
  /\ t.started
  /\ P \subseteq 1 .. n
  /\ t.received = Cardinality(P)
  /\ t.bits = {(f + p) % Window : p \in P}
  /\ \E low, top \in P :
       /\ \A p \in P : low <= p /\ p <= top
       /\ t.base = Number(f, low)
       /\ t.highest = Number(f, top)

\* The places of a stream no longer than the window are that close together.
LEMMA PlacesNear ==
  ASSUME NEW f \in Int, NEW n \in Nat, n <= Window, NEW i \in 1 .. n, NEW j \in 1 .. n
  PROVE  /\ Number(f, i) \in Serials
         /\ Distance(Number(f, i), Number(f, j)) = j - i
         /\ Number(f, i) = Number(f, j) => i = j
         /\ Slot(Number(f, i)) = (f + i) % Window
         /\ (f + i) % Window \in Nat
         /\ (f + i) % Window = (f + j) % Window => i = j
         /\ j - i < Window /\ i - j < Window
<1>1. /\ Window \in Nat \ {0} /\ Window <= Half /\ Modulus % Window = 0
      /\ Half \in Nat /\ i \in Int /\ j \in Int /\ f + i \in Int /\ f + j \in Int
  BY WindowAssumption, ModulusFacts
<1>2. /\ j - i < Window /\ i - j < Window
      /\ (f + j) - (f + i) = j - i /\ (f + i) - (f + j) = i - j
  BY <1>1
<1>3. (f + j) - (f + i) \in -Half .. Half - 1
  BY <1>1, <1>2
<1>4. /\ Number(f, i) \in Serials
      /\ Distance(Number(f, i), Number(f, j)) = j - i
  BY <1>1, <1>2, <1>3, DistanceOfPositions DEF Number
<1>5. Slot(Number(f, i)) = (f + i) % Window
  BY <1>1, WrapMod DEF Slot, Number
<1>6. (f + i) % Window \in Nat
  BY <1>1, ModRange
<1>7. ASSUME (f + i) % Window = (f + j) % Window PROVE i = j
  <2>1. f + i = f + j
    BY <1>1, <1>2, <1>7, ModUnique
  <2> QED BY <1>1, <2>1
<1>8. ASSUME Number(f, i) = Number(f, j) PROVE i = j
  <2>1. Slot(Number(f, j)) = (f + j) % Window
    BY <1>1, WrapMod DEF Slot, Number
  <2> QED BY <1>5, <1>7, <1>8, <2>1
<1> QED BY <1>2, <1>4, <1>5, <1>6, <1>7, <1>8

\* The first packet observe() sees (seq_tracker.cpp:37-47).
LEMMA FirstCounted ==
  ASSUME NEW f \in Int, NEW n \in Nat, n <= Window, NEW i \in 1 .. n
  PROVE  Counted(Observed(NewTracker, Number(f, i)), f, {i}, n)
<1>1. PICK s : s = Number(f, i)
  OBVIOUS
<1>2. s \in Serials /\ Slot(s) = (f + i) % Window /\ (f + i) % Window \in Nat
  BY <1>1, PlacesNear
<1>3. PICK u : u = Observed(NewTracker, s)
  OBVIOUS
<1>4. Verdict(NewTracker, s) = "First"
  BY DEF Verdict, NewTracker
<1>5. u = [started |-> TRUE, base |-> s, highest |-> s, bits |-> {Slot(s)},
           received |-> 1, reordered |-> 0]
  BY <1>3, <1>4 DEF Observed, NewTracker
<1>6. u \in Trackers
  BY <1>2, <1>5 DEF Trackers
<1>7. Cardinality({i}) = 1
  BY FS_Singleton
<1>8. u.bits = {(f + p) % Window : p \in {i}}
  BY <1>2, <1>5
<1>9. i <= i
  OBVIOUS
<1> QED BY <1>1, <1>3, <1>5, <1>6, <1>7, <1>8, <1>9 DEF Counted

\* Every further packet: it is counted unless it was (seq_tracker.cpp:49-91).
LEMMA NextCounted ==
  ASSUME NEW f \in Int, NEW n \in Nat, n <= Window, NEW i \in 1 .. n,
         NEW t, NEW P, Counted(t, f, P, n)
  PROVE  Counted(Observed(t, Number(f, i)), f, P \cup {i}, n)
<1>1. PICK s : s = Number(f, i)
  OBVIOUS
<1>2. s \in Serials /\ Slot(s) = (f + i) % Window /\ (f + i) % Window \in Nat
  BY <1>1, PlacesNear
<1>3. PICK u : u = Observed(t, s)
  OBVIOUS
<1>4. PICK low \in P, top \in P :
        /\ \A p \in P : low <= p /\ p <= top
        /\ t.base = Number(f, low)
        /\ t.highest = Number(f, top)
  BY DEF Counted
<1>5. /\ t \in Trackers /\ t.started /\ P \subseteq 1 .. n
      /\ t.received = Cardinality(P) /\ t.received \in Nat
      /\ t.bits = {(f + p) % Window : p \in P}
      /\ low \in 1 .. n /\ top \in 1 .. n
      /\ t.reordered \in Nat /\ t.base \in Serials /\ t.highest \in Serials
      /\ t.bits \in SUBSET Nat
  BY DEF Counted, Trackers
<1>6. IsFiniteSet(P)
  <2>1. IsFiniteSet(1 .. n)
    BY FS_Interval
  <2> QED BY <1>5, <2>1, FS_Subset
<1>7. Distance(t.highest, s) = i - top /\ i - top < Window /\ top - i < Window
  BY <1>1, <1>4, <1>5, PlacesNear
<1>8. (f + i) % Window \in t.bits <=> i \in P
  <2>1. ASSUME NEW p \in P, (f + i) % Window = (f + p) % Window PROVE i = p
    <3>1. p \in 1 .. n
      BY <1>5
    <3> QED BY <2>1, <3>1, PlacesNear
  <2> QED BY <1>5, <2>1
<1>9. i \notin P => Cardinality(P \cup {i}) = t.received + 1
  BY <1>5, <1>6, FS_AddElement
<1>10. {(f + p) % Window : p \in P \cup {i}} = t.bits \cup {Slot(s)}
  BY <1>2, <1>5
<1>11. CASE i > top
  <2>1. Verdict(t, s) = "InOrder"
    BY <1>5, <1>7, <1>11 DEF Verdict
  <2>2. Cleared(t.bits, t.highest, s) = t.bits
    <3>1. ~(Distance(t.highest, s) >= Window)
      BY <1>5, <1>7, WindowAssumption
    <3>2. ASSUME NEW k \in 1 .. Distance(t.highest, s) - 1
          PROVE  Slot(Wrap(t.highest + k)) \notin t.bits
      <4>1. k \in 1 .. (i - top) - 1 /\ k \in Int
        BY <1>5, <1>7, <3>2
      <4>2. PICK j : j = top + k
        OBVIOUS
      <4>3. j \in 1 .. n /\ j > top
        BY <1>5, <4>1, <4>2
      <4>4. Wrap(t.highest + k) = Number(f, j)
        <5>1. f + top \in Int /\ (f + top) + k = f + j
          BY <1>5, <4>1, <4>2
        <5> QED BY <1>4, <4>1, <5>1, WrapAdd DEF Number
      <4>5. Slot(Wrap(t.highest + k)) = (f + j) % Window
        BY <4>3, <4>4, PlacesNear
      <4>6. \A p \in P : (f + j) % Window # (f + p) % Window
        <5>1. \A p \in P : p \in 1 .. n /\ p # j
          BY <1>4, <1>5, <4>3
        <5> QED BY <4>3, <5>1, PlacesNear
      <4> QED BY <1>5, <4>5, <4>6
    <3> QED BY <3>1, <3>2 DEF Cleared
  <2>3. u = [t EXCEPT !.bits = t.bits \cup {Slot(s)}, !.highest = s, !.received = @ + 1]
    BY <1>3, <2>1, <2>2 DEF Observed
  <2>4. PICK r : r = t.received + 1
    OBVIOUS
  <2>5. PICK more : more = t.bits \cup {Slot(s)}
    OBVIOUS
  <2>6. u = [t EXCEPT !.bits = more, !.highest = s, !.received = r]
    BY <2>3, <2>4, <2>5
  <2>7. r \in Nat /\ more \in SUBSET Nat
    BY <1>2, <1>5, <2>4, <2>5
  <2>8. u \in Trackers /\ u.started /\ u.received = r /\ u.bits = more
        /\ u.base = t.base /\ u.highest = s
    BY <1>2, <1>5, <2>6, <2>7 DEF Trackers
  <2>9. i \notin P /\ \A p \in P \cup {i} : low <= p /\ p <= i
    BY <1>4, <1>5, <1>11
  <2>10. \E a, b \in P \cup {i} :
           /\ \A p \in P \cup {i} : a <= p /\ p <= b
           /\ u.base = Number(f, a) /\ u.highest = Number(f, b)
    BY <1>1, <1>4, <2>8, <2>9
  <2>11. u.received = Cardinality(P \cup {i}) /\ u.bits = {(f + p) % Window : p \in P \cup {i}}
    BY <1>9, <1>10, <2>4, <2>5, <2>8, <2>9
  <2> QED BY <1>1, <1>3, <1>5, <2>8, <2>10, <2>11 DEF Counted
<1>12. CASE i <= top /\ i \in P
  <2>1. Verdict(t, s) = "Duplicate"
    BY <1>2, <1>5, <1>7, <1>8, <1>12, WindowAssumption DEF Verdict
  <2>2. u = t
    BY <1>3, <2>1 DEF Observed
  <2>3. P \cup {i} = P
    BY <1>12
  <2> QED BY <1>1, <1>3, <2>2, <2>3
<1>13. CASE i <= top /\ i \notin P
  <2>1. Verdict(t, s) = "Reordered"
    <3>1. i # top
      BY <1>13
    <3>2. PICK d : d = i - top
      OBVIOUS
    <3>3. d < 0 /\ ~(d > 0) /\ d # 0 /\ ~(-d >= Window)
      BY <1>5, <1>7, <1>13, <3>1, <3>2, WindowAssumption
    <3>4. Distance(t.highest, s) = d /\ Slot(s) \notin t.bits
      BY <1>2, <1>7, <1>8, <1>13, <3>2
    <3> QED BY <1>5, <3>3, <3>4 DEF Verdict
  <2>2. PICK base : base = IF Precedes(s, t.base) THEN s ELSE t.base
    OBVIOUS
  <2>3. PICK a \in P \cup {i} : base = Number(f, a) /\ \A p \in P \cup {i} : a <= p
    <3>1. Distance(s, t.base) = low - i
      <4>1. Distance(Number(f, i), Number(f, low)) = low - i
        BY <1>5, PlacesNear
      <4> QED BY <1>1, <1>4, <4>1
    <3>2. CASE low > i
      <4>1. base = s
        BY <1>5, <2>2, <3>1, <3>2 DEF Precedes
      <4>2. \A p \in P \cup {i} : i <= p
        BY <1>4, <1>5, <3>2
      <4> QED BY <1>1, <4>1, <4>2
    <3>3. CASE ~(low > i)
      <4>1. base = t.base
        BY <1>5, <2>2, <3>1, <3>3 DEF Precedes
      <4>2. \A p \in P \cup {i} : low <= p
        BY <1>4, <1>5, <3>3
      <4> QED BY <1>4, <4>1, <4>2
    <3> QED BY <3>2, <3>3
  <2>4. PICK r, m, more : r = t.received + 1 /\ m = t.reordered + 1 /\ more = t.bits \cup {Slot(s)}
    OBVIOUS
  <2>5. u = [t EXCEPT !.bits = more, !.received = r, !.reordered = m, !.base = base]
    BY <1>3, <2>1, <2>2, <2>4 DEF Observed, Filled
  <2>6. r \in Nat /\ m \in Nat /\ more \in SUBSET Nat /\ base \in Serials
    BY <1>2, <1>5, <2>2, <2>4
  <2>7. u \in Trackers /\ u.started /\ u.received = r /\ u.bits = more
        /\ u.base = base /\ u.highest = t.highest
    BY <1>5, <2>5, <2>6 DEF Trackers
  <2>8. top \in P \cup {i} /\ \A p \in P \cup {i} : p <= top
    BY <1>4, <1>13
  <2>9. u.received = Cardinality(P \cup {i}) /\ u.bits = {(f + p) % Window : p \in P \cup {i}}
    BY <1>9, <1>10, <1>13, <2>4, <2>7
  <2>10. P \cup {i} \subseteq 1 .. n
    BY <1>5
  <2> QED BY <1>1, <1>3, <1>4, <2>3, <2>7, <2>8, <2>9, <2>10 DEF Counted
<1> QED BY <1>5, <1>11, <1>12, <1>13

\* The packets of a stream are numbered from its first place on.
Numbered(h, s) ==
  \A i \in DOMAIN h :
    h[i].fields.stream = s /\ h[i].fields.sequence = Number(Before(s), i)

\* A datagram is a packet that was given to the socket.
Given(h, d) ==
  /\ d \in Packets
  /\ \E i \in DOMAIN h[d.fields.stream] : d = h[d.fields.stream][i]

Ordinal ==
  /\ \A s \in Streams : Numbered(handed[s], s) /\ Len(handed[s]) <= MaxPackets + 1
  /\ tx.open => /\ Len(handed[tx.stream]) <= MaxPackets
                /\ tx.sequence = Number(Before(tx.stream), Len(handed[tx.stream]) + 1)
  /\ \A d \in air : Given(handed, d)

\* The listener has counted what it heard, of the stream it is on.
Measured ==
  /\ {"open", "stream", "tracker"} \subseteq DOMAIN rx
  /\ rx.open =>
       /\ rx.stream \in Streams
       /\ \E P : /\ Counted(rx.tracker, Before(rx.stream), P, Len(handed[rx.stream]))
                 /\ heard = {Number(Before(rx.stream), p) : p \in P}

\* No talkspurt is longer than the tracker's window.
ShortTalkspurts == MaxPackets < Window

\* What the talker may do to a listener: streams only grow, and stay numbered.
Grown ==
  /\ \A s \in Streams : /\ Numbered(handed'[s], s)
                        /\ Len(handed'[s]) <= MaxPackets + 1
                        /\ Len(handed[s]) <= Len(handed'[s])
  /\ \A d \in air' : Given(handed', d)

\* The place before the first is a number, and lengths are numbers.
LEMMA StreamFacts ==
  ASSUME TalkInv, NEW s \in Streams
  PROVE  /\ Before(s) \in Int /\ FirstSequence[s] \in Serials
         /\ handed[s] \in Seq(Packets) /\ Len(handed[s]) \in Nat
         /\ DOMAIN handed[s] = 1 .. Len(handed[s])
         /\ MaxPackets \in Nat
<1>1. FirstSequence[s] \in Serials /\ MaxPackets \in Nat
  BY TalkAssumption DEF Streams
<1>2. FirstSequence[s] \in Int
  BY <1>1, ModulusFacts
<1>3. handed[s] \in Seq(Packets)
  BY DEF TalkInv, TalkTypeOK
<1> QED BY <1>1, <1>2, <1>3, LenProperties DEF Before

\* The number of the next place is the successor.
LEMMA NextNumber ==
  ASSUME NEW f \in Int, NEW i \in Int
  PROVE  Wrap(Number(f, i) + 1) = Number(f, i + 1)
<1>1. f + i \in Int /\ (f + i) + 1 = f + (i + 1)
  OBVIOUS
<1> QED BY <1>1, WrapAdd DEF Number

\* A packet given to the socket takes the next place of its stream.
LEMMA HandGrown ==
  ASSUME TalkInv, Ordinal, NEW t \in Talkers, t.stream \in Streams,
         NEW flags \in SUBSET MediaFlags, NEW sent, Hand(MediaPacket(t, flags), sent),
         Len(handed[t.stream]) <= MaxPackets,
         t.sequence = Number(Before(t.stream), Len(handed[t.stream]) + 1)
  PROVE  /\ Grown
         /\ Len(handed'[t.stream]) = Len(handed[t.stream]) + 1
         /\ Wrap(t.sequence + 1) = Number(Before(t.stream), Len(handed'[t.stream]) + 1)
<1>1. PICK p : p = MediaPacket(t, flags)
  OBVIOUS
<1>2. PICK k : k = t.stream
  OBVIOUS
<1>3. PICK n : n = Len(handed[k])
  OBVIOUS
<1>4. p \in Packets /\ p.fields.stream = k /\ p.fields.sequence = t.sequence
  BY <1>1, <1>2, PacketMade
<1>5. /\ handed' = [handed EXCEPT ![k] = Append(@, p)]
      /\ air' = IF sent THEN air \cup {p} ELSE air
  BY <1>1, <1>4 DEF Hand
<1>6. /\ k \in Streams /\ handed[k] \in Seq(Packets) /\ n \in Nat /\ Before(k) \in Int
      /\ DOMAIN handed[k] = 1 .. n /\ MaxPackets \in Nat /\ n <= MaxPackets
      /\ t.sequence = Number(Before(k), n + 1)
  BY <1>2, <1>3, StreamFacts
<1>7. PICK g : g = Append(handed[k], p)
  OBVIOUS
<1>8. /\ Len(g) = n + 1 /\ DOMAIN g = 1 .. n + 1 /\ g[n + 1] = p
      /\ \A i \in 1 .. n : g[i] = handed[k][i]
  <2>1. g \in Seq(Packets)
    BY <1>4, <1>6, <1>7, AppendProperties
  <2> QED BY <1>3, <1>4, <1>6, <1>7, <2>1, AppendProperties, LenProperties
<1>9. handed'[k] = g /\ \A s \in Streams : s # k => handed'[s] = handed[s]
  BY <1>5, <1>6, <1>7 DEF TalkInv, TalkTypeOK
<1>10. Numbered(g, k)
  <2> SUFFICES ASSUME NEW i \in 1 .. n + 1
               PROVE  g[i].fields.stream = k /\ g[i].fields.sequence = Number(Before(k), i)
    BY <1>8 DEF Numbered
  <2>1. CASE i = n + 1
    BY <1>4, <1>6, <1>8, <2>1
  <2>2. CASE i \in 1 .. n
    BY <1>6, <1>8, <2>2 DEF Ordinal, Numbered
  <2> QED BY <1>6, <2>1, <2>2
<1>11. ASSUME NEW s \in Streams
       PROVE  /\ Numbered(handed'[s], s)
              /\ Len(handed'[s]) <= MaxPackets + 1
              /\ Len(handed[s]) <= Len(handed'[s])
  <2>1. CASE s = k
    BY <1>3, <1>6, <1>8, <1>9, <1>10, <2>1
  <2>2. CASE s # k
    <3>1. handed'[s] = handed[s] /\ Len(handed[s]) \in Nat
      BY <1>9, <2>2, StreamFacts
    <3> QED BY <3>1 DEF Ordinal
  <2> QED BY <2>1, <2>2
<1>12. ASSUME NEW d \in air' PROVE Given(handed', d)
  <2>1. CASE d = p
    <3>1. n + 1 \in DOMAIN handed'[k] /\ handed'[k][n + 1] = p
      BY <1>6, <1>8, <1>9
    <3> QED BY <1>4, <2>1, <3>1 DEF Given
  <2>2. CASE d \in air
    <3>1. d \in Packets
      BY <2>2 DEF Ordinal, Given
    <3>2. PICK i \in DOMAIN handed[d.fields.stream] : d = handed[d.fields.stream][i]
      BY <2>2 DEF Ordinal, Given
    <3>3. d.fields.stream \in Streams
      BY <3>1 DEF Packets, Fields
    <3>4. i \in DOMAIN handed'[d.fields.stream] /\ d = handed'[d.fields.stream][i]
      <4>1. CASE d.fields.stream = k
        <5>1. i \in 1 .. n /\ d = handed[k][i]
          BY <1>6, <3>2, <4>1
        <5>2. i \in 1 .. n + 1
          BY <1>6, <5>1
        <5>3. i \in DOMAIN g /\ d = g[i]
          BY <1>8, <5>1, <5>2
        <5> QED BY <1>9, <4>1, <5>3
      <4>2. CASE d.fields.stream # k
        BY <1>9, <3>2, <3>3, <4>2
      <4> QED BY <4>1, <4>2
    <3> QED BY <3>1, <3>4 DEF Given
  <2> QED BY <1>5, <2>1, <2>2
<1>13. Wrap(t.sequence + 1) = Number(Before(k), (n + 1) + 1)
  <2>1. n + 1 \in Int
    BY <1>6
  <2> QED BY <1>6, <2>1, NextNumber
<1>14. Len(handed'[k]) = n + 1
  BY <1>8, <1>9
<1> QED BY <1>2, <1>3, <1>11, <1>12, <1>13, <1>14 DEF Grown

\* Where nothing is given to the socket, nothing grows.
LEMMA IdleGrown ==
  ASSUME TalkInv, Ordinal, handed' = handed, air' \subseteq air
  PROVE  Grown
<1>1. \A s \in Streams : Len(handed[s]) \in Nat
  BY StreamFacts
<1> QED BY <1>1 DEF Ordinal, Grown

\* What a longer stream does to the tracker's places.
LEMMA CountedLater ==
  ASSUME NEW t, NEW f, NEW P, NEW n \in Nat, NEW m \in Nat, n <= m, Counted(t, f, P, n)
  PROVE  Counted(t, f, P, m)
<1>1. 1 .. n \subseteq 1 .. m
  OBVIOUS
<1> QED BY <1>1 DEF Counted

\* And to the listener.
LEMMA MeasuredLater ==
  ASSUME TalkInv, TalkInv', Measured, Grown, rx' = rx, heard' = heard
  PROVE  Measured'
<1> SUFFICES ASSUME rx.open
             PROVE  \E P : /\ Counted(rx.tracker, Before(rx.stream), P, Len(handed'[rx.stream]))
                           /\ heard = {Number(Before(rx.stream), p) : p \in P}
  BY DEF Measured
<1>1. rx.stream \in Streams
  BY DEF Measured
<1>2. PICK P : /\ Counted(rx.tracker, Before(rx.stream), P, Len(handed[rx.stream]))
               /\ heard = {Number(Before(rx.stream), p) : p \in P}
  BY DEF Measured
<1>3. Len(handed[rx.stream]) \in Nat
  BY <1>1, StreamFacts
<1>4. Len(handed'[rx.stream]) \in Nat
  <2>1. handed'[rx.stream] \in Seq(Packets)
    BY <1>1 DEF TalkInv, TalkTypeOK
  <2> QED BY <2>1, LenProperties
<1>5. Len(handed[rx.stream]) <= Len(handed'[rx.stream])
  BY <1>1 DEF Grown
<1>6. Counted(rx.tracker, Before(rx.stream), P, Len(handed'[rx.stream]))
  BY <1>2, <1>3, <1>4, <1>5, CountedLater
<1> QED BY <1>2, <1>6

\* A frame off the ring: the open stream goes on at its next place.
LEMMA TransmitOrdinal ==
  ASSUME TalkInv, Ordinal, NEW encoded \in BOOLEAN, NEW sent \in BOOLEAN,
         Transmit(encoded, sent)
  PROVE  /\ Grown
         /\ tx'.open =>
              /\ Len(handed'[tx'.stream]) <= MaxPackets
              /\ tx'.sequence = Number(Before(tx'.stream), Len(handed'[tx'.stream]) + 1)
<1>1. tx \in Talkers /\ (tx.open => tx.stream \in Streams)
  BY DEF TalkInv, TalkTypeOK, Sound
<1>2. ASSUME NEW t \in Talkers, t.stream \in Streams, NEW flags \in SUBSET MediaFlags,
             Speak(t, flags, encoded, sent), Len(handed[t.stream]) < MaxPackets,
             t.sequence = Number(Before(t.stream), Len(handed[t.stream]) + 1)
      PROVE  /\ Grown
             /\ Len(handed'[tx'.stream]) <= MaxPackets
             /\ tx'.sequence = Number(Before(tx'.stream), Len(handed'[tx'.stream]) + 1)
  <2>1. Len(handed[t.stream]) \in Nat /\ MaxPackets \in Nat
    BY <1>2, StreamFacts
  <2>2. CASE encoded
    <3>1. tx' = Advanced(t) /\ Hand(MediaPacket(t, flags), sent)
      BY <1>2, <2>2 DEF Speak
    <3>2. tx'.stream = t.stream /\ tx'.sequence = Wrap(t.sequence + 1)
      BY <1>2, <3>1 DEF Advanced, Talkers
    <3>3. Len(handed[t.stream]) <= MaxPackets
      BY <1>2, <2>1
    <3>4. /\ Grown
          /\ Len(handed'[t.stream]) = Len(handed[t.stream]) + 1
          /\ Wrap(t.sequence + 1) = Number(Before(t.stream), Len(handed'[t.stream]) + 1)
      BY <1>2, <3>1, <3>3, HandGrown
    <3>5. Len(handed'[t.stream]) <= MaxPackets
      BY <1>2, <2>1, <3>4
    <3> QED BY <3>2, <3>4, <3>5
  <2>3. CASE ~encoded
    <3>1. tx' = t /\ handed' = handed /\ air' = air
      BY <1>2, <2>3 DEF Speak
    <3>2. Grown
      BY <3>1, IdleGrown
    <3> QED BY <1>2, <2>1, <3>1, <3>2
  <2> QED BY <2>2, <2>3
<1>3. CASE /\ ~tx.open /\ tx.stream < MaxStreams
           /\ Speak(Opened(tx), {"start"}, encoded, sent)
  <2>1. PICK t : t = Opened(tx)
    OBVIOUS
  <2>2. t \in Talkers /\ t.stream \in Streams /\ t.stream = tx.stream + 1
        /\ t.sequence = FirstSequence[t.stream]
    BY <1>1, <1>3, <2>1, TalkAssumption DEF Opened, Talkers, Streams
  <2>3. t.stream > tx.stream
    BY <1>1, <2>2, TalkAssumption DEF Talkers
  <2>4. handed[t.stream] = <<>>
    BY <2>2, <2>3 DEF TalkInv, Sound
  <2>5. Len(handed[t.stream]) = 0 /\ 0 < MaxPackets
    BY <2>4, EmptySeq, TalkAssumption
  <2>6. t.sequence = Number(Before(t.stream), Len(handed[t.stream]) + 1)
    <3>1. FirstSequence[t.stream] \in Serials
      BY <2>2, StreamFacts
    <3>2. FirstSequence[t.stream] \in 0 .. Modulus - 1 /\ FirstSequence[t.stream] \in Int
      BY <3>1, ModulusFacts
    <3>3. Before(t.stream) + 1 = FirstSequence[t.stream]
      BY <3>2 DEF Before
    <3>4. Wrap(FirstSequence[t.stream]) = FirstSequence[t.stream]
      BY <3>2, WrapNear
    <3> QED BY <2>2, <2>5, <3>3, <3>4 DEF Number
  <2>7. {"start"} \in SUBSET MediaFlags
    BY DEF MediaFlags
  <2> QED BY <1>2, <1>3, <2>1, <2>2, <2>5, <2>6, <2>7
<1>4. CASE /\ tx.open /\ Len(handed[tx.stream]) < MaxPackets
           /\ Speak(tx, {}, encoded, sent)
  <2>1. {} \in SUBSET MediaFlags
    OBVIOUS
  <2>2. tx.sequence = Number(Before(tx.stream), Len(handed[tx.stream]) + 1)
    BY <1>4 DEF Ordinal
  <2> QED BY <1>1, <1>2, <1>4, <2>1, <2>2
<1>5. CASE tx.open /\ Finish(encoded, sent)
  <2>1. ~tx'.open
    BY <1>1, <1>5 DEF Finish, Advanced, Talkers
  <2>2. CASE encoded
    <3>1. Hand(MediaPacket(tx, {"end"}), sent) /\ {"end"} \in SUBSET MediaFlags
      BY <1>5, <2>2 DEF Finish, MediaFlags
    <3>2. /\ Len(handed[tx.stream]) <= MaxPackets
          /\ tx.sequence = Number(Before(tx.stream), Len(handed[tx.stream]) + 1)
      BY <1>5 DEF Ordinal
    <3>3. Grown
      BY <1>1, <1>5, <3>1, <3>2, HandGrown
    <3> QED BY <2>1, <3>3
  <2>3. CASE ~encoded
    <3>1. handed' = handed /\ air' = air
      BY <1>5, <2>3 DEF Finish
    <3> QED BY <2>1, <3>1, IdleGrown
  <2> QED BY <2>2, <2>3
<1>6. CASE ~tx.open /\ UNCHANGED <<tx, handed, air, after>>
  BY <1>6, IdleGrown
<1> QED BY <1>3, <1>4, <1>5, <1>6 DEF Transmit

\* A packet of the talker's is measured, once it has left the parsers
\* (session.cpp:375-442).
LEMMA PacketTaken ==
  ASSUME NEW d \in Packets, Receive(d)
  PROVE  ObserveMedia(d.fields)
<1>1. /\ d.size = HeaderSize + 1 /\ d.version = Version /\ d.type = "Audio"
      /\ d.flags \subseteq MediaFlags
  BY DEF Packets
<1>2. /\ HeaderSize \in Nat /\ PrefixSize \in Nat /\ PrefixSize < HeaderSize + 1
      /\ HeaderSize + 1 <= MaxDatagram /\ MaxDatagram \in Nat
  BY WireAssumption DEF HeaderSize, PrefixSize, PongBodySize
<1>3. ~(d.size > MaxDatagram) /\ ~(d.size < PrefixSize) /\ ~(d.size <= HeaderSize)
  BY <1>1, <1>2
<1>4. RecvFrom(d) = d
  <2>1. RecvFrom(d) = [d EXCEPT !.size = d.size]
    BY <1>3 DEF RecvFrom
  <2> QED BY <2>1 DEF Packets
<1>5. PrefixReject(d) = "None"
  BY <1>1, <1>3 DEF PrefixReject
<1>6. MediaReject(d) = "None"
  BY <1>1, <1>3, <1>5 DEF MediaReject
<1> QED BY <1>1, <1>4, <1>5, <1>6 DEF Receive

\* Nothing else is: whatever passes the parsers is what an encoder makes.
LEMMA NoiseRejected ==
  ASSUME NEW fields, NEW d \in NoiseAround(fields), Receive(d)
  PROVE  UNCHANGED <<rx, heard>>
<1>1. /\ d \in [size : {0, PrefixSize, HeaderSize, HeaderSize + 1, MaxDatagram + 1},
                version : {Version, Version + 1}, type : {"Audio", "Ping"},
                flags : {{}, {"reserved"}}, fields : {fields}]
      /\ \A n \in 1 .. MaxDatagram : RecvFrom(d) # EncodeMedia({}, fields, n)
  BY DEF NoiseAround
<1>2. PICK e : e = RecvFrom(d)
  OBVIOUS
<1>3. PICK z : z = IF d.size > MaxDatagram THEN MaxDatagram ELSE d.size
  OBVIOUS
<1>4. e = [size |-> z, version |-> d.version, type |-> d.type, flags |-> d.flags,
           fields |-> fields]
  BY <1>1, <1>2, <1>3 DEF RecvFrom
<1>5. MaxDatagram \in Nat /\ HeaderSize \in Nat /\ z \in Int
  BY <1>1, <1>3, WireAssumption DEF HeaderSize, PrefixSize
<1>6. ASSUME PrefixReject(e) = "None", e.type = "Audio", MediaReject(e) = "None" PROVE FALSE
  <2>1. e.version = Version
    BY <1>6 DEF PrefixReject
  <2>2. e.flags \subseteq MediaFlags
    BY <1>6 DEF MediaReject
  <2>3. ~(e.size <= HeaderSize) /\ ~(e.size > MaxDatagram)
    BY <1>6 DEF MediaReject
  <2>4. e.flags = {}
    <3>1. e.flags \in {{}, {"reserved"}}
      BY <1>1, <1>4
    <3>2. "reserved" \notin MediaFlags
      BY DEF MediaFlags
    <3> QED BY <2>2, <3>1, <3>2
  <2>5. e.size = z /\ e.version = d.version /\ e.type = d.type /\ e.flags = d.flags
    BY <1>4
  <2>6. PICK n : n = z - HeaderSize
    OBVIOUS
  <2>7. n \in 1 .. MaxDatagram /\ n # 0 /\ HeaderSize + n = z /\ ~(HeaderSize + n > MaxDatagram)
    BY <1>5, <2>3, <2>5, <2>6
  <2>8. EncodeMedia({}, fields, n)
          = [size |-> HeaderSize + n, version |-> Version, type |-> "Audio",
             flags |-> {}, fields |-> fields]
    BY <2>7 DEF EncodeMedia
  <2>9. e = EncodeMedia({}, fields, n)
    BY <1>4, <1>6, <2>1, <2>4, <2>5, <2>7, <2>8
  <2> QED BY <1>1, <1>2, <2>7, <2>9
<1> QED BY <1>2, <1>6 DEF Receive

\* A packet that was given to the socket is measured at its place
\* (session.cpp:320-352).
LEMMA ReceiveMeasured ==
  ASSUME ShortTalkspurts, TalkInv, Ordinal, Measured, NEW d, Given(handed, d), Receive(d),
         handed' = handed
  PROVE  Measured'
<1>1. ObserveMedia(d.fields) /\ d \in Packets
  BY PacketTaken DEF Given
<1>2. PICK s : s = d.fields.stream
  OBVIOUS
<1>3. PICK f : f = Before(s)
  OBVIOUS
<1>4. PICK n : n = Len(handed[s])
  OBVIOUS
<1>5. s \in Streams
  BY <1>1, <1>2 DEF Packets, Fields
<1>6. f \in Int /\ n \in Nat /\ DOMAIN handed[s] = 1 .. n /\ MaxPackets \in Nat
  BY <1>3, <1>4, <1>5, StreamFacts
<1>7. n <= Window
  <2>1. n <= MaxPackets + 1
    BY <1>4, <1>5 DEF Ordinal
  <2> QED BY <1>6, <2>1, WindowAssumption DEF ShortTalkspurts
<1>8. PICK i \in 1 .. n : d = handed[s][i]
  BY <1>2, <1>6 DEF Given
<1>9. d.fields.sequence = Number(f, i)
  BY <1>3, <1>5, <1>6, <1>8 DEF Ordinal, Numbered
<1>10. CASE ~rx.open \/ s # rx.stream
  <2>1. Measuring(d.fields) = [open |-> TRUE, stream |-> s, tracker |-> NewTracker]
    BY <1>2, <1>10 DEF Measuring
  <2>2. PICK u : u = Observed(NewTracker, Number(f, i))
    OBVIOUS
  <2>3. rx' = [open |-> TRUE, stream |-> s, tracker |-> u]
    <3>1. PICK r : r = [open |-> TRUE, stream |-> s, tracker |-> NewTracker]
      OBVIOUS
    <3>2. rx' = [r EXCEPT !.tracker = Observed(r.tracker, Number(f, i))]
      <4>1. r = Measuring(d.fields)
        BY <2>1, <3>1
      <4>2. rx' = [Measuring(d.fields) EXCEPT
                     !.tracker = Observed(Measuring(d.fields).tracker, d.fields.sequence)]
        BY <1>1 DEF ObserveMedia
      <4> QED BY <1>9, <4>1, <4>2
    <3>3. r.tracker = NewTracker
      BY <3>1
    <3>4. rx' = [r EXCEPT !.tracker = u]
      BY <2>2, <3>2, <3>3
    <3> QED BY <3>1, <3>4
  <2>4. heard' = {Number(f, i)}
    BY <1>1, <1>2, <1>9, <1>10 DEF ObserveMedia
  <2>5. Counted(u, f, {i}, n)
    BY <1>6, <1>7, <2>2, FirstCounted
  <2>6. heard' = {Number(f, p) : p \in {i}}
    BY <2>4
  <2>7. /\ {"open", "stream", "tracker"} \subseteq DOMAIN rx' /\ rx'.stream = s
        /\ rx'.tracker = u
    BY <2>3
  <2>8. \E P : /\ Counted(rx'.tracker, Before(rx'.stream), P, Len(handed'[rx'.stream]))
               /\ heard' = {Number(Before(rx'.stream), p) : p \in P}
    BY <1>3, <1>4, <2>5, <2>6, <2>7
  <2> QED BY <1>5, <2>7, <2>8 DEF Measured
<1>11. CASE rx.open /\ s = rx.stream
  <2>1. Measuring(d.fields) = rx
    BY <1>2, <1>11 DEF Measuring
  <2>2. PICK P : /\ Counted(rx.tracker, f, P, n)
                 /\ heard = {Number(f, p) : p \in P}
    BY <1>3, <1>4, <1>11 DEF Measured
  <2>3. PICK u : u = Observed(rx.tracker, Number(f, i))
    OBVIOUS
  <2>4. rx' = [rx EXCEPT !.tracker = u]
    BY <1>1, <1>9, <2>1, <2>3 DEF ObserveMedia
  <2>5. heard' = heard \cup {Number(f, i)}
    BY <1>1, <1>2, <1>9, <1>11 DEF ObserveMedia
  <2>6. PICK Q : Q = P \cup {i}
    OBVIOUS
  <2>7. Counted(u, f, Q, n)
    BY <1>6, <1>7, <2>2, <2>3, <2>6, NextCounted
  <2>8. heard' = {Number(f, p) : p \in Q}
    BY <2>2, <2>5, <2>6
  <2>9. /\ {"open", "stream", "tracker"} \subseteq DOMAIN rx' /\ rx'.stream = s
        /\ rx'.tracker = u
    BY <1>11, <2>4 DEF Measured
  <2>10. \E R : /\ Counted(rx'.tracker, Before(rx'.stream), R, Len(handed'[rx'.stream]))
                /\ heard' = {Number(Before(rx'.stream), p) : p \in R}
    BY <1>3, <1>4, <2>7, <2>8, <2>9
  <2> QED BY <1>5, <2>9, <2>10 DEF Measured
<1> QED BY <1>10, <1>11

\* Nothing was sent or measured yet.
LEMMA ListenInit == TalkInit => Ordinal /\ Measured
<1> SUFFICES ASSUME TalkInit PROVE Ordinal /\ Measured
  OBVIOUS
<1>1. \A s \in Streams : handed[s] = <<>>
  BY DEF TalkInit
<1>2. Len(<<>>) = 0 /\ \A i \in DOMAIN <<>> : FALSE
  BY EmptySeq
<1>3. 0 <= MaxPackets + 1
  BY TalkAssumption
<1>4. \A s \in Streams : Numbered(handed[s], s) /\ Len(handed[s]) <= MaxPackets + 1
  BY <1>1, <1>2, <1>3 DEF Numbered
<1>5. Ordinal
  BY <1>4 DEF TalkInit, Ordinal
<1>6. Measured
  BY DEF TalkInit, Measured, IdleReceiver
<1> QED BY <1>5, <1>6

\* Every step keeps streams numbered and the tracker true to what was heard.
LEMMA ListenNext ==
  ASSUME ShortTalkspurts
  PROVE  TalkInv /\ TalkInv' /\ Ordinal /\ Measured /\ [TalkNext]_talkVars
           => (Ordinal /\ Measured)'
<1> SUFFICES ASSUME TalkInv, TalkInv', Ordinal, Measured, [TalkNext]_talkVars
             PROVE  Ordinal' /\ Measured'
  OBVIOUS
<1>1. ASSUME handed' = handed, air' \subseteq air,
             tx'.open => tx.open /\ tx' = tx
      PROVE  Ordinal'
  BY <1>1 DEF Ordinal
<1>2. ASSUME handed' = handed, rx' = rx, heard' = heard PROVE Measured'
  BY <1>2 DEF Measured
<1>3. CASE PushButton \/ ReleaseButton \/ OnCapture \/ UNCHANGED talkVars
  <2>1. UNCHANGED <<handed, air, tx, rx, heard>>
    BY <1>3 DEF PushButton, ReleaseButton, OnCapture, talkVars
  <2> QED BY <1>1, <1>2, <2>1
<1>4. ASSUME NEW encoded \in BOOLEAN, NEW sent \in BOOLEAN, Transmit(encoded, sent)
      PROVE  Ordinal' /\ Measured'
  <2>1. /\ Grown
        /\ tx'.open =>
             /\ Len(handed'[tx'.stream]) <= MaxPackets
             /\ tx'.sequence = Number(Before(tx'.stream), Len(handed'[tx'.stream]) + 1)
    BY <1>4, TransmitOrdinal
  <2>2. rx' = rx /\ heard' = heard
    BY <1>4 DEF Transmit
  <2>3. Ordinal'
    BY <2>1 DEF Ordinal, Grown
  <2>4. Measured'
    BY <2>1, <2>2, MeasuredLater
  <2> QED BY <2>3, <2>4
<1>5. CASE RestartTalker
  <2>1. UNCHANGED <<air, rx, handed, heard>> /\ tx' = [tx EXCEPT !.open = FALSE]
    BY <1>5 DEF RestartTalker
  <2>2. ~tx'.open
    BY <2>1 DEF TalkInv, TalkTypeOK, Talkers
  <2> QED BY <1>1, <1>2, <2>1, <2>2
<1>6. CASE RestartListener
  <2>1. UNCHANGED <<tx, air, handed>> /\ rx' = IdleReceiver
    BY <1>6 DEF RestartListener
  <2>2. Measured'
    BY <2>1 DEF Measured, IdleReceiver
  <2> QED BY <1>1, <2>1, <2>2
<1>7. ASSUME NEW d \in air, Deliver(d) \/ Copy(d) PROVE Ordinal' /\ Measured'
  <2>1. Receive(d) /\ handed' = handed /\ tx' = tx /\ air' \subseteq air
    BY <1>7 DEF Deliver, Copy
  <2>2. Given(handed, d)
    BY <1>7 DEF Ordinal
  <2>3. Measured'
    BY <2>1, <2>2, ReceiveMeasured
  <2> QED BY <1>1, <2>1, <2>3
<1>8. ASSUME NEW d \in air, Lose(d) PROVE Ordinal' /\ Measured'
  <2>1. UNCHANGED <<handed, tx, rx, heard>> /\ air' \subseteq air
    BY <1>8 DEF Lose
  <2> QED BY <1>1, <1>2, <2>1
<1>9. CASE Noise
  <2>1. UNCHANGED <<handed, tx, air>>
    BY <1>9 DEF Noise
  <2>2. PICK d \in NoiseAround([stream |-> rx.stream,
                                sequence |-> Wrap(rx.tracker.highest + 2)]) : Receive(d)
    BY <1>9 DEF Noise
  <2>3. rx' = rx /\ heard' = heard
    BY <2>2, NoiseRejected
  <2> QED BY <1>1, <1>2, <2>1, <2>3
<1> QED BY <1>3, <1>4, <1>5, <1>6, <1>7, <1>8, <1>9 DEF TalkNext

\* lost() counts the places between the first and the last heard that were not.
LEMMA LossCounts ==
  ASSUME ShortTalkspurts, TalkInv, Ordinal, Measured
  PROVE  LossIsOfSentPackets
<1> DEFINE h == handed[rx.stream]
           missed == {i \in DOMAIN h :
                        LET s == h[i].fields.sequence
                        IN  /\ Precedes(rx.tracker.base, s)
                            /\ Precedes(s, rx.tracker.highest)
                            /\ s \notin heard}
<1>1. SUFFICES ASSUME rx.open PROVE Lost(rx.tracker) = Cardinality(missed)
  BY DEF LossIsOfSentPackets
<1>2. rx.stream \in Streams
  BY <1>1 DEF Measured
<1>3. PICK f, n, t : f = Before(rx.stream) /\ n = Len(h) /\ t = rx.tracker
  OBVIOUS
<1>4. f \in Int /\ n \in Nat /\ DOMAIN h = 1 .. n /\ MaxPackets \in Nat
  BY <1>2, <1>3, StreamFacts
<1>5. n <= Window
  <2>1. n <= MaxPackets + 1
    BY <1>2, <1>3 DEF Ordinal
  <2> QED BY <1>4, <2>1, WindowAssumption DEF ShortTalkspurts
<1>6. PICK P : Counted(t, f, P, n) /\ heard = {Number(f, p) : p \in P}
  BY <1>1, <1>3 DEF Measured
<1>7. PICK low \in P, top \in P :
        /\ \A p \in P : low <= p /\ p <= top
        /\ t.base = Number(f, low)
        /\ t.highest = Number(f, top)
  BY <1>6 DEF Counted
<1>8. /\ t \in Trackers /\ t.started /\ P \subseteq 1 .. n /\ t.received = Cardinality(P)
      /\ low \in 1 .. n /\ top \in 1 .. n /\ t.received \in Nat /\ low <= top
  BY <1>6, <1>7 DEF Counted, Trackers
<1>9. \A i \in 1 .. n : h[i].fields.sequence = Number(f, i)
  BY <1>2, <1>3, <1>4 DEF Ordinal, Numbered
<1>10. ASSUME NEW i \in 1 .. n
       PROVE  i \in missed <=> i \in (low .. top) \ P
  <2>1. PICK s : s = Number(f, i)
    OBVIOUS
  <2>2. Distance(t.base, s) = i - low
    <3>1. Distance(Number(f, low), Number(f, i)) = i - low
      BY <1>4, <1>5, <1>8, PlacesNear
    <3> QED BY <1>7, <2>1, <3>1
  <2>3. Distance(s, t.highest) = top - i
    <3>1. Distance(Number(f, i), Number(f, top)) = top - i
      BY <1>4, <1>5, <1>8, PlacesNear
    <3> QED BY <1>7, <2>1, <3>1
  <2>4. s \in heard <=> i \in P
    <3>1. ASSUME NEW p \in P, Number(f, i) = Number(f, p) PROVE i = p
      <4>1. p \in 1 .. n
        BY <1>8
      <4> QED BY <1>4, <1>5, <3>1, <4>1, PlacesNear
    <3> QED BY <1>6, <2>1, <3>1
  <2>5. i \in missed <=> i - low > 0 /\ top - i > 0 /\ i \notin P
    BY <1>3, <1>4, <1>9, <2>1, <2>2, <2>3, <2>4 DEF Precedes
  <2> HIDE DEF missed
  <2>6. i \in Int /\ low \in Int /\ top \in Int /\ low \in P /\ top \in P
    BY <1>8
  <2> QED BY <2>5, <2>6
<1>11. missed \subseteq 1 .. n /\ low .. top \subseteq 1 .. n
  BY <1>4, <1>8
<1> HIDE DEF missed
<1>12. missed = (low .. top) \ P
  BY <1>10, <1>11
<1>13. PICK span : span = low .. top
  OBVIOUS
<1>14. IsFiniteSet(span) /\ Cardinality(span) = top - low + 1
  <2>1. low \in Int /\ top \in Int /\ ~(low > top)
    BY <1>8
  <2> QED BY <1>13, <2>1, FS_Interval
<1>15. span \cap P = P
  <2>1. \A p \in P : p \in low .. top
    BY <1>7, <1>8
  <2> QED BY <1>13, <2>1
<1>16. Cardinality(missed) = Cardinality(span) - Cardinality(P) /\ IsFiniteSet(missed)
  <2>1. Cardinality(span \ P) = Cardinality(span) - Cardinality(span \cap P)
        /\ IsFiniteSet(span \ P)
    BY <1>14, FS_Difference
  <2> QED BY <1>12, <1>13, <1>15, <2>1, Zenon
<1>17. Cardinality(missed) \in Nat
  BY <1>16, FS_CardinalityType
<1>18. Expected(t) = top - low + 1
  <2>1. Distance(t.base, t.highest) = top - low
    <3>1. Distance(Number(f, low), Number(f, top)) = top - low
      BY <1>4, <1>5, <1>8, PlacesNear
    <3> QED BY <1>7, <3>1
  <2> QED BY <1>8, <2>1 DEF Expected
<1>19. Cardinality(missed) = (top - low + 1) - t.received
  BY <1>8, <1>14, <1>16
<1> QED BY <1>3, <1>8, <1>17, <1>18, <1>19 DEF Lost

\* While no talkspurt is longer than the tracker's window, the loss on the listener's
\* screen is of packets that the talker gave to its socket, whatever the network loses,
\* copies or reorders, and whoever restarts (session.cpp:320-352, 375-442).
THEOREM ListenerCorrect ==
  ASSUME ShortTalkspurts
  PROVE  TalkSpec => []LossIsOfSentPackets
<1>1. TalkInv /\ Ordinal /\ Measured => LossIsOfSentPackets
  BY LossCounts
<1>2. TalkInv /\ TalkInv' /\ Ordinal /\ Measured /\ [TalkNext]_talkVars
        => (Ordinal /\ Measured)'
  BY ListenNext
<1> QED BY <1>1, <1>2, ListenInit, TalkAlwaysInv, PTL DEF TalkSpec
===============================================================================
