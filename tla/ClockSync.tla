------------------------------ MODULE ClockSync ------------------------------
(***************************************************************************)
(* The clock estimate (core/include/radio/clock_sync.hpp,                  *)
(* core/src/time/clock_sync.cpp): what a four-timestamp exchange measures, *)
(* and the window of recent samples it is kept in.  The drift baseline and *)
(* the histogram of round trips are left out.                              *)
(***************************************************************************)
EXTENDS Integers, Sequences

CONSTANTS
  SyncWindow,   \* ClockSync::kWindowSize
  MaxPlausible  \* kMaxPlausibleRttUs

ASSUME SyncAssumption ==
  /\ SyncWindow \in Nat \ {0}
  /\ MaxPlausible \in Nat

\* C++ division: towards zero.
Halved(n) == IF n >= 0 THEN n \div 2 ELSE -((-n) \div 2)

\* ClockSync::observe(): is the exchange possible, and what does it measure?
Plausible(t1, t2, t3, t4) ==
  /\ t4 >= t1 /\ t3 >= t2
  /\ (t4 - t1) - (t3 - t2) \in 0 .. MaxPlausible

\* Mutant: a sign is wrong.
MeasuredSkewed(t1, t2, t3, t4) ==
  [rtt |-> (t4 - t1) - (t3 - t2), offset |-> Halved((t2 - t1) - (t3 - t4))]

Measured(t1, t2, t3, t4) ==
  [rtt |-> (t4 - t1) - (t3 - t2), offset |-> Halved((t2 - t1) + (t3 - t4))]

\* The circular window, oldest first.
Remembered(window, s) ==
  LET longer == Append(window, s)
  IN  IF Len(longer) > SyncWindow THEN Tail(longer) ELSE longer
===============================================================================
