--------------------------- MODULE JitterEstimator ---------------------------
(***************************************************************************)
(* Interarrival jitter (core/include/radio/jitter_estimator.hpp,           *)
(* core/src/metrics/jitter_estimator.cpp): its methods on the record of    *)
(* its fields.  The smoothed estimate is an average of the deviations and  *)
(* so never exceeds the largest of them, which is kept.  Arrival times and *)
(* timestamps count the same ticks, one a machine word and the other not.  *)
(***************************************************************************)
EXTENDS Serial

NewEstimator == [anchored |-> FALSE, timestamp |-> 0, arrival |-> 0, peak |-> 0]

\* anchor(), reanchor(): a reference, and no sample.
Anchored(e, timestamp, arrival) ==
  [e EXCEPT !.anchored = TRUE, !.timestamp = timestamp, !.arrival = arrival]

\* Mutant: plain subtraction of timestamps.
DeviationUnwrapped(e, timestamp, arrival) ==
  LET d == (arrival - e.arrival) - (timestamp - e.timestamp)
  IN  IF d < 0 THEN -d ELSE d

\* How far the spacing of two arrivals is from that of their timestamps.
Deviation(e, timestamp, arrival) ==
  LET d == (arrival - e.arrival) - Distance(e.timestamp, timestamp)
  IN  IF d < 0 THEN -d ELSE d

\* observe()
Sampled(e, timestamp, arrival) ==
  LET d == Deviation(e, timestamp, arrival)
  IN  IF ~e.anchored THEN Anchored(e, timestamp, arrival)
      ELSE [Anchored(e, timestamp, arrival)
              EXCEPT !.peak = IF d > @ THEN d ELSE @]
===============================================================================
