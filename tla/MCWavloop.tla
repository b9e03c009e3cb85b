------------------------------ MODULE MCWavloop ------------------------------
(* Instances of Wavloop for TLC. *)
EXTENDS Wavloop

Plain ==
  [base |-> 2, jitter |-> 0, shape |-> "None", loss |-> FALSE, burst |-> FALSE,
   duplicate |-> FALSE, reorder |-> 0, rate |-> 0, bucket |-> 0]

Bounded ==
  {[Plain EXCEPT !.jitter = 1, !.shape = "Uniform", !.loss = TRUE],
   [Plain EXCEPT !.base = 3, !.jitter = 1, !.shape = "Normal"],
   [Plain EXCEPT !.reorder = 4, !.burst = TRUE, !.duplicate = TRUE]}
===============================================================================
