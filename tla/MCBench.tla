------------------------------- MODULE MCBench -------------------------------
(* Instances of Bench for TLC. *)
EXTENDS Bench

Plain ==
  [base |-> 2, jitter |-> 0, shape |-> "None", loss |-> FALSE, burst |-> FALSE,
   duplicate |-> FALSE, reorder |-> 0, rate |-> 0, bucket |-> 0]

\* One scenario for each kind of impairment and the combinations that interact.
Catalogue ==
  {[Plain EXCEPT !.jitter = 1, !.shape = "Uniform", !.loss = TRUE],
   [Plain EXCEPT !.base = 1, !.jitter = 1, !.shape = "Pareto"],
   [Plain EXCEPT !.burst = TRUE, !.reorder = 2, !.duplicate = TRUE],
   [Plain EXCEPT !.base = 1, !.rate = 3, !.bucket = 6, !.duplicate = TRUE]}

PeerBehind == -2
===============================================================================
