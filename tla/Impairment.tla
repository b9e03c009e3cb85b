----------------------------- MODULE Impairment -----------------------------
(***************************************************************************)
(* The network model (core/include/radio/impairment.hpp,                   *)
(* core/src/sim/impairment.cpp): what becomes of a packet.  `c` is the     *)
(* configuration, `e` the engine's state.  A draw of the seeded generator  *)
(* is a choice among what it can give, so Decisions is the set of          *)
(* decisions that decide() can make; the counters repeat the verdicts and  *)
(* are left out.                                                           *)
(*                                                                         *)
(* `c` has the base delay, the jitter and its shape, whether packets are   *)
(* lost, in bursts or one by one, whether they are duplicated, the extra   *)
(* delay of a reordered one (zero for none), and the rate and burst        *)
(* allowance in words of data (rate zero for no limit).                    *)
(***************************************************************************)
EXTENDS Integers

CONSTANT
  ParetoTail  \* bound on the jitter of shape Pareto, in units of its scale

ASSUME ImpairmentAssumption == ParetoTail \in Nat

\* The configurations.
Impairments ==
  [base : Nat, jitter : Nat, shape : {"None", "Uniform", "Normal", "Pareto"},
   loss : BOOLEAN, burst : BOOLEAN, duplicate : BOOLEAN, reorder : Nat,
   rate : Nat, bucket : Nat]

NormalClamp == 3  \* kNormalClampSigma

\* The engine as reset() leaves it.
NewEngine(c) ==
  [inBurst |-> FALSE, tokens |-> c.bucket, updated |-> 0, started |-> FALSE]

\* What the generator can give for the variable part of the delay.
Offsets(c) ==
  CASE c.shape = "None"    -> {0}
    [] c.shape = "Uniform" -> -c.jitter .. c.jitter
    [] c.shape = "Normal"  -> -NormalClamp * c.jitter .. NormalClamp * c.jitter
    [] c.shape = "Pareto"  -> 0 .. ParetoTail * c.jitter

\* draw_jitter(): an offset that would make the delay negative counts as none.
DrawJitter(c, offset) == IF c.base + offset <= 0 THEN 0 ELSE offset

\* draw_delay()
Delays(c) == {c.base + DrawJitter(c, offset) : offset \in Offsets(c)}

\* Mutant: an idle link saves up without a limit.
RefilledUncapped(c, e, now) ==
  [e EXCEPT !.started = TRUE, !.updated = now,
            !.tokens = @ + (IF e.started THEN now - e.updated ELSE 0) * c.rate]

\* The bucket refilled for the time that passed, up to its size.
Refilled(c, e, now) ==
  LET tokens == e.tokens + (IF e.started THEN now - e.updated ELSE 0) * c.rate
  IN  [e EXCEPT !.started = TRUE, !.updated = now,
                !.tokens = IF tokens > c.bucket THEN c.bucket ELSE tokens]

\* rate_limit_allows(): the engine after it, and the verdict.
Limited(c, e, bytes, now) ==
  LET full == Refilled(c, e, now)
  IN  IF c.rate = 0 THEN [engine |-> e, allowed |-> TRUE]
      ELSE IF full.tokens < bytes THEN [engine |-> full, allowed |-> FALSE]
      ELSE [engine |-> [full EXCEPT !.tokens = @ - bytes], allowed |-> TRUE]

\* advance_burst_state(): for every packet considered.
AdvanceBurst(c, e) ==
  IF c.burst THEN {[e EXCEPT !.inBurst = b] : b \in BOOLEAN} ELSE {e}

Drop(e, verdict) ==
  [engine |-> e, verdict |-> verdict, delay |-> 0, copies |-> {}]

\* A packet that goes on: its delay, and that of its copy if there is one.
Forwards(c, e) ==
  {[engine |-> e, verdict |-> "Forward", delay |-> delay + extra,
    copies |-> copies] :
     delay \in Delays(c),
     extra \in {0, c.reorder},
     copies \in {{}} \cup (IF c.duplicate THEN {{d} : d \in Delays(c)} ELSE {})}

\* decide()
Decisions(c, e, bytes, now) ==
  UNION {LET limited == Limited(c, burst, bytes, now)
         IN  IF burst.inBurst THEN {Drop(burst, "DropBurst")}
             ELSE (IF c.loss THEN {Drop(burst, "DropIndependent")} ELSE {})
                    \cup (IF limited.allowed THEN Forwards(c, limited.engine)
                          ELSE {Drop(limited.engine, "DropRateLimit")}) :
         burst \in AdvanceBurst(c, e)}
===============================================================================
