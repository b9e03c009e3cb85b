-------------------------------- MODULE Pacer --------------------------------
(***************************************************************************)
(* The departure schedule (core/include/radio/pacer.hpp,                   *)
(* core/src/net/pacer.cpp): its methods as operators on the record of its  *)
(* fields.  The counters of departures and resynchronisations are left     *)
(* out.                                                                    *)
(***************************************************************************)
EXTENDS Integers

CONSTANTS
  Interval,       \* interval_
  MaxPaceCatchup  \* max_catchup_us, zero for the default

ASSUME PacerAssumption ==
  /\ Interval \in Nat
  /\ MaxPaceCatchup \in Nat

\* max_catchup_: two intervals unless it is given.
Tolerance == IF MaxPaceCatchup # 0 THEN MaxPaceCatchup ELSE 2 * Interval

StoppedPacer == [started |-> FALSE, next |-> 0]

StartPacer(now) == [started |-> TRUE, next |-> now]

PacerDue(p, now) == p.started /\ now >= p.next

\* Mutant: a stall is made up for in a burst.
AdvancePacerBursting(p, now) ==
  StartPacer((IF p.started THEN p.next ELSE now) + Interval)

\* advance(): one interval further on the schedule, not the clock, unless the
\* schedule is lost.
AdvancePacer(p, now) ==
  LET next == (IF p.started THEN p.next ELSE now) + Interval
  IN  StartPacer(IF now - next > Tolerance THEN now ELSE next)
===============================================================================
