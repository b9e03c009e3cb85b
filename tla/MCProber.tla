------------------------------- MODULE MCProber -------------------------------
(***************************************************************************)
(* Values for the prober's runs.                                           *)
(***************************************************************************)
EXTENDS Prober

\* The peer's clock is behind ours, so that offsets are negative.
PeerBehind == -2
===============================================================================
