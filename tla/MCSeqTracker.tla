----------------------------- MODULE MCSeqTracker -----------------------------
(* Instances of SeqTracker for TLC. *)
EXTENDS SeqTracker

\* Consecutive packets on both sides of the wrap, more than three windows.
Stream == -5 .. 8
===============================================================================
