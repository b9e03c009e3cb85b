-------------------------------- MODULE MCTalk --------------------------------
(* Values for the runs of Talk. *)
EXTENDS Talk

\* Every stream starts just before the wrap, each at another place.
NearWrap == [s \in 1 .. MaxStreams |-> Wrap(0 - 1 - s)]
===============================================================================
