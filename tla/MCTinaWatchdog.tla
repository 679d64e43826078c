-------------------------- MODULE MCTinaWatchdog --------------------------
(* Model values of TinaWatchdog for TLC; processes are interchangeable in  *)
(* the runs that check no liveness property.                               *)
EXTENDS TinaWatchdog, TLC

Processes == Permutations(Dogs) \cup Permutations(Svcs)
=============================================================================
