--------------------------- MODULE MCTinaCapture ---------------------------
(* Model values of TinaCapture for TLC; the bounds are in the .cfg files.  *)
EXTENDS TinaCapture

(* What goes wrong in one behaviour: nothing, and then there is room for a *)
(* second capture; or the recorder misbehaves; or two of these happen: a   *)
(* file operation fails, the service crashes, the power goes.              *)
Scenario ==
  /\ upsets > 0 => faults + crashes + powers = 0
  /\ powers > 0 /\ faults > 0 => crashes = 0
  /\ upsets + faults + crashes + powers > 0 => used <= 1 /\ opened <= 4

(* For liveness: captures of up to five segments, so that a stop finds its *)
(* last segment published, unfinished or missing.  After an accident a     *)
(* start needs three: two for the baseline, and a boundary.  Only steps of *)
(* the recorder and accidents are cut, and neither is fair.                *)
LiveScenario == Scenario /\ (upsets + crashes > 0 /\ used = 0 => opened <= 3)
=============================================================================
