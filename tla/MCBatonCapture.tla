--------------------------- MODULE MCBatonCapture ---------------------------
(* Instance of BatonCapture for TLC: two request threads, two sessions, one *)
(* camera and the IMU.                                                      *)
EXTENDS BatonCapture, TLC

CONSTANTS t1, t2, s1, s2, cam0

MCThreads == {t1, t2}
MCSessions == {s1, s2}
MCCameras == {cam0}

(* Accidents in a behaviour, of all kinds together.                         *)
FewAccidents == kills + faults + unplugs + powers + Cardinality(cut) <= 2

(* Nothing reads the recorders and files of a session again that has ended  *)
(* incomplete on every volume.                                              *)
Ended(s) ==
  /\ active # s /\ Quiet(s)
  /\ \A v \in Volumes : manifest[v][s] # "complete" /\ durable[v][s] # "complete"

View ==
  <<plugged, live, stale, storage, manifest, durable,
    [s \in Sessions |-> IF Ended(s) THEN <<>>
                        ELSE <<where[s], data[s], s \in taken, {p \in cut : p[1] = s}>>],
    alive, up, manager, threads, history, requests, faults, accidents>>

Symmetry == Permutations(MCThreads) \cup Permutations(MCSessions)
=============================================================================
