-------------------------- MODULE MCSessionExport --------------------------
(* Instance of SessionExport for TLC: two exports, two sessions whose files *)
(* differ in size.                                                          *)
EXTENDS SessionExport

CONSTANTS e1, e2, s1, s2

MCExporters == {e1, e2}
MCSessions == {s1, s2}
MCSize == [s \in MCSessions |-> IF s = s1 THEN 2 ELSE 1]

(* At most two accidents, of any kinds and at any two moments. *)
Few == cuts + junked + foreigns + stops + powers =< 2
=============================================================================
