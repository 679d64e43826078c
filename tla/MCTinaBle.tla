----------------------------- MODULE MCTinaBle -----------------------------
(* Instance of TinaBle for TLC: one client that uses GATT and one that may *)
(* use either transport.                                                   *)
EXTENDS TinaBle

CONSTANTS c1, c2
MCCmd == {c1, c2}
MCAutoCmd == {c1}

(* Two commands at once as long as nothing goes wrong; accidents while at  *)
(* least one of the clients has not reached the device.                    *)
Scenario == faults = 0 \/ \E c \in Cmd : ph[c] \in {"gatt", "connect"}
=============================================================================
