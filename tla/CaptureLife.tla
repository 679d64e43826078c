---------------------------- MODULE CaptureLife ----------------------------
(***************************************************************************)
(* What a device service promises about captures, whatever happens to its  *)
(* process, its storage and its power: one capture runs at a time, every   *)
(* capture ends once, and a capture that was answered with "completed" is  *)
(* complete from then on.                                                  *)
(***************************************************************************)
CONSTANT Sessions

VARIABLES
  status,     \* of each session: new, running, complete or ended without
  promised    \* sessions whose stop was answered with "completed"

vars == <<status, promised>>

Init ==
  /\ status = [s \in Sessions |-> "new"]
  /\ promised = {}

Running == {s \in Sessions : status[s] = "running"}

Begin(s) ==
  /\ Running = {} /\ status[s] = "new"
  /\ status' = [status EXCEPT ![s] = "running"]
  /\ UNCHANGED promised

Answer(s) ==
  /\ status[s] = "running"
  /\ status' = [status EXCEPT ![s] = "complete"]
  /\ promised' = promised \cup {s}

(* Captures end, or what was complete but not promised is lost.  A crash   *)
(* or a power loss may do this to several at once.                         *)
MayBecome(s, new) ==
  \/ new = status[s]
  \/ status[s] = "running" /\ new \in {"complete", "ended"}
  \/ status[s] = "complete" /\ s \notin promised /\ new = "ended"

End ==
  /\ status' \in [Sessions -> {"new", "running", "complete", "ended"}]
  /\ \A s \in Sessions : MayBecome(s, status'[s])
  /\ UNCHANGED promised

Next == End \/ \E s \in Sessions : Begin(s) \/ Answer(s)
Spec == Init /\ [][Next]_vars
=============================================================================
