-------------------------- MODULE BatonCaptureProofs --------------------------
(***************************************************************************)
(* Theorems about BatonCapture, for any number of request threads,         *)
(* sessions, cameras, requests, kills, failing operations and drives       *)
(* pulled out: what a complete manifest stands for, what an idle service   *)
(* leaves on the internal storage, and that the service implements         *)
(* CaptureLife.                                                            *)
(***************************************************************************)
EXTENDS BatonCapture, TLAPS

-----------------------------------------------------------------------------
(* The inductive invariant.                                                *)

Holding == {"root", "mkdir", "announce", "spawn", "wait", "publish", "abort", "note",
            "finalize", "halt", "validate", "complete", "sync"}

(* Whoever works on a capture holds the lock; nobody does without service. *)
Locked == \A t \in Threads : pc[t] \in Holding => clock = t
Down == ~up => active = None /\ clock = None /\ \A t \in Threads : pc[t] = "idle"

(* What the position of the thread that holds the lock says of the capture. *)
Stage(t) ==
  /\ pc[t] \in Holding => (active = None <=> pc[t] \in {"root", "mkdir"})
  /\ pc[t] \in {"announce", "spawn", "wait"} => astate = "starting"
  /\ pc[t] = "publish" => astate = "recording"
  /\ pc[t] = "abort" => astate \in {"starting", "recording"}
  /\ pc[t] = "note" => astate = "failed"
  /\ pc[t] \in {"finalize", "halt", "validate"} => astate = "finalizing"
  /\ pc[t] \in {"complete", "sync"} => astate = "complete"
  /\ pc[t] \in {"wait", "publish", "finalize", "halt"} => processes = Recorders

(* What the requests ask for. *)
Asked ==
  \A t \in Threads :
    /\ pc[t] = "stop" => arg[t] # None
    /\ pc[t] = "check" => arg[t] \in Targets \cup {"eject"}
    /\ pc[t] = "configure" => arg[t] \in Targets

Running == clock = None /\ active # None => processes = Recorders
Control == Locked /\ Down /\ Running /\ active \in used \cup {None} /\ \A t \in Threads : Stage(t)

(* Nothing is known of a session that has not begun. *)
Fresh ==
  \A s \in Sessions \ used :
    /\ \A v \in Volumes : manifest[v][s] = "absent" /\ durable[v][s] = "absent"
    /\ \A r \in Recorders : <<s, r>> \notin alive /\ <<s, r>> \notin cut
    /\ s \notin acked /\ s \notin taken /\ where[s] = {}

(* The recorders of s have ended, and its cameras when they were told to. *)
Whole(s) == Quiet(s) /\ \A c \in Cameras : <<s, c>> \notin cut

Halted ==
  \A t \in Threads :
    /\ pc[t] = "validate" => Quiet(active)
    /\ pc[t] \in {"complete", "sync"} => Whole(active)

(* A complete manifest is the last one of its session. *)
Final ==
  \A s \in Sessions, v \in Volumes :
    /\ durable[v][s] = "complete" => manifest[v][s] = "complete"
    /\ manifest[v][s] = "complete" => Whole(s)
    /\ manifest[v][s] = "complete" /\ active = s => \E t \in Threads : pc[t] = "sync"

(* What the internal storage says of captures that are over. *)
Settled ==
  /\ up => \A s \in Sessions \ unsaved : s # active => manifest["internal"][s] \notin Unfinished
  /\ active # None /\ root # "internal" => manifest["internal"][active] = "absent"
  /\ root = "internal" => \A t \in Threads : pc[t] = "sync" => manifest["internal"][active] = "complete"

(* The drive is mounted as long as nothing happens to it, and the files of  *)
(* the capture are on the volume that was chosen for it.                    *)
Steady ==
  active # None /\ active \notin taken =>
    /\ root = "usb" => live
    /\ where[active] \subseteq {root}
    /\ where[active] # {} => data[active] \in {"cached", "durable"}
    /\ \A t \in Threads :
         /\ pc[t] \in {"complete", "sync"} => where[active] = {root}
         /\ pc[t] = "sync" => manifest[root][active] = "complete"

(* What was promised is on the disk. *)
Promised ==
  \A s \in acked \ taken :
    /\ data[s] = "durable"
    /\ \E v \in Targets : where[s] = {v} /\ durable[v][s] = "complete"

AckedOver == active \notin acked

Inv == TypeOK /\ Asked /\ Control /\ Fresh /\ Halted /\ Final /\ Settled /\ Steady /\ Promised /\ AckedOver

-----------------------------------------------------------------------------
(* Type correctness.                                                       *)

(* A group of variables that does not change keeps its type. *)
LEMMA Frame ==
  /\ DriveTypeOK /\ UNCHANGED <<plugged, live, stale, storage>> => DriveTypeOK'
  /\ DiskTypeOK /\ UNCHANGED disk => DiskTypeOK'
  /\ RecorderTypeOK /\ UNCHANGED recorders => RecorderTypeOK'
  /\ ManagerTypeOK /\ UNCHANGED <<up, manager, threads>> => ManagerTypeOK'
  /\ HistoryTypeOK /\ UNCHANGED <<taken, history, requests, faults, accidents>> => HistoryTypeOK'
<1>1. DriveTypeOK /\ UNCHANGED <<plugged, live, stale, storage>> => DriveTypeOK'
  BY DEF DriveTypeOK, storage
<1>2. DiskTypeOK /\ UNCHANGED disk => DiskTypeOK' BY DEF DiskTypeOK, disk
<1>3. RecorderTypeOK /\ UNCHANGED recorders => RecorderTypeOK' BY DEF RecorderTypeOK, recorders
<1>4. ManagerTypeOK /\ UNCHANGED <<up, manager, threads>> => ManagerTypeOK'
  BY DEF ManagerTypeOK, manager, threads
<1>5. HistoryTypeOK /\ UNCHANGED <<taken, history, requests, faults, accidents>> => HistoryTypeOK'
  BY DEF HistoryTypeOK, history, accidents
<1> QED BY <1>1, <1>2, <1>3, <1>4, <1>5

(* The steps the actions are made of. *)
LEMMA FaultType ==
  ASSUME HistoryTypeOK, UNCHANGED <<used, taken, acked, unsaved, requests, accidents>>,
         Fault \/ UNCHANGED faults
  PROVE  HistoryTypeOK'
<1>1. faults' \in 0 .. MaxFault BY BoundAssumption DEF HistoryTypeOK, Fault
<1> QED BY <1>1 DEF HistoryTypeOK, accidents

(* _write_active_manifest keeps types, while there is a capture. *)
LEMMA WriteType ==
  ASSUME DiskTypeOK, DriveTypeOK, ManagerTypeOK, HistoryTypeOK, active \in Sessions,
         Write \/ WriteFails, UNCHANGED <<durable, where, data>>,
         UNCHANGED <<used, taken, acked, requests, accidents>>
  PROVE  DiskTypeOK' /\ HistoryTypeOK'
<1>1. Write => Here \in Volumes
  BY DEF Write, Here, Resolve, Volumes
<1>2. DiskTypeOK'
  <2>1. CASE WriteFails BY <2>1 DEF WriteFails, DiskTypeOK
  <2>2. CASE Write BY <1>1, <2>2 DEF Write, DiskTypeOK, ManagerTypeOK
  <2> QED BY <2>1, <2>2
<1>3. unsaved' \subseteq Sessions BY DEF Write, WriteFails, HistoryTypeOK
<1>4. faults' \in 0 .. MaxFault
  BY BoundAssumption DEF HistoryTypeOK, Write, WriteFails, AccessFails, Fault
<1> QED BY <1>2, <1>3, <1>4 DEF HistoryTypeOK, accidents

(* So does mounting the drive, or not. *)
LEMMA MountType ==
  ASSUME DriveTypeOK, HistoryTypeOK, ManagerTypeOK, UNCHANGED storage, Mount \/ UNCHANGED drive
  PROVE  DriveTypeOK' /\ taken' \subseteq Sessions
<1>1. DriveTypeOK' BY DEF DriveTypeOK, Mount, drive, storage
<1>2. taken' \subseteq Sessions
  BY DEF HistoryTypeOK, ManagerTypeOK, Mount, Taken, drive
<1> QED BY <1>1, <1>2

(* A thread that leaves, or goes on, is somewhere. *)
LEMMA LeaveType ==
  ASSUME NEW t \in Threads, ManagerTypeOK, Leave(t)
  PROVE  pc' \in [Threads -> Labels] /\ arg' \in [Threads -> Sessions \cup Targets \cup {"eject", None}]
BY DEF ManagerTypeOK, Leave, Labels

LEMMA GotoType ==
  ASSUME NEW t \in Threads, NEW label \in Labels, ManagerTypeOK, Goto(t, label)
  PROVE  pc' \in [Threads -> Labels]
BY DEF ManagerTypeOK, Goto

-----------------------------------------------------------------------------
(* Control: who holds the lock of the capture manager, and how far it is.  *)

(* A step of the thread that takes or has the lock. *)
LEMMA HolderGoesOn ==
  ASSUME NEW t \in Threads, NEW label \in Holding, TypeOK, Control, pc[t] # "idle",
         clock \in {None, t}, clock' = t, UNCHANGED up, Goto(t, label),
         active' \in used' \cup {None}, Stage(t)'
  PROVE  Control'
<1> USE DEF Control
<1>1. pc \in [Threads -> Labels] BY DEF TypeOK, ManagerTypeOK
<1>2. up BY DEF Down
<1>3. \A u \in Threads \ {t} : pc[u] \notin Holding /\ pc'[u] = pc[u]
  BY <1>1, NoneAssumption DEF Locked, Goto
<1>4. Locked' BY <1>3 DEF Locked
<1>5. \A u \in Threads : Stage(u)' BY <1>3 DEF Stage, Holding
<1>6. Down' /\ Running' BY <1>2, NoneAssumption DEF Down, Running
<1> QED BY <1>4, <1>5, <1>6

(* It leaves: no capture is left behind, or one that runs. *)
LEMMA HolderLeaves ==
  ASSUME NEW t \in Threads, TypeOK, Control, pc[t] # "idle",
         clock = t, clock' = None, UNCHANGED up, Leave(t),
         active' \in used' \cup {None}, active' # None => processes' = Recorders
  PROVE  Control'
<1> USE DEF Control
<1>1. pc \in [Threads -> Labels] BY DEF TypeOK, ManagerTypeOK
<1>2. up BY DEF Down
<1>3. \A u \in Threads : pc'[u] \notin Holding BY <1>1 DEF Locked, Leave, Holding
<1>4. Locked' /\ \A u \in Threads : Stage(u)' BY <1>3 DEF Locked, Stage, Holding
<1>5. Down' /\ Running' BY <1>2 DEF Down, Running
<1> QED BY <1>4, <1>5

(* A step of a thread that works on no capture. *)
LEMMA OutsiderMoves ==
  ASSUME NEW t \in Threads, TypeOK, Control, up, pc[t] \notin Holding,
         NEW label \in Labels \ Holding, Goto(t, label) \/ (label = "idle" /\ Leave(t)),
         UNCHANGED <<clock, active, astate, processes, used, up>>
  PROVE  Control'
<1> USE DEF Control
<1>1. pc \in [Threads -> Labels] BY DEF TypeOK, ManagerTypeOK
<1>2. pc'[t] \notin Holding /\ \A u \in Threads \ {t} : pc'[u] = pc[u]
  BY <1>1 DEF Goto, Leave
<1>3. Locked' BY <1>2 DEF Locked
<1>4. \A u \in Threads : Stage(u)' BY <1>2 DEF Stage, Holding
<1>5. Down' /\ Running' BY DEF Down, Running
<1> QED BY <1>3, <1>4, <1>5

(* Nothing that Control speaks of changes, or the service comes up. *)
LEMMA ControlFrame ==
  ASSUME Control, UNCHANGED <<clock, active, astate, processes, used, pc>>,
         up' = up \/ up'
  PROVE  Control'
BY DEF Control, Locked, Down, Running, Stage

(* After a kill or a power loss there is no request and no capture. *)
LEMMA ControlReset ==
  ASSUME Gone
  PROVE  Control'
BY DEF Gone, Control, Locked, Down, Running, Stage, Holding, history

(* The end of start or stop. *)
LEMMA FinishControl ==
  ASSUME NEW t \in Threads, TypeOK, Control, pc[t] \in Holding, Finish(t), UNCHANGED <<up, used>>
  PROVE  Control'
BY HolderLeaves DEF Finish, Control, Locked, Holding

(* Asked is kept by every step. *)
LEMMA AskedStep ==
  ASSUME TypeOK, Asked, [Next]_vars
  PROVE  Asked'
<1> USE DEF Asked
<1>1. pc \in [Threads -> Labels]
      /\ arg \in [Threads -> Sessions \cup Targets \cup {"eject", None}]
  BY DEF TypeOK, ManagerTypeOK
<1>2. ASSUME NEW t \in Threads, Call(t) PROVE Asked'
  <2>1. PICK label \in {"start", "stop", "check"}, a \in Sessions \cup Targets \cup {"eject", None} :
          /\ Request(t, label, a)
          /\ label = "stop" => a \in Sessions
          /\ label = "check" => a \in Targets \cup {"eject"}
    BY <1>2 DEF Call, TypeOK, HistoryTypeOK
  <2> QED BY <1>1, <2>1, NoneAssumption DEF Request, Goto
<1>3. ASSUME NEW t \in Threads, Leave(t) PROVE Asked'
  BY <1>1, <1>3 DEF Leave
<1>4. CASE UNCHANGED <<pc, arg>> BY <1>4
<1>5. ASSUME NEW t \in Threads, NEW label \in Labels \ {"stop", "check", "configure"}, Goto(t, label), UNCHANGED arg
      PROVE  Asked'
  BY <1>1, <1>5 DEF Goto
<1>6. ASSUME NEW t \in Threads,
             Start(t) \/ CaptureRoot(t) \/ MakeDir(t) \/ Announce(t) \/ Spawn(t) \/ SpawnFails(t)
      PROVE  Asked'
  BY <1>5, <1>3, <1>4, <1>6
     DEF Start, CaptureRoot, MakeDir, Announce, Spawn, SpawnFails, Labels
<1>7. ASSUME NEW t \in Threads,
             Ready(t) \/ Publish(t) \/ Abort(t) \/ Note(t) \/ Stop(t) \/ Finalize(t) \/ Halt(t)
      PROVE  Asked'
  BY <1>5, <1>3, <1>4, <1>7
     DEF Ready, Publish, Abort, Note, Finish, Stop, Finalize, Halt, Labels
<1>8. ASSUME NEW t \in Threads,
             \/ Validate(t) \/ Complete(t) \/ Completed(t) \/ Configure(t) \/ Eject(t) \/ Ejected(t)
      PROVE  Asked'
  BY <1>5, <1>3, <1>4, <1>8
     DEF Validate, Complete, Completed, Finish, Configure, Eject, Ejected, Labels
<1>9. CASE Look \/ RecorderEnds \/ Unplug \/ Plug \/ Boot \/ UNCHANGED vars
  BY <1>4, <1>9 DEF Look, RecorderEnds, Unplug, Plug, Boot, vars, threads
<1>10. CASE Kill \/ PowerLoss BY <1>10 DEF Kill, PowerLoss, Gone
<1>11. ASSUME NEW t \in Threads, Check(t) PROVE Asked'
  BY <1>1, <1>3, <1>11 DEF Check, Goto
<1> QED BY <1>2, <1>6, <1>7, <1>8, <1>9, <1>10, <1>11 DEF Next, Handle, Environment

(* Control is kept by every step. *)
LEMMA ControlStep ==
  ASSUME TypeOK, Control, Asked, [Next]_vars
  PROVE  Control'
<1> USE DEF Control
<1>1. ASSUME NEW t \in Threads, Call(t) PROVE Control'
  BY <1>1, OutsiderMoves DEF Call, Request, manager, history, Labels, Holding
<1>2. ASSUME NEW t \in Threads, Start(t) PROVE Control'
  <2>1. up BY <1>2 DEF Start, Down
  <2>2. CASE active = None /\ clock' = t /\ Goto(t, "root")
    <3>1. Stage(t)' BY <1>2, <2>2 DEF Start, Stage, Goto, Holding, TypeOK, ManagerTypeOK
    <3> QED BY <1>2, <2>2, <3>1, HolderGoesOn DEF Start, Holding, history
  <2>3. CASE Leave(t) /\ UNCHANGED clock
    BY <1>2, <2>1, <2>3, OutsiderMoves DEF Start, Labels, Holding, history
  <2> QED BY <1>2, <2>2, <2>3 DEF Start
<1>3. ASSUME NEW t \in Threads, CaptureRoot(t) PROVE Control'
  <2>1. clock = t /\ active = None BY <1>3 DEF CaptureRoot, Locked, Stage, Holding
  <2>2. CASE Goto(t, "mkdir") /\ UNCHANGED clock
    <3>1. Stage(t)'
      BY <1>3, <2>1, <2>2 DEF CaptureRoot, Stage, Goto, Holding, TypeOK, ManagerTypeOK
    <3> QED BY <1>3, <2>1, <2>2, <3>1, HolderGoesOn DEF CaptureRoot, Holding, history
  <2>3. CASE clock' = None /\ Leave(t)
    BY <1>3, <2>1, <2>3, HolderLeaves DEF CaptureRoot, history
  <2> QED BY <1>3, <2>2, <2>3 DEF CaptureRoot
<1>4. ASSUME NEW t \in Threads, MakeDir(t) PROVE Control'
  <2>1. clock = t /\ active = None BY <1>4 DEF MakeDir, Locked, Stage, Holding
  <2>2. ASSUME NEW s \in Sessions \ used, used' = used \cup {s}, active' = s,
               astate' = "starting", Goto(t, "announce"), UNCHANGED clock
        PROVE Control'
    <3>1. Stage(t)'
      BY <1>4, <2>2, NoneAssumption DEF MakeDir, Stage, Goto, Holding, TypeOK, ManagerTypeOK
    <3> QED BY <1>4, <2>1, <2>2, <3>1, HolderGoesOn DEF MakeDir, Holding
  <2>3. CASE clock' = None /\ Leave(t) /\ UNCHANGED <<used, active>>
    BY <1>4, <2>1, <2>3, HolderLeaves DEF MakeDir
  <2> QED BY <1>4, <2>2, <2>3 DEF MakeDir
<1>5. ASSUME NEW t \in Threads, Announce(t) PROVE Control'
  <2>1. clock = t /\ active # None /\ astate = "starting"
    BY <1>5 DEF Announce, Locked, Stage, Holding
  <2>2. PICK label \in {"spawn", "abort"} : Goto(t, label) BY <1>5 DEF Announce
  <2>3. Stage(t)'
    BY <1>5, <2>1, <2>2 DEF Announce, Stage, Goto, Holding, TypeOK, ManagerTypeOK, manager
  <2> QED BY <1>5, <2>1, <2>2, <2>3, HolderGoesOn DEF Announce, Holding, manager
<1>6. ASSUME NEW t \in Threads, Spawn(t) PROVE Control'
  <2>1. clock = t /\ active # None /\ astate = "starting"
    BY <1>6 DEF Spawn, Locked, Stage, Holding
  <2>2. CASE processes' = Recorders /\ Goto(t, "wait")
    <3>1. Stage(t)'
      BY <1>6, <2>1, <2>2 DEF Spawn, Stage, Goto, Holding, TypeOK, ManagerTypeOK
    <3> QED BY <1>6, <2>1, <2>2, <3>1, HolderGoesOn DEF Spawn, Holding, history
  <2>3. CASE UNCHANGED <<processes, pc>>
    BY <1>6, <2>3, ControlFrame DEF Spawn, history
  <2> QED BY <1>6, <2>2, <2>3 DEF Spawn
<1>7. ASSUME NEW t \in Threads, SpawnFails(t) PROVE Control'
  <2>1. clock = t /\ active # None /\ astate = "starting"
    BY <1>7 DEF SpawnFails, Locked, Stage, Holding
  <2>2. Stage(t)'
    BY <1>7, <2>1 DEF SpawnFails, Stage, Goto, Holding, TypeOK, ManagerTypeOK
  <2> QED BY <1>7, <2>1, <2>2, HolderGoesOn DEF SpawnFails, Holding, history
<1>8. ASSUME NEW t \in Threads, Ready(t) PROVE Control'
  <2>1. clock = t /\ active # None /\ astate = "starting" /\ processes = Recorders
    BY <1>8 DEF Ready, Locked, Stage, Holding
  <2>2. CASE astate' = "recording" /\ Goto(t, "publish")
    <3>1. Stage(t)'
      BY <1>8, <2>1, <2>2 DEF Ready, Stage, Goto, Holding, TypeOK, ManagerTypeOK
    <3> QED BY <1>8, <2>1, <2>2, <3>1, HolderGoesOn DEF Ready, Holding, history
  <2>3. CASE Goto(t, "abort") /\ UNCHANGED astate
    <3>1. Stage(t)'
      BY <1>8, <2>1, <2>3 DEF Ready, Stage, Goto, Holding, TypeOK, ManagerTypeOK
    <3> QED BY <1>8, <2>1, <2>3, <3>1, HolderGoesOn DEF Ready, Holding, history
  <2> QED BY <1>8, <2>2, <2>3 DEF Ready
<1>9. ASSUME NEW t \in Threads, Publish(t) PROVE Control'
  <2>1. clock = t /\ active # None /\ astate = "recording" /\ processes = Recorders
    BY <1>9 DEF Publish, Locked, Stage, Holding
  <2>2. CASE clock' = None /\ Leave(t)
    BY <1>9, <2>1, <2>2, HolderLeaves DEF Publish
  <2>3. CASE Goto(t, "abort") /\ UNCHANGED clock
    <3>1. Stage(t)'
      BY <1>9, <2>1, <2>3 DEF Publish, Stage, Goto, Holding, TypeOK, ManagerTypeOK
    <3> QED BY <1>9, <2>1, <2>3, <3>1, HolderGoesOn DEF Publish, Holding
  <2> QED BY <1>9, <2>2, <2>3 DEF Publish
<1>10. ASSUME NEW t \in Threads, Abort(t) PROVE Control'
  <2>1. clock = t /\ active # None BY <1>10 DEF Abort, Locked, Stage, Holding
  <2>2. Stage(t)'
    BY <1>10, <2>1 DEF Abort, Stage, Goto, Holding, TypeOK, ManagerTypeOK
  <2> QED BY <1>10, <2>1, <2>2, HolderGoesOn DEF Abort, Holding, history
<1>11. ASSUME NEW t \in Threads, Note(t) PROVE Control'
  BY <1>11, FinishControl DEF Note, Holding
<1>12. ASSUME NEW t \in Threads, Stop(t) PROVE Control'
  <2>1. up BY <1>12 DEF Stop, Down
  <2>2. CASE active = arg[t] /\ clock' = t /\ astate' = "finalizing" /\ Goto(t, "finalize")
    <3>1. active # None /\ processes = Recorders BY <1>12, <2>2 DEF Stop, Asked, Running
    <3>2. Stage(t)'
      BY <1>12, <2>2, <3>1 DEF Stop, Stage, Goto, Holding, TypeOK, ManagerTypeOK
    <3> QED BY <1>12, <2>2, <3>1, <3>2, HolderGoesOn DEF Stop, Holding, history
  <2>3. CASE Leave(t) /\ UNCHANGED <<clock, astate>>
    BY <1>12, <2>1, <2>3, OutsiderMoves DEF Stop, Labels, Holding, history
  <2> QED BY <1>12, <2>2, <2>3 DEF Stop
<1>13. ASSUME NEW t \in Threads, Finalize(t) PROVE Control'
  <2>1. clock = t /\ active # None /\ astate = "finalizing" /\ processes = Recorders
    BY <1>13 DEF Finalize, Locked, Stage, Holding
  <2>2. Stage(t)'
    BY <1>13, <2>1 DEF Finalize, Stage, Goto, Holding, TypeOK, ManagerTypeOK, manager
  <2> QED BY <1>13, <2>1, <2>2, HolderGoesOn DEF Finalize, Holding, manager
<1>14. ASSUME NEW t \in Threads, Halt(t) PROVE Control'
  <2>1. clock = t /\ active # None /\ astate = "finalizing"
    BY <1>14 DEF Halt, Locked, Stage, Holding
  <2>2. Stage(t)'
    BY <1>14, <2>1 DEF Halt, Stage, Goto, Holding, TypeOK, ManagerTypeOK
  <2> QED BY <1>14, <2>1, <2>2, HolderGoesOn DEF Halt, Holding, history
<1>15. ASSUME NEW t \in Threads, Validate(t) PROVE Control'
  <2>1. clock = t /\ active # None BY <1>15 DEF Validate, Locked, Stage, Holding
  <2>2. PICK label \in {"complete", "note"} :
          Goto(t, label) /\ astate' = IF label = "note" THEN "failed" ELSE "complete"
    BY <1>15 DEF Validate
  <2>3. Stage(t)'
    BY <1>15, <2>1, <2>2 DEF Validate, Stage, Goto, Holding, TypeOK, ManagerTypeOK
  <2> QED BY <1>15, <2>1, <2>2, <2>3, HolderGoesOn DEF Validate, Holding, history
<1>16. ASSUME NEW t \in Threads, Complete(t) PROVE Control'
  <2>1. clock = t /\ active # None /\ astate = "complete"
    BY <1>16 DEF Complete, Locked, Stage, Holding
  <2>2. PICK label \in {"sync", "note"} :
          Goto(t, label) /\ astate' = IF label = "note" THEN "failed" ELSE "complete"
    BY <1>16, <2>1 DEF Complete
  <2>3. Stage(t)'
    BY <1>16, <2>1, <2>2 DEF Complete, Stage, Goto, Holding, TypeOK, ManagerTypeOK
  <2> QED BY <1>16, <2>1, <2>2, <2>3, HolderGoesOn DEF Complete, Holding
<1>17. ASSUME NEW t \in Threads, Completed(t) PROVE Control'
  BY <1>17, FinishControl DEF Completed, Holding
<1>18. ASSUME NEW t \in Threads, Check(t) \/ Configure(t) \/ Eject(t) \/ Ejected(t)
       PROVE Control'
  <2>1. up /\ pc[t] \notin Holding
    BY <1>18 DEF Check, Configure, Eject, Ejected, Holding, Down
  <2>2. UNCHANGED <<clock, active, astate, processes, used, up>>
    BY <1>18 DEF Check, Configure, Eject, Ejected, manager, history
  <2>3. PICK label \in {"idle", "eject", "configure", "ejected"} :
          Goto(t, label) \/ (label = "idle" /\ Leave(t))
    BY <1>18 DEF Check, Configure, Eject, Ejected
  <2> QED BY <2>1, <2>2, <2>3, OutsiderMoves DEF Labels, Holding
<1>19. CASE Look \/ RecorderEnds \/ Unplug \/ Plug \/ Boot \/ UNCHANGED vars
  BY <1>19, ControlFrame DEF Look, RecorderEnds, Unplug, Plug, Boot, vars, manager, threads, history
<1>20. CASE Kill \/ PowerLoss BY <1>20, ControlReset DEF Kill, PowerLoss
<1> QED
  BY <1>1, <1>2, <1>3, <1>4, <1>5, <1>6, <1>7, <1>8, <1>9, <1>10, <1>11, <1>12, <1>13, <1>14,
     <1>15, <1>16, <1>17, <1>18, <1>19, <1>20 DEF Next, Handle, Environment

-----------------------------------------------------------------------------
(* Types.  A write needs a capture, which is what Control adds.            *)

(* os.sync, or none, keeps the types of the disk. *)
LEMMA SyncType ==
  ASSUME DiskTypeOK, Sync \/ NoSync, UNCHANGED <<manifest, where>>
  PROVE  DiskTypeOK'
<1>1. CASE Sync BY <1>1 DEF DiskTypeOK, Sync
<1>2. CASE NoSync BY <1>2 DEF DiskTypeOK, NoSync
<1> QED BY <1>1, <1>2

(* Every step keeps the types. *)
LEMMA TypeStep ==
  ASSUME TypeOK, Asked, Control, [Next]_vars
  PROVE  TypeOK'
<1> USE DEF TypeOK
<1>1. ASSUME NEW t \in Threads, Call(t) PROVE TypeOK'
  <2>1. PICK label \in {"start", "stop", "check"}, a \in Sessions \cup Targets \cup {"eject", None} :
          Request(t, label, a)
    BY <1>1 DEF Call, HistoryTypeOK
  <2>2. ManagerTypeOK' BY <2>1 DEF Request, ManagerTypeOK, Goto, Labels, manager
  <2>3. HistoryTypeOK'
    BY <2>1, BoundAssumption DEF Request, HistoryTypeOK, drive, history, accidents
  <2> QED BY <2>1, <2>2, <2>3, Frame DEF Request, drive
<1>2. ASSUME NEW t \in Threads, Start(t) PROVE TypeOK'
  <2>1. ManagerTypeOK' BY <1>2 DEF Start, ManagerTypeOK, Goto, Leave, Labels
  <2> QED BY <1>2, <2>1, Frame DEF Start, drive
<1>3. ASSUME NEW t \in Threads, CaptureRoot(t) PROVE TypeOK'
  <2>1. DriveTypeOK' /\ taken' \subseteq Sessions BY <1>3, MountType DEF CaptureRoot
  <2>2. ManagerTypeOK'
    BY <1>3 DEF CaptureRoot, ManagerTypeOK, DriveTypeOK, Goto, Leave, Labels
  <2>3. HistoryTypeOK' BY <1>3, <2>1 DEF CaptureRoot, HistoryTypeOK, history, accidents
  <2> QED BY <1>3, <2>1, <2>2, <2>3, Frame DEF CaptureRoot
<1>4. ASSUME NEW t \in Threads, MakeDir(t) PROVE TypeOK'
  <2>1. DiskTypeOK'
    <3>1. Here # "gone" => Here \in Volumes BY DEF Here, Resolve, Volumes
    <3>2. ASSUME NEW v \in Volumes, NEW s \in Sessions,
                 manifest' = [manifest EXCEPT ![v][s] = "dir"], UNCHANGED <<durable, where, data>>
          PROVE  DiskTypeOK'
      BY <3>2 DEF DiskTypeOK, States
    <3>3. UNCHANGED disk => DiskTypeOK' BY Frame
    <3> QED BY <1>4, <3>1, <3>2, <3>3 DEF MakeDir, disk
  <2>2. ManagerTypeOK'
    BY <1>4 DEF MakeDir, ManagerTypeOK, Goto, Leave, Labels, States, Unfinished
  <2>3. faults' \in 0 .. MaxFault BY <1>4, BoundAssumption DEF MakeDir, HistoryTypeOK, Fault
  <2>4. HistoryTypeOK' BY <1>4, <2>3 DEF MakeDir, HistoryTypeOK, accidents
  <2> QED BY <1>4, <2>1, <2>2, <2>4, Frame DEF MakeDir
<1>5. ASSUME NEW t \in Threads,
             Announce(t) \/ Publish(t) \/ Note(t) \/ Finalize(t) \/ Complete(t)
      PROVE  TypeOK'
  <2>1. active \in Sessions
    BY <1>5 DEF Announce, Publish, Note, Finalize, Complete, Control, Stage, Holding, ManagerTypeOK
  <2>2. /\ Write \/ WriteFails
        /\ UNCHANGED <<durable, where, data, used, taken, acked, requests, accidents>>
    BY <1>5 DEF Announce, Publish, Note, Finalize, Complete, drive
  <2>3. DiskTypeOK' /\ HistoryTypeOK' BY <2>1, <2>2, WriteType
  <2>4. ManagerTypeOK'
    <3>1. ASSUME Announce(t) \/ Finalize(t) PROVE ManagerTypeOK'
      BY <3>1 DEF Announce, Finalize, ManagerTypeOK, Goto, Labels, manager
    <3>2. ASSUME Publish(t) PROVE ManagerTypeOK'
      BY <3>2 DEF Publish, ManagerTypeOK, Goto, Leave, Labels
    <3>3. ASSUME Note(t) PROVE ManagerTypeOK'
      BY <3>3 DEF Note, Finish, ManagerTypeOK, Leave, Labels, States
    <3>4. ASSUME Complete(t) PROVE ManagerTypeOK'
      BY <3>4 DEF Complete, ManagerTypeOK, Goto, Labels, States
    <3> QED BY <1>5, <3>1, <3>2, <3>3, <3>4
  <2>5. UNCHANGED <<plugged, live, stale, storage, recorders>>
    BY <1>5 DEF Announce, Publish, Note, Finalize, Complete, drive
  <2> QED BY <2>3, <2>4, <2>5, Frame
<1>6. ASSUME NEW t \in Threads, Spawn(t) PROVE TypeOK'
  <2>1. active \in Sessions BY <1>6 DEF Spawn, Control, Stage, Holding, ManagerTypeOK
  <2>2. Here \in Volumes BY <1>6 DEF Spawn, CanOpen, Here, Resolve, Volumes
  <2>3. DiskTypeOK' BY <1>6, <2>1, <2>2 DEF Spawn, DiskTypeOK
  <2>4. RecorderTypeOK' BY <1>6, <2>1 DEF Spawn, RecorderTypeOK
  <2>5. ManagerTypeOK' BY <1>6 DEF Spawn, ManagerTypeOK, Goto, Labels
  <2> QED BY <1>6, <2>3, <2>4, <2>5, Frame DEF Spawn, drive
<1>7. ASSUME NEW t \in Threads, SpawnFails(t) PROVE TypeOK'
  <2>1. ManagerTypeOK' BY <1>7 DEF SpawnFails, ManagerTypeOK, Goto, Labels
  <2>2. HistoryTypeOK' BY <1>7, FaultType DEF SpawnFails, drive, history
  <2> QED BY <1>7, <2>1, <2>2, Frame DEF SpawnFails, drive
<1>8. ASSUME NEW t \in Threads, Ready(t) \/ Validate(t) PROVE TypeOK'
  <2>1. ManagerTypeOK'
    BY <1>8 DEF Ready, Validate, ManagerTypeOK, Goto, Labels, States, Unfinished
  <2> QED BY <1>8, <2>1, Frame DEF Ready, Validate, drive
<1>9. ASSUME NEW t \in Threads, Abort(t) \/ Halt(t) PROVE TypeOK'
  <2>1. ManagerTypeOK'
    BY <1>9 DEF Abort, Halt, StopProcesses, ManagerTypeOK, Goto, Labels, States
  <2>2. RecorderTypeOK' BY <1>9 DEF Abort, Halt, StopProcesses, RecorderTypeOK
  <2> QED BY <1>9, <2>1, <2>2, Frame DEF Abort, Halt, drive
<1>10. ASSUME NEW t \in Threads, Stop(t) PROVE TypeOK'
  <2>1. ManagerTypeOK' BY <1>10 DEF Stop, ManagerTypeOK, Goto, Leave, Labels, States, Unfinished
  <2> QED BY <1>10, <2>1, Frame DEF Stop, drive
<1>11. ASSUME NEW t \in Threads, Completed(t) PROVE TypeOK'
  <2>1. active \in Sessions BY <1>11 DEF Completed, Control, Stage, Holding, ManagerTypeOK
  <2>2. DiskTypeOK' BY <1>11, SyncType DEF Completed
  <2>3. ManagerTypeOK' BY <1>11 DEF Completed, Finish, ManagerTypeOK, Leave, Labels, States
  <2>4. HistoryTypeOK' BY <1>11, <2>1 DEF Completed, HistoryTypeOK, drive, accidents
  <2> QED BY <1>11, <2>2, <2>3, <2>4, Frame DEF Completed, drive
<1>12. ASSUME NEW t \in Threads, Check(t) PROVE TypeOK'
  <2>1. ManagerTypeOK' BY <1>12 DEF Check, ManagerTypeOK, Goto, Leave, Labels, manager
  <2> QED BY <1>12, <2>1, Frame DEF Check, drive
<1>13. ASSUME NEW t \in Threads, Configure(t) PROVE TypeOK'
  <2>1. plugged' \in BOOLEAN /\ live' \in BOOLEAN /\ stale' \in BOOLEAN /\ taken' \subseteq Sessions
    BY <1>13 DEF Configure, Mount, Taken, drive, DriveTypeOK, HistoryTypeOK, ManagerTypeOK
  <2>2. target' \in Targets /\ saved' \in Targets
    <3>1. ASSUME Persist(arg[t]) , arg[t] \in Targets PROVE target' \in Targets /\ saved' \in Targets
      BY <3>1 DEF Persist, DriveTypeOK
    <3> QED BY <1>13, <3>1 DEF Configure, DriveTypeOK, Asked
  <2>3. DriveTypeOK' BY <1>13, <2>1, <2>2 DEF Configure, DriveTypeOK
  <2>4. ManagerTypeOK' BY <1>13, LeaveType DEF Configure, ManagerTypeOK, manager
  <2>5. faults' \in 0 .. MaxFault
    BY <1>13, BoundAssumption DEF Configure, Persist, HistoryTypeOK, Fault
  <2>6. HistoryTypeOK' BY <1>13, <2>1, <2>5 DEF Configure, HistoryTypeOK, history, accidents
  <2> QED BY <1>13, <2>3, <2>4, <2>6, Frame DEF Configure
<1>14. ASSUME NEW t \in Threads, Eject(t) PROVE TypeOK'
  <2>1. DriveTypeOK' BY <1>14 DEF Eject, DriveTypeOK
  <2>2. DiskTypeOK' BY <1>14, SyncType DEF Eject
  <2>3. ManagerTypeOK' BY <1>14 DEF Eject, ManagerTypeOK, Goto, Leave, Labels, manager
  <2>4. faults' \in 0 .. MaxFault BY <1>14, BoundAssumption DEF Eject, HistoryTypeOK, Fault
  <2>5. taken' \subseteq Sessions BY <1>14 DEF Eject, Taken, HistoryTypeOK, ManagerTypeOK
  <2>6. HistoryTypeOK' BY <1>14, <2>4, <2>5 DEF Eject, HistoryTypeOK, history, accidents
  <2> QED BY <1>14, <2>1, <2>2, <2>3, <2>6, Frame DEF Eject
<1>15. ASSUME NEW t \in Threads, Ejected(t) PROVE TypeOK'
  <2>1. DriveTypeOK' BY <1>15 DEF Ejected, Persist, DriveTypeOK, Targets, drive
  <2>2. ManagerTypeOK' BY <1>15, LeaveType DEF Ejected, ManagerTypeOK, manager
  <2>3. HistoryTypeOK' BY <1>15, FaultType DEF Ejected, Persist, drive, history
  <2> QED BY <1>15, <2>1, <2>2, <2>3, Frame DEF Ejected
<1>16. CASE Look
  <2>1. DriveTypeOK' /\ taken' \subseteq Sessions BY <1>16, MountType DEF Look
  <2>2. HistoryTypeOK' BY <1>16, <2>1 DEF Look, HistoryTypeOK, history, accidents
  <2> QED BY <1>16, <2>1, <2>2, Frame DEF Look
<1>17. CASE Boot
  <2>1. DriveTypeOK' BY <1>17 DEF Boot, DriveTypeOK, Mount, drive
  <2>2. taken' \subseteq Sessions
    BY <1>17 DEF Boot, Mount, Taken, drive, HistoryTypeOK, ManagerTypeOK
  <2>3. PICK done : Recover(done) BY <1>17 DEF Boot
  <2>4. DiskTypeOK' BY <1>17, <2>3 DEF Boot, Recover, DiskTypeOK, States
  <2>5. ManagerTypeOK' BY <1>17 DEF Boot, ManagerTypeOK, manager, threads
  <2>6. faults' \in 0 .. MaxFault BY <1>17, BoundAssumption DEF Boot, HistoryTypeOK, Fault
  <2>7. HistoryTypeOK' BY <1>17, <2>2, <2>6 DEF Boot, HistoryTypeOK, history, accidents
  <2> QED BY <1>17, <2>1, <2>4, <2>5, <2>7, Frame DEF Boot
<1>18. ASSUME Gone PROVE ManagerTypeOK'
  BY <1>18 DEF Gone, ManagerTypeOK, States, Labels
<1>19. CASE Kill
  <2>1. DriveTypeOK' BY <1>19 DEF Kill, Gone, DriveTypeOK, drive
  <2>2. HistoryTypeOK'
    BY <1>19, BoundAssumption DEF Kill, Gone, HistoryTypeOK, drive, history
  <2> QED BY <1>18, <1>19, <2>1, <2>2, Frame DEF Kill
<1>20. CASE RecorderEnds
  <2>1. RecorderTypeOK' BY <1>20 DEF RecorderEnds, RecorderTypeOK
  <2> QED BY <1>20, <2>1, Frame DEF RecorderEnds, drive
<1>21. CASE Unplug
  <2>1. DriveTypeOK' BY <1>21 DEF Unplug, DriveTypeOK, storage
  <2>2. DiskTypeOK'
    <3>1. CASE ~live BY <1>21, <3>1 DEF Unplug, DiskTypeOK
    <3>2. CASE live
      <4>1. PICK lost \in SUBSET Unsynced("usb") :
              manifest' = [manifest EXCEPT !["usb"] = Loses("usb", lost)]
        BY <1>21, <3>2 DEF Unplug
      <4>2. Loses("usb", lost) \in [Sessions -> States] BY DEF Loses, DiskTypeOK, Volumes
      <4>3. manifest' \in [Volumes -> [Sessions -> States]] BY <4>1, <4>2 DEF DiskTypeOK
      <4>4. durable' \in [Volumes -> [Sessions -> States]]
        BY <1>21, <3>2, <4>3 DEF Unplug, DiskTypeOK, Volumes
      <4>5. data' \in [Sessions -> {"none", "cached", "durable", "torn"}]
        BY <1>21, <3>2 DEF Unplug, DiskTypeOK
      <4> QED BY <1>21, <4>3, <4>4, <4>5 DEF Unplug, DiskTypeOK
    <3> QED BY <3>1, <3>2 DEF DriveTypeOK
  <2>3. RecorderTypeOK' BY <1>21 DEF Unplug, RecorderTypeOK
  <2>4. taken' \subseteq Sessions BY <1>21 DEF Unplug, Taken, HistoryTypeOK, ManagerTypeOK
  <2>5. HistoryTypeOK' BY <1>21, <2>4, BoundAssumption DEF Unplug, HistoryTypeOK, history
  <2> QED BY <1>21, <2>1, <2>2, <2>3, <2>5, Frame DEF Unplug
<1>22. CASE Plug
  <2>1. DriveTypeOK' BY <1>22 DEF Plug, DriveTypeOK, storage
  <2> QED BY <1>22, <2>1, Frame DEF Plug
<1>23. CASE PowerLoss
  <2>1. DriveTypeOK' BY <1>23 DEF PowerLoss, Gone, DriveTypeOK
  <2>2. DiskTypeOK'
    <3>1. PICK lost \in [Volumes -> SUBSET Sessions] :
            manifest' = [v \in Volumes |-> Loses(v, lost[v])]
      BY <1>23 DEF PowerLoss
    <3>2. \A v \in Volumes : Loses(v, lost[v]) \in [Sessions -> States] BY DEF Loses, DiskTypeOK
    <3>3. manifest' \in [Volumes -> [Sessions -> States]] BY <3>1, <3>2
    <3> QED BY <1>23, <3>3 DEF PowerLoss, DiskTypeOK
  <2>3. RecorderTypeOK' BY <1>23 DEF PowerLoss, RecorderTypeOK
  <2>4. HistoryTypeOK'
    BY <1>23, BoundAssumption DEF PowerLoss, Gone, HistoryTypeOK, history
  <2> QED BY <1>18, <1>23, <2>1, <2>2, <2>3, <2>4 DEF PowerLoss
<1>24. CASE UNCHANGED vars BY <1>24, Frame DEF vars, drive
<1> QED
  BY <1>1, <1>2, <1>3, <1>4, <1>5, <1>6, <1>7, <1>8, <1>9, <1>10, <1>11, <1>12, <1>13, <1>14,
     <1>15, <1>16, <1>17, <1>19, <1>20, <1>21, <1>22, <1>23, <1>24 DEF Next, Handle, Environment

(* The first state. *)
LEMMA ControlInit == ASSUME Init PROVE TypeOK /\ Asked /\ Control
<1>1. DriveTypeOK /\ DiskTypeOK /\ RecorderTypeOK
  BY DEF Init, DriveTypeOK, DiskTypeOK, RecorderTypeOK, Targets, States
<1>2. ManagerTypeOK /\ HistoryTypeOK
  BY BoundAssumption DEF Init, ManagerTypeOK, HistoryTypeOK, Targets, Labels, States
<1>3. Asked BY DEF Init, Asked
<1>4. Control BY DEF Init, Control, Locked, Down, Running, Stage, Holding
<1> QED BY <1>1, <1>2, <1>3, <1>4 DEF TypeOK

(* Every variable keeps its type; recorders have files on volumes only,    *)
(* never below a drive that is gone.                                       *)
THEOREM TypeCorrect == Spec => []TypeOK
<1>1. TypeOK /\ Asked /\ Control /\ [Next]_vars => (TypeOK /\ Asked /\ Control)'
  BY TypeStep, AskedStep, ControlStep
<1> QED BY ControlInit, <1>1, PTL DEF Spec

-----------------------------------------------------------------------------
(* What one step may do to the capture, the recorders and the manifests.   *)

Writing == {"announce", "publish", "note", "finalize", "complete"}

(* While a thread has the lock, nobody else touches the capture. *)
LEMMA HolderAlone ==
  ASSUME NEW t \in Threads, TypeOK, Control, pc[t] \in Holding, [Next]_vars
  PROVE  \/ Handle(t)
         \/ Gone
         \/ pc'[t] = pc[t] /\ UNCHANGED <<up, clock, active, astate, root, processes, spawned, used>>
<1>1. clock = t /\ t # None BY NoneAssumption DEF Control, Locked
<1>2. pc \in [Threads -> Labels] BY DEF TypeOK, ManagerTypeOK
<1>3. ASSUME NEW u \in Threads, Call(u)
      PROVE pc'[t] = pc[t] /\ UNCHANGED <<up, clock, active, astate, root, processes, spawned, used>>
  <2>1. u # t BY <1>3 DEF Call, Request, Holding
  <2> QED BY <1>2, <1>3, <2>1 DEF Call, Request, Goto, manager, history
<1>4. ASSUME NEW u \in Threads \ {t}, Handle(u)
      PROVE pc'[t] = pc[t] /\ UNCHANGED <<up, clock, active, astate, root, processes, spawned, used>>
  <2>1. pc[u] \notin Holding BY <1>1 DEF Control, Locked
  <2>2. Configure(u) \/ Eject(u) \/ Ejected(u)
    <3>1. ~(\/ CaptureRoot(u) \/ MakeDir(u) \/ Announce(u) \/ Spawn(u) \/ SpawnFails(u))
      BY <2>1 DEF CaptureRoot, MakeDir, Announce, Spawn, SpawnFails, Holding
    <3>2. ~(\/ Ready(u) \/ Publish(u) \/ Abort(u) \/ Note(u) \/ Finalize(u) \/ Halt(u))
      BY <2>1 DEF Ready, Publish, Abort, Note, Finalize, Halt, Holding
    <3>3. ~(\/ Validate(u) \/ Complete(u) \/ Completed(u))
      BY <2>1 DEF Validate, Complete, Completed, Holding
    <3>4. ~(Start(u) \/ Stop(u) \/ Check(u)) BY <1>1 DEF Start, Stop, Check
    <3> QED BY <1>4, <3>1, <3>2, <3>3, <3>4 DEF Handle
  <2>3. UNCHANGED <<up, clock, active, astate, root, processes, spawned, used>>
    BY <2>2 DEF Configure, Eject, Ejected, manager, history
  <2>4. pc'[t] = pc[t] BY <1>2, <1>4, <2>2 DEF Configure, Eject, Ejected, Goto, Leave
  <2> QED BY <2>3, <2>4
<1>5. CASE Look \/ RecorderEnds \/ Unplug \/ Plug \/ UNCHANGED vars
  BY <1>5 DEF Look, RecorderEnds, Unplug, Plug, vars, threads, manager, history
<1>6. CASE Boot BY <1>1, <1>6 DEF Boot, Control, Down
<1>7. CASE Kill \/ PowerLoss BY <1>7 DEF Kill, PowerLoss
<1> QED BY <1>3, <1>4, <1>5, <1>6, <1>7 DEF Next, Environment

(* Recorders start for the capture that is started, and are cut once.      *)
LEMMA RecorderStep ==
  ASSUME TypeOK, Control, [Next]_vars
  PROVE  /\ cut' \subseteq cut \cup alive
         /\ \A s \in Sessions, r \in Recorders :
              <<s, r>> \in alive' =>
                \/ <<s, r>> \in alive
                \/ s = active /\ \E t \in Threads : pc[t] = "spawn"
<1>1. CASE UNCHANGED recorders BY <1>1 DEF recorders
<1>2. ASSUME NEW t \in Threads, Spawn(t)
      PROVE  alive' \subseteq alive \cup {<<active, r>> : r \in Recorders} /\ cut' = cut
                /\ pc[t] = "spawn"
  BY <1>2 DEF Spawn
<1>3. ASSUME NEW t \in Threads, Abort(t) \/ Halt(t)
      PROVE  alive' \subseteq alive /\ cut' = cut
  BY <1>3 DEF Abort, Halt, StopProcesses
<1>4. CASE RecorderEnds \/ Unplug \/ PowerLoss
  BY <1>4 DEF RecorderEnds, Unplug, PowerLoss
<1>5. CASE Look \/ Kill \/ Boot \/ Plug \/ UNCHANGED vars
  BY <1>1, <1>5 DEF Look, Kill, Boot, Plug, vars
<1>6. ASSUME NEW t \in Threads,
             \/ Call(t) \/ Start(t) \/ CaptureRoot(t) \/ MakeDir(t) \/ Announce(t) \/ SpawnFails(t)
             \/ Ready(t) \/ Publish(t) \/ Note(t)
      PROVE  UNCHANGED recorders
  BY <1>6 DEF Call, Request, Start, CaptureRoot, MakeDir, Announce, SpawnFails, Ready, Publish, Note
<1>7. ASSUME NEW t \in Threads,
             \/ Stop(t) \/ Finalize(t) \/ Validate(t) \/ Complete(t) \/ Completed(t)
             \/ Check(t) \/ Configure(t) \/ Eject(t) \/ Ejected(t)
      PROVE  UNCHANGED recorders
  BY <1>7 DEF Stop, Finalize, Validate, Complete, Completed, Check, Configure, Eject, Ejected
<1> QED
  BY <1>1, <1>2, <1>3, <1>4, <1>5, <1>6, <1>7 DEF Next, Handle, Environment

(* Recorders that have ended stay ended, unless the capture is being started. *)
LEMMA StaysWhole ==
  ASSUME TypeOK, Control, [Next]_vars, NEW s \in Sessions, Quiet(s),
         s = active => \A t \in Threads : pc[t] # "spawn"
  PROVE  Quiet(s)' /\ (Whole(s) => Whole(s)')
<1>1. Quiet(s)' BY RecorderStep DEF Quiet
<1>2. Whole(s) => Whole(s)' BY <1>1, RecorderStep DEF Whole, Quiet, Recorders
<1> QED BY <1>1, <1>2

(* A manifest is made once, written by the thread that has the lock,       *)
(* rewritten by the recovery, or falls back to what was synced.            *)
Written(v, s) ==
  /\ s = active /\ v = Here /\ manifest'[v][s] = astate
  /\ \E t \in Threads : pc[t] \in Writing /\ (pc[t] = "complete" => pc'[t] = "sync")

ManifestMoves(v, s) ==
  \/ manifest'[v][s] = manifest[v][s]
  \/ Written(v, s)
  \/ s \notin used /\ s \in used' /\ manifest'[v][s] = "dir"
  \/ ~up /\ manifest[v][s] \in Unfinished /\ manifest'[v][s] = "failed"
  \/ ((v = "usb" /\ live /\ ~live') \/ ~up') /\ manifest'[v][s] = durable[v][s]

(* Every step of the service, the drive or the power does one of these. *)
LEMMA ManifestStep ==
  ASSUME TypeOK, Control, [Next]_vars, NEW v \in Volumes, NEW s \in Sessions
  PROVE  ManifestMoves(v, s) /\ durable'[v][s] \in {durable[v][s], manifest'[v][s]}
<1> DEFINE Goal == ManifestMoves(v, s) /\ durable'[v][s] \in {durable[v][s], manifest'[v][s]}
<1>1. CASE UNCHANGED <<manifest, durable>> BY <1>1 DEF ManifestMoves
<1>2. ASSUME NEW t \in Threads,
             Announce(t) \/ Publish(t) \/ Note(t) \/ Finalize(t) \/ Complete(t)
      PROVE  Goal
  <2>1. pc[t] \in Writing /\ durable' = durable /\ (Write \/ WriteFails)
    BY <1>2 DEF Announce, Publish, Note, Finalize, Complete, Writing
  <2>2. CASE WriteFails BY <1>1, <2>1, <2>2 DEF WriteFails
  <2>3. CASE Write
    <3>1. pc[t] = "complete" => pc'[t] = "sync"
      <4>1. CASE pc[t] = "complete" /\ Goto(t, "sync")
        BY <4>1 DEF Goto, TypeOK, ManagerTypeOK
      <4>2. CASE pc[t] = "complete" /\ astate' = "failed" /\ WriteFails
        <5>1. unsaved' = unsaved \ {active} /\ unsaved' = unsaved \cup {active}
          BY <2>3, <4>2 DEF Write, WriteFails
        <5> QED BY <5>1
      <4> QED BY <1>2, <4>1, <4>2 DEF Announce, Publish, Note, Finalize, Complete
    <3>2. Here \in Volumes BY <2>3 DEF Write, Here, Resolve, Volumes
    <3>3. manifest'[v][s] = manifest[v][s] \/ (s = active /\ v = Here /\ manifest'[v][s] = astate)
      BY <2>3, <3>2 DEF Write, TypeOK, DiskTypeOK
    <3> QED BY <2>1, <3>1, <3>3 DEF ManifestMoves, Written
  <2> QED BY <2>1, <2>2, <2>3
<1>3. ASSUME NEW t \in Threads, MakeDir(t) PROVE Goal
  <2>1. ASSUME NEW n \in Sessions \ used, manifest' = [manifest EXCEPT ![Here][n] = "dir"],
               used' = used \cup {n}
        PROVE  ManifestMoves(v, s)
    BY <2>1 DEF ManifestMoves, TypeOK, DiskTypeOK
  <2>2. UNCHANGED manifest => ManifestMoves(v, s) BY DEF ManifestMoves
  <2> QED BY <1>3, <2>1, <2>2 DEF MakeDir
<1>4. CASE Boot
  <2>1. PICK done \in SUBSET Interrupted : Recover(done) BY <1>4 DEF Boot
  <2>2. <<v, s>> \in done => manifest[v][s] \in Unfinished BY <2>1 DEF Interrupted
  <2>3. manifest'[v][s] = IF <<v, s>> \in done THEN "failed" ELSE manifest[v][s]
    BY <2>1 DEF Recover
  <2> QED BY <1>4, <2>2, <2>3 DEF Boot, ManifestMoves
<1>5. CASE Unplug
  <2>1. CASE live
    <3>1. PICK lost \in SUBSET Unsynced("usb") :
            manifest' = [manifest EXCEPT !["usb"] = Loses("usb", lost)]
      BY <1>5, <2>1 DEF Unplug
    <3>2. durable' = [durable EXCEPT !["usb"] = manifest'["usb"]] BY <1>5, <2>1 DEF Unplug
    <3>3. manifest'[v][s] = manifest[v][s] \/ (v = "usb" /\ manifest'[v][s] = durable[v][s])
      BY <3>1 DEF Loses, TypeOK, DiskTypeOK
    <3>4. durable'[v][s] \in {durable[v][s], manifest'[v][s]}
      BY <3>2 DEF TypeOK, DiskTypeOK
    <3> QED BY <1>5, <2>1, <3>3, <3>4 DEF ManifestMoves, Unplug
  <2>2. CASE ~live BY <1>1, <1>5, <2>2 DEF Unplug
  <2> QED BY <2>1, <2>2 DEF TypeOK, DriveTypeOK
<1>6. CASE PowerLoss
  <2>1. PICK lost \in [Volumes -> SUBSET Sessions] :
          manifest' = [w \in Volumes |-> Loses(w, lost[w])]
    BY <1>6 DEF PowerLoss
  <2>2. manifest'[v][s] \in {manifest[v][s], durable[v][s]} BY <2>1 DEF Loses
  <2> QED BY <1>6, <2>2 DEF PowerLoss, Gone, ManifestMoves
<1>7. ASSUME Sync, UNCHANGED manifest PROVE Goal
  BY <1>7 DEF Sync, ManifestMoves
<1>8. ASSUME NEW t \in Threads, Completed(t) \/ Eject(t) PROVE Goal
  BY <1>7, <1>8 DEF Completed, Eject
<1>9. CASE Look \/ Kill \/ RecorderEnds \/ Plug \/ UNCHANGED vars
  BY <1>1, <1>9 DEF Look, Kill, RecorderEnds, Plug, vars, disk
<1>10. ASSUME NEW t \in Threads,
             \/ Call(t) \/ Start(t) \/ CaptureRoot(t) \/ Spawn(t) \/ SpawnFails(t) \/ Ready(t) \/ Abort(t)
       PROVE  UNCHANGED <<manifest, durable>>
  BY <1>10 DEF Call, Request, Start, CaptureRoot, Spawn, SpawnFails, Ready, Abort, disk
<1>11. ASSUME NEW t \in Threads,
             \/ Stop(t) \/ Halt(t) \/ Validate(t) \/ Check(t) \/ Configure(t) \/ Ejected(t)
       PROVE  UNCHANGED <<manifest, durable>>
  BY <1>11 DEF Stop, Halt, Validate, Check, Configure, Ejected, disk
<1> QED
  BY <1>1, <1>2, <1>3, <1>4, <1>5, <1>6, <1>8, <1>9, <1>10, <1>11 DEF Next, Handle, Environment

-----------------------------------------------------------------------------
(* Sessions begin with their directory, and end once.                      *)

(* Sessions that are given away, answered or marked as taken have begun. *)
LEMMA BegunStep ==
  ASSUME TypeOK, Control, [Next]_vars
  PROVE  /\ \/ used' = used
            \/ /\ active' \in Sessions \ used /\ used' = used \cup {active'}
               /\ \E t \in Threads : MakeDir(t)
         /\ \/ acked' = acked
            \/ active \in used /\ acked' = acked \cup {active} /\ \E t \in Threads : Completed(t)
         /\ taken \subseteq taken'
         /\ taken' \subseteq taken \cup (used' \cap {active, active'})
<1> DEFINE More == taken \subseteq taken' /\ taken' \subseteq taken \cup (used' \cap {active, active'})
<1>1. ASSUME UNCHANGED used, Taken PROVE More BY <1>1 DEF Taken, Control
<1>2. ASSUME UNCHANGED taken PROVE More BY <1>2
<1>3. ASSUME NEW t \in Threads, MakeDir(t)
      PROVE  /\ used' = used \/ (active' \in Sessions \ used /\ used' = used \cup {active'})
             /\ acked' = acked /\ More
  <2>1. CASE used' = used /\ taken' = taken BY <1>2, <1>3, <2>1 DEF MakeDir
  <2>2. ASSUME NEW s \in Sessions \ used, used' = used \cup {s}, active' = s,
               taken' \in {taken, taken \cup {s}}
        PROVE  used' = used \cup {active'} /\ More
    BY <2>2
  <2> QED BY <1>3, <2>1, <2>2 DEF MakeDir
<1>4. ASSUME NEW t \in Threads, Completed(t)
      PROVE  active \in used /\ used' = used /\ acked' = acked \cup {active} /\ More
  BY <1>2, <1>4 DEF Completed, drive, Control, Stage, Holding
<1>5. ASSUME NEW t \in Threads, CaptureRoot(t) \/ Configure(t) \/ Eject(t)
      PROVE  UNCHANGED <<used, acked>> /\ More
  BY <1>1, <1>2, <1>5 DEF CaptureRoot, Configure, Eject, Mount, drive, history
<1>6. CASE Look \/ Unplug \/ Boot
  BY <1>1, <1>2, <1>6 DEF Look, Unplug, Boot, Mount, drive, history
<1>7. CASE Kill \/ RecorderEnds \/ Plug \/ PowerLoss \/ UNCHANGED vars
  BY <1>2, <1>7 DEF Kill, RecorderEnds, Plug, PowerLoss, Gone, vars, drive, history
<1>8. ASSUME NEW t \in Threads,
             Call(t) \/ Start(t) \/ Announce(t) \/ Spawn(t) \/ SpawnFails(t) \/ Ready(t) \/ Publish(t)
      PROVE  UNCHANGED <<used, acked, taken>>
  BY <1>8 DEF Call, Request, Start, Announce, Spawn, SpawnFails, Ready, Publish, drive, history
<1>9. ASSUME NEW t \in Threads,
             \/ Abort(t) \/ Note(t) \/ Stop(t) \/ Finalize(t) \/ Halt(t) \/ Validate(t)
             \/ Complete(t) \/ Check(t) \/ Ejected(t)
      PROVE  UNCHANGED <<used, acked, taken>>
  BY <1>9 DEF Abort, Note, Stop, Finalize, Halt, Validate, Complete, Check, Ejected, drive, history
<1> QED
  BY <1>2, <1>3, <1>4, <1>5, <1>6, <1>7, <1>8, <1>9 DEF Next, Handle, Environment

(* Files are opened by the thread that starts the capture, for the capture. *)
(* What is damaged stays damaged.                                          *)
LEMMA FilesStep ==
  ASSUME TypeOK, Control, [Next]_vars, NEW s \in Sessions
  PROVE  \/ /\ s = active /\ \E t \in Threads : Spawn(t)
            /\ where'[s] = where[s] \cup {Here} /\ data'[s] = "cached"
         \/ /\ where'[s] = where[s]
            /\ \/ data'[s] = data[s]
               \/ data[s] = "cached" /\ data'[s] = "durable"
               \/ data[s] = "cached" /\ (Gone \/ (live /\ ~live' /\ "usb" \in where[s]))
<1> DEFINE Kept == where'[s] = where[s] /\ data'[s] = data[s]
           Goal == \/ /\ s = active /\ \E t \in Threads : Spawn(t)
                      /\ where'[s] = where[s] \cup {Here} /\ data'[s] = "cached"
                   \/ /\ where'[s] = where[s]
                      /\ \/ data'[s] = data[s]
                         \/ data[s] = "cached" /\ data'[s] = "durable"
                         \/ data[s] = "cached" /\ (Gone \/ (live /\ ~live' /\ "usb" \in where[s]))
<1>1. ASSUME UNCHANGED <<where, data>> PROVE Kept BY <1>1
<1>2. ASSUME NEW t \in Threads, Spawn(t) PROVE Goal
  BY <1>2 DEF Spawn, TypeOK, DiskTypeOK
<1>3. ASSUME NEW t \in Threads, Completed(t) \/ Eject(t) PROVE Goal
  BY <1>3 DEF Completed, Eject, Sync
<1>4. CASE Unplug BY <1>4 DEF Unplug, TypeOK, DriveTypeOK
<1>5. CASE PowerLoss BY <1>5 DEF PowerLoss
<1>6. CASE Look \/ Kill \/ RecorderEnds \/ Plug \/ Boot \/ UNCHANGED vars
  BY <1>1, <1>6 DEF Look, Kill, RecorderEnds, Plug, Boot, vars, disk
<1>7. ASSUME NEW t \in Threads,
             \/ Call(t) \/ Start(t) \/ CaptureRoot(t) \/ MakeDir(t) \/ Announce(t) \/ SpawnFails(t)
             \/ Ready(t) \/ Publish(t) \/ Abort(t)
      PROVE  Kept
  BY <1>1, <1>7 DEF Call, Request, Start, CaptureRoot, MakeDir, Announce, SpawnFails, Ready, Publish,
     Abort, disk
<1>8. ASSUME NEW t \in Threads,
             \/ Note(t) \/ Stop(t) \/ Finalize(t) \/ Halt(t) \/ Validate(t) \/ Complete(t)
             \/ Check(t) \/ Configure(t) \/ Ejected(t)
      PROVE  Kept
  BY <1>1, <1>8 DEF Note, Stop, Finalize, Halt, Validate, Complete, Check, Configure, Ejected, disk
<1> QED
  BY <1>2, <1>3, <1>4, <1>5, <1>6, <1>7, <1>8 DEF Next, Handle, Environment

(* Nothing happens to a session before it begins. *)
LEMMA FreshStep ==
  ASSUME TypeOK, Control, Fresh, [Next]_vars
  PROVE  Fresh'
<1> SUFFICES ASSUME NEW s \in Sessions \ used'
             PROVE  /\ \A v \in Volumes : manifest'[v][s] = "absent" /\ durable'[v][s] = "absent"
                    /\ \A r \in Recorders : <<s, r>> \notin alive' /\ <<s, r>> \notin cut'
                    /\ s \notin acked' /\ s \notin taken' /\ where'[s] = {}
  BY DEF Fresh
<1>1. s \notin used /\ s # active BY BegunStep, NoneAssumption DEF Control
<1>2. ASSUME NEW v \in Volumes PROVE manifest'[v][s] = "absent" /\ durable'[v][s] = "absent"
  BY <1>1, ManifestStep DEF ManifestMoves, Written, Fresh, Unfinished
<1>3. \A r \in Recorders : <<s, r>> \notin alive' /\ <<s, r>> \notin cut'
  BY <1>1, RecorderStep DEF Fresh
<1>4. s \notin acked' /\ s \notin taken' BY <1>1, BegunStep DEF Fresh
<1>5. where'[s] = {} BY <1>1, FilesStep DEF Fresh
<1> QED BY <1>2, <1>3, <1>4, <1>5

(* A thread moves itself, and gets to the last stages of a capture in order. *)
LEMMA Moves ==
  ASSUME TypeOK, NEW t \in Threads, Call(t) \/ Handle(t)
  PROVE  /\ \A u \in Threads \ {t} : pc'[u] = pc[u]
         /\ pc'[t] = "validate" => Halt(t)
         /\ pc'[t] = "complete" => Validate(t) /\ Accepted(active)
         /\ pc'[t] = "sync" => Complete(t) /\ Write
<1> DEFINE Others == \A u \in Threads \ {t} : pc'[u] = pc[u]
           Early == pc'[t] \notin {"validate", "complete", "sync"}
<1>1. pc \in [Threads -> Labels] BY DEF TypeOK, ManagerTypeOK
<1>2. ASSUME NEW label \in Labels, Goto(t, label) PROVE Others /\ pc'[t] = label
  BY <1>1, <1>2 DEF Goto
<1>3. ASSUME Leave(t) PROVE Others /\ Early BY <1>1, <1>3 DEF Leave
<1>4. ASSUME Call(t) PROVE Others /\ Early
  <2>1. PICK label \in {"start", "stop", "check"} : Goto(t, label) BY <1>4 DEF Call, Request
  <2> QED BY <1>2, <2>1 DEF Labels
<1>5. ASSUME Start(t) \/ CaptureRoot(t) \/ MakeDir(t) \/ Announce(t) PROVE Others /\ Early
  BY <1>2, <1>3, <1>5 DEF Start, CaptureRoot, MakeDir, Announce, Labels
<1>6. ASSUME Spawn(t) PROVE Others /\ Early
  BY <1>1, <1>2, <1>6 DEF Spawn, Labels
<1>7. ASSUME SpawnFails(t) \/ Ready(t) \/ Publish(t) \/ Abort(t) \/ Note(t) PROVE Others /\ Early
  BY <1>2, <1>3, <1>7 DEF SpawnFails, Ready, Publish, Abort, Note, Finish, Labels
<1>8. ASSUME Stop(t) \/ Finalize(t) \/ Completed(t) \/ Configure(t) \/ Ejected(t) PROVE Others /\ Early
  BY <1>2, <1>3, <1>8 DEF Stop, Finalize, Completed, Finish, Configure, Ejected, Labels
<1>9. ASSUME Check(t) \/ Eject(t) PROVE Others /\ Early
  BY <1>2, <1>3, <1>9 DEF Check, Eject, Labels
<1>10. ASSUME Halt(t) PROVE Others /\ pc'[t] = "validate"
  BY <1>2, <1>10 DEF Halt, Labels
<1>11. ASSUME Validate(t)
       PROVE Others /\ ((pc'[t] = "complete" /\ Accepted(active)) \/ pc'[t] = "note")
  BY <1>2, <1>11 DEF Validate, Labels
<1>12. ASSUME Complete(t) PROVE Others /\ ((pc'[t] = "sync" /\ Write) \/ pc'[t] = "note")
  BY <1>2, <1>12 DEF Complete, Labels
<1> QED
  BY <1>4, <1>5, <1>6, <1>7, <1>8, <1>9, <1>10, <1>11, <1>12 DEF Handle

(* Only its own step brings a thread to the last stages. *)
LEMMA Arrives ==
  ASSUME TypeOK, Control, [Next]_vars, NEW t \in Threads,
         pc'[t] \in {"validate", "complete", "sync"}, pc'[t] # pc[t]
  PROVE  Handle(t)
<1>1. ASSUME NEW u \in Threads, Call(u) \/ Handle(u) PROVE u = t /\ Handle(t)
  <2>1. u = t BY <1>1, Moves
  <2>2. ~Call(t)
    <3>1. ASSUME Call(t) PROVE pc'[t] \in {"start", "stop", "check"}
      BY <3>1 DEF Call, Request, Goto, TypeOK, ManagerTypeOK
    <3> QED BY <3>1
  <2> QED BY <1>1, <2>1, <2>2
<1>2. CASE Look \/ RecorderEnds \/ Unplug \/ Plug \/ Boot \/ UNCHANGED vars
  BY <1>2 DEF Look, RecorderEnds, Unplug, Plug, Boot, vars, threads
<1>3. CASE Kill \/ PowerLoss BY <1>3 DEF Kill, PowerLoss, Gone
<1> QED BY <1>1, <1>2, <1>3 DEF Next, Environment

(* A thread that has got there and does not move finds the capture as it was. *)
LEMMA Stays ==
  ASSUME TypeOK, Control, [Next]_vars, NEW t \in Threads,
         pc'[t] \in {"validate", "complete", "sync"}, pc'[t] = pc[t]
  PROVE  /\ UNCHANGED <<up, clock, active, astate, root, processes, spawned, used>>
         /\ clock = t /\ active \in Sessions /\ \A u \in Threads : pc[u] # "spawn"
         /\ \A u \in Threads \ {t} : ~(pc[u] \in Holding)
<1>1. pc[t] \in Holding BY DEF Holding
<1>2. ~Handle(t)
  <2>1. ASSUME Handle(t) PROVE FALSE
    <3>1. Halt(t) \/ Validate(t) \/ Complete(t) BY <2>1, Moves
    <3>2. ASSUME NEW label \in Labels \ {pc[t]} PROVE ~Goto(t, label)
      BY <3>2 DEF Goto, TypeOK, ManagerTypeOK
    <3> QED BY <3>1, <3>2 DEF Halt, Validate, Complete, Labels
  <2> QED BY <2>1
<1>3. ~Gone BY DEF Gone
<1>4. UNCHANGED <<up, clock, active, astate, root, processes, spawned, used>>
  BY <1>1, <1>2, <1>3, HolderAlone
<1>5. clock = t BY <1>1 DEF Control, Locked
<1>6. \A u \in Threads \ {t} : ~(pc[u] \in Holding) BY <1>5 DEF Control, Locked
<1>7. active \in Sessions BY <1>1 DEF Control, Stage, TypeOK, ManagerTypeOK
<1> QED BY <1>4, <1>5, <1>6, <1>7 DEF Holding

(* What stop and validate_capture_videos have established stays true. *)
LEMMA HaltedStep ==
  ASSUME TypeOK, Control, Halted, [Next]_vars
  PROVE  Halted'
<1>1. SUFFICES ASSUME NEW t \in Threads, pc'[t] \in {"validate", "complete", "sync"}
               PROVE  /\ pc'[t] = "validate" => Quiet(active)'
                      /\ pc'[t] \in {"complete", "sync"} => Whole(active)'
  BY DEF Halted
<1>2. CASE pc'[t] = pc[t]
  <2>1. active \in Sessions /\ active' = active /\ \A u \in Threads : pc[u] # "spawn"
    BY <1>1, <1>2, Stays
  <2>2. Quiet(active) /\ (pc[t] \in {"complete", "sync"} => Whole(active))
    BY <1>1, <1>2 DEF Halted, Whole
  <2>3. PICK s \in Sessions : s = active BY <2>1
  <2>4. Quiet(s)' /\ (Whole(s) => Whole(s)') BY <2>1, <2>2, <2>3, StaysWhole
  <2>5. Quiet(active)' <=> Quiet(s)' BY <2>1, <2>3 DEF Quiet
  <2>6. Whole(active)' <=> Whole(s)' BY <2>1, <2>3 DEF Whole, Quiet
  <2> QED BY <1>2, <2>2, <2>3, <2>4, <2>5, <2>6
<1>3. CASE pc'[t] # pc[t]
  <2>1. Handle(t) BY <1>1, <1>3, Arrives
  <2>2. CASE pc'[t] = "validate"
    <3>1. Halt(t) BY <2>1, <2>2, Moves
    <3>2. processes = Recorders BY <3>1 DEF Halt, Control, Stage, Holding
    <3> QED BY <2>2, <3>1, <3>2 DEF Halt, StopProcesses, Quiet
  <2>3. CASE pc'[t] = "complete"
    <3>1. Validate(t) /\ Accepted(active) BY <2>1, <2>3, Moves
    <3>2. Quiet(active) BY <3>1 DEF Validate, Halted
    <3> QED BY <2>3, <3>1, <3>2 DEF Validate, Accepted, Whole, Quiet, recorders
  <2>4. CASE pc'[t] = "sync"
    <3>1. Complete(t) BY <2>1, <2>4, Moves
    <3>2. Whole(active) BY <3>1 DEF Complete, Halted
    <3> QED BY <2>4, <3>1, <3>2, Moves, <2>1 DEF Complete, Whole, Quiet, recorders
  <2> QED BY <1>1, <2>2, <2>3, <2>4
<1> QED BY <1>2, <1>3

(* The capture ends, or one begins whose directory has just been made. *)
LEMMA ActiveStep ==
  ASSUME TypeOK, Control, [Next]_vars
  PROVE  \/ active' \in {active, None}
         \/ active = None /\ active' \in Sessions \ used /\ \E t \in Threads : MakeDir(t)
<1>1. ASSUME NEW t \in Threads, MakeDir(t)
      PROVE  active = None /\ active' \in {active} \cup (Sessions \ used)
  BY <1>1 DEF MakeDir, Control, Stage, Holding
<1>2. ASSUME NEW t \in Threads,
             \/ Call(t) \/ Start(t) \/ CaptureRoot(t) \/ Announce(t) \/ Spawn(t) \/ SpawnFails(t)
             \/ Ready(t) \/ Publish(t) \/ Abort(t)
      PROVE  active' = active
  BY <1>2 DEF Call, Request, Start, CaptureRoot, Announce, Spawn, SpawnFails, Ready, Publish, Abort,
     manager
<1>3. ASSUME NEW t \in Threads,
             \/ Note(t) \/ Stop(t) \/ Finalize(t) \/ Halt(t) \/ Validate(t) \/ Complete(t)
             \/ Completed(t)
      PROVE  active' \in {active, None}
  BY <1>3 DEF Note, Stop, Finalize, Halt, Validate, Complete, Completed, Finish, manager
<1>4. ASSUME NEW t \in Threads, Check(t) \/ Configure(t) \/ Eject(t) \/ Ejected(t)
      PROVE  active' = active
  BY <1>4 DEF Check, Configure, Eject, Ejected, manager
<1>5. CASE Look \/ Environment \/ UNCHANGED vars
  BY <1>5 DEF Look, Environment, RecorderEnds, Unplug, Plug, Boot, Kill, PowerLoss, Gone, vars, manager
<1> QED BY <1>1, <1>2, <1>3, <1>4, <1>5 DEF Next, Handle

(* Final is kept by every step. *)
LEMMA FinalStep ==
  ASSUME TypeOK, Control, Fresh, Halted, Final, [Next]_vars
  PROVE  Final'
<1> SUFFICES ASSUME NEW s \in Sessions, NEW v \in Volumes
             PROVE  /\ durable'[v][s] = "complete" => manifest'[v][s] = "complete"
                    /\ manifest'[v][s] = "complete" => Whole(s)'
                    /\ manifest'[v][s] = "complete" /\ active' = s => \E t \in Threads : pc'[t] = "sync"
  BY DEF Final
<1>1. ManifestMoves(v, s) /\ durable'[v][s] \in {durable[v][s], manifest'[v][s]}
  BY ManifestStep
<1>2. CASE manifest[v][s] = "complete"
  <2>1. s \in used /\ Whole(s) BY <1>2 DEF Fresh, Final
  <2>2. s = active => \E t \in Threads : pc[t] = "sync" /\ clock = t
    BY <1>2 DEF Final, Control, Locked, Holding
  <2>3. s = active => \A u \in Threads : pc[u] # "spawn" /\ pc[u] \notin Writing
    BY <2>2 DEF Control, Locked, Holding, Writing
  <2>4. Whole(s)' BY <2>1, <2>3, StaysWhole DEF Whole
  <2>5. durable[v][s] = "complete" \/ durable'[v][s] = manifest'[v][s] \/ durable'[v][s] # "complete"
    BY <1>1
  <2>6. manifest'[v][s] \in {"complete", durable[v][s]}
    BY <1>1, <1>2, <2>1, <2>3 DEF ManifestMoves, Written, Unfinished
  <2>7. active' = s => \E t \in Threads : pc'[t] = "sync"
    <3>1. CASE active = s
      <4>1. PICK t \in Threads : pc[t] = "sync" BY <2>2, <3>1
      <4>2. Handle(t) => Completed(t)
        BY <4>1 DEF Handle, Start, CaptureRoot, MakeDir, Announce, Spawn, SpawnFails, Ready, Publish,
           Abort, Note, Stop, Finalize, Halt, Validate, Complete, Check, Configure, Eject, Ejected
      <4>3. Handle(t) \/ Gone => active' = None BY <4>2 DEF Completed, Finish, Gone
      <4>4. pc[t] \in Holding BY <4>1 DEF Holding
      <4> QED BY <4>1, <4>3, <4>4, HolderAlone, NoneAssumption
    <3>2. CASE active # s
      <4>1. active' \in {active, None} \cup (Sessions \ used)
        BY <3>2, ActiveStep
      <4> QED BY <2>1, <3>2, <4>1, NoneAssumption DEF TypeOK, HistoryTypeOK
    <3> QED BY <3>1, <3>2
  <2> QED BY <1>1, <2>4, <2>6, <2>7
<1>3. CASE manifest[v][s] # "complete"
  <2>1. durable[v][s] # "complete" BY <1>3 DEF Final
  <2>2. durable'[v][s] = "complete" => manifest'[v][s] = "complete" BY <1>1, <2>1
  <2>3. ASSUME manifest'[v][s] = "complete"
        PROVE  Whole(s)' /\ \E t \in Threads : pc'[t] = "sync"
    <3>1. Written(v, s) BY <1>1, <1>3, <2>1, <2>3 DEF ManifestMoves
    <3>2. s = active /\ astate = "complete" BY <2>3, <3>1 DEF Written
    <3>3. PICK t \in Threads : pc[t] \in Writing /\ (pc[t] = "complete" => pc'[t] = "sync")
      BY <3>1 DEF Written
    <3>4. pc[t] = "complete" BY <3>2, <3>3 DEF Control, Stage, Writing
    <3>5. Whole(s) BY <3>2, <3>4 DEF Halted
    <3>6. \A u \in Threads : pc[u] # "spawn" BY <3>4 DEF Control, Locked, Holding
    <3> QED BY <3>3, <3>4, <3>5, <3>6, StaysWhole DEF Whole
  <2> QED BY <2>2, <2>3
<1> QED BY <1>2, <1>3

(* A manifest that says "complete" stands for a capture whose recorders    *)
(* have all ended, and whose cameras ran until they were told to stop      *)
(* (_stop_processes, validate_capture_videos).                             *)
THEOREM CompleteStandsForWhole == Spec => []CompleteIsWhole
<1> DEFINE I == TypeOK /\ Asked /\ Control /\ Fresh /\ Halted /\ Final
<1>1. Init => I
  <2>1. Init => Fresh BY DEF Init, Fresh
  <2>2. Init => Halted BY DEF Init, Halted
  <2>3. Init => Final BY DEF Init, Final
  <2> QED BY <2>1, <2>2, <2>3, ControlInit
<1>2. I /\ [Next]_vars => I'
  BY TypeStep, AskedStep, ControlStep, FreshStep, HaltedStep, FinalStep
<1>3. I => CompleteIsWhole BY DEF Final, Whole, CompleteIsWhole
<1> QED BY <1>1, <1>2, <1>3, PTL DEF Spec

-----------------------------------------------------------------------------
(* What an idle service leaves on the internal storage.                    *)

(* The volume of a capture is chosen before the capture exists. *)
LEMMA RootStep ==
  ASSUME TypeOK, Control, [Next]_vars
  PROVE  root' = root \/ (active = None /\ active' = None)
<1>1. ASSUME NEW t \in Threads, CaptureRoot(t) PROVE active = None /\ active' = None
  BY <1>1 DEF CaptureRoot, Control, Stage, Holding
<1>2. ASSUME NEW t \in Threads,
             \/ Call(t) \/ Start(t) \/ MakeDir(t) \/ Announce(t) \/ Spawn(t) \/ SpawnFails(t)
             \/ Ready(t) \/ Publish(t) \/ Abort(t)
      PROVE  root' = root
  BY <1>2 DEF Call, Request, Start, MakeDir, Announce, Spawn, SpawnFails, Ready, Publish, Abort,
     manager
<1>3. ASSUME NEW t \in Threads,
             \/ Note(t) \/ Stop(t) \/ Finalize(t) \/ Halt(t) \/ Validate(t) \/ Complete(t)
             \/ Completed(t)
      PROVE  root' = root
  BY <1>3 DEF Note, Stop, Finalize, Halt, Validate, Complete, Completed, manager
<1>4. ASSUME NEW t \in Threads, Check(t) \/ Configure(t) \/ Eject(t) \/ Ejected(t)
      PROVE  root' = root
  BY <1>4 DEF Check, Configure, Eject, Ejected, manager
<1>5. CASE Look \/ Environment \/ UNCHANGED vars
  BY <1>5 DEF Look, Environment, RecorderEnds, Unplug, Plug, Boot, Kill, PowerLoss, Gone, vars, manager
<1> QED BY <1>1, <1>2, <1>3, <1>4, <1>5 DEF Next, Handle

(* A capture that ends is written down as failed, or was as complete. *)
LEMMA EndStep ==
  ASSUME TypeOK, Control, [Next]_vars, active # None, active' # active
  PROVE  /\ active' = None
         /\ \/ Gone
            \/ \E t \in Threads : Completed(t)
            \/ \E t \in Threads : Note(t)
<1>1. active' = None BY ActiveStep
<1>2. ASSUME NEW t \in Threads,
             \/ Call(t) \/ Start(t) \/ CaptureRoot(t) \/ MakeDir(t) \/ Announce(t) \/ Spawn(t)
             \/ SpawnFails(t) \/ Ready(t) \/ Publish(t) \/ Abort(t)
      PROVE  FALSE
  <2>1. ~MakeDir(t) BY DEF MakeDir, Control, Stage, Holding
  <2> QED BY <1>2, <2>1
    DEF Call, Request, Start, CaptureRoot, Announce, Spawn, SpawnFails, Ready, Publish, Abort, manager
<1>3. ASSUME NEW t \in Threads,
             \/ Stop(t) \/ Finalize(t) \/ Halt(t) \/ Validate(t) \/ Complete(t)
             \/ Check(t) \/ Configure(t) \/ Eject(t) \/ Ejected(t)
      PROVE  FALSE
  BY <1>3 DEF Stop, Finalize, Halt, Validate, Complete, Check, Configure, Eject, Ejected, manager
<1>4. CASE Look \/ RecorderEnds \/ Unplug \/ Plug \/ Boot \/ UNCHANGED vars
  BY <1>4 DEF Look, RecorderEnds, Unplug, Plug, Boot, vars, manager
<1>5. CASE Kill \/ PowerLoss BY <1>1, <1>5 DEF Kill, PowerLoss
<1> QED BY <1>1, <1>2, <1>3, <1>4, <1>5 DEF Next, Handle, Environment

(* unsaved follows the capture that runs. *)
LEMMA UnsavedStep ==
  ASSUME [Next]_vars
  PROVE  unsaved \subseteq unsaved' \cup {active}
<1>1. ASSUME Write \/ WriteFails PROVE unsaved \subseteq unsaved' \cup {active}
  BY <1>1 DEF Write, WriteFails
<1>2. ASSUME NEW t \in Threads,
             Announce(t) \/ Publish(t) \/ Note(t) \/ Finalize(t) \/ Complete(t)
      PROVE  Write \/ WriteFails
  BY <1>2 DEF Announce, Publish, Note, Finalize, Complete
<1>3. ASSUME NEW t \in Threads,
             \/ Call(t) \/ Start(t) \/ CaptureRoot(t) \/ MakeDir(t) \/ Spawn(t) \/ SpawnFails(t)
             \/ Ready(t) \/ Abort(t)
      PROVE  unsaved' = unsaved
  BY <1>3 DEF Call, Request, Start, CaptureRoot, MakeDir, Spawn, SpawnFails, Ready, Abort, history
<1>4. ASSUME NEW t \in Threads,
             \/ Stop(t) \/ Halt(t) \/ Validate(t) \/ Completed(t) \/ Check(t) \/ Configure(t)
             \/ Eject(t) \/ Ejected(t)
      PROVE  unsaved' = unsaved
  BY <1>4 DEF Stop, Halt, Validate, Completed, Check, Configure, Eject, Ejected, history
<1>5. CASE Look \/ Environment \/ UNCHANGED vars
  BY <1>5 DEF Look, Environment, RecorderEnds, Unplug, Plug, Boot, Kill, PowerLoss, Gone, vars, history
<1> QED BY <1>1, <1>2, <1>3, <1>4, <1>5 DEF Next, Handle

(* Only a start of the service makes it come up. *)
LEMMA Comes ==
  ASSUME [Next]_vars, ~up, up'
  PROVE  Boot
<1>1. ASSUME NEW t \in Threads,
             \/ Call(t) \/ Start(t) \/ CaptureRoot(t) \/ MakeDir(t) \/ Announce(t) \/ Spawn(t)
             \/ SpawnFails(t) \/ Ready(t) \/ Publish(t) \/ Abort(t)
      PROVE  FALSE
  BY <1>1 DEF Call, Request, Start, CaptureRoot, MakeDir, Announce, Spawn, SpawnFails, Ready, Publish, Abort
<1>2. ASSUME NEW t \in Threads,
             \/ Note(t) \/ Stop(t) \/ Finalize(t) \/ Halt(t) \/ Validate(t) \/ Complete(t)
             \/ Completed(t) \/ Check(t) \/ Configure(t) \/ Eject(t) \/ Ejected(t)
      PROVE  FALSE
  BY <1>2 DEF Note, Stop, Finalize, Halt, Validate, Complete, Completed, Check, Configure, Eject, Ejected
<1>3. CASE Look \/ RecorderEnds \/ Unplug \/ Plug \/ Kill \/ PowerLoss \/ UNCHANGED vars
  BY <1>3 DEF Look, RecorderEnds, Unplug, Plug, Kill, PowerLoss, Gone, vars
<1> QED BY <1>1, <1>2, <1>3 DEF Next, Handle, Environment

(* Settled is kept by every step. *)
LEMMA SettledStep ==
  ASSUME TypeOK, Asked, Control, Fresh, Settled, [Next]_vars
  PROVE  Settled'
<1>0. TypeOK' /\ Control' BY TypeStep, ControlStep
<1>1. ASSUME up', NEW s \in Sessions \ unsaved', s # active'
      PROVE  manifest'["internal"][s] \notin Unfinished
  <2>1. ManifestMoves("internal", s) BY ManifestStep DEF Volumes
  <2>2. CASE ~up
    <3>1. Boot BY <1>1, <2>2, Comes
    <3>2. Recover(Interrupted) BY <1>1, <2>2, <3>1 DEF Boot
    <3> QED BY <3>2 DEF Recover, Interrupted, Reached, Volumes, Targets, Unfinished
  <2>3. CASE up /\ s # active
    <3>1. s \notin unsaved BY <1>1, <2>3, UnsavedStep
    <3>2. manifest["internal"][s] \notin Unfinished BY <2>3, <3>1 DEF Settled
    <3> QED BY <1>1, <2>1, <2>3, <3>2 DEF ManifestMoves, Written, Unfinished
  <2>4. CASE up /\ s = active
    <3>1. active # None /\ active' # active BY <1>1, <2>4, NoneAssumption
    <3>2. ~Gone BY <1>1 DEF Gone
    <3>3. ASSUME NEW t \in Threads, Completed(t) PROVE manifest'["internal"][s] \notin Unfinished
      BY <2>4, <3>1, <3>3 DEF Completed, Settled, Unfinished
    <3>4. ASSUME NEW t \in Threads, Note(t) PROVE manifest'["internal"][s] \notin Unfinished
      <4>1. Write /\ astate = "failed" BY <1>1, <2>4, <3>4 DEF Note, WriteFails, Control, Stage
      <4>2. CASE root = "internal"
        BY <2>4, <4>1, <4>2 DEF Write, Here, Resolve, TypeOK, DiskTypeOK, Volumes, Unfinished
      <4>3. CASE root # "internal"
        <5>1. Here # "internal" BY <4>3 DEF Here, Resolve
        <5>2. manifest["internal"][s] = "absent" BY <2>4, <3>1, <4>3 DEF Settled
        <5> QED BY <4>1, <5>1, <5>2 DEF Write, TypeOK, DiskTypeOK, Volumes, Unfinished
      <4> QED BY <4>2, <4>3
    <3> QED BY <3>1, <3>2, <3>3, <3>4, EndStep
  <2> QED BY <2>2, <2>3, <2>4
<1>2. ASSUME active' # None, root' # "internal"
      PROVE  manifest'["internal"][active'] = "absent"
  <2>1. root' = root BY <1>2, RootStep
  <2>2. Here # "internal" BY <1>2, <2>1 DEF Here, Resolve
  <2>3. up' BY <1>0, <1>2 DEF Control, Down
  <2>4. CASE active' = active
    <3>1. manifest["internal"][active] = "absent" /\ active \in Sessions /\ active \in used
      BY <1>2, <2>1, <2>4 DEF Settled, TypeOK, ManagerTypeOK, Control
    <3>2. ManifestMoves("internal", active) BY <3>1, ManifestStep DEF Volumes
    <3> QED BY <2>2, <2>3, <2>4, <3>1, <3>2 DEF ManifestMoves, Written, Unfinished
  <2>5. CASE active' # active
    <3>1. PICK t \in Threads : MakeDir(t) BY <1>2, <2>5, ActiveStep
    <3>2. active' \in Sessions \ used BY <1>2, <2>5, ActiveStep
    <3>3. manifest["internal"][active'] = "absent" BY <3>2 DEF Fresh, Volumes
    <3>4. manifest' = [manifest EXCEPT ![Here][active'] = "dir"] \/ manifest' = manifest
      BY <3>1 DEF MakeDir
    <3> QED BY <2>2, <3>2, <3>3, <3>4 DEF TypeOK, DiskTypeOK, Volumes
  <2> QED BY <2>4, <2>5
<1>3. ASSUME root' = "internal", NEW t \in Threads, pc'[t] = "sync"
      PROVE  manifest'["internal"][active'] = "complete"
  <2>1. CASE pc'[t] = pc[t]
    <3>1. /\ UNCHANGED <<up, active, root>> /\ active \in Sessions
          /\ \A u \in Threads : pc[u] \notin Writing
      <4>1. \A u \in Threads \ {t} : pc[u] \notin Holding BY <1>3, <2>1, Stays
      <4> QED BY <1>3, <2>1, <4>1, Stays DEF Writing, Holding
    <3>2. manifest["internal"][active] = "complete" /\ active \in used /\ up'
      BY <1>0, <1>3, <2>1, <3>1, NoneAssumption DEF Settled, Control, Down
    <3>3. ManifestMoves("internal", active) BY <3>1, ManifestStep DEF Volumes
    <3> QED BY <3>1, <3>2, <3>3 DEF ManifestMoves, Written, Unfinished
  <2>2. CASE pc'[t] # pc[t]
    <3>1. Complete(t) /\ Write BY <1>3, <2>2, Arrives, Moves
    <3>2. astate = "complete" /\ active \in Sessions
      BY <3>1 DEF Complete, Control, Stage, Holding, TypeOK, ManagerTypeOK
    <3>3. root' = root /\ active' = active BY <3>1 DEF Complete
    <3> QED BY <1>3, <3>1, <3>2, <3>3 DEF Write, Here, Resolve, TypeOK, DiskTypeOK, Volumes
  <2> QED BY <2>1, <2>2
<1> QED BY <1>1, <1>2, <1>3 DEF Settled

(* While no capture runs, no manifest on the internal storage says that    *)
(* one does, unless its last state could not be written                    *)
(* (_write_active_manifest, _recover_interrupted_sessions).                *)
THEOREM IdleServiceIsSettled == Spec => []IdleIsSettled
<1> DEFINE I == TypeOK /\ Asked /\ Control /\ Fresh /\ Settled
<1>1. Init => I
  <2>1. Init => Fresh BY DEF Init, Fresh
  <2>2. Init => Settled BY DEF Init, Settled, Unfinished, Volumes
  <2> QED BY <2>1, <2>2, ControlInit
<1>2. I /\ [Next]_vars => I'
  BY TypeStep, AskedStep, ControlStep, FreshStep, SettledStep
<1>3. I => IdleIsSettled BY NoneAssumption DEF Settled, IdleIsSettled
<1> QED BY <1>1, <1>2, <1>3, PTL DEF Spec

-----------------------------------------------------------------------------
(* The service implements CaptureLife.                                     *)

(* The drive is mounted or unmounted under a capture that uses it only if  *)
(* that is taken note of.                                                  *)
LEMMA DriveStep ==
  ASSUME TypeOK, Control, [Next]_vars, active # None, root = "usb", live' # live
  PROVE  Gone \/ active \in taken'
<1>1. Taken => active \in taken' BY DEF Taken
<1>2. ASSUME NEW t \in Threads, CaptureRoot(t) \/ Configure(t) \/ Eject(t) PROVE Taken
  BY <1>2 DEF CaptureRoot, Configure, Eject, Mount, drive
<1>3. ASSUME Look \/ Unplug \/ Boot PROVE Taken
  BY <1>3 DEF Look, Unplug, Boot, Mount, drive
<1>4. CASE Kill \/ RecorderEnds \/ Plug \/ PowerLoss \/ UNCHANGED vars
  BY <1>4 DEF Kill, RecorderEnds, Plug, PowerLoss, vars, drive
<1>5. ASSUME NEW t \in Threads,
             \/ Call(t) \/ Start(t) \/ MakeDir(t) \/ Announce(t) \/ Spawn(t) \/ SpawnFails(t)
             \/ Ready(t) \/ Publish(t) \/ Abort(t)
      PROVE  live' = live
  BY <1>5 DEF Call, Request, Start, MakeDir, Announce, Spawn, SpawnFails, Ready, Publish, Abort, drive
<1>6. ASSUME NEW t \in Threads,
             \/ Note(t) \/ Stop(t) \/ Finalize(t) \/ Halt(t) \/ Validate(t) \/ Complete(t)
             \/ Completed(t) \/ Check(t) \/ Ejected(t)
      PROVE  live' = live
  BY <1>6 DEF Note, Stop, Finalize, Halt, Validate, Complete, Completed, Check, Ejected, drive
<1> QED BY <1>1, <1>2, <1>3, <1>4, <1>5, <1>6 DEF Next, Handle, Environment

(* Steady is kept by every step. *)
LEMMA SteadyStep ==
  ASSUME TypeOK, Asked, Control, Fresh, Steady, [Next]_vars
  PROVE  Steady'
<1>0. TypeOK' /\ Control' BY TypeStep, ControlStep
<1> SUFFICES ASSUME active' # None, active' \notin taken'
             PROVE  /\ root' = "usb" => live'
                    /\ where'[active'] \subseteq {root'}
                    /\ where'[active'] # {} => data'[active'] \in {"cached", "durable"}
                    /\ \A t \in Threads :
                         /\ pc'[t] \in {"complete", "sync"} => where'[active'] = {root'}
                         /\ pc'[t] = "sync" => manifest'[root'][active'] = "complete"
  BY DEF Steady
<1>1. ~Gone /\ root' = root BY RootStep DEF Gone
<1>2. CASE active' = active
  <2>1. active \in Sessions /\ active \in used BY <1>2 DEF Control, TypeOK, ManagerTypeOK
  <2>2. active # None /\ active \notin taken BY <1>2, BegunStep
  <2>3. /\ root = "usb" => live /\ live'
        /\ where[active] \subseteq {root}
        /\ where[active] # {} => data[active] \in {"cached", "durable"}
    BY <1>1, <1>2, <2>2, DriveStep DEF Steady, TypeOK, DriveTypeOK
  <2>4. Here = root /\ Here \in Volumes
    BY <2>3 DEF Here, Resolve, Volumes, TypeOK, ManagerTypeOK, Targets
  <2>5. where'[active] \subseteq {root} /\ (where'[active] # {} => data'[active] \in {"cached", "durable"})
    <3>1. "usb" \in where[active] => root = "usb" BY <2>3
    <3> QED BY <1>1, <2>1, <2>3, <2>4, <3>1, FilesStep
  <2>6. ASSUME NEW t \in Threads, pc'[t] \in {"complete", "sync"}
        PROVE  /\ where'[active] = {root}
               /\ pc'[t] = "sync" => manifest'[root][active] = "complete"
    <3>1. CASE pc'[t] = pc[t]
      <4>1. ~(\E u \in Threads : Spawn(u)) BY <2>6, <3>1, Stays DEF Spawn
      <4>2. where'[active] = {root} BY <2>1, <2>2, <2>6, <3>1, <4>1, FilesStep DEF Steady
      <4>3. CASE pc'[t] = "sync"
        <5>1. \A u \in Threads \ {t} : pc[u] \notin Holding BY <2>6, <3>1, Stays
        <5>2. \A u \in Threads : pc[u] \notin Writing
          BY <3>1, <4>3, <5>1 DEF Writing, Holding
        <5>3. manifest[root][active] = "complete" BY <2>2, <3>1, <4>3 DEF Steady
        <5>4. ManifestMoves(root, active) BY <2>1, <2>4, ManifestStep
        <5>5. up' BY <1>0, <1>2, <2>2 DEF Control, Down
        <5> QED BY <2>1, <2>3, <4>2, <5>2, <5>3, <5>4, <5>5
             DEF ManifestMoves, Written, Unfinished
      <4> QED BY <4>2, <4>3
    <3>2. CASE pc'[t] # pc[t]
      <4>1. Handle(t) BY <2>6, <3>2, Arrives
      <4>2. CASE pc'[t] = "complete"
        <5>1. Validate(t) /\ Accepted(active) BY <4>1, <4>2, Moves
        <5> QED BY <2>4, <4>2, <5>1 DEF Validate, Accepted, disk
      <4>3. CASE pc'[t] = "sync"
        <5>1. Complete(t) /\ Write BY <4>1, <4>3, Moves
        <5>2. where[active] = {root} /\ astate = "complete"
          BY <2>2, <5>1 DEF Complete, Steady, Control, Stage
        <5>3. manifest'[root][active] = "complete"
          BY <2>1, <2>4, <5>1, <5>2 DEF Write, TypeOK, DiskTypeOK
        <5> QED BY <5>1, <5>2, <5>3 DEF Complete
      <4> QED BY <2>6, <4>2, <4>3
    <3> QED BY <3>1, <3>2
  <2> QED BY <1>1, <1>2, <2>3, <2>5, <2>6
<1>3. CASE active' # active
  <2>1. PICK t \in Threads : MakeDir(t) BY <1>3, ActiveStep
  <2>2. active' \in Sessions \ used BY <1>3, ActiveStep
  <2>3. /\ Here \notin {"gone", "shadow"} /\ live' = live
        /\ where' = where
    BY <1>3, <2>1 DEF MakeDir
  <2>4. root' = "usb" => live' BY <1>1, <2>3 DEF Here, Resolve
  <2>5. where'[active'] = {} BY <2>2, <2>3 DEF Fresh
  <2>6. ASSUME NEW u \in Threads PROVE pc'[u] \notin {"complete", "sync"}
    <3>1. pc'[u] = pc[u] => pc[u] \notin {"complete", "sync"}
      BY <1>3, Stays, <2>6
    <3>2. pc'[u] # pc[u] /\ pc'[u] \in {"complete", "sync"} => Validate(u) \/ Complete(u)
      BY <2>6, Arrives, Moves
    <3>3. Validate(u) \/ Complete(u) => active' = active BY DEF Validate, Complete
    <3> QED BY <1>3, <3>1, <3>2, <3>3
  <2> QED BY <2>4, <2>5, <2>6
<1> QED BY <1>2, <1>3

(* A session that has been answered is not the one that runs. *)
LEMMA AckedOverStep ==
  ASSUME TypeOK, Control, Fresh, AckedOver, [Next]_vars
  PROVE  AckedOver'
<1>1. None \notin acked /\ acked \subseteq used
  BY NoneAssumption DEF Fresh, TypeOK, HistoryTypeOK
<1>2. CASE acked' = acked BY <1>1, <1>2, ActiveStep DEF AckedOver
<1>3. ASSUME acked' = acked \cup {active}, active \in used, NEW t \in Threads, Completed(t)
      PROVE  AckedOver'
  <2>1. active' = None BY <1>3 DEF Completed, Finish
  <2> QED BY <1>1, <1>3, <2>1, NoneAssumption DEF AckedOver, TypeOK, HistoryTypeOK
<1> QED BY <1>2, <1>3, BegunStep

(* What the answer finds: the capture is whole, and what is written stays. *)
LEMMA AnswerIsTrue ==
  ASSUME TypeOK, Control, Halted, Steady, NEW t \in Threads, Completed(t), active \notin taken
  PROVE  /\ active \in Sessions /\ root \in Targets /\ active' = None
         /\ where' = where /\ manifest' = manifest
         /\ where[active] = {root} /\ data'[active] = "durable"
         /\ manifest[root][active] = "complete" /\ durable'[root][active] = "complete"
<1>1. pc[t] = "sync" /\ active # None /\ active \in Sessions
  BY DEF Completed, Control, Stage, Holding, TypeOK, ManagerTypeOK
<1>2. /\ root = "usb" => live
      /\ where[active] = {root} /\ data[active] \in {"cached", "durable"}
      /\ manifest[root][active] = "complete"
  BY <1>1 DEF Steady
<1>3. root \in Targets /\ root \in Volumes /\ Synced(root)
  BY <1>2 DEF TypeOK, ManagerTypeOK, Targets, Volumes, Synced
<1>4. Quiet(active) BY <1>1 DEF Halted, Whole
<1>5. Sync /\ where' = where /\ manifest' = manifest /\ active' = None BY DEF Completed, Finish
<1>6. durable'[root][active] = "complete" BY <1>1, <1>2, <1>3, <1>5 DEF Sync
<1>7. data'[active] = "durable" BY <1>1, <1>2, <1>3, <1>4, <1>5 DEF Sync
<1> QED BY <1>1, <1>2, <1>3, <1>5, <1>6, <1>7

(* What was promised is kept by every step. *)
LEMMA PromisedStep ==
  ASSUME TypeOK, Control, Fresh, Halted, Final, Steady, Promised, AckedOver, [Next]_vars
  PROVE  Promised'
<1> SUFFICES ASSUME NEW s \in acked', s \notin taken'
             PROVE  /\ data'[s] = "durable"
                    /\ \E v \in Targets : where'[s] = {v} /\ durable'[v][s] = "complete"
  BY DEF Promised
<1>1. s \notin taken BY BegunStep
<1>2. CASE s \in acked
  <2>1. s \in Sessions /\ s \in used /\ s # active
    BY <1>2 DEF Fresh, TypeOK, HistoryTypeOK, AckedOver
  <2>2. PICK v \in Targets : where[s] = {v} /\ durable[v][s] = "complete"
    BY <1>1, <1>2 DEF Promised
  <2>3. data[s] = "durable" BY <1>1, <1>2 DEF Promised
  <2>4. where'[s] = where[s] /\ data'[s] = "durable" BY <2>1, <2>3, FilesStep
  <2>5. v \in Volumes BY DEF Targets, Volumes
  <2>6. manifest[v][s] = "complete" BY <2>1, <2>2, <2>5 DEF Final
  <2>7. ManifestMoves(v, s) /\ durable'[v][s] \in {durable[v][s], manifest'[v][s]}
    BY <2>1, <2>5, ManifestStep
  <2>8. durable'[v][s] = "complete"
    BY <2>1, <2>2, <2>6, <2>7 DEF ManifestMoves, Written, Unfinished
  <2> QED BY <2>2, <2>4, <2>8
<1>3. CASE s \notin acked
  <2>1. PICK t \in Threads : Completed(t) BY <1>3, BegunStep
  <2>2. s = active BY <1>3, BegunStep
  <2> QED BY <1>1, <2>1, <2>2, AnswerIsTrue
<1> QED BY <1>2, <1>3

(* The whole invariant holds at first ... *)
LEMMA InvInit == Init => Inv
<1> SUFFICES ASSUME Init PROVE Inv OBVIOUS
<1>1. Fresh BY DEF Init, Fresh
<1>2. Halted /\ Final BY DEF Init, Halted, Final
<1>3. Settled BY DEF Init, Settled, Unfinished, Volumes
<1>4. Steady /\ Promised /\ AckedOver BY DEF Init, Steady, Promised, AckedOver
<1> QED BY ControlInit, <1>1, <1>2, <1>3, <1>4 DEF Inv

(* ... and is kept by every step. *)
LEMMA InvStep == Inv /\ [Next]_vars => Inv'
<1> SUFFICES ASSUME Inv, [Next]_vars PROVE Inv' OBVIOUS
<1> USE DEF Inv
<1>1. TypeOK' /\ Asked' /\ Control' BY TypeStep, AskedStep, ControlStep
<1>2. Fresh' /\ Halted' /\ Final' BY FreshStep, HaltedStep, FinalStep
<1>3. Settled' /\ Steady' BY SettledStep, SteadyStep
<1>4. Promised' /\ AckedOver' BY PromisedStep, AckedOverStep
<1> QED BY <1>1, <1>2, <1>3, <1>4

(* The states of CaptureLife that the states of the service stand for. *)
StatusMap == [s \in Sessions |-> Status(s)]
PromisedMap == acked \ taken

(* A capture that is over does not become complete, and stays so if promised. *)
LEMMA CompleteStays ==
  ASSUME Inv, Inv', [Next]_vars, NEW s \in used, s # active
  PROVE  /\ IsComplete(s)' => IsComplete(s)
         /\ s \in PromisedMap /\ PromisedMap' = PromisedMap => IsComplete(s)'
<1>1. s \in Sessions BY DEF Inv, TypeOK, HistoryTypeOK
<1>2. where'[s] = where[s] /\ (data'[s] \in {"cached", "durable"} => data[s] \in {"cached", "durable"})
  BY <1>1, FilesStep DEF Inv
<1>3. ASSUME NEW v \in Targets, manifest'[v][s] = "complete" PROVE manifest[v][s] = "complete"
  <2>1. v \in Volumes BY DEF Targets, Volumes
  <2>2. ManifestMoves(v, s) BY <1>1, <2>1, ManifestStep DEF Inv
  <2>3. durable[v][s] = "complete" => manifest[v][s] = "complete"
    BY <1>1, <2>1 DEF Inv, Final
  <2> QED BY <1>3, <2>2, <2>3 DEF ManifestMoves, Written
<1>4. IsComplete(s)' => IsComplete(s) BY <1>2, <1>3 DEF IsComplete
<1>5. ASSUME s \in PromisedMap' PROVE IsComplete(s)'
  <2>1. PICK v \in Targets : where'[s] = {v} /\ durable'[v][s] = "complete"
    BY <1>5 DEF PromisedMap, Inv, Promised
  <2>2. data'[s] = "durable" BY <1>5 DEF PromisedMap, Inv, Promised
  <2>3. v \in Volumes BY DEF Targets, Volumes
  <2>4. manifest'[v][s] = "complete" BY <1>1, <2>1, <2>3 DEF Inv, Final
  <2> QED BY <2>1, <2>2, <2>4 DEF IsComplete
<1> QED BY <1>4, <1>5

(* A capture begins when its directory is made. *)
LEMMA MakeDirBegins ==
  ASSUME Inv, Inv', [Next]_vars, NEW t \in Threads, MakeDir(t), used' # used
  PROVE  Life!Begin(active')
<1>1. /\ active' \in Sessions \ used /\ used' = used \cup {active'}
      /\ active = None /\ acked' = acked
      /\ where' = where /\ data' = data
  <2>1. active' \in Sessions \ used /\ used' = used \cup {active'} BY BegunStep DEF Inv
  <2>2. active = None BY DEF MakeDir, Inv, Control, Stage, Holding
  <2> QED BY <2>1, <2>2 DEF MakeDir
<1>2. PICK n \in Sessions : n = active' /\ n \notin used BY <1>1
<1>3. \A v \in Volumes, s \in Sessions \ {n} : manifest'[v][s] = manifest[v][s]
  BY <1>2, NoneAssumption DEF MakeDir, Inv, TypeOK, DiskTypeOK
<1>4. \A s \in Sessions \ {n} : Status(s)' = Status(s)
  <2> SUFFICES ASSUME NEW s \in Sessions \ {n} PROVE Status(s)' = Status(s) OBVIOUS
  <2>1. (s \in used' <=> s \in used) /\ s # active /\ s # active'
    BY <1>1, <1>2, NoneAssumption
  <2>2. IsComplete(s)' <=> IsComplete(s)
    BY <1>1, <1>3 DEF IsComplete, Targets, Volumes
  <2> QED BY <2>1, <2>2 DEF Status
<1>5. Status(n) = "new" /\ Status(n)' = "running" BY <1>1, <1>2 DEF Status
<1>6. \A s \in Sessions : Status(s) # "running" BY <1>1, NoneAssumption DEF Status, IsComplete
<1>7. PromisedMap' = PromisedMap
  <2>1. taken \subseteq taken' /\ taken' \subseteq taken \cup {active, active'}
    BY BegunStep DEF Inv
  <2>2. active \notin acked /\ active' \notin acked BY <1>1 DEF Inv, AckedOver, Fresh
  <2> QED BY <1>1, <2>1, <2>2 DEF PromisedMap
<1> QED BY <1>2, <1>4, <1>5, <1>6, <1>7 DEF Life!Begin, Life!Running, PromisedMap

(* The answer "completed" is a promise, and the capture is complete. *)
LEMMA CompletedAnswers ==
  ASSUME Inv, Inv', [Next]_vars, NEW t \in Threads, Completed(t), active \notin taken
  PROVE  Life!Answer(active)
<1>1. /\ active \in Sessions /\ root \in Targets /\ active' = None
      /\ where' = where /\ manifest' = manifest
      /\ where[active] = {root} /\ data'[active] = "durable"
      /\ manifest[root][active] = "complete"
  BY AnswerIsTrue DEF Inv
<1>2. active \in used /\ used' = used /\ taken' = taken /\ acked' = acked \cup {active}
  BY <1>1, NoneAssumption DEF Completed, drive, Inv, Control
<1>3. PICK n \in Sessions : n = active BY <1>1
<1>4. \A s \in Sessions \ {n} : Status(s)' = Status(s)
  <2> SUFFICES ASSUME NEW s \in Sessions \ {n} PROVE Status(s)' = Status(s) OBVIOUS
  <2>1. (s \in used' <=> s \in used) /\ s # active /\ s # active'
    BY <1>1, <1>2, <1>3, NoneAssumption
  <2>2. data'[s] \in {"cached", "durable"} <=> data[s] \in {"cached", "durable"}
    BY DEF Completed, Sync
  <2>3. IsComplete(s)' <=> IsComplete(s) BY <1>1, <2>2 DEF IsComplete
  <2> QED BY <2>1, <2>3 DEF Status
<1>5. Status(n) = "running" BY <1>2, <1>3 DEF Status
<1>6. Status(n)' = "complete"
  <2>1. IsComplete(n)' BY <1>1, <1>3 DEF IsComplete
  <2> QED BY <1>1, <1>2, <1>3, <2>1, NoneAssumption DEF Status
<1>7. PromisedMap' = PromisedMap \cup {n} BY <1>2, <1>3 DEF PromisedMap
<1> QED BY <1>3, <1>4, <1>5, <1>6, <1>7 DEF Life!Answer, PromisedMap

(* Every other step ends captures, or changes nothing that was promised. *)
LEMMA OthersEnd ==
  ASSUME Inv, Inv', [Next]_vars, used' = used, acked' = acked \/ active \in taken
  PROVE  Life!End
<1>1. PromisedMap' = PromisedMap
  <2>1. taken \subseteq taken' /\ taken' \subseteq taken \cup {active, active'}
    BY BegunStep DEF Inv
  <2>2. active \notin acked /\ active' \notin acked'
    BY DEF Inv, AckedOver
  <2>3. acked' = acked \/ acked' = acked \cup {active} BY BegunStep DEF Inv
  <2>4. active' \notin acked BY <2>2, <2>3
  <2> QED BY <2>1, <2>2, <2>3, <2>4 DEF PromisedMap
<1>2. active' \in {active, None} BY BegunStep, ActiveStep DEF Inv, Control
<1>3. ASSUME NEW s \in Sessions
      PROVE  /\ Status(s)' \in {"new", "running", "complete", "ended"}
             /\ \/ Status(s)' = Status(s)
                \/ Status(s) = "running" /\ Status(s)' \in {"complete", "ended"}
                \/ Status(s) = "complete" /\ s \notin PromisedMap /\ Status(s)' = "ended"
  <2>1. Status(s)' \in {"new", "running", "complete", "ended"} BY DEF Status
  <2>2. CASE s \notin used BY <2>2 DEF Status
  <2>3. CASE s \in used /\ s = active BY <2>1, <2>3 DEF Status
  <2>4. CASE s \in used /\ s # active
    <3>1. active' # s BY <1>2, <2>4, NoneAssumption
    <3>2. Status(s) = IF IsComplete(s) THEN "complete" ELSE "ended" BY <2>4 DEF Status
    <3>3. Status(s)' = IF IsComplete(s)' THEN "complete" ELSE "ended" BY <2>4, <3>1 DEF Status
    <3>4. IsComplete(s)' => IsComplete(s) BY <2>4, CompleteStays
    <3>5. s \in PromisedMap => IsComplete(s)' BY <1>1, <2>4, CompleteStays
    <3> QED BY <3>2, <3>3, <3>4, <3>5
  <2> QED BY <2>2, <2>3, <2>4
<1>4. StatusMap' \in [Sessions -> {"new", "running", "complete", "ended"}] BY <1>3 DEF StatusMap
<1> QED BY <1>1, <1>3, <1>4 DEF Life!End, Life!MayBecome, StatusMap, PromisedMap

(* One capture at a time, each ends once, and one that was answered with   *)
(* "completed" is complete and undamaged from then on, whatever happens to *)
(* the service, the drive and the power afterwards, unless the drive was   *)
(* ejected, pulled out or mounted during the capture (start, stop,         *)
(* os.sync, _recover_interrupted_sessions).                                *)
THEOREM ImplementsCaptureLife == Spec => LifeSpec
<1>1. Init => Life!Init
  BY DEF Init, Life!Init, Status
<1>2. Inv /\ Inv' /\ [Next]_vars => [Life!Next]_(Life!vars)
  <2> SUFFICES ASSUME Inv, Inv', [Next]_vars PROVE Life!Next OBVIOUS
  <2>1. CASE used' # used
    <3>1. PICK t \in Threads : MakeDir(t) BY <2>1, BegunStep DEF Inv
    <3>2. active' \in Sessions BY <2>1, BegunStep DEF Inv
    <3> QED BY <2>1, <3>1, <3>2, MakeDirBegins DEF Life!Next
  <2>2. CASE used' = used /\ acked' # acked /\ active \notin taken
    <3>1. PICK t \in Threads : Completed(t) BY <2>2, BegunStep DEF Inv
    <3>2. active \in Sessions BY <2>2, BegunStep DEF Inv, TypeOK, HistoryTypeOK
    <3> QED BY <2>2, <3>1, <3>2, CompletedAnswers DEF Life!Next
  <2>3. CASE used' = used /\ (acked' = acked \/ active \in taken)
    BY <2>3, OthersEnd DEF Life!Next
  <2> QED BY <2>1, <2>2, <2>3
<1>3. Spec => []Inv BY InvInit, InvStep, PTL DEF Spec
<1> QED BY <1>1, <1>2, <1>3, PTL DEF Spec, LifeSpec, Life!Spec
=============================================================================
