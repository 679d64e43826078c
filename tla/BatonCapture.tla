---------------------------- MODULE BatonCapture ----------------------------
(***************************************************************************)
(* device/syncap_service.py: CaptureManager, StorageManager and the        *)
(* request handlers that use them.                                         *)
(*                                                                         *)
(* Each request is a thread.  A capture starts and stops under the lock of *)
(* the capture manager; mounting, ejecting and choosing the target volume  *)
(* happen under the lock of the storage manager; a handler that needs both *)
(* tests for a running capture first and takes the other lock later.       *)
(*                                                                         *)
(* A path below the mount point of the drive means the drive while it is   *)
(* mounted, nothing (every access fails) while a drive that was pulled out *)
(* is still mounted there, and the root file system otherwise: "shadow".   *)
(***************************************************************************)
EXTENDS Integers, FiniteSets

CONSTANTS
  Threads, Sessions, Cameras, Imu, None,
  MaxRequests,  \* bound on requests
  MaxKill,      \* bound on kills of the service
  MaxFault,     \* bound on file operations and spawns that fail
  MaxUnplug,    \* bound on drives pulled out
  MaxPower      \* bound on power losses

ASSUME RecorderAssumption == Imu \notin Cameras
ASSUME NoneAssumption == None \notin Threads \cup Sessions
ASSUME BoundAssumption ==
  /\ MaxRequests \in Nat /\ MaxKill \in Nat /\ MaxFault \in Nat
  /\ MaxUnplug \in Nat /\ MaxPower \in Nat

Recorders == Cameras \cup {Imu}
Targets == {"internal", "usb"}
Volumes == {"internal", "usb", "shadow"}
Unfinished == {"starting", "recording", "finalizing"}
States == {"absent", "dir"} \cup Unfinished \cup {"complete", "failed"}

VARIABLES
  (* StorageManager: the target, in memory and in storage.json, its lock,  *)
  (* and the drive: present, mounted, another one still mounted below it.  *)
  (* taken: the sessions during whose capture that changed.                *)
  target, saved, slock, plugged, live, stale, taken,
  (* Per volume and session: the state in session.json ("dir": none yet),  *)
  (* and the state that a power loss leaves at worst.  Per session: the    *)
  (* volumes of its recorded files and whether their data is on them.      *)
  manifest, durable, where, data,
  (* Recorder processes, and those that ended before they were told to, by *)
  (* more than validate_capture_videos tolerates.                          *)
  alive, cut,
  (* CaptureManager: lock, active with its state and active_session_path,  *)
  (* processes, and the local list of _spawn_recorders.                    *)
  up, clock, active, astate, root, processes, spawned,
  (* Threads: position and argument of the request.                        *)
  pc, arg,
  (* Session ids given away, sessions whose stop was answered with         *)
  (* "completed", sessions whose last manifest could not be written.       *)
  used, acked, unsaved,
  (* What has happened so far, for the bounds.                             *)
  requests, kills, faults, unplugs, powers

drive == <<plugged, live, stale, taken>>
storage == <<target, saved, slock>>
disk == <<manifest, durable, where, data>>
recorders == <<alive, cut>>
manager == <<clock, active, astate, root, processes, spawned>>
threads == <<pc, arg>>
history == <<used, acked, unsaved>>
accidents == <<kills, unplugs, powers>>
vars == <<drive, storage, disk, recorders, up, manager, threads, history,
          requests, faults, accidents>>

(***************************************************************************)
(* Files and volumes                                                       *)
(***************************************************************************)
Resolve(r) ==
  IF r = "internal" THEN "internal"
  ELSE IF live THEN "usb" ELSE IF stale THEN "gone" ELSE "shadow"

Here == Resolve(root)
Goto(t, label) == pc' = [pc EXCEPT ![t] = label]
Leave(t) == pc' = [pc EXCEPT ![t] = "idle"] /\ arg' = [arg EXCEPT ![t] = None]
Fault == faults < MaxFault /\ faults' = faults + 1
AccessFails == IF Here = "gone" THEN UNCHANGED faults ELSE Fault

(* _write_active_manifest: atomic_json makes the missing directories.      *)
Write ==
  /\ Here # "gone"
  /\ manifest' = [manifest EXCEPT ![Here][active] = astate]
  /\ unsaved' = unsaved \ {active}
  /\ UNCHANGED faults

WriteFails ==
  /\ AccessFails
  /\ unsaved' = unsaved \cup {active}
  /\ UNCHANGED manifest

(* os.sync                                                                 *)
Synced(v) == v # "usb" \/ live
Quiet(s) == \A r \in Recorders : <<s, r>> \notin alive
NoSync == UNCHANGED <<durable, data>>

Sync ==
  /\ durable' = [v \in Volumes |-> IF Synced(v) THEN manifest[v] ELSE durable[v]]
  /\ data' = [s \in Sessions |->
       IF data[s] = "cached" /\ Quiet(s) /\ \A v \in where[s] : Synced(v)
         THEN "durable" ELSE data[s]]

(* The drive cannot be unmounted while a recorder has files open on it, or *)
(* the service has them open for a recorder.                               *)
Pinned ==
  \/ \E p \in alive : "usb" \in where[p[1]]
  \/ active # None /\ "usb" \in where[active] /\ processes \cup spawned # {}

(***************************************************************************)
(* Requests                                                                *)
(***************************************************************************)
Request(t, label, a) ==
  /\ up /\ pc[t] = "idle" /\ requests < MaxRequests
  /\ requests' = requests + 1
  /\ Goto(t, label) /\ arg' = [arg EXCEPT ![t] = a]
  /\ UNCHANGED <<drive, storage, disk, recorders, up, manager, history, faults, accidents>>

Call(t) ==
  \/ Request(t, "start", None)
  \/ \E s \in used : Request(t, "stop", s)
  \/ \E v \in Targets : Request(t, "check", v)
  \/ Request(t, "check", "eject")

(* start: the lock, the test for an active capture, the camera streams.    *)
Start(t) ==
  /\ pc[t] = "start" /\ clock = None
  /\ \/ active = None /\ clock' = t /\ Goto(t, "root") /\ UNCHANGED arg
     \/ Leave(t) /\ UNCHANGED clock
  /\ UNCHANGED <<drive, storage, disk, recorders, up, active, astate, root, processes,
                 spawned, history, requests, faults, accidents>>

(* _usb_info(mount=True): a drive that is not mounted is.                  *)
Taken ==
  taken' = IF active # None /\ root = "usb" /\ live' # live THEN taken \cup {active} ELSE taken

Mount == live' = TRUE /\ Taken /\ UNCHANGED <<plugged, stale>>

(* storage.capture_root, which may refuse for want of space.               *)
CaptureRoot(t) ==
  /\ pc[t] = "root" /\ slock = None
  /\ \/ /\ target = "usb" => plugged
        /\ IF target = "usb" THEN Mount ELSE UNCHANGED drive
        /\ root' = target
        /\ Goto(t, "mkdir") /\ UNCHANGED <<clock, arg>>
     \/ /\ IF target = "usb" /\ plugged THEN Mount \/ UNCHANGED drive ELSE UNCHANGED drive
        /\ clock' = None /\ Leave(t) /\ UNCHANGED root
  /\ UNCHANGED <<storage, disk, recorders, up, active, astate, processes, spawned,
                 history, requests, faults, accidents>>

(* session_path.mkdir, without parents, of a name that does not exist.     *)
HasSessionsDir(v) == v # "shadow" \/ \E s \in Sessions : manifest["shadow"][s] # "absent"

MakeDir(t) ==
  /\ pc[t] = "mkdir"
  /\ \/ \E s \in Sessions \ used :
          /\ Here # "gone" /\ HasSessionsDir(Here)
          /\ manifest' = [manifest EXCEPT ![Here][s] = "dir"]
          /\ used' = used \cup {s}
          /\ taken' = IF Here = "shadow" THEN taken \cup {s} ELSE taken
          /\ active' = s /\ astate' = "starting"
          /\ Goto(t, "announce") /\ UNCHANGED <<clock, arg, faults>>
     \/ /\ IF Here = "gone" \/ ~HasSessionsDir(Here) \/ used = Sessions THEN UNCHANGED faults ELSE Fault
        /\ clock' = None /\ Leave(t)
        /\ UNCHANGED <<manifest, used, taken, active, astate>>
  /\ UNCHANGED <<plugged, live, stale, storage, durable, where, data, recorders, up, root, processes,
                 spawned, acked, unsaved, requests, accidents>>

Announce(t) ==
  /\ pc[t] = "announce"
  /\ \/ Write /\ Goto(t, "spawn")
     \/ WriteFails /\ Goto(t, "abort")
  /\ UNCHANGED <<drive, storage, durable, where, data, recorders, up, manager, arg,
                 used, acked, requests, accidents>>

(* _spawn_recorders: the files are opened where the session directory is,  *)
(* the IMU recorder first.  processes is assigned when all are started:    *)
(* what a failure leaves behind is in no list.                             *)
OpenAnyway == active # None
CanOpen == Here # "gone" /\ manifest[Here][active] # "absent"

Spawn(t) ==
  /\ pc[t] = "spawn" /\ CanOpen
  /\ \E r \in Recorders \ spawned :
       /\ r # Imu => Imu \in spawned
       /\ alive' = alive \cup {<<active, r>>}
       /\ IF spawned \cup {r} = Recorders
          THEN processes' = Recorders /\ spawned' = {} /\ Goto(t, "wait")
          ELSE spawned' = spawned \cup {r} /\ UNCHANGED <<processes, pc>>
  /\ where' = [where EXCEPT ![active] = @ \cup {Here}]
  /\ data' = [data EXCEPT ![active] = "cached"]
  /\ UNCHANGED <<drive, storage, manifest, durable, cut, up, clock, active, astate, root,
                 arg, history, requests, faults, accidents>>

SpawnFails(t) ==
  /\ pc[t] = "spawn"
  /\ IF CanOpen THEN Fault ELSE UNCHANGED faults
  /\ spawned' = {} /\ Goto(t, "abort")
  /\ UNCHANGED <<drive, storage, disk, recorders, up, clock, active, astate, root, processes,
                 arg, history, requests, accidents>>

(* _wait_for_recorders_ready: every recorder runs and has written, or one  *)
(* has exited or the wait timed out.                                       *)
Ready(t) ==
  /\ pc[t] = "wait"
  /\ \/ /\ \A r \in processes : <<active, r>> \in alive
        /\ astate' = "recording" /\ Goto(t, "publish")
     \/ Goto(t, "abort") /\ UNCHANGED astate
  /\ UNCHANGED <<drive, storage, disk, recorders, up, clock, active, root, processes, spawned,
                 arg, history, requests, faults, accidents>>

Publish(t) ==
  /\ pc[t] = "publish"
  /\ \/ Write /\ clock' = None /\ Leave(t)
     \/ WriteFails /\ Goto(t, "abort") /\ UNCHANGED <<clock, arg>>
  /\ UNCHANGED <<drive, storage, durable, where, data, recorders, up, active, astate, root,
                 processes, spawned, used, acked, requests, accidents>>

(* _stop_processes: SIGINT, SIGTERM and SIGKILL in turn.                   *)
StopWithoutKill ==
  /\ alive' \in {alive \ ({active} \X processes), alive \ ({active} \X Cameras)}
  /\ processes' = {}
  /\ UNCHANGED cut

StopProcesses ==
  /\ alive' = alive \ ({active} \X processes)
  /\ processes' = {}
  /\ UNCHANGED cut

(* The exception handlers of start and stop: the capture has failed, which *)
(* may be impossible to write down.                                        *)
Abort(t) ==
  /\ pc[t] = "abort"
  /\ StopProcesses /\ astate' = "failed" /\ Goto(t, "note")
  /\ UNCHANGED <<drive, storage, disk, up, clock, active, root, spawned, arg, history,
                 requests, faults, accidents>>

Finish(t) == active' = None /\ astate' = "absent" /\ clock' = None /\ Leave(t)

Note(t) ==
  /\ pc[t] = "note"
  /\ Write \/ WriteFails
  /\ Finish(t)
  /\ UNCHANGED <<drive, storage, durable, where, data, recorders, up, root, processes, spawned,
                 used, acked, requests, accidents>>

(* stop                                                                    *)
Stop(t) ==
  /\ pc[t] = "stop" /\ clock = None
  /\ \/ /\ active = arg[t]
        /\ clock' = t /\ astate' = "finalizing" /\ Goto(t, "finalize") /\ UNCHANGED arg
     \/ active # arg[t] /\ Leave(t) /\ UNCHANGED <<clock, astate>>
  /\ UNCHANGED <<drive, storage, disk, recorders, up, active, root, processes, spawned,
                 history, requests, faults, accidents>>

Finalize(t) ==
  /\ pc[t] = "finalize"
  /\ Write \/ WriteFails
  /\ Goto(t, "halt")
  /\ UNCHANGED <<drive, storage, durable, where, data, recorders, up, manager, arg,
                 used, acked, requests, accidents>>

Halt(t) ==
  /\ pc[t] = "halt"
  /\ StopProcesses /\ Goto(t, "validate")
  /\ UNCHANGED <<drive, storage, disk, up, clock, active, astate, root, spawned, arg, history,
                 requests, faults, accidents>>

(* validate_capture_videos looks at the cameras, not at the IMU: a video   *)
(* that is shorter than the capture is refused, as one may be for errors   *)
(* in its contents, or because a file cannot be read.                      *)
Accepted(s) == where[s] = {Here} /\ \A c \in Cameras : <<s, c>> \notin cut

Validate(t) ==
  /\ pc[t] = "validate"
  /\ \/ Accepted(active) /\ astate' = "complete" /\ Goto(t, "complete")
     \/ astate' = "failed" /\ Goto(t, "note")
  /\ UNCHANGED <<drive, storage, disk, recorders, up, clock, active, root, processes, spawned,
                 arg, history, requests, faults, accidents>>

Complete(t) ==
  /\ pc[t] = "complete"
  /\ \/ Write /\ Goto(t, "sync") /\ UNCHANGED astate
     \/ WriteFails /\ astate' = "failed" /\ Goto(t, "note")
  /\ UNCHANGED <<drive, storage, durable, where, data, recorders, up, clock, active, root,
                 processes, spawned, arg, used, acked, requests, accidents>>

Completed(t) ==
  /\ pc[t] = "sync"
  /\ Sync
  /\ acked' = acked \cup {active}
  /\ Finish(t)
  /\ UNCHANGED <<drive, storage, manifest, where, recorders, up, root, processes, spawned,
                 used, unsaved, requests, faults, accidents>>

(***************************************************************************)
(* Choosing and ejecting the drive                                         *)
(***************************************************************************)
(* do_POST: capture_status() under the lock of the capture manager, which  *)
(* is released before the storage manager is called.                       *)
Check(t) ==
  /\ pc[t] = "check" /\ clock = None
  /\ \/ /\ active = None
        /\ Goto(t, IF arg[t] = "eject" THEN "eject" ELSE "configure")
        /\ UNCHANGED arg
     \/ active # None /\ Leave(t)
  /\ UNCHANGED <<drive, storage, disk, recorders, up, manager, history, requests, faults,
                 accidents>>

Persist(v) ==
  /\ target' = v
  /\ \/ saved' = v /\ UNCHANGED faults
     \/ Fault /\ UNCHANGED saved

Configure(t) ==
  /\ pc[t] = "configure" /\ slock = None
  /\ \/ /\ arg[t] = "usb" => plugged
        /\ IF arg[t] = "usb" THEN Mount ELSE UNCHANGED drive
        /\ Persist(arg[t])
     \/ /\ IF arg[t] = "usb" /\ plugged THEN Mount \/ UNCHANGED drive ELSE UNCHANGED drive
        /\ UNCHANGED <<target, saved, faults>>
  /\ Leave(t)
  /\ UNCHANGED <<slock, disk, recorders, up, manager, history, requests, accidents>>

(* eject: sync and umount, then the target.                                *)
Eject(t) ==
  /\ pc[t] = "eject" /\ slock = None
  /\ Sync
  /\ \/ /\ live => ~Pinned
        /\ live' = FALSE
        /\ slock' = t /\ Goto(t, "ejected") /\ UNCHANGED <<arg, faults>>
     \/ /\ live
        /\ IF Pinned THEN UNCHANGED faults ELSE Fault
        /\ Leave(t) /\ UNCHANGED <<live, slock>>
  /\ Taken
  /\ UNCHANGED <<plugged, stale, target, saved, manifest, where, recorders, up, manager,
                 history, requests, accidents>>

Ejected(t) ==
  /\ pc[t] = "ejected"
  /\ Persist("internal") /\ slock' = None /\ Leave(t)
  /\ UNCHANGED <<drive, disk, recorders, up, manager, history, requests, accidents>>

(* status and session_roots mount the drive when it is the target.         *)
Look ==
  /\ up /\ slock = None /\ target = "usb" /\ plugged /\ ~live
  /\ Mount
  /\ UNCHANGED <<storage, disk, recorders, up, manager, threads, history, requests, faults,
                 accidents>>

(***************************************************************************)
(* The service starts: the target of storage.json, then                    *)
(* _recover_interrupted_sessions on the volumes that it reaches.           *)
(***************************************************************************)
Reached == IF live' THEN Targets ELSE {"internal"}

RecordingOnly ==
  {x \in Reached \X Sessions : manifest[x[1]][x[2]] \in Unfinished \ {"finalizing"}}

Interrupted == {x \in Reached \X Sessions : manifest[x[1]][x[2]] \in Unfinished}

Recover(done) ==
  manifest' = [v \in Volumes |-> [s \in Sessions |->
                 IF <<v, s>> \in done THEN "failed" ELSE manifest[v][s]]]

Boot ==
  /\ ~up
  /\ target' = saved
  /\ \/ /\ IF saved = "usb" /\ plugged THEN Mount ELSE UNCHANGED drive
        /\ Recover(Interrupted)
        /\ up' = TRUE /\ UNCHANGED faults
     \/ /\ Fault
        /\ IF saved = "usb" /\ plugged THEN Mount \/ UNCHANGED drive ELSE UNCHANGED drive
        /\ \E done \in SUBSET Interrupted : Recover(done)
        /\ UNCHANGED up
  /\ UNCHANGED <<saved, slock, durable, where, data, recorders, manager, threads, history,
                 requests, accidents>>

(***************************************************************************)
(* What happens to the service                                             *)
(***************************************************************************)
(* The process ends.  Recorders have sessions of their own and go on.      *)
Gone ==
  /\ up' = FALSE
  /\ clock' = None /\ slock' = None
  /\ active' = None /\ astate' = "absent" /\ processes' = {} /\ spawned' = {}
  /\ pc' = [t \in Threads |-> "idle"] /\ arg' = [t \in Threads |-> None]
  /\ UNCHANGED <<root, target, saved, history, requests, faults>>

Kill ==
  /\ up /\ kills < MaxKill /\ kills' = kills + 1
  /\ Gone
  /\ UNCHANGED <<drive, disk, recorders, unplugs, powers>>

(* A recorder ends: a stream breaks off, a write fails.                    *)
RecorderEnds ==
  /\ \E p \in alive : alive' = alive \ {p} /\ cut' = cut \cup {p}
  /\ UNCHANGED <<drive, storage, disk, up, manager, threads, history, requests, faults,
                 accidents>>

(* What was not synced may be lost.                                        *)
Loses(v, lost) ==
  [s \in Sessions |-> IF s \in lost THEN durable[v][s] ELSE manifest[v][s]]

Unsynced(v) == {s \in Sessions : durable[v][s] # manifest[v][s]}

(* The drive is pulled out; what is mounted stays mounted.                 *)
Unplug ==
  /\ plugged /\ unplugs < MaxUnplug /\ unplugs' = unplugs + 1
  /\ plugged' = FALSE /\ live' = FALSE /\ stale' = (stale \/ live) /\ Taken
  /\ IF live
     THEN /\ \E lost \in SUBSET Unsynced("usb") :
               manifest' = [manifest EXCEPT !["usb"] = Loses("usb", lost)]
          /\ durable' = [durable EXCEPT !["usb"] = manifest'["usb"]]
          /\ data' = [s \in Sessions |->
               IF "usb" \in where[s] /\ data[s] = "cached" THEN "torn" ELSE data[s]]
          /\ cut' = cut \cup {p \in alive : "usb" \in where[p[1]]}
     ELSE UNCHANGED <<manifest, durable, data, cut>>
  /\ UNCHANGED <<storage, where, alive, up, manager, threads, history, requests, faults,
                 kills, powers>>

Plug ==
  /\ ~plugged
  /\ plugged' = TRUE
  /\ UNCHANGED <<live, stale, taken, storage, disk, recorders, up, manager, threads, history,
                 requests, faults, accidents>>

PowerLoss ==
  /\ powers < MaxPower /\ powers' = powers + 1
  /\ Gone
  /\ live' = FALSE /\ stale' = FALSE /\ UNCHANGED <<plugged, taken>>
  /\ \E lost \in [Volumes -> SUBSET Sessions] :
       /\ \A v \in Volumes : lost[v] \subseteq Unsynced(v)
       /\ manifest' = [v \in Volumes |-> Loses(v, lost[v])]
  /\ durable' = manifest'
  /\ data' \in [Sessions -> {"none", "cached", "durable", "torn"}]
  /\ \A s \in Sessions :
       IF data[s] = "cached" THEN data'[s] \in {"torn", "durable"} ELSE data'[s] = data[s]
  /\ alive' = {} /\ cut' = cut \cup alive
  /\ UNCHANGED <<where, kills, unplugs>>

(***************************************************************************)
(* The specification                                                       *)
(***************************************************************************)
Init ==
  /\ target = "internal" /\ saved = "internal" /\ slock = None
  /\ plugged = FALSE /\ live = FALSE /\ stale = FALSE
  /\ manifest = [v \in Volumes |-> [s \in Sessions |-> "absent"]]
  /\ durable = manifest
  /\ where = [s \in Sessions |-> {}] /\ data = [s \in Sessions |-> "none"]
  /\ alive = {} /\ cut = {}
  /\ up = TRUE /\ clock = None /\ active = None /\ astate = "absent" /\ root = "internal"
  /\ processes = {} /\ spawned = {}
  /\ pc = [t \in Threads |-> "idle"] /\ arg = [t \in Threads |-> None]
  /\ used = {} /\ taken = {} /\ acked = {} /\ unsaved = {}
  /\ requests = 0 /\ kills = 0 /\ faults = 0 /\ unplugs = 0 /\ powers = 0

Handle(t) ==
  \/ Start(t) \/ CaptureRoot(t) \/ MakeDir(t) \/ Announce(t) \/ Spawn(t) \/ SpawnFails(t)
  \/ Ready(t) \/ Publish(t) \/ Abort(t) \/ Note(t)
  \/ Stop(t) \/ Finalize(t) \/ Halt(t) \/ Validate(t) \/ Complete(t) \/ Completed(t)
  \/ Check(t) \/ Configure(t) \/ Eject(t) \/ Ejected(t)

Environment == RecorderEnds \/ Kill \/ Boot \/ Unplug \/ Plug \/ PowerLoss

Next == Look \/ Environment \/ \E t \in Threads : Call(t) \/ Handle(t)

Spec == Init /\ [][Next]_vars

-----------------------------------------------------------------------------
Labels == {"idle", "start", "root", "mkdir", "announce", "spawn", "wait", "publish", "abort",
           "note", "stop", "finalize", "halt", "validate", "complete", "sync",
           "check", "configure", "eject", "ejected"}

(* Types: recorders write on volumes, not below a drive that is gone.      *)
DriveTypeOK ==
  /\ plugged \in BOOLEAN /\ live \in BOOLEAN /\ stale \in BOOLEAN
  /\ target \in Targets /\ saved \in Targets /\ slock \in Threads \cup {None}

DiskTypeOK ==
  /\ manifest \in [Volumes -> [Sessions -> States]]
  /\ durable \in [Volumes -> [Sessions -> States]]
  /\ where \in [Sessions -> SUBSET Volumes]
  /\ data \in [Sessions -> {"none", "cached", "durable", "torn"}]

RecorderTypeOK == alive \subseteq Sessions \X Recorders /\ cut \subseteq Sessions \X Recorders

ManagerTypeOK ==
  /\ up \in BOOLEAN /\ clock \in Threads \cup {None} /\ active \in Sessions \cup {None}
  /\ astate \in States /\ root \in Targets
  /\ processes \subseteq Recorders /\ spawned \subseteq Recorders
  /\ pc \in [Threads -> Labels]
  /\ arg \in [Threads -> Sessions \cup Targets \cup {"eject", None}]

HistoryTypeOK ==
  /\ used \subseteq Sessions /\ taken \subseteq Sessions
  /\ acked \subseteq Sessions /\ unsaved \subseteq Sessions
  /\ requests \in 0 .. MaxRequests /\ kills \in 0 .. MaxKill /\ faults \in 0 .. MaxFault
  /\ unplugs \in 0 .. MaxUnplug /\ powers \in 0 .. MaxPower

TypeOK == DriveTypeOK /\ DiskTypeOK /\ RecorderTypeOK /\ ManagerTypeOK /\ HistoryTypeOK

(* A manifest that says "complete" stands for a capture whose recorders    *)
(* have all ended, and whose cameras ran until it was stopped (stop, with  *)
(* _stop_processes and validate_capture_videos).                           *)
CompleteIsWhole ==
  \A v \in Volumes, s \in Sessions :
    manifest[v][s] = "complete" =>
      Quiet(s) /\ \A c \in Cameras : <<s, c>> \notin cut

(* While no capture runs, no manifest on the internal storage says that    *)
(* one does, unless its last state could not be written                    *)
(* (_write_active_manifest, _recover_interrupted_sessions).                *)
IdleIsSettled ==
  up /\ clock = None /\ active = None =>
    \A s \in Sessions \ unsaved : manifest["internal"][s] \notin Unfinished

(* "Selecting USB storage [...] never silently falls back to internal      *)
(* storage" (device/README.md): no recorder writes to the directory that   *)
(* the mount point is when nothing is mounted (capture_root, atomic_json,  *)
(* eject).                                                                 *)
NeverFallsBack == \A s \in Sessions : "shadow" \notin where[s]

(* The service keeps what CaptureLife promises.  A capture is complete when *)
(* the manifest beside its files says so and the files are not damaged; an *)
(* answer is a promise unless the drive was ejected, pulled out or mounted  *)
(* during the capture (start, stop, os.sync before the answer, recovery).   *)
IsComplete(s) ==
  /\ \E v \in Targets : where[s] = {v} /\ manifest[v][s] = "complete"
  /\ data[s] \in {"cached", "durable"}

Status(s) ==
  IF s \notin used THEN "new" ELSE IF active = s THEN "running"
  ELSE IF IsComplete(s) THEN "complete" ELSE "ended"

Life == INSTANCE CaptureLife WITH
  status <- [s \in Sessions |-> Status(s)], promised <- acked \ taken

LifeSpec == Life!Spec
=============================================================================
