---------------------------- MODULE TinaCapture ----------------------------
(***************************************************************************)
(* The capture engine of device/tina_service.c together with the recorder  *)
(* it drains.                                                              *)
(*                                                                         *)
(* The recorder (qgapp, an external binary) rolls two-second MCAP segments *)
(* into a tmpfs ring: it opens <n>.mcap, closes it with the MCAP magic and *)
(* publishes <n>.mcap.status.json non-atomically.  The service is a single *)
(* thread: its loop makes a pass over the ring (process_closed_segments),  *)
(* supervises the recorder and serves one request.  A pass discards clean  *)
(* segments while idle and moves them to the SD session while capturing.   *)
(* Whatever it cannot account for is quarantined: the ring is frozen, the  *)
(* recorder killed, and captures are refused until a reboot.               *)
(*                                                                         *)
(* Everything the recorder does, a crash of the service and a power loss   *)
(* interleave with the service at the granularity of its file operations.  *)
(* Clocks are abstracted: a deadline may be found expired at any test of   *)
(* it, except that nothing is stale the first time it is seen.             *)
(***************************************************************************)
EXTENDS Integers, FiniteSetsExt

CONSTANTS
  MaxSeg,          \* bound on the segments the recorder opens
  MaxSess,         \* bound on the captures that get as far as a session
  StableSegments,  \* INTEGRITY_STABLE_SEGMENTS (2)
  Overlap,         \* may a segment open before the previous one is published?
  MaxUpset,        \* bound on recorder misbehaviour (drops, stalls, bad files, exit)
  MaxFault,        \* bound on failing file operations
  MaxCrash,        \* bound on service crashes
  MaxPower         \* bound on power losses

ASSUME BoundsAssumption ==
  /\ MaxSeg \in Nat \ {0} /\ MaxSess \in Nat \ {0}
  /\ MaxUpset \in Nat /\ MaxFault \in Nat /\ MaxCrash \in Nat /\ MaxPower \in Nat
ASSUME StableAssumption == StableSegments \in Nat \ {0, 1}
ASSUME OverlapAssumption == Overlap \in BOOLEAN

Seg  == 1 .. MaxSeg
Sess == 1 .. MaxSess

VARIABLES
  \* The recorder and its tmpfs ring.
  prod,       \* "running", "stopped" (SIGSTOP) or "dead"
  born,       \* segments opened before this recorder process started
  opened,     \* segments opened so far; segment numbers are the name order
  ringMcap,   \* segments whose .mcap is in the ring under its own name
  ringStat,   \* segments whose status sidecar is in the ring
  closed,     \* segments whose .mcap ends in the MCAP magic
  side,       \* what segment_status_state reads from the sidecar
  ctr,        \* the cumulative drop/gap/reset counters a sidecar reports
  prog,       \* the cumulative audio/fsync/IMU progress a sidecar reports
  upsets,
  \* The SD card, per session.
  disk,       \* "state" of session.json ("none": no such file, or an empty one)
  listed, exported,   \* segments listed by session.json / .syncap-export.json
  sdMcap, sdStat,     \* segments whose .mcap / sidecar is durable
  sdState, sdListed, sdExported,  \* what a power loss leaves of the manifests
  \* Marker files in the ring directory.
  activeMark, quarMark,
  \* The service's control state.
  pc, ret, after, note,
  todo, why, terminal, seenOpen, seenSide,
  quar,
  \* g_capture.
  cap, finalizing, stopSeg, sess, files, moved, capBase, capLast,
  \* g_integrity_baseline and begin_capture's locals.
  adopted, baseLast, baseStable, hasClean, genMoved, reqLast, discarded,
  \* History, read only by bounds and properties.
  used, boundary, from, claimed, acked, reqOpened, faults, crashes, powers

ringVars == <<prod, born, opened, ringMcap, ringStat, closed, side, ctr, prog, upsets>>
sdVars   == <<disk, listed, exported, sdMcap, sdStat, sdState, sdListed, sdExported>>
markVars == <<activeMark, quarMark>>
flowVars == <<pc, ret, after, note>>
passVars == <<todo, why, terminal, seenOpen, seenSide>>
capVars  == <<cap, finalizing, stopSeg, sess, files, moved, capBase, capLast>>
baseVars == <<adopted, baseLast, baseStable, hasClean, genMoved, reqLast, discarded>>
histVars == <<used, boundary, from, claimed, acked, reqOpened>>
budgets  == <<faults, crashes, powers>>
vars == <<ringVars, sdVars, markVars, flowVars, passVars, quar, capVars, baseVars,
          histVars, budgets>>

SideKinds == {"absent", "pending", "clean", "integrity", "failed"}
Terminal  == {"clean", "integrity", "failed"}
PassReturns == {"bootStart", "supervise", "alignBase", "alignCheck", "stopCheck"}
Resume == {"bootSess", "bootAdopt", "entry", "passEnd", "stopFail", "idle", "accept"}
            \cup PassReturns
PCs == Resume \cup {"boot", "retireMcap", "retireStat", "copyMcap", "copyStat", "writeJson",
                    "writeExport", "quarMark", "failState", "alignPending", "mark",
                    "openSess", "undo", "commit", "commitExport", "clearMark"}

(* A producer process that exists, running or stopped, matches its pid. *)
qgapp_identity_matches == adopted /\ prod # "dead"

(* INTEGRITY_STABLE_SEGMENTS in a row with equal counters and progress. *)
established == baseStable >= StableSegments

mcap_is_closed(i) == i \in ringMcap /\ i \in closed
Published(i) == i \in ringStat /\ side[i] \in Terminal
PendingSidecars == {i \in ringStat : side[i] = "pending"}

(* An observation is named by the segment that carried it; 0 is the zeroed *)
(* struct integrity_observation.                                           *)
counters(i) == IF i = 0 THEN 0 ELSE ctr[i]
progress(i) == IF i = 0 THEN 0 ELSE prog[i]
integrity_counters_equal(i, j) == counters(i) = counters(j)
integrity_progress_advanced(i, j) == progress(i) > progress(j)
integrity_counters_are_startup_clean(i) == counters(i) = 0

(* MUTANT of capture_accepts_integrity: the counters are not compared. *)
AcceptAnyCounters(i) == capBase # 0 /\ integrity_progress_advanced(i, capLast)

capture_accepts_integrity(i) ==
  /\ capBase # 0 /\ integrity_counters_equal(i, capBase)
  /\ integrity_progress_advanced(i, capLast)

-----------------------------------------------------------------------------
(* File operations.  An atomic publish syncs a temporary file, renames it, *)
(* and syncs the file and its directory again.  It succeeds ("ok"), fails  *)
(* before the rename ("lost"), or after it: the new content is there but   *)
(* the caller is told it failed.  What a power loss leaves on the card of  *)
(* a rename that was not synced is the new file, an empty one (the entry   *)
(* of a renamed file has no size on FAT before its sync) or the old one.   *)
Outcome == {"ok", "lost", "late", "empty", "old"}
Charge(o) == /\ o # "ok" => faults < MaxFault
             /\ faults' = IF o = "ok" THEN faults ELSE faults + 1
             /\ UNCHANGED <<crashes, powers>>
Commits(o) == o # "lost"

(* MUTANT of Stored: the file is not synced after the rename. *)
NotSynced(o, new, old, empty) == IF o = "lost" THEN old ELSE empty

Stored(o, new, old, empty) ==
  IF o \in {"ok", "late"} THEN new ELSE IF o = "empty" THEN empty ELSE old

(* MUTANT of Told: the return value of a publish is ignored. *)
IgnoreResult(o) == TRUE

Told(o) == o = "ok"

recording == <<born, opened, closed, side, ctr, prog, upsets>>
ring == <<ringMcap, ringStat>>

GoTo(p) == pc' = p /\ UNCHANGED <<ret, after, note>>

(* quarantine_ring up to the marker: freeze the recorder, then resume at p *)
(* after writing the marker; fails says whether a "failed" session.json is *)
(* to be written in between.                                               *)
QuarantineThen(p, fails) ==
  /\ quar' = TRUE
  /\ prod' = IF prod = "running" THEN "stopped" ELSE prod
  /\ pc' = "quarMark" /\ after' = p /\ note' = fails /\ ret' = ret

(* fail_active_capture (a no-op unless the capture is live and not failed). *)
FailCaptureThen(p) == cap = "live" /\ cap' = "failed" /\ QuarantineThen(p, TRUE)

FailOrQuarantineThen(p) ==
  \/ FailCaptureThen(p)
  \/ cap # "live" /\ UNCHANGED cap /\ QuarantineThen(p, FALSE)

capRest == <<finalizing, stopSeg, sess, files, moved, capBase, capLast>>

reset_capture ==
  /\ cap' = "idle" /\ finalizing' = FALSE /\ stopSeg' = 0 /\ sess' = 0 /\ files' = {}
  /\ moved' = FALSE /\ capBase' = 0 /\ capLast' = 0

-----------------------------------------------------------------------------
(* The recorder.                                                           *)

Upset(n) == upsets + n <= MaxUpset /\ upsets' = upsets + n

(* The segment whose sidecar the recorder publishes next: sidecars are     *)
(* finished in segment order.                                              *)
Unpublished == {i \in Seg : born < i /\ i <= opened /\ side[i] \notin Terminal}
Publishing(i) == i \in Unpublished /\ \A j \in Unpublished : i <= j

notRing == <<sdVars, markVars, flowVars, passVars, quar, capVars, baseVars, histVars, budgets>>

OpenSegment ==
  /\ prod = "running" /\ opened < MaxSeg
  /\ opened > born => opened \in closed
  /\ Overlap \/ Unpublished = {}
  /\ opened' = opened + 1 /\ ringMcap' = ringMcap \cup {opened + 1}
  /\ UNCHANGED <<prod, born, ringStat, closed, side, ctr, prog, upsets, notRing>>

(* The footer of a segment whose sidecar won the race may come late. *)
CloseSegment(i) ==
  /\ prod = "running" /\ born < i /\ i <= opened /\ i \notin closed
  /\ closed' = closed \cup {i}
  /\ UNCHANGED <<prod, born, opened, ringMcap, ringStat, side, ctr, prog, upsets, notRing>>

CreateSidecar(i) ==
  /\ prod = "running" /\ Publishing(i) /\ side[i] = "absent"
  /\ Upset(IF i \in closed THEN 0 ELSE 1)
  /\ ringStat' = ringStat \cup {i} /\ side' = [side EXCEPT ![i] = "pending"]
  /\ UNCHANGED <<prod, born, opened, ringMcap, closed, ctr, prog, notRing>>

(* The sidecar becomes a complete JSON object.  Counters and progress are  *)
(* cumulative over the life of the recorder process.                       *)
PublishSidecar(i, kind, drops, step) ==
  /\ prod = "running" /\ Publishing(i) /\ side[i] = "pending"
  /\ Upset((IF kind = "clean" THEN 0 ELSE 1) + drops + (1 - step))
  /\ LET Last(f) == IF i = born + 1 THEN 0 ELSE f[i - 1]
     IN  /\ ctr'  = [ctr  EXCEPT ![i] = Last(ctr) + drops]
         /\ prog' = [prog EXCEPT ![i] = Last(prog) + step]
  /\ side' = [side EXCEPT ![i] = kind]
  /\ UNCHANGED <<prod, born, opened, ringMcap, ringStat, closed, notRing>>

RecorderExit ==
  /\ prod # "dead" /\ Upset(1) /\ prod' = "dead"
  /\ UNCHANGED <<born, opened, ringMcap, ringStat, closed, side, ctr, prog, notRing>>

Recorder ==
  \/ OpenSegment \/ RecorderExit
  \/ \E i \in Seg : CloseSegment(i) \/ CreateSidecar(i)
  \/ \E i \in Seg, kind \in Terminal, drops, step \in {0, 1} : PublishSidecar(i, kind, drops, step)

-----------------------------------------------------------------------------
(* quarantine_ring after the freeze, and the "failed" session.json.        *)

(* release the reserved page, write the marker, then SIGKILL the recorder  *)
(* whether or not the marker was written.                                  *)
PersistQuarantine ==
  /\ pc = "quarMark"
  /\ \E o \in Outcome : Charge(o) /\ quarMark' = (quarMark \/ Commits(o))
  /\ prod' = "dead"
  /\ GoTo(IF note THEN "failState" ELSE after)
  /\ UNCHANGED <<recording, ring, sdVars, activeMark, passVars, quar, capVars, baseVars, histVars>>

(* write_session_state: session.json as a whole is replaced. *)
WriteSession(o, state) ==
  /\ disk'   = IF Commits(o) THEN [disk EXCEPT ![sess] = state] ELSE disk
  /\ listed' = IF Commits(o) THEN [listed EXCEPT ![sess] = files] ELSE listed
  /\ sdState'  = [sdState EXCEPT ![sess] = Stored(o, state, @, "none")]
  /\ sdListed' = [sdListed EXCEPT ![sess] = Stored(o, files, @, {})]
  /\ UNCHANGED <<sdMcap, sdStat, exported, sdExported>>

(* write_export_manifest: so is .syncap-export.json. *)
WriteManifest(o) ==
  /\ exported' = IF Commits(o) THEN [exported EXCEPT ![sess] = files] ELSE exported
  /\ sdExported' = [sdExported EXCEPT ![sess] = Stored(o, files, @, {})]
  /\ UNCHANGED <<disk, listed, sdMcap, sdStat, sdState, sdListed>>

FailState ==
  /\ pc = "failState"
  /\ \E o \in Outcome : Charge(o) /\ WriteSession(o, "failed")
  /\ GoTo(after)
  /\ UNCHANGED <<ringVars, markVars, passVars, quar, capVars, baseVars, histVars>>

-----------------------------------------------------------------------------
(* process_closed_segments: one pass over a sorted directory snapshot.     *)

notPass == <<sdVars, markVars, histVars, budgets>>

StartPass(r) ==
  /\ todo' = ringStat /\ terminal' = FALSE /\ why' = "none"
  /\ pc' = "entry" /\ ret' = r
  /\ UNCHANGED <<after, note, seenOpen, seenSide>>

cur == Min(todo)

(* While a capture is being stopped, nothing past the stop boundary is     *)
(* looked at.                                                              *)
BeyondStop == finalizing /\ stopSeg # 0 /\ cur > stopSeg

AtEntry == pc = "entry" /\ todo # {} /\ ~BeyondStop

EndEntries ==
  /\ pc = "entry" /\ (todo # {} => BeyondStop)
  /\ GoTo("passEnd")
  /\ UNCHANGED <<ringVars, notPass, passVars, quar, capVars, baseVars>>

(* An unfinished sidecar ends the pass; it fails the capture, or           *)
(* quarantines the ring, once it has been unfinished for four seconds.     *)
PendingEntry ==
  /\ AtEntry /\ side[cur] = "pending"
  /\ seenOpen' = seenOpen \ {cur} /\ seenSide' = seenSide \cup {cur}
  /\ GoTo("passEnd")
  /\ UNCHANGED <<ringVars, notPass, todo, why, terminal, quar, capVars, baseVars>>

StalePending ==
  /\ AtEntry /\ side[cur] = "pending" /\ cur \in seenSide
  /\ seenOpen' = seenOpen \ {cur}
  /\ FailOrQuarantineThen("passEnd")
  /\ UNCHANGED <<recording, ring, notPass, todo, why, terminal, seenSide, capRest, baseVars>>

(* A complete sidecar may win the race with the footer: two seconds.       *)
Unsettled == side[cur] \in {"clean", "integrity"} /\ ~mcap_is_closed(cur)

SettlingEntry ==
  /\ AtEntry /\ Unsettled
  /\ seenOpen' = seenOpen \ {cur} /\ seenSide' = seenSide \cup {cur}
  /\ GoTo("passEnd")
  /\ UNCHANGED <<ringVars, notPass, todo, why, terminal, quar, capVars, baseVars>>

(* A terminal entry that is to be dealt with in this pass. *)
RipeEntry ==
  /\ AtEntry /\ side[cur] \in Terminal
  /\ Unsettled => cur \in seenSide

footer == mcap_is_closed(cur)
CleanEntry     == RipeEntry /\ side[cur] = "clean" /\ footer
IntegrityEntry == RipeEntry /\ side[cur] = "integrity" /\ footer

Inspect ==
  /\ seenOpen' = seenOpen \ {cur}
  /\ seenSide' = IF Unsettled THEN seenSide ELSE seenSide \ {cur}
  /\ terminal' = (terminal \/ footer)

(* The pair is left in the ring and the pass goes on. *)
SkipEntry == todo' = todo \ {cur} /\ why' = why /\ GoTo("entry")

RetireOrLeave(leave, reason) ==
  IF leave THEN SkipEntry
           ELSE todo' = todo /\ why' = reason /\ GoTo("retireMcap")

(* MUTANTS of RetireUnlessQuarantined: the quarantine is not looked at;    *)
(* a warm-up pair is left in the ring.                                     *)
RetireAlways(reason) == RetireOrLeave(FALSE, reason)
LeaveWarmup(reason) == RetireOrLeave(quar \/ reason = "warmup", reason)

(* Idle, a pair is retired unless the ring is quarantined. *)
RetireUnlessQuarantined(reason) == RetireOrLeave(quar, reason)

(* Capturing: a clean pair that carries the session's integrity baseline   *)
(* on is moved to the SD card ...                                          *)
AcceptSegment ==
  /\ CleanEntry /\ cap = "live" /\ capture_accepts_integrity(cur)
  /\ Inspect /\ todo' = todo /\ why' = "capture" /\ GoTo("copyMcap")
  /\ capLast' = cur
  /\ UNCHANGED <<ringVars, notPass, quar, cap, finalizing, stopSeg, sess, files, moved,
                 capBase, baseVars>>

(* ... and any other terminal pair fails the capture and stays. *)
RejectSegment ==
  /\ RipeEntry /\ cap = "live" /\ ~(CleanEntry /\ capture_accepts_integrity(cur))
  /\ Inspect /\ todo' = todo \ {cur} /\ why' = why
  /\ FailCaptureThen("entry")
  /\ UNCHANGED <<recording, ring, notPass, capRest, baseVars>>

(* A failed capture is still active: its ring is only looked at. *)
SkipForFailedCapture ==
  /\ RipeEntry /\ cap = "failed"
  /\ Inspect /\ SkipEntry
  /\ hasClean' = (hasClean \/ (CleanEntry /\ integrity_counters_are_startup_clean(cur)))
  /\ UNCHANGED <<ringVars, notPass, quar, capVars, adopted, baseLast, baseStable, genMoved,
                 reqLast, discarded>>

(* observe_idle_integrity on a clean pair of the tracked recorder. *)
steady == baseLast # 0 /\ integrity_counters_equal(cur, baseLast)
          /\ integrity_progress_advanced(cur, baseLast)

(* MUTANT of NextStable: the count of steady segments is not capped. *)
UncappedStable == baseStable + 1

NextStable == IF baseStable < StableSegments THEN baseStable + 1 ELSE baseStable

ObserveSteady ==
  /\ CleanEntry /\ cap = "idle" /\ qgapp_identity_matches /\ steady
  /\ Inspect
  /\ baseLast' = cur
  /\ baseStable' = NextStable
  /\ hasClean' = (baseStable' >= StableSegments)
  /\ RetireUnlessQuarantined(IF baseStable' >= StableSegments THEN "idle" ELSE "warmup")
  /\ UNCHANGED <<ringVars, notPass, quar, capVars, adopted, genMoved, reqLast, discarded>>

ObserveUnsteady ==
  /\ CleanEntry /\ cap = "idle" /\ qgapp_identity_matches /\ ~steady
  /\ Inspect
  /\ baseLast' = cur /\ baseStable' = 1 /\ hasClean' = FALSE /\ genMoved' = TRUE
  /\ RetireUnlessQuarantined("warmup")
  /\ UNCHANGED <<ringVars, notPass, quar, capVars, adopted, reqLast, discarded>>

(* invalidate_integrity_baseline: a clean sidecar without usable counters. *)
InvalidateBaseline ==
  /\ IntegrityEntry /\ cap = "idle" /\ qgapp_identity_matches
  /\ Inspect
  /\ baseLast' = 0 /\ baseStable' = 0 /\ hasClean' = FALSE /\ genMoved' = TRUE
  /\ RetireUnlessQuarantined("warmup")
  /\ UNCHANGED <<ringVars, notPass, quar, capVars, adopted, reqLast, discarded>>

(* Residue of an earlier recorder that reports no drop at all. *)
DiscardResidue ==
  /\ CleanEntry /\ cap = "idle" /\ ~qgapp_identity_matches
  /\ integrity_counters_are_startup_clean(cur)
  /\ Inspect /\ hasClean' = TRUE
  /\ RetireUnlessQuarantined("idle")
  /\ UNCHANGED <<ringVars, notPass, quar, capVars, adopted, baseLast, baseStable, genMoved,
                 reqLast, discarded>>

(* Any other idle terminal pair may be the tail of a capture: keep it. *)
Suspect ==
  /\ RipeEntry /\ cap = "idle"
  /\ \/ side[cur] = "failed" \/ ~footer
     \/ ~qgapp_identity_matches
        /\ ~(side[cur] = "clean" /\ integrity_counters_are_startup_clean(cur))

QuarantineSuspect ==
  /\ Suspect /\ ~quar /\ Inspect
  /\ todo' = todo \ {cur} /\ why' = why
  /\ QuarantineThen("entry", FALSE)
  /\ UNCHANGED <<recording, ring, notPass, capVars, baseVars>>

SkipSuspect ==
  /\ Suspect /\ quar /\ Inspect /\ SkipEntry
  /\ UNCHANGED <<ringVars, notPass, quar, capVars, baseVars>>

-----------------------------------------------------------------------------
(* copy_closed_segment: each step is one durable publish.                  *)

CopyFailed == FailCaptureThen("passEnd") /\ UNCHANGED <<recording, ring, capRest, passVars>>
CopyNext(p) == GoTo(p) /\ UNCHANGED <<ringVars, quar, capVars, passVars>>

CopyMcap ==
  /\ pc = "copyMcap"
  /\ \E o \in Outcome :
       /\ Charge(o)
       /\ sdMcap' = [sdMcap EXCEPT ![sess] = Stored(o, @ \cup {cur}, @, @)]
       /\ IF Told(o) THEN CopyNext("copyStat") ELSE CopyFailed
  /\ UNCHANGED <<disk, sdStat, listed, exported, sdState, sdListed, sdExported, markVars, baseVars,
                 histVars>>

(* ... then remember_capture_file for both names. *)
CopyStat ==
  /\ pc = "copyStat"
  /\ \E o \in Outcome :
       /\ Charge(o)
       /\ sdStat' = [sdStat EXCEPT ![sess] = Stored(o, @ \cup {cur}, @, @)]
       /\ \/ /\ Told(o) /\ GoTo("writeJson") /\ files' = files \cup {cur}
             /\ UNCHANGED <<ringVars, quar, passVars, cap, finalizing, stopSeg, sess, moved,
                            capBase, capLast>>
          \/ ~Told(o) /\ CopyFailed
  /\ UNCHANGED <<disk, sdMcap, listed, exported, sdState, sdListed, sdExported, markVars, baseVars,
                 histVars>>

WriteJson ==
  /\ pc = "writeJson"
  /\ \E o \in Outcome :
       /\ Charge(o) /\ WriteSession(o, "recording")
       /\ IF Told(o) THEN CopyNext("writeExport") ELSE CopyFailed
  /\ UNCHANGED <<markVars, baseVars, histVars>>

WriteExport ==
  /\ pc = "writeExport"
  /\ \E o \in Outcome :
       /\ Charge(o) /\ WriteManifest(o)
       /\ IF Told(o) THEN CopyNext("retireMcap") ELSE CopyFailed
  /\ UNCHANGED <<markVars, baseVars, histVars>>

-----------------------------------------------------------------------------
(* retire_ring_pair: both files are renamed out of the scanned names, then *)
(* unlinked.                                                               *)

Retired ==
  \/ /\ why = "capture" /\ moved' = TRUE /\ GoTo("passEnd")
     /\ UNCHANGED <<todo, cap, finalizing, stopSeg, sess, files, capBase, capLast, discarded>>
  \/ /\ why # "capture" /\ todo' = todo \ {cur} /\ GoTo("entry")
     /\ discarded' = (discarded \/ why = "idle")
     /\ UNCHANGED capVars

RetireFailed ==
  /\ \/ why = "capture" /\ FailCaptureThen("passEnd") /\ UNCHANGED todo
     \/ why # "capture" /\ QuarantineThen("entry", FALSE) /\ todo' = todo \ {cur} /\ UNCHANGED cap
  /\ UNCHANGED <<recording, capRest, discarded>>

notRetire == <<sdVars, markVars, used, from, claimed, acked, reqOpened, why, terminal, seenOpen, seenSide,
               adopted, baseLast, baseStable, hasClean, genMoved, reqLast>>

RetireMcap ==
  /\ pc = "retireMcap"
  /\ \/ /\ Charge("ok") /\ ringMcap' = ringMcap \ {cur} /\ GoTo("retireStat")
        /\ boundary' = IF why = "capture" THEN boundary ELSE cur
        /\ UNCHANGED <<prod, recording, todo, quar, capVars, discarded>>
     \/ Charge("lost") /\ RetireFailed /\ UNCHANGED <<ringMcap, boundary>>
  /\ UNCHANGED <<ringStat, notRetire>>

(* The second rename fails, and the first is undone or that fails too; or  *)
(* both succeed and syncing or unlinking fails.                            *)
RetireStat ==
  /\ pc = "retireStat"
  /\ \/ /\ Charge("ok") /\ ringStat' = ringStat \ {cur} /\ Retired
        /\ UNCHANGED <<prod, recording, ringMcap, quar>>
     \/ /\ Charge("lost") /\ RetireFailed /\ UNCHANGED ringStat
        /\ ringMcap' \in {ringMcap \cup {cur}, ringMcap}
     \/ /\ Charge("late") /\ RetireFailed /\ ringStat' = ringStat \ {cur}
        /\ UNCHANGED ringMcap
  /\ UNCHANGED <<boundary, notRetire>>

-----------------------------------------------------------------------------
(* check_stale_open_segments and the stall test that end a pass.           *)

OpenInRing == ringMcap \ ringStat

PassQuiet ==
  /\ pc = "passEnd"
  /\ seenOpen' = IF quar THEN seenOpen ELSE seenOpen \cup OpenInRing
  /\ GoTo(ret)
  /\ UNCHANGED <<ringVars, notPass, todo, why, terminal, seenSide, quar, capVars, baseVars>>

(* A segment without a sidecar four seconds after it was first seen. *)
StaleOpen ==
  /\ pc = "passEnd" /\ ~quar /\ OpenInRing \cap seenOpen # {}
  /\ FailOrQuarantineThen(ret)
  /\ UNCHANGED <<recording, ring, notPass, passVars, capRest, baseVars>>

(* MUTANT of StallWatched: only a recorder that has been ready is watched. *)
StallWatchedOnceReady == qgapp_identity_matches /\ hasClean

StallWatched == qgapp_identity_matches

(* No segment boundary for eight seconds. *)
StalledRecorder ==
  /\ pc = "passEnd" /\ ~quar /\ ~terminal /\ StallWatched
  /\ FailOrQuarantineThen(ret)
  /\ UNCHANGED <<recording, ring, notPass, passVars, capRest, baseVars>>

-----------------------------------------------------------------------------
(* The main loop: a pass, supervise_qgapp, at most one request.            *)

Pass(r) == StartPass(r) /\ UNCHANGED <<ringVars, sdVars, markVars, quar, budgets>>

LoopPass == pc = "idle" /\ Pass("supervise") /\ UNCHANGED <<capVars, baseVars, histVars>>

elsewhere == <<sdVars, markVars, passVars, histVars, budgets>>

(* The recorder is there, or the two-second rate limit has not passed. *)
SuperviseQuiet ==
  /\ pc = "supervise" /\ GoTo("accept")
  /\ UNCHANGED <<ringVars, elsewhere, quar, capVars, baseVars>>

(* MUTANT of LossWhileIdle: only a capture cares for the recorder. *)
LossWhileIdleIgnored == FALSE

LossWhileIdle == cap = "idle" /\ ~quar

SuperviseLoss ==
  /\ pc = "supervise" /\ ~qgapp_identity_matches
  /\ \/ FailCaptureThen("accept")
     \/ LossWhileIdle /\ QuarantineThen("accept", FALSE) /\ UNCHANGED cap
  /\ UNCHANGED <<recording, ring, elsewhere, capRest, baseVars>>

(* No request, a request that is refused, or one that reads state only. *)
NoRequest ==
  /\ pc = "accept" /\ GoTo("idle")
  /\ UNCHANGED <<ringVars, elsewhere, quar, capVars, baseVars>>

-----------------------------------------------------------------------------
(* begin_capture.                                                          *)

qgapp_ready_for_capture == qgapp_identity_matches /\ hasClean

StartRequest ==
  /\ pc = "accept" /\ used < MaxSess
  /\ ~quar /\ cap = "idle" /\ qgapp_ready_for_capture
  /\ genMoved' = FALSE /\ reqLast' = baseLast /\ reqOpened' = opened
  /\ Pass("alignBase")
  /\ UNCHANGED <<capVars, adopted, baseLast, baseStable, hasClean, discarded,
                 used, boundary, from, claimed, acked>>

(* MUTANT of CountFromHere: a pair discarded by the first pass counts. *)
CountFirstPass == UNCHANGED discarded

CountFromHere == discarded' = FALSE

(* Only what is discarded after the first pass counts as the boundary. *)
AlignBase ==
  /\ pc = "alignBase" /\ GoTo("alignCheck") /\ CountFromHere
  /\ UNCHANGED <<ringVars, elsewhere, quar, capVars, adopted, baseLast, baseStable, hasClean,
                 genMoved, reqLast>>

AlignAgain ==
  /\ pc = "alignCheck" /\ ~discarded /\ ~genMoved /\ established
  /\ Pass("alignCheck")
  /\ UNCHANGED <<capVars, baseVars, histVars>>

CountersMoved == genMoved \/ ~established \/ ~integrity_counters_equal(reqLast, baseLast)

AlignRefused ==
  /\ pc = "alignCheck" /\ CountersMoved
  /\ GoTo("idle")
  /\ UNCHANGED <<ringVars, elsewhere, quar, capVars, baseVars>>

(* MUTANT of AlignDeadline: the six seconds are never tested. *)
NoAlignDeadline == FALSE

AlignDeadline == ~CountersMoved /\ ~discarded

AlignTimeout ==
  /\ pc = "alignCheck" /\ AlignDeadline
  /\ GoTo("idle")
  /\ UNCHANGED <<ringVars, elsewhere, quar, capVars, baseVars>>

Aligned ==
  /\ pc = "alignCheck" /\ ~CountersMoved /\ discarded
  /\ GoTo("alignPending")
  /\ UNCHANGED <<ringVars, elsewhere, quar, capVars, baseVars>>

RefuseUnfinished ==
  /\ pc = "alignPending" /\ PendingSidecars # {}
  /\ QuarantineThen("idle", FALSE)
  /\ UNCHANGED <<recording, ring, elsewhere, capVars, baseVars>>

Activate ==
  /\ pc = "alignPending" /\ PendingSidecars = {} /\ used < MaxSess
  /\ cap' = "live" /\ finalizing' = FALSE /\ stopSeg' = 0 /\ files' = {} /\ moved' = FALSE
  /\ capBase' = baseLast /\ capLast' = baseLast
  /\ used' = used + 1 /\ sess' = used + 1 /\ from' = [from EXCEPT ![used + 1] = boundary]
  /\ GoTo("mark")
  /\ UNCHANGED <<ringVars, sdVars, markVars, passVars, budgets, quar, baseVars, boundary, claimed,
                 acked, reqOpened>>

WriteMark ==
  /\ pc = "mark"
  /\ \E o \in Outcome :
       /\ Charge(o) /\ activeMark' = (activeMark \/ Commits(o))
       /\ GoTo(IF Told(o) THEN "openSess" ELSE "undo")
  /\ UNCHANGED <<ringVars, sdVars, quarMark, passVars, quar, capVars, baseVars, histVars>>

(* The answer to the start request is sent when this succeeds. *)
OpenSession ==
  /\ pc = "openSess"
  /\ \E o \in Outcome :
       /\ Charge(o) /\ WriteSession(o, "recording")
       /\ GoTo(IF Told(o) THEN "idle" ELSE "undo")
       /\ claimed' = IF Told(o) THEN claimed \cup {sess} ELSE claimed
  /\ UNCHANGED <<ringVars, markVars, passVars, quar, capVars, baseVars, used, boundary, from,
                 acked, reqOpened>>

(* A session directory that already holds session.json is not removed. *)
UndoStart ==
  /\ pc = "undo"
  /\ \E o \in Outcome : Charge(o) /\ activeMark' = (activeMark /\ ~Commits(o))
  /\ reset_capture /\ GoTo("idle")
  /\ UNCHANGED <<ringVars, sdVars, quarMark, passVars, quar, baseVars, histVars>>

-----------------------------------------------------------------------------
(* finalize_capture.                                                       *)

find_stop_segment == IF ringMcap = {} THEN 0 ELSE Max(ringMcap)

StopFailedCapture ==
  /\ pc = "accept" /\ cap = "failed"
  /\ QuarantineThen("stopFail", FALSE)
  /\ UNCHANGED <<recording, ring, elsewhere, capVars, baseVars>>

StopRequest ==
  /\ pc = "accept" /\ cap = "live"
  /\ finalizing' = TRUE /\ stopSeg' = find_stop_segment /\ moved' = FALSE
  /\ Pass("stopCheck")
  /\ UNCHANGED <<cap, sess, files, capBase, capLast, baseVars, histVars>>

StopInterrupted ==
  /\ pc = "stopCheck" /\ cap = "failed" /\ GoTo("stopFail")
  /\ UNCHANGED <<ringVars, elsewhere, quar, capVars, baseVars>>

StopRecorderGone ==
  /\ pc = "stopCheck" /\ cap = "live" /\ ~qgapp_identity_matches
  /\ FailCaptureThen("stopFail")
  /\ UNCHANGED <<recording, ring, elsewhere, capRest, baseVars>>

(* MUTANT of BoundarySaved: any segment saved since the stop will do. *)
AnySegmentSaved == moved

(* MUTANT of LateBoundary: the boundary is looked up again at each turn. *)
MovingBoundary == stopSeg' = find_stop_segment

BoundarySaved == IF stopSeg # 0 THEN stopSeg \in files ELSE moved
Draining == pc = "stopCheck" /\ cap = "live" /\ qgapp_identity_matches
LateBoundary == stopSeg' = IF stopSeg = 0 THEN find_stop_segment ELSE stopSeg

StopSaved ==
  /\ Draining /\ BoundarySaved /\ GoTo("commit")
  /\ UNCHANGED <<ringVars, elsewhere, quar, capVars, baseVars>>

StopWait ==
  /\ Draining /\ ~BoundarySaved
  /\ LateBoundary /\ Pass("stopCheck")
  /\ UNCHANGED <<cap, finalizing, sess, files, moved, capBase, capLast, baseVars, histVars>>

(* MUTANT of GiveUp: the session fails but the ring is not quarantined. *)
GiveUpQuietly == GoTo("stopFail") /\ UNCHANGED <<quar, prod>>

GiveUp == QuarantineThen("stopFail", FALSE)

(* The boundary did not close in 8 s, or was not saved in 45 s. *)
StopTimeout ==
  /\ Draining /\ ~BoundarySaved
  /\ LateBoundary /\ GiveUp
  /\ UNCHANGED <<recording, ring, elsewhere, cap, finalizing, sess, files, moved, capBase,
                 capLast, baseVars>>

StopFail ==
  /\ pc = "stopFail"
  /\ \E o \in Outcome : Charge(o) /\ WriteSession(o, "failed")
  /\ reset_capture /\ GoTo("idle")
  /\ UNCHANGED <<ringVars, markVars, passVars, quar, baseVars, histVars>>

CommitFailed == FailCaptureThen("idle") /\ UNCHANGED <<recording, ring, capRest>>
CommitNext(p) == GoTo(p) /\ UNCHANGED <<ringVars, quar, capVars>>

CommitSession ==
  /\ pc = "commit"
  /\ \E o \in Outcome :
       /\ Charge(o) /\ WriteSession(o, "complete")
       /\ IF Told(o) THEN CommitNext("commitExport") ELSE CommitFailed
  /\ UNCHANGED <<markVars, passVars, baseVars, histVars>>

CommitExport ==
  /\ pc = "commitExport"
  /\ \E o \in Outcome :
       /\ Charge(o) /\ WriteManifest(o)
       /\ IF Told(o) THEN CommitNext("clearMark") ELSE CommitFailed
  /\ UNCHANGED <<markVars, passVars, baseVars, histVars>>

(* The answer to the stop request is sent when this succeeds. *)
ClearMark ==
  /\ pc = "clearMark"
  /\ \E o \in Outcome :
       /\ Charge(o) /\ activeMark' = (activeMark /\ ~Commits(o))
       /\ \/ /\ Told(o) /\ acked' = acked \cup {sess} /\ reset_capture /\ GoTo("idle")
             /\ UNCHANGED <<ringVars, quar>>
          \/ ~Told(o) /\ CommitFailed /\ UNCHANGED acked
  /\ UNCHANGED <<sdVars, quarMark, passVars, baseVars, used, boundary, from, claimed, reqOpened>>

-----------------------------------------------------------------------------
(* main before the loop, and the ways the service goes away.               *)

bootVars == <<todo, why, terminal, seenOpen, seenSide, capVars, histVars>>

LoadQuarantine ==
  /\ pc = "boot" /\ quarMark
  /\ quar' = TRUE /\ prod' = "dead" /\ GoTo("bootSess")
  /\ UNCHANGED <<recording, ring, sdVars, markVars, bootVars, baseVars, budgets>>

RecoverActive ==
  /\ pc = "boot" /\ ~quarMark /\ activeMark
  /\ QuarantineThen("bootSess", FALSE)
  /\ UNCHANGED <<recording, ring, sdVars, markVars, bootVars, baseVars, budgets>>

NothingToRecover ==
  /\ pc = "boot" /\ ~quarMark /\ ~activeMark /\ GoTo("bootSess")
  /\ UNCHANGED <<ringVars, sdVars, markVars, quar, bootVars, baseVars, budgets>>

(* MUTANT of interrupted: every session that did not fail. *)
NotFailed == {s \in Sess : disk[s] \in {"recording", "complete"}}

interrupted == {s \in Sess : disk[s] = "recording"}

(* mark_manifest_interrupted: the file list of session.json is kept.  The  *)
(* sessions in done are rewritten, and those in told synced too.           *)
MarkInterrupted(done, told) ==
  /\ disk' = [s \in Sess |-> IF s \in done THEN "failed" ELSE disk[s]]
  /\ \E empty \in SUBSET (done \ told) : \E old \in SUBSET (done \ (told \cup empty)) :
       /\ sdState' = [s \in Sess |-> IF s \in empty THEN "none"
                                     ELSE IF s \in done \ old THEN "failed" ELSE sdState[s]]
       /\ sdListed' = [s \in Sess |-> IF s \in empty THEN {}
                                      ELSE IF s \in done \ old THEN listed[s] ELSE sdListed[s]]
  /\ UNCHANGED <<listed, exported, sdMcap, sdStat, sdExported>>

(* recover_interrupted_sessions: a session that cannot be rewritten (or an *)
(* absent card) is passed over.                                            *)
RecoverSessions ==
  /\ pc = "bootSess"
  /\ \E done \in SUBSET interrupted : \E told \in SUBSET done :
       /\ Charge(IF told = interrupted THEN "ok" ELSE "lost")
       /\ MarkInterrupted(done, told)
       /\ IF told # {} /\ ~quar
            THEN QuarantineThen("bootAdopt", FALSE)
            ELSE GoTo("bootAdopt") /\ UNCHANGED <<quar, prod>>
  /\ UNCHANGED <<recording, ring, markVars, bootVars, baseVars>>

(* ensure_qgapp(false), then a pass that sees what an earlier run left. *)
ResetBaseline == baseLast' = 0 /\ baseStable' = 0 /\ hasClean' = FALSE

BootAdopt ==
  /\ pc = "bootAdopt" /\ ~quar
  /\ adopted' = (prod # "dead")
  /\ \/ prod # "dead" /\ ResetBaseline
     \/ prod = "dead" /\ UNCHANGED <<baseLast, baseStable, hasClean>>
  /\ Pass("bootStart")
  /\ UNCHANGED <<genMoved, reqLast, discarded, capVars, histVars>>

BootQuarantined ==
  /\ pc = "bootAdopt" /\ quar /\ GoTo("idle")
  /\ UNCHANGED <<ringVars, elsewhere, quar, capVars, baseVars>>

BootDone ==
  /\ pc = "bootStart" /\ (quar \/ adopted) /\ GoTo("idle")
  /\ UNCHANGED <<ringVars, elsewhere, quar, capVars, baseVars>>

(* ensure_qgapp(true); the fork may fail. *)
BootStartRecorder ==
  /\ pc = "bootStart" /\ ~quar /\ ~adopted
  /\ prod' = "running" /\ born' = opened
  /\ adopted' = TRUE /\ ResetBaseline /\ GoTo("idle")
  /\ UNCHANGED <<opened, ring, closed, side, ctr, prog, upsets, elsewhere, quar, capVars,
                 genMoved, reqLast, discarded>>

BootWithoutRecorder ==
  /\ pc = "bootStart" /\ ~quar /\ ~adopted /\ Charge("lost") /\ GoTo("idle")
  /\ UNCHANGED <<ringVars, sdVars, markVars, passVars, histVars, quar, capVars, baseVars>>

(* The variables of a service process that has just started. *)
ServiceStart ==
  /\ pc = "boot" /\ ret = "supervise" /\ after = "idle" /\ note = FALSE
  /\ todo = {} /\ why = "none" /\ terminal = FALSE /\ seenOpen = {} /\ seenSide = {}
  /\ quar = FALSE
  /\ cap = "idle" /\ finalizing = FALSE /\ stopSeg = 0 /\ sess = 0 /\ files = {}
  /\ moved = FALSE /\ capBase = 0 /\ capLast = 0
  /\ adopted = FALSE /\ baseLast = 0 /\ baseStable = 0 /\ hasClean = FALSE
  /\ genMoved = FALSE /\ reqLast = 0 /\ discarded = FALSE

ServiceRestarts ==
  /\ pc' = "boot" /\ ret' = "supervise" /\ after' = "idle" /\ note' = FALSE
  /\ todo' = {} /\ why' = "none" /\ terminal' = FALSE /\ seenOpen' = {} /\ seenSide' = {}
  /\ quar' = FALSE /\ reset_capture
  /\ adopted' = FALSE /\ ResetBaseline
  /\ genMoved' = FALSE /\ reqLast' = 0 /\ discarded' = FALSE

(* The service ends at any point of the publish of a manifest. *)
CutShort ==
  \/ UNCHANGED sdVars
  \/ \E o \in Outcome :
       \/ pc \in {"openSess", "writeJson"} /\ WriteSession(o, "recording")
       \/ pc = "commit" /\ WriteSession(o, "complete")
       \/ pc \in {"failState", "stopFail"} /\ WriteSession(o, "failed")
       \/ pc \in {"writeExport", "commitExport"} /\ WriteManifest(o)
  \/ /\ pc = "bootSess"
     /\ \E done \in SUBSET interrupted : \E told \in SUBSET done : MarkInterrupted(done, told)

(* The service dies, is killed or is stopped, and the watchdog starts it   *)
(* again; the recorder and the ring outlive it.                            *)
Crash ==
  /\ crashes < MaxCrash /\ crashes' = crashes + 1 /\ UNCHANGED <<faults, powers>>
  /\ CutShort /\ ServiceRestarts
  /\ UNCHANGED <<ringVars, markVars, histVars>>

(* Power is lost: the tmpfs with its markers and the recorder are gone,    *)
(* and what was not synced on the card.  In the middle of a publish that   *)
(* is a Crash there and a PowerLoss after it.                              *)
PowerLoss ==
  /\ powers < MaxPower /\ powers' = powers + 1 /\ UNCHANGED <<faults, crashes>>
  /\ ServiceRestarts
  /\ prod' = "dead" /\ ringMcap' = {} /\ ringStat' = {}
  /\ activeMark' = FALSE /\ quarMark' = FALSE
  /\ disk' = sdState /\ listed' = sdListed /\ exported' = sdExported
  /\ UNCHANGED <<recording, sdMcap, sdStat, sdState, sdListed, sdExported, histVars>>

-----------------------------------------------------------------------------
Init ==
  /\ prod = "dead" /\ born = 0 /\ opened = 0 /\ ringMcap = {} /\ ringStat = {} /\ closed = {}
  /\ side = [i \in Seg |-> "absent"] /\ ctr = [i \in Seg |-> 0] /\ prog = [i \in Seg |-> 0]
  /\ upsets = 0
  /\ disk = [s \in Sess |-> "none"]
  /\ sdMcap = [s \in Sess |-> {}] /\ sdStat = [s \in Sess |-> {}]
  /\ listed = [s \in Sess |-> {}] /\ exported = [s \in Sess |-> {}]
  /\ sdState = [s \in Sess |-> "none"]
  /\ sdListed = [s \in Sess |-> {}] /\ sdExported = [s \in Sess |-> {}]
  /\ activeMark = FALSE /\ quarMark = FALSE
  /\ ServiceStart
  /\ used = 0 /\ boundary = 0 /\ from = [s \in Sess |-> 0] /\ claimed = {} /\ acked = {} /\ reqOpened = 0
  /\ faults = 0 /\ crashes = 0 /\ powers = 0

Quarantining == PersistQuarantine \/ FailState

ProcessEntry ==
  \/ EndEntries \/ PendingEntry \/ StalePending \/ SettlingEntry
  \/ AcceptSegment \/ RejectSegment \/ SkipForFailedCapture
  \/ ObserveSteady \/ ObserveUnsteady \/ InvalidateBaseline
  \/ DiscardResidue \/ QuarantineSuspect \/ SkipSuspect

MoveSegment == CopyMcap \/ CopyStat \/ WriteJson \/ WriteExport \/ RetireMcap \/ RetireStat
EndPass == PassQuiet \/ StaleOpen \/ StalledRecorder
Loop == LoopPass \/ SuperviseQuiet \/ SuperviseLoss \/ NoRequest

BeginCapture ==
  \/ StartRequest \/ AlignBase \/ AlignAgain \/ AlignRefused \/ AlignTimeout \/ Aligned
  \/ RefuseUnfinished \/ Activate \/ WriteMark \/ OpenSession \/ UndoStart

FinalizeCapture ==
  \/ StopFailedCapture \/ StopRequest \/ StopInterrupted \/ StopRecorderGone \/ StopSaved
  \/ StopWait \/ StopTimeout \/ StopFail \/ CommitSession \/ CommitExport \/ ClearMark

Boot ==
  \/ LoadQuarantine \/ RecoverActive \/ NothingToRecover \/ RecoverSessions
  \/ BootAdopt \/ BootQuarantined \/ BootDone \/ BootStartRecorder \/ BootWithoutRecorder

Service == Quarantining \/ ProcessEntry \/ MoveSegment \/ EndPass \/ Loop
           \/ BeginCapture \/ FinalizeCapture \/ Boot

Next == Recorder \/ Service \/ Crash \/ PowerLoss

Spec == Init /\ [][Next]_vars

(* The service's thread keeps running, and a deadline that is tested again *)
(* and again is found expired: by a pass, four seconds for an unfinished   *)
(* segment, two for a missing footer, eight without a boundary or two      *)
(* between checks of the recorder, one of them for all; six to align a     *)
(* start; 45 to stop.  Nothing is assumed of the recorder, which may stop  *)
(* publishing at any point.                                                *)
Fairness ==
  /\ WF_vars(Service)
  /\ SF_vars(StalePending \/ StaleOpen \/ StalledRecorder \/ RejectSegment
             \/ QuarantineSuspect \/ SuperviseLoss)
  /\ SF_vars(AlignTimeout) /\ SF_vars(StopTimeout)

FairSpec == Spec /\ Fairness

-----------------------------------------------------------------------------
(* Type invariant: every variable of the recorder, the card and the        *)
(* service stays in its range.                                             *)
RingTypeOK ==
  /\ prod \in {"running", "stopped", "dead"} /\ born \in 0 .. MaxSeg /\ opened \in 0 .. MaxSeg
  /\ ringMcap \subseteq Seg /\ ringStat \subseteq Seg /\ closed \subseteq Seg
  /\ side \in [Seg -> SideKinds] /\ ctr \in [Seg -> Nat] /\ prog \in [Seg -> Nat]
  /\ upsets \in 0 .. MaxUpset

CardTypeOK ==
  /\ disk \in [Sess -> {"none", "recording", "complete", "failed"}]
  /\ sdMcap \in [Sess -> SUBSET Seg] /\ sdStat \in [Sess -> SUBSET Seg]
  /\ listed \in [Sess -> SUBSET Seg] /\ exported \in [Sess -> SUBSET Seg]
  /\ sdState \in [Sess -> {"none", "recording", "complete", "failed"}]
  /\ sdListed \in [Sess -> SUBSET Seg] /\ sdExported \in [Sess -> SUBSET Seg]
  /\ activeMark \in BOOLEAN /\ quarMark \in BOOLEAN

FlowTypeOK ==
  /\ pc \in PCs /\ ret \in PassReturns /\ after \in Resume /\ note \in BOOLEAN
  /\ quar \in BOOLEAN

PassTypeOK ==
  /\ todo \subseteq Seg /\ why \in {"none", "idle", "warmup", "capture"}
  /\ terminal \in BOOLEAN /\ seenOpen \subseteq Seg /\ seenSide \subseteq Seg

CaptureTypeOK ==
  /\ cap \in {"idle", "live", "failed"} /\ finalizing \in BOOLEAN /\ stopSeg \in 0 .. MaxSeg
  /\ sess \in 0 .. MaxSess /\ files \subseteq Seg /\ moved \in BOOLEAN
  /\ capBase \in 0 .. MaxSeg /\ capLast \in 0 .. MaxSeg

BaselineTypeOK ==
  /\ adopted \in BOOLEAN /\ baseLast \in 0 .. MaxSeg /\ baseStable \in 0 .. StableSegments
  /\ hasClean \in BOOLEAN /\ genMoved \in BOOLEAN /\ reqLast \in 0 .. MaxSeg
  /\ discarded \in BOOLEAN

HistoryTypeOK ==
  /\ used \in 0 .. MaxSess /\ boundary \in 0 .. MaxSeg /\ from \in [Sess -> 0 .. MaxSeg]
  /\ claimed \subseteq Sess /\ acked \subseteq Sess /\ reqOpened \in 0 .. MaxSeg

BudgetTypeOK ==
  /\ faults \in 0 .. MaxFault /\ crashes \in 0 .. MaxCrash /\ powers \in 0 .. MaxPower

TypeOK ==
  /\ RingTypeOK /\ CardTypeOK /\ FlowTypeOK /\ PassTypeOK /\ CaptureTypeOK
  /\ BaselineTypeOK /\ HistoryTypeOK /\ BudgetTypeOK

(* What the session manifest or the export manifest lists is durable on    *)
(* the card, both the MCAP and its sidecar: copy_closed_segment never      *)
(* publishes a name before its files.                                      *)
ListedIsDurable ==
  \A s \in Sess : listed[s] \cup exported[s] \subseteq sdMcap[s] \cap sdStat[s]

(* A session that is "complete" on the card is exactly the run of segments *)
(* from the one after the boundary discarded at its start to its last,     *)
(* with the drop counters it started with and progress in every segment;   *)
(* its last segment is the one that was open when the stop was requested.  *)
(* Its export manifest lists the same files, unless the power went away    *)
(* before the stop was answered and left an empty one.                     *)
CompleteIsWhole ==
  \A s \in Sess : disk[s] = "complete" =>
    /\ listed[s] # {} /\ listed[s] = (from[s] + 1) .. Max(listed[s])
    /\ \A i \in listed[s] : side[i] = "clean" /\ integrity_counters_equal(i, from[s])
    /\ \A i, j \in {from[s]} \cup listed[s] : i < j => integrity_progress_advanced(j, i)
    /\ exported[s] = listed[s] \/ (exported[s] = {} /\ powers > 0 /\ s \notin acked)
    /\ sess = s /\ stopSeg # 0 => stopSeg = Max(listed[s])

(* Once a start has been answered, every segment recorded from the start   *)
(* boundary on is in the ring or saved and listed, until the session is    *)
(* complete, whatever fails and however often the service restarts; only a *)
(* power loss empties the ring.                                            *)
CapturedIsKept ==
  powers = 0 =>
    \A s \in claimed : disk[s] # "complete" =>
      \A i \in (from[s] + 1) .. opened :
        i \in ringMcap \/ i \in sdMcap[s] \cap sdStat[s] \cap listed[s]

(* Once the service is in its loop, a session with saved segments that is  *)
(* neither complete nor being recorded has the ring quarantined.           *)
InterruptedIsQuarantined ==
  pc \in {"idle", "accept"} /\ powers = 0 =>
    \A s \in claimed : quar \/ disk[s] = "complete" \/ (cap = "live" /\ sess = s)

(* While the ring is quarantined a pair leaves it only when it is saved in *)
(* the session being recorded.                                             *)
QuarantineHoldsRing ==
  [][quar /\ powers' = powers =>
       \A i \in ringMcap \ ringMcap' :
         sess # 0 /\ i \in sdMcap[sess] \cap sdStat[sess] \cap exported[sess]]_vars

(* While a stop is being served the boundary it found stays, and no        *)
(* segment past it is saved to the session.                                *)
StopBoundaryHolds ==
  [][finalizing /\ finalizing' /\ stopSeg # 0 =>
       stopSeg' = stopSeg /\ \A i \in sdMcap'[sess] \ sdMcap[sess] : i <= stopSeg]_vars

(* The engine keeps what CaptureLife promises: one capture at a time, each *)
(* ends once, none becomes complete after its end, and one whose stop was  *)
(* answered is complete from then on, whatever fails, crashes or loses     *)
(* power afterwards (begin_capture, finalize_capture, write_atomic_text,   *)
(* recover_interrupted_sessions).  Where session.json and what a power     *)
(* loss would leave of it differ, a session is complete if either is, but  *)
(* an answered one only if both are.                                       *)
IsComplete(s) ==
  IF s \in acked THEN disk[s] = "complete" /\ sdState[s] = "complete"
                 ELSE disk[s] = "complete" \/ sdState[s] = "complete"

Status(s) ==
  IF s > used THEN "new" ELSE IF s = sess THEN "running"
  ELSE IF IsComplete(s) THEN "complete" ELSE "ended"

Life == INSTANCE CaptureLife WITH
  Sessions <- Sess, status <- [s \in Sess |-> Status(s)], promised <- acked

LifeSpec == Life!Spec

(* A session starts after the segment that was open when it was requested. *)
StartsAtBoundary == cap # "idle" => from[sess] >= reqOpened

(* No capture becomes active while the ring is quarantined. *)
NoCaptureWhileQuarantined == [][cap = "idle" /\ cap' = "live" => ~quar]_vars

(* A start or stop request is answered whatever the recorder does.         *)
RequestsAreAnswered == ret # "supervise" ~> ret = "supervise"

(* A published pair does not stay in the tmpfs: it is retired, or the ring *)
(* is quarantined and the recorder that fills it is stopped.               *)
RingDrains == \A i \in Seg : Published(i) ~> (i \notin ringStat \/ quar)

(* A recorder that exits does not go unnoticed.                            *)
RecorderLossIsNoticed == prod = "dead" ~> (quar \/ prod = "running")

(* A recorder frozen for a quarantine is killed, even when the service     *)
(* dies before it has written the marker.                                  *)
FrozenIsKilled == prod = "stopped" ~> prod = "dead"
=============================================================================
