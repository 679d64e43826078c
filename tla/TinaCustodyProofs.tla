-------------------------- MODULE TinaCustodyProofs --------------------------
(***************************************************************************)
(* Theorems about what the capture engine keeps: answered stops, the       *)
(* boundary of a stop, the quarantine of interrupted sessions, the custody *)
(* of captured segments over failures, crashes and restarts, the boundary  *)
(* of a start, the segments of complete sessions, and CaptureLife.         *)
(***************************************************************************)
EXTENDS TinaCaptureProofs

-----------------------------------------------------------------------------
(* Which session is whose.                                                 *)

Committed == {"commitExport", "clearMark"}

(* session.json says "complete", and still will after a power loss. *)
Lasting(s) == disk[s] = "complete" /\ sdState[s] = "complete"

(* The session being recorded is the last one begun, and no stop of it has *)
(* been answered yet.                                                      *)
Sessions ==
  /\ sess = IF cap = "idle" THEN 0 ELSE used
  /\ \A s \in claimed \cup acked : s <= used
  /\ sess \notin acked
  /\ pc \in Committed => cap = "live" /\ Lasting(sess)
  /\ \A s \in acked : Lasting(s)

(* Most steps leave the sessions alone and at most fail the capture. *)
LeavesSessions ==
  /\ UNCHANGED <<disk, sdState, used, claimed, acked, sess>>
  /\ cap' = cap \/ (cap = "live" /\ cap' = "failed")
  /\ pc' \in Committed => pc' = pc /\ cap' = cap

(* The steps that do more than that. *)
OnSessions ==
  \/ FailState \/ WriteJson \/ RecoverSessions \/ Crash \/ PowerLoss
  \/ Activate \/ OpenSession \/ UndoStart
  \/ StopFail \/ CommitSession \/ CommitExport \/ ClearMark

LEMMA SessionEffect ==
  ASSUME TypeInv, Next
  PROVE  OnSessions \/ LeavesSessions
<1> USE DEF LeavesSessions, Committed, sdVars, histVars, capVars, flowVars
<1>a. FlowTypeOK => {ret, after, "failState"} \cap Committed = {} /\ PassReturns \cap Committed = {}
  BY DEF FlowTypeOK, Resume, PassReturns
<1>1. CASE Recorder
  BY <1>1 DEF Recorder, OpenSegment, RecorderExit, CloseSegment, CreateSidecar, PublishSidecar, notRing
<1>2. CASE Quarantining
  BY <1>2, <1>a DEF Quarantining, PersistQuarantine, GoTo, OnSessions, TypeInv, TypeOK
<1>3. CASE ProcessEntry
  <2>1. CASE EndEntries \/ PendingEntry \/ SettlingEntry \/ SkipForFailedCapture \/ SkipSuspect
    BY <2>1 DEF EndEntries, PendingEntry, SettlingEntry, SkipForFailedCapture, SkipSuspect, SkipEntry,
         GoTo, notPass
  <2>2. CASE StalePending \/ RejectSegment \/ QuarantineSuspect
    BY <2>2 DEF StalePending, RejectSegment, QuarantineSuspect, FailOrQuarantineThen, FailCaptureThen,
         QuarantineThen, capRest, notPass
  <2>3. CASE AcceptSegment BY <2>3 DEF AcceptSegment, GoTo, notPass
  <2>4. CASE ObserveSteady \/ ObserveUnsteady \/ InvalidateBaseline \/ DiscardResidue
    BY <2>4 DEF ObserveSteady, ObserveUnsteady, InvalidateBaseline, DiscardResidue,
         RetireUnlessQuarantined, RetireOrLeave, SkipEntry, GoTo, notPass
  <2> QED BY <1>3, <2>1, <2>2, <2>3, <2>4 DEF ProcessEntry
<1>4. CASE MoveSegment
  <2>1. CASE CopyMcap \/ CopyStat \/ WriteExport
    BY <2>1 DEF CopyMcap, CopyStat, WriteExport, WriteManifest, CopyNext, CopyFailed, FailCaptureThen,
         QuarantineThen, capRest, GoTo
  <2>2. CASE RetireMcap \/ RetireStat
    BY <2>2 DEF RetireMcap, RetireStat, Retired, RetireFailed, FailCaptureThen, QuarantineThen, capRest,
         GoTo, notRetire
  <2> QED BY <1>4, <2>1, <2>2 DEF MoveSegment, OnSessions
<1>5. CASE EndPass \/ Loop
  BY <1>5, <1>a DEF EndPass, PassQuiet, StaleOpen, StalledRecorder, Loop, LoopPass, SuperviseQuiet,
         SuperviseLoss, NoRequest, Pass, StartPass, GoTo, FailOrQuarantineThen, FailCaptureThen,
         QuarantineThen, capRest, notPass, elsewhere, TypeInv, TypeOK
<1>6. CASE BeginCapture
  BY <1>6 DEF BeginCapture, StartRequest, AlignBase, AlignAgain, AlignRefused, AlignTimeout, Aligned,
         RefuseUnfinished, WriteMark, Pass, StartPass, GoTo, QuarantineThen, elsewhere, OnSessions
<1>7. CASE FinalizeCapture
  BY <1>7 DEF FinalizeCapture, StopFailedCapture, StopRequest, StopInterrupted, StopRecorderGone,
         StopSaved, StopWait, StopTimeout, GiveUp, Pass, StartPass, GoTo, QuarantineThen,
         FailCaptureThen, capRest, elsewhere, OnSessions
<1>8. CASE Boot
  BY <1>8 DEF Boot, LoadQuarantine, RecoverActive, NothingToRecover, BootAdopt, BootQuarantined,
         BootDone, BootStartRecorder, BootWithoutRecorder, Pass, StartPass, GoTo, QuarantineThen,
         elsewhere, bootVars, OnSessions
<1> QED BY <1>1, <1>2, <1>3, <1>4, <1>5, <1>6, <1>7, <1>8 DEF Next, Service, OnSessions

LEMMA QuietSessions ==
  ASSUME Sessions, LeavesSessions
  PROVE  Sessions'
BY DEF Sessions, LeavesSessions, Lasting

(* The manifests of the session being recorded are replaced, or those of   *)
(* the interrupted sessions.                                               *)
LEMMA WriteKeepsAnswers ==
  ASSUME TypeInv, Sessions,
         \/ \E o \in Outcome, state \in {"recording", "complete", "failed"} : WriteSession(o, state)
         \/ \E o \in Outcome : WriteManifest(o)
         \/ \E done \in SUBSET interrupted : \E told \in SUBSET done : MarkInterrupted(done, told)
  PROVE  \A s \in acked : Lasting(s)'
<1>1. \A s \in acked : s \in Sess /\ s # sess /\ Lasting(s)
  BY DEF TypeInv, TypeOK, HistoryTypeOK, Sessions
<1>2. ASSUME NEW o, NEW state, WriteSession(o, state) PROVE \A s \in acked : Lasting(s)'
  BY <1>1, <1>2 DEF WriteSession, Lasting, TypeInv, TypeOK, CardTypeOK
<1>3. ASSUME NEW o, WriteManifest(o) PROVE \A s \in acked : Lasting(s)'
  BY <1>1, <1>3 DEF WriteManifest, Lasting
<1>4. ASSUME NEW done \in SUBSET interrupted, NEW told \in SUBSET done, MarkInterrupted(done, told)
      PROVE  \A s \in acked : Lasting(s)'
  <2>1. \A s \in acked : s \notin done BY <1>1 DEF interrupted, Lasting
  <2> QED BY <1>1, <1>4, <2>1 DEF MarkInterrupted, Lasting
<1> QED BY <1>2, <1>3, <1>4

LEMMA SessionsStep == TypeInv /\ Control /\ Sessions /\ [Next]_vars => Sessions'
<1> SUFFICES ASSUME TypeInv, Control, Sessions, [Next]_vars PROVE Sessions' OBVIOUS
<1>t. /\ claimed \subseteq Sess /\ acked \subseteq Sess /\ used \in Nat /\ sess \in 0 .. MaxSess
      /\ disk \in [Sess -> {"none", "recording", "complete", "failed"}]
  BY BoundsAssumption DEF TypeInv, TypeOK, HistoryTypeOK, CaptureTypeOK, CardTypeOK
<1>1. CASE UNCHANGED vars
  BY <1>1 DEF vars, Sessions, Lasting, sdVars, histVars, capVars, flowVars
<1>2. CASE LeavesSessions BY <1>2, QuietSessions
<1>a. \A p \in {"idle", "undo", "quarMark", "writeExport", "boot", "bootAdopt", "mark"} : p \notin Committed
  BY DEF Committed
<1>b. TypeOK => after \notin Committed BY DEF TypeOK, FlowTypeOK, Resume, PassReturns, Committed
<1>3. CASE FailState \/ StopFail
  <2>1. \A s \in acked : Lasting(s)'
    BY <1>3, WriteKeepsAnswers DEF FailState, StopFail
  <2>2. pc' \notin Committed /\ UNCHANGED <<used, claimed, acked>>
    BY <1>3, <1>a, <1>b DEF FailState, StopFail, GoTo, histVars, TypeInv
  <2>3. UNCHANGED <<cap, sess>> \/ reset_capture BY <1>3 DEF FailState, StopFail, capVars
  <2>4. 0 \notin acked BY <1>t DEF Sess
  <2> QED BY <2>1, <2>2, <2>3, <2>4 DEF Sessions, reset_capture
<1>4. CASE WriteJson
  <2>1. \A s \in acked : Lasting(s)' BY <1>4, WriteKeepsAnswers DEF WriteJson
  <2>2. /\ pc' \notin Committed /\ UNCHANGED <<used, claimed, acked, sess>>
        /\ cap' = cap \/ (cap = "live" /\ cap' = "failed")
    BY <1>4, <1>a DEF WriteJson, CopyNext, CopyFailed, FailCaptureThen, QuarantineThen, GoTo, histVars,
                      capVars, capRest
  <2> QED BY <2>1, <2>2 DEF Sessions
<1>5. CASE RecoverSessions
  <2>1. \A s \in acked : Lasting(s)'
    BY <1>5, WriteKeepsAnswers DEF RecoverSessions
  <2>2. pc' \notin Committed /\ UNCHANGED <<used, claimed, acked, sess, cap>>
    BY <1>5, <1>a DEF RecoverSessions, QuarantineThen, GoTo, bootVars, histVars, capVars
  <2> QED BY <2>1, <2>2 DEF Sessions
<1>6. CASE Crash \/ PowerLoss \/ UndoStart
  <2>1. reset_capture /\ pc' \notin Committed /\ UNCHANGED <<used, claimed, acked>>
    BY <1>6, <1>a DEF Crash, PowerLoss, ServiceRestarts, UndoStart, GoTo, histVars
  <2>2. 0 \notin acked BY <1>t DEF Sess
  <2>3. \A s \in acked : Lasting(s)'
    <3>1. CASE UNCHANGED sdVars BY <2>1, <3>1 DEF Sessions, Lasting, sdVars
    <3>2. CASE PowerLoss BY <3>2 DEF PowerLoss, Sessions, Lasting
    <3>3. CASE Crash /\ ~UNCHANGED sdVars BY <3>3, WriteKeepsAnswers DEF Crash, CutShort
    <3>4. UndoStart => UNCHANGED sdVars BY DEF UndoStart
    <3> QED BY <1>6, <3>1, <3>2, <3>3, <3>4
  <2> QED BY <2>1, <2>2, <2>3 DEF Sessions, reset_capture
<1>7. CASE Activate
  <2>1. /\ cap' = "live" /\ used' = used + 1 /\ sess' = used + 1 /\ pc' = "mark"
        /\ UNCHANGED <<disk, sdState, claimed, acked>>
    BY <1>7 DEF Activate, GoTo, sdVars
  <2>2. \A s \in claimed \cup acked : s \in Int /\ s <= used /\ s < used + 1 BY <1>t DEF Sessions, Sess
  <2>3. \A s \in acked : Lasting(s)' BY <2>1 DEF Sessions, Lasting
  <2> QED BY <1>a, <1>t, <2>1, <2>2, <2>3 DEF Sessions
<1>8. CASE OpenSession
  <2>1. \A s \in acked : Lasting(s)' BY <1>8, WriteKeepsAnswers DEF OpenSession
  <2>2. cap = "live" /\ sess = used BY <1>8 DEF OpenSession, Control, Writing, Sessions
  <2>3. /\ pc' \notin Committed /\ UNCHANGED <<used, acked, sess, cap>>
        /\ claimed' \subseteq claimed \cup {sess}
    BY <1>8, <1>a DEF OpenSession, GoTo, capVars
  <2>4. \A s \in claimed' \cup acked' : s <= used' BY <1>t, <2>2, <2>3 DEF Sessions
  <2> QED BY <2>1, <2>2, <2>3, <2>4 DEF Sessions
<1>9. CASE CommitSession \/ CommitExport \/ ClearMark
  <2>1. cap = "live" /\ sess = used /\ sess # 0 /\ sess \in Sess
    BY <1>9, <1>t DEF CommitSession, CommitExport, ClearMark, Control, Writing, Sessions, Sess
  <2>2. \A s \in acked : Lasting(s)'
    BY <1>9, WriteKeepsAnswers
    DEF CommitSession, CommitExport, ClearMark, sdVars, Sessions, Lasting
  <2>3. CASE CommitFailed
    <3>1. cap' = "failed" /\ pc' \notin Committed /\ UNCHANGED <<used, claimed, acked, sess>>
      BY <1>9, <1>a, <2>3 DEF CommitFailed, FailCaptureThen, QuarantineThen, CommitSession,
           CommitExport, ClearMark, histVars, capRest, reset_capture
    <3> QED BY <2>1, <2>2, <3>1 DEF Sessions
  <2>4. CASE CommitSession /\ ~CommitFailed
    <3>1. PICK o \in Outcome : WriteSession(o, "complete") /\ Told(o)
      BY <2>4 DEF CommitSession
    <3>2. UNCHANGED <<used, claimed, acked, sess, cap>>
      BY <2>4 DEF CommitSession, CommitNext, histVars, capVars
    <3>3. disk'[sess] = "complete" /\ sdState'[sess] = "complete"
      BY <1>t, <2>1, <3>1 DEF Told, Commits, Stored, WriteSession, TypeInv, TypeOK, CardTypeOK
    <3>4. Lasting(sess)' BY <3>2, <3>3 DEF Lasting
    <3> QED BY <2>1, <2>2, <3>2, <3>4 DEF Sessions
  <2>5. CASE CommitExport /\ ~CommitFailed
    <3>1. Lasting(sess) BY <2>5 DEF CommitExport, Sessions, Committed
    <3>2. UNCHANGED <<used, claimed, acked, sess, cap, disk, sdState>>
      BY <2>5 DEF CommitExport, WriteManifest, CommitNext, histVars, capVars
    <3>3. Lasting(sess)' BY <3>1, <3>2 DEF Lasting
    <3> QED BY <2>1, <2>2, <3>2, <3>3 DEF Sessions
  <2>6. CASE ClearMark /\ ~CommitFailed
    <3>1. Lasting(sess) BY <2>6 DEF ClearMark, Sessions, Committed
    <3>2. /\ acked' = acked \cup {sess} /\ reset_capture /\ pc' \notin Committed
          /\ UNCHANGED <<used, claimed, disk, sdState>>
      BY <1>a, <2>6 DEF ClearMark, GoTo, sdVars
    <3>3. 0 \notin acked' BY <1>t, <2>1, <3>2 DEF Sess
    <3>4. \A s \in claimed' \cup acked' : s <= used' BY <1>t, <2>1, <3>2 DEF Sessions
    <3>5. \A s \in acked' : Lasting(s)' BY <3>1, <3>2 DEF Sessions, Lasting
    <3> QED BY <2>1, <3>2, <3>3, <3>4, <3>5 DEF Sessions, reset_capture
  <2> QED BY <1>9, <2>3, <2>4, <2>5, <2>6
<1> QED BY <1>1, <1>2, <1>3, <1>4, <1>5, <1>6, <1>7, <1>8, <1>9, SessionEffect DEF OnSessions

LEMMA InitSessions == Init => Sessions
BY DEF Init, ServiceStart, Sessions, Committed

LEMMA SessionsAlways == Spec => [](TypeInv /\ Control /\ Sessions)
BY InitType, InitSessions, TypeStep, SessionsStep, PTL DEF Spec

(* A stop that has been answered "completed" stays true: no failure, crash *)
(* or power loss, and no later capture, turns the session into anything    *)
(* else than a complete one.                                               *)
THEOREM AnswersAreFinal == Spec => [](\A s \in acked : Lasting(s))
<1>1. Sessions => \A s \in acked : Lasting(s) BY DEF Sessions
<1> QED BY <1>1, SessionsAlways, PTL

-----------------------------------------------------------------------------
(* The boundary of a stop.                                                 *)

(* Where the service can be while it stops a live capture. *)
Stopping == /\ ret = "stopCheck"
            /\ \/ pc \in {"entry", "passEnd", "stopCheck", "commit", "stopFail"}
               \/ pc \in Committed \cup Carrying \cup Retiring
               \/ pc \in {"quarMark", "failState"} /\ after = "stopFail"

Stops ==
  /\ finalizing => cap # "idle"
  /\ finalizing /\ cap = "live" => Stopping
  /\ pc \in Retiring /\ why # "capture" => cap = "idle"
  /\ finalizing /\ stopSeg # 0 /\ pc \in Carrying => cur <= stopSeg

LEMMA StopsStep == TypeInv /\ Control /\ Stops /\ [Next]_vars => Stops'
<1> SUFFICES ASSUME TypeInv, Control, Stops, [Next]_vars PROVE Stops' OBVIOUS
<1> USE DEF Stops, Stopping, Committed, Carrying, Retiring
<1>1. CASE UNCHANGED vars \/ Recorder
  <2>1. UNCHANGED <<capVars, flowVars, passVars>>
    BY <1>1 DEF vars, notRing, Recorder, OpenSegment, RecorderExit, CloseSegment, CreateSidecar,
                PublishSidecar
  <2> QED BY <2>1 DEF capVars, flowVars, passVars, cur
<1>2. CASE Quarantining
  <2>1. /\ UNCHANGED <<finalizing, cap, ret, after>>
        /\ pc \in {"quarMark", "failState"} /\ (pc' = after \/ pc' = "failState")
    BY <1>2 DEF Quarantining, PersistQuarantine, FailState, capVars, GoTo
  <2>2. pc' \in Resume \cup {"failState"} BY <2>1 DEF TypeInv, TypeOK, FlowTypeOK
  <2> QED BY <2>1, <2>2 DEF Resume, PassReturns
<1>3. CASE ProcessEntry
  <2>1. CASE EndEntries \/ PendingEntry \/ SettlingEntry \/ SkipForFailedCapture \/ SkipSuspect
    <3>1. pc = "entry" /\ pc' \in {"entry", "passEnd"} /\ UNCHANGED <<capVars, ret, after>>
      BY <2>1 DEF EndEntries, PendingEntry, SettlingEntry, SkipForFailedCapture, SkipSuspect, Suspect,
           SkipEntry, GoTo, AtEntry, RipeEntry, CleanEntry
    <3> QED BY <3>1 DEF capVars
  <2>2. CASE StalePending \/ RejectSegment \/ QuarantineSuspect
    <3>1. /\ pc = "entry" /\ pc' = "quarMark" /\ cap' # "live" /\ (cap' = "idle" => cap = "idle")
          /\ UNCHANGED finalizing
      BY <2>2 DEF StalePending, RejectSegment, QuarantineSuspect, Suspect, FailOrQuarantineThen,
           FailCaptureThen, QuarantineThen, capRest, capVars, AtEntry, RipeEntry, TypeInv, TypeOK,
           CaptureTypeOK
    <3> QED BY <3>1
  <2>3. CASE AcceptSegment
    <3>1. /\ pc = "entry" /\ pc' = "copyMcap" /\ why' = "capture" /\ cap = "live"
          /\ UNCHANGED <<cap, finalizing, stopSeg, sess, ret, todo>> /\ ~BeyondStop /\ todo # {}
      BY <2>3 DEF AcceptSegment, GoTo, CleanEntry, RipeEntry, AtEntry
    <3>2. cur \in Seg /\ stopSeg \in Nat /\ UNCHANGED cur
      BY <3>1, CurBelongs, BoundsAssumption DEF TypeInv, TypeOK, PassTypeOK, CaptureTypeOK, cur
    <3>3. finalizing /\ stopSeg # 0 => cur <= stopSeg BY <3>1, <3>2 DEF BeyondStop, Seg
    <3> QED BY <3>1, <3>2, <3>3
  <2>4. CASE ObserveSteady \/ ObserveUnsteady \/ InvalidateBaseline \/ DiscardResidue
    <3>1. cap = "idle" /\ UNCHANGED capVars /\ pc' \in {"entry", "retireMcap"}
      BY <2>4 DEF ObserveSteady, ObserveUnsteady, InvalidateBaseline, DiscardResidue,
           RetireUnlessQuarantined, RetireOrLeave, SkipEntry, GoTo
    <3> QED BY <3>1 DEF capVars
  <2> QED BY <1>3, <2>1, <2>2, <2>3, <2>4 DEF ProcessEntry
<1>4. CASE MoveSegment
  <2>1. CASE CopyFailed \/ RetireFailed
    <3>1. /\ pc' = "quarMark" /\ UNCHANGED finalizing
          /\ (cap = "live" /\ cap' = "failed") \/ (why # "capture" /\ UNCHANGED cap)
      BY <2>1 DEF CopyFailed, RetireFailed, FailCaptureThen, QuarantineThen, capRest
    <3>2. CASE cap = "live" /\ cap' = "failed" BY <3>1, <3>2
    <3>3. CASE why # "capture" /\ UNCHANGED cap
      <4>1. pc \in Carrying \cup Retiring
        BY <1>4 DEF MoveSegment, CopyMcap, CopyStat, WriteJson, WriteExport, RetireMcap, RetireStat
      <4>2. cap = "idle" BY <3>3, <4>1 DEF Control
      <4> QED BY <3>1, <3>3, <4>2
    <3> QED BY <3>1, <3>2, <3>3
  <2>2. CASE (CopyMcap \/ CopyStat \/ WriteJson \/ WriteExport) /\ ~CopyFailed
    <3>1. /\ pc \in Carrying /\ pc' \in {"copyStat", "writeJson", "writeExport", "retireMcap"}
          /\ UNCHANGED <<ret, after, finalizing, stopSeg, cap, todo, why>>
      BY <2>2 DEF CopyMcap, CopyStat, WriteJson, WriteExport, CopyNext, GoTo, capVars, passVars
    <3>2. why = "capture" BY <3>1 DEF Control
    <3>3. UNCHANGED cur BY <3>1 DEF cur
    <3> QED BY <3>1, <3>2, <3>3
  <2>3. CASE (RetireMcap \/ RetireStat) /\ ~RetireFailed
    <3>1. /\ pc \in Retiring /\ pc' \in {"retireStat", "passEnd", "entry"}
          /\ UNCHANGED <<ret, after, finalizing, cap, why>>
      BY <2>3 DEF RetireMcap, RetireStat, Retired, GoTo, capVars, notRetire
    <3> QED BY <3>1
  <2> QED BY <1>4, <2>1, <2>2, <2>3 DEF MoveSegment
<1>5. CASE EndPass \/ Loop
  <2>1. CASE PassQuiet
    <3>1. pc = "passEnd" /\ pc' = ret /\ ret' = ret /\ UNCHANGED <<cap, finalizing>> /\ ret \in PassReturns
      BY <2>1 DEF PassQuiet, GoTo, capVars, TypeInv, TypeOK, FlowTypeOK
    <3> QED BY <3>1 DEF PassReturns
  <2>2. CASE StaleOpen \/ StalledRecorder \/ SuperviseLoss
    <3>1. /\ pc' = "quarMark" /\ cap' # "live" /\ (cap' = "idle" => cap = "idle") /\ UNCHANGED finalizing
      BY <2>2 DEF StaleOpen, StalledRecorder, SuperviseLoss, LossWhileIdle, FailOrQuarantineThen,
           FailCaptureThen, QuarantineThen, capRest, TypeInv, TypeOK, CaptureTypeOK
    <3> QED BY <3>1
  <2>3. CASE LoopPass \/ SuperviseQuiet \/ NoRequest
    <3>1. /\ pc \in {"idle", "supervise", "accept"} /\ pc' \in {"entry", "accept", "idle"}
          /\ UNCHANGED <<cap, finalizing>>
      BY <2>3 DEF LoopPass, SuperviseQuiet, NoRequest, Pass, StartPass, GoTo, capVars
    <3> QED BY <3>1
  <2> QED BY <1>5, <2>1, <2>2, <2>3 DEF EndPass, Loop
<1>6. CASE BeginCapture
  <2>1. CASE Activate \/ UndoStart
    BY <2>1 DEF Activate, UndoStart, reset_capture, GoTo
  <2>2. CASE ~Activate /\ ~UndoStart
    <3>1. /\ UNCHANGED <<cap, finalizing>>
          /\ pc \in {"accept", "alignBase", "alignCheck", "alignPending", "mark", "openSess"}
          /\ pc' \in {"entry", "alignCheck", "idle", "alignPending", "quarMark", "openSess", "undo"}
      BY <1>6, <2>2 DEF BeginCapture, StartRequest, AlignBase, AlignAgain, AlignRefused, AlignTimeout,
           Aligned, RefuseUnfinished, WriteMark, OpenSession, Pass, StartPass, GoTo, QuarantineThen,
           capVars
    <3> QED BY <3>1
  <2> QED BY <2>1, <2>2
<1>7. CASE FinalizeCapture
  <2>1. CASE StopRequest \/ StopWait
    BY <2>1 DEF StopRequest, StopWait, Draining, Pass, StartPass
  <2>2. CASE StopFailedCapture \/ StopInterrupted \/ StopRecorderGone \/ CommitFailed
    <3>1. cap' = "failed" /\ pc' \notin Carrying \cup Retiring
      BY <2>2 DEF StopFailedCapture, StopInterrupted, StopRecorderGone, CommitFailed, FailCaptureThen,
           QuarantineThen, capVars, GoTo
    <3> QED BY <3>1
  <2>3. CASE StopSaved \/ StopTimeout
    <3>1. /\ pc = "stopCheck" /\ UNCHANGED <<cap, finalizing, ret>> /\ cap = "live"
          /\ pc' = "commit" \/ (pc' = "quarMark" /\ after' = "stopFail")
      BY <2>3 DEF StopSaved, StopTimeout, Draining, GiveUp, QuarantineThen, GoTo, capVars
    <3> QED BY <3>1
  <2>4. CASE StopFail BY <2>4 DEF StopFail, reset_capture, GoTo
  <2>5. CASE (CommitSession \/ CommitExport) /\ ~CommitFailed
    <3>1. pc \in Writing /\ pc' \in Committed /\ UNCHANGED <<cap, finalizing, ret>>
      BY <2>5 DEF CommitSession, CommitExport, CommitNext, GoTo, capVars, Writing
    <3>2. cap = "live" BY <3>1 DEF Control
    <3> QED BY <3>1, <3>2
  <2>6. CASE ClearMark /\ ~CommitFailed BY <2>6 DEF ClearMark, reset_capture, GoTo
  <2> QED BY <1>7, <2>1, <2>2, <2>3, <2>4, <2>5, <2>6 DEF FinalizeCapture
<1>8. CASE Boot
  <2>1. /\ UNCHANGED <<cap, finalizing>> /\ pc \in {"boot", "bootSess", "bootAdopt", "bootStart"}
        /\ pc' \in {"bootSess", "bootAdopt", "entry", "idle", "quarMark"}
    BY <1>8 DEF Boot, LoadQuarantine, RecoverActive, NothingToRecover, RecoverSessions, BootAdopt,
         BootQuarantined, BootDone, BootStartRecorder, BootWithoutRecorder, Pass, StartPass, GoTo,
         QuarantineThen, bootVars, capVars
  <2> QED BY <2>1
<1>9. CASE Crash \/ PowerLoss BY <1>9 DEF Crash, PowerLoss, ServiceRestarts, reset_capture
<1> QED BY <1>1, <1>2, <1>3, <1>4, <1>5, <1>6, <1>7, <1>8, <1>9 DEF Next, Service

LEMMA InitStops == Init => Stops
BY DEF Init, ServiceStart, Stops, Retiring

LEMMA StopsAlways == Spec => [](TypeInv /\ Control /\ Stops)
BY InitType, InitStops, TypeStep, StopsStep, PTL DEF Spec

(* The steps that look the boundary up, forget it, or save a segment. *)
LEMMA BoundaryEffect ==
  ASSUME Next
  PROVE  /\ \/ StopRequest \/ StopWait \/ StopTimeout \/ ~finalizing'
            \/ UNCHANGED stopSeg
         /\ CopyMcap \/ UNCHANGED sdMcap
<1> USE DEF capVars, capRest, sdVars
<1>1. CASE Recorder
  BY <1>1 DEF Recorder, OpenSegment, RecorderExit, CloseSegment, CreateSidecar, PublishSidecar, notRing
<1>2. CASE Quarantining BY <1>2 DEF Quarantining, PersistQuarantine, FailState, WriteSession
<1>3. CASE ProcessEntry
  BY <1>3 DEF ProcessEntry, EndEntries, PendingEntry, StalePending, SettlingEntry, AcceptSegment,
         RejectSegment, SkipForFailedCapture, ObserveSteady, ObserveUnsteady, InvalidateBaseline,
         DiscardResidue, QuarantineSuspect, SkipSuspect, notPass
<1>4. CASE MoveSegment
  BY <1>4 DEF MoveSegment, CopyMcap, CopyStat, WriteJson, WriteExport, CopyNext, CopyFailed, RetireMcap,
         RetireStat, Retired, RetireFailed, WriteSession, WriteManifest, notRetire
<1>5. CASE EndPass \/ Loop
  BY <1>5 DEF EndPass, PassQuiet, StaleOpen, StalledRecorder, Loop, LoopPass, SuperviseQuiet,
         SuperviseLoss, NoRequest, Pass, notPass, elsewhere
<1>6. CASE BeginCapture
  BY <1>6 DEF BeginCapture, StartRequest, AlignBase, AlignAgain, AlignRefused, AlignTimeout, Aligned,
         RefuseUnfinished, Activate, WriteMark, OpenSession, UndoStart, Pass, elsewhere, WriteSession,
         reset_capture
<1>7. CASE FinalizeCapture
  BY <1>7 DEF FinalizeCapture, StopFailedCapture, StopRequest, StopInterrupted, StopRecorderGone,
         StopSaved, StopWait, StopTimeout, StopFail, CommitSession, CommitExport, ClearMark,
         CommitFailed, CommitNext, Pass, elsewhere, WriteSession, WriteManifest, reset_capture
<1>8. CASE Boot
  BY <1>8 DEF Boot, LoadQuarantine, RecoverActive, NothingToRecover, RecoverSessions, BootAdopt,
         BootQuarantined, BootDone, BootStartRecorder, BootWithoutRecorder, Pass, elsewhere, bootVars, MarkInterrupted
<1>9. CASE Crash \/ PowerLoss
  BY <1>9 DEF Crash, CutShort, PowerLoss, ServiceRestarts, reset_capture, WriteSession, WriteManifest,
         MarkInterrupted
<1> QED BY <1>1, <1>2, <1>3, <1>4, <1>5, <1>6, <1>7, <1>8, <1>9 DEF Next, Service

(* The boundary that a stop found stays until the stop is over, and no     *)
(* segment past it is saved to the session, however long the stop takes    *)
(* and whatever fails during it.                                           *)
THEOREM StopBoundaryKept == Spec => StopBoundaryHolds
<1> DEFINE Bounded == finalizing /\ finalizing' /\ stopSeg # 0 =>
             stopSeg' = stopSeg /\ \A i \in sdMcap'[sess] \ sdMcap[sess] : i <= stopSeg
<1>1. TypeInv /\ Control /\ Stops /\ [Next]_vars => [Bounded]_vars
  <2>1. SUFFICES ASSUME TypeInv, Control, Stops, Next, finalizing, finalizing', stopSeg # 0
                 PROVE  stopSeg' = stopSeg /\ \A i \in sdMcap'[sess] \ sdMcap[sess] : i <= stopSeg
    OBVIOUS
  <2>2. stopSeg' = stopSeg
    <3>1. ~StopRequest
      BY <2>1 DEF StopRequest, Stops, Stopping, Committed, Carrying, Retiring
    <3>2. CASE StopWait \/ StopTimeout BY <2>1, <3>2 DEF StopWait, StopTimeout, LateBoundary
    <3> QED BY <2>1, <3>1, <3>2, BoundaryEffect
  <2>3. ASSUME NEW i \in sdMcap'[sess] \ sdMcap[sess] PROVE i <= stopSeg
    <3>1. CopyMcap BY <2>1, <2>3, BoundaryEffect
    <3>2. pc \in Carrying BY <3>1 DEF CopyMcap, Carrying
    <3>3. sess \in Sess
      BY <2>1 DEF Stops, Control, TypeInv, TypeOK, CaptureTypeOK, Sess
    <3>4. PICK o \in Outcome : sdMcap' = [sdMcap EXCEPT ![sess] = Stored(o, @ \cup {cur}, @, @)]
      BY <3>1 DEF CopyMcap
    <3>5. i = cur BY <2>1, <2>3, <3>3, <3>4 DEF Stored, TypeInv, TypeOK, CardTypeOK
    <3> QED BY <2>1, <3>2, <3>5 DEF Stops
  <2> QED BY <2>2, <2>3
<1>2. [][Next]_vars /\ [](TypeInv /\ Control /\ Stops) => [][Bounded]_vars BY <1>1, PTL
<1>3. Spec => [][Bounded]_vars BY <1>2, StopsAlways, PTL DEF Spec
<1> QED BY <1>3 DEF StopBoundaryHolds

-----------------------------------------------------------------------------
(* The quarantine of interrupted sessions.                                 *)

Complete(s) == disk[s] = "complete"

Opening == {"mark", "openSess", "undo"}
Failing == {"quarMark", "failState", "stopFail"}

(* A start request is being aligned, or one of its passes is under way. *)
Requesting ==
  \/ pc \in {"alignBase", "alignCheck", "alignPending"}
  \/ pc \in {"quarMark", "failState"} /\ after \in {"alignBase", "alignCheck"}
  \/ /\ ret \in {"alignBase", "alignCheck"}
     /\ \/ pc \in {"entry", "passEnd"} \cup Carrying \cup Retiring
        \/ pc \in {"quarMark", "failState"} /\ after \in {"entry", "passEnd"}

Phases ==
  /\ pc \in Failing \/ cap = "failed" => quar
  /\ Requesting => cap = "idle"
  /\ pc \in Opening => cap = "live" /\ sess \notin claimed
  /\ pc = "openSess" => activeMark

(* A session that was claimed and is not complete leaves a marker behind;  *)
(* only one that is still "complete" may lose its marker on the way to the *)
(* quarantine, when clearing the marker was the one operation that failed. *)
Marks ==
  /\ \A s \in claimed : ~Complete(s) => activeMark \/ quarMark
  /\ \A s \in claimed : cap # "idle" => s = sess \/ Complete(s)
  /\ \A s \in claimed : Requesting => Complete(s)
  /\ \A s \in claimed : ~quar /\ cap = "idle" /\ pc # "boot" => Complete(s)
  /\ cap # "idle" /\ sess \in claimed =>
       activeMark \/ quarMark \/ (pc = "quarMark" /\ Complete(sess) /\ faults >= MaxFault)

LeavesMarks ==
  /\ UNCHANGED <<activeMark, quarMark, powers>>
  /\ quar => quar'
  /\ pc' \in Failing => quar'
  /\ cap' = "failed" => quar'
  /\ pc' \in Opening => pc' = pc /\ cap' = cap
  /\ pc = "boot" \/ pc = "quarMark" => pc' = pc
  /\ Requesting' => Requesting
  /\ pc = "quarMark" => faults' = faults

OnMarks ==
  \/ OnSessions \/ PersistQuarantine \/ WriteMark \/ StartRequest
  \/ NothingToRecover \/ LoadQuarantine \/ RecoverActive

LEMMA MarkEffect ==
  ASSUME TypeInv, Phases, Next
  PROVE  OnMarks \/ LeavesMarks
<1> USE DEF LeavesMarks, Failing, Opening, Requesting, Carrying, Retiring
<1>t. ret \in PassReturns /\ after \in Resume /\ quar \in BOOLEAN /\ cap \in {"idle", "live", "failed"}
  BY DEF TypeInv, TypeOK, FlowTypeOK, CaptureTypeOK
<1>1. CASE Recorder
  <2>1. UNCHANGED <<markVars, flowVars, quar, cap, budgets>>
    BY <1>1 DEF Recorder, OpenSegment, RecorderExit, CloseSegment, CreateSidecar, PublishSidecar,
                notRing, capVars
  <2> QED BY <2>1 DEF markVars, flowVars, budgets, Phases
<1>2. CASE Quarantining BY <1>2 DEF Quarantining, OnMarks, OnSessions
<1>3. CASE ProcessEntry
  <2>0. UNCHANGED <<activeMark, quarMark, powers, faults, ret>> /\ pc = "entry"
    BY <1>3 DEF ProcessEntry, EndEntries, PendingEntry, StalePending, SettlingEntry, AcceptSegment,
         RejectSegment, SkipForFailedCapture, ObserveSteady, ObserveUnsteady, InvalidateBaseline,
         DiscardResidue, QuarantineSuspect, SkipSuspect, notPass, markVars, budgets, AtEntry, RipeEntry,
         CleanEntry, IntegrityEntry, Suspect, SkipEntry, RetireUnlessQuarantined, RetireOrLeave, GoTo,
         FailOrQuarantineThen, FailCaptureThen, QuarantineThen
  <2>1. CASE EndEntries \/ PendingEntry \/ SettlingEntry \/ SkipForFailedCapture \/ SkipSuspect
    <3>1. pc' \in {"entry", "passEnd"} /\ UNCHANGED <<quar, cap>>
      BY <2>1 DEF EndEntries, PendingEntry, SettlingEntry, SkipForFailedCapture, SkipSuspect, SkipEntry,
           GoTo, capVars
    <3> QED BY <2>0, <3>1 DEF Phases
  <2>2. CASE StalePending \/ RejectSegment \/ QuarantineSuspect
    <3>1. pc' = "quarMark" /\ quar' /\ after' \in {"entry", "passEnd"}
      BY <2>2 DEF StalePending, RejectSegment, QuarantineSuspect, FailOrQuarantineThen,
           FailCaptureThen, QuarantineThen
    <3> QED BY <2>0, <3>1
  <2>3. CASE AcceptSegment
    <3>1. pc' = "copyMcap" /\ UNCHANGED <<quar, cap>> BY <2>3 DEF AcceptSegment, GoTo
    <3> QED BY <2>0, <3>1 DEF Phases
  <2>4. CASE ObserveSteady \/ ObserveUnsteady \/ InvalidateBaseline \/ DiscardResidue
    <3>1. pc' \in {"entry", "retireMcap"} /\ UNCHANGED <<quar, cap>>
      BY <2>4 DEF ObserveSteady, ObserveUnsteady, InvalidateBaseline, DiscardResidue,
         RetireUnlessQuarantined, RetireOrLeave, SkipEntry, GoTo, capVars
    <3> QED BY <2>0, <3>1 DEF Phases
  <2> QED BY <1>3, <2>1, <2>2, <2>3, <2>4 DEF ProcessEntry
<1>4. CASE MoveSegment
  <2>0. UNCHANGED <<activeMark, quarMark, powers, ret>> /\ pc \in Carrying \cup Retiring
    BY <1>4 DEF MoveSegment, CopyMcap, CopyStat, WriteJson, WriteExport, RetireMcap, RetireStat,
         CopyNext, CopyFailed, Retired, RetireFailed, FailCaptureThen, QuarantineThen, GoTo, markVars,
         notRetire, Charge
  <2>1. CASE CopyFailed \/ RetireFailed
    <3>1. pc' = "quarMark" /\ quar' /\ after' \in {"entry", "passEnd"}
      BY <2>1 DEF CopyFailed, RetireFailed, FailCaptureThen, QuarantineThen
    <3> QED BY <2>0, <3>1
  <2>2. CASE ~CopyFailed /\ ~RetireFailed
    <3>1. /\ pc' \in {"copyStat", "writeJson", "writeExport", "retireMcap", "retireStat", "entry", "passEnd"}
          /\ UNCHANGED <<quar, cap>>
      BY <1>4, <2>2 DEF MoveSegment, CopyMcap, CopyStat, WriteJson, WriteExport, RetireMcap, RetireStat,
         CopyNext, Retired, GoTo, capVars
    <3> QED BY <2>0, <3>1 DEF Phases
  <2> QED BY <2>1, <2>2
<1>5. CASE EndPass \/ Loop
  <2>0. UNCHANGED <<activeMark, quarMark, powers, faults>> /\ pc \in {"passEnd", "idle", "supervise", "accept"}
    BY <1>5 DEF EndPass, PassQuiet, StaleOpen, StalledRecorder, Loop, LoopPass, SuperviseQuiet,
         SuperviseLoss, NoRequest, Pass, notPass, elsewhere, markVars, budgets
  <2>1. CASE PassQuiet
    BY <1>t, <2>0, <2>1 DEF PassQuiet, GoTo, capVars, Phases, PassReturns
  <2>2. CASE StaleOpen \/ StalledRecorder \/ SuperviseLoss
    <3>1. pc' = "quarMark" /\ quar' /\ UNCHANGED ret /\ after' \in {ret, "accept"}
      BY <2>2 DEF StaleOpen, StalledRecorder, SuperviseLoss, FailOrQuarantineThen, FailCaptureThen,
           QuarantineThen
    <3>2. pc = "passEnd" \/ after' = "accept"
      BY <2>2 DEF StaleOpen, StalledRecorder, SuperviseLoss, FailCaptureThen, QuarantineThen
    <3> QED BY <1>t, <2>0, <3>1, <3>2 DEF PassReturns
  <2>3. CASE LoopPass \/ SuperviseQuiet \/ NoRequest
    BY <1>t, <2>0, <2>3 DEF LoopPass, SuperviseQuiet, NoRequest, Pass, StartPass, GoTo, capVars, Phases
  <2> QED BY <1>5, <2>1, <2>2, <2>3 DEF EndPass, Loop
<1>6. CASE BeginCapture
  BY <1>6 DEF BeginCapture, AlignBase, AlignAgain, AlignRefused, AlignTimeout, Aligned,
         RefuseUnfinished, Pass, StartPass, GoTo, QuarantineThen, elsewhere, markVars, budgets, capVars,
         OnMarks, OnSessions, Phases
<1>7. CASE FinalizeCapture
  <2>1. CASE StopInterrupted
    BY <2>1 DEF StopInterrupted, GoTo, elsewhere, markVars, budgets, capVars, Phases
  <2>2. CASE ~StopInterrupted
    BY <1>7, <2>2 DEF FinalizeCapture, StopFailedCapture, StopRequest, StopRecorderGone, StopSaved,
         StopWait, StopTimeout, Draining, GiveUp, Pass, StartPass, GoTo, QuarantineThen,
         FailCaptureThen, elsewhere, markVars, budgets, capVars, OnMarks, OnSessions, Phases
  <2> QED BY <2>1, <2>2
<1>8. CASE Boot
  BY <1>8 DEF Boot, BootAdopt, BootQuarantined, BootDone, BootStartRecorder, BootWithoutRecorder, Pass,
         StartPass, GoTo, elsewhere, markVars, budgets, capVars, Charge, OnMarks, OnSessions, Phases
<1> QED BY <1>1, <1>2, <1>3, <1>4, <1>5, <1>6, <1>7, <1>8 DEF Next, Service, OnMarks, OnSessions

LEMMA PhasesStep ==
  TypeInv /\ Control /\ Sessions /\ Phases /\ [Next]_vars => Phases'
<1> SUFFICES ASSUME TypeInv, Control, Sessions, Phases, [Next]_vars PROVE Phases' OBVIOUS
<1>1. CASE UNCHANGED vars
  <2>1. UNCHANGED <<pc, ret, after, quar, cap, sess, claimed, activeMark>>
    BY <1>1 DEF vars, flowVars, capVars, histVars, markVars
  <2> QED BY <2>1 DEF Phases, Requesting
<1>2. CASE Next /\ LeavesMarks /\ ~OnSessions
  <2>1. LeavesSessions BY <1>2, SessionEffect
  <2>2. cap = "idle" => cap' = "idle" BY <2>1 DEF LeavesSessions
  <2> QED BY <1>2, <2>1, <2>2 DEF LeavesMarks, LeavesSessions, Phases, Opening
<1>t. ret \in PassReturns /\ after \in Resume BY DEF TypeInv, TypeOK, FlowTypeOK
<1>3. CASE FailState \/ PersistQuarantine
  <2>1. /\ pc \in {"quarMark", "failState"} /\ (pc' = after \/ pc' = "failState")
        /\ UNCHANGED <<ret, after, quar, cap, sess, claimed>>
    BY <1>3 DEF FailState, PersistQuarantine, GoTo, capVars, histVars
  <2>2. pc' \notin Opening BY <1>t, <2>1 DEF Resume, PassReturns, Opening
  <2>3. Requesting' => Requesting BY <1>t, <2>1 DEF Requesting, Resume, PassReturns, Carrying, Retiring
  <2> QED BY <2>1, <2>2, <2>3 DEF Phases, Failing, Opening
<1>4. CASE WriteJson \/ CommitSession \/ CommitExport
  <2>1. cap = "live"
    BY <1>4 DEF WriteJson, CommitSession, CommitExport, Control, Carrying, Writing
  <2>2. \/ cap' = "failed" /\ pc' = "quarMark" /\ quar' /\ after' \in {"passEnd", "idle"} /\ UNCHANGED ret
        \/ cap' = cap /\ pc' \in {"writeExport"} \cup Committed /\ UNCHANGED ret
    BY <1>4 DEF WriteJson, CommitSession, CommitExport, CopyNext, CopyFailed, CommitNext,
         CommitFailed, FailCaptureThen, QuarantineThen, GoTo, capVars, Committed
  <2>3. ~Requesting'
    <3>1. pc \in {"commit", "commitExport"} => after' = "idle" \/ pc' # "quarMark"
      BY <1>4 DEF WriteJson, CommitSession, CommitExport, CommitNext, CommitFailed, FailCaptureThen,
           QuarantineThen, GoTo
    <3>2. pc = "writeJson" => ret \notin {"alignBase", "alignCheck"}
      BY <2>1 DEF Phases, Requesting, Carrying
    <3>3. pc \in {"writeJson", "commit", "commitExport"}
      BY <1>4 DEF WriteJson, CommitSession, CommitExport
    <3>4. pc # "writeJson" => pc' \in Committed \/ (pc' = "quarMark" /\ after' = "idle")
      BY <1>4, <2>2, <3>1 DEF WriteJson, CommitSession, CommitExport, CommitNext, CommitFailed,
           FailCaptureThen, QuarantineThen, GoTo, Committed
    <3> QED BY <2>2, <3>2, <3>3, <3>4 DEF Requesting, Carrying, Retiring, Committed
  <2> QED BY <2>1, <2>2, <2>3 DEF Phases, Failing, Opening, Committed
<1>5. CASE RecoverSessions
  BY <1>5 DEF RecoverSessions, QuarantineThen, GoTo, bootVars, capVars, histVars, Phases, Failing,
       Opening, Requesting, Carrying, Retiring
<1>6. CASE Crash \/ PowerLoss
  BY <1>6 DEF Crash, PowerLoss, ServiceRestarts, reset_capture, Phases, Failing, Opening, Requesting,
       Carrying, Retiring
<1>7. CASE UndoStart \/ StopFail
  <2>1. cap' = "idle" /\ pc' = "idle" BY <1>7 DEF UndoStart, StopFail, reset_capture, GoTo
  <2> QED BY <2>1 DEF Phases, Failing, Opening
<1>8. CASE ClearMark
  <2>1. \/ cap' = "failed" /\ pc' = "quarMark" /\ quar' /\ after' = "idle"
        \/ cap' = "idle" /\ pc' = "idle"
    BY <1>8 DEF ClearMark, CommitFailed, FailCaptureThen, QuarantineThen, reset_capture, GoTo
  <2> QED BY <2>1 DEF Phases, Failing, Opening, Requesting, Carrying, Retiring
<1>9. CASE Activate
  <2>1. cap' = "live" /\ pc' = "mark" /\ sess' = used + 1 /\ claimed' = claimed
    BY <1>9 DEF Activate, GoTo
  <2>2. used \in Nat /\ \A s \in claimed : s <= used
    BY BoundsAssumption DEF Sessions, TypeInv, TypeOK, HistoryTypeOK
  <2>3. used + 1 \notin claimed BY <2>2
  <2> QED BY <2>1, <2>3 DEF Phases, Failing, Opening, Requesting, Carrying, Retiring
<1>10. CASE WriteMark
  <2>1. PICK o \in Outcome : activeMark' = (activeMark \/ Commits(o)) /\ GoTo(IF Told(o) THEN "openSess" ELSE "undo")
    BY <1>10 DEF WriteMark
  <2>2. pc = "mark" /\ UNCHANGED <<cap, sess, claimed>> BY <1>10 DEF WriteMark, capVars, histVars
  <2>3. pc' \in {"openSess", "undo"} /\ (pc' = "openSess" => activeMark')
    BY <2>1 DEF GoTo, Told, Commits
  <2> QED BY <2>2, <2>3 DEF Phases, Failing, Opening, Requesting, Carrying, Retiring
<1>11. CASE OpenSession
  <2>1. PICK o \in Outcome : /\ GoTo(IF Told(o) THEN "idle" ELSE "undo")
                             /\ claimed' = IF Told(o) THEN claimed \cup {sess} ELSE claimed
    BY <1>11 DEF OpenSession
  <2>2. pc = "openSess" /\ UNCHANGED <<cap, sess>> BY <1>11 DEF OpenSession, capVars
  <2> QED BY <2>1, <2>2 DEF GoTo, Phases, Failing, Opening, Requesting, Carrying, Retiring
<1>12. CASE StartRequest
  <2>1. cap = "idle" /\ cap' = "idle" /\ pc' = "entry"
    BY <1>12 DEF StartRequest, Pass, StartPass, capVars
  <2> QED BY <2>1 DEF Phases, Failing, Opening
<1>13. CASE NothingToRecover \/ LoadQuarantine \/ RecoverActive
  <2>1. pc = "boot" /\ pc' \in {"bootSess", "quarMark"} /\ (pc' = "quarMark" => quar' /\ after' = "bootSess")
        /\ UNCHANGED cap /\ (quar' = quar \/ quar')
    BY <1>13 DEF NothingToRecover, LoadQuarantine, RecoverActive, GoTo, QuarantineThen, bootVars, capVars
  <2> QED BY <2>1 DEF Phases, Failing, Opening, Requesting, Carrying, Retiring
<1> QED BY <1>1, <1>2, <1>3, <1>4, <1>5, <1>6, <1>7, <1>8, <1>9, <1>10, <1>11, <1>12, <1>13,
           MarkEffect DEF OnMarks, OnSessions

(* session.json of the session being recorded is replaced by the service. *)
LEMMA WriteKeepsComplete ==
  ASSUME TypeInv, NEW o, NEW state, WriteSession(o, state)
  PROVE  \A s \in claimed : s # sess => disk'[s] = disk[s]
<1>1. \A s \in claimed : s \in Sess BY DEF TypeInv, TypeOK, HistoryTypeOK
<1> QED BY <1>1 DEF WriteSession, TypeInv, TypeOK, CardTypeOK

LEMMA MarksStep ==
  ASSUME MaxFault \in 0 .. 1, TypeInv, Control, Sessions, Phases, Marks, [Next]_vars, ~PowerLoss
  PROVE  Marks'
<1> USE DEF Marks, Complete
<1>1. CASE UNCHANGED vars
  <2>1. UNCHANGED <<pc, ret, after, quar, cap, sess, claimed, activeMark, quarMark, disk, faults>>
    BY <1>1 DEF vars, flowVars, capVars, histVars, markVars, sdVars, budgets
  <2> QED BY <2>1 DEF Requesting
<1>2. CASE Next /\ LeavesMarks /\ ~OnSessions
  <2>1. LeavesSessions BY <1>2, SessionEffect
  <2> QED BY <1>2, <2>1 DEF LeavesMarks, LeavesSessions
<1>t. /\ ret \in PassReturns /\ after \in Resume /\ faults \in 0 .. MaxFault
      /\ claimed \subseteq Sess /\ sess \in 0 .. MaxSess /\ quarMark \in BOOLEAN /\ activeMark \in BOOLEAN
  BY DEF TypeInv, TypeOK, FlowTypeOK, BudgetTypeOK, HistoryTypeOK, CaptureTypeOK, CardTypeOK
<1>3. CASE PersistQuarantine
  <2>1. PICK o \in Outcome : Charge(o) /\ quarMark' = (quarMark \/ Commits(o))
    BY <1>3 DEF PersistQuarantine
  <2>2. /\ pc = "quarMark" /\ (pc' = after \/ pc' = "failState")
        /\ UNCHANGED <<ret, after, quar, cap, sess, claimed, disk, activeMark>>
    BY <1>3 DEF PersistQuarantine, GoTo, capVars, histVars, sdVars
  <2>3. Requesting' => Requesting BY <1>t, <2>2 DEF Requesting, Resume, PassReturns, Carrying, Retiring
  <2>4. faults >= MaxFault => quarMark'
    <3>1. faults >= MaxFault => ~(faults < MaxFault) BY <1>t, BoundsAssumption
    <3>2. faults >= MaxFault => Commits(o) BY <2>1, <3>1 DEF Charge, Commits
    <3> QED BY <2>1, <3>2
  <2>5. pc' # "boot" BY <1>t, <2>2 DEF Resume, PassReturns
  <2> QED BY <2>1, <2>2, <2>3, <2>4, <2>5
<1>4. CASE FailState \/ StopFail \/ WriteJson \/ CommitSession
  <2>1. \A s \in claimed : s # sess => disk'[s] = disk[s]
    BY <1>4, WriteKeepsComplete DEF FailState, StopFail, WriteJson, CommitSession
  <2>2. UNCHANGED <<claimed, activeMark, quarMark>> /\ pc # "quarMark" /\ pc # "boot"
    BY <1>4 DEF FailState, StopFail, WriteJson, CommitSession, histVars, markVars
  <2>3. sess \notin claimed \/ activeMark \/ quarMark
    <3>1. CASE cap = "idle" BY <3>1, <1>t DEF Sessions, Sess
    <3>2. CASE cap # "idle" BY <2>2, <3>2
    <3> QED BY <3>1, <3>2
  <2>4. \/ sess' = sess /\ (cap' = "idle" <=> cap = "idle")
        \/ cap' = "idle" /\ quar' /\ pc' = "idle"
    BY <1>4 DEF FailState, StopFail, WriteJson, CommitSession, CopyNext, CopyFailed, CommitNext,
         CommitFailed, FailCaptureThen, QuarantineThen, reset_capture, capVars, capRest, GoTo, Phases,
         Failing
  <2>5. ~quar' => cap # "idle"
    BY <1>4 DEF FailState, StopFail, WriteJson, CommitSession, Phases, Failing, Control, Carrying,
         Writing
  <2>6. \A s \in claimed : Requesting' => disk'[s] = "complete"
    <3>1. CASE WriteJson \/ CommitSession
      <4>1. cap = "live" /\ cap' # "idle"
        BY <3>1 DEF WriteJson, CommitSession, Control, Carrying, Writing, CopyNext, CopyFailed,
             CommitNext, CommitFailed, FailCaptureThen, QuarantineThen, capVars
      <4>2. Phases' BY <3>1, PhasesStep DEF Next, Service, MoveSegment, FinalizeCapture
      <4> QED BY <4>1, <4>2 DEF Phases
    <3>2. CASE StopFail
      BY <3>2 DEF StopFail, GoTo, Requesting, Carrying, Retiring
    <3>3. CASE FailState
      <4>1. /\ pc = "failState" /\ pc' = after /\ UNCHANGED <<ret, after>>
        BY <3>3 DEF FailState, GoTo
      <4>2. Requesting' => Requesting
        BY <1>t, <4>1 DEF Requesting, Resume, PassReturns, Carrying, Retiring
      <4>3. Requesting => sess = 0 BY DEF Phases, Sessions
      <4> QED BY <1>t, <2>1, <4>2, <4>3 DEF Sess
    <3> QED BY <1>4, <3>1, <3>2, <3>3
  <2> QED BY <2>1, <2>2, <2>3, <2>4, <2>5, <2>6
<1>5. CASE RecoverSessions
  <2>1. \A s \in claimed : disk[s] = "complete" => disk'[s] = "complete"
    BY <1>5, <1>t DEF RecoverSessions, MarkInterrupted, interrupted
  <2>2. /\ pc = "bootSess" /\ UNCHANGED <<claimed, activeMark, quarMark, cap, sess, ret>>
        /\ (quar => quar') /\ pc' \in {"bootAdopt", "quarMark"} /\ (pc' = "quarMark" => after' = "bootAdopt")
    BY <1>5 DEF RecoverSessions, QuarantineThen, GoTo, bootVars, capVars, histVars, markVars
  <2>3. ~Requesting' BY <2>2 DEF Requesting, Carrying, Retiring
  <2>4. disk' = [s \in Sess |-> disk'[s]] /\ \A s \in claimed : disk'[s] = "complete" => disk[s] = "complete"
    BY <1>5, <1>t DEF RecoverSessions, MarkInterrupted
  <2> QED BY <2>1, <2>2, <2>3, <2>4
<1>6. CASE Crash
  <2>1. /\ pc' = "boot" /\ ret' = "supervise" /\ cap' = "idle"
        /\ UNCHANGED <<claimed, activeMark, quarMark>>
    BY <1>6 DEF Crash, ServiceRestarts, reset_capture, histVars, markVars
  <2>2. ~Requesting' BY <2>1 DEF Requesting, Carrying, Retiring
  <2>3. CASE /\ pc \in {"openSess", "writeJson", "commit", "failState", "stopFail"}
             /\ \E o \in Outcome, state \in {"recording", "complete", "failed"} : WriteSession(o, state)
    <3>1. \A s \in claimed : s # sess => disk'[s] = disk[s] BY <2>3, WriteKeepsComplete
    <3>2. sess \notin claimed \/ activeMark \/ quarMark
      <4>1. CASE cap = "idle" BY <4>1, <1>t DEF Sessions, Sess
      <4>2. CASE cap # "idle" BY <2>3, <4>2
      <4> QED BY <4>1, <4>2
    <3> QED BY <2>1, <2>2, <3>1, <3>2
  <2>4. CASE \/ UNCHANGED sdVars
             \/ \E o \in Outcome : WriteManifest(o)
             \/ \E done \in SUBSET interrupted : \E told \in SUBSET done : MarkInterrupted(done, told)
    <3>1. \A s \in claimed : disk[s] = "complete" => disk'[s] = "complete"
      BY <1>t, <2>4 DEF WriteManifest, MarkInterrupted, interrupted, sdVars
    <3> QED BY <2>1, <2>2, <3>1
  <2> QED BY <1>6, <2>3, <2>4 DEF Crash, CutShort
<1>7. CASE Activate
  <2>1. Requesting BY <1>7 DEF Activate, Requesting
  <2>2. UNCHANGED <<claimed, disk, activeMark, quarMark>> /\ pc' = "mark" /\ sess' = used + 1 /\ cap' = "live"
    BY <1>7 DEF Activate, GoTo, sdVars, markVars
  <2>3. sess' \notin claimed
    BY <1>7, PhasesStep, <2>2 DEF Phases, Opening, Next, Service, BeginCapture
  <2> QED BY <2>1, <2>2, <2>3
<1>8. CASE WriteMark
  <2>1. /\ pc = "mark" /\ UNCHANGED <<claimed, disk, quarMark, cap, sess, quar>> /\ pc' \in {"openSess", "undo"}
        /\ activeMark => activeMark'
    BY <1>8 DEF WriteMark, GoTo, sdVars, histVars, capVars
  <2>2. ~Requesting' BY <2>1 DEF Requesting, Carrying, Retiring
  <2>3. cap = "live" /\ sess \notin claimed BY <2>1 DEF Phases, Opening
  <2> QED BY <2>1, <2>2, <2>3
<1>9. CASE OpenSession
  <2>1. \A s \in claimed : s # sess => disk'[s] = disk[s] BY <1>9, WriteKeepsComplete DEF OpenSession
  <2>2. /\ pc = "openSess" /\ UNCHANGED <<quarMark, activeMark, cap, sess, quar>> /\ pc' \in {"idle", "undo"}
        /\ claimed' \subseteq claimed \cup {sess}
    BY <1>9 DEF OpenSession, GoTo, markVars, capVars
  <2>3. ~Requesting' BY <2>2 DEF Requesting, Carrying, Retiring
  <2>4. cap = "live" /\ sess \notin claimed /\ activeMark BY <2>2 DEF Phases, Opening
  <2> QED BY <2>1, <2>2, <2>3, <2>4
<1>10. CASE UndoStart
  <2>1. /\ pc = "undo" /\ UNCHANGED <<claimed, disk, quarMark, quar>> /\ pc' = "idle" /\ cap' = "idle"
    BY <1>10 DEF UndoStart, GoTo, sdVars, histVars, reset_capture
  <2>2. ~Requesting' BY <2>1 DEF Requesting, Carrying, Retiring
  <2>3. cap = "live" /\ sess \notin claimed BY <2>1 DEF Phases, Opening
  <2> QED BY <2>1, <2>2, <2>3
<1>11. CASE CommitExport
  <2>1. /\ cap = "live" /\ cap' # "idle" /\ UNCHANGED <<claimed, disk, quarMark, activeMark, sess>>
        /\ pc # "quarMark"
    BY <1>11 DEF CommitExport, WriteManifest, Control, Writing, CommitNext, CommitFailed,
         FailCaptureThen, QuarantineThen, histVars, markVars, capVars, capRest
  <2>2. ~Requesting' BY <1>11, PhasesStep, <2>1 DEF Phases, Next, Service, FinalizeCapture
  <2> QED BY <2>1, <2>2
<1>12. CASE ClearMark
  <2>1. PICK o \in Outcome :
          /\ Charge(o) /\ activeMark' = (activeMark /\ ~Commits(o))
          /\ \/ Told(o) /\ reset_capture /\ GoTo("idle")
             \/ ~Told(o) /\ CommitFailed
    BY <1>12 DEF ClearMark
  <2>2. /\ pc = "clearMark" /\ cap = "live" /\ UNCHANGED <<claimed, disk, quarMark>>
    BY <1>12 DEF ClearMark, Control, Writing, sdVars
  <2>3. \A s \in claimed : disk[s] = "complete" BY <2>2 DEF Sessions, Lasting, Committed
  <2>4. CASE Told(o) /\ reset_capture /\ GoTo("idle")
    <3>1. pc' = "idle" /\ cap' = "idle" BY <2>4 DEF reset_capture, GoTo
    <3> QED BY <2>2, <2>3, <3>1
  <2>5. CASE ~Told(o) /\ CommitFailed
    <3>1. pc' = "quarMark" /\ cap' = "failed" /\ UNCHANGED sess
      BY <2>5 DEF CommitFailed, FailCaptureThen, QuarantineThen, capRest
    <3>2. faults' >= MaxFault BY <1>t, <2>1, <2>5 DEF Charge, Told
    <3> QED BY <2>2, <2>3, <3>1, <3>2
  <2> QED BY <2>1, <2>4, <2>5
<1>13. CASE StartRequest
  <2>1. /\ ~quar /\ cap = "idle" /\ pc = "accept"
        /\ UNCHANGED <<cap, sess, quar, claimed, disk, activeMark, quarMark>>
    BY <1>13 DEF StartRequest, Pass, capVars, sdVars, markVars
  <2> QED BY <2>1
<1>14. CASE NothingToRecover \/ LoadQuarantine \/ RecoverActive
  <2>1. /\ pc = "boot" /\ UNCHANGED <<claimed, disk, activeMark, quarMark, cap, sess, ret>>
        /\ quar' \/ (~activeMark /\ ~quarMark)
        /\ pc' \in {"bootSess", "quarMark"} /\ (pc' = "quarMark" => after' = "bootSess")
    BY <1>14 DEF NothingToRecover, LoadQuarantine, RecoverActive, GoTo, QuarantineThen, bootVars,
         histVars, capVars, sdVars, markVars
  <2>2. ~Requesting' BY <2>1 DEF Requesting, Carrying, Retiring
  <2> QED BY <2>1, <2>2
<1> QED BY <1>1, <1>2, <1>3, <1>4, <1>5, <1>6, <1>7, <1>8, <1>9, <1>10, <1>11, <1>12, <1>13, <1>14,
           MarkEffect DEF OnMarks, OnSessions

(* No power was lost so far. *)
Powered == powers = 0

LEMMA PoweredBefore ==
  ASSUME TypeInv, [Next]_vars, Powered'
  PROVE  Powered /\ ~PowerLoss
<1> USE DEF Powered, TypeInv, TypeOK, BudgetTypeOK
<1>1. CASE PowerLoss BY <1>1, BoundsAssumption DEF PowerLoss
<1>2. CASE OnMarks /\ ~PowerLoss
  <2>1. CASE FailState \/ WriteJson \/ OpenSession \/ UndoStart \/ StopFail \/ CommitSession
    BY <1>2, <2>1 DEF FailState, WriteJson, OpenSession, UndoStart, StopFail, CommitSession, Charge
  <2>2. CASE CommitExport \/ ClearMark \/ PersistQuarantine \/ WriteMark
    BY <1>2, <2>2 DEF CommitExport, ClearMark, PersistQuarantine, WriteMark, Charge
  <2>3. CASE RecoverSessions BY <1>2, <2>3 DEF RecoverSessions, Charge
  <2>4. CASE Crash \/ Activate \/ StartRequest \/ NothingToRecover \/ LoadQuarantine \/ RecoverActive
    BY <1>2, <2>4 DEF Crash, Activate, StartRequest, NothingToRecover, LoadQuarantine, RecoverActive, budgets,
         Pass
  <2> QED BY <1>2, <2>1, <2>2, <2>3, <2>4 DEF OnMarks, OnSessions
<1>3. CASE UNCHANGED vars /\ ~PowerLoss BY <1>3 DEF vars, budgets
<1>4. CASE Next /\ ~OnMarks
  <2>1. UNCHANGED powers
    <3>1. CASE Recorder
      BY <3>1 DEF Recorder, OpenSegment, RecorderExit, CloseSegment, CreateSidecar, PublishSidecar,
           notRing, budgets
    <3>2. CASE ProcessEntry
      BY <3>2 DEF ProcessEntry, EndEntries, PendingEntry, StalePending, SettlingEntry, AcceptSegment,
         RejectSegment, SkipForFailedCapture, ObserveSteady, ObserveUnsteady, InvalidateBaseline,
         DiscardResidue, QuarantineSuspect, SkipSuspect, notPass, budgets
    <3>3. CASE MoveSegment
      BY <3>3 DEF MoveSegment, CopyMcap, CopyStat, WriteJson, WriteExport, RetireMcap, RetireStat, Charge
    <3>4. CASE EndPass \/ Loop
      BY <3>4 DEF EndPass, PassQuiet, StaleOpen, StalledRecorder, Loop, LoopPass, SuperviseQuiet,
         SuperviseLoss, NoRequest, Pass, notPass, elsewhere, budgets
    <3>5. CASE BeginCapture \/ FinalizeCapture \/ Boot
      BY <1>4, <3>5 DEF BeginCapture, AlignBase, AlignAgain, AlignRefused, AlignTimeout, Aligned,
         RefuseUnfinished, FinalizeCapture, StopFailedCapture, StopRequest, StopInterrupted,
         StopRecorderGone, StopSaved, StopWait, StopTimeout, Boot, BootAdopt, BootQuarantined, BootDone,
         BootStartRecorder, BootWithoutRecorder, Pass, elsewhere, budgets, Charge, OnMarks, OnSessions
    <3> QED BY <1>4, <3>1, <3>2, <3>3, <3>4, <3>5 DEF Next, Service, Quarantining, OnMarks, OnSessions
  <2> QED BY <1>4, <2>1 DEF OnMarks, OnSessions
<1> QED BY <1>1, <1>2, <1>3, <1>4

Marked == TypeInv /\ Control /\ Sessions /\ Phases /\ (Powered => Marks)

LEMMA InitMarked == Init => Marked
BY InitType, InitSessions DEF Init, ServiceStart, Marked, Phases, Marks, Failing, Opening, Requesting,
   Carrying, Retiring

LEMMA MarkedStep ==
  ASSUME MaxFault \in 0 .. 1
  PROVE  Marked /\ [Next]_vars => Marked'
BY TypeStep, SessionsStep, PhasesStep, MarksStep, PoweredBefore DEF Marked

(* When at most one file operation fails, a capture that was answered and  *)
(* then interrupted, by whatever and at whatever point, leaves the service *)
(* in quarantine: it cannot go on discarding segments as if it were idle.  *)
THEOREM InterruptionQuarantines ==
  ASSUME MaxFault \in 0 .. 1
  PROVE  Spec => []InterruptedIsQuarantined
<1>1. Marked => InterruptedIsQuarantined
  <2>1. SUFFICES ASSUME Marked, pc \in {"idle", "accept"}, powers = 0, NEW s \in claimed, ~quar,
                        disk[s] # "complete"
                 PROVE  cap = "live" /\ sess = s
    BY DEF InterruptedIsQuarantined
  <2>2. Marks /\ Phases /\ cap \in {"idle", "live", "failed"}
    BY <2>1 DEF Marked, Powered, TypeInv, TypeOK, CaptureTypeOK
  <2>3. cap = "live" BY <2>1, <2>2 DEF Marks, Complete, Phases
  <2> QED BY <2>1, <2>2, <2>3 DEF Marks, Complete
<1>2. Marked /\ [Next]_vars => Marked' BY MarkedStep
<1> QED BY <1>1, <1>2, InitMarked, PTL DEF Spec

-----------------------------------------------------------------------------
(* The order in which pairs leave the ring.                                *)

(* Sidecars are published in the order of the segments. *)
Order ==
  /\ born <= opened
  /\ \A i \in Seg : side[i] # "absent" => i <= opened
  /\ \A i, k \in Seg : born < i /\ i < k /\ side[k] # "absent" => side[i] \in Terminal
  /\ \A i \in ringStat : side[i] # "absent"

(* A segment whose MCAP has left the ring came before every one whose      *)
(* sidecar is still there, and was published if this recorder made it.     *)
Swept ==
  \A g \in Seg \ ringMcap : g <= opened =>
    /\ \A i \in ringStat : g <= i
    /\ prod # "dead" /\ born < g => side[g] \in Terminal

(* A pass that may still take a pair out of the ring has left nothing      *)
(* behind that it has already looked at.                                   *)
InPass == \/ pc \in {"entry"} \cup Carrying \cup Retiring
          \/ pc \in {"quarMark", "failState"} /\ after = "entry"
Moving == cap = "live" \/ (cap = "idle" /\ ~quar)
PassOrder ==
  /\ InPass => todo \subseteq ringStat
  /\ InPass /\ Moving => \A i \in ringStat \ todo, j \in todo : j < i
  /\ pc \in Carrying \cup Retiring => side[cur] \in Terminal

Ring == Order /\ Swept /\ PassOrder

(* The ring is changed by the recorder and by the retirement of a pair.    *)
LEMMA RingEffect ==
  ASSUME Next
  PROVE  /\ Recorder \/ UNCHANGED <<opened, closed, side, ctr, prog>>
         /\ BootStartRecorder \/ (UNCHANGED born /\ (prod' # "dead" => prod # "dead"))
         /\ OpenSegment \/ RetireMcap \/ RetireStat \/ PowerLoss \/ UNCHANGED ringMcap
         /\ (\E i \in Seg : CreateSidecar(i)) \/ RetireStat \/ PowerLoss \/ UNCHANGED ringStat
<1> USE DEF ringVars, ring, recording, QuarantineThen, FailCaptureThen, FailOrQuarantineThen
<1>1. CASE Recorder
  BY <1>1 DEF Recorder, OpenSegment, RecorderExit, CloseSegment, CreateSidecar, PublishSidecar
<1>2. CASE Quarantining BY <1>2 DEF Quarantining, PersistQuarantine, FailState
<1>3. CASE ProcessEntry
  BY <1>3 DEF ProcessEntry, EndEntries, PendingEntry, StalePending, SettlingEntry, AcceptSegment,
         RejectSegment, SkipForFailedCapture, ObserveSteady, ObserveUnsteady, InvalidateBaseline,
         DiscardResidue, QuarantineSuspect, SkipSuspect
<1>4. CASE MoveSegment
  <2>1. CASE CopyMcap \/ CopyStat \/ WriteJson \/ WriteExport
    BY <2>1 DEF CopyMcap, CopyStat, WriteJson, WriteExport, CopyNext, CopyFailed
  <2>2. CASE RetireMcap \/ RetireStat
    BY <2>2 DEF RetireMcap, RetireStat, Retired, RetireFailed
  <2> QED BY <1>4, <2>1, <2>2 DEF MoveSegment
<1>5. CASE EndPass \/ Loop
  BY <1>5 DEF EndPass, PassQuiet, StaleOpen, StalledRecorder, Loop, LoopPass, SuperviseQuiet,
         SuperviseLoss, NoRequest, Pass
<1>6. CASE BeginCapture
  BY <1>6 DEF BeginCapture, StartRequest, AlignBase, AlignAgain, AlignRefused, AlignTimeout, Aligned,
         RefuseUnfinished, Activate, WriteMark, OpenSession, UndoStart, Pass
<1>7. CASE FinalizeCapture
  BY <1>7 DEF FinalizeCapture, StopFailedCapture, StopRequest, StopInterrupted, StopRecorderGone,
         StopSaved, StopWait, StopTimeout, StopFail, CommitSession, CommitExport, ClearMark, GiveUp,
         CommitFailed, CommitNext, Pass
<1>8. CASE Boot
  BY <1>8 DEF Boot, LoadQuarantine, RecoverActive, NothingToRecover, RecoverSessions, BootAdopt,
         BootQuarantined, BootDone, BootStartRecorder, BootWithoutRecorder, Pass
<1>9. CASE Crash \/ PowerLoss BY <1>9 DEF Crash, PowerLoss
<1> QED BY <1>1, <1>2, <1>3, <1>4, <1>5, <1>6, <1>7, <1>8, <1>9 DEF Next, Service

(* A pass takes its entries from the front, and once it has left one in    *)
(* the ring it takes nothing out any more.                                 *)
PassFlow ==
  /\ \/ ~InPass'
     \/ todo' = ringStat /\ UNCHANGED ringStat
     \/ InPass /\ (Moving' => Moving) /\ todo' = todo
     \/ InPass /\ todo' = todo \ {cur} /\ ((RetireStat /\ UNCHANGED cap) \/ ~Moving')
  /\ \/ pc' \notin Carrying \cup Retiring
     \/ todo' = todo /\ (pc \in Carrying \cup Retiring \/ side[cur] \in Terminal)

LEMMA PassEffect ==
  ASSUME TypeInv, Control, Stops, Phases, Next
  PROVE  PassFlow
<1> USE DEF PassFlow, InPass, Moving, Carrying, Retiring
<1>t. ret \in PassReturns /\ after \in Resume /\ cap \in {"idle", "live", "failed"}
  BY DEF TypeInv, TypeOK, FlowTypeOK, CaptureTypeOK
<1>1. CASE Recorder
  <2>1. UNCHANGED <<flowVars, passVars, quar, capVars>>
    BY <1>1 DEF Recorder, OpenSegment, RecorderExit, CloseSegment, CreateSidecar, PublishSidecar, notRing
  <2> QED BY <2>1 DEF flowVars, passVars, capVars
<1>2. CASE Quarantining
  <2>1. /\ UNCHANGED <<cap, after, todo, quar>>
        /\ pc \in {"quarMark", "failState"} /\ (pc' = after \/ pc' = "failState")
    BY <1>2 DEF Quarantining, PersistQuarantine, FailState, capVars, passVars, GoTo
  <2> QED BY <1>t, <2>1 DEF Resume, PassReturns
<1>3. CASE ProcessEntry
  <2>0. pc = "entry"
    BY <1>3 DEF ProcessEntry, EndEntries, PendingEntry, StalePending, SettlingEntry, AcceptSegment,
         RejectSegment, SkipForFailedCapture, ObserveSteady, ObserveUnsteady, InvalidateBaseline,
         DiscardResidue, QuarantineSuspect, SkipSuspect, AtEntry, RipeEntry, CleanEntry, IntegrityEntry,
         Suspect
  <2>1. CASE EndEntries \/ PendingEntry \/ SettlingEntry \/ StalePending
    BY <2>1 DEF EndEntries, PendingEntry, SettlingEntry, StalePending, GoTo, FailOrQuarantineThen,
         FailCaptureThen, QuarantineThen
  <2>2. CASE SkipForFailedCapture
    <3>1. pc' = "entry" /\ todo' = todo \ {cur} /\ cap' = "failed"
      BY <2>2 DEF SkipForFailedCapture, SkipEntry, GoTo, capVars
    <3> QED BY <2>0, <3>1
  <2>3. CASE SkipSuspect
    <3>1. pc' = "entry" /\ todo' = todo \ {cur} /\ cap' = "idle" /\ quar'
      BY <2>3 DEF SkipSuspect, Suspect, SkipEntry, GoTo, capVars
    <3> QED BY <2>0, <3>1
  <2>4. CASE QuarantineSuspect
    <3>1. pc' = "quarMark" /\ after' = "entry" /\ todo' = todo \ {cur} /\ cap' = "idle" /\ quar'
      BY <2>4 DEF QuarantineSuspect, Suspect, QuarantineThen, capVars
    <3> QED BY <2>0, <3>1
  <2>5. CASE RejectSegment
    <3>1. pc' = "quarMark" /\ todo' = todo \ {cur} /\ cap' = "failed"
      BY <2>5 DEF RejectSegment, FailCaptureThen, QuarantineThen
    <3> QED BY <2>0, <3>1
  <2>6. CASE AcceptSegment
    <3>1. pc' = "copyMcap" /\ todo' = todo /\ side[cur] \in Terminal /\ cap = "live"
      BY <2>6 DEF AcceptSegment, CleanEntry, RipeEntry, GoTo
    <3> QED BY <2>0, <3>1
  <2>7. CASE ObserveSteady \/ ObserveUnsteady \/ InvalidateBaseline \/ DiscardResidue
    <3>1. \E reason \in {"idle", "warmup"} : RetireOrLeave(quar, reason)
      BY <2>7 DEF ObserveSteady, ObserveUnsteady, InvalidateBaseline, DiscardResidue,
                  RetireUnlessQuarantined
    <3>2. UNCHANGED <<cap, quar>> /\ cap = "idle" /\ side[cur] \in Terminal
      BY <2>7 DEF ObserveSteady, ObserveUnsteady, InvalidateBaseline, DiscardResidue, capVars, CleanEntry,
           IntegrityEntry, RipeEntry
    <3>3. CASE quar
      <4>1. pc' = "entry" /\ todo' = todo \ {cur} BY <3>1, <3>3 DEF RetireOrLeave, SkipEntry, GoTo
      <4> QED BY <2>0, <3>2, <3>3, <4>1
    <3>4. CASE ~quar
      <4>1. pc' = "retireMcap" /\ todo' = todo BY <3>1, <3>4 DEF RetireOrLeave, GoTo
      <4> QED BY <2>0, <3>2, <3>4, <4>1
    <3> QED BY <3>3, <3>4
  <2> QED BY <1>3, <2>1, <2>2, <2>3, <2>4, <2>5, <2>6, <2>7 DEF ProcessEntry
<1>4. CASE MoveSegment
  <2>1. CASE CopyFailed
    <3>1. pc' = "quarMark" /\ after' = "passEnd" BY <2>1 DEF CopyFailed, FailCaptureThen, QuarantineThen
    <3> QED BY <3>1
  <2>2. CASE (CopyMcap \/ CopyStat \/ WriteJson \/ WriteExport) /\ ~CopyFailed
    <3>1. /\ pc \in Carrying /\ pc' \in {"copyStat", "writeJson", "writeExport", "retireMcap"}
          /\ UNCHANGED <<cap, quar, todo>>
      BY <2>2 DEF CopyMcap, CopyStat, WriteJson, WriteExport, CopyNext, GoTo, capVars, passVars
    <3> QED BY <3>1
  <2>3. CASE RetireFailed /\ (RetireMcap \/ RetireStat)
    <3>0. pc \in Retiring BY <2>3 DEF RetireMcap, RetireStat
    <3>1. CASE why = "capture"
      BY <2>3, <3>1 DEF RetireFailed, FailCaptureThen, QuarantineThen
    <3>2. CASE why # "capture"
      <4>1. cap = "idle" BY <3>0, <3>2 DEF Stops
      <4> QED BY <2>3, <3>0, <3>2, <4>1 DEF RetireFailed, QuarantineThen
    <3> QED BY <3>1, <3>2
  <2>4. CASE RetireMcap /\ ~RetireFailed
    BY <2>4 DEF RetireMcap, GoTo, capVars
  <2>5. CASE RetireStat /\ ~RetireFailed
    <3>1. \/ pc' = "passEnd"
          \/ pc' = "entry" /\ todo' = todo \ {cur} /\ UNCHANGED <<cap, quar>>
      BY <2>5 DEF RetireStat, Retired, GoTo, capVars
    <3>2. pc = "retireStat" BY <2>5 DEF RetireStat
    <3> QED BY <2>5, <3>1, <3>2
  <2> QED BY <1>4, <2>1, <2>2, <2>3, <2>4, <2>5 DEF MoveSegment
<1>5. CASE EndPass \/ Loop
  <2>1. CASE LoopPass BY <2>1 DEF LoopPass, Pass, StartPass, ringVars
  <2>2. CASE EndPass \/ SuperviseQuiet \/ SuperviseLoss \/ NoRequest
    <3>1. \/ pc' = "quarMark" /\ after' \in PassReturns \cup {"accept"}
          \/ pc' \in PassReturns \cup {"accept", "idle"}
      BY <1>t, <2>2 DEF EndPass, PassQuiet, StaleOpen, StalledRecorder, SuperviseQuiet, SuperviseLoss,
           NoRequest, GoTo, FailOrQuarantineThen, FailCaptureThen, QuarantineThen
    <3> QED BY <3>1 DEF PassReturns
  <2> QED BY <1>5, <2>1, <2>2 DEF Loop
<1>6. CASE BeginCapture
  BY <1>6 DEF BeginCapture, StartRequest, AlignBase, AlignAgain, AlignRefused, AlignTimeout, Aligned,
         RefuseUnfinished, Activate, WriteMark, OpenSession, UndoStart, Pass, StartPass, GoTo,
         QuarantineThen, ringVars
<1>7. CASE FinalizeCapture
  BY <1>7 DEF FinalizeCapture, StopFailedCapture, StopRequest, StopInterrupted, StopRecorderGone,
         StopSaved, StopWait, StopTimeout, StopFail, CommitSession, CommitExport, ClearMark, GiveUp,
         CommitFailed, CommitNext, FailCaptureThen, Pass, StartPass, GoTo, QuarantineThen, ringVars
<1>8. CASE Boot
  BY <1>8 DEF Boot, LoadQuarantine, RecoverActive, NothingToRecover, RecoverSessions, BootAdopt,
         BootQuarantined, BootDone, BootStartRecorder, BootWithoutRecorder, Pass, StartPass, GoTo,
         QuarantineThen, ringVars
<1>9. CASE Crash \/ PowerLoss BY <1>9 DEF Crash, PowerLoss, ServiceRestarts
<1> QED BY <1>1, <1>2, <1>3, <1>4, <1>5, <1>6, <1>7, <1>8, <1>9 DEF Next, Service

LEMMA OrderStep == TypeInv /\ Order /\ [Next]_vars => Order'
<1> SUFFICES ASSUME TypeInv, Order, [Next]_vars PROVE Order' OBVIOUS
<1> USE DEF Order
<1>t. /\ opened \in 0 .. MaxSeg /\ born \in 0 .. MaxSeg /\ side \in [Seg -> SideKinds]
      /\ ringStat \subseteq Seg /\ MaxSeg \in Nat /\ Seg = 1 .. MaxSeg
  BY BoundsAssumption DEF TypeInv, TypeOK, RingTypeOK, Seg
<1>k. "absent" \notin Terminal /\ "pending" \notin Terminal BY DEF Terminal
<1>1. CASE UNCHANGED vars BY <1>1 DEF vars, ringVars
<1>2. CASE OpenSegment
  BY <1>t, <1>2 DEF OpenSegment
<1>3. CASE RecorderExit BY <1>3 DEF RecorderExit
<1>4. ASSUME NEW i \in Seg, CloseSegment(i) PROVE Order' BY <1>4 DEF CloseSegment
<1>5. ASSUME NEW i \in Seg, CreateSidecar(i) PROVE Order'
  <2>1. /\ UNCHANGED <<born, opened>> /\ ringStat' = ringStat \cup {i}
        /\ side' = [side EXCEPT ![i] = "pending"] /\ side[i] = "absent" /\ born < i /\ i <= opened
        /\ \A j \in Seg : born < j /\ j <= opened /\ side[j] \notin Terminal => i <= j
    BY <1>5 DEF CreateSidecar, Publishing, Unpublished
  <2>2. ASSUME NEW j \in Seg, NEW k \in Seg, born < j, j < k, side'[k] # "absent"
        PROVE  side'[j] \in Terminal
    <3>1. CASE k = i
      <4>1. j # i /\ j <= opened /\ ~(i <= j) BY <1>t, <2>1, <2>2, <3>1
      <4> QED BY <1>t, <2>1, <2>2, <4>1
    <3>2. CASE k # i
      <4>1. side[j] \in Terminal BY <1>t, <2>1, <2>2, <3>2
      <4> QED BY <1>t, <1>k, <2>1, <4>1
    <3> QED BY <3>1, <3>2
  <2> QED BY <1>t, <2>1, <2>2
<1>6. ASSUME NEW i \in Seg, NEW kind \in Terminal, NEW drops \in {0, 1}, NEW step \in {0, 1},
             PublishSidecar(i, kind, drops, step)
      PROVE  Order'
  <2>1. /\ UNCHANGED <<born, opened, ringStat>> /\ side' = [side EXCEPT ![i] = kind]
        /\ side[i] = "pending"
    BY <1>6 DEF PublishSidecar
  <2> QED BY <1>t, <1>k, <2>1
<1>7. CASE Next /\ ~Recorder
  <2>1. UNCHANGED <<opened, side>> BY <1>7, RingEffect
  <2>2. ringStat' \subseteq ringStat
    <3>1. ~\E i \in Seg : CreateSidecar(i) BY <1>7 DEF Recorder
    <3> QED BY <1>7, <3>1, RingEffect DEF RetireStat, PowerLoss
  <2>3. CASE UNCHANGED born BY <2>1, <2>2, <2>3
  <2>4. CASE BootStartRecorder
    <3>1. born' = opened BY <2>4 DEF BootStartRecorder
    <3> QED BY <1>t, <2>1, <2>2, <3>1
  <2> QED BY <1>7, <2>3, <2>4, RingEffect
<1> QED BY <1>1, <1>2, <1>3, <1>4, <1>5, <1>6, <1>7 DEF Recorder

LEMMA CurIsLeast ==
  ASSUME TypeInv, Control, Stops, PassOrder, pc \in Carrying \cup Retiring
  PROVE  cur \in ringStat /\ \A i \in ringStat : cur <= i
<1>1. todo # {} /\ todo \subseteq Seg BY DEF TypeInv, TypeOK, PassTypeOK, EntryInHand
<1>2. cur \in todo /\ \A j \in todo : cur <= j BY <1>1, SegmentsAreFinite, MinBelongs DEF cur
<1>3. InPass BY DEF InPass
<1>4. Moving
  <2>1. why = "capture" => cap = "live" BY DEF Control
  <2>2. why # "capture" => pc \in Retiring /\ cap = "idle" /\ ~quar
    BY DEF Control, Stops
  <2> QED BY <2>1, <2>2 DEF Moving
<1>5. \A i \in ringStat \ todo : cur < i BY <1>2, <1>3, <1>4 DEF PassOrder
<1>6. ringStat \subseteq Seg BY DEF TypeInv, TypeOK, RingTypeOK
<1> QED BY <1>1, <1>2, <1>3, <1>5, <1>6 DEF PassOrder, Seg

LEMMA SweptStep ==
  ASSUME TypeInv, Control, Stops, Order, Swept, PassOrder, [Next]_vars
  PROVE  Swept'
<1> USE DEF Swept
<1>t. /\ opened \in 0 .. MaxSeg /\ born \in 0 .. MaxSeg /\ side \in [Seg -> SideKinds]
      /\ ringStat \subseteq Seg /\ ringMcap \subseteq Seg /\ MaxSeg \in Nat /\ Seg = 1 .. MaxSeg
  BY BoundsAssumption DEF TypeInv, TypeOK, RingTypeOK, Seg
<1>k. "absent" \notin Terminal /\ "pending" \notin Terminal BY DEF Terminal
<1>1. CASE UNCHANGED vars \/ RecorderExit \/ (\E i \in Seg : CloseSegment(i))
  BY <1>1 DEF vars, ringVars, RecorderExit, CloseSegment
<1>2. CASE OpenSegment BY <1>t, <1>2 DEF OpenSegment
<1>3. ASSUME NEW i \in Seg, CreateSidecar(i) PROVE Swept'
  <2>1. /\ UNCHANGED <<born, opened, ringMcap, prod>> /\ ringStat' = ringStat \cup {i} /\ prod = "running"
        /\ side' = [side EXCEPT ![i] = "pending"] /\ side[i] = "absent" /\ born < i
    BY <1>3 DEF CreateSidecar, Publishing, Unpublished
  <2>2. ASSUME NEW g \in Seg \ ringMcap, g <= opened PROVE g <= i /\ (born < g => side'[g] \in Terminal)
    <3>1. born < g => side[g] \in Terminal BY <2>1, <2>2
    <3>2. CASE i < g
      <4>1. side[g] # "absent" BY <1>k, <1>t, <2>1, <3>1, <3>2
      <4> QED BY <1>k, <1>t, <2>1, <3>2, <4>1 DEF Order
    <3>3. CASE g <= i BY <1>k, <1>t, <2>1, <3>1, <3>3
    <3> QED BY <1>t, <3>2, <3>3
  <2> QED BY <2>1, <2>2
<1>4. ASSUME NEW i \in Seg, NEW kind \in Terminal, NEW drops \in {0, 1}, NEW step \in {0, 1},
             PublishSidecar(i, kind, drops, step)
      PROVE  Swept'
  <2>1. UNCHANGED <<born, opened, ringMcap, ringStat, prod>> /\ side' = [side EXCEPT ![i] = kind]
    BY <1>4 DEF PublishSidecar
  <2> QED BY <1>t, <2>1
<1>5. CASE Next /\ ~Recorder
  <2>1. UNCHANGED <<opened, side>> BY <1>5, RingEffect
  <2>2. CASE PowerLoss BY <2>2 DEF PowerLoss
  <2>3. CASE RetireMcap
    <3>1. /\ ringMcap' = ringMcap \ {cur} \/ ringMcap' = ringMcap
          /\ UNCHANGED <<ringStat, born>> /\ (prod' # "dead" => prod # "dead")
      BY <2>3 DEF RetireMcap, RetireFailed, FailCaptureThen, QuarantineThen, recording
    <3>2. /\ cur \in ringStat /\ \A i \in ringStat : cur <= i
          /\ side[cur] \in Terminal
      BY <2>3, CurIsLeast DEF RetireMcap, Retiring, PassOrder
    <3> QED BY <2>1, <3>1, <3>2
  <2>4. CASE RetireStat
    <3>1. /\ ringMcap \subseteq ringMcap' /\ ringStat' \subseteq ringStat
          /\ UNCHANGED born /\ (prod' # "dead" => prod # "dead")
      BY <2>4 DEF RetireStat, RetireFailed, FailCaptureThen, QuarantineThen, recording
    <3> QED BY <2>1, <3>1
  <2>5. CASE ~PowerLoss /\ ~RetireMcap /\ ~RetireStat
    <3>1. UNCHANGED <<ringMcap, ringStat>> BY <1>5, <2>5, RingEffect DEF Recorder
    <3>2. CASE BootStartRecorder
      <4>1. born' = opened BY <3>2 DEF BootStartRecorder
      <4> QED BY <1>t, <2>1, <3>1, <4>1
    <3>3. CASE ~BootStartRecorder
      <4>1. UNCHANGED born /\ (prod' # "dead" => prod # "dead") BY <1>5, <3>3, RingEffect
      <4> QED BY <2>1, <3>1, <4>1
    <3> QED BY <3>2, <3>3
  <2> QED BY <2>2, <2>3, <2>4, <2>5
<1> QED BY <1>1, <1>2, <1>3, <1>4, <1>5 DEF Recorder

LEMMA PassOrderStep ==
  ASSUME TypeInv, Control, Stops, Phases, Order, PassOrder, [Next]_vars
  PROVE  PassOrder'
<1>t. /\ side \in [Seg -> SideKinds] /\ ringStat \subseteq Seg /\ todo \subseteq Seg
      /\ born \in Int /\ Seg \subseteq Int
  BY DEF TypeInv, TypeOK, RingTypeOK, PassTypeOK, Seg
<1>k. "absent" \notin Terminal /\ "pending" \notin Terminal BY DEF Terminal
<1>1. CASE UNCHANGED vars
  <2>1. UNCHANGED <<pc, after, todo, cap, quar, side, ringStat>>
    BY <1>1 DEF vars, flowVars, passVars, capVars, ringVars
  <2> QED BY <2>1 DEF PassOrder, InPass, Moving, cur
<1>2. CASE Recorder
  <2>1. UNCHANGED <<pc, after, todo, cap, quar>>
    BY <1>2 DEF Recorder, OpenSegment, RecorderExit, CloseSegment, CreateSidecar, PublishSidecar, notRing,
         flowVars, passVars, capVars
  <2>2. UNCHANGED <<InPass, Moving, cur>> BY <2>1 DEF InPass, Moving, cur
  <2>3. \A i \in Seg : side[i] \in Terminal => side'[i] \in Terminal
    BY <1>k, <1>t, <1>2 DEF Recorder, OpenSegment, RecorderExit, CloseSegment, CreateSidecar, PublishSidecar
  <2>4. ASSUME pc \in Carrying \cup Retiring PROVE side'[cur] \in Terminal
    <3>1. cur \in Seg BY <2>4, CurBelongs DEF TypeInv, TypeOK, PassTypeOK, EntryInHand
    <3> QED BY <2>3, <2>4, <3>1 DEF PassOrder
  <2>5. CASE UNCHANGED ringStat BY <2>1, <2>2, <2>4, <2>5 DEF PassOrder
  <2>6. ASSUME NEW i \in Seg, CreateSidecar(i) PROVE PassOrder'
    <3>1. ringStat' = ringStat \cup {i} /\ side[i] = "absent" /\ born < i
      BY <2>6 DEF CreateSidecar, Publishing, Unpublished
    <3>2. ASSUME InPass, NEW j \in todo PROVE j < i
      <4>1. j \in ringStat /\ side[j] # "absent" BY <3>2 DEF PassOrder, Order
      <4>2. j # i /\ ~(i < j) BY <1>k, <1>t, <3>1, <3>2, <4>1 DEF Order
      <4> QED BY <1>t, <3>2, <4>2
    <3> QED BY <2>1, <2>2, <2>4, <3>1, <3>2 DEF PassOrder
  <2> QED BY <1>2, <2>5, <2>6, RingEffect DEF Recorder, OpenSegment, RecorderExit, CloseSegment, PublishSidecar
<1>3. CASE Next /\ ~Recorder
  <2>1. UNCHANGED side /\ PassFlow BY <1>3, RingEffect, PassEffect
  <2>2. ASSUME pc' \in Carrying \cup Retiring PROVE side'[cur'] \in Terminal
    <3>1. UNCHANGED cur BY <2>1, <2>2 DEF PassFlow, cur
    <3> QED BY <2>1, <2>2, <3>1 DEF PassFlow, PassOrder
  <2>3. ASSUME InPass'
        PROVE  /\ todo' \subseteq ringStat'
               /\ Moving' => \A i \in ringStat' \ todo', j \in todo' : j < i
    <3>0. ~PowerLoss BY <2>3 DEF InPass, PowerLoss, ServiceRestarts, Carrying, Retiring
    <3>1. CASE RetireStat
      <4>1. why # "capture"
        BY <2>3, <3>1 DEF RetireStat, Retired, RetireFailed, FailCaptureThen, QuarantineThen, GoTo,
             InPass, Carrying, Retiring
      <4>2. cap = "idle" /\ InPass /\ todo' = todo \ {cur} /\ Moving
        BY <3>1, <4>1 DEF RetireStat, Retired, RetireFailed, Stops, Control, Moving, InPass, Retiring
      <4>3. ringStat' = ringStat \ {cur} \/ (ringStat' = ringStat /\ ~Moving')
        BY <3>1, <4>1, <4>2 DEF RetireStat, RetireFailed, QuarantineThen, Moving
      <4>4. todo' \subseteq ringStat' /\ ringStat' \ todo' \subseteq (ringStat \ todo) \cup {cur}
        BY <4>2, <4>3 DEF PassOrder
      <4>5. Moving' => ringStat' \ todo' \subseteq ringStat \ todo BY <4>2, <4>3
      <4> QED BY <4>2, <4>4, <4>5 DEF PassOrder
    <3>2. CASE ~RetireStat
      <4>1. UNCHANGED ringStat BY <1>3, <3>0, <3>2, RingEffect DEF Recorder
      <4>2. \/ todo' = ringStat
            \/ InPass /\ (Moving' => Moving) /\ todo' = todo
            \/ InPass /\ todo' = todo \ {cur} /\ ~Moving'
        BY <2>1, <2>3, <3>2 DEF PassFlow
      <4> QED BY <4>1, <4>2 DEF PassOrder
    <3> QED BY <3>1, <3>2
  <2> QED BY <2>2, <2>3 DEF PassOrder
<1> QED BY <1>1, <1>2, <1>3

LEMMA RingStep ==
  TypeInv /\ Control /\ Stops /\ Phases /\ Ring /\ [Next]_vars => Ring'
BY OrderStep, SweptStep, PassOrderStep DEF Ring

-----------------------------------------------------------------------------
(* The start boundary.                                                     *)

(* Everything recorded after segment b is in the ring. *)
Above(b) == \A i \in Seg : b < i /\ i <= opened => i \in ringMcap

(* The part of a start request in which a discarded pair counts. *)
Counting ==
  \/ pc \in {"alignCheck", "alignPending"}
  \/ pc \in {"quarMark", "failState"} /\ after = "alignCheck"
  \/ /\ ret = "alignCheck"
     /\ \/ pc \in {"entry", "passEnd"} \cup Carrying \cup Retiring
        \/ pc \in {"quarMark", "failState"} /\ after \in {"entry", "passEnd"}

Boundary ==
  /\ pc = "retireStat" /\ why # "capture" => boundary = cur /\ Above(boundary)
  /\ Counting /\ discarded => Above(boundary)
  /\ pc = "alignPending" => discarded
  /\ pc \in Opening => from[sess] = boundary /\ Above(boundary)

BoundaryFlow ==
  /\ RetireMcap \/ UNCHANGED boundary
  /\ Counting' => Counting \/ AlignBase
  /\ Counting' => AlignBase \/ RetireStat \/ UNCHANGED discarded
  /\ pc' = "retireStat" => RetireMcap \/ (pc = "retireStat" /\ UNCHANGED <<why, todo>>)
  /\ pc' = "alignPending" => (Aligned \/ pc = "alignPending") /\ UNCHANGED discarded
  /\ pc' \in Opening => Activate \/ (pc \in Opening /\ UNCHANGED <<from, sess>>)

LEMMA BoundarySources ==
  ASSUME TypeInv, Next
  PROVE  BoundaryFlow
<1> USE DEF BoundaryFlow, Counting, Opening, Carrying, Retiring
<1>t. ret \in PassReturns /\ after \in Resume BY DEF TypeInv, TypeOK, FlowTypeOK
<1>1. CASE Recorder
  <2>1. UNCHANGED <<flowVars, passVars, histVars, capVars, baseVars>>
    BY <1>1 DEF Recorder, OpenSegment, RecorderExit, CloseSegment, CreateSidecar, PublishSidecar, notRing
  <2> QED BY <2>1 DEF flowVars, passVars, histVars, capVars, baseVars
<1>2. CASE Quarantining
  <2>1. /\ UNCHANGED <<ret, after, boundary, discarded>>
        /\ pc \in {"quarMark", "failState"} /\ (pc' = after \/ pc' = "failState")
    BY <1>2 DEF Quarantining, PersistQuarantine, FailState, histVars, baseVars, GoTo
  <2> QED BY <1>t, <2>1 DEF Resume, PassReturns
<1>3. CASE ProcessEntry
  <2>1. UNCHANGED <<boundary, discarded, ret>> /\ pc = "entry"
    BY <1>3 DEF ProcessEntry, EndEntries, PendingEntry, StalePending, SettlingEntry, AcceptSegment,
         RejectSegment, SkipForFailedCapture, ObserveSteady, ObserveUnsteady, InvalidateBaseline,
         DiscardResidue, QuarantineSuspect, SkipSuspect, notPass, histVars, baseVars, AtEntry, RipeEntry,
         CleanEntry, IntegrityEntry, Suspect, SkipEntry, RetireUnlessQuarantined, RetireOrLeave, GoTo,
         FailOrQuarantineThen, FailCaptureThen, QuarantineThen
  <2>2. \/ pc' \in {"entry", "passEnd", "copyMcap", "retireMcap"}
        \/ pc' = "quarMark" /\ after' \in {"entry", "passEnd"}
    BY <1>3 DEF ProcessEntry, EndEntries, PendingEntry, StalePending, SettlingEntry, AcceptSegment,
         RejectSegment, SkipForFailedCapture, ObserveSteady, ObserveUnsteady, InvalidateBaseline,
         DiscardResidue, QuarantineSuspect, SkipSuspect, SkipEntry, RetireUnlessQuarantined,
         RetireOrLeave, GoTo, FailOrQuarantineThen, FailCaptureThen, QuarantineThen
  <2> QED BY <2>1, <2>2
<1>4. CASE MoveSegment
  <2>1. CASE CopyMcap \/ CopyStat \/ WriteJson \/ WriteExport
    <3>1. UNCHANGED <<boundary, discarded, ret>> /\ pc \in Carrying
      BY <2>1 DEF CopyMcap, CopyStat, WriteJson, WriteExport, histVars, baseVars, CopyNext, CopyFailed,
           FailCaptureThen, QuarantineThen, GoTo
    <3>2. \/ pc' \in Carrying \cup {"retireMcap"}
          \/ pc' = "quarMark" /\ after' = "passEnd"
      BY <2>1 DEF CopyMcap, CopyStat, WriteJson, WriteExport, CopyNext, CopyFailed, FailCaptureThen,
           QuarantineThen, GoTo
    <3> QED BY <3>1, <3>2
  <2>2. CASE RetireMcap \/ RetireStat
    <3>1. pc \in Retiring /\ UNCHANGED ret
      BY <2>2 DEF RetireMcap, RetireStat, Retired, RetireFailed, FailCaptureThen, QuarantineThen, GoTo
    <3>2. \/ pc' \in {"passEnd", "entry"}
          \/ pc' = "retireStat" /\ RetireMcap
          \/ pc' = "quarMark" /\ after' \in {"entry", "passEnd"}
      BY <2>2 DEF RetireMcap, RetireStat, Retired, RetireFailed, FailCaptureThen, QuarantineThen, GoTo
    <3>3. RetireMcap => UNCHANGED discarded BY DEF RetireMcap, RetireFailed
    <3>4. RetireStat => UNCHANGED boundary BY DEF RetireStat
    <3> QED BY <2>2, <3>1, <3>2, <3>3, <3>4
  <2> QED BY <1>4, <2>1, <2>2 DEF MoveSegment
<1>5. CASE EndPass
  <2>1. UNCHANGED <<boundary, discarded, ret>> /\ pc = "passEnd"
    BY <1>5 DEF EndPass, PassQuiet, StaleOpen, StalledRecorder, notPass, histVars, baseVars, GoTo,
         FailOrQuarantineThen, FailCaptureThen, QuarantineThen
  <2>2. pc' = ret \/ (pc' = "quarMark" /\ after' = ret)
    BY <1>5 DEF EndPass, PassQuiet, StaleOpen, StalledRecorder, GoTo, FailOrQuarantineThen,
         FailCaptureThen, QuarantineThen
  <2> QED BY <1>t, <2>1, <2>2 DEF PassReturns
<1>6. CASE Loop
  <2>1. UNCHANGED boundary /\ ~Counting' /\ pc' \notin {"retireStat", "alignPending"} \cup Opening
    BY <1>6 DEF Loop, LoopPass, SuperviseQuiet, SuperviseLoss, NoRequest, Pass, StartPass, GoTo,
         FailCaptureThen, QuarantineThen, elsewhere, histVars
  <2> QED BY <2>1
<1>7. CASE BeginCapture
  <2>1. CASE StartRequest \/ AlignBase \/ AlignAgain \/ AlignRefused \/ AlignTimeout \/ Aligned \/ RefuseUnfinished
    BY <2>1 DEF StartRequest, AlignBase, AlignAgain, AlignRefused, AlignTimeout, Aligned,
         RefuseUnfinished, Pass, StartPass, GoTo, QuarantineThen, elsewhere, histVars, baseVars
  <2>2. CASE Activate \/ WriteMark \/ OpenSession \/ UndoStart
    BY <2>2 DEF Activate, WriteMark, OpenSession, UndoStart, GoTo, reset_capture, histVars, capVars
  <2> QED BY <1>7, <2>1, <2>2 DEF BeginCapture
<1>8. CASE FinalizeCapture
  <2>1. UNCHANGED boundary /\ ~Counting' /\ pc' \notin {"retireStat", "alignPending"} \cup Opening
    BY <1>8 DEF FinalizeCapture, StopFailedCapture, StopRequest, StopInterrupted, StopRecorderGone,
         StopSaved, StopWait, StopTimeout, StopFail, CommitSession, CommitExport, ClearMark, GiveUp,
         CommitFailed, CommitNext, FailCaptureThen, Pass, StartPass, GoTo, QuarantineThen, elsewhere,
         histVars
  <2> QED BY <2>1
<1>9. CASE Boot
  <2>1. UNCHANGED boundary /\ ~Counting' /\ pc' \notin {"retireStat", "alignPending"} \cup Opening
    BY <1>9 DEF Boot, LoadQuarantine, RecoverActive, NothingToRecover, RecoverSessions, BootAdopt,
         BootQuarantined, BootDone, BootStartRecorder, BootWithoutRecorder, Pass, StartPass, GoTo,
         QuarantineThen, elsewhere, bootVars, histVars
  <2> QED BY <2>1
<1>10. CASE Crash \/ PowerLoss
  BY <1>10 DEF Crash, PowerLoss, ServiceRestarts, histVars
<1> QED BY <1>1, <1>2, <1>3, <1>4, <1>5, <1>6, <1>7, <1>8, <1>9, <1>10 DEF Next, Service

LEMMA AboveStays ==
  ASSUME TypeInv, Next, ~RetireMcap, ~PowerLoss, NEW b, Above(b)
  PROVE  Above(b)'
<1>1. ringMcap \subseteq ringMcap' BY RingKept DEF Next
<1>2. CASE OpenSegment
  <2>1. opened \in 0 .. MaxSeg BY DEF TypeInv, TypeOK, RingTypeOK
  <2> QED BY <1>2, <2>1, BoundsAssumption DEF OpenSegment, Above, Seg
<1>3. CASE ~OpenSegment
  <2>1. UNCHANGED opened
    BY <1>3, RingEffect DEF Recorder, RecorderExit, CloseSegment, CreateSidecar, PublishSidecar
  <2> QED BY <1>1, <2>1 DEF Above
<1> QED BY <1>2, <1>3

LEMMA BoundaryStep ==
  TypeInv /\ Control /\ Stops /\ Phases /\ Ring /\ Boundary /\ [Next]_vars => Boundary'
<1> SUFFICES ASSUME TypeInv, Control, Stops, Phases, Ring, Boundary, [Next]_vars PROVE Boundary' OBVIOUS
<1>1. CASE UNCHANGED vars
  <2>1. UNCHANGED <<pc, after, ret, why, todo, boundary, discarded, from, sess, opened, ringMcap>>
    BY <1>1 DEF vars, flowVars, passVars, histVars, baseVars, capVars, ringVars
  <2> QED BY <2>1 DEF Boundary, Counting, Above, cur
<1>2. CASE RetireMcap
  <2>1. /\ pc = "retireMcap" /\ pc' \in {"retireStat", "quarMark"} /\ UNCHANGED <<opened, discarded>>
        /\ pc' = "retireStat" => /\ boundary' = IF why = "capture" THEN boundary ELSE cur
                                 /\ ringMcap' = ringMcap \ {cur} /\ UNCHANGED <<todo, why>>
        /\ pc' # "retireStat" => UNCHANGED <<boundary, ringMcap>>
    BY <1>2 DEF RetireMcap, RetireFailed, FailCaptureThen, QuarantineThen, GoTo, recording, notRetire
  <2>2. CASE pc' = "quarMark"
    <3>1. UNCHANGED <<boundary, ringMcap>> BY <2>1, <2>2
    <3>2. \A b : Above(b) => Above(b)' BY <2>1, <3>1 DEF Above
    <3>3. Counting' => Counting
      BY <1>2, BoundarySources DEF BoundaryFlow, Next, Service, MoveSegment, RetireMcap, AlignBase
    <3> QED BY <2>1, <2>2, <3>1, <3>2, <3>3 DEF Boundary, Opening
  <2>3. CASE pc' = "retireStat"
    <3>1. CASE why = "capture"
      <4>1. cap = "live" BY <2>1, <3>1 DEF Control, Retiring
      <4>2. ~Requesting /\ UNCHANGED ret
        BY <4>1, <1>2 DEF Phases, RetireMcap, RetireFailed, FailCaptureThen, QuarantineThen, GoTo
      <4>3. ~Counting' BY <2>1, <2>3, <4>2 DEF Counting, Requesting, Retiring
      <4> QED BY <2>1, <2>3, <3>1, <4>3 DEF Boundary, Opening
    <3>2. CASE why # "capture"
      <4>1. cur \in ringStat /\ \A i \in ringStat : cur <= i
        BY <2>1, CurIsLeast DEF Ring, Retiring
      <4>2. \A g \in Seg \ ringMcap : g <= opened => g <= cur BY <4>1 DEF Ring, Swept
      <4>3. ringStat \subseteq Seg /\ Seg \subseteq Int BY DEF TypeInv, TypeOK, RingTypeOK, Seg
      <4>4. boundary' = cur /\ cur' = cur BY <2>1, <2>3, <3>2 DEF cur
      <4>5. ASSUME NEW i \in Seg, cur < i, i <= opened PROVE i \in ringMcap'
        BY <2>1, <2>3, <4>1, <4>2, <4>3, <4>5
      <4>6. Above(boundary)' BY <2>1, <4>4, <4>5 DEF Above
      <4> QED BY <2>1, <2>3, <4>4, <4>6 DEF Boundary, Opening
    <3> QED BY <3>1, <3>2
  <2> QED BY <2>1, <2>2, <2>3
<1>3. CASE Next /\ PowerLoss
  BY <1>3 DEF PowerLoss, ServiceRestarts, Boundary, Counting, Opening, Carrying, Retiring
<1>4. CASE Next /\ ~RetireMcap /\ ~PowerLoss
  <2>1. BoundaryFlow /\ UNCHANGED boundary BY <1>4, BoundarySources DEF BoundaryFlow
  <2>2. Above(boundary) => Above(boundary)' BY <1>4, <2>1, AboveStays DEF Above
  <2>3. ASSUME pc' = "retireStat", why' # "capture" PROVE boundary' = cur' /\ Above(boundary)'
    BY <1>4, <2>1, <2>2, <2>3 DEF BoundaryFlow, Boundary, cur
  <2>4. ASSUME Counting', discarded' PROVE Above(boundary)'
    <3>1. ~AlignBase
      BY <2>4 DEF AlignBase, CountFromHere
    <3>2. CASE RetireStat
      <4>1. discarded \/ (why = "idle" /\ pc = "retireStat")
        BY <2>4, <3>2 DEF RetireStat, Retired, RetireFailed
      <4> QED BY <2>1, <2>2, <2>4, <3>1, <4>1 DEF Boundary, BoundaryFlow
    <3>3. CASE ~RetireStat BY <2>1, <2>2, <2>4, <3>1, <3>3 DEF Boundary, BoundaryFlow
    <3> QED BY <3>2, <3>3
  <2>5. ASSUME pc' = "alignPending" PROVE discarded'
    BY <2>1, <2>5 DEF BoundaryFlow, Boundary, Aligned
  <2>6. ASSUME pc' \in Opening PROVE from'[sess'] = boundary' /\ Above(boundary)'
    <3>1. CASE Activate
      <4>1. /\ pc = "alignPending" /\ sess' = used + 1 /\ from' = [from EXCEPT ![used + 1] = boundary]
            /\ used < MaxSess
        BY <3>1 DEF Activate
      <4>2. used + 1 \in Sess /\ from \in [Sess -> 0 .. MaxSeg]
        BY <4>1, BoundsAssumption DEF TypeInv, TypeOK, HistoryTypeOK, Sess
      <4>3. Counting BY <4>1 DEF Counting
      <4> QED BY <2>1, <2>2, <4>1, <4>2, <4>3 DEF Boundary
    <3>2. CASE ~Activate BY <2>1, <2>2, <2>6, <3>2 DEF BoundaryFlow, Boundary
    <3> QED BY <3>1, <3>2
  <2> QED BY <2>3, <2>4, <2>5, <2>6 DEF Boundary
<1> QED BY <1>1, <1>2, <1>3, <1>4

-----------------------------------------------------------------------------
(* The custody of captured segments.                                       *)

Listing == pc = "writeExport" \/ (pc \in Retiring /\ why = "capture")

(* session.json never loses a name while its session is recorded, and      *)
(* names a pair before the pair leaves the ring.                           *)
Lists ==
  /\ \A s \in Sess : used < s => listed[s] \cup exported[s] \cup sdListed[s] \cup sdExported[s] = {}
  /\ sess # 0 => listed[sess] \subseteq files
  /\ Listing => cur \in listed[sess]

ListFlow ==
  /\ CopyStat \/ Activate \/ reset_capture \/ UNCHANGED <<files, sess>>
  /\ listed' = listed \/ listed' = [listed EXCEPT ![sess] = files] \/ PowerLoss
  /\ Activate \/ UNCHANGED <<used, from>>
  /\ OpenSession \/ UNCHANGED claimed
  /\ CopyMcap \/ UNCHANGED sdMcap
  /\ CopyStat \/ UNCHANGED sdStat
  /\ \/ ~Listing' \/ (Listing /\ UNCHANGED <<todo, why>>)
     \/ WriteJson /\ UNCHANGED todo /\ listed' = [listed EXCEPT ![sess] = files]

LEMMA AllListsFollow ==
  ASSUME TypeInv, Next
  PROVE  ListsFollow \/ ((CopyMcap \/ CopyStat) /\ UNCHANGED <<listed, exported, sdListed, sdExported>>)
<1> USE DEF TypeInv, TypeOK
<1>1. CASE Recorder
  <2>1. UNCHANGED sdVars
    BY <1>1 DEF Recorder, OpenSegment, RecorderExit, CloseSegment, CreateSidecar, PublishSidecar, notRing
  <2> QED BY <2>1, CardListsFollow
<1>2. CASE CopyMcap \/ CopyStat BY <1>2 DEF CopyMcap, CopyStat
<1>3. CASE WriteJson \/ WriteExport
  <2>1. \E o \in Outcome : WriteSession(o, "recording") \/ WriteManifest(o)
    BY <1>3 DEF WriteJson, WriteExport
  <2> QED BY <2>1, CardListsFollow
<1>4. CASE RetireMcap \/ RetireStat
  <2>1. UNCHANGED sdVars BY <1>4 DEF RetireMcap, RetireStat, notRetire
  <2> QED BY <2>1, CardListsFollow
<1>5. CASE ProcessEntry BY <1>5, EntryPublishes DEF Publishes
<1>6. CASE Quarantining \/ EndPass \/ Loop \/ Boot BY <1>6, QuietPublishes DEF Publishes
<1>7. CASE BeginCapture \/ FinalizeCapture \/ Crash \/ PowerLoss
  BY <1>7, RequestPublishes DEF Publishes
<1> QED BY <1>1, <1>2, <1>3, <1>4, <1>5, <1>6, <1>7 DEF Next, Service, MoveSegment

LEMMA ListSources ==
  ASSUME TypeInv, Control, Next
  PROVE  ListFlow
<1> USE DEF ListFlow, Listing, Retiring, sdVars, histVars
<1>t. ret \in PassReturns /\ after \in Resume BY DEF TypeInv, TypeOK, FlowTypeOK
<1>1. CASE Recorder
  <2>1. UNCHANGED <<flowVars, passVars, histVars, capVars, sdVars>>
    BY <1>1 DEF Recorder, OpenSegment, RecorderExit, CloseSegment, CreateSidecar, PublishSidecar, notRing
  <2> QED BY <2>1 DEF flowVars, passVars, capVars
<1>2. CASE Quarantining
  <2>1. /\ UNCHANGED <<histVars, capVars, sdMcap, sdStat>>
        /\ listed' = listed \/ listed' = [listed EXCEPT ![sess] = files]
        /\ pc' = after \/ pc' = "failState"
    BY <1>2 DEF Quarantining, PersistQuarantine, FailState, WriteSession, GoTo
  <2> QED BY <1>t, <2>1 DEF Resume, PassReturns, capVars
<1>3. CASE ProcessEntry
  <2>1. UNCHANGED <<histVars, files, sess, sdVars>>
    BY <1>3 DEF ProcessEntry, EndEntries, PendingEntry, StalePending, SettlingEntry, AcceptSegment,
         RejectSegment, SkipForFailedCapture, ObserveSteady, ObserveUnsteady, InvalidateBaseline,
         DiscardResidue, QuarantineSuspect, SkipSuspect, notPass, capVars, capRest
  <2>2. pc' # "writeExport" /\ (pc' \notin Retiring \/ why' # "capture")
    BY <1>3 DEF ProcessEntry, EndEntries, PendingEntry, StalePending, SettlingEntry, AcceptSegment,
         RejectSegment, SkipForFailedCapture, ObserveSteady, ObserveUnsteady, InvalidateBaseline,
         DiscardResidue, QuarantineSuspect, SkipSuspect, SkipEntry, RetireUnlessQuarantined,
         RetireOrLeave, GoTo, FailOrQuarantineThen, FailCaptureThen, QuarantineThen
  <2> QED BY <2>1, <2>2
<1>4. CASE CopyMcap \/ CopyStat
  <2>1. pc' \in {"copyStat", "writeJson", "quarMark"} /\ UNCHANGED <<histVars, listed>>
    BY <1>4 DEF CopyMcap, CopyStat, CopyNext, CopyFailed, FailCaptureThen, QuarantineThen, GoTo
  <2>2. CopyMcap => UNCHANGED <<files, sess, sdStat>>
    BY DEF CopyMcap, CopyNext, CopyFailed, capVars, capRest
  <2>3. CopyStat => UNCHANGED sdMcap BY DEF CopyStat
  <2> QED BY <1>4, <2>1, <2>2, <2>3
<1>5. CASE WriteJson
  <2>1. PICK o \in Outcome : /\ WriteSession(o, "recording")
                             /\ IF Told(o) THEN CopyNext("writeExport") ELSE CopyFailed
    BY <1>5 DEF WriteJson
  <2>2. UNCHANGED <<histVars, files, sess, sdMcap, sdStat, todo>>
    BY <1>5, <2>1 DEF WriteJson, WriteSession, CopyNext, CopyFailed, capVars, capRest, passVars
  <2>3. listed' = listed \/ listed' = [listed EXCEPT ![sess] = files]
    BY <2>1 DEF WriteSession
  <2>4. CASE Told(o)
    <3>1. listed' = [listed EXCEPT ![sess] = files] BY <2>1, <2>4 DEF WriteSession, Told, Commits
    <3> QED BY <1>5, <2>2, <3>1
  <2>5. CASE ~Told(o)
    <3>1. pc' = "quarMark" BY <2>1, <2>5 DEF CopyFailed, FailCaptureThen, QuarantineThen
    <3> QED BY <2>2, <2>3, <3>1
  <2> QED BY <2>4, <2>5
<1>6. CASE WriteExport
  <2>1. UNCHANGED <<histVars, files, sess, sdMcap, sdStat, listed, todo, why>> /\ pc = "writeExport"
    BY <1>6 DEF WriteExport, WriteManifest, CopyNext, CopyFailed, capVars, capRest, passVars
  <2> QED BY <2>1
<1>7. CASE RetireMcap \/ RetireStat
  <2>1. /\ UNCHANGED <<files, sess, sdVars, used, from, claimed, why>> /\ pc \in Retiring
        /\ pc' \in {"passEnd", "entry", "quarMark"} \/ (pc' = "retireStat" /\ UNCHANGED todo)
    BY <1>7 DEF RetireMcap, RetireStat, Retired, RetireFailed, FailCaptureThen, QuarantineThen, GoTo,
         capVars, capRest, notRetire
  <2> QED BY <2>1
<1>8. CASE EndPass \/ Loop
  <2>1. UNCHANGED <<histVars, files, sess, sdVars>>
    BY <1>8 DEF EndPass, PassQuiet, StaleOpen, StalledRecorder, Loop, LoopPass, SuperviseQuiet,
         SuperviseLoss, NoRequest, Pass, notPass, elsewhere, capVars, capRest
  <2>2. pc' \in PassReturns \cup {"quarMark", "entry", "accept", "idle"}
    BY <1>8, <1>t DEF EndPass, PassQuiet, StaleOpen, StalledRecorder, Loop, LoopPass, SuperviseQuiet,
         SuperviseLoss, NoRequest, Pass, StartPass, GoTo, FailOrQuarantineThen, FailCaptureThen,
         QuarantineThen
  <2> QED BY <2>1, <2>2 DEF PassReturns
<1>9. CASE BeginCapture
  <2>1. ~Listing'
    BY <1>9 DEF BeginCapture, StartRequest, AlignBase, AlignAgain, AlignRefused, AlignTimeout, Aligned,
         RefuseUnfinished, Activate, WriteMark, OpenSession, UndoStart, Pass, StartPass, GoTo,
         QuarantineThen
  <2> QED BY <1>9, <2>1 DEF BeginCapture, StartRequest, AlignBase, AlignAgain, AlignRefused, AlignTimeout,
         Aligned, RefuseUnfinished, Activate, WriteMark, OpenSession, UndoStart, Pass, elsewhere,
         WriteSession, capVars
<1>10. CASE FinalizeCapture
  <2>1. ~Listing'
    BY <1>10 DEF FinalizeCapture, StopFailedCapture, StopRequest, StopInterrupted, StopRecorderGone,
         StopSaved, StopWait, StopTimeout, StopFail, CommitSession, CommitExport, ClearMark, GiveUp,
         CommitFailed, CommitNext, FailCaptureThen, Pass, StartPass, GoTo, QuarantineThen
  <2> QED BY <1>10, <2>1 DEF FinalizeCapture, StopFailedCapture, StopRequest, StopInterrupted,
         StopRecorderGone, StopSaved, StopWait, StopTimeout, StopFail, CommitSession, CommitExport,
         ClearMark, CommitFailed, CommitNext, FailCaptureThen, Pass, elsewhere, WriteSession,
         WriteManifest, capVars, capRest
<1>11. CASE Boot
  <2>1. ~Listing'
    BY <1>11 DEF Boot, LoadQuarantine, RecoverActive, NothingToRecover, RecoverSessions, BootAdopt,
         BootQuarantined, BootDone, BootStartRecorder, BootWithoutRecorder, Pass, StartPass, GoTo,
         QuarantineThen
  <2> QED BY <1>11, <2>1 DEF Boot, LoadQuarantine, RecoverActive, NothingToRecover, RecoverSessions,
         BootAdopt, BootQuarantined, BootDone, BootStartRecorder, BootWithoutRecorder, Pass, elsewhere,
         bootVars, capVars, MarkInterrupted
<1>12. CASE Crash \/ PowerLoss
  <2>1. reset_capture /\ pc' = "boot" /\ UNCHANGED <<histVars, sdMcap, sdStat>>
    BY <1>12, RestartListsFollow DEF Crash, PowerLoss, ServiceRestarts, ListsFollow, TypeInv, TypeOK
  <2>2. listed' = listed \/ listed' = [listed EXCEPT ![sess] = files] \/ PowerLoss
    BY <1>12 DEF Crash, CutShort, WriteSession, WriteManifest, MarkInterrupted
  <2> QED BY <2>1, <2>2
<1> QED BY <1>1, <1>2, <1>3, <1>4, <1>5, <1>6, <1>7, <1>8, <1>9, <1>10, <1>11, <1>12
        DEF Next, Service, MoveSegment

LEMMA ListsStep == TypeInv /\ Control /\ Durable /\ Sessions /\ Lists /\ [Next]_vars => Lists'
<1> SUFFICES ASSUME TypeInv, Control, Durable, Sessions, Lists, [Next]_vars PROVE Lists' OBVIOUS
<1>1. CASE UNCHANGED vars
  <2>1. UNCHANGED <<used, listed, exported, sdListed, sdExported, sess, files, pc, why, todo>>
    BY <1>1 DEF vars, histVars, sdVars, capVars, flowVars, passVars
  <2> QED BY <2>1 DEF Lists, Listing, cur
<1>2. CASE Next
  <2>t. /\ listed \in [Sess -> SUBSET Seg] /\ used \in 0 .. MaxSess /\ sess \in 0 .. MaxSess
        /\ Sess = 1 .. MaxSess /\ MaxSess \in Nat
    BY BoundsAssumption DEF TypeInv, TypeOK, CardTypeOK, HistoryTypeOK, CaptureTypeOK, Sess
  <2>f. ListFlow BY <1>2, ListSources
  <2>1. ASSUME NEW s \in Sess, used' < s
        PROVE  (listed[s] \cup exported[s] \cup sdListed[s] \cup sdExported[s])' = {}
    <3>1. used < s BY <2>1, <2>t, <2>f DEF ListFlow, Activate
    <3>2. sess # s BY <3>1, <2>t DEF Sessions
    <3>3. listed[s] = {} /\ exported[s] = {} /\ sdListed[s] = {} /\ sdExported[s] = {}
      BY <3>1 DEF Lists
    <3> QED BY <1>2, <3>2, <3>3, AllListsFollow DEF ListsFollow, Follows
  <2>2. ASSUME sess' # 0 PROVE listed'[sess'] \subseteq files'
    <3>1. CASE Activate
      <4>1. sess' = used + 1 /\ used + 1 \in Sess /\ listed' = listed
        BY <2>t, <3>1 DEF Activate, sdVars
      <4> QED BY <2>t, <4>1 DEF Lists
    <3>2. CASE CopyStat
      <4>1. UNCHANGED <<listed, sess>> /\ files \subseteq files'
        BY <3>2 DEF CopyStat, CopyFailed, capRest
      <4> QED BY <2>2, <4>1 DEF Lists
    <3>3. CASE UNCHANGED <<files, sess>>
      <4>1. sess \in Sess BY <2>2, <2>t, <3>3
      <4>2. ~PowerLoss BY <2>2 DEF PowerLoss, ServiceRestarts, reset_capture
      <4> QED BY <2>2, <2>f, <2>t, <3>3, <4>1, <4>2 DEF Lists, ListFlow
    <3> QED BY <2>2, <2>f, <3>1, <3>2, <3>3 DEF ListFlow, reset_capture
  <2>3. ASSUME Listing' PROVE cur' \in listed'[sess']
    <3>1. CASE Listing /\ UNCHANGED <<todo, why>>
      <4>1. sess \in Sess /\ cur \in listed[sess] /\ cur \in files /\ cur' = cur
        BY <2>t, <3>1 DEF Lists, Listing, Durable, InHand, Control, Carrying, cur
      <4>2. sess' = sess
        <5>1. ~Activate /\ ~reset_capture
          <6>1. Listing' => cap' = "live" /\ sess' # 0
            <7>1. Control' BY <1>2, TypeStep
            <7> QED BY <7>1 DEF Control, Listing, Carrying
          <6>2. ~Activate BY <2>3 DEF Activate, GoTo, Listing, Retiring
          <6> QED BY <2>3, <6>1, <6>2 DEF reset_capture
        <5>2. CopyStat => sess' = sess BY DEF CopyStat, CopyFailed, capRest
        <5> QED BY <2>f, <5>1, <5>2 DEF ListFlow
      <4>3. ~PowerLoss BY <2>3 DEF PowerLoss, ServiceRestarts, Listing, Retiring
      <4> QED BY <2>f, <2>t, <4>1, <4>2, <4>3 DEF ListFlow
    <3>2. CASE WriteJson /\ UNCHANGED todo /\ listed' = [listed EXCEPT ![sess] = files]
      <4>1. sess \in Sess /\ cur \in files /\ cur' = cur
        BY <2>t, <3>2 DEF WriteJson, Durable, InHand, Control, Carrying, cur
      <4>2. sess' = sess
        BY <3>2 DEF WriteJson, CopyNext, CopyFailed, capVars, capRest
      <4> QED BY <2>t, <3>2, <4>1, <4>2
    <3> QED BY <2>3, <2>f, <3>1, <3>2 DEF ListFlow
  <2> QED BY <2>1, <2>2, <2>3 DEF Lists
<1> QED BY <1>1, <1>2

(* Segment i of session s is still in the ring, or saved and listed. *)
Safe(s, i) == i \in ringMcap \/ i \in sdMcap[s] \cap sdStat[s] \cap listed[s]

Pending(s) == ~Complete(s) \/ (cap # "idle" /\ s = sess)

Kept ==
  \A s \in claimed : Pending(s) =>
    \A i \in Seg : from[s] < i /\ i <= opened => Safe(s, i)

LEMMA PendingBefore ==
  ASSUME TypeInv, Control, Sessions, Next, ~PowerLoss, NEW s \in claimed, Pending(s)'
  PROVE  Pending(s)
<1> USE DEF Pending, Complete
<1>t. /\ s \in Sess /\ s # 0 /\ used \in Nat /\ s <= used /\ (s = sess => cap # "idle")
      /\ disk \in [Sess -> {"none", "recording", "complete", "failed"}]
  BY BoundsAssumption DEF TypeInv, TypeOK, HistoryTypeOK, CardTypeOK, Sessions, Sess
<1>1. CASE LeavesSessions BY <1>1 DEF LeavesSessions
<1>2. CASE OnSessions
  <2>1. CASE s = sess BY <1>t, <2>1
  <2>2. CASE s # sess /\ (FailState \/ WriteJson \/ OpenSession \/ StopFail \/ CommitSession)
    <3>1. disk'[s] = disk[s]
      BY <2>2, WriteKeepsComplete DEF FailState, WriteJson, OpenSession, StopFail, CommitSession
    <3>2. sess' = sess \/ cap' = "idle"
      BY <2>2 DEF FailState, WriteJson, OpenSession, StopFail, CommitSession, reset_capture, CopyNext,
         CopyFailed, CommitNext, CommitFailed, capVars, capRest
    <3> QED BY <2>2, <3>1, <3>2
  <2>3. CASE s # sess /\ (UndoStart \/ CommitExport \/ ClearMark \/ Crash)
    <3>1. disk[s] = "complete" => disk'[s] = "complete"
      <4>1. CASE UndoStart \/ CommitExport \/ ClearMark
        BY <4>1 DEF UndoStart, CommitExport, ClearMark, WriteManifest, sdVars
      <4>2. CASE Crash
        <5>1. CASE \E o \in Outcome, state \in {"recording", "complete", "failed"} : WriteSession(o, state)
          BY <2>3, <5>1, WriteKeepsComplete
        <5>2. CASE \/ UNCHANGED sdVars \/ \E o \in Outcome : WriteManifest(o)
                   \/ \E done \in SUBSET interrupted : \E told \in SUBSET done : MarkInterrupted(done, told)
          BY <1>t, <5>2 DEF WriteManifest, MarkInterrupted, interrupted, sdVars
        <5> QED BY <4>2, <5>1, <5>2 DEF Crash, CutShort
      <4> QED BY <2>3, <4>1, <4>2
    <3>2. sess' = sess \/ cap' = "idle"
      BY <2>3 DEF UndoStart, CommitExport, ClearMark, Crash, ServiceRestarts, reset_capture,
         CommitNext, CommitFailed, capVars, capRest
    <3> QED BY <2>3, <3>1, <3>2
  <2>4. CASE s # sess /\ RecoverSessions
    <3>1. disk[s] = "complete" => disk'[s] = "complete" BY <1>t, <2>4 DEF RecoverSessions, MarkInterrupted, interrupted
    <3>2. UNCHANGED <<sess, cap>> BY <2>4 DEF RecoverSessions, bootVars, capVars
    <3> QED BY <2>4, <3>1, <3>2
  <2>5. CASE Activate
    <3>1. disk' = disk /\ sess' = used + 1 BY <2>5 DEF Activate, sdVars
    <3> QED BY <1>t, <3>1
  <2> QED BY <1>2, <2>1, <2>2, <2>3, <2>4, <2>5 DEF OnSessions
<1> QED BY <1>1, <1>2, SessionEffect

LEMMA KeptStep ==
  ASSUME TypeInv, Control, Durable, Sessions, Stops, Phases, Marks, Ring, Boundary, Lists, Kept,
         [Next]_vars, ~PowerLoss
  PROVE  Kept'
<1>1. CASE UNCHANGED vars
  <2>1. UNCHANGED <<claimed, cap, sess, from, opened, disk, ringMcap, sdMcap, sdStat, listed>>
    BY <1>1 DEF vars, histVars, capVars, ringVars, sdVars
  <2> QED BY <2>1 DEF Kept, Pending, Complete, Safe
<1>2. CASE Next
  <2>t. /\ claimed \subseteq Sess /\ Sess = 1 .. MaxSess /\ MaxSess \in Nat /\ Seg = 1 .. MaxSeg
        /\ MaxSeg \in Nat /\ opened \in 0 .. MaxSeg /\ used \in 0 .. MaxSess
        /\ sdMcap \in [Sess -> SUBSET Seg] /\ sdStat \in [Sess -> SUBSET Seg]
        /\ listed \in [Sess -> SUBSET Seg] /\ from \in [Sess -> 0 .. MaxSeg]
    BY BoundsAssumption DEF TypeInv, TypeOK, CardTypeOK, HistoryTypeOK, RingTypeOK, Sess, Seg
  <2>f. ListFlow BY <1>2, ListSources
  <2>s. SUFFICES ASSUME NEW s \in claimed', Pending(s)', NEW i \in Seg, from'[s] < i, i <= opened'
                 PROVE  Safe(s, i)'
    BY DEF Kept
  <2>1. ringMcap \subseteq ringMcap' \cup {cur} /\ (RetireMcap \/ ringMcap \subseteq ringMcap')
    BY <1>2, RingKept DEF Next, RetireMcap
  <2>2. CASE s \notin claimed
    <3>1. OpenSession /\ s = sess BY <2>s, <2>2, <2>f DEF ListFlow, OpenSession
    <3>2. pc \in Opening /\ UNCHANGED <<from, opened, ringMcap>>
      BY <3>1 DEF OpenSession, Opening, ringVars
    <3> QED BY <2>s, <3>1, <3>2 DEF Boundary, Above, Safe
  <2>3. CASE s \in claimed
    <3>1. Pending(s) BY <1>2, <2>s, <2>3, PendingBefore
    <3>2. from'[s] = from[s]
      <4>1. s <= used BY <2>3 DEF Sessions
      <4> QED BY <2>f, <2>t, <2>3, <4>1 DEF ListFlow, Activate
    <3>3. CASE i > opened
      <4>1. OpenSegment
        <5>1. opened' # opened BY <2>s, <2>t, <3>3
        <5> QED BY <1>2, <5>1, RingEffect DEF Recorder, RecorderExit, CloseSegment, CreateSidecar,
               PublishSidecar
      <4> QED BY <2>s, <2>t, <3>3, <4>1 DEF OpenSegment, Safe
    <3>4. CASE i <= opened
      <4>1. Safe(s, i) BY <2>s, <2>3, <3>1, <3>2, <3>4 DEF Kept
      <4>2. s \in Sess BY <2>t, <2>3
      <4>3. CASE i \in sdMcap[s] \cap sdStat[s] \cap listed[s]
        <5>1. i \in sdMcap'[s]
          <6>1. \/ sdMcap' = sdMcap
                \/ \E o \in Outcome : sdMcap' = [sdMcap EXCEPT ![sess] = Stored(o, @ \cup {cur}, @, @)]
            BY <2>f DEF ListFlow, CopyMcap
          <6> QED BY <2>t, <4>2, <4>3, <6>1 DEF Stored
        <5>2. i \in sdStat'[s]
          <6>1. \/ sdStat' = sdStat
                \/ \E o \in Outcome : sdStat' = [sdStat EXCEPT ![sess] = Stored(o, @ \cup {cur}, @, @)]
            BY <2>f DEF ListFlow, CopyStat
          <6> QED BY <2>t, <4>2, <4>3, <6>1 DEF Stored
        <5>3. i \in listed'[s]
          <6>1. s = sess => i \in files BY <2>t, <4>2, <4>3 DEF Lists
          <6>2. listed' = listed \/ listed' = [listed EXCEPT ![sess] = files] BY <2>f DEF ListFlow
          <6> QED BY <2>t, <4>2, <4>3, <6>1, <6>2
        <5> QED BY <5>1, <5>2, <5>3 DEF Safe
      <4>4. CASE i \in ringMcap /\ ~RetireMcap BY <2>1, <4>4 DEF Safe
      <4>5. CASE i \in ringMcap /\ RetireMcap
        <5>1. CASE why = "capture"
          <6>1. cap = "live" /\ Listing BY <4>5, <5>1 DEF RetireMcap, Listing, Control, Retiring
          <6>2. s = sess BY <2>3, <3>1, <6>1 DEF Marks, Pending
          <6>3. cur \in listed[s] BY <6>1, <6>2 DEF Lists
          <6>4. cur \in sdMcap[s] \cap sdStat[s] \cap listed[s]
            BY <4>2, <6>3 DEF Durable, ListedIsDurable
          <6>5. UNCHANGED <<sdMcap, sdStat, listed>> BY <4>5 DEF RetireMcap, notRetire, sdVars
          <6> QED BY <2>1, <4>5, <6>4, <6>5 DEF Safe
        <5>2. CASE why # "capture"
          <6>1. cap = "idle" /\ ~quar /\ pc # "boot"
            BY <4>5, <5>2 DEF RetireMcap, Control, Stops, Retiring
          <6> QED BY <2>3, <3>1, <6>1 DEF Marks, Pending
        <5> QED BY <5>1, <5>2
      <4> QED BY <4>1, <4>3, <4>4, <4>5 DEF Safe
    <3> QED BY <2>s, <2>t, <3>3, <3>4
  <2> QED BY <2>2, <2>3
<1> QED BY <1>1, <1>2

(* Everything that is known of a service that never lost power. *)
Custody ==
  /\ Marked /\ Durable /\ Stops /\ Ring /\ Boundary /\ Lists
  /\ Powered => Kept

LEMMA InitCustody == Init => Custody
<1> SUFFICES ASSUME Init PROVE Custody OBVIOUS
<1>1. /\ pc = "boot" /\ ret = "supervise" /\ todo = {} /\ ringStat = {} /\ opened = 0 /\ born = 0 /\ sess = 0
      /\ claimed = {} /\ side = [i \in Seg |-> "absent"] /\ listed = [s \in Sess |-> {}]
      /\ exported = [s \in Sess |-> {}] /\ sdListed = [s \in Sess |-> {}]
      /\ sdExported = [s \in Sess |-> {}]
  BY DEF Init, ServiceStart
<1>2. Ring
  <2>1. Order BY <1>1 DEF Order, Terminal
  <2>2. Swept BY <1>1, BoundsAssumption DEF Swept, Seg
  <2>3. PassOrder BY <1>1 DEF PassOrder, InPass, Carrying, Retiring
  <2> QED BY <2>1, <2>2, <2>3 DEF Ring
<1>3. Boundary BY <1>1 DEF Boundary, Counting, Opening, Carrying, Retiring
<1>4. Lists BY <1>1 DEF Lists, Listing, Retiring
<1>5. Kept BY <1>1 DEF Kept
<1> QED BY <1>2, <1>3, <1>4, <1>5, InitMarked, InitDurable, InitStops DEF Custody

LEMMA CustodyStep ==
  ASSUME MaxFault \in 0 .. 1
  PROVE  Custody /\ [Next]_vars => Custody'
<1> SUFFICES ASSUME Custody, [Next]_vars PROVE Custody' OBVIOUS
<1>1. Marked' BY MarkedStep DEF Custody
<1>2. TypeInv /\ Control /\ Sessions /\ Phases /\ (Powered => Marks) BY DEF Custody, Marked
<1>3. Durable' BY <1>2, DurableStep DEF Custody
<1>4. Stops' BY <1>2, StopsStep DEF Custody
<1>5. Ring' BY <1>2, RingStep DEF Custody
<1>6. Boundary' BY <1>2, BoundaryStep DEF Custody
<1>7. Lists' BY <1>2, ListsStep DEF Custody
<1>8. Powered' => Kept' BY <1>2, PoweredBefore, KeptStep DEF Custody
<1> QED BY <1>1, <1>3, <1>4, <1>5, <1>6, <1>7, <1>8 DEF Custody

(* As long as the power stays on and at most one file operation fails, no  *)
(* segment recorded since an answered start is lost: until the session is  *)
(* complete it is in the ring, or on the card and listed by session.json.  *)
THEOREM CapturedSegmentsAreKept ==
  ASSUME MaxFault \in 0 .. 1
  PROVE  Spec => []CapturedIsKept
<1>1. Custody => CapturedIsKept
  <2>1. SUFFICES ASSUME Custody, powers = 0, NEW s \in claimed, disk[s] # "complete",
                        NEW i \in (from[s] + 1) .. opened
                 PROVE  i \in ringMcap \/ i \in sdMcap[s] \cap sdStat[s] \cap listed[s]
    BY DEF CapturedIsKept
  <2>2. from[s] \in 0 .. MaxSeg /\ opened \in 0 .. MaxSeg
    BY <2>1 DEF Custody, Marked, TypeInv, TypeOK, HistoryTypeOK, RingTypeOK
  <2>3. i \in Seg /\ from[s] < i /\ i <= opened BY <2>1, <2>2, BoundsAssumption DEF Seg
  <2> QED BY <2>1, <2>3 DEF Custody, Powered, Kept, Pending, Complete, Safe
<1>2. Custody /\ [Next]_vars => Custody' BY CustodyStep
<1> QED BY <1>1, <1>2, InitCustody, PTL DEF Spec

-----------------------------------------------------------------------------
(* A recorder that is alive and the residue of an earlier one.             *)

At(p) == pc = p \/ (pc \in {"quarMark", "failState"} /\ after = p)
EarlyBoot == pc = "boot" \/ At("bootSess") \/ At("bootAdopt")
Booting ==
  \/ EarlyBoot \/ At("bootStart")
  \/ ret = "bootStart" /\ (InPass \/ At("passEnd"))

(* A quarantined recorder is dead, and so is one that the service has      *)
(* neither found nor started.                                              *)
Boots ==
  /\ quar /\ pc # "quarMark" => prod = "dead"
  /\ ~adopted /\ ~EarlyBoot => prod = "dead"
  /\ Booting => cap = "idle"

BootFlow ==
  /\ ~quar /\ quar' => pc' = "quarMark" \/ prod' = "dead"
  /\ pc = "quarMark" => pc' = "quarMark" \/ prod' = "dead" \/ ~quar'
  /\ quar => quar' \/ Crash \/ PowerLoss
  /\ BootAdopt \/ BootStartRecorder \/ Crash \/ PowerLoss \/ UNCHANGED adopted
  /\ EarlyBoot => EarlyBoot' \/ BootAdopt \/ BootQuarantined
  /\ Booting' => Crash \/ PowerLoss \/ (Booting /\ (cap = "idle" => cap' = "idle"))
  /\ InPass' => (InPass /\ UNCHANGED ret) \/ todo' = ringStat

LEMMA BootSources ==
  ASSUME TypeInv, Phases, Next
  PROVE  BootFlow
<1> USE DEF BootFlow, Booting, EarlyBoot, At, InPass, Carrying, Retiring
<1>t. ret \in PassReturns /\ after \in Resume BY DEF TypeInv, TypeOK, FlowTypeOK
<1>1. CASE Recorder
  <2>1. UNCHANGED <<flowVars, quar, capVars, baseVars>>
    BY <1>1 DEF Recorder, OpenSegment, RecorderExit, CloseSegment, CreateSidecar, PublishSidecar, notRing
  <2> QED BY <2>1 DEF flowVars, capVars, baseVars
<1>2. CASE Quarantining
  <2>1. /\ UNCHANGED <<ret, after, quar, adopted, cap>> /\ (pc = "quarMark" => prod' = "dead")
        /\ pc \in {"quarMark", "failState"} /\ (pc' = after \/ pc' = "failState")
    BY <1>2 DEF Quarantining, PersistQuarantine, FailState, capVars, baseVars, GoTo
  <2> QED BY <1>t, <2>1 DEF Resume, PassReturns
<1>3. CASE ProcessEntry
  <2>1. UNCHANGED <<adopted, ret>> /\ pc = "entry" /\ (cap' = cap \/ cap # "idle")
    BY <1>3 DEF ProcessEntry, EndEntries, PendingEntry, StalePending, SettlingEntry, AcceptSegment,
         RejectSegment, SkipForFailedCapture, ObserveSteady, ObserveUnsteady, InvalidateBaseline,
         DiscardResidue, QuarantineSuspect, SkipSuspect, capVars, baseVars, AtEntry, RipeEntry,
         CleanEntry, IntegrityEntry, Suspect, SkipEntry, RetireUnlessQuarantined, RetireOrLeave, GoTo,
         FailOrQuarantineThen, FailCaptureThen, QuarantineThen
  <2>2. \/ pc' \in {"entry", "passEnd", "copyMcap", "retireMcap"} /\ UNCHANGED quar
        \/ pc' = "quarMark" /\ after' \in {"entry", "passEnd"} /\ quar'
    BY <1>3 DEF ProcessEntry, EndEntries, PendingEntry, StalePending, SettlingEntry, AcceptSegment,
         RejectSegment, SkipForFailedCapture, ObserveSteady, ObserveUnsteady, InvalidateBaseline,
         DiscardResidue, QuarantineSuspect, SkipSuspect, SkipEntry, RetireUnlessQuarantined,
         RetireOrLeave, GoTo, FailOrQuarantineThen, FailCaptureThen, QuarantineThen
  <2> QED BY <2>1, <2>2
<1>4. CASE MoveSegment
  <2>1. CASE CopyMcap \/ CopyStat \/ WriteJson \/ WriteExport
    <3>1. UNCHANGED <<adopted, ret>> /\ pc \in Carrying /\ (cap' = cap \/ cap # "idle")
      BY <2>1 DEF CopyMcap, CopyStat, WriteJson, WriteExport, baseVars, capVars, CopyNext, CopyFailed,
           FailCaptureThen, QuarantineThen, GoTo
    <3>2. \/ pc' \in Carrying \cup {"retireMcap"} /\ UNCHANGED quar
          \/ pc' = "quarMark" /\ after' = "passEnd" /\ quar'
      BY <2>1 DEF CopyMcap, CopyStat, WriteJson, WriteExport, CopyNext, CopyFailed, FailCaptureThen,
           QuarantineThen, GoTo
    <3> QED BY <3>1, <3>2
  <2>2. CASE RetireMcap \/ RetireStat
    <3>1. pc \in Retiring /\ UNCHANGED <<ret, adopted>> /\ (cap' = cap \/ cap # "idle")
      BY <2>2 DEF RetireMcap, RetireStat, Retired, RetireFailed, FailCaptureThen, QuarantineThen, GoTo,
           notRetire, capVars
    <3>2. \/ pc' \in {"passEnd", "entry", "retireStat"} /\ UNCHANGED quar
          \/ pc' = "quarMark" /\ after' \in {"entry", "passEnd"} /\ quar'
      BY <2>2 DEF RetireMcap, RetireStat, Retired, RetireFailed, FailCaptureThen, QuarantineThen, GoTo
    <3> QED BY <2>2, <3>1, <3>2
  <2> QED BY <1>4, <2>1, <2>2 DEF MoveSegment
<1>5. CASE EndPass
  <2>1. UNCHANGED <<adopted, ret>> /\ pc = "passEnd" /\ (cap' = cap \/ cap # "idle")
    BY <1>5 DEF EndPass, PassQuiet, StaleOpen, StalledRecorder, baseVars, capVars, GoTo,
         FailOrQuarantineThen, FailCaptureThen, QuarantineThen
  <2>2. (pc' = ret /\ UNCHANGED quar) \/ (pc' = "quarMark" /\ after' = ret /\ quar')
    BY <1>5 DEF EndPass, PassQuiet, StaleOpen, StalledRecorder, GoTo, FailOrQuarantineThen,
         FailCaptureThen, QuarantineThen
  <2> QED BY <1>t, <2>1, <2>2 DEF PassReturns
<1>6. CASE Loop \/ BeginCapture
  <2>1. ~Booting' /\ ~Booting /\ UNCHANGED adopted /\ pc # "quarMark"
    BY <1>6 DEF Loop, LoopPass, SuperviseQuiet, SuperviseLoss, NoRequest, BeginCapture, StartRequest,
         AlignBase, AlignAgain, AlignRefused, AlignTimeout, Aligned, RefuseUnfinished, Activate,
         WriteMark, OpenSession, UndoStart, Pass, StartPass, GoTo, FailCaptureThen, QuarantineThen,
         baseVars
  <2>2. UNCHANGED quar \/ (quar' /\ pc' = "quarMark")
    BY <1>6 DEF Loop, LoopPass, SuperviseQuiet, SuperviseLoss, NoRequest, BeginCapture, StartRequest,
         AlignBase, AlignAgain, AlignRefused, AlignTimeout, Aligned, RefuseUnfinished, Activate,
         WriteMark, OpenSession, UndoStart, Pass, FailCaptureThen, QuarantineThen
  <2>3. InPass' => todo' = ringStat
    BY <1>6 DEF Loop, LoopPass, SuperviseQuiet, SuperviseLoss, NoRequest, BeginCapture, StartRequest,
         AlignBase, AlignAgain, AlignRefused, AlignTimeout, Aligned, RefuseUnfinished, Activate,
         WriteMark, OpenSession, UndoStart, Pass, StartPass, GoTo, FailCaptureThen, QuarantineThen
  <2> QED BY <2>1, <2>2, <2>3
<1>7. CASE FinalizeCapture
  <2>1. ~Booting' /\ ~Booting /\ UNCHANGED adopted /\ pc # "quarMark"
    BY <1>7 DEF FinalizeCapture, StopFailedCapture, StopRequest, StopInterrupted, StopRecorderGone,
         StopSaved, StopWait, StopTimeout, StopFail, CommitSession, CommitExport, ClearMark, GiveUp,
         CommitFailed, CommitNext, FailCaptureThen, Pass, StartPass, GoTo, QuarantineThen, baseVars,
         Draining
  <2>2. UNCHANGED quar \/ (quar' /\ pc' = "quarMark")
    BY <1>7 DEF FinalizeCapture, StopFailedCapture, StopRequest, StopInterrupted, StopRecorderGone,
         StopSaved, StopWait, StopTimeout, StopFail, CommitSession, CommitExport, ClearMark, GiveUp,
         CommitFailed, CommitNext, FailCaptureThen, Pass, QuarantineThen
  <2>3. InPass' => todo' = ringStat
    BY <1>7 DEF FinalizeCapture, StopFailedCapture, StopRequest, StopInterrupted, StopRecorderGone,
         StopSaved, StopWait, StopTimeout, StopFail, CommitSession, CommitExport, ClearMark, GiveUp,
         CommitFailed, CommitNext, FailCaptureThen, Pass, StartPass, GoTo, QuarantineThen
  <2> QED BY <2>1, <2>2, <2>3
<1>8. CASE Boot
  BY <1>8 DEF Boot, LoadQuarantine, RecoverActive, NothingToRecover, RecoverSessions, BootAdopt,
         BootQuarantined, BootDone, BootStartRecorder, BootWithoutRecorder, Pass, StartPass, GoTo,
         QuarantineThen, bootVars, baseVars, capVars
<1>9. CASE Crash \/ PowerLoss BY <1>9 DEF Crash, PowerLoss, ServiceRestarts
<1> QED BY <1>1, <1>2, <1>3, <1>4, <1>5, <1>6, <1>7, <1>8, <1>9 DEF Next, Service

LEMMA BootsStep == TypeInv /\ Phases /\ Boots /\ [Next]_vars => Boots'
<1> SUFFICES ASSUME TypeInv, Phases, Boots, [Next]_vars PROVE Boots' OBVIOUS
<1>1. CASE UNCHANGED vars
  <2>1. UNCHANGED <<pc, after, ret, cap, quar, prod, adopted>>
    BY <1>1 DEF vars, flowVars, capVars, ringVars, baseVars
  <2> QED BY <2>1 DEF Boots, Booting, EarlyBoot, At, InPass
<1>2. CASE Next
  <2>0. BootFlow BY <1>2, BootSources
  <2>1. BootStartRecorder \/ (prod' # "dead" => prod # "dead") BY <1>2, RingEffect
  <2>2. ASSUME quar', pc' # "quarMark" PROVE prod' = "dead"
    <3>1. ~BootStartRecorder BY <2>2 DEF BootStartRecorder
    <3>2. CASE ~quar BY <2>0, <2>2, <3>2 DEF BootFlow
    <3>3. CASE quar /\ pc = "quarMark" BY <2>0, <2>2, <3>3 DEF BootFlow
    <3>4. CASE quar /\ pc # "quarMark" BY <2>1, <3>1, <3>4 DEF Boots
    <3> QED BY <3>2, <3>3, <3>4
  <2>3. ASSUME ~adopted', ~EarlyBoot' PROVE prod' = "dead"
    <3>1. ~BootStartRecorder BY <2>3 DEF BootStartRecorder
    <3>2. ~Crash /\ ~PowerLoss BY <2>3 DEF Crash, PowerLoss, ServiceRestarts, EarlyBoot
    <3>3. CASE BootAdopt BY <2>3, <3>3 DEF BootAdopt, Pass, ringVars
    <3>4. CASE BootQuarantined
      <4>1. prod = "dead" BY <3>4 DEF BootQuarantined, Boots
      <4> QED BY <2>1, <3>1, <4>1
    <3>5. CASE ~BootAdopt /\ ~BootQuarantined
      <4>1. ~adopted /\ ~EarlyBoot BY <2>0, <2>3, <3>1, <3>2, <3>5 DEF BootFlow
      <4> QED BY <2>1, <3>1, <4>1 DEF Boots
    <3> QED BY <3>3, <3>4, <3>5
  <2>4. ASSUME Booting' PROVE cap' = "idle"
    <3>1. CASE Crash \/ PowerLoss BY <3>1 DEF Crash, PowerLoss, ServiceRestarts, reset_capture
    <3>2. CASE ~Crash /\ ~PowerLoss BY <2>0, <2>4, <3>2 DEF BootFlow, Boots
    <3> QED BY <3>1, <3>2
  <2> QED BY <2>2, <2>3, <2>4 DEF Boots
<1> QED BY <1>1, <1>2

(* A sidecar that has left the ring came before every one that is there.   *)
SweptStat == \A g \in Seg \ ringStat : side[g] # "absent" => \A i \in ringStat : g < i

LEMMA SweptStatStep ==
  ASSUME TypeInv, Control, Stops, Order, PassOrder, SweptStat, [Next]_vars
  PROVE  SweptStat'
<1> USE DEF SweptStat
<1>t. /\ side \in [Seg -> SideKinds] /\ ringStat \subseteq Seg /\ Seg \subseteq Int /\ born \in Int
  BY DEF TypeInv, TypeOK, RingTypeOK, Seg
<1>k. "absent" \notin Terminal /\ "pending" \notin Terminal BY DEF Terminal
<1>1. CASE UNCHANGED vars BY <1>1 DEF vars, ringVars
<1>2. ASSUME NEW i \in Seg, CreateSidecar(i) PROVE SweptStat'
  <2>1. /\ ringStat' = ringStat \cup {i} /\ side[i] = "absent" /\ born < i
        /\ side' = [side EXCEPT ![i] = "pending"]
    BY <1>2 DEF CreateSidecar, Publishing, Unpublished
  <2>2. ASSUME NEW g \in Seg \ ringStat', side'[g] # "absent" PROVE \A k \in ringStat' : g < k
    <3>1. g # i /\ side[g] # "absent" /\ g \notin ringStat BY <1>t, <2>1, <2>2
    <3>2. ~(i < g) BY <1>k, <2>1, <3>1 DEF Order
    <3> QED BY <1>t, <2>1, <3>1, <3>2
  <2> QED BY <2>2
<1>3. ASSUME NEW i \in Seg, NEW kind \in Terminal, NEW drops \in {0, 1}, NEW step \in {0, 1},
             PublishSidecar(i, kind, drops, step)
      PROVE  SweptStat'
  <2>1. UNCHANGED ringStat /\ side' = [side EXCEPT ![i] = kind] /\ side[i] = "pending"
    BY <1>3 DEF PublishSidecar
  <2> QED BY <1>t, <2>1
<1>4. CASE OpenSegment \/ RecorderExit \/ \E i \in Seg : CloseSegment(i)
  BY <1>4 DEF OpenSegment, RecorderExit, CloseSegment
<1>5. CASE Next /\ ~Recorder
  <2>1. UNCHANGED side BY <1>5, RingEffect
  <2>2. CASE PowerLoss BY <2>2 DEF PowerLoss
  <2>3. CASE RetireStat
    <3>1. ringStat' = ringStat \/ ringStat' = ringStat \ {cur} BY <2>3 DEF RetireStat
    <3>2. cur \in ringStat /\ \A i \in ringStat : cur <= i
      BY <2>3, CurIsLeast DEF RetireStat, Retiring
    <3>3. PICK c \in ringStat : /\ ringStat' = ringStat \/ ringStat' = ringStat \ {c}
                               /\ \A i \in ringStat : c <= i
      BY <3>1, <3>2
    <3>4. ASSUME NEW g \in Seg \ ringStat', side[g] # "absent", NEW k \in ringStat' PROVE g < k
      <4>1. k \in ringStat /\ c <= k /\ c \in Int /\ k \in Int BY <1>t, <3>3, <3>4
      <4>2. CASE g \in ringStat
        <5>1. g = c /\ k # c BY <3>3, <3>4, <4>2
        <5> QED BY <4>1, <5>1
      <4>3. CASE g \notin ringStat BY <3>4, <4>1, <4>3
      <4> QED BY <4>2, <4>3
    <3> QED BY <2>1, <3>4
  <2>4. CASE ~RetireStat /\ ~PowerLoss
    <3>1. UNCHANGED ringStat BY <1>5, <2>4, RingEffect DEF Recorder
    <3> QED BY <2>1, <3>1
  <2> QED BY <2>2, <2>3, <2>4
<1> QED BY <1>1, <1>2, <1>3, <1>4, <1>5 DEF Recorder

(* At an entry that may leave the ring the pass is at its least pair. *)
LEMMA EntryIsLeast ==
  ASSUME TypeInv, PassOrder, pc = "entry", todo # {}, Moving
  PROVE  cur \in ringStat /\ \A i \in ringStat : cur <= i
<1>1. todo \subseteq Seg /\ ringStat \subseteq Seg
  BY DEF TypeInv, TypeOK, PassTypeOK, RingTypeOK
<1>2. cur \in todo /\ \A j \in todo : cur <= j BY <1>1, SegmentsAreFinite, MinBelongs DEF cur
<1>3. InPass BY DEF InPass
<1>4. \A i \in ringStat \ todo : cur < i BY <1>2, <1>3 DEF PassOrder
<1> QED BY <1>1, <1>2, <1>3, <1>4 DEF PassOrder, Seg

(* The pass takes a pair in hand only when it is whole. *)
LEMMA HandSources ==
  ASSUME TypeInv, Next, pc' \in Carrying \cup Retiring
  PROVE  /\ UNCHANGED todo
         /\ \/ pc \in Carrying \cup Retiring
            \/ /\ pc = "entry" /\ (CleanEntry \/ IntegrityEntry) /\ UNCHANGED <<ringStat, cap, quar, prod>>
               /\ Moving /\ AtEntry
               /\ AcceptSegment \/ ObserveSteady \/ ObserveUnsteady \/ InvalidateBaseline \/ DiscardResidue
            \/ Recorder
<1> USE DEF Carrying, Retiring
<1>t. ret \in PassReturns /\ after \in Resume BY DEF TypeInv, TypeOK, FlowTypeOK
<1>1. CASE Recorder
  <2>1. UNCHANGED <<flowVars, passVars>>
    BY <1>1 DEF Recorder, OpenSegment, RecorderExit, CloseSegment, CreateSidecar, PublishSidecar, notRing
  <2> QED BY <1>1, <2>1 DEF flowVars, passVars
<1>2. CASE Quarantining
  <2>1. pc' = after \/ pc' = "failState"
    BY <1>2 DEF Quarantining, PersistQuarantine, FailState, GoTo
  <2> QED BY <1>t, <2>1 DEF Resume, PassReturns
<1>3. CASE ProcessEntry
  <2>1. AcceptSegment \/ ObserveSteady \/ ObserveUnsteady \/ InvalidateBaseline \/ DiscardResidue
    BY <1>3 DEF ProcessEntry, EndEntries, PendingEntry, StalePending, SettlingEntry, RejectSegment,
         SkipForFailedCapture, QuarantineSuspect, SkipSuspect, SkipEntry, GoTo,
         FailOrQuarantineThen, FailCaptureThen, QuarantineThen
  <2>2. CASE AcceptSegment
    BY <2>2 DEF AcceptSegment, CleanEntry, RipeEntry, AtEntry, Moving, ringVars
  <2>3. CASE ObserveSteady \/ ObserveUnsteady \/ InvalidateBaseline \/ DiscardResidue
    <3>1. \E reason \in {"idle", "warmup"} : RetireOrLeave(quar, reason)
      BY <2>3 DEF ObserveSteady, ObserveUnsteady, InvalidateBaseline, DiscardResidue,
                  RetireUnlessQuarantined
    <3>2. ~quar /\ UNCHANGED todo BY <3>1 DEF RetireOrLeave, SkipEntry, GoTo
    <3> QED BY <2>3, <3>2 DEF ObserveSteady, ObserveUnsteady, InvalidateBaseline, DiscardResidue,
                  CleanEntry, IntegrityEntry, RipeEntry, AtEntry, Moving, ringVars, capVars
  <2> QED BY <2>1, <2>2, <2>3
<1>4. CASE MoveSegment
  <2>1. CASE CopyMcap \/ CopyStat \/ WriteJson \/ WriteExport
    BY <2>1 DEF CopyMcap, CopyStat, WriteJson, WriteExport, CopyNext, CopyFailed, passVars
  <2>2. CASE RetireMcap \/ RetireStat
    BY <2>2 DEF RetireMcap, RetireStat, Retired, RetireFailed, FailCaptureThen, QuarantineThen, GoTo
  <2> QED BY <1>4, <2>1, <2>2 DEF MoveSegment
<1>5. CASE EndPass \/ Loop
  BY <1>t, <1>5 DEF EndPass, PassQuiet, StaleOpen, StalledRecorder, GoTo, FailOrQuarantineThen,
         FailCaptureThen, QuarantineThen, Loop, LoopPass, SuperviseQuiet, SuperviseLoss, NoRequest,
         Pass, StartPass, PassReturns
<1>6. CASE BeginCapture
  BY <1>6 DEF BeginCapture, StartRequest, AlignBase, AlignAgain, AlignRefused, AlignTimeout, Aligned,
         RefuseUnfinished, Activate, WriteMark, OpenSession, UndoStart, Pass, StartPass, GoTo,
         QuarantineThen
<1>7. CASE FinalizeCapture
  BY <1>7 DEF FinalizeCapture, StopFailedCapture, StopRequest, StopInterrupted, StopRecorderGone,
         StopSaved, StopWait, StopTimeout, StopFail, CommitSession, CommitExport, ClearMark, GiveUp,
         CommitFailed, CommitNext, FailCaptureThen, Pass, StartPass, GoTo, QuarantineThen
<1>8. CASE Boot
  BY <1>8 DEF Boot, LoadQuarantine, RecoverActive, NothingToRecover, RecoverSessions, BootAdopt,
         BootQuarantined, BootDone, BootStartRecorder, BootWithoutRecorder, Pass, StartPass, GoTo,
         QuarantineThen
<1>9. CASE Crash \/ PowerLoss BY <1>9 DEF Crash, PowerLoss, ServiceRestarts
<1> QED BY <1>1, <1>2, <1>3, <1>4, <1>5, <1>6, <1>7, <1>8, <1>9 DEF Next, Service

(* A pass that does not end in the quarantine ends at an entry it cannot   *)
(* settle or at its last one, or after a pair it has saved.                *)
LEMMA PassEndSources ==
  ASSUME TypeInv, Phases, Next, ~Recorder, ~quar', pc' \in {"passEnd"} \cup PassReturns
  PROVE  /\ UNCHANGED ret
         /\ pc' = "passEnd" =>
              EndEntries \/ PendingEntry \/ SettlingEntry \/ (RetireStat /\ why = "capture")
         /\ pc' \in PassReturns => (PassQuiet /\ pc' = ret) \/ (AlignBase /\ pc' = "alignCheck")
<1> USE DEF PassReturns
<1>t. ret \in PassReturns BY DEF TypeInv, TypeOK, FlowTypeOK
<1>1. CASE Quarantining
  BY <1>1 DEF Quarantining, PersistQuarantine, FailState, Phases, Failing
<1>2. CASE ProcessEntry
  BY <1>2 DEF ProcessEntry, EndEntries, PendingEntry, StalePending, SettlingEntry, AcceptSegment,
         RejectSegment, SkipForFailedCapture, ObserveSteady, ObserveUnsteady, InvalidateBaseline,
         DiscardResidue, QuarantineSuspect, SkipSuspect, SkipEntry, RetireUnlessQuarantined,
         RetireOrLeave, GoTo, FailOrQuarantineThen, FailCaptureThen, QuarantineThen
<1>3. CASE MoveSegment
  <2>1. CASE CopyMcap \/ CopyStat \/ WriteJson \/ WriteExport
    BY <2>1 DEF CopyMcap, CopyStat, WriteJson, WriteExport, CopyNext, CopyFailed, FailCaptureThen,
         QuarantineThen, GoTo
  <2>2. CASE RetireMcap \/ RetireStat
    BY <2>2 DEF RetireMcap, RetireStat, Retired, RetireFailed, FailCaptureThen, QuarantineThen, GoTo
  <2> QED BY <1>3, <2>1, <2>2 DEF MoveSegment
<1>4. CASE EndPass
  BY <1>t, <1>4 DEF EndPass, PassQuiet, StaleOpen, StalledRecorder, GoTo, FailOrQuarantineThen,
         FailCaptureThen, QuarantineThen
<1>5. CASE Loop \/ BeginCapture
  BY <1>5 DEF Loop, LoopPass, SuperviseQuiet, SuperviseLoss, NoRequest, BeginCapture, StartRequest,
         AlignBase, AlignAgain, AlignRefused, AlignTimeout, Aligned, RefuseUnfinished, Activate,
         WriteMark, OpenSession, UndoStart, Pass, StartPass, GoTo, FailCaptureThen, QuarantineThen
<1>6. CASE FinalizeCapture
  BY <1>6 DEF FinalizeCapture, StopFailedCapture, StopRequest, StopInterrupted, StopRecorderGone,
         StopSaved, StopWait, StopTimeout, StopFail, CommitSession, CommitExport, ClearMark, GiveUp,
         CommitFailed, CommitNext, FailCaptureThen, Pass, StartPass, GoTo, QuarantineThen
<1>7. CASE Boot
  BY <1>7 DEF Boot, LoadQuarantine, RecoverActive, NothingToRecover, RecoverSessions, BootAdopt,
         BootQuarantined, BootDone, BootStartRecorder, BootWithoutRecorder, Pass, StartPass, GoTo,
         QuarantineThen
<1>8. CASE Crash \/ PowerLoss BY <1>8 DEF Crash, PowerLoss, ServiceRestarts
<1> QED BY <1>1, <1>2, <1>3, <1>4, <1>5, <1>6, <1>7, <1>8 DEF Next, Service

(* An entry that no pass can take out of the ring. *)
Blocked(i) ==
  side[i] = "pending" \/ (side[i] \in {"clean", "integrity"} /\ ~mcap_is_closed(i))
StuckBelow(b) == \E l \in ringStat : l <= b /\ Blocked(l) /\ \A k \in ringStat : l <= k

(* The pass at boot leaves nothing of an earlier recorder behind an entry  *)
(* that could still be settled.                                            *)
Drained ==
  /\ ret = "bootStart" /\ InPass /\ ~adopted /\ ~quar => ringStat \subseteq todo
  /\ pc = "bootStart" \/ (pc = "passEnd" /\ ret = "bootStart") =>
       adopted \/ quar \/ ringStat = {} \/ StuckBelow(opened)

LEMMA DrainedStep ==
  ASSUME TypeInv, Control, Stops, Phases, Order, PassOrder, Boots, Drained, [Next]_vars
  PROVE  Drained'
<1>b. Boots' BY BootsStep
<1>t. ringStat \subseteq Seg /\ todo \subseteq Seg /\ opened \in Int /\ Seg \subseteq Int
  BY DEF TypeInv, TypeOK, PassTypeOK, RingTypeOK, Seg
<1>1. CASE UNCHANGED vars
  <2>1. UNCHANGED <<pc, after, ret, quar, adopted, ringStat, ringMcap, closed, side, opened, todo>>
    BY <1>1 DEF vars, flowVars, passVars, ringVars, baseVars
  <2> QED BY <2>1 DEF Drained, InPass, StuckBelow, Blocked, mcap_is_closed
<1>2. CASE Recorder
  <2>1. UNCHANGED <<pc, after, ret, adopted, quar>> /\ prod # "dead"
    BY <1>2 DEF Recorder, OpenSegment, RecorderExit, CloseSegment, CreateSidecar, PublishSidecar,
         notRing, flowVars, baseVars
  <2>2. adopted \/ EarlyBoot BY <2>1 DEF Boots
  <2>3. EarlyBoot => /\ ~InPass /\ pc # "bootStart" /\ pc # "passEnd"
    BY DEF EarlyBoot, At, InPass, Carrying, Retiring
  <2> QED BY <2>1, <2>2, <2>3 DEF Drained, InPass
<1>3. CASE Next /\ ~Recorder
  <2>0. BootFlow /\ PassFlow BY <1>3, BootSources, PassEffect
  <2>1. ringStat' \subseteq ringStat
    <3>1. ~\E i \in Seg : CreateSidecar(i) BY <1>3 DEF Recorder
    <3> QED BY <1>3, <3>1, RingEffect DEF RetireStat, PowerLoss
  <2>2. ASSUME ret' = "bootStart", InPass', ~adopted', ~quar' PROVE ringStat' \subseteq todo'
    <3>1. CASE todo' = ringStat BY <2>1, <3>1
    <3>2. CASE InPass /\ UNCHANGED ret
      <4>1. ~Crash /\ ~PowerLoss /\ ~BootAdopt /\ ~BootStartRecorder
        BY <2>2, <3>2 DEF Crash, PowerLoss, ServiceRestarts, BootAdopt, BootStartRecorder, InPass,
             Carrying, Retiring
      <4>2. ringStat \subseteq todo BY <2>0, <2>2, <3>2, <4>1 DEF BootFlow, Drained
      <4>3. Moving' BY <1>b, <2>2 DEF Boots, Booting, Moving
      <4>4. RetireStat => ringStat' = ringStat \ {cur}
        BY <2>2, <4>1, <4>2 DEF RetireStat, RetireFailed, FailCaptureThen, QuarantineThen
      <4> QED BY <2>0, <2>1, <2>2, <4>2, <4>3, <4>4 DEF PassFlow
    <3> QED BY <2>0, <2>2, <3>1, <3>2 DEF BootFlow
  <2>3. ASSUME pc' = "bootStart" \/ (pc' = "passEnd" /\ ret' = "bootStart"), ~adopted', ~quar'
        PROVE  ringStat' = {} \/ StuckBelow(opened)'
    <3>1. /\ UNCHANGED ret
          /\ pc' = "passEnd" =>
               EndEntries \/ PendingEntry \/ SettlingEntry \/ (RetireStat /\ why = "capture")
          /\ pc' = "bootStart" => PassQuiet /\ pc' = ret
      BY <1>3, <2>3, PassEndSources DEF PassReturns
    <3>2. ~Crash /\ ~PowerLoss /\ ~BootAdopt /\ ~BootStartRecorder
      BY <2>3 DEF Crash, PowerLoss, ServiceRestarts, BootAdopt, Pass, StartPass, BootStartRecorder
    <3>3. ~adopted /\ ~quar BY <2>0, <2>3, <3>2 DEF BootFlow
    <3>4. CASE PassQuiet
      BY <3>1, <3>3, <3>4, <2>3 DEF PassQuiet, Drained, ringVars, StuckBelow, Blocked, mcap_is_closed
    <3>5. ASSUME EndEntries \/ PendingEntry \/ SettlingEntry, ret = "bootStart"
          PROVE  ringStat' = {} \/ StuckBelow(opened)'
      <4>1. pc = "entry" /\ InPass /\ UNCHANGED ringVars
        BY <3>5 DEF EndEntries, PendingEntry, SettlingEntry, AtEntry, InPass
      <4>2. ringStat \subseteq todo BY <3>3, <3>5, <4>1 DEF Drained
      <4>3. cap = "idle" /\ ~finalizing BY <3>5, <4>1 DEF Boots, Booting, Stops
      <4>4. CASE EndEntries
        BY <4>1, <4>2, <4>3, <4>4 DEF EndEntries, BeyondStop, ringVars
      <4>5. CASE PendingEntry \/ SettlingEntry
        <5>1. todo # {} /\ Blocked(cur)
          BY <4>5 DEF PendingEntry, SettlingEntry, AtEntry, Unsettled, Blocked
        <5>2. cur \in ringStat /\ \A i \in ringStat : cur <= i
          BY <3>3, <4>1, <4>3, <5>1, EntryIsLeast DEF Moving
        <5>3. cur <= opened BY <1>t, <5>2 DEF Order
        <5>4. StuckBelow(opened) BY <5>1, <5>2, <5>3 DEF StuckBelow
        <5> QED BY <4>1, <5>4 DEF StuckBelow, Blocked, mcap_is_closed, ringVars
      <4> QED BY <3>5, <4>4, <4>5
    <3>6. ~(RetireStat /\ why = "capture" /\ ret = "bootStart")
      <4>1. RetireStat /\ why = "capture" => cap = "live" BY DEF RetireStat, Control, Retiring
      <4>2. RetireStat /\ ret = "bootStart" => cap = "idle"
        BY DEF RetireStat, Boots, Booting, InPass, Retiring
      <4> QED BY <4>1, <4>2
    <3> QED BY <2>3, <3>1, <3>4, <3>5, <3>6
  <2> QED BY <2>2, <2>3 DEF Drained
<1> QED BY <1>1, <1>2, <1>3

(* A retirement goes on with its own steps or ends with the service. *)
LEMMA RetiringNext ==
  ASSUME Next, pc \in Retiring
  PROVE  RetireMcap \/ RetireStat \/ Recorder \/ Crash \/ PowerLoss
<1> USE DEF Retiring
<1>1. ~(Quarantining \/ ProcessEntry \/ EndPass \/ Loop \/ BeginCapture \/ FinalizeCapture \/ Boot)
  BY DEF Quarantining, PersistQuarantine, FailState, ProcessEntry, EndEntries, PendingEntry,
       StalePending, SettlingEntry, AcceptSegment, RejectSegment, SkipForFailedCapture,
       ObserveSteady, ObserveUnsteady, InvalidateBaseline, DiscardResidue, QuarantineSuspect,
       SkipSuspect, AtEntry, RipeEntry, CleanEntry, IntegrityEntry, Suspect, EndPass, PassQuiet,
       StaleOpen, StalledRecorder, Loop, LoopPass, SuperviseQuiet, SuperviseLoss, NoRequest,
       BeginCapture, StartRequest, AlignBase, AlignAgain, AlignRefused, AlignTimeout, Aligned,
       RefuseUnfinished, Activate, WriteMark, OpenSession, UndoStart, FinalizeCapture,
       StopFailedCapture, StopRequest, StopInterrupted, StopRecorderGone, StopSaved, StopWait,
       StopTimeout, StopFail, CommitSession, CommitExport, ClearMark, Draining, Boot,
       LoadQuarantine, RecoverActive, NothingToRecover, RecoverSessions, BootAdopt,
       BootQuarantined, BootDone, BootStartRecorder, BootWithoutRecorder
<1> QED BY <1>1 DEF Next, Service, MoveSegment, CopyMcap, CopyStat, WriteJson, WriteExport

(* What a terminal sidecar says does not change. *)
LEMMA TerminalStays ==
  ASSUME TypeInv, Next, NEW i \in Seg, side[i] \in Terminal
  PROVE  side'[i] = side[i] /\ ctr'[i] = ctr[i] /\ prog'[i] = prog[i]
<1>t. side \in [Seg -> SideKinds] /\ ctr \in [Seg -> Nat] /\ prog \in [Seg -> Nat]
  BY DEF TypeInv, TypeOK, RingTypeOK
<1>k. "absent" \notin Terminal /\ "pending" \notin Terminal BY DEF Terminal
<1>1. CASE Recorder
  BY <1>1, <1>t, <1>k DEF Recorder, OpenSegment, RecorderExit, CloseSegment, CreateSidecar, PublishSidecar
<1>2. CASE ~Recorder BY <1>2, RingEffect
<1> QED BY <1>1, <1>2

(* The steps that change the integrity baseline. *)
LEMMA BaselineSources ==
  ASSUME Next
  PROVE  /\ ObserveSteady \/ SkipForFailedCapture \/ DiscardResidue \/ (hasClean' => hasClean)
         /\ ObserveSteady \/ ObserveUnsteady \/ UNCHANGED baseLast \/ baseLast' = 0
         /\ \/ ObserveSteady \/ ObserveUnsteady \/ InvalidateBaseline \/ BootAdopt
            \/ BootStartRecorder \/ Crash \/ PowerLoss \/ UNCHANGED baseLast
         /\ \/ ObserveUnsteady \/ InvalidateBaseline \/ StartRequest \/ Crash \/ PowerLoss
            \/ UNCHANGED genMoved
<1>1. CASE Recorder
  <2>1. UNCHANGED baseVars
    BY <1>1 DEF Recorder, OpenSegment, RecorderExit, CloseSegment, CreateSidecar, PublishSidecar, notRing
  <2> QED BY <2>1 DEF baseVars
<1>2. CASE Quarantining
  <2>1. UNCHANGED baseVars BY <1>2 DEF Quarantining, PersistQuarantine, FailState
  <2> QED BY <2>1 DEF baseVars
<1>3. CASE ProcessEntry
  <2>1. CASE ObserveSteady BY <2>1 DEF ObserveSteady
  <2>2. CASE ObserveUnsteady BY <2>2 DEF ObserveUnsteady
  <2>3. CASE InvalidateBaseline BY <2>3 DEF InvalidateBaseline
  <2>4. CASE SkipForFailedCapture \/ DiscardResidue
    <3>1. UNCHANGED <<baseLast, genMoved>> BY <2>4 DEF SkipForFailedCapture, DiscardResidue
    <3> QED BY <2>4, <3>1
  <2>5. CASE ~(ObserveSteady \/ ObserveUnsteady \/ InvalidateBaseline \/ SkipForFailedCapture \/ DiscardResidue)
    <3>1. UNCHANGED baseVars
      BY <1>3, <2>5 DEF ProcessEntry, EndEntries, PendingEntry, StalePending, SettlingEntry,
           AcceptSegment, RejectSegment, QuarantineSuspect, SkipSuspect
    <3> QED BY <3>1 DEF baseVars
  <2> QED BY <2>1, <2>2, <2>3, <2>4, <2>5
<1>4. CASE MoveSegment
  <2>1. UNCHANGED <<hasClean, baseLast, genMoved>>
    BY <1>4 DEF MoveSegment, CopyMcap, CopyStat, WriteJson, WriteExport, RetireMcap, RetireStat,
         notRetire, baseVars
  <2> QED BY <2>1
<1>5. CASE EndPass \/ Loop
  <2>1. UNCHANGED baseVars
    BY <1>5 DEF EndPass, PassQuiet, StaleOpen, StalledRecorder, Loop, LoopPass, SuperviseQuiet,
         SuperviseLoss, NoRequest
  <2> QED BY <2>1 DEF baseVars
<1>6. CASE BeginCapture
  <2>1. UNCHANGED <<hasClean, baseLast>> /\ (StartRequest \/ UNCHANGED genMoved)
    BY <1>6 DEF BeginCapture, StartRequest, AlignBase, AlignAgain, AlignRefused, AlignTimeout, Aligned,
         RefuseUnfinished, Activate, WriteMark, OpenSession, UndoStart, baseVars
  <2> QED BY <2>1
<1>7. CASE FinalizeCapture
  <2>1. UNCHANGED baseVars
    BY <1>7 DEF FinalizeCapture, StopFailedCapture, StopRequest, StopInterrupted, StopRecorderGone,
         StopSaved, StopWait, StopTimeout, StopFail, CommitSession, CommitExport, ClearMark
  <2> QED BY <2>1 DEF baseVars
<1>8. CASE Boot
  <2>1. CASE BootAdopt BY <2>1 DEF BootAdopt, ResetBaseline
  <2>2. CASE BootStartRecorder BY <2>2 DEF BootStartRecorder, ResetBaseline
  <2>3. CASE ~BootAdopt /\ ~BootStartRecorder
    <3>1. UNCHANGED baseVars
      BY <1>8, <2>3 DEF Boot, LoadQuarantine, RecoverActive, NothingToRecover, RecoverSessions,
           BootQuarantined, BootDone, BootWithoutRecorder
    <3> QED BY <3>1 DEF baseVars
  <2> QED BY <2>1, <2>2, <2>3
<1>9. CASE Crash \/ PowerLoss BY <1>9 DEF Crash, PowerLoss, ServiceRestarts, ResetBaseline
<1> QED BY <1>1, <1>2, <1>3, <1>4, <1>5, <1>6, <1>7, <1>8, <1>9 DEF Next, Service

(* No sidecar in the ring is an earlier recorder's. *)
NoResidue == \A j \in ringStat : born < j

(* While the recorder lives, an earlier one's residue blocks every pass;   *)
(* so a pair that is moved or observed is this recorder's, and the         *)
(* baseline, and once there is one every sidecar has its MCAP.             *)
Residue ==
  /\ prod # "dead" => NoResidue \/ StuckBelow(born)
  /\ prod # "dead" /\ pc \in Carrying \cup Retiring => NoResidue
  /\ prod # "dead" /\ adopted /\ hasClean /\ ~quar =>
       NoResidue /\ \A j \in ringStat : j \in ringMcap \/ (pc = "retireStat" /\ j = cur)
  /\ baseLast # 0 => side[baseLast] \in Terminal /\ born < baseLast

LEMMA ResidueStays ==
  ASSUME Next, ~BootStartRecorder, NoResidue
  PROVE  NoResidue'
<1>1. UNCHANGED born BY RingEffect
<1>2. \A j \in ringStat' \ ringStat : born < j
  BY RingEffect DEF CreateSidecar, Publishing, Unpublished, RetireStat, PowerLoss
<1> QED BY <1>1, <1>2 DEF NoResidue

LEMMA StuckStays ==
  ASSUME TypeInv, Order, Next, ~BootStartRecorder, ~PowerLoss, pc \notin Retiring, StuckBelow(born)
  PROVE  StuckBelow(born)'
<1>t. /\ side \in [Seg -> SideKinds] /\ ringStat \subseteq Seg /\ Seg \subseteq Int /\ born \in Int
      /\ opened \in Int
  BY DEF TypeInv, TypeOK, RingTypeOK, Seg
<1>1. PICK l \in ringStat : l <= born /\ Blocked(l) /\ \A k \in ringStat : l <= k
  BY DEF StuckBelow
<1>2. l \in Seg /\ l \in Int BY <1>1, <1>t
<1>3. UNCHANGED born BY RingEffect
<1>4. ringStat' = ringStat \/ \E i \in Seg : ringStat' = ringStat \cup {i} /\ born < i
  BY RingEffect DEF CreateSidecar, Publishing, Unpublished, RetireStat, Retiring
<1>5. l \in ringStat' /\ \A k \in ringStat' : l <= k
  <2>1. CASE ringStat' = ringStat BY <1>1, <2>1
  <2>2. ASSUME NEW i \in Seg, ringStat' = ringStat \cup {i}, born < i
        PROVE  l \in ringStat' /\ \A k \in ringStat' : l <= k
    BY <1>1, <1>2, <1>t, <2>2
  <2> QED BY <1>4, <2>1, <2>2
<1>6. side'[l] = side[l] /\ (l \in closed' => l \in closed)
  <2>1. CASE Recorder
    BY <1>1, <1>2, <1>t, <2>1 DEF Recorder, OpenSegment, RecorderExit, CloseSegment, CreateSidecar,
         PublishSidecar, Publishing, Unpublished
  <2>2. CASE ~Recorder BY <2>2, RingEffect
  <2> QED BY <2>1, <2>2
<1>7. l \in ringMcap' => l \in ringMcap
  <2>1. CASE OpenSegment
    BY <1>1, <1>2, <1>t, <2>1 DEF OpenSegment, Order
  <2>2. CASE ~OpenSegment BY <2>2, RingEffect DEF RetireMcap, RetireStat, Retiring
  <2> QED BY <2>1, <2>2
<1>8. Blocked(l)' BY <1>1, <1>6, <1>7 DEF Blocked, mcap_is_closed
<1> QED BY <1>1, <1>3, <1>5, <1>8 DEF StuckBelow

(* A whole pair at which a pass of a living recorder stands is its own.    *)
LEMMA WholeEntryIsOwn ==
  ASSUME TypeInv, PassOrder, Residue, pc = "entry", CleanEntry \/ IntegrityEntry, Moving,
         prod # "dead"
  PROVE  NoResidue
<1>1. todo # {} /\ ~Blocked(cur)
  BY DEF CleanEntry, IntegrityEntry, RipeEntry, AtEntry, footer, Blocked
<1>2. cur \in ringStat /\ \A i \in ringStat : cur <= i BY <1>1, EntryIsLeast
<1>3. ringStat \subseteq Seg /\ Seg \subseteq Int BY DEF TypeInv, TypeOK, RingTypeOK, Seg
<1>4. ASSUME StuckBelow(born) PROVE FALSE
  <2>1. PICK l \in ringStat : l <= born /\ Blocked(l) /\ \A k \in ringStat : l <= k
    BY <1>4 DEF StuckBelow
  <2>2. l = cur BY <1>2, <1>3, <2>1
  <2> QED BY <1>1, <2>1, <2>2
<1> QED BY <1>4 DEF Residue

LEMMA ResidueStep ==
  ASSUME TypeInv, Control, Stops, Phases, Ring, Boots, Drained, Residue, [Next]_vars
  PROVE  Residue'
<1>b. Boots' BY BootsStep
<1>t. /\ ringStat \subseteq Seg /\ Seg \subseteq Int /\ baseLast \in 0 .. MaxSeg
      /\ opened \in Int /\ born \in Int /\ Seg = 1 .. MaxSeg /\ MaxSeg \in Nat
  BY BoundsAssumption DEF TypeInv, TypeOK, RingTypeOK, BaselineTypeOK, Seg
<1>r. Order /\ Swept /\ PassOrder BY DEF Ring
<1>1. CASE UNCHANGED vars
  <2>1. UNCHANGED <<prod, born, ringStat, ringMcap, side, closed, pc, todo, adopted, hasClean, quar,
                    baseLast>>
    BY <1>1 DEF vars, flowVars, passVars, ringVars, baseVars
  <2> QED BY <2>1 DEF Residue, NoResidue, StuckBelow, Blocked, mcap_is_closed, cur
<1>2. CASE Next
  <2>0. BootFlow BY <1>2, BootSources
  <2>1. ASSUME prod' # "dead" PROVE NoResidue' \/ StuckBelow(born)'
    <3>1. CASE BootStartRecorder
      <4>1. ringStat = {} \/ StuckBelow(opened) BY <3>1 DEF BootStartRecorder, Drained
      <4>2. born' = opened /\ UNCHANGED <<ringStat, ringMcap, closed, side>>
        BY <3>1 DEF BootStartRecorder, ring
      <4> QED BY <4>1, <4>2 DEF NoResidue, StuckBelow, Blocked, mcap_is_closed
    <3>2. CASE ~BootStartRecorder
      <4>1. prod # "dead" /\ ~PowerLoss BY <1>2, <2>1, <3>2, RingEffect DEF PowerLoss
      <4>2. CASE NoResidue BY <1>2, <3>2, <4>2, ResidueStays
      <4>3. CASE ~NoResidue BY <1>2, <1>r, <3>2, <4>1, <4>3, StuckStays DEF Residue
      <4> QED BY <4>2, <4>3
    <3> QED BY <3>1, <3>2
  <2>2. ASSUME prod' # "dead", pc' \in Carrying \cup Retiring PROVE NoResidue'
    <3>1. ~BootStartRecorder BY <2>2 DEF BootStartRecorder, GoTo, Carrying, Retiring
    <3>2. prod # "dead" BY <1>2, <2>2, <3>1, RingEffect
    <3>3. NoResidue
      <4>1. CASE pc \in Carrying \cup Retiring BY <3>2, <4>1 DEF Residue
      <4>2. CASE pc \notin Carrying \cup Retiring
        <5>1. ~Recorder
          BY <2>2, <4>2 DEF Recorder, OpenSegment, RecorderExit, CloseSegment, CreateSidecar,
               PublishSidecar, notRing, flowVars
        <5>2. pc = "entry" /\ (CleanEntry \/ IntegrityEntry) /\ Moving
          BY <1>2, <2>2, <4>2, <5>1, HandSources
        <5> QED BY <1>r, <3>2, <5>2, WholeEntryIsOwn
      <4> QED BY <4>1, <4>2
    <3> QED BY <1>2, <3>1, <3>3, ResidueStays
  <2>3. ASSUME prod' # "dead", adopted', hasClean', ~quar'
        PROVE  NoResidue' /\ \A j \in ringStat' : j \in ringMcap' \/ (pc' = "retireStat" /\ j = cur')
    <3>1. ~BootStartRecorder /\ ~BootAdopt /\ ~Crash /\ ~PowerLoss
      BY <2>3 DEF BootStartRecorder, BootAdopt, ResetBaseline, Crash, PowerLoss, ServiceRestarts,
           Pass, ringVars
    <3>2. prod # "dead" /\ adopted /\ ~quar BY <1>2, <2>0, <2>3, <3>1, RingEffect DEF BootFlow
    <3>3. CASE hasClean
      <4>1. NoResidue /\ \A j \in ringStat : j \in ringMcap \/ (pc = "retireStat" /\ j = cur)
        BY <3>2, <3>3 DEF Residue
      <4>2. NoResidue' BY <1>2, <3>1, <4>1, ResidueStays
      <4>3. CASE RetireMcap
        <5>1. /\ pc = "retireMcap" /\ pc' = "retireStat" /\ UNCHANGED <<todo, ringStat>>
              /\ ringMcap' = ringMcap \ {cur}
          BY <2>3, <4>3 DEF RetireMcap, RetireFailed, FailCaptureThen, QuarantineThen, GoTo, notRetire
        <5>2. UNCHANGED cur BY <5>1 DEF cur
        <5> QED BY <4>1, <4>2, <5>1, <5>2
      <4>4. CASE RetireStat
        <5>1. ringStat' = ringStat \ {cur} /\ UNCHANGED ringMcap
          BY <2>3, <4>4 DEF RetireStat, RetireFailed, FailCaptureThen, QuarantineThen
        <5> QED BY <4>1, <4>2, <5>1
      <4>5. CASE Recorder
        <5>1. UNCHANGED <<pc, todo>> /\ ringMcap \subseteq ringMcap'
          BY <4>5 DEF Recorder, OpenSegment, RecorderExit, CloseSegment, CreateSidecar, PublishSidecar,
               notRing, flowVars, passVars
        <5>2. UNCHANGED cur BY <5>1 DEF cur
        <5>3. ASSUME NEW i \in Seg, CreateSidecar(i) PROVE i \in ringMcap
          <6>1. born < i /\ i <= opened /\ side[i] \notin Terminal
            BY <5>3 DEF CreateSidecar, Publishing, Unpublished
          <6> QED BY <1>r, <3>2, <6>1 DEF Swept
        <5>4. \A j \in ringStat' \ ringStat : j \in ringMcap
          BY <4>5, <5>3 DEF Recorder, OpenSegment, RecorderExit, CloseSegment, CreateSidecar,
               PublishSidecar
        <5> QED BY <4>1, <4>2, <5>1, <5>2, <5>4
      <4>6. CASE ~RetireMcap /\ ~RetireStat /\ ~Recorder
        <5>1. UNCHANGED <<ringMcap, ringStat>> BY <1>2, <3>1, <4>6, RingEffect DEF Recorder
        <5>2. pc # "retireStat" BY <1>2, <3>1, <4>6, RetiringNext DEF Retiring
        <5> QED BY <4>1, <4>2, <5>1, <5>2
      <4> QED BY <4>3, <4>4, <4>5, <4>6
    <3>4. CASE ~hasClean
      <4>1. ~SkipForFailedCapture
        <5>1. SkipForFailedCapture => quar BY DEF SkipForFailedCapture, Phases
        <5> QED BY <3>2, <5>1
      <4>2. ~DiscardResidue BY <3>2 DEF DiscardResidue, qgapp_identity_matches
      <4>3. ObserveSteady BY <1>2, <2>3, <3>4, <4>1, <4>2, BaselineSources
      <4>4. pc = "entry" /\ CleanEntry /\ Moving /\ todo # {} /\ UNCHANGED <<ringStat, ringMcap>>
        BY <3>2, <4>3 DEF ObserveSteady, CleanEntry, RipeEntry, AtEntry, Moving, ringVars
      <4>5. NoResidue BY <1>r, <3>2, <4>4, WholeEntryIsOwn
      <4>6. cur \in ringStat /\ \A i \in ringStat : cur <= i BY <1>r, <4>4, EntryIsLeast
      <4>7. cur \in ringMcap BY <4>4 DEF CleanEntry, footer, mcap_is_closed
      <4>8. ASSUME NEW j \in ringStat, j \notin ringMcap PROVE FALSE
        <5>1. j <= opened /\ j \in Seg BY <1>r, <1>t, <4>8 DEF Order
        <5>2. j <= cur BY <1>r, <4>6, <4>8, <5>1 DEF Swept
        <5>3. j = cur BY <1>t, <4>6, <5>1, <5>2
        <5> QED BY <4>7, <4>8, <5>3
      <4> QED BY <1>2, <3>1, <4>4, <4>5, <4>8, ResidueStays
    <3> QED BY <3>3, <3>4
  <2>4. ASSUME baseLast' # 0 PROVE side'[baseLast'] \in Terminal /\ born' < baseLast'
    <3>1. ~BootStartRecorder BY <2>4 DEF BootStartRecorder, ResetBaseline
    <3>2. UNCHANGED born BY <1>2, <3>1, RingEffect
    <3>3. CASE UNCHANGED baseLast
      <4>1. baseLast \in Seg /\ side[baseLast] \in Terminal /\ born < baseLast
        BY <1>t, <2>4, <3>3 DEF Residue
      <4> QED BY <1>2, <3>2, <3>3, <4>1, TerminalStays
    <3>4. CASE ObserveSteady \/ ObserveUnsteady
      <4>1. /\ baseLast' = cur /\ UNCHANGED side /\ CleanEntry /\ cap = "idle" /\ prod # "dead"
            /\ pc = "entry" /\ side[cur] = "clean" /\ todo # {}
        BY <3>4 DEF ObserveSteady, ObserveUnsteady, ringVars, qgapp_identity_matches, CleanEntry,
             RipeEntry, AtEntry
      <4>2. Moving BY <4>1 DEF Boots, Moving
      <4>3. NoResidue BY <1>r, <4>1, <4>2, WholeEntryIsOwn
      <4>4. cur \in ringStat BY <1>r, <4>1, <4>2, EntryIsLeast
      <4> QED BY <3>2, <4>1, <4>3, <4>4 DEF NoResidue, Terminal
    <3> QED BY <1>2, <2>4, <3>3, <3>4, BaselineSources
  <2> QED BY <2>1, <2>2, <2>3, <2>4 DEF Residue
<1> QED BY <1>1, <1>2

-----------------------------------------------------------------------------
(* A session starts after the segment that was open at its request.        *)

(* Without overlap only the newest segment can be open or unpublished.     *)
Settled == \A i \in Seg : born < i /\ i < opened => side[i] \in Terminal /\ i \in closed

LEMMA SettledStep ==
  ASSUME Overlap = FALSE, TypeInv, Settled, [Next]_vars
  PROVE  Settled'
<1> USE DEF Settled
<1>t. opened \in Int /\ born \in Int /\ Seg \subseteq Int
  BY DEF TypeInv, TypeOK, RingTypeOK, Seg
<1>1. CASE UNCHANGED vars BY <1>1 DEF vars, ringVars
<1>2. CASE OpenSegment
  <2>1. /\ opened' = opened + 1 /\ UNCHANGED <<born, side, closed>>
        /\ opened > born => opened \in closed
        /\ \A i \in Seg : born < i /\ i <= opened => side[i] \in Terminal
    BY <1>2 DEF OpenSegment, Unpublished
  <2>2. ASSUME NEW i \in Seg, born < i, i < opened' PROVE side'[i] \in Terminal /\ i \in closed'
    <3>1. i <= opened BY <1>t, <2>1, <2>2
    <3>2. i = opened \/ i < opened BY <1>t, <3>1, <2>2
    <3> QED BY <1>t, <2>1, <2>2, <3>1, <3>2
  <2> QED BY <2>1, <2>2
<1>3. CASE BootStartRecorder
  <2>1. born' = opened /\ UNCHANGED opened BY <1>3 DEF BootStartRecorder
  <2> QED BY <1>t, <2>1
<1>4. CASE Next /\ ~OpenSegment /\ ~BootStartRecorder
  <2>1. UNCHANGED <<born, opened>> /\ closed \subseteq closed'
    BY <1>4, RingEffect DEF Recorder, RecorderExit, CloseSegment, CreateSidecar, PublishSidecar
  <2> QED BY <1>4, <2>1, TerminalStays
<1> QED BY <1>1, <1>2, <1>3, <1>4

(* The first pass of a start request, and what follows it up to the        *)
(* activation.                                                             *)
FirstPass == ret = "alignBase" /\ InPass
AfterFirst == pc = "alignBase" \/ (ret = "alignBase" /\ pc = "passEnd") \/ Counting

(* The first pass takes everything out of the ring that came before the    *)
(* segment open at the request, so what is discarded after it does not.    *)
Start ==
  /\ reqOpened <= opened
  /\ FirstPass /\ ~quar =>
       /\ \A i \in ringStat \ todo : reqOpened <= i
       /\ \A j \in todo : j < reqOpened =>
            /\ side[j] \in Terminal /\ j \in closed
            /\ j \in ringMcap \/ (pc = "retireStat" /\ j = cur)
  /\ AfterFirst /\ ~quar => \A i \in ringStat : reqOpened <= i
  /\ Counting /\ discarded => reqOpened <= boundary
  /\ cap # "idle" => reqOpened <= from[sess]

StartFlow ==
  /\ StartRequest \/ UNCHANGED reqOpened
  /\ FirstPass' => StartRequest \/ FirstPass
  /\ Activate \/ cap' = "idle" \/ (UNCHANGED <<sess, from>> /\ cap # "idle")

LEMMA StartSources ==
  ASSUME TypeInv, Next
  PROVE  StartFlow
<1> USE DEF StartFlow, FirstPass, InPass, Carrying, Retiring
<1>t. ret \in PassReturns /\ after \in Resume BY DEF TypeInv, TypeOK, FlowTypeOK
<1>1. CASE Recorder
  <2>1. UNCHANGED <<flowVars, histVars, capVars>>
    BY <1>1 DEF Recorder, OpenSegment, RecorderExit, CloseSegment, CreateSidecar, PublishSidecar, notRing
  <2> QED BY <2>1 DEF flowVars, histVars, capVars
<1>2. CASE Quarantining
  <2>1. /\ UNCHANGED <<ret, after, reqOpened, from, sess, cap>>
        /\ pc \in {"quarMark", "failState"} /\ (pc' = after \/ pc' = "failState")
    BY <1>2 DEF Quarantining, PersistQuarantine, FailState, histVars, capVars, GoTo
  <2> QED BY <1>t, <2>1 DEF Resume, PassReturns
<1>3. CASE ProcessEntry
  <2>1. /\ UNCHANGED <<reqOpened, from, sess, ret>> /\ pc = "entry"
        /\ cap' = cap \/ cap # "idle"
    BY <1>3 DEF ProcessEntry, EndEntries, PendingEntry, StalePending, SettlingEntry, AcceptSegment,
         RejectSegment, SkipForFailedCapture, ObserveSteady, ObserveUnsteady, InvalidateBaseline,
         DiscardResidue, QuarantineSuspect, SkipSuspect, notPass, histVars, capVars, capRest, AtEntry,
         RipeEntry, CleanEntry, IntegrityEntry, Suspect, SkipEntry, RetireUnlessQuarantined,
         RetireOrLeave, GoTo, FailOrQuarantineThen, FailCaptureThen, QuarantineThen
  <2> QED BY <2>1
<1>4. CASE MoveSegment
  <2>1. CASE CopyMcap \/ CopyStat \/ WriteJson \/ WriteExport
    <3>1. UNCHANGED <<reqOpened, from, sess, ret>> /\ pc \in Carrying /\ (cap' = cap \/ cap # "idle")
      BY <2>1 DEF CopyMcap, CopyStat, WriteJson, WriteExport, histVars, capVars, capRest, CopyNext,
           CopyFailed, FailCaptureThen, QuarantineThen, GoTo
    <3> QED BY <3>1
  <2>2. CASE RetireMcap \/ RetireStat
    <3>1. pc \in Retiring /\ UNCHANGED <<reqOpened, from, sess, ret>> /\ (cap' = cap \/ cap # "idle")
      BY <2>2 DEF RetireMcap, RetireStat, Retired, RetireFailed, FailCaptureThen, QuarantineThen, GoTo,
           notRetire, capVars, capRest
    <3> QED BY <3>1
  <2> QED BY <1>4, <2>1, <2>2 DEF MoveSegment
<1>5. CASE EndPass
  <2>1. UNCHANGED <<reqOpened, from, sess, ret>> /\ (cap' = cap \/ cap # "idle")
    BY <1>5 DEF EndPass, PassQuiet, StaleOpen, StalledRecorder, notPass, histVars, capVars, capRest,
         GoTo, FailOrQuarantineThen, FailCaptureThen, QuarantineThen
  <2>2. pc' = ret \/ (pc' = "quarMark" /\ after' = ret)
    BY <1>5 DEF EndPass, PassQuiet, StaleOpen, StalledRecorder, GoTo, FailOrQuarantineThen,
         FailCaptureThen, QuarantineThen
  <2> QED BY <1>t, <2>1, <2>2 DEF PassReturns
<1>6. CASE Loop
  <2>1. UNCHANGED <<reqOpened, from, sess>> /\ ~FirstPass' /\ (cap' = cap \/ cap # "idle")
    BY <1>6 DEF Loop, LoopPass, SuperviseQuiet, SuperviseLoss, NoRequest, Pass, StartPass, GoTo,
         FailCaptureThen, QuarantineThen, elsewhere, histVars, capVars, capRest
  <2> QED BY <2>1
<1>7. CASE BeginCapture
  <2>1. CASE StartRequest BY <2>1 DEF StartRequest, Pass, StartPass, capVars
  <2>2. CASE Activate BY <2>2 DEF Activate, GoTo
  <2>3. CASE ~StartRequest /\ ~Activate
    <3>1. UNCHANGED reqOpened /\ ~FirstPass' /\ (cap' = "idle" \/ UNCHANGED <<cap, sess, from>>)
      BY <1>7, <2>3 DEF BeginCapture, AlignBase, AlignAgain, AlignRefused, AlignTimeout, Aligned,
           RefuseUnfinished, WriteMark, OpenSession, UndoStart, Pass, StartPass, GoTo, QuarantineThen,
           elsewhere, histVars, capVars, reset_capture
    <3> QED BY <3>1
  <2> QED BY <2>1, <2>2, <2>3
<1>8. CASE FinalizeCapture
  <2>1. UNCHANGED <<reqOpened, from>> /\ ~FirstPass'
    BY <1>8 DEF FinalizeCapture, StopFailedCapture, StopRequest, StopInterrupted, StopRecorderGone,
         StopSaved, StopWait, StopTimeout, StopFail, CommitSession, CommitExport, ClearMark, GiveUp,
         CommitFailed, CommitNext, FailCaptureThen, Pass, StartPass, GoTo, QuarantineThen, elsewhere,
         histVars
  <2>2. cap' = "idle" \/ (UNCHANGED sess /\ (cap' = cap \/ cap # "idle"))
    BY <1>8 DEF FinalizeCapture, StopFailedCapture, StopRequest, StopInterrupted, StopRecorderGone,
         StopSaved, StopWait, StopTimeout, StopFail, CommitSession, CommitExport, ClearMark,
         CommitFailed, CommitNext, FailCaptureThen, reset_capture, capVars, capRest
  <2> QED BY <2>1, <2>2
<1>9. CASE Boot
  <2>1. UNCHANGED <<reqOpened, from, sess, cap>> /\ ~FirstPass'
    BY <1>9 DEF Boot, LoadQuarantine, RecoverActive, NothingToRecover, RecoverSessions, BootAdopt,
         BootQuarantined, BootDone, BootStartRecorder, BootWithoutRecorder, Pass, StartPass, GoTo,
         QuarantineThen, elsewhere, bootVars, histVars, capVars
  <2> QED BY <2>1
<1>10. CASE Crash \/ PowerLoss
  BY <1>10 DEF Crash, PowerLoss, ServiceRestarts, reset_capture, histVars
<1> QED BY <1>1, <1>2, <1>3, <1>4, <1>5, <1>6, <1>7, <1>8, <1>9, <1>10 DEF Next, Service

LEMMA StartStep ==
  ASSUME TypeInv, Control, Sessions, Stops, Phases, Ring, Boundary, Boots, Residue, Settled, Start,
         [Next]_vars
  PROVE  Start'
<1>t. /\ ringStat \subseteq Seg /\ todo \subseteq Seg /\ Seg \subseteq Int /\ opened \in Int /\ born \in Int
      /\ reqOpened \in Int /\ used \in 0 .. MaxSess
      /\ from \in [Sess -> 0 .. MaxSeg] /\ MaxSess \in Nat /\ Sess = 1 .. MaxSess
  BY BoundsAssumption DEF TypeInv, TypeOK, RingTypeOK, PassTypeOK, HistoryTypeOK, Seg, Sess
<1>u. ringStat' \subseteq Seg BY TypeStep DEF TypeInv, TypeOK, RingTypeOK
<1>r. Order /\ Swept /\ PassOrder BY DEF Ring
<1>p. Phases' BY PhasesStep
<1>1. CASE UNCHANGED vars
  <2>1. UNCHANGED <<pc, after, ret, todo, quar, ringStat, ringMcap, side, closed, opened, reqOpened,
                    discarded, boundary, cap, from, sess>>
    BY <1>1 DEF vars, flowVars, passVars, ringVars, baseVars, histVars, capVars
  <2> QED BY <2>1 DEF Start, FirstPass, AfterFirst, InPass, Counting, cur
<1>2. CASE Next
  <2>0. StartFlow /\ BootFlow /\ BoundaryFlow /\ PassFlow
    BY <1>2, StartSources, BootSources, BoundarySources, PassEffect
  <2>1. opened <= opened' BY <1>2, <1>t, RingEffect DEF Recorder, OpenSegment, RecorderExit,
          CloseSegment, CreateSidecar, PublishSidecar
  <2>2. reqOpened' <= opened'
    <3>1. StartRequest => reqOpened' = opened BY DEF StartRequest
    <3>2. opened' \in Int BY TypeStep DEF TypeInv, TypeOK, RingTypeOK
    <3> QED BY <1>t, <2>0, <2>1, <3>1, <3>2 DEF StartFlow, Start
  <2>3. ASSUME NEW i \in ringStat' \ ringStat PROVE reqOpened <= i
    <3>1. i \in Seg /\ born < i /\ side[i] \notin Terminal
      <4>1. PICK k \in Seg : CreateSidecar(k)
        BY <1>2, <2>3, RingEffect DEF RetireStat, PowerLoss
      <4> QED BY <2>3, <4>1 DEF CreateSidecar, Publishing, Unpublished
    <3> QED BY <1>t, <3>1 DEF Settled, Start
  <2>4. ASSUME FirstPass', ~quar'
        PROVE  /\ \A i \in ringStat' \ todo' : reqOpened' <= i
               /\ \A j \in todo' : j < reqOpened' =>
                    /\ side'[j] \in Terminal /\ j \in closed'
                    /\ j \in ringMcap' \/ (pc' = "retireStat" /\ j = cur')
    <3>1. CASE StartRequest
      <4>1. /\ pc = "accept" /\ ~quar /\ adopted /\ prod # "dead" /\ hasClean /\ reqOpened' = opened
            /\ todo' = ringStat /\ UNCHANGED <<ringStat, ringMcap, side, closed>>
        BY <3>1 DEF StartRequest, qgapp_ready_for_capture, qgapp_identity_matches, Pass, StartPass, ringVars
      <4>2. NoResidue /\ \A j \in ringStat : j \in ringMcap BY <4>1 DEF Residue
      <4> QED BY <1>t, <4>1, <4>2 DEF NoResidue, Settled
    <3>2. CASE ~StartRequest
      <4>1. FirstPass /\ ~Crash /\ ~PowerLoss /\ UNCHANGED reqOpened
        BY <2>0, <2>4, <3>2 DEF StartFlow, FirstPass, InPass, Crash, PowerLoss, ServiceRestarts, Carrying,
             Retiring
      <4>2. ~quar BY <2>0, <2>4, <4>1 DEF BootFlow
      <4>3. /\ \A i \in ringStat \ todo : reqOpened <= i
            /\ \A j \in todo : j < reqOpened =>
                 /\ side[j] \in Terminal /\ j \in closed
                 /\ j \in ringMcap \/ (pc = "retireStat" /\ j = cur)
        BY <4>1, <4>2 DEF Start
      <4>4. \A j \in Seg : side[j] \in Terminal => side'[j] \in Terminal BY <1>2, TerminalStays
      <4>5. closed \subseteq closed'
        BY <1>2, RingEffect DEF Recorder, OpenSegment, RecorderExit, CloseSegment, CreateSidecar,
             PublishSidecar
      <4>6. CASE Recorder
        <5>1. UNCHANGED <<pc, todo>> /\ ringMcap \subseteq ringMcap'
          BY <4>6 DEF Recorder, OpenSegment, RecorderExit, CloseSegment, CreateSidecar, PublishSidecar,
               notRing, flowVars, passVars
        <5>2. UNCHANGED cur BY <5>1 DEF cur
        <5> QED BY <1>t, <1>u, <2>3, <4>1, <4>3, <4>4, <4>5, <5>1, <5>2
      <4>7. CASE RetireStat
        <5>1. cap = "idle" /\ why # "capture"
          BY <4>1, <4>7 DEF FirstPass, InPass, Phases, Requesting, RetireStat, Control, Retiring
        <5>2. ringStat' = ringStat \ {cur} /\ UNCHANGED ringMcap /\ todo' = todo \ {cur}
          BY <2>4, <4>7, <5>1 DEF RetireStat, RetireFailed, Retired, FailCaptureThen, QuarantineThen
        <5> QED BY <1>t, <4>1, <4>3, <4>4, <4>5, <5>2
      <4>8. CASE ~Recorder /\ ~RetireStat
        <5>1. UNCHANGED ringStat BY <1>2, <4>1, <4>8, RingEffect DEF Recorder
        <5>2. Moving'
          BY <1>p, <2>4 DEF Phases, Requesting, FirstPass, InPass, Moving
        <5>3. todo' = todo \/ todo' = ringStat BY <2>0, <2>4, <4>8, <5>2 DEF PassFlow, FirstPass
        <5>4. pc # "retireStat" BY <1>2, <4>1, <4>8, RetiringNext DEF Retiring, RetireMcap
        <5>5. ASSUME NEW j \in todo', j < reqOpened
              PROVE  /\ side'[j] \in Terminal /\ j \in closed'
                     /\ j \in ringMcap
          <6>1. j \in todo
            <7>1. j \in Int /\ (j \in todo \/ j \in ringStat) BY <1>t, <5>3, <5>5
            <7>2. j \in ringStat \ todo => reqOpened <= j BY <4>3
            <7> QED BY <1>t, <5>5, <7>1, <7>2
          <6> QED BY <1>t, <4>3, <4>4, <4>5, <5>4, <5>5, <6>1
        <5>6. CASE RetireMcap
          <6>1. pc' = "retireStat" /\ ringMcap' = ringMcap \ {cur} /\ todo' = todo
            BY <2>4, <5>6 DEF RetireMcap, RetireFailed, FailCaptureThen, QuarantineThen, GoTo
          <6>2. cur' = cur BY <6>1 DEF cur
          <6> QED BY <4>1, <4>3, <5>1, <5>3, <5>5, <6>1, <6>2
        <5>7. CASE ~RetireMcap
          <6>1. UNCHANGED ringMcap BY <1>2, <4>1, <4>8, <5>7, RingEffect DEF Recorder
          <6> QED BY <4>1, <4>3, <5>1, <5>3, <5>5, <6>1
        <5> QED BY <5>6, <5>7
      <4> QED BY <4>6, <4>7, <4>8
    <3> QED BY <3>1, <3>2
  <2>5. ASSUME AfterFirst', ~quar' PROVE \A i \in ringStat' : reqOpened' <= i
    <3>1. ~StartRequest /\ ~Crash /\ ~PowerLoss
      BY <2>5 DEF AfterFirst, Counting, StartRequest, Pass, StartPass, Crash, PowerLoss, ServiceRestarts,
           Carrying, Retiring
    <3>2. ~quar /\ UNCHANGED reqOpened BY <2>0, <2>5, <3>1 DEF BootFlow, StartFlow
    <3>3. CASE AfterFirst BY <2>3, <3>2, <3>3 DEF Start
    <3>4. CASE ~AfterFirst
      <4>0. ~Recorder
        BY <2>5, <3>4 DEF Recorder, OpenSegment, RecorderExit, CloseSegment, CreateSidecar,
             PublishSidecar, notRing, flowVars, AfterFirst, Counting
      <4>1. ~Counting' BY <2>0, <3>4 DEF AfterFirst, BoundaryFlow, AlignBase
      <4>2. /\ pc' = "passEnd" /\ ret = "alignBase"
            /\ EndEntries \/ PendingEntry \/ SettlingEntry \/ (RetireStat /\ why = "capture")
        <5>1. pc' \in {"passEnd"} \cup PassReturns BY <2>5, <4>1 DEF AfterFirst, PassReturns
        <5>2. pc' # "alignBase"
          BY <1>2, <2>5, <3>4, <4>0, <5>1, PassEndSources DEF PassReturns, PassQuiet, AfterFirst
        <5> QED BY <1>2, <2>5, <4>0, <4>1, <5>1, <5>2, PassEndSources DEF AfterFirst
      <4>3. FirstPass /\ cap = "idle"
        BY <4>2 DEF FirstPass, InPass, EndEntries, PendingEntry, SettlingEntry, AtEntry, RetireStat,
             Retiring, Phases, Requesting
      <4>4. ~(RetireStat /\ why = "capture") BY <4>3 DEF RetireStat, Control, Retiring
      <4>5. UNCHANGED ringStat
        BY <4>2, <4>4 DEF EndEntries, PendingEntry, SettlingEntry, ringVars
      <4>6. /\ \A i \in ringStat \ todo : reqOpened <= i
            /\ \A j \in todo : j < reqOpened =>
                 /\ side[j] \in Terminal /\ j \in closed
                 /\ j \in ringMcap \/ (pc = "retireStat" /\ j = cur)
        BY <3>2, <4>3 DEF Start
      <4>7. CASE EndEntries
        <5>1. todo = {} BY <4>3, <4>7 DEF EndEntries, BeyondStop, Stops
        <5> QED BY <3>2, <4>5, <4>6, <5>1
      <4>8. CASE PendingEntry \/ SettlingEntry
        <5>1. /\ todo # {} /\ pc = "entry"
              /\ side[cur] \notin Terminal \/ ~mcap_is_closed(cur)
          BY <4>8 DEF PendingEntry, SettlingEntry, AtEntry, Unsettled, Terminal
        <5>2. cur \in todo /\ \A j \in todo : cur <= j
          BY <1>t, <5>1, SegmentsAreFinite, MinBelongs DEF cur
        <5>3. reqOpened <= cur BY <1>t, <4>6, <5>1, <5>2 DEF mcap_is_closed
        <5>4. ASSUME NEW i \in ringStat PROVE reqOpened <= i
          <6>1. CASE i \in todo
            <7>1. cur <= i /\ cur \in Int /\ i \in Int BY <1>t, <5>2, <6>1
            <7> QED BY <1>t, <5>3, <7>1
          <6>2. CASE i \notin todo BY <4>6, <6>2
          <6> QED BY <6>1, <6>2
        <5> QED BY <3>2, <4>5, <5>4
      <4> QED BY <4>2, <4>4, <4>7, <4>8
    <3> QED BY <3>3, <3>4
  <2>6. ASSUME Counting', discarded' PROVE reqOpened' <= boundary'
    <3>1. ~AlignBase /\ ~StartRequest /\ ~Crash /\ ~PowerLoss
      BY <2>6 DEF AlignBase, CountFromHere, Counting, StartRequest, Pass, StartPass, Crash, PowerLoss,
           ServiceRestarts, Carrying, Retiring
    <3>2. Counting /\ UNCHANGED reqOpened BY <2>0, <3>1, <2>6 DEF BoundaryFlow, StartFlow
    <3>3. ASSUME pc \in Retiring PROVE cap = "idle" /\ why # "capture" /\ ~quar /\ reqOpened <= cur
      <4>1. cap = "idle" BY <3>2 DEF Phases, Requesting, Counting
      <4>2. why # "capture" /\ ~quar BY <3>3, <4>1 DEF Control
      <4>3. cur \in ringStat BY <1>r, <3>3, CurIsLeast
      <4> QED BY <3>2, <4>1, <4>2, <4>3 DEF Start, AfterFirst
    <3>4. CASE RetireMcap
      <4>1. boundary' = cur \/ (UNCHANGED <<boundary, discarded>>)
        BY <3>4 DEF RetireMcap, RetireFailed
      <4> QED BY <2>6, <3>2, <3>3, <3>4, <4>1 DEF RetireMcap, Retiring, Start
    <3>5. CASE RetireStat
      <4>1. boundary = cur BY <3>3, <3>5 DEF RetireStat, Retiring, Boundary
      <4> QED BY <3>2, <3>3, <3>5, <4>1 DEF RetireStat, Retiring
    <3>6. CASE ~RetireMcap /\ ~RetireStat
      BY <2>0, <2>6, <3>1, <3>2, <3>6 DEF BoundaryFlow, Start
    <3> QED BY <3>4, <3>5, <3>6
  <2>7. ASSUME cap' # "idle" PROVE reqOpened' <= from'[sess']
    <3>1. ~StartRequest BY <2>7 DEF StartRequest, capVars
    <3>2. CASE Activate
      <4>1. /\ sess' = used + 1 /\ from' = [from EXCEPT ![used + 1] = boundary]
            /\ pc = "alignPending" /\ used < MaxSess
        BY <3>2 DEF Activate
      <4>2. reqOpened <= boundary BY <4>1 DEF Start, Boundary, Counting
      <4>3. used + 1 \in Sess BY <1>t, <4>1
      <4> QED BY <1>t, <2>0, <3>1, <4>1, <4>2, <4>3 DEF StartFlow
    <3>3. CASE ~Activate BY <2>0, <2>7, <3>1, <3>3 DEF StartFlow, Start
    <3> QED BY <3>2, <3>3
  <2> QED BY <2>2, <2>4, <2>5, <2>6, <2>7 DEF Start
<1> QED BY <1>1, <1>2

-----------------------------------------------------------------------------
(* A complete session is whole.                                            *)

(* Every sidecar after segment b is in the ring. *)
AboveStat(b) == \A i \in Seg : b < i /\ side[i] # "absent" => i \in ringStat

LEMMA AboveStatStays ==
  ASSUME TypeInv, Next, ~RetireStat, ~PowerLoss, NEW b, AboveStat(b)
  PROVE  AboveStat(b)'
<1>t. side \in [Seg -> SideKinds] BY DEF TypeInv, TypeOK, RingTypeOK
<1>1. ringStat \subseteq ringStat' BY RingEffect DEF CreateSidecar
<1>2. ASSUME NEW i \in Seg, b < i, side'[i] # "absent" PROVE i \in ringStat'
  <2>1. CASE side[i] # "absent" BY <1>1, <1>2, <2>1 DEF AboveStat
  <2>2. CASE side[i] = "absent"
    <3>1. Recorder BY <1>2, <2>2, RingEffect
    <3> QED BY <1>t, <1>2, <2>2, <3>1 DEF Recorder, OpenSegment, RecorderExit, CloseSegment,
              CreateSidecar, PublishSidecar
  <2> QED BY <2>1, <2>2
<1> QED BY <1>2 DEF AboveStat

LEMMA AboveCur ==
  ASSUME TypeInv, SweptStat, cur \in ringStat
  PROVE  AboveStat(cur)
<1>1. ringStat \subseteq Seg /\ Seg \subseteq Int BY DEF TypeInv, TypeOK, RingTypeOK, Seg
<1>2. ASSUME NEW i \in Seg, cur < i, side[i] # "absent", i \notin ringStat PROVE FALSE
  <2>1. i < cur BY <1>2 DEF SweptStat
  <2> QED BY <1>1, <1>2, <2>1
<1> QED BY <1>2 DEF AboveStat

(* The recorder lives as far as the service could tell. *)
Known == prod # "dead" /\ ~quar

(* Unless the counters moved, what is discarded while a start is aligned   *)
(* is what the baseline was observed on.                                   *)
Base ==
  /\ Known /\ pc \in Retiring /\ why # "capture" /\ ~genMoved => baseLast = cur
  /\ Known /\ Counting /\ ~genMoved /\ discarded /\ pc \notin Retiring =>
       boundary = baseLast /\ boundary \notin ringStat
  /\ Counting /\ discarded => AboveStat(boundary)
  /\ pc = "alignPending" => ~genMoved

LEMMA HandKeeps ==
  ASSUME Next, pc \in Carrying \cup Retiring, pc' \in Carrying \cup Retiring
  PROVE  UNCHANGED <<why, baseLast, genMoved>>
<1> USE DEF Carrying, Retiring
<1>1. CASE Recorder
  <2>1. UNCHANGED <<passVars, baseVars>>
    BY <1>1 DEF Recorder, OpenSegment, RecorderExit, CloseSegment, CreateSidecar, PublishSidecar, notRing
  <2> QED BY <2>1 DEF passVars, baseVars
<1>2. CASE MoveSegment
  BY <1>2 DEF MoveSegment, CopyMcap, CopyStat, WriteJson, WriteExport, CopyNext, CopyFailed, passVars,
       RetireMcap, RetireStat, notRetire, baseVars
<1>3. CASE Quarantining \/ ProcessEntry
  BY <1>3 DEF Quarantining, PersistQuarantine, FailState, ProcessEntry, EndEntries, PendingEntry,
       StalePending, SettlingEntry, AcceptSegment, RejectSegment, SkipForFailedCapture,
       ObserveSteady, ObserveUnsteady, InvalidateBaseline, DiscardResidue, QuarantineSuspect,
       SkipSuspect, AtEntry, RipeEntry, CleanEntry, IntegrityEntry, Suspect
<1>4. CASE EndPass \/ Loop \/ BeginCapture
  BY <1>4 DEF EndPass, PassQuiet, StaleOpen, StalledRecorder, Loop, LoopPass, SuperviseQuiet,
       SuperviseLoss, NoRequest, BeginCapture, StartRequest, AlignBase, AlignAgain, AlignRefused,
       AlignTimeout, Aligned, RefuseUnfinished, Activate, WriteMark, OpenSession, UndoStart
<1>5. CASE FinalizeCapture
  BY <1>5 DEF FinalizeCapture, StopFailedCapture, StopRequest, StopInterrupted, StopRecorderGone,
       StopSaved, StopWait, StopTimeout, StopFail, CommitSession, CommitExport, ClearMark, Draining
<1>6. CASE Boot
  BY <1>6 DEF Boot, LoadQuarantine, RecoverActive, NothingToRecover, RecoverSessions, BootAdopt,
       BootQuarantined, BootDone, BootStartRecorder, BootWithoutRecorder
<1>7. CASE Crash \/ PowerLoss BY <1>7 DEF Crash, PowerLoss, ServiceRestarts
<1> QED BY <1>1, <1>2, <1>3, <1>4, <1>5, <1>6, <1>7 DEF Next, Service

LEMMA KnownBefore ==
  ASSUME TypeInv, Phases, Next, ~BootStartRecorder, ~Crash, Known'
  PROVE  Known /\ ~PowerLoss
<1>1. prod # "dead" /\ ~PowerLoss BY RingEffect DEF Known, PowerLoss
<1>2. ~quar BY <1>1, BootSources DEF BootFlow, Known
<1> QED BY <1>1, <1>2 DEF Known

LEMMA BaseStep ==
  ASSUME TypeInv, Control, Sessions, Stops, Phases, Ring, Boundary, Boots, Residue, SweptStat, Base,
         [Next]_vars
  PROVE  Base'
<1>t. ringStat \subseteq Seg /\ Seg \subseteq Int /\ 0 \notin Seg /\ baseLast \in 0 .. MaxSeg
  BY DEF TypeInv, TypeOK, RingTypeOK, BaselineTypeOK, Seg
<1>k. "absent" \notin Terminal BY DEF Terminal
<1>r. Order /\ Swept /\ PassOrder BY DEF Ring
<1>1. CASE UNCHANGED vars
  <2>1. UNCHANGED <<pc, after, ret, why, todo, quar, prod, ringStat, side, genMoved, baseLast,
                    discarded, boundary>>
    BY <1>1 DEF vars, flowVars, passVars, ringVars, baseVars, histVars
  <2> QED BY <2>1 DEF Base, Known, Counting, AboveStat, cur
<1>2. CASE Next
  <2>0. BoundaryFlow BY <1>2, BoundarySources
  <2>c. Counting' => ~BootStartRecorder /\ ~Crash /\ ~PowerLoss /\ ~StartRequest
    BY DEF Counting, BootStartRecorder, GoTo, Crash, PowerLoss, ServiceRestarts, StartRequest, Pass,
         StartPass, Carrying, Retiring
  <2>r. ASSUME pc \in Retiring, Counting PROVE why # "capture" /\ cap = "idle"
    <3>1. cap = "idle" BY <2>r DEF Phases, Requesting, Counting
    <3> QED BY <2>r, <3>1 DEF Control
  <2>1. ASSUME Known', pc' \in Retiring, why' # "capture", ~genMoved' PROVE baseLast' = cur'
    <3>1. ~BootStartRecorder /\ ~Crash
      BY <2>1 DEF BootStartRecorder, GoTo, Crash, ServiceRestarts, Retiring
    <3>2. Known BY <1>2, <2>1, <3>1, KnownBefore
    <3>3. UNCHANGED todo BY <1>2, <2>1, HandSources
    <3>4. cur' = cur BY <3>3 DEF cur
    <3>5. CASE pc \in Carrying \cup Retiring
      <4>1. UNCHANGED <<why, baseLast, genMoved>> BY <1>2, <2>1, <3>5, HandKeeps
      <4>2. pc \in Retiring BY <2>1, <3>5, <4>1 DEF Control
      <4> QED BY <2>1, <3>2, <3>4, <4>1, <4>2 DEF Base
    <3>6. CASE pc \notin Carrying \cup Retiring
      <4>1. ~Recorder
        BY <2>1, <3>6 DEF Recorder, OpenSegment, RecorderExit, CloseSegment, CreateSidecar,
             PublishSidecar, notRing, flowVars
      <4>2. /\ pc = "entry"
            /\ AcceptSegment \/ ObserveSteady \/ ObserveUnsteady \/ InvalidateBaseline \/ DiscardResidue
        BY <1>2, <2>1, <3>6, <4>1, HandSources
      <4>3. ~AcceptSegment BY <2>1 DEF AcceptSegment
      <4>4. ~ObserveUnsteady /\ ~InvalidateBaseline
        BY <2>1 DEF ObserveUnsteady, InvalidateBaseline
      <4>5. ~DiscardResidue
        BY <3>2, <4>2 DEF DiscardResidue, qgapp_identity_matches, Boots, EarlyBoot, At, Known
      <4> QED BY <3>4, <4>2, <4>3, <4>4, <4>5 DEF ObserveSteady
    <3> QED BY <3>5, <3>6
  <2>2. ASSUME Known', Counting', ~genMoved', discarded', pc' \notin Retiring
        PROVE  boundary' = baseLast' /\ boundary' \notin ringStat'
    <3>1. Known /\ ~AlignBase /\ Counting
      BY <1>2, <2>0, <2>2, <2>c, KnownBefore DEF BoundaryFlow, AlignBase, CountFromHere
    <3>2. ~genMoved BY <1>2, <2>2, <2>c, BaselineSources DEF ObserveUnsteady, InvalidateBaseline
    <3>3. CASE RetireStat
      <4>1. boundary = cur /\ why # "capture"
        BY <2>r, <3>1, <3>3 DEF RetireStat, Retiring, Boundary
      <4>2. baseLast = cur BY <3>1, <3>2, <3>3, <4>1 DEF Base, RetireStat, Retiring
      <4>3. ringStat' = ringStat \ {cur} /\ UNCHANGED <<boundary, baseLast>>
        BY <2>2, <3>3 DEF RetireStat, RetireFailed, FailCaptureThen, QuarantineThen, Known, notRetire
      <4> QED BY <4>1, <4>2, <4>3
    <3>4. CASE ~RetireStat
      <4>1. ~RetireMcap
        BY <2>2 DEF RetireMcap, RetireFailed, FailCaptureThen, QuarantineThen, Known, GoTo, Retiring
      <4>2. pc \notin Retiring
        <5>1. Recorder => UNCHANGED pc
          BY DEF Recorder, OpenSegment, RecorderExit, CloseSegment, CreateSidecar, PublishSidecar,
               notRing, flowVars
        <5> QED BY <1>2, <2>2, <2>c, <3>4, <4>1, <5>1, RetiringNext
      <4>3. UNCHANGED <<boundary, discarded>> BY <2>0, <2>2, <3>1, <3>4, <4>1 DEF BoundaryFlow
      <4>4. boundary = baseLast /\ boundary \notin ringStat
        BY <2>2, <3>1, <3>2, <4>2, <4>3 DEF Base
      <4>5. UNCHANGED baseLast
        <5>1. ~InvalidateBaseline /\ ~ObserveUnsteady /\ ~BootAdopt
          BY <2>2, <3>1 DEF InvalidateBaseline, ObserveUnsteady, BootAdopt, Counting, Carrying, Retiring
        <5>2. ~ObserveSteady
          BY <2>2, <3>1 DEF ObserveSteady, RetireUnlessQuarantined, RetireOrLeave, GoTo, Known, Retiring
        <5> QED BY <1>2, <2>2, <2>c, <5>1, <5>2, BaselineSources
      <4>6. ASSUME boundary \in ringStat' PROVE FALSE
        <5>1. PICK i \in Seg : CreateSidecar(i) /\ boundary = i
          BY <1>2, <2>2, <2>c, <3>4, <4>4, <4>6, RingEffect DEF CreateSidecar
        <5>2. side[boundary] = "absent" /\ boundary # 0
          BY <1>t, <5>1 DEF CreateSidecar
        <5> QED BY <1>k, <4>4, <5>2 DEF Residue
      <4> QED BY <4>3, <4>4, <4>5, <4>6
    <3> QED BY <3>3, <3>4
  <2>3. ASSUME Counting', discarded' PROVE AboveStat(boundary)'
    <3>1. ~AlignBase /\ Counting
      BY <2>0, <2>3 DEF BoundaryFlow, AlignBase, CountFromHere
    <3>2. CASE RetireMcap
      <4>1. /\ UNCHANGED <<ringStat, side, discarded>>
            /\ boundary' = cur \/ UNCHANGED boundary
        BY <3>2 DEF RetireMcap, RetireFailed, recording
      <4>2. cur \in ringStat BY <1>r, <3>2, CurIsLeast DEF RetireMcap, Retiring
      <4>3. AboveStat(cur) BY <4>2, AboveCur
      <4>4. AboveStat(boundary) BY <2>3, <3>1, <4>1 DEF Base
      <4> QED BY <4>1, <4>3, <4>4 DEF AboveStat
    <3>3. CASE RetireStat
      <4>1. boundary = cur BY <2>r, <3>1, <3>3 DEF RetireStat, Retiring, Boundary
      <4>2. cur \in ringStat BY <1>r, <3>3, CurIsLeast DEF RetireStat, Retiring
      <4>3. AboveStat(cur) BY <4>2, AboveCur
      <4>4. ringStat \ {cur} \subseteq ringStat' /\ UNCHANGED <<boundary, side>>
        BY <3>3 DEF RetireStat, RetireFailed, recording
      <4>5. \A i \in Seg : boundary < i /\ side[i] # "absent" => i \in ringStat \ {cur}
        BY <1>t, <4>1, <4>2, <4>3 DEF AboveStat
      <4> QED BY <4>4, <4>5 DEF AboveStat
    <3>4. CASE ~RetireMcap /\ ~RetireStat
      <4>1. UNCHANGED <<boundary, discarded>> BY <2>0, <2>3, <3>1, <3>4 DEF BoundaryFlow
      <4>2. AboveStat(boundary) BY <2>3, <3>1, <4>1 DEF Base
      <4> QED BY <1>2, <2>c, <2>3, <3>4, <4>1, <4>2, AboveStatStays DEF AboveStat
    <3> QED BY <3>2, <3>3, <3>4
  <2>4. ASSUME pc' = "alignPending" PROVE ~genMoved'
    <3>1. CASE Aligned BY <3>1 DEF Aligned, CountersMoved, baseVars
    <3>2. CASE pc = "alignPending"
      <4>1. ~genMoved BY <3>2 DEF Base
      <4> QED BY <1>2, <2>4, <3>2, <4>1, BaselineSources DEF ObserveUnsteady, InvalidateBaseline,
                CleanEntry, IntegrityEntry, RipeEntry, AtEntry, StartRequest, Crash, PowerLoss,
                ServiceRestarts
    <3> QED BY <2>0, <2>4, <3>1, <3>2 DEF BoundaryFlow
  <2> QED BY <2>1, <2>2, <2>3, <2>4 DEF Base
<1> QED BY <1>1, <1>2

(* A capture is alive until it fails, is quarantined or loses its recorder; *)
(* once its stop is being committed the recorder does not matter.          *)
Answering == pc \in {"commit"} \cup Committed
Alive == cap = "live" /\ (Known \/ Answering)
Handling == pc \in Carrying \cup Retiring
StopPass ==
  \/ pc = "stopCheck"
  \/ ret = "stopCheck" /\ (pc \in {"entry", "passEnd"} \/ Handling)

(* The steps of a capture that is alive and stays so. *)
LiveCopy ==
  /\ UNCHANGED <<ret, todo, capLast, finalizing, stopSeg, moved>>
  /\ \/ pc = "copyMcap" /\ pc' = "copyStat" /\ UNCHANGED <<files, exported, sdExported>>
     \/ /\ pc = "copyStat" /\ pc' = "writeJson" /\ files' = files \cup {cur}
        /\ UNCHANGED <<exported, sdExported>>
     \/ pc = "writeJson" /\ pc' = "writeExport" /\ UNCHANGED <<files, exported, sdExported>>
     \/ /\ pc = "writeExport" /\ pc' = "retireMcap"
        /\ exported' = [exported EXCEPT ![sess] = files]
        /\ sdExported' = [sdExported EXCEPT ![sess] = files] /\ UNCHANGED files

LiveRetire ==
  /\ UNCHANGED <<ret, capLast, files, exported, sdExported, finalizing, stopSeg>>
  /\ \/ /\ pc = "retireMcap" /\ pc' = "retireStat" /\ ringMcap' = ringMcap \ {cur}
        /\ UNCHANGED <<ringStat, todo, moved>>
     \/ /\ pc = "retireStat" /\ pc' = "passEnd" /\ ringStat' = ringStat \ {cur}
        /\ moved' = TRUE /\ UNCHANGED <<ringMcap, todo>>

LiveElsewhere ==
  /\ ~Handling /\ ~Handling' /\ UNCHANGED <<capLast, files>>
  /\ \/ UNCHANGED <<exported, sdExported>>
     \/ /\ exported' = [exported EXCEPT ![sess] = files]
        /\ sdExported' = [sdExported EXCEPT ![sess] = files]
  /\ StopRequest \/ StopWait \/ UNCHANGED <<finalizing, stopSeg, moved>>
  /\ Answering' => (Answering \/ StopSaved) /\ UNCHANGED <<finalizing, stopSeg, moved>>
  /\ StopPass' => StopPass \/ StopRequest

LiveFlow ==
  /\ UNCHANGED <<sess, from, capBase>>
  /\ \/ /\ Recorder
        /\ UNCHANGED <<pc, ret, todo, capLast, files, exported, sdExported, finalizing, stopSeg, moved>>
     \/ /\ AcceptSegment /\ UNCHANGED <<recording, ring>>
        /\ UNCHANGED <<ret, todo, files, exported, sdExported, finalizing, stopSeg, moved>>
     \/ LiveCopy /\ UNCHANGED <<recording, ring>>
     \/ LiveRetire /\ UNCHANGED recording
     \/ LiveElsewhere /\ UNCHANGED <<recording, ring>>

(* A manifest whose publish succeeded is what a power loss leaves, too. *)
LEMMA ToldWrites ==
  ASSUME NEW o \in Outcome, Told(o), WriteManifest(o)
  PROVE  /\ exported' = [exported EXCEPT ![sess] = files]
         /\ sdExported' = [sdExported EXCEPT ![sess] = files]
BY DEF Told, WriteManifest, Commits, Stored

LEMMA LiveSources ==
  ASSUME TypeInv, Control, Stops, Phases, Boots, Next, Alive, Alive'
  PROVE  LiveFlow
<1> USE DEF Carrying, Retiring, Committed
<1>t. ret \in PassReturns BY DEF TypeInv, TypeOK, FlowTypeOK
<1>c. cap = "live" /\ cap' = "live" /\ (Answering \/ ~quar) /\ (Answering' \/ ~quar')
  BY DEF Alive, Known
<1>1. CASE Recorder
  <2>1. UNCHANGED <<flowVars, passVars, capVars, histVars, sdVars>>
    BY <1>1 DEF Recorder, OpenSegment, RecorderExit, CloseSegment, CreateSidecar, PublishSidecar, notRing
  <2> QED BY <1>1, <2>1 DEF LiveFlow, flowVars, passVars, capVars, histVars, sdVars
<1>2. CASE Quarantining
  <2>1. pc \in {"quarMark", "failState"} BY <1>2 DEF Quarantining, PersistQuarantine, FailState
  <2> QED BY <1>c, <2>1 DEF Phases, Failing, Answering
<1>3. CASE ProcessEntry
  <2>1. CASE EndEntries \/ PendingEntry \/ SettlingEntry
    <3>1. /\ pc = "entry" /\ pc' = "passEnd"
          /\ UNCHANGED <<ret, recording, ring, sdVars, histVars, capVars>>
      BY <2>1 DEF EndEntries, PendingEntry, SettlingEntry, AtEntry, GoTo, ringVars, recording, ring, notPass
    <3> QED BY <3>1 DEF LiveFlow, LiveElsewhere, Handling, Answering, StopPass, sdVars, histVars, capVars
  <2>2. CASE AcceptSegment
    <3>1. UNCHANGED <<ret, todo, recording, ring, sdVars, histVars, finalizing, stopSeg, sess, files,
                      moved, capBase>>
      BY <2>2 DEF AcceptSegment, GoTo, ringVars, recording, ring, notPass
    <3> QED BY <2>2, <3>1 DEF LiveFlow, sdVars, histVars
  <2>3. CASE StalePending \/ RejectSegment \/ SkipForFailedCapture
    BY <1>c, <2>3 DEF StalePending, RejectSegment, SkipForFailedCapture, FailOrQuarantineThen,
         FailCaptureThen
  <2>4. CASE ObserveSteady \/ ObserveUnsteady \/ InvalidateBaseline \/ DiscardResidue
             \/ QuarantineSuspect \/ SkipSuspect
    BY <1>c, <2>4 DEF ObserveSteady, ObserveUnsteady, InvalidateBaseline, DiscardResidue,
         QuarantineSuspect, SkipSuspect, Suspect
  <2> QED BY <1>3, <2>1, <2>2, <2>3, <2>4 DEF ProcessEntry
<1>4. CASE MoveSegment
  <2>0. ~CopyFailed /\ (why = "capture" => ~RetireFailed)
    BY <1>c DEF CopyFailed, RetireFailed, FailCaptureThen
  <2>1. CASE CopyMcap
    <3>1. CopyNext("copyStat") /\ UNCHANGED <<exported, sdExported, histVars>> /\ pc = "copyMcap"
      BY <2>0, <2>1 DEF CopyMcap
    <3> QED BY <3>1 DEF CopyNext, GoTo, LiveFlow, LiveCopy, ringVars, recording, ring, capVars,
              passVars, histVars
  <2>2. CASE CopyStat
    <3>1. /\ pc = "copyStat" /\ GoTo("writeJson") /\ files' = files \cup {cur}
          /\ UNCHANGED <<exported, sdExported, histVars, ringVars, passVars, finalizing, stopSeg, sess,
                         moved, capBase, capLast>>
      BY <2>0, <2>2 DEF CopyStat
    <3> QED BY <3>1 DEF GoTo, LiveFlow, LiveCopy, ringVars, recording, ring, passVars, histVars
  <2>3. CASE WriteJson
    <3>1. CopyNext("writeExport") /\ UNCHANGED <<exported, sdExported, histVars>> /\ pc = "writeJson"
      BY <2>0, <2>3 DEF WriteJson, WriteSession
    <3> QED BY <3>1 DEF CopyNext, GoTo, LiveFlow, LiveCopy, ringVars, recording, ring, capVars,
              passVars, histVars
  <2>4. CASE WriteExport
    <3>0. PICK o \in Outcome : Told(o) /\ WriteManifest(o) /\ CopyNext("retireMcap")
      BY <2>0, <2>4 DEF WriteExport
    <3>1. /\ CopyNext("retireMcap") /\ UNCHANGED histVars /\ pc = "writeExport"
          /\ exported' = [exported EXCEPT ![sess] = files]
          /\ sdExported' = [sdExported EXCEPT ![sess] = files]
      BY <2>4, <3>0, ToldWrites DEF WriteExport
    <3> QED BY <3>1 DEF CopyNext, GoTo, LiveFlow, LiveCopy, ringVars, recording, ring, capVars,
              passVars, histVars
  <2>5. CASE RetireMcap \/ RetireStat
    <3>0. why = "capture" /\ ~RetireFailed
      <4>1. pc \in Retiring BY <2>5 DEF RetireMcap, RetireStat
      <4> QED BY <1>c, <2>0, <4>1 DEF Stops
    <3>1. CASE RetireMcap
      <4>1. /\ pc = "retireMcap" /\ pc' = "retireStat" /\ ringMcap' = ringMcap \ {cur}
            /\ UNCHANGED <<ret, recording, todo, capVars, ringStat, sdVars, from>>
        BY <3>0, <3>1 DEF RetireMcap, GoTo, notRetire
      <4> QED BY <4>1 DEF LiveFlow, LiveRetire, capVars, sdVars
    <3>2. CASE RetireStat
      <4>1. /\ pc = "retireStat" /\ pc' = "passEnd" /\ ringStat' = ringStat \ {cur} /\ moved' = TRUE
            /\ UNCHANGED <<ret, recording, ringMcap, finalizing, stopSeg, sess, files, capBase, capLast,
                           sdVars, from, todo>>
        BY <3>0, <3>2 DEF RetireStat, Retired, GoTo, notRetire
      <4> QED BY <4>1 DEF LiveFlow, LiveRetire, sdVars
    <3> QED BY <2>5, <3>1, <3>2
  <2> QED BY <1>4, <2>1, <2>2, <2>3, <2>4, <2>5 DEF MoveSegment
<1>5. CASE EndPass
  <2>1. PassQuiet
    BY <1>c, <1>5 DEF EndPass, StaleOpen, StalledRecorder, FailOrQuarantineThen, FailCaptureThen
  <2>2. /\ pc = "passEnd" /\ pc' = ret
        /\ UNCHANGED <<ret, recording, ring, sdVars, histVars, capVars>>
    BY <2>1 DEF PassQuiet, GoTo, ringVars, recording, ring, notPass
  <2> QED BY <1>t, <2>2 DEF LiveFlow, LiveElsewhere, Handling, Answering, StopPass, sdVars, histVars,
            capVars, PassReturns
<1>6. CASE Loop
  <2>1. ~SuperviseLoss BY <1>c DEF SuperviseLoss, LossWhileIdle, FailCaptureThen
  <2>2. /\ pc \in {"idle", "supervise", "accept"}
        /\ \/ pc' = "entry" /\ ret' = "supervise"
           \/ pc' \in {"idle", "accept"}
        /\ UNCHANGED <<recording, ring, sdVars, histVars, capVars>>
    BY <1>6, <2>1 DEF Loop, LoopPass, SuperviseQuiet, NoRequest, Pass, StartPass, GoTo, elsewhere, ringVars,
         recording, ring
  <2> QED BY <2>2 DEF LiveFlow, LiveElsewhere, Handling, Answering, StopPass, sdVars, histVars, capVars
<1>7. CASE BeginCapture
  <2>1. ~Requesting BY <1>c DEF Phases
  <2>2. WriteMark \/ OpenSession
    BY <1>c, <1>7, <2>1 DEF BeginCapture, StartRequest, AlignBase, AlignAgain, AlignRefused,
         AlignTimeout, Aligned, RefuseUnfinished, Activate, UndoStart, reset_capture, Requesting
  <2>3. /\ pc \in {"mark", "openSess"} /\ pc' \in {"openSess", "undo", "idle"}
        /\ UNCHANGED <<ringVars, exported, sdExported, capVars, from>>
    BY <2>2 DEF WriteMark, OpenSession, WriteSession, GoTo, sdVars, histVars
  <2> QED BY <2>3 DEF LiveFlow, LiveElsewhere, Handling, Answering, StopPass, ringVars, recording, ring, capVars
<1>8. CASE FinalizeCapture
  <2>1. CASE StopRequest \/ StopWait
    <3>1. /\ pc \in {"accept", "stopCheck"} /\ pc' = "entry" /\ (StopWait => StopPass)
          /\ UNCHANGED <<ringVars, sdVars, from, sess, files, capBase, capLast>>
      BY <2>1 DEF StopRequest, StopWait, Pass, StartPass, Draining, StopPass, histVars
    <3> QED BY <2>1, <3>1 DEF LiveFlow, LiveElsewhere, Handling, Answering, ringVars, recording, ring, sdVars
  <2>2. CASE StopSaved
    <3>1. /\ pc = "stopCheck" /\ pc' = "commit"
          /\ UNCHANGED <<ringVars, sdVars, from, capVars>>
      BY <2>2 DEF StopSaved, Draining, GoTo, elsewhere, histVars
    <3> QED BY <2>2, <3>1 DEF LiveFlow, LiveElsewhere, Handling, Answering, StopPass, ringVars, recording,
              ring, sdVars, capVars
  <2>3. CASE CommitSession \/ CommitExport
    <3>1. ~CommitFailed BY <1>c DEF CommitFailed, FailCaptureThen
    <3>2. /\ pc \in {"commit", "commitExport"} /\ pc' \in Committed
          /\ UNCHANGED <<ringVars, from, capVars>>
      BY <2>3, <3>1 DEF CommitSession, CommitExport, CommitNext, GoTo, histVars
    <3>3. \/ UNCHANGED <<exported, sdExported>>
          \/ /\ exported' = [exported EXCEPT ![sess] = files]
             /\ sdExported' = [sdExported EXCEPT ![sess] = files]
      <4>1. CommitExport => \E o \in Outcome : Told(o) /\ WriteManifest(o)
        BY <3>1 DEF CommitExport
      <4>2. CommitSession => UNCHANGED <<exported, sdExported>> BY DEF CommitSession, WriteSession
      <4> QED BY <2>3, <4>1, <4>2, ToldWrites
    <3> QED BY <3>2, <3>3 DEF LiveFlow, LiveElsewhere, Handling, Answering, StopPass, ringVars, recording,
              ring, capVars
  <2>4. CASE StopTimeout
    BY <1>c, <2>4 DEF StopTimeout, GiveUp, QuarantineThen, Answering
  <2>5. CASE StopFailedCapture \/ StopInterrupted \/ StopRecorderGone \/ StopFail \/ ClearMark
    BY <1>c, <2>5 DEF StopFailedCapture, StopInterrupted, StopRecorderGone, StopFail, ClearMark,
         FailCaptureThen, CommitFailed, reset_capture
  <2> QED BY <1>8, <2>1, <2>2, <2>3, <2>4, <2>5 DEF FinalizeCapture
<1>9. CASE Boot
  <2>1. Booting
    BY <1>9 DEF Boot, LoadQuarantine, RecoverActive, NothingToRecover, RecoverSessions, BootAdopt,
         BootQuarantined, BootDone, BootStartRecorder, BootWithoutRecorder, Booting, EarlyBoot, At
  <2> QED BY <1>c, <2>1 DEF Boots
<1>10. CASE Crash \/ PowerLoss
  BY <1>c, <1>10 DEF Crash, PowerLoss, ServiceRestarts, reset_capture
<1> QED BY <1>1, <1>2, <1>3, <1>4, <1>5, <1>6, <1>7, <1>8, <1>9, <1>10 DEF Next, Service

(* Where an answer comes from. *)
LEMMA AnswerSources ==
  ASSUME TypeInv, Next, Answering'
  PROVE  Answering \/ StopSaved
<1> USE DEF Answering, Committed
<1>t. ret \in PassReturns /\ after \in Resume BY DEF TypeInv, TypeOK, FlowTypeOK
<1>1. CASE Recorder
  BY <1>1 DEF Recorder, OpenSegment, RecorderExit, CloseSegment, CreateSidecar, PublishSidecar, notRing,
       flowVars
<1>2. CASE Quarantining
  BY <1>t, <1>2 DEF Quarantining, PersistQuarantine, FailState, GoTo, Resume, PassReturns
<1>3. CASE ProcessEntry
  BY <1>3 DEF ProcessEntry, EndEntries, PendingEntry, StalePending, SettlingEntry, AcceptSegment,
       RejectSegment, SkipForFailedCapture, ObserveSteady, ObserveUnsteady, InvalidateBaseline,
       DiscardResidue, QuarantineSuspect, SkipSuspect, SkipEntry, RetireUnlessQuarantined,
       RetireOrLeave, GoTo, FailOrQuarantineThen, FailCaptureThen, QuarantineThen
<1>4. CASE MoveSegment
  BY <1>4 DEF MoveSegment, CopyMcap, CopyStat, WriteJson, WriteExport, CopyNext, CopyFailed, RetireMcap,
       RetireStat, Retired, RetireFailed, FailCaptureThen, QuarantineThen, GoTo
<1>5. CASE EndPass \/ Loop
  BY <1>t, <1>5 DEF EndPass, PassQuiet, StaleOpen, StalledRecorder, GoTo, FailOrQuarantineThen,
       FailCaptureThen, QuarantineThen, Loop, LoopPass, SuperviseQuiet, SuperviseLoss, NoRequest, Pass,
       StartPass, PassReturns
<1>6. CASE BeginCapture
  BY <1>6 DEF BeginCapture, StartRequest, AlignBase, AlignAgain, AlignRefused, AlignTimeout, Aligned,
       RefuseUnfinished, Activate, WriteMark, OpenSession, UndoStart, Pass, StartPass, GoTo,
       QuarantineThen
<1>7. CASE FinalizeCapture
  BY <1>7 DEF FinalizeCapture, StopFailedCapture, StopRequest, StopInterrupted, StopRecorderGone,
       StopWait, StopTimeout, StopFail, CommitSession, CommitExport, ClearMark, GiveUp, Pass, StartPass,
       FailCaptureThen, GoTo, QuarantineThen
<1>8. CASE Boot
  BY <1>8 DEF Boot, LoadQuarantine, RecoverActive, NothingToRecover, RecoverSessions, BootAdopt,
       BootQuarantined, BootDone, BootStartRecorder, BootWithoutRecorder, Pass, StartPass, GoTo,
       QuarantineThen
<1>9. CASE Crash \/ PowerLoss BY <1>9 DEF Crash, PowerLoss, ServiceRestarts
<1> QED BY <1>1, <1>2, <1>3, <1>4, <1>5, <1>6, <1>7, <1>8, <1>9 DEF Next, Service

(* A capture that is alive was alive before, or begins with this step. *)
LEMMA AliveBefore ==
  ASSUME TypeInv, Phases, Boots, Next, Alive', ~Activate
  PROVE  Alive
<1>1. cap # "idle" /\ ~Crash /\ ~PowerLoss
  BY StartSources DEF StartFlow, Alive, Crash, PowerLoss, ServiceRestarts, reset_capture
<1>2. cap = "live"
  <2>1. CASE LeavesSessions BY <2>1 DEF LeavesSessions, Alive
  <2>2. CASE OnSessions
    <3>1. UNCHANGED cap \/ cap = "live"
      BY <1>1, <2>2 DEF OnSessions, FailState, WriteJson, CopyNext, CopyFailed, FailCaptureThen,
           RecoverSessions, OpenSession, UndoStart, reset_capture, StopFail, CommitSession, CommitExport,
           CommitNext, CommitFailed, ClearMark, Alive, capVars, bootVars
    <3> QED BY <3>1 DEF Alive
  <2> QED BY <2>1, <2>2, SessionEffect
<1>3. CASE Known'
  <2>1. ~BootStartRecorder
    BY <1>1 DEF BootStartRecorder, Boots, Booting, At
  <2> QED BY <1>1, <1>2, <1>3, <2>1, KnownBefore DEF Alive
<1>4. CASE Answering'
  <2>1. CASE Answering BY <1>2, <2>1 DEF Alive
  <2>2. CASE StopSaved
    <3>1. pc = "stopCheck" /\ prod # "dead" BY <2>2 DEF StopSaved, Draining, qgapp_identity_matches
    <3> QED BY <1>2, <3>1 DEF Boots, Known, Alive
  <2> QED BY <1>4, <2>1, <2>2, AnswerSources
<1> QED BY <1>3, <1>4 DEF Alive

(* The segments from f + 1 to l are clean and have the counters of f, and  *)
(* the recorder got ahead in each of them.                                 *)
Whole(f, l) == \A i \in (f + 1) .. l : side[i] = "clean" /\ integrity_counters_equal(i, f)
Rising(f, l) == \A i, j \in f .. l : i < j => integrity_progress_advanced(j, i)

LEMMA WholeStays ==
  ASSUME TypeInv, Next, NEW f \in 0 .. MaxSeg, NEW l \in 0 .. MaxSeg,
         f # 0 => side[f] \in Terminal, Whole(f, l)
  PROVE  Whole(f, l)' /\ (Rising(f, l) => Rising(f, l)')
<1>t. MaxSeg \in Nat /\ Seg = 1 .. MaxSeg /\ "clean" \in Terminal
  BY BoundsAssumption DEF Seg, Terminal
<1>1. ASSUME NEW i \in f .. l
      PROVE  /\ i # 0 => i \in Seg /\ side'[i] = side[i]
             /\ counters(i)' = counters(i) /\ progress(i)' = progress(i)
  <2>1. CASE i = 0 BY <2>1 DEF counters, progress
  <2>2. CASE i # 0
    <3>1. i \in Seg /\ side[i] \in Terminal
      <4>1. CASE i = f BY <1>t, <2>2, <4>1
      <4>2. CASE i # f
        <5>1. i \in (f + 1) .. l BY <4>2
        <5> QED BY <1>t, <2>2, <5>1 DEF Whole
      <4> QED BY <4>1, <4>2
    <3> QED BY <2>2, <3>1, TerminalStays DEF counters, progress
  <2> QED BY <2>1, <2>2
<1>2. Whole(f, l)'
  <2>1. SUFFICES ASSUME NEW i \in (f + 1) .. l PROVE side'[i] = "clean" /\ counters(i)' = counters(f)'
    BY DEF Whole, integrity_counters_equal
  <2>2. i \in f .. l /\ f \in f .. l /\ i # 0 BY <2>1
  <2> QED BY <1>1, <2>2 DEF Whole, integrity_counters_equal
<1>3. Rising(f, l) => Rising(f, l)' BY <1>1 DEF Rising, integrity_progress_advanced
<1> QED BY <1>2, <1>3

(* What the proofs about the capture build on. *)
Ground ==
  /\ TypeInv /\ Control /\ Sessions /\ Stops /\ Phases /\ Ring /\ Boundary
  /\ Boots /\ Drained /\ Residue /\ SweptStat /\ Base

(* A capture that is alive has saved the run of segments after the         *)
(* boundary, every one clean, up to the last one it accepted, and the next *)
(* ones are in the ring.                                                   *)
Line ==
  Alive =>
    /\ capBase = from[sess] /\ from[sess] <= capLast
    /\ capBase # 0 => side[capBase] \in Terminal /\ born < capBase
    /\ Whole(capBase, capLast) /\ Rising(capBase, capLast)
    /\ AboveStat(capLast)
    /\ IF Handling THEN cur = capLast /\ capBase < capLast ELSE capLast \notin ringStat

LEMMA LineBegins ==
  ASSUME Ground, Activate, Alive'
  PROVE  Line'
<1>t. /\ used \in 0 .. MaxSess /\ MaxSess \in Nat /\ from \in [Sess -> 0 .. MaxSeg] /\ Sess = 1 .. MaxSess
      /\ boundary \in 0 .. MaxSeg /\ MaxSeg \in Nat
  BY BoundsAssumption DEF Ground, TypeInv, TypeOK, HistoryTypeOK, Sess
<1>1. /\ pc = "alignPending" /\ pc' = "mark" /\ used < MaxSess /\ sess' = used + 1
      /\ from' = [from EXCEPT ![used + 1] = boundary] /\ capBase' = baseLast /\ capLast' = baseLast
      /\ UNCHANGED <<prod, quar, side, ctr, prog, born, ringStat>>
  BY DEF Activate, GoTo, ringVars
<1>2. Known BY <1>1 DEF Alive, Known, Answering, Committed
<1>3. Counting /\ pc \notin Retiring BY <1>1 DEF Counting, Retiring
<1>4. discarded /\ ~genMoved BY <1>1 DEF Ground, Boundary, Base
<1>5. boundary = baseLast /\ boundary \notin ringStat /\ AboveStat(boundary)
  BY <1>2, <1>3, <1>4 DEF Ground, Base
<1>6. baseLast # 0 => side[baseLast] \in Terminal /\ born < baseLast BY DEF Ground, Residue
<1>7. from'[sess'] = baseLast
  <2>1. used + 1 \in Sess BY <1>t, <1>1
  <2> QED BY <1>t, <1>1, <1>5, <2>1
<1>8. ~Handling' BY <1>1 DEF Handling, Carrying, Retiring
<1>9. PICK b \in 0 .. MaxSeg : b = baseLast BY <1>t, <1>5
<1>10. Whole(b, b)' /\ Rising(b, b)'
  <2>1. (b + 1) .. b = {} OBVIOUS
  <2>2. \A i, j \in b .. b : ~(i < j) OBVIOUS
  <2> QED BY <2>1, <2>2 DEF Whole, Rising
<1>11. Whole(capBase, capLast)' /\ Rising(capBase, capLast)' BY <1>1, <1>9, <1>10 DEF Whole, Rising
<1>12. AboveStat(capLast)' BY <1>1, <1>5 DEF AboveStat
<1> QED BY <1>t, <1>1, <1>5, <1>6, <1>7, <1>8, <1>11, <1>12 DEF Line

LEMMA AcceptIsNext ==
  ASSUME Ground, Line, Alive, AcceptSegment
  PROVE  /\ cur = capLast + 1 /\ cur \in Seg /\ cur \in ringStat /\ side[cur] = "clean"
         /\ capBase # 0 /\ integrity_counters_equal(cur, capBase)
         /\ integrity_progress_advanced(cur, capLast)
<1>t. /\ ringStat \subseteq Seg /\ Seg = 1 .. MaxSeg /\ MaxSeg \in Nat /\ born \in Int
      /\ capBase \in 0 .. MaxSeg /\ capLast \in 0 .. MaxSeg /\ side \in [Seg -> SideKinds]
  BY BoundsAssumption DEF Ground, TypeInv, TypeOK, RingTypeOK, CaptureTypeOK, Seg
<1>k. "absent" \notin Terminal /\ "clean" \in Terminal BY DEF Terminal
<1>1. /\ pc = "entry" /\ todo # {} /\ cap = "live" /\ side[cur] = "clean"
      /\ capBase # 0 /\ integrity_counters_equal(cur, capBase)
      /\ integrity_progress_advanced(cur, capLast)
  BY DEF AcceptSegment, CleanEntry, RipeEntry, AtEntry, capture_accepts_integrity
<1>2. cur \in ringStat /\ \A i \in ringStat : cur <= i
  BY <1>1, EntryIsLeast DEF Ground, Ring, Moving
<1>3. ~Handling BY <1>1 DEF Handling, Carrying, Retiring
<1>4. /\ capBase <= capLast /\ side[capBase] \in Terminal /\ born < capBase /\ AboveStat(capLast)
      /\ capLast \notin ringStat /\ Whole(capBase, capLast)
  BY <1>1, <1>3 DEF Line
<1>5. capLast \in Seg /\ side[capLast] # "absent"
  <2>1. capLast \in Seg BY <1>t, <1>1, <1>4
  <2>2. CASE capLast = capBase BY <1>k, <1>4, <2>1, <2>2
  <2>3. CASE capLast # capBase
    <3>1. capLast \in (capBase + 1) .. capLast BY <1>t, <1>4, <2>3
    <3> QED BY <2>1, <3>1, <1>4 DEF Whole
  <2> QED BY <2>2, <2>3
<1>6. PICK c \in Seg : c = cur BY <1>t, <1>2
<1>7. PICK l \in Seg : l = capLast BY <1>5
<1>8. l < c BY <1>2, <1>4, <1>5, <1>6, <1>7 DEF Ground, SweptStat
<1>9. ASSUME l + 1 # c PROVE FALSE
  <2>1. l + 1 \in Seg /\ l + 1 < c /\ born < l + 1 BY <1>t, <1>4, <1>7, <1>8, <1>9
  <2>2. side[l + 1] \in Terminal
    BY <1>1, <1>6, <2>1 DEF Ground, Ring, Order
  <2>3. l + 1 \in ringStat
    <3>1. AboveStat(l) BY <1>4, <1>7
    <3>2. PICK n \in Seg : n = l + 1 /\ l < n BY <1>t, <2>1
    <3> QED BY <1>k, <2>2, <3>1, <3>2 DEF AboveStat
  <2>4. c <= l + 1 BY <1>2, <1>6, <2>3
  <2> QED BY <1>t, <2>1, <2>4
<1> QED BY <1>1, <1>2, <1>6, <1>7, <1>9

LEMMA AcceptExtends ==
  ASSUME NEW f \in 0 .. MaxSeg, NEW l \in 0 .. MaxSeg, NEW c \in Seg, c = l + 1, f <= l, TypeInv,
         Whole(f, l), Rising(f, l), side[c] = "clean", integrity_counters_equal(c, f),
         integrity_progress_advanced(c, l)
  PROVE  Whole(f, c) /\ Rising(f, c)
<1>t. MaxSeg \in Nat /\ Seg = 1 .. MaxSeg /\ prog \in [Seg -> Nat]
  BY BoundsAssumption DEF Seg, TypeInv, TypeOK, RingTypeOK
<1>1. Whole(f, c)
  <2>1. \A i \in (f + 1) .. c : i = c \/ i \in (f + 1) .. l BY <1>t
  <2> QED BY <2>1 DEF Whole
<1>2. ASSUME NEW i \in f .. c, NEW j \in f .. c, i < j PROVE integrity_progress_advanced(j, i)
  <2>1. CASE j # c
    <3>1. i \in f .. l /\ j \in f .. l BY <1>t, <1>2, <2>1
    <3> QED BY <1>2, <3>1 DEF Rising
  <2>2. CASE j = c
    <3>1. i \in f .. l /\ l \in f .. l /\ i <= l BY <1>t, <1>2, <2>2
    <3>2. progress(c) \in Int /\ progress(l) \in Int /\ progress(i) \in Int
      <4>1. \A k \in 0 .. MaxSeg : progress(k) \in Int BY <1>t DEF progress
      <4> QED BY <1>t, <3>1, <4>1
    <3>3. i = l \/ progress(l) > progress(i) BY <3>1 DEF Rising, integrity_progress_advanced
    <3> QED BY <2>2, <3>2, <3>3 DEF integrity_progress_advanced
  <2> QED BY <2>1, <2>2
<1> QED BY <1>1, <1>2 DEF Rising

LEMMA LineStep ==
  ASSUME Ground, Line, [Next]_vars
  PROVE  Line'
<1>t. /\ TypeInv /\ ringStat \subseteq Seg /\ Seg = 1 .. MaxSeg /\ MaxSeg \in Nat
      /\ capBase \in 0 .. MaxSeg /\ capLast \in 0 .. MaxSeg /\ side \in [Seg -> SideKinds]
  BY BoundsAssumption DEF Ground, TypeInv, TypeOK, RingTypeOK, CaptureTypeOK, Seg
<1>k. "absent" \notin Terminal /\ "clean" \in Terminal BY DEF Terminal
<1>1. CASE UNCHANGED vars
  <2>1. UNCHANGED <<pc, cap, prod, quar, capBase, capLast, from, sess, side, ctr, prog, born, ringStat, todo>>
    BY <1>1 DEF vars, flowVars, passVars, ringVars, histVars, capVars
  <2> QED BY <2>1 DEF Line, Alive, Known, Answering, AboveStat, Whole, Rising, Handling, cur, counters,
            progress, integrity_counters_equal, integrity_progress_advanced
<1>2. CASE Activate BY <1>2, LineBegins DEF Line
<1>3. CASE Next /\ ~Activate
  <2> SUFFICES ASSUME Alive' PROVE Line' BY DEF Line
  <2>1. Alive /\ LiveFlow
    <3>1. Alive BY <1>3, AliveBefore DEF Ground
    <3> QED BY <1>3, <3>1, LiveSources DEF Ground
  <2>2. /\ capBase = from[sess] /\ capBase <= capLast
        /\ capBase # 0 => side[capBase] \in Terminal /\ born < capBase
        /\ Whole(capBase, capLast) /\ Rising(capBase, capLast) /\ AboveStat(capLast)
        /\ IF Handling THEN cur = capLast /\ capBase < capLast ELSE capLast \notin ringStat
    BY <2>1 DEF Line
  <2>3. UNCHANGED <<capBase, from, sess, born>>
    <3>1. ~BootStartRecorder BY <2>1 DEF BootStartRecorder, Boots, Booting, At, Ground, Alive
    <3> QED BY <1>3, <2>1, <3>1, RingEffect DEF LiveFlow
  <2>4. ~PowerLoss BY DEF PowerLoss, ServiceRestarts, reset_capture, Alive
  <2>5. PICK f \in 0 .. MaxSeg, l \in 0 .. MaxSeg : f = capBase /\ l = capLast BY <1>t
  <2>6. Whole(f, l)' /\ Rising(f, l)'
    <3>1. Whole(f, l) /\ Rising(f, l) BY <2>2, <2>5
    <3> QED BY <1>t, <1>3, <2>2, <2>5, <3>1, WholeStays
  <2>7. capBase' # 0 => side'[capBase'] \in Terminal /\ born' < capBase'
    <3>1. capBase # 0 => capBase \in Seg BY <1>t
    <3> QED BY <1>t, <1>3, <2>2, <2>3, <3>1, TerminalStays
  <2>8. CASE UNCHANGED capLast
    <3>1. Whole(capBase, capLast)' /\ Rising(capBase, capLast)'
      BY <2>3, <2>5, <2>6, <2>8 DEF Whole, Rising
    <3>2. AboveStat(capLast)' /\ (IF Handling' THEN cur' = capLast /\ capBase < capLast
                                             ELSE capLast \notin ringStat')
      <4>1. CASE Recorder /\ UNCHANGED <<pc, todo>>
        <5>1. AboveStat(l) BY <2>2, <2>5
        <5>2. ~RetireStat BY <4>1 DEF RetireStat, Recorder, OpenSegment, RecorderExit, CloseSegment,
               CreateSidecar, PublishSidecar, notRing, flowVars, GoTo, Retired, RetireFailed,
               FailCaptureThen, QuarantineThen
        <5>3. AboveStat(l)' BY <1>t, <1>3, <2>4, <5>1, <5>2, AboveStatStays
        <5>4. capLast \notin ringStat => capLast \notin ringStat'
          <6>1. SUFFICES ASSUME capLast \notin ringStat, capLast \in ringStat' PROVE FALSE OBVIOUS
          <6>2. PICK i \in Seg : CreateSidecar(i) /\ i = capLast
            BY <1>3, <2>4, <5>2, <6>1, RingEffect DEF CreateSidecar
          <6>3. capLast \in Seg /\ side[capLast] = "absent" BY <6>2 DEF CreateSidecar
          <6>4. capLast = capBase \/ capLast \in (capBase + 1) .. capLast BY <1>t, <2>2
          <6> QED BY <1>k, <1>t, <2>2, <6>3, <6>4 DEF Whole
        <5> QED BY <2>2, <2>5, <2>8, <4>1, <5>3, <5>4 DEF AboveStat, Handling, cur
      <4>2. CASE LiveCopy /\ UNCHANGED <<recording, ring>>
        <5>1. Handling /\ Handling' /\ UNCHANGED <<todo, side, ringStat>>
          BY <4>2 DEF LiveCopy, Handling, Carrying, Retiring, recording, ring
        <5> QED BY <2>2, <2>8, <5>1 DEF AboveStat, cur
      <4>3. CASE LiveRetire /\ UNCHANGED recording
        <5>1. Handling /\ cur = capLast /\ capBase < capLast BY <2>2, <4>3 DEF LiveRetire, Handling, Retiring
        <5>2. UNCHANGED <<side, todo>> BY <4>3 DEF LiveRetire, recording
        <5>3. UNCHANGED cur BY <5>2 DEF cur
        <5>4. CASE UNCHANGED ringStat /\ pc' = "retireStat"
          <6>1. Handling' BY <5>4 DEF Handling, Retiring
          <6> QED BY <2>2, <2>8, <5>1, <5>2, <5>3, <5>4, <6>1 DEF AboveStat
        <5>5. CASE ringStat' = ringStat \ {cur} /\ pc' = "passEnd"
          <6>1. ~Handling' BY <5>5 DEF Handling, Carrying, Retiring
          <6>2. ringStat' = ringStat \ {l} BY <2>5, <5>1, <5>5
          <6>3. \A i \in Seg : l < i /\ side[i] # "absent" => i \in ringStat'
            BY <1>t, <2>2, <2>5, <6>2 DEF AboveStat
          <6> QED BY <2>5, <2>8, <5>2, <6>1, <6>2, <6>3 DEF AboveStat
        <5> QED BY <4>3, <5>4, <5>5 DEF LiveRetire
      <4>4. CASE LiveElsewhere /\ UNCHANGED <<recording, ring>>
        <5>1. ~Handling /\ ~Handling' /\ UNCHANGED <<side, ringStat>>
          BY <4>4 DEF LiveElsewhere, recording, ring
        <5> QED BY <2>2, <2>8, <5>1 DEF AboveStat
      <4>5. CASE AcceptSegment
        <5>1. cur = capLast + 1 BY <2>1, <4>5, AcceptIsNext
        <5>2. capLast' = cur BY <4>5 DEF AcceptSegment
        <5> QED BY <1>t, <2>8, <5>1, <5>2
      <4> QED BY <2>1, <4>1, <4>2, <4>3, <4>4, <4>5 DEF LiveFlow
    <3> QED BY <2>2, <2>3, <2>7, <2>8, <3>1, <3>2 DEF Line
  <2>9. CASE ~UNCHANGED capLast
    <3>1. AcceptSegment /\ UNCHANGED <<recording, ring, todo>>
      BY <2>1, <2>9 DEF LiveFlow, LiveCopy, LiveRetire, LiveElsewhere
    <3>2. /\ cur = capLast + 1 /\ cur \in Seg /\ cur \in ringStat /\ side[cur] = "clean"
          /\ capBase # 0 /\ integrity_counters_equal(cur, capBase)
          /\ integrity_progress_advanced(cur, capLast)
      BY <2>1, <3>1, AcceptIsNext
    <3>3. PICK c \in Seg : c = cur BY <3>2
    <3>4. capLast' = c /\ pc' = "copyMcap" BY <3>1, <3>3 DEF AcceptSegment, GoTo
    <3>5. Whole(f, c) /\ Rising(f, c) BY <1>t, <2>2, <2>5, <3>2, <3>3, AcceptExtends
    <3>6. UNCHANGED <<side, ctr, prog, ringStat, cur>> BY <3>1 DEF recording, ring, cur
    <3>7. Whole(capBase, capLast)' /\ Rising(capBase, capLast)'
      BY <2>3, <2>5, <3>4, <3>5, <3>6 DEF Whole, Rising, counters, progress, integrity_counters_equal,
           integrity_progress_advanced
    <3>8. AboveStat(capLast)'
      BY <1>t, <2>2, <2>5, <3>2, <3>3, <3>4, <3>6 DEF AboveStat
    <3>9. Handling' BY <3>4 DEF Handling, Carrying
    <3>10. capBase' < capLast' /\ cur' = capLast' BY <1>t, <2>2, <2>3, <2>5, <3>2, <3>3, <3>4, <3>6
    <3> QED BY <1>t, <2>2, <2>3, <2>5, <2>7, <3>4, <3>7, <3>8, <3>9, <3>10 DEF Line
  <2> QED BY <2>8, <2>9
<1> QED BY <1>1, <1>2, <1>3

(* A session that has not begun has no session.json on the card. *)
Fresh == \A s \in Sess : used < s => disk[s] = "none" /\ sdState[s] = "none"

manifests == <<disk, listed, exported, sdState, sdListed, sdExported>>

CommitWrites ==
  /\ pc = "commit" /\ (CommitSession \/ Crash)
  /\ \E o \in Outcome : WriteSession(o, "complete")

CardFlow ==
  \/ UNCHANGED manifests \/ CommitWrites \/ PowerLoss
  \/ \E o \in Outcome, state \in {"recording", "failed"} : WriteSession(o, state)
  \/ \E o \in Outcome : WriteManifest(o)
  \/ \E done \in SUBSET interrupted : \E told \in SUBSET done : MarkInterrupted(done, told)

LEMMA CardSources ==
  ASSUME Next
  PROVE  CardFlow
<1> USE DEF CardFlow, manifests
<1>1. CASE FailState \/ WriteJson \/ OpenSession \/ StopFail
  <2>1. \E o \in Outcome, state \in {"recording", "failed"} : WriteSession(o, state)
    BY <1>1 DEF FailState, WriteJson, OpenSession, StopFail
  <2> QED BY <2>1
<1>2. CASE WriteExport \/ CommitExport
  <2>1. \E o \in Outcome : WriteManifest(o) BY <1>2 DEF WriteExport, CommitExport
  <2> QED BY <2>1
<1>3. CASE CommitSession BY <1>3 DEF CommitSession, CommitWrites
<1>4. CASE RecoverSessions
  <2>1. \E done \in SUBSET interrupted : \E told \in SUBSET done : MarkInterrupted(done, told)
    BY <1>4 DEF RecoverSessions
  <2> QED BY <2>1
<1>5. CASE Crash
  <2>1. CASE UNCHANGED sdVars BY <2>1 DEF sdVars
  <2>2. CASE \E o \in Outcome, state \in {"recording", "failed"} : WriteSession(o, state) BY <2>2
  <2>3. CASE \E o \in Outcome : WriteManifest(o) BY <2>3
  <2>4. CASE CommitWrites BY <2>4
  <2>5. CASE \E done \in SUBSET interrupted : \E told \in SUBSET done : MarkInterrupted(done, told)
    BY <2>5
  <2> QED BY <1>5, <2>1, <2>2, <2>3, <2>4, <2>5 DEF Crash, CutShort, CommitWrites
<1>6. CASE MoveSegment /\ ~(WriteJson \/ WriteExport)
  <2>1. UNCHANGED manifests
    BY <1>6 DEF MoveSegment, CopyMcap, CopyStat, RetireMcap, RetireStat, notRetire, sdVars
  <2> QED BY <2>1
<1>7. CASE FinalizeCapture /\ ~(StopFail \/ CommitSession \/ CommitExport)
  <2>1. UNCHANGED manifests
    BY <1>7 DEF FinalizeCapture, StopFailedCapture, StopRequest, StopInterrupted, StopRecorderGone,
         StopSaved, StopWait, StopTimeout, ClearMark, Pass, elsewhere, sdVars
  <2> QED BY <2>1
<1>8. CASE BeginCapture /\ ~OpenSession
  <2>1. UNCHANGED manifests
    BY <1>8 DEF BeginCapture, StartRequest, AlignBase, AlignAgain, AlignRefused, AlignTimeout, Aligned,
         RefuseUnfinished, Activate, WriteMark, UndoStart, Pass, elsewhere, sdVars
  <2> QED BY <2>1
<1>9. CASE Recorder \/ PersistQuarantine \/ EndPass \/ Loop
  <2>1. UNCHANGED manifests
    BY <1>9 DEF Recorder, OpenSegment, RecorderExit, CloseSegment, CreateSidecar, PublishSidecar,
         notRing, PersistQuarantine, EndPass, PassQuiet, StaleOpen, StalledRecorder, Loop, LoopPass,
         SuperviseQuiet, SuperviseLoss, NoRequest, Pass, elsewhere, notPass, sdVars
  <2> QED BY <2>1
<1>10. CASE ProcessEntry
  <2>1. UNCHANGED manifests
    BY <1>10 DEF ProcessEntry, EndEntries, PendingEntry, StalePending, SettlingEntry, AcceptSegment,
         RejectSegment, SkipForFailedCapture, ObserveSteady, ObserveUnsteady, InvalidateBaseline,
         DiscardResidue, QuarantineSuspect, SkipSuspect, notPass, sdVars
  <2> QED BY <2>1
<1>11. CASE Boot /\ ~RecoverSessions
  <2>1. UNCHANGED manifests
    BY <1>11 DEF Boot, LoadQuarantine, RecoverActive, NothingToRecover, BootAdopt, BootQuarantined,
         BootDone, BootStartRecorder, BootWithoutRecorder, Pass, elsewhere, sdVars
  <2> QED BY <2>1
<1> QED BY <1>1, <1>2, <1>3, <1>4, <1>5, <1>6, <1>7, <1>8, <1>9, <1>10, <1>11
        DEF Next, Service, Quarantining, MoveSegment, FinalizeCapture, BeginCapture, Boot

(* Only the commit of its own stop makes a session complete, and nothing   *)
(* changes the list of a complete one; its export manifest is the list in  *)
(* memory, or nothing, once it is written again.                           *)
CardEffect(s) ==
  /\ disk'[s] = "complete" =>
       \/ disk[s] = "complete" /\ listed'[s] = listed[s]
       \/ CommitWrites /\ s = sess /\ listed'[s] = files
  /\ sdState'[s] = "complete" =>
       \/ sdState[s] = "complete" /\ sdListed'[s] = sdListed[s]
       \/ CommitWrites /\ s = sess /\ sdListed'[s] = files
  /\ exported'[s] = exported[s] \/ (s = sess /\ exported'[s] = files)
  /\ sdExported'[s] = sdExported[s] \/ (s = sess /\ sdExported'[s] \in {files, {}})

LEMMA CardStep ==
  ASSUME TypeInv, Next, ~PowerLoss, NEW s \in Sess
  PROVE  CardEffect(s)
<1>t. /\ disk \in [Sess -> {"none", "recording", "complete", "failed"}]
      /\ sdState \in [Sess -> {"none", "recording", "complete", "failed"}]
      /\ listed \in [Sess -> SUBSET Seg] /\ sdListed \in [Sess -> SUBSET Seg]
      /\ exported \in [Sess -> SUBSET Seg] /\ sdExported \in [Sess -> SUBSET Seg]
  BY DEF TypeInv, TypeOK, CardTypeOK
<1>1. CASE UNCHANGED manifests BY <1>1 DEF manifests, CardEffect
<1>2. ASSUME NEW o \in Outcome, NEW state, WriteSession(o, state), state = "complete" => CommitWrites
      PROVE  CardEffect(s)
  <2>1. UNCHANGED <<exported, sdExported>> BY <1>2 DEF WriteSession
  <2>2. CASE s # sess
    <3>1. disk'[s] = disk[s] /\ listed'[s] = listed[s] /\ sdState'[s] = sdState[s] /\ sdListed'[s] = sdListed[s]
      BY <1>t, <1>2, <2>2 DEF WriteSession
    <3> QED BY <2>1, <3>1 DEF CardEffect
  <2>3. CASE s = sess
    <3>1. \/ disk'[s] = disk[s] /\ listed'[s] = listed[s]
          \/ disk'[s] = state /\ listed'[s] = files
      BY <1>t, <1>2, <2>3 DEF WriteSession
    <3>2. sdState'[s] = Stored(o, state, sdState[s], "none") /\ sdListed'[s] = Stored(o, files, sdListed[s], {})
      BY <1>t, <1>2, <2>3 DEF WriteSession
    <3>3. \/ sdState'[s] = sdState[s] /\ sdListed'[s] = sdListed[s]
          \/ sdState'[s] = state /\ sdListed'[s] = files
          \/ sdState'[s] = "none"
      BY <3>2 DEF Stored
    <3> QED BY <1>2, <2>1, <2>3, <3>1, <3>3 DEF CardEffect
  <2> QED BY <2>2, <2>3
<1>3. ASSUME NEW o \in Outcome, WriteManifest(o) PROVE CardEffect(s)
  <2>1. UNCHANGED <<disk, listed, sdState, sdListed>> BY <1>3 DEF WriteManifest
  <2>2. exported'[s] = exported[s] \/ (s = sess /\ exported'[s] = files)
    BY <1>t, <1>3 DEF WriteManifest
  <2>3. sdExported'[s] = sdExported[s] \/ (s = sess /\ sdExported'[s] \in {files, {}})
    BY <1>t, <1>3 DEF WriteManifest, Stored
  <2> QED BY <2>1, <2>2, <2>3 DEF CardEffect
<1>4. ASSUME NEW done \in SUBSET interrupted, NEW told \in SUBSET done, MarkInterrupted(done, told)
      PROVE  CardEffect(s)
  <2>1. UNCHANGED <<listed, exported, sdExported>> BY <1>4 DEF MarkInterrupted
  <2>2. disk'[s] = "complete" => disk[s] = "complete" BY <1>4 DEF MarkInterrupted
  <2>3. sdState'[s] = "complete" => sdState[s] = "complete" /\ sdListed'[s] = sdListed[s]
    BY <1>4 DEF MarkInterrupted
  <2> QED BY <2>1, <2>2, <2>3 DEF CardEffect
<1>5. CASE CommitWrites BY <1>2, <1>5 DEF CommitWrites
<1>6. CASE \E o \in Outcome, state \in {"recording", "failed"} : WriteSession(o, state)
  BY <1>2, <1>6
<1> QED BY <1>1, <1>3, <1>4, <1>5, <1>6, CardSources DEF CardFlow

LEMMA FreshStep ==
  ASSUME TypeInv, Control, Sessions, Fresh, [Next]_vars
  PROVE  Fresh'
<1>t. /\ used \in 0 .. MaxSess /\ MaxSess \in Nat /\ Sess = 1 .. MaxSess /\ sess \in 0 .. MaxSess
      /\ disk \in [Sess -> {"none", "recording", "complete", "failed"}]
      /\ sdState \in [Sess -> {"none", "recording", "complete", "failed"}]
  BY BoundsAssumption DEF TypeInv, TypeOK, HistoryTypeOK, CaptureTypeOK, CardTypeOK, Sess
<1>1. CASE UNCHANGED vars
  <2>1. UNCHANGED <<used, disk, sdState>> BY <1>1 DEF vars, histVars, sdVars
  <2> QED BY <2>1 DEF Fresh
<1>2. CASE Next
  <2>1. used' = used \/ used' = used + 1
    BY <1>2, ListSources DEF ListFlow, Activate
  <2>2. ASSUME NEW s \in Sess, used' < s PROVE disk'[s] = "none" /\ sdState'[s] = "none"
    <3>1. used < s /\ s # sess BY <1>t, <2>1, <2>2 DEF Sessions
    <3>2. disk[s] = "none" /\ sdState[s] = "none" BY <3>1 DEF Fresh
    <3>3. CASE UNCHANGED manifests BY <3>2, <3>3 DEF manifests
    <3>4. CASE PowerLoss BY <3>2, <3>4 DEF PowerLoss
    <3>5. CASE CommitWrites \/ \E o \in Outcome, state \in {"recording", "failed"} : WriteSession(o, state)
      BY <1>t, <3>1, <3>2, <3>5 DEF CommitWrites, WriteSession
    <3>6. CASE \E o \in Outcome : WriteManifest(o) BY <3>2, <3>6 DEF WriteManifest
    <3>7. CASE \E done \in SUBSET interrupted : \E told \in SUBSET done : MarkInterrupted(done, told)
      BY <3>2, <3>7 DEF MarkInterrupted, interrupted
    <3> QED BY <1>2, <3>3, <3>4, <3>5, <3>6, <3>7, CardSources DEF CardFlow
  <2> QED BY <2>2 DEF Fresh
<1> QED BY <1>1, <1>2

(* The manifest in memory names what the capture has saved, and both       *)
(* manifests on the card follow it, also when the power goes.              *)
Files ==
  Alive =>
    /\ files = (capBase + 1) .. (IF pc \in {"copyMcap", "copyStat"} THEN capLast - 1 ELSE capLast)
    /\ pc \notin {"writeJson", "writeExport"} => exported[sess] = files /\ sdExported[sess] = files
    /\ moved => files # {}

LEMMA FilesStep ==
  ASSUME Ground, Lists, Line, Files, [Next]_vars
  PROVE  Files'
<1>t. /\ TypeInv /\ capBase \in 0 .. MaxSeg /\ capLast \in 0 .. MaxSeg /\ MaxSeg \in Nat /\ sess \in 0 .. MaxSess
      /\ exported \in [Sess -> SUBSET Seg] /\ sdExported \in [Sess -> SUBSET Seg]
      /\ Sess = 1 .. MaxSess /\ used \in 0 .. MaxSess /\ MaxSess \in Nat
      /\ baseLast \in 0 .. MaxSeg
  BY BoundsAssumption DEF Ground, TypeInv, TypeOK, CardTypeOK, CaptureTypeOK, HistoryTypeOK, BaselineTypeOK, Sess
<1>1. CASE UNCHANGED vars
  <2>1. UNCHANGED <<pc, cap, prod, quar, capBase, capLast, sess, files, exported, sdExported, moved>>
    BY <1>1 DEF vars, flowVars, ringVars, sdVars, capVars
  <2> QED BY <2>1 DEF Files, Alive, Known, Answering
<1>2. CASE Activate
  <2>1. /\ pc' = "mark" /\ files' = {} /\ moved' = FALSE /\ capBase' = baseLast /\ capLast' = baseLast
        /\ sess' = used + 1 /\ used < MaxSess /\ UNCHANGED <<exported, sdExported>>
    BY <1>2 DEF Activate, GoTo, sdVars
  <2>2. exported[used + 1] = {} /\ sdExported[used + 1] = {}
    <3>1. used + 1 \in Sess /\ used < used + 1 BY <1>t, <2>1
    <3> QED BY <3>1 DEF Lists
  <2>3. (baseLast + 1) .. baseLast = {} BY <1>t
  <2> QED BY <2>1, <2>2, <2>3 DEF Files
<1>3. CASE Next /\ ~Activate
  <2> SUFFICES ASSUME Alive' PROVE Files' BY DEF Files
  <2>1. Alive /\ LiveFlow
    <3>1. Alive BY <1>3, AliveBefore DEF Ground
    <3> QED BY <1>3, <3>1, LiveSources DEF Ground
  <2>2. /\ UNCHANGED <<capBase, sess>> /\ capBase <= capLast /\ sess \in Sess
        /\ Handling => cur = capLast /\ capBase < capLast
    BY <1>t, <2>1 DEF Line, LiveFlow, Ground, Control, Alive
  <2>3. /\ files = (capBase + 1) .. (IF pc \in {"copyMcap", "copyStat"} THEN capLast - 1 ELSE capLast)
        /\ pc \notin {"writeJson", "writeExport"} => exported[sess] = files /\ sdExported[sess] = files
        /\ moved => files # {}
    BY <2>1 DEF Files
  <2>4. CASE Recorder /\ UNCHANGED <<pc, ret, todo, capLast, files, exported, sdExported, finalizing, stopSeg, moved>>
    BY <2>2, <2>3, <2>4 DEF Files
  <2>5. CASE AcceptSegment /\ UNCHANGED <<ret, todo, files, exported, sdExported, finalizing, stopSeg, moved>>
    <3>1. cur = capLast + 1 BY <2>1, <2>5, AcceptIsNext
    <3>2. pc = "entry" /\ pc' = "copyMcap" /\ capLast' = capLast + 1
      BY <2>5, <3>1 DEF AcceptSegment, CleanEntry, RipeEntry, AtEntry, GoTo
    <3>3. capLast' - 1 = capLast BY <1>t, <3>2
    <3> QED BY <2>2, <2>3, <2>5, <3>2, <3>3 DEF Files
  <2>6. CASE LiveCopy
    <3>1. UNCHANGED <<capLast, moved>> /\ pc \in Carrying BY <2>6 DEF LiveCopy, Carrying
    <3>2. cur = capLast /\ capBase < capLast BY <2>2, <3>1 DEF Handling
    <3>3. CASE pc = "copyStat"
      <4>1. pc' = "writeJson" /\ files' = files \cup {capLast} BY <2>6, <3>2, <3>3 DEF LiveCopy
      <4>2. files' = (capBase + 1) .. capLast BY <1>t, <2>3, <3>2, <3>3, <4>1
      <4>3. capLast \in files' BY <4>1
      <4> QED BY <2>2, <3>1, <4>1, <4>2, <4>3 DEF Files
    <3>4. CASE pc = "writeExport"
      <4>1. /\ pc' = "retireMcap" /\ UNCHANGED files
            /\ exported' = [exported EXCEPT ![sess] = files]
            /\ sdExported' = [sdExported EXCEPT ![sess] = files]
        BY <2>6, <3>4 DEF LiveCopy
      <4>2. exported'[sess] = files /\ sdExported'[sess] = files BY <1>t, <2>2, <4>1
      <4> QED BY <2>2, <2>3, <3>1, <3>4, <4>1, <4>2 DEF Files
    <3>5. CASE pc \in {"copyMcap", "writeJson"}
      <4>1. /\ UNCHANGED <<files, exported, sdExported>>
            /\ \/ pc = "copyMcap" /\ pc' = "copyStat"
               \/ pc = "writeJson" /\ pc' = "writeExport"
        BY <2>6, <3>5 DEF LiveCopy
      <4> QED BY <2>2, <2>3, <3>1, <4>1 DEF Files
    <3> QED BY <3>1, <3>3, <3>4, <3>5 DEF Carrying
  <2>7. CASE LiveRetire
    <3>1. /\ UNCHANGED <<capLast, files, exported, sdExported>> /\ pc \in {"retireMcap", "retireStat"}
          /\ pc' \in {"retireStat", "passEnd"}
      BY <2>7 DEF LiveRetire
    <3>2. capBase < capLast BY <2>2, <3>1 DEF Handling, Retiring
    <3>3. capLast \in files BY <1>t, <2>3, <3>1, <3>2
    <3> QED BY <2>2, <2>3, <3>1, <3>3 DEF Files
  <2>8. CASE LiveElsewhere
    <3>1. ~Handling /\ ~Handling' /\ UNCHANGED <<capLast, files>> BY <2>8 DEF LiveElsewhere
    <3>2. exported'[sess] = files /\ sdExported'[sess] = files
      BY <1>t, <2>2, <2>3, <2>8, <3>1 DEF LiveElsewhere, Handling, Carrying
    <3>3. moved' => moved BY <2>8 DEF LiveElsewhere, StopRequest, StopWait
    <3> QED BY <2>2, <2>3, <3>1, <3>2, <3>3 DEF Files, Handling, Carrying
  <2> QED BY <2>1, <2>4, <2>5, <2>6, <2>7, <2>8 DEF LiveFlow
<1> QED BY <1>1, <1>2, <1>3

(* The boundary of a stop is never passed over: when it is in the session, *)
(* it is the last segment saved.                                           *)
StopsAt ==
  Alive =>
    /\ \A i \in (capBase + 1) .. capLast :
         i \in ringMcap => i = capLast /\ pc \in Carrying \cup {"retireMcap"}
    /\ stopSeg # 0 => finalizing /\ (capLast <= stopSeg \/ stopSeg <= capBase)
    /\ StopPass => finalizing
    /\ Answering => files # {} /\ (stopSeg # 0 => stopSeg = capLast)

LEMMA StopSegment ==
  ASSUME TypeInv
  PROVE  find_stop_segment \in 0 .. MaxSeg /\ (find_stop_segment # 0 => find_stop_segment \in ringMcap)
<1>t. ringMcap \subseteq Seg /\ Seg \subseteq 0 .. MaxSeg /\ 0 \in 0 .. MaxSeg
  BY ZeroInRange DEF TypeInv, TypeOK, RingTypeOK
<1> QED BY <1>t, SegmentsAreFinite, MaxBelongs DEF find_stop_segment

LEMMA StopsAtStep ==
  ASSUME Ground, Line, Files, StopsAt, [Next]_vars
  PROVE  StopsAt'
<1>t. /\ TypeInv /\ capBase \in 0 .. MaxSeg /\ capLast \in 0 .. MaxSeg /\ MaxSeg \in Nat
      /\ stopSeg \in 0 .. MaxSeg /\ opened \in 0 .. MaxSeg /\ baseLast \in 0 .. MaxSeg /\ Seg = 1 .. MaxSeg
  BY BoundsAssumption DEF Ground, TypeInv, TypeOK, CaptureTypeOK, RingTypeOK, BaselineTypeOK, Seg
<1> USE DEF Carrying, Retiring, Handling, Committed
<1>1. CASE UNCHANGED vars
  <2>1. UNCHANGED <<pc, ret, cap, prod, quar, capBase, capLast, files, stopSeg, finalizing, ringMcap>>
    BY <1>1 DEF vars, flowVars, ringVars, capVars
  <2> QED BY <2>1 DEF StopsAt, Alive, Known, Answering, StopPass
<1>2. CASE Activate
  <2>1. pc' = "mark" /\ stopSeg' = 0 /\ capBase' = baseLast /\ capLast' = baseLast
    BY <1>2 DEF Activate, GoTo
  <2>2. (baseLast + 1) .. baseLast = {} BY <1>t
  <2> QED BY <2>1, <2>2 DEF StopsAt, StopPass, Answering
<1>3. CASE Next /\ ~Activate
  <2> SUFFICES ASSUME Alive' PROVE StopsAt' BY DEF StopsAt
  <2>1. Alive /\ LiveFlow
    <3>1. Alive BY <1>3, AliveBefore DEF Ground
    <3> QED BY <1>3, <3>1, LiveSources DEF Ground
  <2>2. UNCHANGED capBase /\ capBase <= capLast /\ (Handling => cur = capLast /\ capBase < capLast)
    BY <2>1 DEF Line, LiveFlow
  <2>3. /\ \A i \in (capBase + 1) .. capLast :
             i \in ringMcap => i = capLast /\ pc \in Carrying \cup {"retireMcap"}
        /\ stopSeg # 0 => finalizing /\ (capLast <= stopSeg \/ stopSeg <= capBase)
        /\ StopPass => finalizing
        /\ Answering => files # {} /\ (stopSeg # 0 => stopSeg = capLast)
    BY <2>1 DEF StopsAt
  <2>4. CASE Recorder /\ UNCHANGED <<pc, ret, todo, capLast, files, exported, sdExported, finalizing, stopSeg, moved>>
    <3>1. \A i \in (capBase + 1) .. capLast : i \in ringMcap' => i \in ringMcap
      <4>1. SUFFICES ASSUME NEW i \in (capBase + 1) .. capLast, i \in ringMcap' PROVE i \in ringMcap
        OBVIOUS
      <4>2. ringMcap' = ringMcap \/ ringMcap' = ringMcap \cup {opened + 1}
        BY <2>4 DEF Recorder, OpenSegment, RecorderExit, CloseSegment, CreateSidecar, PublishSidecar
      <4>3. capLast \in (capBase + 1) .. capLast /\ capLast \in Seg BY <1>t, <4>1
      <4>4. side[capLast] = "clean" BY <2>1, <4>3 DEF Line, Whole
      <4>5. capLast <= opened BY <4>3, <4>4 DEF Ground, Ring, Order
      <4> QED BY <1>t, <4>1, <4>2, <4>5
    <3> QED BY <2>2, <2>3, <2>4, <3>1 DEF StopsAt, StopPass, Answering
  <2>5. CASE /\ AcceptSegment /\ UNCHANGED <<recording, ring>>
             /\ UNCHANGED <<ret, todo, files, exported, sdExported, finalizing, stopSeg, moved>>
    <3>1. cur = capLast + 1 BY <2>1, <2>5, AcceptIsNext
    <3>2. /\ pc = "entry" /\ pc' = "copyMcap" /\ capLast' = capLast + 1
          /\ finalizing /\ stopSeg # 0 => cur <= stopSeg
      <4>1. /\ pc = "entry" /\ pc' = "copyMcap" /\ capLast' = cur /\ ~BeyondStop
        BY <2>5 DEF AcceptSegment, CleanEntry, RipeEntry, AtEntry, GoTo
      <4> QED BY <1>t, <3>1, <4>1 DEF BeyondStop
    <3>3. StopPass' => StopPass BY <2>5, <3>2 DEF StopPass
    <3>4. \A i \in (capBase + 1) .. capLast' : i \in ringMcap => i = capLast'
      <4>1. \A i \in (capBase + 1) .. (capLast + 1) : i = capLast + 1 \/ i \in (capBase + 1) .. capLast
        BY <1>t
      <4> QED BY <2>3, <3>2, <4>1
    <3>5. UNCHANGED ringMcap /\ ~Answering' BY <2>5, <3>2 DEF ring, Answering
    <3> QED BY <2>2, <2>3, <2>5, <3>1, <3>2, <3>3, <3>4, <3>5 DEF StopsAt
  <2>6. CASE LiveCopy /\ UNCHANGED <<recording, ring>>
    <3>1. /\ UNCHANGED <<ret, capLast, finalizing, stopSeg>> /\ pc \in Carrying
          /\ pc' \in Carrying \cup {"retireMcap"}
      BY <2>6 DEF LiveCopy
    <3>2. UNCHANGED ringMcap /\ ~Answering' /\ (StopPass' => StopPass)
      BY <2>6, <3>1 DEF ring, Answering, StopPass
    <3> QED BY <2>2, <2>3, <3>1, <3>2 DEF StopsAt
  <2>7. CASE LiveRetire
    <3>1. /\ UNCHANGED <<ret, capLast, finalizing, stopSeg>> /\ pc \in Retiring
          /\ pc' \in {"retireStat", "passEnd"}
      BY <2>7 DEF LiveRetire
    <3>2. ~Answering' /\ (StopPass' => StopPass) BY <3>1 DEF Answering, StopPass
    <3>3. \A i \in (capBase + 1) .. capLast : i \notin ringMcap'
      <4>1. cur = capLast BY <2>2, <3>1
      <4>2. CASE pc = "retireMcap"
        <5>1. ringMcap' = ringMcap \ {capLast} BY <2>7, <4>1, <4>2 DEF LiveRetire
        <5> QED BY <2>3, <5>1
      <4>3. CASE pc = "retireStat"
        <5>1. UNCHANGED ringMcap BY <2>7, <4>3 DEF LiveRetire
        <5> QED BY <2>3, <4>3, <5>1
      <4> QED BY <3>1, <4>2, <4>3
    <3> QED BY <2>2, <2>3, <3>1, <3>2, <3>3 DEF StopsAt
  <2>8. CASE LiveElsewhere /\ UNCHANGED <<recording, ring>>
    <3>1. ~Handling /\ ~Handling' /\ UNCHANGED <<capLast, files, ringMcap>> BY <2>8 DEF LiveElsewhere, ring
    <3>2. \A i \in (capBase + 1) .. capLast : i \notin ringMcap BY <2>3, <3>1
    <3>3. CASE StopRequest \/ StopWait
      <4>1. finalizing' /\ (stopSeg' = stopSeg \/ stopSeg' = find_stop_segment)
        BY <2>3, <3>3 DEF StopRequest, StopWait, Draining, LateBoundary, StopPass
      <4>2. ~Answering' BY <3>3 DEF StopRequest, StopWait, Pass, StartPass, Answering
      <4>3. PICK b \in 0 .. MaxSeg : b = find_stop_segment BY <1>t, StopSegment
      <4>4. b # 0 => capLast <= b \/ b <= capBase
        <5>1. b # 0 => b \in ringMcap BY <1>t, <4>3, StopSegment
        <5>2. b # 0 => b \notin (capBase + 1) .. capLast BY <3>2, <5>1
        <5> QED BY <1>t, <5>2
      <4> QED BY <2>2, <2>3, <3>1, <3>2, <4>1, <4>2, <4>3, <4>4 DEF StopsAt
    <3>4. CASE ~(StopRequest \/ StopWait)
      <4>1. UNCHANGED <<finalizing, stopSeg, moved>> /\ (StopPass' => StopPass)
            /\ (Answering' => Answering \/ StopSaved)
        BY <2>8, <3>4 DEF LiveElsewhere
      <4>2. CASE StopSaved
        <5>1. pc = "stopCheck" /\ (IF stopSeg # 0 THEN stopSeg \in files ELSE moved)
          BY <4>2 DEF StopSaved, Draining, BoundarySaved
        <5>2. files = (capBase + 1) .. capLast /\ (moved => files # {}) BY <2>1, <5>1 DEF Files
        <5>3. files # {} /\ (stopSeg # 0 => stopSeg = capLast)
          BY <1>t, <2>3, <5>1, <5>2
        <5> QED BY <2>2, <2>3, <3>1, <3>2, <4>1, <5>3 DEF StopsAt
      <4>3. CASE ~StopSaved
        BY <2>2, <2>3, <3>1, <3>2, <4>1, <4>3 DEF StopsAt
      <4> QED BY <4>2, <4>3
    <3> QED BY <3>3, <3>4
  <2> QED BY <2>1, <2>4, <2>5, <2>6, <2>7, <2>8 DEF LiveFlow
<1> QED BY <1>1, <1>2, <1>3

(* The list is the run of segments a session s is meant to hold. *)
Holds(s, list) ==
  /\ from[s] # 0 => side[from[s]] \in Terminal
  /\ \E l \in Seg : /\ from[s] < l /\ list = (from[s] + 1) .. l
                    /\ Whole(from[s], l) /\ Rising(from[s], l)

(* Once session.json of the capture says "complete", in the file or in     *)
(* what a power loss leaves of it, the manifest in memory stays as it is   *)
(* and nothing but the end of the stop, or its failure, is still to come.  *)
Held ==
  cap # "idle" =>
    /\ disk[sess] = "complete" => listed[sess] = files
    /\ sdState[sess] = "complete" => sdListed[sess] = files
    /\ disk[sess] = "complete" \/ sdState[sess] = "complete" => cap = "failed" \/ pc \in Committed

(* A session that is complete on the card is whole, and so is one that a   *)
(* power loss would leave complete.                                        *)
DoneOnCard(s) ==
  disk[s] = "complete" =>
    /\ Holds(s, listed[s])
    /\ exported[s] = listed[s] \/ (exported[s] = {} /\ powers > 0 /\ s \notin acked)
    /\ sess = s /\ stopSeg # 0 => listed[s] = (from[s] + 1) .. stopSeg

DoneAfterPowerLoss(s) ==
  sdState[s] = "complete" =>
    /\ Holds(s, sdListed[s])
    /\ sdExported[s] = sdListed[s] \/ (sdExported[s] = {} /\ s \notin acked)

Done == \A s \in Sess : DoneOnCard(s) /\ DoneAfterPowerLoss(s)

LEMMA CommittedNext ==
  ASSUME Next, pc \in Committed
  PROVE  CommitExport \/ ClearMark \/ Recorder \/ Crash \/ PowerLoss
<1> USE DEF Committed
<1>1. ~(Quarantining \/ ProcessEntry \/ MoveSegment \/ EndPass \/ Loop \/ BeginCapture \/ Boot)
  BY DEF Quarantining, PersistQuarantine, FailState, ProcessEntry, EndEntries, PendingEntry,
       StalePending, SettlingEntry, AcceptSegment, RejectSegment, SkipForFailedCapture,
       ObserveSteady, ObserveUnsteady, InvalidateBaseline, DiscardResidue, QuarantineSuspect,
       SkipSuspect, AtEntry, RipeEntry, CleanEntry, IntegrityEntry, Suspect, MoveSegment, CopyMcap,
       CopyStat, WriteJson, WriteExport, RetireMcap, RetireStat, EndPass, PassQuiet,
       StaleOpen, StalledRecorder, Loop, LoopPass, SuperviseQuiet, SuperviseLoss, NoRequest,
       BeginCapture, StartRequest, AlignBase, AlignAgain, AlignRefused, AlignTimeout, Aligned,
       RefuseUnfinished, Activate, WriteMark, OpenSession, UndoStart, Boot,
       LoadQuarantine, RecoverActive, NothingToRecover, RecoverSessions, BootAdopt,
       BootQuarantined, BootDone, BootStartRecorder, BootWithoutRecorder
<1>2. FinalizeCapture => CommitExport \/ ClearMark
  BY DEF FinalizeCapture, StopFailedCapture, StopRequest, StopInterrupted, StopRecorderGone, StopSaved,
       StopWait, StopTimeout, StopFail, CommitSession, Draining
<1> QED BY <1>1, <1>2 DEF Next, Service

(* The steps that touch the stop boundary and what the session is. *)
DoneFlow ==
  /\ StopRequest \/ StopWait \/ StopTimeout \/ Activate \/ reset_capture \/ UNCHANGED stopSeg
  /\ Activate \/ cap' = "idle" \/ UNCHANGED sess
  /\ cap = "failed" => cap' \in {"failed", "idle"}

LEMMA DoneSources ==
  ASSUME TypeInv, Phases, Next
  PROVE  DoneFlow
<1> USE DEF DoneFlow, capVars, capRest
<1>1. StopRequest \/ StopWait \/ StopTimeout \/ Activate \/ reset_capture \/ UNCHANGED stopSeg
  <2>1. CASE Recorder \/ Quarantining
    BY <2>1 DEF Recorder, OpenSegment, RecorderExit, CloseSegment, CreateSidecar, PublishSidecar, notRing,
         Quarantining, PersistQuarantine, FailState
  <2>2. CASE ProcessEntry
    BY <2>2 DEF ProcessEntry, EndEntries, PendingEntry, StalePending, SettlingEntry, AcceptSegment,
         RejectSegment, SkipForFailedCapture, ObserveSteady, ObserveUnsteady, InvalidateBaseline,
         DiscardResidue, QuarantineSuspect, SkipSuspect
  <2>3. CASE MoveSegment
    BY <2>3 DEF MoveSegment, CopyMcap, CopyStat, WriteJson, WriteExport, CopyNext, CopyFailed, RetireMcap,
         RetireStat, Retired, RetireFailed
  <2>4. CASE EndPass \/ Loop
    BY <2>4 DEF EndPass, PassQuiet, StaleOpen, StalledRecorder, Loop, LoopPass, SuperviseQuiet,
         SuperviseLoss, NoRequest
  <2>5. CASE BeginCapture
    BY <2>5 DEF BeginCapture, StartRequest, AlignBase, AlignAgain, AlignRefused, AlignTimeout, Aligned,
         RefuseUnfinished, WriteMark, OpenSession, UndoStart
  <2>6. CASE FinalizeCapture
    BY <2>6 DEF FinalizeCapture, StopFailedCapture, StopInterrupted, StopRecorderGone, StopSaved, StopFail,
         CommitSession, CommitExport, ClearMark, CommitNext, CommitFailed
  <2>7. CASE Boot
    BY <2>7 DEF Boot, LoadQuarantine, RecoverActive, NothingToRecover, RecoverSessions, BootAdopt,
         BootQuarantined, BootDone, BootStartRecorder, BootWithoutRecorder, bootVars
  <2>8. CASE Crash \/ PowerLoss BY <2>8 DEF Crash, PowerLoss, ServiceRestarts
  <2> QED BY <2>1, <2>2, <2>3, <2>4, <2>5, <2>6, <2>7, <2>8 DEF Next, Service
<1>2. (Activate \/ cap' = "idle" \/ UNCHANGED sess) BY StartSources DEF StartFlow
<1>3. cap = "failed" => cap' \in {"failed", "idle"}
  <2>1. CASE LeavesSessions BY <2>1 DEF LeavesSessions
  <2>2. CASE OnSessions
    BY <2>2 DEF OnSessions, FailState, WriteJson, CopyNext, CopyFailed, FailCaptureThen, RecoverSessions,
         Crash, PowerLoss, ServiceRestarts, Activate, OpenSession, UndoStart, reset_capture, StopFail,
         CommitSession, CommitExport, CommitNext, CommitFailed, ClearMark, bootVars, Phases, Requesting
  <2> QED BY <2>1, <2>2, SessionEffect
<1> QED BY <1>1, <1>2, <1>3

(* Only a new capture takes a session, and only the last step of a commit  *)
(* answers a stop; every other step keeps the session or lets go of it.    *)
LifeFlow ==
  \/ Activate
  \/ ClearMark /\ reset_capture /\ UNCHANGED <<disk, sdState, used>> /\ acked' = acked \cup {sess}
  \/ UNCHANGED <<used, acked>> /\ sess' \in {sess, 0}

LEMMA LifeSources ==
  ASSUME TypeInv, Next
  PROVE  LifeFlow
<1> USE DEF LifeFlow
<1>1. CASE LeavesSessions BY <1>1 DEF LeavesSessions
<1>2. CASE FailState \/ WriteJson \/ RecoverSessions \/ OpenSession
  BY <1>2 DEF FailState, WriteJson, RecoverSessions, OpenSession, CopyNext, CopyFailed, FailCaptureThen,
       capRest, bootVars, capVars, histVars
<1>3. CASE Crash \/ PowerLoss \/ UndoStart \/ StopFail
  BY <1>3 DEF Crash, PowerLoss, ServiceRestarts, UndoStart, StopFail, reset_capture, histVars
<1>4. CASE CommitSession \/ CommitExport
  BY <1>4 DEF CommitSession, CommitExport, CommitNext, CommitFailed, capRest, capVars, histVars
<1>5. CASE ClearMark
  BY <1>5 DEF ClearMark, CommitFailed, capRest, sdVars, Told
<1> QED BY <1>1, <1>2, <1>3, <1>4, <1>5, SessionEffect DEF OnSessions

(* A run of segments that was whole stays whole. *)
LEMMA HoldsStays ==
  ASSUME TypeInv, Next, NEW s \in Sess, NEW list, Holds(s, list), from'[s] = from[s]
  PROVE  Holds(s, list)'
<1>t. MaxSeg \in Nat /\ Seg = 1 .. MaxSeg /\ from \in [Sess -> 0 .. MaxSeg]
  BY BoundsAssumption DEF Seg, TypeInv, TypeOK, HistoryTypeOK
<1>1. PICK f \in 0 .. MaxSeg : f = from[s] BY <1>t
<1>2. PICK l \in Seg : f < l /\ list = (f + 1) .. l /\ Whole(f, l) /\ Rising(f, l)
  BY <1>1 DEF Holds
<1>3. f # 0 => side[f] \in Terminal BY <1>1 DEF Holds
<1>4. Whole(f, l)' /\ Rising(f, l)' BY <1>t, <1>2, <1>3, WholeStays
<1>5. f # 0 => side'[f] \in Terminal
  <2>1. f # 0 => f \in Seg BY <1>t
  <2> QED BY <1>3, <2>1, TerminalStays
<1>6. from'[s] = f BY <1>1
<1>7. Whole(from[s], l)' /\ Rising(from[s], l)' BY <1>4, <1>6 DEF Whole, Rising
<1> QED BY <1>2, <1>5, <1>6, <1>7 DEF Holds

(* What a stop that is about to be committed has saved is whole. *)
LEMMA CommitHolds ==
  ASSUME Ground, Line, Files, StopsAt, pc = "commit"
  PROVE  /\ sess \in Sess /\ cap = "live" /\ Holds(sess, files)
         /\ exported[sess] = files /\ sdExported[sess] = files
         /\ stopSeg # 0 => files = (from[sess] + 1) .. stopSeg
<1>t. /\ sess \in 0 .. MaxSess /\ MaxSess \in Nat /\ Sess = 1 .. MaxSess
      /\ Seg = 1 .. MaxSeg /\ MaxSeg \in Nat /\ capLast \in 0 .. MaxSeg /\ capBase \in 0 .. MaxSeg
  BY BoundsAssumption DEF Ground, TypeInv, TypeOK, CaptureTypeOK, Sess, Seg
<1>1. cap = "live" /\ sess \in Sess BY <1>t DEF Ground, Control, Writing
<1>2. Alive /\ ~Handling /\ Answering
  BY <1>1 DEF Alive, Answering, Handling, Carrying, Retiring
<1>3. /\ capBase = from[sess] /\ capBase <= capLast
      /\ capBase # 0 => side[capBase] \in Terminal
      /\ Whole(capBase, capLast) /\ Rising(capBase, capLast)
  BY <1>2 DEF Line
<1>4. files = (capBase + 1) .. capLast /\ exported[sess] = files /\ sdExported[sess] = files
  BY <1>2 DEF Files
<1>5. files # {} /\ (stopSeg # 0 => stopSeg = capLast) BY <1>2 DEF StopsAt
<1>6. capBase < capLast /\ capLast \in Seg BY <1>t, <1>3, <1>4, <1>5
<1>7. Holds(sess, files) BY <1>3, <1>4, <1>6 DEF Holds
<1> QED BY <1>1, <1>3, <1>4, <1>5, <1>7

(* A step after which a session of a capture is complete on the card is no *)
(* start, restart or reset.                                                *)
LEMMA CompleteIsKept ==
  ASSUME TypeInv, Control, Sessions, Phases, Fresh, Next, cap' # "idle",
         disk'[sess'] = "complete" \/ sdState'[sess'] = "complete"
  PROVE  /\ sess' = sess /\ sess \in Sess /\ cap # "idle"
         /\ ~Activate /\ ~reset_capture /\ ~Crash /\ ~PowerLoss
<1>t. /\ used \in 0 .. MaxSess /\ MaxSess \in Nat /\ Sess = 1 .. MaxSess /\ sess \in 0 .. MaxSess
  BY BoundsAssumption DEF TypeInv, TypeOK, HistoryTypeOK, CaptureTypeOK, Sess
<1>1. ~Activate
  <2>1. ASSUME Activate PROVE FALSE
    <3>1. used + 1 \in Sess /\ used < used + 1 /\ sess' = used + 1 /\ UNCHANGED <<disk, sdState>>
      BY <1>t, <2>1 DEF Activate, sdVars
    <3>2. disk[used + 1] = "none" /\ sdState[used + 1] = "none" BY <3>1 DEF Fresh
    <3> QED BY <3>1, <3>2
  <2> QED BY <2>1
<1>2. ~reset_capture /\ ~Crash /\ ~PowerLoss BY DEF reset_capture, Crash, PowerLoss, ServiceRestarts
<1>3. cap # "idle" BY <1>1, StartSources DEF StartFlow
<1>4. sess' = sess BY <1>1, DoneSources DEF DoneFlow
<1> QED BY <1>t, <1>1, <1>2, <1>3, <1>4 DEF Control

LEMMA HeldStep ==
  ASSUME Ground, Lists, Fresh, Held, [Next]_vars
  PROVE  Held'
<1>t. TypeInv /\ Control /\ Sessions /\ Phases BY DEF Ground
<1>1. CASE UNCHANGED vars
  <2>1. UNCHANGED <<disk, listed, sdState, sdListed, sess, cap, files, pc>>
    BY <1>1 DEF vars, sdVars, capVars, flowVars
  <2> QED BY <2>1 DEF Held
<1>2. CASE Next
  <2> SUFFICES ASSUME cap' # "idle", disk'[sess'] = "complete" \/ sdState'[sess'] = "complete"
               PROVE  /\ disk'[sess'] = "complete" => listed'[sess'] = files'
                      /\ sdState'[sess'] = "complete" => sdListed'[sess'] = files'
                      /\ cap' = "failed" \/ pc' \in Committed
    BY DEF Held
  <2>1. /\ sess' = sess /\ sess \in Sess /\ cap # "idle"
        /\ ~Activate /\ ~reset_capture /\ ~Crash /\ ~PowerLoss
    BY <1>t, <1>2, CompleteIsKept
  <2>2. PICK s \in Sess : s = sess BY <2>1
  <2>3. CardEffect(s) BY <1>t, <1>2, <2>1, CardStep
  <2>4. CASE CommitWrites
    <3>1. PICK o \in Outcome : IF Told(o) THEN CommitNext("commitExport") ELSE CommitFailed
      BY <2>1, <2>4 DEF CommitWrites, CommitSession
    <3>2. UNCHANGED files /\ (cap' = "failed" \/ pc' \in Committed)
      BY <3>1 DEF CommitNext, CommitFailed, FailCaptureThen, GoTo, capRest, capVars, Committed
    <3>3. cap = "live" /\ pc \notin Committed BY <1>t, <2>4 DEF CommitWrites, Control, Writing, Committed
    <3>4. disk[s] # "complete" /\ sdState[s] # "complete" BY <2>1, <2>2, <3>3 DEF Held
    <3> QED BY <2>1, <2>2, <2>3, <3>2, <3>4 DEF CardEffect
  <2>5. CASE ~CommitWrites
    <3>1. /\ disk'[s] = "complete" => disk[s] = "complete" /\ listed'[s] = listed[s]
          /\ sdState'[s] = "complete" => sdState[s] = "complete" /\ sdListed'[s] = sdListed[s]
      BY <2>3, <2>5 DEF CardEffect
    <3>2. /\ disk[s] = "complete" => listed[s] = files
          /\ sdState[s] = "complete" => sdListed[s] = files
          /\ cap = "failed" \/ pc \in Committed
      BY <2>1, <2>2, <3>1 DEF Held
    <3>3. ~CopyStat
      <4>1. CopyStat => cap = "live" /\ pc \notin Committed
        BY <1>t DEF CopyStat, Control, Carrying, Committed
      <4> QED BY <3>2, <4>1
    <3>4. UNCHANGED files BY <1>2, <1>t, <2>1, <3>3, ListSources DEF ListFlow
    <3>5. cap' = "failed" \/ pc' \in Committed
      <4>1. CASE cap = "failed" BY <1>2, <1>t, <4>1, DoneSources DEF DoneFlow
      <4>2. CASE pc \in Committed
        <5>1. CASE CommitExport
          BY <5>1 DEF CommitExport, CommitNext, CommitFailed, FailCaptureThen, GoTo, Committed
        <5>2. CASE ClearMark BY <2>1, <5>2 DEF ClearMark, CommitFailed, FailCaptureThen
        <5>3. CASE Recorder
          BY <4>2, <5>3 DEF Recorder, OpenSegment, RecorderExit, CloseSegment, CreateSidecar,
               PublishSidecar, notRing, flowVars
        <5> QED BY <1>2, <2>1, <4>2, <5>1, <5>2, <5>3, CommittedNext
      <4> QED BY <3>2, <4>1, <4>2
    <3> QED BY <2>1, <2>2, <3>1, <3>2, <3>4, <3>5
  <2> QED BY <2>4, <2>5
<1> QED BY <1>1, <1>2

(* A session that is complete keeps its boundary, and its list when it is  *)
(* being recorded.                                                         *)
LEMMA BoundaryOfComplete ==
  ASSUME TypeInv, Control, Next, Fresh, NEW s \in Sess, disk[s] = "complete" \/ sdState[s] = "complete"
  PROVE  from'[s] = from[s]
<1>t. /\ used \in 0 .. MaxSess /\ MaxSess \in Nat /\ Sess = 1 .. MaxSess /\ from \in [Sess -> 0 .. MaxSeg]
  BY BoundsAssumption DEF TypeInv, TypeOK, HistoryTypeOK, Sess
<1>1. CASE Activate
  <2>1. s # used + 1 BY <1>t DEF Fresh
  <2> QED BY <1>t, <1>1, <2>1 DEF Activate
<1>2. CASE ~Activate BY <1>2, ListSources DEF ListFlow
<1> QED BY <1>1, <1>2

(* When a stop is answered, both manifests hold what memory holds. *)
LEMMA AckedBecomes ==
  ASSUME Ground, Files, Next, NEW s \in Sess, s \in acked', s \notin acked
  PROVE  /\ ClearMark /\ s = sess /\ cap = "live" /\ UNCHANGED sdVars
         /\ exported[s] = files /\ sdExported[s] = files
<1>t. TypeInv /\ Control BY DEF Ground
<1>1. ~Activate BY DEF Activate
<1>2. ClearMark /\ s = sess BY <1>1, <1>t, LifeSources DEF LifeFlow
<1>3. pc = "clearMark" /\ cap = "live" /\ UNCHANGED sdVars
  BY <1>t, <1>2 DEF ClearMark, Control, Writing
<1>4. Alive BY <1>3 DEF Alive, Answering, Committed
<1> QED BY <1>2, <1>3, <1>4 DEF Files

LEMMA DoneOnCardStep ==
  ASSUME Ground, Line, Fresh, Files, StopsAt, Held, Done, Next, NEW s \in Sess
  PROVE  DoneOnCard(s)'
<1>t. /\ TypeInv /\ Control /\ Sessions /\ Phases /\ powers \in Nat /\ powers' \in Nat
      /\ from \in [Sess -> 0 .. MaxSeg] /\ s # 0 /\ MaxSess \in Nat
  <2>1. TypeInv /\ TypeInv' BY TypeStep DEF Ground
  <2>2. BudgetTypeOK /\ BudgetTypeOK' BY <2>1 DEF TypeInv, TypeOK
  <2>3. powers \in Nat /\ powers' \in Nat BY <2>2, BoundsAssumption DEF BudgetTypeOK
  <2>4. HistoryTypeOK BY <2>1 DEF TypeInv, TypeOK
  <2>5. from \in [Sess -> 0 .. MaxSeg] /\ s # 0 /\ MaxSess \in Nat
    BY <2>4, BoundsAssumption DEF HistoryTypeOK, Sess
  <2> QED BY <2>1, <2>3, <2>5 DEF Ground
<1> SUFFICES ASSUME disk'[s] = "complete"
             PROVE  /\ Holds(s, listed[s])'
                    /\ \/ exported'[s] = listed'[s]
                       \/ exported'[s] = {} /\ powers' > 0 /\ s \notin acked'
                    /\ sess' = s /\ stopSeg' # 0 => listed'[s] = (from'[s] + 1) .. stopSeg'
  BY DEF DoneOnCard
<1>1. CASE PowerLoss
  <2>1. /\ sdState[s] = "complete" /\ listed'[s] = sdListed[s] /\ exported'[s] = sdExported[s]
        /\ from'[s] = from[s] /\ acked' = acked /\ powers' > 0 /\ sess' = 0
    BY <1>t, <1>1 DEF PowerLoss, histVars, ServiceRestarts, reset_capture
  <2>2. /\ Holds(s, sdListed[s])
        /\ sdExported[s] = sdListed[s] \/ (sdExported[s] = {} /\ s \notin acked)
    BY <2>1 DEF Done, DoneAfterPowerLoss
  <2>3. PICK list : list = sdListed[s] OBVIOUS
  <2>4. Holds(s, list)' BY <1>t, <2>1, <2>2, <2>3, HoldsStays
  <2>5. Holds(s, listed[s])' BY <2>1, <2>3, <2>4
  <2> QED BY <1>t, <2>1, <2>2, <2>5
<1>2. CASE ~PowerLoss /\ CommitWrites /\ s = sess /\ listed'[s] = files
  <2>1. /\ Holds(s, files) /\ exported[s] = files /\ cap = "live"
        /\ stopSeg # 0 => files = (from[s] + 1) .. stopSeg
    BY <1>2, CommitHolds DEF CommitWrites
  <2>2. UNCHANGED from BY <1>2 DEF CommitWrites, CommitSession, Crash, histVars
  <2>3. PICK list : list = files OBVIOUS
  <2>4. Holds(s, list)' BY <1>t, <2>1, <2>2, <2>3, HoldsStays
  <2>5. Holds(s, listed[s])' BY <1>2, <2>3, <2>4
  <2>6. exported'[s] = files BY <1>2, <1>t, <2>1, CardStep DEF CardEffect
  <2>7. sess' = s => UNCHANGED stopSeg
    <3>1. CommitSession \/ Crash BY <1>2 DEF CommitWrites
    <3>2. CASE Crash BY <1>t, <3>2 DEF Crash, ServiceRestarts, reset_capture
    <3>3. CASE CommitSession
      BY <3>3 DEF CommitSession, CommitNext, CommitFailed, capRest, capVars
    <3> QED BY <3>1, <3>2, <3>3
  <2> QED BY <1>2, <2>1, <2>2, <2>5, <2>6, <2>7
<1>3. CASE ~PowerLoss /\ disk[s] = "complete" /\ listed'[s] = listed[s]
  <2>1. /\ Holds(s, listed[s])
        /\ exported[s] = listed[s] \/ (exported[s] = {} /\ powers > 0 /\ s \notin acked)
        /\ sess = s /\ stopSeg # 0 => listed[s] = (from[s] + 1) .. stopSeg
    BY <1>3 DEF Done, DoneOnCard
  <2>2. from'[s] = from[s] BY <1>t, <1>3, BoundaryOfComplete
  <2>3. PICK list : list = listed[s] OBVIOUS
  <2>4. Holds(s, list)' BY <1>t, <2>1, <2>2, <2>3, HoldsStays
  <2>5. Holds(s, listed[s])' BY <1>3, <2>3, <2>4
  <2>6. s = sess => files = listed[s]
    <3>1. s = sess => cap # "idle" BY <1>t DEF Sessions
    <3> QED BY <1>3, <3>1 DEF Held
  <2>7. exported'[s] = exported[s] \/ exported'[s] = listed[s]
    BY <1>3, <1>t, <2>6, CardStep DEF CardEffect
  <2>8. \/ exported'[s] = listed'[s]
        \/ exported'[s] = {} /\ powers' > 0 /\ s \notin acked'
    <3>1. powers > 0 => powers' > 0
      <4>1. powers' = 0 => powers = 0 BY <1>t, PoweredBefore DEF Powered
      <4> QED BY <1>t, <4>1
    <3>2. CASE s \in acked' /\ s \notin acked
      <4>1. s = sess /\ UNCHANGED sdVars /\ exported[s] = files BY <3>2, AckedBecomes
      <4> QED BY <2>6, <4>1 DEF sdVars
    <3>3. CASE ~(s \in acked' /\ s \notin acked) BY <1>3, <2>1, <2>7, <3>1, <3>3
    <3> QED BY <3>2, <3>3
  <2>9. ASSUME sess' = s, stopSeg' # 0 PROVE listed'[s] = (from'[s] + 1) .. stopSeg'
    <3>1. cap' # "idle"
      <4>1. Sessions' BY <1>t, SessionsStep
      <4> QED BY <1>t, <2>9, <4>1 DEF Sessions
    <3>2. sess = s /\ cap # "idle" /\ ~Activate /\ ~reset_capture
      BY <1>t, <2>9, <3>1, CompleteIsKept
    <3>3. cap = "failed" \/ pc \in Committed BY <1>3, <3>2 DEF Held
    <3>4. ~StopRequest /\ ~StopWait /\ ~StopTimeout
      BY <3>3 DEF StopRequest, StopWait, StopTimeout, Draining, Committed
    <3>5. UNCHANGED stopSeg BY <1>t, <3>2, <3>4, DoneSources DEF DoneFlow
    <3> QED BY <1>3, <2>1, <2>2, <2>9, <3>2, <3>5
  <2> QED BY <2>5, <2>8, <2>9
<1> QED BY <1>1, <1>2, <1>3, <1>t, CardStep DEF CardEffect

LEMMA DoneAfterPowerLossStep ==
  ASSUME Ground, Line, Fresh, Files, StopsAt, Held, Done, Next, NEW s \in Sess
  PROVE  DoneAfterPowerLoss(s)'
<1>t. TypeInv /\ Control /\ Sessions /\ s # 0 BY DEF Ground, Sess
<1> SUFFICES ASSUME sdState'[s] = "complete"
             PROVE  /\ Holds(s, sdListed[s])'
                    /\ sdExported'[s] = sdListed'[s] \/ (sdExported'[s] = {} /\ s \notin acked')
  BY DEF DoneAfterPowerLoss
<1>1. CASE CommitWrites /\ ~PowerLoss /\ s = sess /\ sdListed'[s] = files
  <2>1. Holds(s, files) /\ sdExported[s] = files BY <1>1, CommitHolds DEF CommitWrites
  <2>2. UNCHANGED from BY <1>1 DEF CommitWrites, CommitSession, Crash, histVars
  <2>3. PICK list : list = files OBVIOUS
  <2>4. Holds(s, list)' BY <1>t, <2>1, <2>2, <2>3, HoldsStays
  <2>5. Holds(s, sdListed[s])' BY <1>1, <2>3, <2>4
  <2>6. UNCHANGED sdExported BY <1>1 DEF CommitWrites, WriteSession
  <2> QED BY <1>1, <2>1, <2>5, <2>6
<1>2. CASE sdState[s] = "complete" /\ sdListed'[s] = sdListed[s]
  <2>1. /\ Holds(s, sdListed[s])
        /\ sdExported[s] = sdListed[s] \/ (sdExported[s] = {} /\ s \notin acked)
    BY <1>2 DEF Done, DoneAfterPowerLoss
  <2>2. from'[s] = from[s] BY <1>t, <1>2, BoundaryOfComplete
  <2>3. PICK list : list = sdListed[s] OBVIOUS
  <2>4. Holds(s, list)' BY <1>t, <2>1, <2>2, <2>3, HoldsStays
  <2>5. Holds(s, sdListed[s])' BY <1>2, <2>3, <2>4
  <2>6. s = sess => files = sdListed[s]
    <3>1. s = sess => cap # "idle" BY <1>t DEF Sessions
    <3> QED BY <1>2, <3>1 DEF Held
  <2>7. sdExported'[s] = sdExported[s] \/ (s = sess /\ sdExported'[s] \in {sdListed[s], {}})
    <3>1. CASE PowerLoss BY <3>1 DEF PowerLoss
    <3>2. CASE ~PowerLoss BY <1>t, <2>6, <3>2, CardStep DEF CardEffect
    <3> QED BY <3>1, <3>2
  <2>8. CASE s \in acked' /\ s \notin acked
    <3>1. s = sess /\ UNCHANGED sdVars /\ sdExported[s] = files BY <2>8, AckedBecomes
    <3> QED BY <2>5, <2>6, <3>1 DEF sdVars
  <2>9. CASE ~(s \in acked' /\ s \notin acked)
    <3>1. s = sess => s \notin acked BY <1>t DEF Sessions
    <3> QED BY <1>2, <2>1, <2>5, <2>7, <2>9, <3>1
  <2> QED BY <2>8, <2>9
<1>3. CASE PowerLoss BY <1>2, <1>3 DEF PowerLoss
<1> QED BY <1>1, <1>2, <1>3, <1>t, CardStep DEF CardEffect

LEMMA DoneStep ==
  ASSUME Ground, Line, Fresh, Files, StopsAt, Held, Done, [Next]_vars
  PROVE  Done'
<1>1. CASE UNCHANGED vars
  <2>1. UNCHANGED <<disk, listed, exported, sdState, sdListed, sdExported, from, side, ctr, prog, sess,
                    stopSeg, acked, powers>>
    BY <1>1 DEF vars, sdVars, histVars, ringVars, capVars, budgets
  <2> QED BY <2>1 DEF Done, DoneOnCard, DoneAfterPowerLoss, Holds, Whole, Rising, counters, progress,
            integrity_counters_equal, integrity_progress_advanced
<1>2. CASE Next BY <1>2, DoneOnCardStep, DoneAfterPowerLossStep DEF Done
<1> QED BY <1>1, <1>2

LEMMA InitGround == Init => Ground /\ Settled /\ Start
<1> SUFFICES ASSUME Init PROVE Ground /\ Settled /\ Start OBVIOUS
<1>1. /\ pc = "boot" /\ ret = "supervise" /\ ringStat = {} /\ opened = 0 /\ born = 0 /\ reqOpened = 0
      /\ side = [i \in Seg |-> "absent"] /\ prod = "dead" /\ quar = FALSE /\ cap = "idle" /\ baseLast = 0
  BY DEF Init, ServiceStart
<1>2. Boots /\ Drained
  BY <1>1 DEF Boots, Drained, EarlyBoot, InPass, Carrying, Retiring
<1>3. Residue /\ SweptStat /\ Settled BY <1>1 DEF Residue, SweptStat, Settled, Seg
<1>4. Base /\ Start
  BY <1>1 DEF Base, Start, Known, Counting, FirstPass, AfterFirst, InPass, Carrying, Retiring
<1> QED BY <1>2, <1>3, <1>4, InitCustody DEF Ground, Custody, Marked

LEMMA GroundStep == Ground /\ [Next]_vars => Ground'
<1> SUFFICES ASSUME Ground, [Next]_vars PROVE Ground' OBVIOUS
<1>1. TypeInv' /\ Control' BY TypeStep DEF Ground
<1>2. Sessions' BY SessionsStep DEF Ground
<1>3. Stops' BY StopsStep DEF Ground
<1>4. Phases' BY PhasesStep DEF Ground
<1>5. Ring' BY RingStep DEF Ground
<1>6. Boundary' BY BoundaryStep DEF Ground
<1>7. Boots' BY BootsStep DEF Ground
<1>8. Drained' BY DrainedStep DEF Ground, Ring
<1>9. Residue' BY ResidueStep DEF Ground
<1>10. SweptStat' BY SweptStatStep DEF Ground, Ring
<1>11. Base' BY BaseStep DEF Ground
<1> QED BY <1>1, <1>2, <1>3, <1>4, <1>5, <1>6, <1>7, <1>8, <1>9, <1>10, <1>11 DEF Ground

(* When a segment opens only after the one before it is published, the     *)
(* first segment of a session is the one open when its start was           *)
(* requested, or a later one: what was recorded before the request is      *)
(* never part of the capture (begin_capture).                              *)
THEOREM SessionsStartAtBoundary ==
  ASSUME Overlap = FALSE
  PROVE  Spec => []StartsAtBoundary
<1>1. Init => Ground /\ Settled /\ Start BY InitGround
<1>2. Ground /\ Settled /\ Start /\ [Next]_vars => (Ground /\ Settled /\ Start)'
  <2>1. Ground /\ Settled /\ [Next]_vars => Settled' BY SettledStep DEF Ground
  <2>2. Ground /\ Settled /\ Start /\ [Next]_vars => Start' BY StartStep DEF Ground
  <2> QED BY <2>1, <2>2, GroundStep
<1>3. Ground /\ Start => StartsAtBoundary
  <2>1. SUFFICES ASSUME Ground, Start, cap # "idle" PROVE from[sess] >= reqOpened
    BY DEF StartsAtBoundary
  <2>2. sess \in Sess
    BY <2>1, BoundsAssumption DEF Ground, Control, TypeInv, TypeOK, CaptureTypeOK, Sess
  <2>3. from[sess] \in Int /\ reqOpened \in Int
    BY <2>1, <2>2 DEF Ground, TypeInv, TypeOK, HistoryTypeOK
  <2> QED BY <2>1, <2>3 DEF Start
<1> QED BY <1>1, <1>2, <1>3, PTL DEF Spec

(* Everything that is known of a capture on its way to the card. *)
Recording ==
  /\ Ground /\ Durable /\ Lists
  /\ Line /\ Fresh /\ Files /\ StopsAt /\ Held /\ Done

LEMMA InitRecording == Init => Recording
<1> SUFFICES ASSUME Init PROVE Recording OBVIOUS
<1>1. cap = "idle" /\ disk = [s \in Sess |-> "none"] /\ sdState = [s \in Sess |-> "none"]
  BY DEF Init, ServiceStart
<1>2. Line /\ Files /\ StopsAt BY <1>1 DEF Line, Files, StopsAt, Alive
<1>3. Fresh /\ Held /\ Done BY <1>1 DEF Fresh, Held, Done, DoneOnCard, DoneAfterPowerLoss
<1> QED BY <1>2, <1>3, InitGround, InitCustody DEF Recording, Custody

LEMMA RecordingStep == Recording /\ [Next]_vars => Recording'
<1> SUFFICES ASSUME Recording, [Next]_vars PROVE Recording' OBVIOUS
<1>1. Ground' BY GroundStep DEF Recording
<1>2. Durable' BY DurableStep DEF Recording, Ground
<1>3. Lists' BY ListsStep DEF Recording, Ground
<1>4. Line' BY LineStep DEF Recording
<1>5. Fresh' BY FreshStep DEF Recording, Ground
<1>6. Files' BY FilesStep DEF Recording
<1>7. StopsAt' BY StopsAtStep DEF Recording
<1>8. Held' BY HeldStep DEF Recording
<1>9. Done' BY DoneStep DEF Recording
<1> QED BY <1>1, <1>2, <1>3, <1>4, <1>5, <1>6, <1>7, <1>8, <1>9 DEF Recording

(* A session whose session.json says "complete" holds exactly the segments *)
(* from the one after its start boundary to the one open when its stop was *)
(* requested: every one clean, with the drop counters of the boundary and  *)
(* progress in each, whatever failed and however often the service or the  *)
(* power went away on the way.  Both manifests list them alike; only when  *)
(* the power went before the stop was answered may the export manifest be  *)
(* empty (begin_capture, process_closed_segments, finalize_capture).       *)
THEOREM CompleteSessionsAreWhole == Spec => []CompleteIsWhole
<1>1. Recording => CompleteIsWhole
  <2>1. SUFFICES ASSUME Recording, NEW s \in Sess, disk[s] = "complete"
                 PROVE  /\ listed[s] # {} /\ listed[s] = (from[s] + 1) .. Max(listed[s])
                        /\ \A i \in listed[s] : side[i] = "clean" /\ integrity_counters_equal(i, from[s])
                        /\ \A i, j \in {from[s]} \cup listed[s] :
                             i < j => integrity_progress_advanced(j, i)
                        /\ exported[s] = listed[s] \/ (exported[s] = {} /\ powers > 0 /\ s \notin acked)
                        /\ sess = s /\ stopSeg # 0 => stopSeg = Max(listed[s])
    BY DEF CompleteIsWhole
  <2>2. DoneOnCard(s) BY <2>1 DEF Recording, Done
  <2>3. PICK l \in Seg : /\ from[s] < l /\ listed[s] = (from[s] + 1) .. l
                         /\ Whole(from[s], l) /\ Rising(from[s], l)
    BY <2>1, <2>2 DEF DoneOnCard, Holds
  <2>4. PICK f \in 0 .. MaxSeg : f = from[s]
    BY <2>1 DEF Recording, Ground, TypeInv, TypeOK, HistoryTypeOK
  <2>5. /\ Seg = 1 .. MaxSeg /\ MaxSeg \in Nat /\ l \in listed[s] /\ listed[s] \subseteq Seg
        /\ \A i \in listed[s] : i <= l
    BY <2>3, <2>4, BoundsAssumption DEF Seg
  <2>6. Max(listed[s]) \in listed[s] /\ \A i \in listed[s] : i <= Max(listed[s])
    BY <2>5, SegmentsAreFinite, MaxBelongs
  <2>7. PICK m \in Seg : m = Max(listed[s]) BY <2>5, <2>6
  <2>8. m = l BY <2>5, <2>6, <2>7
  <2>9. {f} \cup listed[s] \subseteq f .. l
    <3>1. f < l /\ listed[s] = (f + 1) .. l /\ f \in Int /\ l \in Int BY <2>3, <2>4, <2>5
    <3> QED BY <3>1
  <2>10. exported[s] = listed[s] \/ (exported[s] = {} /\ powers > 0 /\ s \notin acked)
    BY <2>1, <2>2 DEF DoneOnCard
  <2>11. sess = s /\ stopSeg # 0 => stopSeg = l
    <3>1. stopSeg \in 0 .. MaxSeg BY <2>1 DEF Recording, Ground, TypeInv, TypeOK, CaptureTypeOK
    <3>2. sess = s /\ stopSeg # 0 => (f + 1) .. l = (f + 1) .. stopSeg
      BY <2>1, <2>2, <2>3, <2>4 DEF DoneOnCard
    <3>3. f < l /\ f \in Int /\ l \in Int /\ stopSeg \in Int BY <2>3, <2>4, <2>5, <3>1
    <3>4. ASSUME (f + 1) .. l = (f + 1) .. stopSeg PROVE stopSeg = l
      <4>1. l \in (f + 1) .. stopSeg BY <3>3, <3>4
      <4>2. stopSeg \in (f + 1) .. l BY <3>3, <3>4, <4>1
      <4> QED BY <3>3, <4>1, <4>2
    <3> QED BY <3>2, <3>4
  <2> QED BY <2>3, <2>4, <2>5, <2>7, <2>8, <2>9, <2>10, <2>11 DEF Whole, Rising
<1> QED BY <1>1, InitRecording, RecordingStep, PTL DEF Spec

-----------------------------------------------------------------------------
(* The engine implements CaptureLife.                                      *)

StatusMap == [s \in Sess |-> Status(s)]

(* A session that is over never becomes complete, and an answered one      *)
(* stays complete.                                                         *)
LEMMA OverStays ==
  ASSUME TypeInv, Control, Sessions, Next, UNCHANGED acked, NEW s \in Sess, s # sess
  PROVE  /\ IsComplete(s)' => IsComplete(s)
         /\ s \in acked => IsComplete(s) /\ IsComplete(s)'
<1>1. CASE s \in acked
  <2>1. Lasting(s) BY <1>1 DEF Sessions
  <2>2. Lasting(s)'
    <3>1. Sessions' BY SessionsStep
    <3> QED BY <1>1, <3>1 DEF Sessions
  <2> QED BY <1>1, <2>1, <2>2 DEF IsComplete, Lasting
<1>2. CASE s \notin acked /\ PowerLoss
  BY <1>2 DEF PowerLoss, IsComplete
<1>3. CASE s \notin acked /\ ~PowerLoss
  BY <1>3, CardStep DEF CardEffect, IsComplete
<1> QED BY <1>1, <1>2, <1>3

(* A capture begins when a start takes a session. *)
LEMMA ActivateBegins ==
  ASSUME TypeInv, Sessions, Phases, Activate
  PROVE  Life!Begin(used + 1)
<1>1. /\ used' = used + 1 /\ sess' = used + 1 /\ used < MaxSess /\ sess = 0
      /\ UNCHANGED <<disk, sdState, acked>>
  BY DEF Activate, sdVars, Sessions, Phases, Requesting
<1>2. /\ used \in 0 .. MaxSess /\ MaxSess \in Nat /\ Sess = 1 .. MaxSess
  BY BoundsAssumption DEF TypeInv, TypeOK, HistoryTypeOK, Sess
<1>3. PICK n \in Sess : n = used + 1 BY <1>1, <1>2
<1>4. \A s \in Sess \ {n} : Status(s)' = Status(s)
  <2> SUFFICES ASSUME NEW s \in Sess \ {n} PROVE Status(s)' = Status(s) OBVIOUS
  <2>1. (s > used' <=> s > used) /\ s # sess /\ s # sess' BY <1>1, <1>2, <1>3
  <2> QED BY <1>1, <2>1 DEF Status, IsComplete
<1>5. Status(n) = "new" /\ Status(n)' = "running" BY <1>1, <1>2, <1>3 DEF Status
<1>6. \A s \in Sess : Status(s) # "running" BY <1>1, <1>2 DEF Status
<1> QED BY <1>1, <1>3, <1>4, <1>5, <1>6 DEF Life!Begin, Life!Running

(* The answer of a stop is a promise, and its session is complete. *)
LEMMA ClearMarkAnswers ==
  ASSUME TypeInv, Control, Sessions, ClearMark, reset_capture, UNCHANGED <<disk, sdState, used>>,
         acked' = acked \cup {sess}
  PROVE  Life!Answer(sess)
<1>1. cap = "live" /\ sess = used /\ Lasting(sess) /\ sess' = 0
  BY DEF ClearMark, Sessions, Committed, reset_capture
<1>2. /\ used \in 0 .. MaxSess /\ MaxSess \in Nat /\ Sess = 1 .. MaxSess /\ sess # 0
  BY <1>1, BoundsAssumption DEF TypeInv, TypeOK, HistoryTypeOK, Sess, Control, Writing, ClearMark
<1>3. PICK n \in Sess : n = sess BY <1>1, <1>2
<1>4. \A s \in Sess \ {n} : Status(s)' = Status(s)
  BY <1>1, <1>2, <1>3 DEF Status, IsComplete
<1>5. Status(n) = "running" /\ Status(n)' = "complete"
  BY <1>1, <1>2, <1>3 DEF Status, IsComplete, Lasting
<1> QED BY <1>3, <1>4, <1>5 DEF Life!Answer

(* Every other step ends a capture, or changes nothing. *)
LEMMA OthersEnd ==
  ASSUME TypeInv, Control, Sessions, Next, UNCHANGED <<used, acked>>, sess' \in {sess, 0}
  PROVE  Life!End
<1>1. ASSUME NEW s \in Sess
      PROVE  /\ Status(s)' \in {"new", "running", "complete", "ended"}
             /\ \/ Status(s)' = Status(s)
                \/ Status(s) = "running" /\ Status(s)' \in {"complete", "ended"}
                \/ Status(s) = "complete" /\ s \notin acked /\ Status(s)' = "ended"
  <2>1. s # 0 BY DEF Sess
  <2>2. CASE s > used BY <2>2 DEF Status
  <2>3. CASE ~(s > used) /\ s = sess BY <2>3 DEF Status
  <2>4. CASE ~(s > used) /\ s # sess BY <2>1, <2>4, OverStays DEF Status
  <2> QED BY <2>2, <2>3, <2>4
<1>2. StatusMap' \in [Sess -> {"new", "running", "complete", "ended"}] BY <1>1 DEF StatusMap
<1> QED BY <1>1, <1>2 DEF Life!End, Life!MayBecome, StatusMap

(* One capture at a time, and each ends once: a session that was left      *)
(* unfinished never becomes complete, and one whose stop was answered is   *)
(* complete from then on, also after a power loss that takes what was not  *)
(* synced (begin_capture, finalize_capture, write_atomic_text,             *)
(* recover_interrupted_sessions).                                          *)
THEOREM ImplementsCaptureLife == Spec => LifeSpec
<1>1. Init => Life!Init
  BY BoundsAssumption DEF Init, ServiceStart, Life!Init, Status, Sess
<1>2. TypeInv /\ Control /\ Sessions /\ Phases /\ [Next]_vars => [Life!Next]_(Life!vars)
  <2> SUFFICES ASSUME TypeInv, Control, Sessions, Phases, [Next]_vars
               PROVE  [Life!Next]_(Life!vars)
    OBVIOUS
  <2>1. CASE UNCHANGED vars
    BY <2>1 DEF vars, histVars, capVars, sdVars, Life!vars, Status, IsComplete
  <2>2. CASE Activate
    <3>1. used + 1 \in Sess
      BY <2>2, BoundsAssumption DEF Activate, TypeInv, TypeOK, HistoryTypeOK, Sess
    <3> QED BY <2>2, <3>1, ActivateBegins DEF Life!Next
  <2>3. CASE /\ ClearMark /\ reset_capture /\ UNCHANGED <<disk, sdState, used>>
             /\ acked' = acked \cup {sess}
    <3>1. sess \in Sess
      BY <2>3, BoundsAssumption DEF ClearMark, TypeInv, TypeOK, HistoryTypeOK, CaptureTypeOK, Sess,
           Control, Writing, Sessions, Committed
    <3> QED BY <2>3, <3>1, ClearMarkAnswers DEF Life!Next
  <2>4. CASE Next /\ UNCHANGED <<used, acked>> /\ sess' \in {sess, 0}
    BY <2>4, OthersEnd DEF Life!Next
  <2> QED BY <2>1, <2>2, <2>3, <2>4, LifeSources DEF LifeFlow
<1>3. Spec => [](TypeInv /\ Control /\ Sessions /\ Phases)
  <2>1. Init => TypeInv /\ Control /\ Sessions /\ Phases BY InitMarked DEF Marked, TypeInv
  <2>2. TypeInv /\ Control /\ Sessions /\ Phases /\ [Next]_vars
        => (TypeInv /\ Control /\ Sessions /\ Phases)'
    BY TypeStep, SessionsStep, PhasesStep
  <2> QED BY <2>1, <2>2, PTL DEF Spec
<1> QED BY <1>1, <1>2, <1>3, PTL DEF Spec, LifeSpec, Life!Spec
=============================================================================
