-------------------------- MODULE TinaCaptureProofs --------------------------
(***************************************************************************)
(* Theorems about the capture engine, for any number of segments and       *)
(* sessions and any number of recorder upsets, failing file operations,    *)
(* crashes and power losses.                                               *)
(***************************************************************************)
EXTENDS TinaCapture, MinMaxLemmas, FiniteSetTheorems, TLAPS

-----------------------------------------------------------------------------
LEMMA SegmentsAreFinite ==
  ASSUME NEW T, T \subseteq Seg
  PROVE  IsFiniteSet(T) /\ T \subseteq Int
<1>1. IsFiniteSet(Seg) BY BoundsAssumption, FS_Interval DEF Seg
<1>2. IsFiniteSet(T) BY <1>1, FS_Subset
<1>3. T \subseteq Int BY DEF Seg
<1> QED BY <1>2, <1>3

LEMMA CurBelongs ==
  ASSUME todo \subseteq Seg, todo # {}
  PROVE  cur \in todo /\ cur \in Seg
BY SegmentsAreFinite, MinBelongs DEF cur

-----------------------------------------------------------------------------
(* Type correctness.                                                       *)

(* While a pair is being moved or retired the pass still has it in hand.   *)
Carrying == {"copyMcap", "copyStat", "writeJson", "writeExport"}
Retiring == {"retireMcap", "retireStat"}
EntryInHand == pc \in Carrying \cup Retiring => todo # {}

(* TypeOK is inductive together with EntryInHand, which gives the minimum  *)
(* that cur denotes.                                                       *)
TypeInv == TypeOK /\ EntryInHand

(* A group of variables that does not change keeps its type. *)
LEMMA Frame ==
  /\ RingTypeOK /\ UNCHANGED ringVars => RingTypeOK'
  /\ CardTypeOK /\ UNCHANGED <<sdVars, markVars>> => CardTypeOK'
  /\ FlowTypeOK /\ UNCHANGED <<flowVars, quar>> => FlowTypeOK'
  /\ PassTypeOK /\ UNCHANGED passVars => PassTypeOK'
  /\ CaptureTypeOK /\ UNCHANGED capVars => CaptureTypeOK'
  /\ BaselineTypeOK /\ UNCHANGED baseVars => BaselineTypeOK'
  /\ HistoryTypeOK /\ UNCHANGED histVars => HistoryTypeOK'
  /\ BudgetTypeOK /\ UNCHANGED budgets => BudgetTypeOK'
  /\ EntryInHand /\ UNCHANGED <<flowVars, passVars>> => EntryInHand'
<1>1. RingTypeOK /\ UNCHANGED ringVars => RingTypeOK' BY DEF RingTypeOK, ringVars
<1>2. CardTypeOK /\ UNCHANGED <<sdVars, markVars>> => CardTypeOK'
  BY DEF CardTypeOK, sdVars, markVars
<1>3. FlowTypeOK /\ UNCHANGED <<flowVars, quar>> => FlowTypeOK' BY DEF FlowTypeOK, flowVars
<1>4. PassTypeOK /\ UNCHANGED passVars => PassTypeOK' BY DEF PassTypeOK, passVars
<1>5. CaptureTypeOK /\ UNCHANGED capVars => CaptureTypeOK' BY DEF CaptureTypeOK, capVars
<1>6. BaselineTypeOK /\ UNCHANGED baseVars => BaselineTypeOK' BY DEF BaselineTypeOK, baseVars
<1>7. HistoryTypeOK /\ UNCHANGED histVars => HistoryTypeOK' BY DEF HistoryTypeOK, histVars
<1>8. BudgetTypeOK /\ UNCHANGED budgets => BudgetTypeOK' BY DEF BudgetTypeOK, budgets
<1>9. EntryInHand /\ UNCHANGED <<flowVars, passVars>> => EntryInHand'
  BY DEF EntryInHand, flowVars, passVars
<1> QED BY <1>1, <1>2, <1>3, <1>4, <1>5, <1>6, <1>7, <1>8, <1>9

(* The steps the actions are made of. *)
LEMMA GoToType ==
  ASSUME NEW p \in PCs \ (Carrying \cup Retiring), FlowTypeOK, GoTo(p), UNCHANGED quar
  PROVE  FlowTypeOK' /\ EntryInHand'
BY DEF FlowTypeOK, GoTo, EntryInHand

LEMMA QuarantineType ==
  ASSUME NEW p \in Resume, NEW fails \in BOOLEAN,
         RingTypeOK, FlowTypeOK, QuarantineThen(p, fails), UNCHANGED <<recording, ring>>
  PROVE  RingTypeOK' /\ FlowTypeOK' /\ EntryInHand'
<1>1. RingTypeOK' BY DEF RingTypeOK, QuarantineThen, recording, ring
<1>2. FlowTypeOK' /\ EntryInHand'
  BY DEF FlowTypeOK, QuarantineThen, EntryInHand, Carrying, Retiring, PCs
<1> QED BY <1>1, <1>2

LEMMA FailCaptureType ==
  ASSUME NEW p \in Resume, RingTypeOK, FlowTypeOK, CaptureTypeOK,
         FailCaptureThen(p) \/ FailOrQuarantineThen(p), UNCHANGED <<recording, ring, capRest>>
  PROVE  RingTypeOK' /\ FlowTypeOK' /\ EntryInHand' /\ CaptureTypeOK'
<1>1. RingTypeOK' /\ FlowTypeOK' /\ EntryInHand'
  BY QuarantineType DEF FailCaptureThen, FailOrQuarantineThen
<1>2. CaptureTypeOK' BY DEF CaptureTypeOK, FailCaptureThen, FailOrQuarantineThen, capRest
<1> QED BY <1>1, <1>2

LEMMA ChargeType ==
  ASSUME NEW o \in Outcome, BudgetTypeOK, Charge(o)
  PROVE  BudgetTypeOK'
BY BoundsAssumption DEF BudgetTypeOK, Charge, Outcome

LEMMA ZeroInRange == 0 \in 0 .. MaxSeg /\ 0 \in 0 .. MaxSess /\ Seg \subseteq 0 .. MaxSeg
BY BoundsAssumption DEF Seg

LEMMA ResetCaptureType == ASSUME reset_capture PROVE CaptureTypeOK'
BY ZeroInRange DEF reset_capture, CaptureTypeOK

LEMMA WriteSessionType ==
  ASSUME NEW o \in Outcome, NEW state \in {"recording", "complete", "failed"},
         CardTypeOK, CaptureTypeOK, WriteSession(o, state), UNCHANGED markVars
  PROVE  CardTypeOK'
<1>1. disk' \in [Sess -> {"none", "recording", "complete", "failed"}] /\ listed' \in [Sess -> SUBSET Seg]
  BY DEF CardTypeOK, CaptureTypeOK, WriteSession
<1>2. sdState' \in [Sess -> {"none", "recording", "complete", "failed"}]
  BY DEF CardTypeOK, WriteSession, Stored
<1>3. sdListed' \in [Sess -> SUBSET Seg] BY DEF CardTypeOK, CaptureTypeOK, WriteSession, Stored
<1> QED BY <1>1, <1>2, <1>3 DEF CardTypeOK, WriteSession, markVars

LEMMA WriteManifestType ==
  ASSUME NEW o \in Outcome, CardTypeOK, CaptureTypeOK, WriteManifest(o), UNCHANGED markVars
  PROVE  CardTypeOK'
<1>1. exported' \in [Sess -> SUBSET Seg] BY DEF CardTypeOK, CaptureTypeOK, WriteManifest
<1>2. sdExported' \in [Sess -> SUBSET Seg] BY DEF CardTypeOK, CaptureTypeOK, WriteManifest, Stored
<1> QED BY <1>1, <1>2 DEF CardTypeOK, WriteManifest, markVars

LEMMA MarkInterruptedType ==
  ASSUME NEW done, NEW told, CardTypeOK, MarkInterrupted(done, told), UNCHANGED markVars
  PROVE  CardTypeOK'
<1>1. disk' \in [Sess -> {"none", "recording", "complete", "failed"}]
  BY DEF CardTypeOK, MarkInterrupted
<1>2. sdState' \in [Sess -> {"none", "recording", "complete", "failed"}]
  BY DEF CardTypeOK, MarkInterrupted
<1>3. sdListed' \in [Sess -> SUBSET Seg] BY DEF CardTypeOK, MarkInterrupted
<1> QED BY <1>1, <1>2, <1>3 DEF CardTypeOK, MarkInterrupted, markVars

LEMMA CutShortType ==
  ASSUME CardTypeOK, CaptureTypeOK, CutShort, UNCHANGED markVars
  PROVE  CardTypeOK'
<1>1. CASE UNCHANGED sdVars BY <1>1 DEF CardTypeOK, sdVars, markVars
<1>2. CASE \E o \in Outcome, state \in {"recording", "complete", "failed"} : WriteSession(o, state)
  BY <1>2, WriteSessionType
<1>3. CASE \E o \in Outcome : WriteManifest(o) BY <1>3, WriteManifestType
<1>4. CASE \E done \in SUBSET interrupted : \E told \in SUBSET done : MarkInterrupted(done, told)
  BY <1>4, MarkInterruptedType
<1> QED BY <1>1, <1>2, <1>3, <1>4 DEF CutShort

LEMMA PassType ==
  ASSUME NEW r \in PassReturns, TypeOK, StartPass(r), UNCHANGED quar
  PROVE  FlowTypeOK' /\ PassTypeOK' /\ EntryInHand'
BY DEF TypeOK, RingTypeOK, FlowTypeOK, PassTypeOK, StartPass, EntryInHand, Carrying, Retiring, PCs,
       Resume

-----------------------------------------------------------------------------
(* Control: what the service's position says about the capture. *)

(* A start or a stop is being written to the card. *)
Writing == {"mark", "openSess", "commit", "commitExport", "clearMark"}
Busy == Writing \cup Carrying \cup Retiring

Control ==
  /\ cap # "idle" => sess # 0
  /\ pc \in Writing => cap = "live"
  /\ pc \in Carrying => why = "capture"
  /\ pc \in Carrying \cup Retiring /\ why = "capture" => cap = "live"
  /\ pc \in Retiring /\ why # "capture" => ~quar

(* Most steps leave the busy positions and at most fail the capture. *)
Calm ==
  /\ pc' \notin Busy /\ sess' = sess
  /\ cap' = cap \/ (cap = "live" /\ cap' = "failed")

LEMMA CalmControl == Control /\ Calm => Control'
BY DEF Control, Calm, Busy

LEMMA GoToIsCalm ==
  ASSUME NEW p \in PCs \ Busy, GoTo(p), UNCHANGED capVars
  PROVE  Calm
BY DEF GoTo, Calm, capVars

LEMMA QuarantineIsCalm ==
  ASSUME NEW p, NEW fails,
         \/ QuarantineThen(p, fails) /\ UNCHANGED cap
         \/ FailCaptureThen(p)
         \/ FailOrQuarantineThen(p),
         sess' = sess
  PROVE  Calm
BY DEF QuarantineThen, FailCaptureThen, FailOrQuarantineThen, Calm, Busy, Writing, Carrying, Retiring

LEMMA ResetIsControl ==
  ASSUME reset_capture, pc' \notin Busy
  PROVE  Control'
BY DEF reset_capture, Control, Busy

LEMMA NotBusy ==
  /\ Resume \subseteq PCs \ Busy
  /\ {"failState", "alignPending", "undo"} \subseteq PCs \ Busy
  /\ FlowTypeOK => ret \in PCs \ Busy /\ after \in PCs \ Busy
<1>1. Resume \subseteq PCs \ Busy
  BY DEF Resume, PassReturns, PCs, Busy, Writing, Carrying, Retiring
<1>2. {"failState", "alignPending", "undo"} \subseteq PCs \ Busy
  BY DEF PCs, Busy, Writing, Carrying, Retiring
<1> QED BY <1>1, <1>2 DEF FlowTypeOK, Resume

LEMMA EntryControl ==
  ASSUME TypeInv, Control, ProcessEntry
  PROVE  Control'
<1> USE DEF TypeInv, TypeOK
<1>a. "passEnd" \in PCs \ Busy /\ "entry" \in PCs \ Busy BY NotBusy DEF Resume
<1>1. CASE EndEntries \/ PendingEntry \/ SettlingEntry
  <2>1. Calm BY <1>1, <1>a, GoToIsCalm DEF EndEntries, PendingEntry, SettlingEntry
  <2> QED BY <2>1, CalmControl
<1>2. CASE StalePending
  <2>1. Calm BY <1>2, QuarantineIsCalm DEF StalePending, capRest
  <2> QED BY <2>1, CalmControl
<1>3. CASE AcceptSegment
  BY <1>3 DEF AcceptSegment, GoTo, Control, Writing, Carrying, Retiring
<1>4. CASE RejectSegment
  <2>1. Calm BY <1>4, QuarantineIsCalm DEF RejectSegment, capRest
  <2> QED BY <2>1, CalmControl
<1>5. CASE SkipForFailedCapture \/ SkipSuspect
  <2>1. Calm BY <1>5, <1>a, GoToIsCalm DEF SkipForFailedCapture, SkipSuspect, SkipEntry
  <2> QED BY <2>1, CalmControl
<1>6. CASE QuarantineSuspect
  <2>1. Calm BY <1>6, QuarantineIsCalm DEF QuarantineSuspect, capVars
  <2> QED BY <2>1, CalmControl
<1>7. ASSUME NEW reason \in {"idle", "warmup"}, RetireUnlessQuarantined(reason),
             UNCHANGED <<capVars, quar>>
      PROVE  Control'
  <2>1. CASE quar
    <3>1. Calm BY <1>7, <1>a, <2>1, GoToIsCalm DEF RetireUnlessQuarantined, RetireOrLeave, SkipEntry
    <3> QED BY <3>1, CalmControl
  <2>2. CASE ~quar
    <3>1. pc' = "retireMcap" /\ why' = reason
      BY <1>7, <2>2 DEF RetireUnlessQuarantined, RetireOrLeave, GoTo
    <3> QED BY <1>7, <2>2, <3>1 DEF Control, Writing, Carrying, Retiring, capVars
  <2> QED BY <2>1, <2>2
<1>8. CASE ObserveSteady BY <1>7, <1>8 DEF ObserveSteady
<1>9. CASE ObserveUnsteady BY <1>7, <1>9 DEF ObserveUnsteady
<1>10. CASE InvalidateBaseline BY <1>7, <1>10 DEF InvalidateBaseline
<1>11. CASE DiscardResidue BY <1>7, <1>11 DEF DiscardResidue
<1> QED BY <1>1, <1>2, <1>3, <1>4, <1>5, <1>6, <1>8, <1>9, <1>10, <1>11 DEF ProcessEntry

LEMMA MoveControl ==
  ASSUME TypeInv, Control, MoveSegment
  PROVE  Control'
<1>a. "passEnd" \in PCs \ Busy /\ "entry" \in PCs \ Busy BY NotBusy DEF Resume
<1>1. ASSUME CopyFailed PROVE Control'
  <2>1. Calm BY <1>1, QuarantineIsCalm DEF CopyFailed, capRest
  <2> QED BY <2>1, CalmControl
<1>2. ASSUME pc \in Carrying, pc' \in Carrying \cup Retiring, UNCHANGED <<why, cap, sess>>
      PROVE  Control'
  BY <1>2 DEF Control, Carrying, Retiring, Writing
<1>3. ASSUME RetireFailed PROVE Control'
  <2>1. Calm BY <1>3, QuarantineIsCalm DEF RetireFailed, capRest
  <2> QED BY <2>1, CalmControl
<1>4. ASSUME Retired PROVE Control'
  <2>1. Calm BY <1>4, <1>a DEF Retired, Calm, GoTo, capVars
  <2> QED BY <2>1, CalmControl
<1>5. CASE CopyMcap
  <2>1. pc \in Carrying /\ (CopyNext("copyStat") \/ CopyFailed) BY <1>5 DEF CopyMcap, Carrying
  <2> QED BY <1>1, <1>2, <2>1 DEF CopyNext, GoTo, capVars, passVars, Carrying
<1>6. CASE CopyStat
  <2>1. /\ pc \in Carrying
        /\ CopyFailed \/ (GoTo("writeJson") /\ UNCHANGED <<passVars, cap, sess>>)
    BY <1>6 DEF CopyStat, Carrying
  <2> QED BY <1>1, <1>2, <2>1 DEF GoTo, passVars, Carrying
<1>7. CASE WriteJson
  <2>1. pc \in Carrying /\ (CopyNext("writeExport") \/ CopyFailed) BY <1>7 DEF WriteJson, Carrying
  <2> QED BY <1>1, <1>2, <2>1 DEF CopyNext, GoTo, capVars, passVars, Carrying
<1>8. CASE WriteExport
  <2>1. pc \in Carrying /\ (CopyNext("retireMcap") \/ CopyFailed) BY <1>8 DEF WriteExport, Carrying
  <2> QED BY <1>1, <1>2, <2>1 DEF CopyNext, GoTo, capVars, passVars, Retiring
<1>9. CASE RetireMcap
  <2>1. CASE RetireFailed BY <1>3, <2>1
  <2>2. CASE GoTo("retireStat") /\ UNCHANGED <<quar, capVars>>
    BY <1>9, <2>2 DEF RetireMcap, notRetire, GoTo, capVars, Control, Carrying, Retiring, Writing
  <2> QED BY <1>9, <2>1, <2>2 DEF RetireMcap
<1>10. CASE RetireStat BY <1>3, <1>4, <1>10 DEF RetireStat
<1> QED BY <1>5, <1>6, <1>7, <1>8, <1>9, <1>10 DEF MoveSegment

LEMMA BeginControl ==
  ASSUME TypeInv, Control, BeginCapture
  PROVE  Control'
<1>a. {"alignCheck", "idle", "alignPending", "undo"} \subseteq PCs \ Busy
  BY NotBusy DEF Resume, PassReturns
<1>1. CASE StartRequest \/ AlignAgain
  <2>1. Calm BY <1>1, NotBusy DEF StartRequest, AlignAgain, Pass, StartPass, Calm, capVars, Resume
  <2> QED BY <2>1, CalmControl
<1>2. CASE AlignBase \/ AlignRefused \/ AlignTimeout \/ Aligned
  <2>1. Calm BY <1>2, <1>a, GoToIsCalm DEF AlignBase, AlignRefused, AlignTimeout, Aligned
  <2> QED BY <2>1, CalmControl
<1>3. CASE RefuseUnfinished
  <2>1. Calm BY <1>3, QuarantineIsCalm DEF RefuseUnfinished, capVars
  <2> QED BY <2>1, CalmControl
<1>4. CASE Activate
  <2>1. used + 1 # 0 BY <1>4, BoundsAssumption DEF TypeInv, TypeOK, HistoryTypeOK
  <2> QED BY <1>4, <2>1 DEF Activate, GoTo, Control, Writing, Carrying, Retiring
<1>5. CASE WriteMark
  <2>1. \/ GoTo("openSess") /\ UNCHANGED <<capVars, passVars, quar>>
        \/ GoTo("undo") /\ UNCHANGED capVars
    BY <1>5 DEF WriteMark
  <2>2. CASE GoTo("undo") /\ UNCHANGED capVars BY <1>a, <2>2, GoToIsCalm, CalmControl
  <2>3. CASE GoTo("openSess") /\ UNCHANGED <<capVars, passVars, quar>>
    BY <1>5, <2>3 DEF WriteMark, GoTo, Control, Writing, Carrying, Retiring, capVars, passVars
  <2> QED BY <2>1, <2>2, <2>3
<1>6. CASE OpenSession
  <2>1. (GoTo("idle") \/ GoTo("undo")) /\ UNCHANGED capVars BY <1>6 DEF OpenSession
  <2> QED BY <1>a, <2>1, GoToIsCalm, CalmControl
<1>7. CASE UndoStart BY <1>a, <1>7, ResetIsControl DEF UndoStart, GoTo
<1> QED BY <1>1, <1>2, <1>3, <1>4, <1>5, <1>6, <1>7 DEF BeginCapture

LEMMA FinalizeControl ==
  ASSUME TypeInv, Control, FinalizeCapture
  PROVE  Control'
<1>a. {"stopFail", "entry", "idle"} \subseteq PCs \ Busy BY NotBusy DEF Resume, PassReturns
<1>1. CASE StopFailedCapture \/ StopRecorderGone \/ StopTimeout
  <2>1. Calm
    BY <1>1, QuarantineIsCalm DEF StopFailedCapture, StopRecorderGone, StopTimeout, GiveUp, capVars,
                                  capRest
  <2> QED BY <2>1, CalmControl
<1>2. CASE StopRequest \/ StopWait
  <2>1. Calm BY <1>2, <1>a DEF StopRequest, StopWait, Pass, StartPass, Calm
  <2> QED BY <2>1, CalmControl
<1>3. CASE StopInterrupted BY <1>3, <1>a, GoToIsCalm, CalmControl DEF StopInterrupted
<1>4. CASE StopSaved
  BY <1>4 DEF StopSaved, Draining, GoTo, Control, Writing, Carrying, Retiring, capVars
<1>5. CASE StopFail BY <1>5, <1>a, ResetIsControl DEF StopFail, GoTo
<1>6. ASSUME CommitFailed PROVE Control'
  <2>1. Calm BY <1>6, QuarantineIsCalm DEF CommitFailed, capRest
  <2> QED BY <2>1, CalmControl
<1>7. ASSUME pc \in Writing, NEW p \in Writing, CommitNext(p) PROVE Control'
  BY <1>7 DEF CommitNext, GoTo, Control, Writing, Carrying, Retiring, capVars
<1>8. CASE CommitSession
  <2>1. pc \in Writing /\ "commitExport" \in Writing BY <1>8 DEF CommitSession, Writing
  <2> QED BY <1>6, <1>7, <1>8, <2>1 DEF CommitSession
<1>9. CASE CommitExport
  <2>1. pc \in Writing /\ "clearMark" \in Writing BY <1>9 DEF CommitExport, Writing
  <2> QED BY <1>6, <1>7, <1>9, <2>1 DEF CommitExport
<1>10. CASE ClearMark
  <2>1. CommitFailed \/ (reset_capture /\ GoTo("idle")) BY <1>10 DEF ClearMark
  <2> QED BY <1>6, <1>a, <2>1, ResetIsControl DEF GoTo
<1> QED BY <1>1, <1>2, <1>3, <1>4, <1>5, <1>8, <1>9, <1>10 DEF FinalizeCapture

LEMMA BootControl ==
  ASSUME TypeInv, Control, Boot
  PROVE  Control'
<1> SUFFICES Calm BY CalmControl
<1>a. {"bootSess", "bootAdopt", "bootStart", "idle"} \subseteq PCs \ Busy
  BY NotBusy DEF Resume, PassReturns
<1>b. UNCHANGED <<cap, sess>>
  BY DEF Boot, LoadQuarantine, RecoverActive, NothingToRecover, RecoverSessions, BootAdopt,
         BootQuarantined, BootDone, BootStartRecorder, BootWithoutRecorder, bootVars, capVars
<1>c. \/ \E p \in {"bootSess", "bootAdopt", "bootStart", "idle"} : pc' = p
      \/ pc' \in {"quarMark", "entry"}
  BY DEF Boot, LoadQuarantine, RecoverActive, NothingToRecover, RecoverSessions, BootAdopt,
         BootQuarantined, BootDone, BootStartRecorder, BootWithoutRecorder, Pass, StartPass, GoTo,
         QuarantineThen
<1>d. {"quarMark", "entry"} \subseteq PCs \ Busy
  BY DEF PCs, Resume, Busy, Writing, Carrying, Retiring
<1> QED BY <1>a, <1>b, <1>c, <1>d DEF Calm

LEMMA ControlStep == TypeInv /\ Control /\ [Next]_vars => Control'
<1> SUFFICES ASSUME TypeInv, Control, [Next]_vars PROVE Control' OBVIOUS
<1>1. CASE Recorder \/ UNCHANGED vars
  <2>1. UNCHANGED <<pc, why, quar, cap, sess>>
    BY <1>1 DEF vars, notRing, flowVars, passVars, capVars, Recorder, OpenSegment, RecorderExit,
                CloseSegment, CreateSidecar, PublishSidecar
  <2> QED BY <2>1 DEF Control
<1>2. CASE Quarantining
  <2>1. \E p \in PCs \ Busy : GoTo(p)
    BY <1>2, NotBusy DEF Quarantining, PersistQuarantine, FailState, TypeInv, TypeOK
  <2>2. UNCHANGED capVars BY <1>2 DEF Quarantining, PersistQuarantine, FailState
  <2> QED BY <2>1, <2>2, GoToIsCalm, CalmControl
<1>3. CASE EndPass
  <2>1. Calm
    BY <1>3, NotBusy, GoToIsCalm, QuarantineIsCalm
    DEF EndPass, PassQuiet, StaleOpen, StalledRecorder, capRest, TypeInv, TypeOK
  <2> QED BY <2>1, CalmControl
<1>4. CASE Loop
  <2>1. CASE LoopPass
    <3>1. Calm BY <2>1, NotBusy DEF LoopPass, Pass, StartPass, Calm, capVars, Resume
    <3> QED BY <3>1, CalmControl
  <2>2. CASE SuperviseQuiet \/ NoRequest
    <3>1. {"accept", "idle"} \subseteq PCs \ Busy BY NotBusy DEF Resume
    <3> QED BY <2>2, <3>1, GoToIsCalm, CalmControl DEF SuperviseQuiet, NoRequest
  <2>3. CASE SuperviseLoss
    <3>1. Calm BY <2>3, QuarantineIsCalm DEF SuperviseLoss, capRest
    <3> QED BY <3>1, CalmControl
  <2> QED BY <1>4, <2>1, <2>2, <2>3 DEF Loop
<1>5. CASE Crash \/ PowerLoss
  <2>1. "boot" \notin Busy BY DEF Busy, Writing, Carrying, Retiring
  <2> QED BY <1>5, <2>1, ResetIsControl DEF Crash, PowerLoss, ServiceRestarts
<1> QED BY <1>1, <1>2, <1>3, <1>4, <1>5, EntryControl, MoveControl, BeginControl, FinalizeControl,
           BootControl DEF Next, Service

-----------------------------------------------------------------------------
(* The recorder only touches its own variables. *)
LEMMA RecorderType == TypeInv /\ Recorder => TypeInv'
<1> SUFFICES ASSUME TypeInv, Recorder PROVE TypeInv' OBVIOUS
<1> USE DEF TypeInv, TypeOK
<1>1. CASE OpenSegment
  <2>1. RingTypeOK' BY <1>1, BoundsAssumption DEF OpenSegment, RingTypeOK, Seg
  <2> QED BY <1>1, <2>1, Frame DEF OpenSegment, notRing
<1>2. CASE RecorderExit
  <2>1. RingTypeOK' BY <1>2, BoundsAssumption DEF RecorderExit, RingTypeOK, Upset
  <2> QED BY <1>2, <2>1, Frame DEF RecorderExit, notRing
<1>3. ASSUME NEW i \in Seg, CloseSegment(i) PROVE TypeInv'
  <2>1. RingTypeOK' BY <1>3 DEF CloseSegment, RingTypeOK
  <2> QED BY <1>3, <2>1, Frame DEF CloseSegment, notRing
<1>4. ASSUME NEW i \in Seg, CreateSidecar(i) PROVE TypeInv'
  <2>1. upsets' \in 0 .. MaxUpset
    BY <1>4, BoundsAssumption DEF CreateSidecar, RingTypeOK, Upset
  <2>2. RingTypeOK' BY <1>4, <2>1 DEF CreateSidecar, RingTypeOK, SideKinds
  <2> QED BY <1>4, <2>2, Frame DEF CreateSidecar, notRing
<1>5. ASSUME NEW i \in Seg, NEW kind \in Terminal, NEW drops \in {0, 1}, NEW step \in {0, 1},
             PublishSidecar(i, kind, drops, step)
      PROVE  TypeInv'
  <2>1. upsets' \in 0 .. MaxUpset
    BY <1>5, BoundsAssumption DEF PublishSidecar, RingTypeOK, Upset
  <2>2. born < i BY <1>5 DEF PublishSidecar, Publishing, Unpublished
  <2>3. ctr' \in [Seg -> Nat] /\ prog' \in [Seg -> Nat]
    <3> DEFINE Last(f) == IF i = born + 1 THEN 0 ELSE f[i - 1]
    <3>1. Last(ctr) \in Nat /\ Last(prog) \in Nat BY <2>2, BoundsAssumption DEF RingTypeOK, Seg
    <3>2. /\ ctr' = [ctr EXCEPT ![i] = Last(ctr) + drops]
          /\ prog' = [prog EXCEPT ![i] = Last(prog) + step]
      BY <1>5 DEF PublishSidecar
    <3> HIDE DEF Last
    <3> QED BY <3>1, <3>2 DEF RingTypeOK
  <2>4. RingTypeOK' BY <1>5, <2>1, <2>3 DEF PublishSidecar, RingTypeOK, SideKinds, Terminal
  <2> QED BY <1>5, <2>4, Frame DEF PublishSidecar, notRing
<1> QED BY <1>1, <1>2, <1>3, <1>4, <1>5 DEF Recorder

LEMMA QuarantiningType == TypeInv /\ Quarantining => TypeInv'
<1> SUFFICES ASSUME TypeInv, Quarantining PROVE TypeInv' OBVIOUS
<1> USE DEF TypeInv, TypeOK
<1>1. CASE PersistQuarantine
  <2>1. PICK o \in Outcome : Charge(o) /\ quarMark' = (quarMark \/ Commits(o))
    BY <1>1 DEF PersistQuarantine
  <2>2. CardTypeOK' BY <1>1, <2>1 DEF PersistQuarantine, CardTypeOK, sdVars
  <2>3. RingTypeOK' BY <1>1 DEF PersistQuarantine, RingTypeOK, recording, ring
  <2>4. PICK p \in PCs \ (Carrying \cup Retiring) : GoTo(p)
    <3>1. after \in PCs \ (Carrying \cup Retiring) /\ "failState" \in PCs \ (Carrying \cup Retiring)
      BY DEF FlowTypeOK, PCs, Resume, PassReturns, Carrying, Retiring
    <3> QED BY <1>1, <3>1 DEF PersistQuarantine
  <2>5. FlowTypeOK' /\ EntryInHand' BY <1>1, <2>4, GoToType DEF PersistQuarantine
  <2>6. BudgetTypeOK' BY <2>1, ChargeType
  <2> QED BY <1>1, <2>2, <2>3, <2>5, <2>6, Frame DEF PersistQuarantine
<1>2. CASE FailState
  <2>1. PICK o \in Outcome : Charge(o) /\ WriteSession(o, "failed") BY <1>2 DEF FailState
  <2>2. CardTypeOK' BY <1>2, <2>1, WriteSessionType DEF FailState
  <2>3. after \in PCs \ (Carrying \cup Retiring)
    BY DEF FlowTypeOK, PCs, Resume, PassReturns, Carrying, Retiring
  <2>4. FlowTypeOK' /\ EntryInHand' BY <1>2, <2>3, GoToType DEF FailState
  <2>5. BudgetTypeOK' BY <2>1, ChargeType
  <2> QED BY <1>2, <2>2, <2>4, <2>5, Frame DEF FailState
<1> QED BY <1>1, <1>2 DEF Quarantining

-----------------------------------------------------------------------------
(* An entry of the pass that is inspected and then skipped or retired. *)
LEMMA InspectType ==
  ASSUME PassTypeOK, Inspect, todo' \subseteq todo, why' \in {"none", "idle", "warmup", "capture"}
  PROVE  PassTypeOK'
<1>1. terminal' \in BOOLEAN BY DEF Inspect, PassTypeOK, footer, mcap_is_closed
<1>2. seenOpen' \subseteq Seg /\ seenSide' \subseteq Seg BY DEF Inspect, PassTypeOK
<1> QED BY <1>1, <1>2 DEF PassTypeOK

LEMMA SkipEntryType ==
  ASSUME PassTypeOK, FlowTypeOK, Inspect, SkipEntry, UNCHANGED quar
  PROVE  PassTypeOK' /\ FlowTypeOK' /\ EntryInHand'
<1>1. "entry" \in PCs \ (Carrying \cup Retiring) BY DEF PCs, Resume, Carrying, Retiring
<1>2. GoTo("entry") /\ todo' \subseteq todo /\ why' = why BY DEF SkipEntry
<1>3. PassTypeOK' BY <1>2, InspectType DEF PassTypeOK
<1> QED BY <1>1, <1>2, <1>3, GoToType

LEMMA RetireEntryType ==
  ASSUME NEW reason \in {"idle", "warmup"}, PassTypeOK, FlowTypeOK, todo # {},
         Inspect, RetireUnlessQuarantined(reason), UNCHANGED quar
  PROVE  PassTypeOK' /\ FlowTypeOK' /\ EntryInHand'
<1>1. CASE quar BY <1>1, SkipEntryType DEF RetireUnlessQuarantined, RetireOrLeave
<1>2. CASE ~quar
  <2>1. todo' = todo /\ why' = reason /\ GoTo("retireMcap")
    BY <1>2 DEF RetireUnlessQuarantined, RetireOrLeave
  <2>2. PassTypeOK' BY <2>1, InspectType
  <2>3. FlowTypeOK' BY <2>1 DEF GoTo, FlowTypeOK, PCs
  <2>4. EntryInHand' BY <2>1 DEF EntryInHand
  <2> QED BY <2>2, <2>3, <2>4
<1> QED BY <1>1, <1>2

LEMMA ProcessEntryType == TypeInv /\ ProcessEntry => TypeInv'
<1> SUFFICES ASSUME TypeInv, ProcessEntry PROVE TypeInv' OBVIOUS
<1> USE DEF TypeInv, TypeOK
<1>a. "passEnd" \in PCs \ (Carrying \cup Retiring) /\ "passEnd" \in Resume /\ "entry" \in Resume
  BY DEF PCs, Resume, Carrying, Retiring
<1>b. AtEntry => todo # {} /\ cur \in Seg BY CurBelongs DEF AtEntry, PassTypeOK
<1>1. CASE EndEntries
  <2>1. FlowTypeOK' /\ EntryInHand' BY <1>1, <1>a, GoToType DEF EndEntries
  <2> QED BY <1>1, <2>1, Frame DEF EndEntries, notPass
<1>2. CASE PendingEntry \/ SettlingEntry
  <2>1. FlowTypeOK' /\ EntryInHand' BY <1>2, <1>a, GoToType DEF PendingEntry, SettlingEntry
  <2>2. PassTypeOK' BY <1>2, <1>b DEF PendingEntry, SettlingEntry, PassTypeOK
  <2> QED BY <1>2, <2>1, <2>2, Frame DEF PendingEntry, SettlingEntry, notPass
<1>3. CASE StalePending
  <2>1. RingTypeOK' /\ FlowTypeOK' /\ EntryInHand' /\ CaptureTypeOK'
    BY <1>3, <1>a, FailCaptureType DEF StalePending
  <2>2. PassTypeOK' BY <1>3 DEF StalePending, PassTypeOK
  <2> QED BY <1>3, <2>1, <2>2, Frame DEF StalePending, notPass
<1>4. CASE AcceptSegment
  <2>1. AtEntry BY <1>4 DEF AcceptSegment, CleanEntry, RipeEntry
  <2>2. PassTypeOK' BY <1>4, InspectType DEF AcceptSegment
  <2>3. FlowTypeOK' BY <1>4 DEF AcceptSegment, GoTo, FlowTypeOK, PCs
  <2>4. EntryInHand' BY <1>4, <1>b, <2>1 DEF AcceptSegment, EntryInHand
  <2>5. CaptureTypeOK' BY <1>4, <1>b, <2>1, ZeroInRange DEF AcceptSegment, CaptureTypeOK
  <2> QED BY <1>4, <2>2, <2>3, <2>4, <2>5, Frame DEF AcceptSegment, notPass
<1>5. CASE RejectSegment
  <2>1. RingTypeOK' /\ FlowTypeOK' /\ EntryInHand' /\ CaptureTypeOK'
    BY <1>5, <1>a, FailCaptureType DEF RejectSegment
  <2>2. todo' \subseteq todo /\ why' = why BY <1>5 DEF RejectSegment
  <2>3. PassTypeOK' BY <1>5, <2>2, InspectType DEF RejectSegment, PassTypeOK
  <2> QED BY <1>5, <2>1, <2>3, Frame DEF RejectSegment, notPass
<1>6. CASE SkipForFailedCapture
  <2>1. PassTypeOK' /\ FlowTypeOK' /\ EntryInHand'
    BY <1>6, SkipEntryType DEF SkipForFailedCapture
  <2>2. hasClean' \in BOOLEAN BY <1>6 DEF SkipForFailedCapture, BaselineTypeOK, CleanEntry
  <2>3. BaselineTypeOK' BY <1>6, <2>2 DEF SkipForFailedCapture, BaselineTypeOK
  <2> QED BY <1>6, <2>1, <2>3, Frame DEF SkipForFailedCapture, notPass
<1>7. CASE ObserveSteady
  <2>1. AtEntry BY <1>7 DEF ObserveSteady, CleanEntry, RipeEntry
  <2>2. PassTypeOK' /\ FlowTypeOK' /\ EntryInHand'
    BY <1>7, <1>b, <2>1, RetireEntryType DEF ObserveSteady
  <2>3. baseStable' \in 0 .. StableSegments
    BY <1>7, StableAssumption DEF ObserveSteady, NextStable, BaselineTypeOK
  <2>4. hasClean' \in BOOLEAN BY <1>7 DEF ObserveSteady
  <2>5. cur \in 0 .. MaxSeg BY <1>b, <2>1, ZeroInRange
  <2>6. BaselineTypeOK' BY <1>7, <2>3, <2>4, <2>5 DEF ObserveSteady, BaselineTypeOK
  <2> QED BY <1>7, <2>2, <2>6, Frame DEF ObserveSteady, notPass
<1>8. CASE ObserveUnsteady
  <2>1. AtEntry BY <1>8 DEF ObserveUnsteady, CleanEntry, RipeEntry
  <2>2. PassTypeOK' /\ FlowTypeOK' /\ EntryInHand'
    BY <1>8, <1>b, <2>1, RetireEntryType DEF ObserveUnsteady
  <2>3. 1 \in 0 .. StableSegments BY StableAssumption
  <2>4. cur \in 0 .. MaxSeg BY <1>b, <2>1, ZeroInRange
  <2>5. BaselineTypeOK' BY <1>8, <2>3, <2>4 DEF ObserveUnsteady, BaselineTypeOK
  <2> QED BY <1>8, <2>2, <2>5, Frame DEF ObserveUnsteady, notPass
<1>9. CASE InvalidateBaseline
  <2>1. AtEntry BY <1>9 DEF InvalidateBaseline, IntegrityEntry, RipeEntry
  <2>2. PassTypeOK' /\ FlowTypeOK' /\ EntryInHand'
    BY <1>9, <1>b, <2>1, RetireEntryType DEF InvalidateBaseline
  <2>3. 0 \in 0 .. StableSegments BY StableAssumption
  <2>4. BaselineTypeOK' BY <1>9, <2>3, ZeroInRange DEF InvalidateBaseline, BaselineTypeOK
  <2> QED BY <1>9, <2>2, <2>4, Frame DEF InvalidateBaseline, notPass
<1>10. CASE DiscardResidue
  <2>1. AtEntry BY <1>10 DEF DiscardResidue, CleanEntry, RipeEntry
  <2>2. PassTypeOK' /\ FlowTypeOK' /\ EntryInHand'
    BY <1>10, <1>b, <2>1, RetireEntryType DEF DiscardResidue
  <2>3. BaselineTypeOK' BY <1>10 DEF DiscardResidue, BaselineTypeOK
  <2> QED BY <1>10, <2>2, <2>3, Frame DEF DiscardResidue, notPass
<1>11. CASE QuarantineSuspect
  <2>1. RingTypeOK' /\ FlowTypeOK' /\ EntryInHand'
    BY <1>11, <1>a, QuarantineType DEF QuarantineSuspect
  <2>2. todo' \subseteq todo /\ why' = why BY <1>11 DEF QuarantineSuspect
  <2>3. PassTypeOK' BY <1>11, <2>2, InspectType DEF QuarantineSuspect, PassTypeOK
  <2> QED BY <1>11, <2>1, <2>3, Frame DEF QuarantineSuspect, notPass
<1>12. CASE SkipSuspect
  <2>1. PassTypeOK' /\ FlowTypeOK' /\ EntryInHand' BY <1>12, SkipEntryType DEF SkipSuspect
  <2> QED BY <1>12, <2>1, Frame DEF SkipSuspect, notPass
<1> QED BY <1>1, <1>2, <1>3, <1>4, <1>5, <1>6, <1>7, <1>8, <1>9, <1>10, <1>11, <1>12
        DEF ProcessEntry

-----------------------------------------------------------------------------
(* Moving a pair to the card and retiring it. *)
LEMMA CopyFailedType ==
  ASSUME TypeInv, CopyFailed
  PROVE  RingTypeOK' /\ FlowTypeOK' /\ PassTypeOK' /\ CaptureTypeOK' /\ EntryInHand'
<1>1. "passEnd" \in Resume BY DEF Resume
<1>2. RingTypeOK' /\ FlowTypeOK' /\ CaptureTypeOK' /\ EntryInHand'
  BY <1>1, FailCaptureType DEF CopyFailed, TypeInv, TypeOK
<1> QED BY <1>2, Frame DEF CopyFailed, TypeInv, TypeOK

LEMMA CopyNextType ==
  ASSUME NEW p \in Carrying \cup Retiring, TypeInv, todo # {}, CopyNext(p)
  PROVE  RingTypeOK' /\ FlowTypeOK' /\ PassTypeOK' /\ CaptureTypeOK' /\ EntryInHand'
<1>1. p \in PCs BY DEF PCs, Carrying, Retiring
<1>2. FlowTypeOK' BY <1>1 DEF CopyNext, GoTo, FlowTypeOK, TypeInv, TypeOK
<1>3. EntryInHand' BY DEF CopyNext, passVars, EntryInHand
<1> QED BY <1>2, <1>3, Frame DEF CopyNext, TypeInv, TypeOK

LEMMA RetiredType ==
  ASSUME TypeInv, Retired, UNCHANGED <<quar, why, terminal, seenOpen, seenSide>>
  PROVE  FlowTypeOK' /\ PassTypeOK' /\ CaptureTypeOK' /\ EntryInHand' /\ discarded' \in BOOLEAN
<1> USE DEF TypeInv, TypeOK
<1>1. "passEnd" \in PCs \ (Carrying \cup Retiring) /\ "entry" \in PCs \ (Carrying \cup Retiring)
  BY DEF PCs, Resume, Carrying, Retiring
<1>2. FlowTypeOK' /\ EntryInHand' BY <1>1, GoToType DEF Retired
<1>3. PassTypeOK' BY DEF Retired, PassTypeOK
<1>4. CaptureTypeOK' BY DEF Retired, CaptureTypeOK, capVars
<1>5. discarded' \in BOOLEAN BY DEF Retired, BaselineTypeOK
<1> QED BY <1>2, <1>3, <1>4, <1>5

LEMMA RetireFailedType ==
  ASSUME TypeInv, RetireFailed, UNCHANGED <<why, terminal, seenOpen, seenSide>>,
         ringMcap' \subseteq Seg, ringStat' \subseteq Seg
  PROVE  /\ RingTypeOK' /\ FlowTypeOK' /\ PassTypeOK' /\ CaptureTypeOK' /\ EntryInHand'
         /\ discarded' \in BOOLEAN
<1> USE DEF TypeInv, TypeOK
<1>1. "passEnd" \in Resume /\ "entry" \in Resume BY DEF Resume
<1>2. PICK p \in Resume, fails \in BOOLEAN : QuarantineThen(p, fails)
  BY <1>1 DEF RetireFailed, FailCaptureThen
<1>3. RingTypeOK' BY <1>2 DEF RetireFailed, RingTypeOK, QuarantineThen, recording
<1>4. FlowTypeOK' /\ EntryInHand'
  BY <1>2 DEF FlowTypeOK, QuarantineThen, EntryInHand, Carrying, Retiring, PCs
<1>5. PassTypeOK' BY DEF RetireFailed, PassTypeOK
<1>6. CaptureTypeOK' BY DEF RetireFailed, FailCaptureThen, CaptureTypeOK, capRest
<1>7. discarded' \in BOOLEAN BY DEF RetireFailed, BaselineTypeOK
<1> QED BY <1>3, <1>4, <1>5, <1>6, <1>7

LEMMA MoveSegmentType == TypeInv /\ MoveSegment => TypeInv'
<1> SUFFICES ASSUME TypeInv, MoveSegment PROVE TypeInv' OBVIOUS
<1> USE DEF TypeInv, TypeOK
<1>a. todo # {} /\ cur \in Seg
  <2>1. pc \in Carrying \cup Retiring
    BY DEF MoveSegment, CopyMcap, CopyStat, WriteJson, WriteExport, RetireMcap, RetireStat,
           Carrying, Retiring
  <2>2. todo # {} BY <2>1 DEF EntryInHand
  <2> QED BY <2>2, CurBelongs DEF PassTypeOK
<1>b. {"copyStat", "writeJson", "writeExport", "retireMcap"} \subseteq Carrying \cup Retiring
  BY DEF Carrying, Retiring
<1>1. CASE CopyMcap
  <2>1. PICK o \in Outcome :
          /\ Charge(o)
          /\ sdMcap' = [sdMcap EXCEPT ![sess] = Stored(o, @ \cup {cur}, @, @)]
          /\ IF Told(o) THEN CopyNext("copyStat") ELSE CopyFailed
    BY <1>1 DEF CopyMcap
  <2>2. CardTypeOK'
    <3>1. sdMcap' \in [Sess -> SUBSET Seg] BY <1>a, <2>1 DEF CardTypeOK, Stored
    <3> QED BY <1>1, <3>1 DEF CopyMcap, CardTypeOK, markVars
  <2>3. RingTypeOK' /\ FlowTypeOK' /\ PassTypeOK' /\ CaptureTypeOK' /\ EntryInHand'
    BY <1>a, <1>b, <2>1, CopyNextType, CopyFailedType
  <2>4. BudgetTypeOK' BY <2>1, ChargeType
  <2> QED BY <1>1, <2>2, <2>3, <2>4, Frame DEF CopyMcap
<1>2. CASE CopyStat
  <2>1. PICK o \in Outcome :
          /\ Charge(o)
          /\ sdStat' = [sdStat EXCEPT ![sess] = Stored(o, @ \cup {cur}, @, @)]
          /\ \/ /\ Told(o) /\ GoTo("writeJson") /\ files' = files \cup {cur}
                /\ UNCHANGED <<ringVars, quar, passVars, cap, finalizing, stopSeg, sess, moved,
                               capBase, capLast>>
             \/ ~Told(o) /\ CopyFailed
    BY <1>2 DEF CopyStat
  <2>2. CardTypeOK'
    <3>1. sdStat' \in [Sess -> SUBSET Seg] BY <1>a, <2>1 DEF CardTypeOK, Stored
    <3> QED BY <1>2, <3>1 DEF CopyStat, CardTypeOK, markVars
  <2>3. BudgetTypeOK' BY <2>1, ChargeType
  <2>4. RingTypeOK' /\ FlowTypeOK' /\ PassTypeOK' /\ CaptureTypeOK' /\ EntryInHand'
    <3>1. CASE CopyFailed BY <3>1, CopyFailedType
    <3>2. CASE /\ GoTo("writeJson") /\ files' = files \cup {cur}
               /\ UNCHANGED <<ringVars, quar, passVars, cap, finalizing, stopSeg, sess, moved,
                              capBase, capLast>>
      <4>1. FlowTypeOK' BY <3>2 DEF GoTo, FlowTypeOK, PCs
      <4>2. EntryInHand' BY <3>2, <1>a DEF passVars, EntryInHand
      <4>3. CaptureTypeOK' BY <3>2, <1>a DEF CaptureTypeOK
      <4> QED BY <3>2, <4>1, <4>2, <4>3, Frame
    <3> QED BY <2>1, <3>1, <3>2
  <2> QED BY <1>2, <2>2, <2>3, <2>4, Frame DEF CopyStat
<1>3. CASE WriteJson
  <2>1. PICK o \in Outcome :
          /\ Charge(o) /\ WriteSession(o, "recording")
          /\ IF Told(o) THEN CopyNext("writeExport") ELSE CopyFailed
    BY <1>3 DEF WriteJson
  <2>2. CardTypeOK' BY <1>3, <2>1, WriteSessionType DEF WriteJson
  <2>3. RingTypeOK' /\ FlowTypeOK' /\ PassTypeOK' /\ CaptureTypeOK' /\ EntryInHand'
    BY <1>a, <1>b, <2>1, CopyNextType, CopyFailedType
  <2>4. BudgetTypeOK' BY <2>1, ChargeType
  <2> QED BY <1>3, <2>2, <2>3, <2>4, Frame DEF WriteJson
<1>4. CASE WriteExport
  <2>1. PICK o \in Outcome :
          /\ Charge(o) /\ WriteManifest(o)
          /\ IF Told(o) THEN CopyNext("retireMcap") ELSE CopyFailed
    BY <1>4 DEF WriteExport
  <2>2. CardTypeOK' BY <1>4, <2>1, WriteManifestType DEF WriteExport
  <2>3. RingTypeOK' /\ FlowTypeOK' /\ PassTypeOK' /\ CaptureTypeOK' /\ EntryInHand'
    BY <1>a, <1>b, <2>1, CopyNextType, CopyFailedType
  <2>4. BudgetTypeOK' BY <2>1, ChargeType
  <2> QED BY <1>4, <2>2, <2>3, <2>4, Frame DEF WriteExport
<1>5. CASE RetireMcap
  <2>1. CASE /\ Charge("ok") /\ ringMcap' = ringMcap \ {cur} /\ GoTo("retireStat")
             /\ boundary' = IF why = "capture" THEN boundary ELSE cur
             /\ UNCHANGED <<prod, recording, todo, quar, capVars, discarded>>
    <3>1. RingTypeOK' BY <1>5, <2>1 DEF RetireMcap, RingTypeOK, recording
    <3>2. FlowTypeOK' BY <2>1 DEF GoTo, FlowTypeOK, PCs
    <3>3. EntryInHand' BY <2>1, <1>a DEF EntryInHand
    <3>4. HistoryTypeOK'
      BY <1>5, <2>1, <1>a, ZeroInRange DEF RetireMcap, notRetire, HistoryTypeOK
    <3>5. BudgetTypeOK' BY <2>1, ChargeType DEF Outcome
    <3>6. PassTypeOK' BY <1>5, <2>1 DEF RetireMcap, notRetire, PassTypeOK
    <3>7. BaselineTypeOK' BY <1>5, <2>1 DEF RetireMcap, notRetire, BaselineTypeOK
    <3> QED BY <1>5, <2>1, <3>1, <3>2, <3>3, <3>4, <3>5, <3>6, <3>7, Frame
            DEF RetireMcap, notRetire
  <2>2. CASE Charge("lost") /\ RetireFailed /\ UNCHANGED <<ringMcap, boundary>>
    <3>1. /\ RingTypeOK' /\ FlowTypeOK' /\ PassTypeOK' /\ CaptureTypeOK' /\ EntryInHand'
          /\ discarded' \in BOOLEAN
      BY <1>5, <2>2, RetireFailedType DEF RetireMcap, notRetire, RingTypeOK
    <3>2. BudgetTypeOK' BY <2>2, ChargeType DEF Outcome
    <3>3. HistoryTypeOK' BY <1>5, <2>2 DEF RetireMcap, notRetire, HistoryTypeOK
    <3>4. BaselineTypeOK' BY <1>5, <3>1 DEF RetireMcap, notRetire, BaselineTypeOK
    <3> QED BY <1>5, <3>1, <3>2, <3>3, <3>4, Frame DEF RetireMcap, notRetire
  <2> QED BY <1>5, <2>1, <2>2 DEF RetireMcap
<1>6. CASE RetireStat
  <2>0. UNCHANGED <<sdVars, markVars>> /\ HistoryTypeOK'
    BY <1>6 DEF RetireStat, notRetire, HistoryTypeOK
  <2>1. CASE /\ Charge("ok") /\ ringStat' = ringStat \ {cur} /\ Retired
             /\ UNCHANGED <<prod, recording, ringMcap, quar>>
    <3>1. RingTypeOK' BY <2>1 DEF RingTypeOK, recording
    <3>2. FlowTypeOK' /\ PassTypeOK' /\ CaptureTypeOK' /\ EntryInHand' /\ discarded' \in BOOLEAN
      BY <1>6, <2>1, RetiredType DEF RetireStat, notRetire
    <3>3. BudgetTypeOK' BY <2>1, ChargeType DEF Outcome
    <3>4. BaselineTypeOK' BY <1>6, <3>2 DEF RetireStat, notRetire, BaselineTypeOK
    <3> QED BY <2>0, <3>1, <3>2, <3>3, <3>4, Frame
  <2>2. CASE \E o \in {"lost", "late"} :
               Charge(o) /\ RetireFailed /\ ringStat' \subseteq Seg /\ ringMcap' \subseteq Seg
    <3>1. /\ RingTypeOK' /\ FlowTypeOK' /\ PassTypeOK' /\ CaptureTypeOK' /\ EntryInHand'
          /\ discarded' \in BOOLEAN
      BY <1>6, <2>2, RetireFailedType DEF RetireStat, notRetire
    <3>2. BudgetTypeOK' BY <2>2, ChargeType DEF Outcome
    <3>3. BaselineTypeOK' BY <1>6, <3>1 DEF RetireStat, notRetire, BaselineTypeOK
    <3> QED BY <2>0, <3>1, <3>2, <3>3, Frame
  <2>3. ringStat \ {cur} \subseteq Seg /\ ringMcap \cup {cur} \subseteq Seg /\ ringMcap \subseteq Seg
        /\ ringStat \subseteq Seg
    BY <1>a DEF RingTypeOK
  <2> QED BY <1>6, <2>1, <2>2, <2>3 DEF RetireStat
<1> QED BY <1>1, <1>2, <1>3, <1>4, <1>5, <1>6 DEF MoveSegment

-----------------------------------------------------------------------------
(* The end of a pass, the loop and the requests. *)
LEMMA EndPassType == TypeInv /\ EndPass => TypeInv'
<1> SUFFICES ASSUME TypeInv, EndPass PROVE TypeInv' OBVIOUS
<1> USE DEF TypeInv, TypeOK
<1>a. ret \in Resume /\ ret \in PCs \ (Carrying \cup Retiring)
  BY DEF FlowTypeOK, Resume, PassReturns, PCs, Carrying, Retiring
<1>1. CASE PassQuiet
  <2>1. FlowTypeOK' /\ EntryInHand' BY <1>1, <1>a, GoToType DEF PassQuiet
  <2>2. PassTypeOK' BY <1>1 DEF PassQuiet, PassTypeOK, RingTypeOK, OpenInRing
  <2> QED BY <1>1, <2>1, <2>2, Frame DEF PassQuiet, notPass
<1>2. CASE StaleOpen \/ StalledRecorder
  <2>1. RingTypeOK' /\ FlowTypeOK' /\ EntryInHand' /\ CaptureTypeOK'
    BY <1>2, <1>a, FailCaptureType DEF StaleOpen, StalledRecorder
  <2> QED BY <1>2, <2>1, Frame DEF StaleOpen, StalledRecorder, notPass
<1> QED BY <1>1, <1>2 DEF EndPass

LEMMA LoopType == TypeInv /\ Loop => TypeInv'
<1> SUFFICES ASSUME TypeInv, Loop PROVE TypeInv' OBVIOUS
<1> USE DEF TypeInv, TypeOK
<1>a. /\ "accept" \in Resume /\ {"accept", "idle"} \subseteq PCs \ (Carrying \cup Retiring)
      /\ "supervise" \in PassReturns
  BY DEF Resume, PassReturns, PCs, Carrying, Retiring
<1>1. CASE LoopPass
  <2>1. FlowTypeOK' /\ PassTypeOK' /\ EntryInHand' BY <1>1, <1>a, PassType DEF LoopPass, Pass
  <2> QED BY <1>1, <2>1, Frame DEF LoopPass, Pass
<1>2. CASE SuperviseQuiet \/ NoRequest
  <2>1. FlowTypeOK' /\ EntryInHand' BY <1>2, <1>a, GoToType DEF SuperviseQuiet, NoRequest
  <2> QED BY <1>2, <2>1, Frame DEF SuperviseQuiet, NoRequest, elsewhere
<1>3. CASE SuperviseLoss
  <2>1. RingTypeOK' /\ FlowTypeOK' /\ EntryInHand' BY <1>3, <1>a, QuarantineType
    DEF SuperviseLoss, FailCaptureThen
  <2>2. CaptureTypeOK' BY <1>3 DEF SuperviseLoss, FailCaptureThen, capRest, CaptureTypeOK
  <2> QED BY <1>3, <2>1, <2>2, Frame DEF SuperviseLoss, elsewhere
<1> QED BY <1>1, <1>2, <1>3 DEF Loop

LEMMA BeginCaptureType == TypeInv /\ Control /\ BeginCapture => TypeInv'
<1> SUFFICES ASSUME TypeInv, Control, BeginCapture PROVE TypeInv' OBVIOUS
<1> USE DEF TypeInv, TypeOK
<1>a. /\ {"alignCheck", "idle", "alignPending", "mark", "openSess", "undo"}
           \subseteq PCs \ (Carrying \cup Retiring)
      /\ "idle" \in Resume /\ {"alignBase", "alignCheck"} \subseteq PassReturns
  BY DEF Resume, PassReturns, PCs, Carrying, Retiring
<1>1. CASE StartRequest
  <2>1. FlowTypeOK' /\ PassTypeOK' /\ EntryInHand' BY <1>1, <1>a, PassType DEF StartRequest, Pass
  <2>2. BaselineTypeOK' BY <1>1 DEF StartRequest, BaselineTypeOK
  <2>3. HistoryTypeOK' BY <1>1 DEF StartRequest, HistoryTypeOK, RingTypeOK
  <2> QED BY <1>1, <2>1, <2>2, <2>3, Frame DEF StartRequest, Pass
<1>2. CASE AlignBase
  <2>1. FlowTypeOK' /\ EntryInHand' BY <1>2, <1>a, GoToType DEF AlignBase
  <2>2. BaselineTypeOK' BY <1>2 DEF AlignBase, CountFromHere, BaselineTypeOK
  <2> QED BY <1>2, <2>1, <2>2, Frame DEF AlignBase, elsewhere
<1>3. CASE AlignAgain
  <2>1. FlowTypeOK' /\ PassTypeOK' /\ EntryInHand' BY <1>3, <1>a, PassType DEF AlignAgain, Pass
  <2> QED BY <1>3, <2>1, Frame DEF AlignAgain, Pass
<1>4. CASE AlignRefused \/ AlignTimeout \/ Aligned
  <2>1. FlowTypeOK' /\ EntryInHand' BY <1>4, <1>a, GoToType DEF AlignRefused, AlignTimeout, Aligned
  <2> QED BY <1>4, <2>1, Frame DEF AlignRefused, AlignTimeout, Aligned, elsewhere
<1>5. CASE RefuseUnfinished
  <2>1. RingTypeOK' /\ FlowTypeOK' /\ EntryInHand'
    BY <1>5, <1>a, QuarantineType DEF RefuseUnfinished
  <2> QED BY <1>5, <2>1, Frame DEF RefuseUnfinished, elsewhere
<1>6. CASE Activate
  <2>1. FlowTypeOK' /\ EntryInHand' BY <1>6, <1>a, GoToType DEF Activate
  <2>2. used + 1 \in Sess /\ used + 1 \in 0 .. MaxSess
    BY <1>6, BoundsAssumption DEF Activate, HistoryTypeOK, Sess
  <2>3. CaptureTypeOK' BY <1>6, <2>2, ZeroInRange DEF Activate, CaptureTypeOK, BaselineTypeOK
  <2>4. HistoryTypeOK' BY <1>6, <2>2 DEF Activate, HistoryTypeOK
  <2> QED BY <1>6, <2>1, <2>3, <2>4, Frame DEF Activate
<1>7. CASE WriteMark
  <2>1. PICK o \in Outcome : /\ Charge(o) /\ activeMark' = (activeMark \/ Commits(o))
                             /\ GoTo(IF Told(o) THEN "openSess" ELSE "undo")
    BY <1>7 DEF WriteMark
  <2>2. CardTypeOK' BY <1>7, <2>1 DEF WriteMark, CardTypeOK, sdVars
  <2>3. FlowTypeOK' /\ EntryInHand' BY <1>7, <1>a, <2>1, GoToType DEF WriteMark
  <2>4. BudgetTypeOK' BY <2>1, ChargeType
  <2> QED BY <1>7, <2>2, <2>3, <2>4, Frame DEF WriteMark
<1>8. CASE OpenSession
  <2>1. PICK o \in Outcome :
          /\ Charge(o) /\ WriteSession(o, "recording")
          /\ GoTo(IF Told(o) THEN "idle" ELSE "undo")
          /\ claimed' = IF Told(o) THEN claimed \cup {sess} ELSE claimed
    BY <1>8 DEF OpenSession
  <2>2. CardTypeOK' BY <1>8, <2>1, WriteSessionType DEF OpenSession
  <2>3. FlowTypeOK' /\ EntryInHand' BY <1>8, <1>a, <2>1, GoToType DEF OpenSession
  <2>4. BudgetTypeOK' BY <2>1, ChargeType
  <2>5. sess \in Sess BY <1>8 DEF OpenSession, Control, Writing, CaptureTypeOK, Sess
  <2>6. HistoryTypeOK' BY <1>8, <2>1, <2>5 DEF OpenSession, HistoryTypeOK
  <2> QED BY <1>8, <2>2, <2>3, <2>4, <2>6, Frame DEF OpenSession
<1>9. CASE UndoStart
  <2>1. PICK o \in Outcome : Charge(o) /\ activeMark' = (activeMark /\ ~Commits(o))
    BY <1>9 DEF UndoStart
  <2>2. CardTypeOK' BY <1>9, <2>1 DEF UndoStart, CardTypeOK, sdVars
  <2>3. FlowTypeOK' /\ EntryInHand' BY <1>9, <1>a, GoToType DEF UndoStart
  <2>4. CaptureTypeOK' BY <1>9, ResetCaptureType DEF UndoStart
  <2>5. BudgetTypeOK' BY <2>1, ChargeType
  <2> QED BY <1>9, <2>2, <2>3, <2>4, <2>5, Frame DEF UndoStart
<1> QED BY <1>1, <1>2, <1>3, <1>4, <1>5, <1>6, <1>7, <1>8, <1>9 DEF BeginCapture

LEMMA FinalizeCaptureType == TypeInv /\ Control /\ FinalizeCapture => TypeInv'
<1> SUFFICES ASSUME TypeInv, Control, FinalizeCapture PROVE TypeInv' OBVIOUS
<1> USE DEF TypeInv, TypeOK
<1>a. /\ {"idle", "commit", "commitExport", "clearMark", "stopFail"} \subseteq PCs \ (Carrying \cup Retiring)
      /\ "idle" \in Resume /\ "stopFail" \in Resume /\ "stopCheck" \in PassReturns
  BY DEF Resume, PassReturns, PCs, Carrying, Retiring
<1>b. find_stop_segment \in 0 .. MaxSeg
  <2>1. CASE ringMcap = {} BY <2>1, ZeroInRange DEF find_stop_segment
  <2>2. CASE ringMcap # {}
    <3>1. Max(ringMcap) \in Seg BY <2>2, SegmentsAreFinite, MaxBelongs DEF RingTypeOK
    <3> QED BY <2>2, <3>1, ZeroInRange DEF find_stop_segment
  <2> QED BY <2>1, <2>2
<1>c. ASSUME CommitFailed \/ (\E p \in {"commitExport", "clearMark"} : CommitNext(p))
      PROVE  RingTypeOK' /\ FlowTypeOK' /\ CaptureTypeOK' /\ EntryInHand'
  <2>1. CASE CommitFailed BY <1>a, <2>1, FailCaptureType DEF CommitFailed
  <2>2. ASSUME NEW p \in {"commitExport", "clearMark"}, CommitNext(p)
        PROVE  RingTypeOK' /\ FlowTypeOK' /\ CaptureTypeOK' /\ EntryInHand'
    <3>1. FlowTypeOK' /\ EntryInHand' BY <1>a, <2>2, GoToType DEF CommitNext
    <3> QED BY <2>2, <3>1, Frame DEF CommitNext
  <2> QED BY <1>c, <2>1, <2>2
<1>1. CASE StopFailedCapture
  <2>1. RingTypeOK' /\ FlowTypeOK' /\ EntryInHand'
    BY <1>1, <1>a, QuarantineType DEF StopFailedCapture
  <2> QED BY <1>1, <2>1, Frame DEF StopFailedCapture, elsewhere
<1>2. CASE StopRequest \/ StopWait
  <2>1. FlowTypeOK' /\ PassTypeOK' /\ EntryInHand'
    BY <1>2, <1>a, PassType DEF StopRequest, StopWait, Pass
  <2>2. CaptureTypeOK' BY <1>2, <1>b DEF StopRequest, StopWait, LateBoundary, CaptureTypeOK
  <2> QED BY <1>2, <2>1, <2>2, Frame DEF StopRequest, StopWait, Pass
<1>3. CASE StopInterrupted \/ StopSaved
  <2>1. FlowTypeOK' /\ EntryInHand' BY <1>3, <1>a, GoToType DEF StopInterrupted, StopSaved
  <2> QED BY <1>3, <2>1, Frame DEF StopInterrupted, StopSaved, elsewhere
<1>4. CASE StopRecorderGone
  <2>1. RingTypeOK' /\ FlowTypeOK' /\ EntryInHand' /\ CaptureTypeOK'
    BY <1>4, <1>a, FailCaptureType DEF StopRecorderGone
  <2> QED BY <1>4, <2>1, Frame DEF StopRecorderGone, elsewhere
<1>5. CASE StopTimeout
  <2>1. RingTypeOK' /\ FlowTypeOK' /\ EntryInHand'
    BY <1>5, <1>a, QuarantineType DEF StopTimeout, GiveUp
  <2>2. CaptureTypeOK' BY <1>5, <1>b DEF StopTimeout, LateBoundary, CaptureTypeOK
  <2> QED BY <1>5, <2>1, <2>2, Frame DEF StopTimeout, elsewhere
<1>6. CASE StopFail
  <2>1. PICK o \in Outcome : Charge(o) /\ WriteSession(o, "failed") BY <1>6 DEF StopFail
  <2>2. CardTypeOK' BY <1>6, <2>1, WriteSessionType DEF StopFail
  <2>3. FlowTypeOK' /\ EntryInHand' BY <1>6, <1>a, GoToType DEF StopFail
  <2>4. CaptureTypeOK' BY <1>6, ResetCaptureType DEF StopFail
  <2>5. BudgetTypeOK' BY <2>1, ChargeType
  <2> QED BY <1>6, <2>2, <2>3, <2>4, <2>5, Frame DEF StopFail
<1>7. CASE CommitSession
  <2>1. PICK o \in Outcome :
          /\ Charge(o) /\ WriteSession(o, "complete")
          /\ IF Told(o) THEN CommitNext("commitExport") ELSE CommitFailed
    BY <1>7 DEF CommitSession
  <2>2. CardTypeOK' BY <1>7, <2>1, WriteSessionType DEF CommitSession
  <2>3. RingTypeOK' /\ FlowTypeOK' /\ CaptureTypeOK' /\ EntryInHand' BY <1>c, <2>1
  <2>4. BudgetTypeOK' BY <2>1, ChargeType
  <2> QED BY <1>7, <2>2, <2>3, <2>4, Frame DEF CommitSession
<1>8. CASE CommitExport
  <2>1. PICK o \in Outcome :
          /\ Charge(o) /\ WriteManifest(o)
          /\ IF Told(o) THEN CommitNext("clearMark") ELSE CommitFailed
    BY <1>8 DEF CommitExport
  <2>2. CardTypeOK' BY <1>8, <2>1, WriteManifestType DEF CommitExport
  <2>3. RingTypeOK' /\ FlowTypeOK' /\ CaptureTypeOK' /\ EntryInHand' BY <1>c, <2>1
  <2>4. BudgetTypeOK' BY <2>1, ChargeType
  <2> QED BY <1>8, <2>2, <2>3, <2>4, Frame DEF CommitExport
<1>9. CASE ClearMark
  <2>1. PICK o \in Outcome :
          /\ Charge(o) /\ activeMark' = (activeMark /\ ~Commits(o))
          /\ \/ /\ Told(o) /\ acked' = acked \cup {sess} /\ reset_capture /\ GoTo("idle")
                /\ UNCHANGED <<ringVars, quar>>
             \/ ~Told(o) /\ CommitFailed /\ UNCHANGED acked
    BY <1>9 DEF ClearMark
  <2>2. CardTypeOK' BY <1>9, <2>1 DEF ClearMark, CardTypeOK, sdVars
  <2>3. sess \in Sess BY <1>9 DEF ClearMark, Control, Writing, CaptureTypeOK, Sess
  <2>4. HistoryTypeOK' BY <1>9, <2>1, <2>3 DEF ClearMark, HistoryTypeOK
  <2>5. BudgetTypeOK' BY <2>1, ChargeType
  <2>6. RingTypeOK' /\ FlowTypeOK' /\ CaptureTypeOK' /\ EntryInHand'
    <3>1. CASE CommitFailed BY <1>c, <3>1
    <3>2. CASE reset_capture /\ GoTo("idle") /\ UNCHANGED <<ringVars, quar>>
      <4>1. FlowTypeOK' /\ EntryInHand' BY <1>a, <3>2, GoToType
      <4> QED BY <3>2, <4>1, ResetCaptureType, Frame
    <3> QED BY <2>1, <3>1, <3>2
  <2> QED BY <1>9, <2>2, <2>4, <2>5, <2>6, Frame DEF ClearMark
<1> QED BY <1>1, <1>2, <1>3, <1>4, <1>5, <1>6, <1>7, <1>8, <1>9 DEF FinalizeCapture

LEMMA BootType == TypeInv /\ Boot => TypeInv'
<1> SUFFICES ASSUME TypeInv, Boot PROVE TypeInv' OBVIOUS
<1> USE DEF TypeInv, TypeOK
<1>a. /\ {"bootSess", "bootAdopt", "idle"} \subseteq PCs \ (Carrying \cup Retiring)
      /\ {"bootSess", "bootAdopt"} \subseteq Resume /\ "bootStart" \in PassReturns
  BY DEF Resume, PassReturns, PCs, Carrying, Retiring
<1>b. UNCHANGED bootVars => UNCHANGED <<passVars, capVars, histVars>> BY DEF bootVars, passVars
<1>c. ResetBaseline => baseLast' \in 0 .. MaxSeg /\ baseStable' \in 0 .. StableSegments /\ hasClean' \in BOOLEAN
  <2>1. 0 \in 0 .. StableSegments BY StableAssumption
  <2> QED BY <2>1, ZeroInRange DEF ResetBaseline
<1>1. CASE LoadQuarantine
  <2>1. FlowTypeOK' BY <1>1 DEF LoadQuarantine, GoTo, FlowTypeOK, PCs, Resume
  <2>2. EntryInHand' BY <1>1, <1>a DEF LoadQuarantine, GoTo, EntryInHand
  <2>3. RingTypeOK' BY <1>1 DEF LoadQuarantine, RingTypeOK, recording, ring
  <2> QED BY <1>1, <1>b, <2>1, <2>2, <2>3, Frame DEF LoadQuarantine
<1>2. CASE RecoverActive
  <2>1. RingTypeOK' /\ FlowTypeOK' /\ EntryInHand' BY <1>2, <1>a, QuarantineType DEF RecoverActive
  <2> QED BY <1>2, <1>b, <2>1, Frame DEF RecoverActive
<1>3. CASE NothingToRecover
  <2>1. FlowTypeOK' /\ EntryInHand' BY <1>3, <1>a, GoToType DEF NothingToRecover
  <2> QED BY <1>3, <1>b, <2>1, Frame DEF NothingToRecover
<1>4. CASE RecoverSessions
  <2>1. PICK done \in SUBSET interrupted : \E told \in SUBSET done :
          /\ Charge(IF told = interrupted THEN "ok" ELSE "lost")
          /\ MarkInterrupted(done, told)
          /\ IF told # {} /\ ~quar
               THEN QuarantineThen("bootAdopt", FALSE)
               ELSE GoTo("bootAdopt") /\ UNCHANGED <<quar, prod>>
    BY <1>4 DEF RecoverSessions
  <2>2. CardTypeOK' BY <1>4, <2>1, MarkInterruptedType DEF RecoverSessions
  <2>3. \E o \in Outcome : Charge(o) BY <2>1 DEF Outcome
  <2>4. BudgetTypeOK' BY <2>3, ChargeType
  <2>5. RingTypeOK' /\ FlowTypeOK' /\ EntryInHand'
    <3>1. CASE QuarantineThen("bootAdopt", FALSE)
      BY <1>4, <1>a, <3>1, QuarantineType DEF RecoverSessions
    <3>2. CASE GoTo("bootAdopt") /\ UNCHANGED <<quar, prod>>
      <4>1. FlowTypeOK' /\ EntryInHand' BY <1>a, <3>2, GoToType
      <4>2. RingTypeOK' BY <1>4, <3>2 DEF RecoverSessions, RingTypeOK, recording, ring
      <4> QED BY <4>1, <4>2
    <3> QED BY <2>1, <3>1, <3>2
  <2> QED BY <1>4, <1>b, <2>2, <2>4, <2>5, Frame DEF RecoverSessions
<1>5. CASE BootAdopt
  <2>1. FlowTypeOK' /\ PassTypeOK' /\ EntryInHand' BY <1>5, <1>a, PassType DEF BootAdopt, Pass
  <2>2. BaselineTypeOK' BY <1>5, <1>c DEF BootAdopt, BaselineTypeOK
  <2> QED BY <1>5, <2>1, <2>2, Frame DEF BootAdopt, Pass
<1>6. CASE BootQuarantined \/ BootDone
  <2>1. FlowTypeOK' /\ EntryInHand' BY <1>6, <1>a, GoToType DEF BootQuarantined, BootDone
  <2> QED BY <1>6, <2>1, Frame DEF BootQuarantined, BootDone, elsewhere
<1>7. CASE BootStartRecorder
  <2>1. FlowTypeOK' /\ EntryInHand' BY <1>7, <1>a, GoToType DEF BootStartRecorder
  <2>2. BaselineTypeOK' BY <1>7, <1>c DEF BootStartRecorder, BaselineTypeOK
  <2>3. RingTypeOK' BY <1>7 DEF BootStartRecorder, RingTypeOK, ring
  <2> QED BY <1>7, <2>1, <2>2, <2>3, Frame DEF BootStartRecorder, elsewhere
<1>8. CASE BootWithoutRecorder
  <2>1. FlowTypeOK' /\ EntryInHand' BY <1>8, <1>a, GoToType DEF BootWithoutRecorder
  <2>2. BudgetTypeOK' BY <1>8, ChargeType DEF BootWithoutRecorder, Outcome
  <2> QED BY <1>8, <2>1, <2>2, Frame DEF BootWithoutRecorder
<1> QED BY <1>1, <1>2, <1>3, <1>4, <1>5, <1>6, <1>7, <1>8 DEF Boot

(* A crash of the service and a power loss. *)
LEMMA RestartType == TypeInv /\ (Crash \/ PowerLoss) => TypeInv'
<1> SUFFICES ASSUME TypeInv, Crash \/ PowerLoss PROVE TypeInv' OBVIOUS
<1> USE DEF TypeInv, TypeOK
<1>1. ServiceRestarts BY DEF Crash, PowerLoss
<1>2. FlowTypeOK' BY <1>1 DEF ServiceRestarts, FlowTypeOK, PCs, Resume, PassReturns
<1>3. PassTypeOK' BY <1>1 DEF ServiceRestarts, PassTypeOK
<1>4. EntryInHand' BY <1>1 DEF ServiceRestarts, EntryInHand, Carrying, Retiring
<1>5. CaptureTypeOK' BY <1>1, ResetCaptureType DEF ServiceRestarts
<1>6. 0 \in 0 .. StableSegments BY StableAssumption
<1>7. BaselineTypeOK' BY <1>1, <1>6, ZeroInRange DEF ServiceRestarts, ResetBaseline, BaselineTypeOK
<1>8. BudgetTypeOK' BY BoundsAssumption DEF Crash, PowerLoss, BudgetTypeOK
<1>9. RingTypeOK' BY Frame DEF Crash, PowerLoss, RingTypeOK, recording
<1>10. CardTypeOK'
  <2>1. CASE Crash BY <2>1, CutShortType DEF Crash
  <2>2. CASE PowerLoss BY <2>2 DEF PowerLoss, CardTypeOK
  <2> QED BY <2>1, <2>2
<1> QED BY <1>2, <1>3, <1>4, <1>5, <1>7, <1>8, <1>9, <1>10, Frame DEF Crash, PowerLoss

LEMMA InitType == Init => TypeInv /\ Control
<1> SUFFICES ASSUME Init PROVE TypeInv /\ Control OBVIOUS
<1> USE DEF Init, ServiceStart
<1>1. 0 \in 0 .. StableSegments /\ 0 \in 0 .. MaxUpset BY StableAssumption, BoundsAssumption
<1>2. RingTypeOK BY <1>1, ZeroInRange DEF RingTypeOK, SideKinds
<1>3. CardTypeOK BY DEF CardTypeOK
<1>4. FlowTypeOK BY DEF FlowTypeOK, PCs, Resume, PassReturns
<1>5. PassTypeOK BY DEF PassTypeOK
<1>6. CaptureTypeOK BY ZeroInRange DEF CaptureTypeOK
<1>7. BaselineTypeOK BY <1>1, ZeroInRange DEF BaselineTypeOK
<1>8. HistoryTypeOK BY ZeroInRange DEF HistoryTypeOK
<1>9. BudgetTypeOK BY BoundsAssumption DEF BudgetTypeOK
<1>10. EntryInHand BY DEF EntryInHand, Carrying, Retiring
<1>11. Control BY DEF Control, Writing, Carrying, Retiring
<1> QED BY <1>2, <1>3, <1>4, <1>5, <1>6, <1>7, <1>8, <1>9, <1>10, <1>11 DEF TypeInv, TypeOK

LEMMA TypeStep == TypeInv /\ Control /\ [Next]_vars => TypeInv' /\ Control'
<1> SUFFICES ASSUME TypeInv, Control, [Next]_vars PROVE TypeInv' BY ControlStep
<1>1. CASE Next
  BY <1>1, RecorderType, QuarantiningType, ProcessEntryType, MoveSegmentType, EndPassType, LoopType,
     BeginCaptureType, FinalizeCaptureType, BootType, RestartType DEF Next, Service
<1>2. CASE UNCHANGED vars BY <1>2, Frame DEF vars, TypeInv, TypeOK
<1> QED BY <1>1, <1>2

(* Every variable of the recorder, the card and the service stays in its   *)
(* range, and the service is where Control says it is.                     *)
THEOREM TypeCorrect == Spec => []TypeOK
<1>1. Spec => [](TypeInv /\ Control) BY InitType, TypeStep, PTL DEF Spec
<1>2. TypeInv /\ Control => TypeOK BY DEF TypeInv
<1> QED BY <1>1, <1>2, PTL

-----------------------------------------------------------------------------
(* What the manifests list is durable. *)

(* The pass has a pair in hand whose MCAP is already on the card. *)
InHand == pc \in {"copyStat", "writeJson", "writeExport"} \/ (pc \in Retiring /\ why = "capture")

(* ListedIsDurable is inductive once the files of the session being        *)
(* recorded, from which both manifests are written, are known durable, as  *)
(* well as what a power loss would leave of the manifests, and the pair in *)
(* hand is known to have got as far as its position says.                  *)
Durable ==
  /\ ListedIsDurable
  /\ \A s \in Sess : sdListed[s] \cup sdExported[s] \subseteq sdMcap[s] \cap sdStat[s]
  /\ sess # 0 => files \subseteq sdMcap[sess] \cap sdStat[sess]
  /\ pc = "copyStat" => cur \in sdMcap[sess]
  /\ InHand /\ pc # "copyStat" => cur \in files
  /\ pc \in Retiring /\ why = "capture" => cur \in exported[sess]

(* A list that a step publishes is empty, was on the card before, or is    *)
(* the list of the session's files.                                        *)
Follows(list) ==
  \A s \in Sess : \/ list[s] \in {{}, listed[s], exported[s], sdListed[s], sdExported[s]}
                  \/ s = sess /\ list[s] = files

ListsFollow ==
  /\ UNCHANGED <<sdMcap, sdStat>>
  /\ Follows(listed') /\ Follows(exported') /\ Follows(sdListed') /\ Follows(sdExported')

LEMMA CardListsFollow ==
  ASSUME CardTypeOK,
         \/ UNCHANGED sdVars
         \/ \E o \in Outcome, state \in {"recording", "complete", "failed"} : WriteSession(o, state)
         \/ \E o \in Outcome : WriteManifest(o)
         \/ \E done, told : MarkInterrupted(done, told)
  PROVE  ListsFollow
<1>1. CASE UNCHANGED sdVars BY <1>1 DEF sdVars, ListsFollow, Follows
<1>2. ASSUME NEW o \in Outcome, NEW state, WriteSession(o, state) PROVE ListsFollow
  <2>1. UNCHANGED <<sdMcap, sdStat, exported, sdExported>> BY <1>2 DEF WriteSession
  <2>2. Follows(listed') BY <1>2 DEF WriteSession, CardTypeOK, Follows
  <2>3. Follows(sdListed') BY <1>2 DEF WriteSession, CardTypeOK, Follows, Stored
  <2> QED BY <2>1, <2>2, <2>3 DEF ListsFollow, Follows
<1>3. ASSUME NEW o \in Outcome, WriteManifest(o) PROVE ListsFollow
  <2>1. UNCHANGED <<sdMcap, sdStat, listed, sdListed>> BY <1>3 DEF WriteManifest
  <2>2. Follows(exported') BY <1>3 DEF WriteManifest, CardTypeOK, Follows
  <2>3. Follows(sdExported') BY <1>3 DEF WriteManifest, CardTypeOK, Follows, Stored
  <2> QED BY <2>1, <2>2, <2>3 DEF ListsFollow, Follows
<1>4. ASSUME NEW done, NEW told, MarkInterrupted(done, told) PROVE ListsFollow
  <2>1. UNCHANGED <<sdMcap, sdStat, listed, exported, sdExported>> BY <1>4 DEF MarkInterrupted
  <2>2. Follows(sdListed') BY <1>4 DEF MarkInterrupted, Follows
  <2> QED BY <2>1, <2>2 DEF ListsFollow, Follows
<1> QED BY <1>1, <1>2, <1>3, <1>4

LEMMA RestartListsFollow ==
  ASSUME CardTypeOK, Crash \/ PowerLoss
  PROVE  ListsFollow
<1>1. CASE Crash BY <1>1, CardListsFollow DEF Crash, CutShort
<1>2. CASE PowerLoss BY <1>2 DEF PowerLoss, ListsFollow, Follows
<1> QED BY <1>1, <1>2

(* A step that has no pair in hand and publishes at most the list of the   *)
(* session's files keeps Durable.                                          *)
Publishes ==
  /\ ~InHand' /\ ListsFollow
  /\ (files' = files /\ sess' = sess) \/ files' = {}

LEMMA ManifestIsDurable ==
  ASSUME NEW list, TypeOK, Durable, Follows(list)
  PROVE  \A s \in Sess : list[s] \subseteq sdMcap[s] \cap sdStat[s]
<1>1. SUFFICES ASSUME NEW s \in Sess PROVE list[s] \subseteq sdMcap[s] \cap sdStat[s] OBVIOUS
<1>2. s # 0 BY DEF Sess
<1> QED BY <1>2 DEF Durable, ListedIsDurable, Follows

LEMMA FollowingIsDurable ==
  ASSUME TypeOK, Durable, ListsFollow
  PROVE  /\ ListedIsDurable'
         /\ \A s \in Sess : sdListed'[s] \cup sdExported'[s] \subseteq sdMcap'[s] \cap sdStat'[s]
<1>1. \A s \in Sess : listed'[s] \cup exported'[s] \subseteq sdMcap[s] \cap sdStat[s]
  BY ManifestIsDurable DEF ListsFollow
<1>2. \A s \in Sess : sdListed'[s] \cup sdExported'[s] \subseteq sdMcap[s] \cap sdStat[s]
  BY ManifestIsDurable DEF ListsFollow
<1> QED BY <1>1, <1>2 DEF ListedIsDurable, ListsFollow

LEMMA PublishesIsDurable ==
  ASSUME TypeInv, Durable, Publishes
  PROVE  Durable'
<1>1. /\ ListedIsDurable'
      /\ \A s \in Sess : sdListed'[s] \cup sdExported'[s] \subseteq sdMcap'[s] \cap sdStat'[s]
  BY FollowingIsDurable DEF Publishes, TypeInv
<1>2. (sess # 0 => files \subseteq sdMcap[sess] \cap sdStat[sess])'
  BY DEF Publishes, Durable, ListsFollow
<1>3. pc' # "copyStat" /\ ~(pc' \in Retiring /\ why' = "capture") BY DEF Publishes, InHand
<1> QED BY <1>1, <1>2, <1>3 DEF Durable, Publishes

LEMMA EntryPublishes ==
  ASSUME TypeInv, ProcessEntry
  PROVE  Publishes
<1>a. UNCHANGED sdVars
  BY DEF ProcessEntry, notPass, EndEntries, PendingEntry, StalePending, SettlingEntry, AcceptSegment,
         RejectSegment, SkipForFailedCapture, ObserveSteady, ObserveUnsteady, InvalidateBaseline,
         DiscardResidue, QuarantineSuspect, SkipSuspect
<1>b. UNCHANGED <<files, sess>>
  BY DEF ProcessEntry, capVars, capRest, EndEntries, PendingEntry, StalePending, SettlingEntry,
         AcceptSegment, RejectSegment, SkipForFailedCapture, ObserveSteady, ObserveUnsteady,
         InvalidateBaseline, DiscardResidue, QuarantineSuspect, SkipSuspect
<1>c. ~InHand'
  <2>1. ASSUME NEW reason \in {"idle", "warmup"}, RetireUnlessQuarantined(reason)
        PROVE  ~InHand'
    BY <2>1 DEF RetireUnlessQuarantined, RetireOrLeave, SkipEntry, GoTo, InHand, Retiring
  <2>2. CASE ObserveSteady \/ ObserveUnsteady \/ InvalidateBaseline \/ DiscardResidue
    BY <2>1, <2>2 DEF ObserveSteady, ObserveUnsteady, InvalidateBaseline, DiscardResidue
  <2>3. CASE ~(ObserveSteady \/ ObserveUnsteady \/ InvalidateBaseline \/ DiscardResidue)
    <3>1. pc' \in {"passEnd", "quarMark", "copyMcap", "entry"}
      BY <2>3 DEF ProcessEntry, EndEntries, PendingEntry, StalePending, SettlingEntry,
                  AcceptSegment, RejectSegment, SkipForFailedCapture, QuarantineSuspect, SkipSuspect,
                  SkipEntry, GoTo, FailOrQuarantineThen, FailCaptureThen, QuarantineThen
    <3> QED BY <3>1 DEF InHand, Retiring
  <2> QED BY <2>2, <2>3
<1>d. ListsFollow BY <1>a, CardListsFollow DEF TypeInv, TypeOK
<1> QED BY <1>b, <1>c, <1>d DEF Publishes

LEMMA QuietPublishes ==
  ASSUME TypeInv, Quarantining \/ EndPass \/ Loop \/ Boot
  PROVE  Publishes
<1>1. pc' \notin Busy
  <2>1. CASE Quarantining
    BY <2>1, NotBusy DEF Quarantining, PersistQuarantine, FailState, GoTo, TypeInv, TypeOK
  <2>2. "quarMark" \notin Busy /\ {"accept", "idle", "entry", "bootSess", "bootAdopt"} \cap Busy = {}
    BY DEF Busy, Writing, Carrying, Retiring
  <2>3. CASE EndPass
    BY <2>2, <2>3, NotBusy DEF EndPass, PassQuiet, StaleOpen, StalledRecorder, FailOrQuarantineThen,
       FailCaptureThen, QuarantineThen, GoTo, TypeInv, TypeOK
  <2>4. CASE Loop
    BY <2>2, <2>4 DEF Loop, LoopPass, SuperviseQuiet, SuperviseLoss, NoRequest, Pass, StartPass, GoTo,
                      FailCaptureThen, QuarantineThen
  <2>5. CASE Boot
    BY <2>2, <2>5 DEF Boot, LoadQuarantine, RecoverActive, NothingToRecover, RecoverSessions,
         BootAdopt, BootQuarantined, BootDone, BootStartRecorder, BootWithoutRecorder, Pass,
         StartPass, GoTo, QuarantineThen
  <2> QED BY <2>1, <2>3, <2>4, <2>5
<1>2. ~InHand' BY <1>1 DEF InHand, Busy, Carrying
<1>3. UNCHANGED <<files, sess>>
  <2>1. CASE Quarantining BY <2>1 DEF Quarantining, PersistQuarantine, FailState, capVars
  <2>2. CASE EndPass BY <2>2 DEF EndPass, PassQuiet, StaleOpen, StalledRecorder, capVars, capRest
  <2>3. CASE Loop
    BY <2>3 DEF Loop, LoopPass, SuperviseQuiet, SuperviseLoss, NoRequest, capVars, capRest
  <2>4. CASE Boot
    BY <2>4 DEF Boot, LoadQuarantine, RecoverActive, NothingToRecover, RecoverSessions, BootAdopt,
         BootQuarantined, BootDone, BootStartRecorder, BootWithoutRecorder, bootVars, capVars
  <2> QED BY <2>1, <2>2, <2>3, <2>4
<1>4. ListsFollow
  <2> USE DEF TypeInv, TypeOK
  <2>1. CASE Quarantining
    <3>1. UNCHANGED sdVars \/ \E o \in Outcome : WriteSession(o, "failed")
      BY <2>1 DEF Quarantining, PersistQuarantine, FailState
    <3> QED BY <3>1, CardListsFollow
  <2>2. CASE EndPass
    <3>1. UNCHANGED sdVars BY <2>2 DEF EndPass, PassQuiet, StaleOpen, StalledRecorder, notPass
    <3> QED BY <3>1, CardListsFollow
  <2>3. CASE Loop
    <3>1. UNCHANGED sdVars
      BY <2>3 DEF Loop, LoopPass, SuperviseQuiet, SuperviseLoss, NoRequest, Pass, elsewhere
    <3> QED BY <3>1, CardListsFollow
  <2>4. CASE Boot
    <3>1. UNCHANGED sdVars \/ \E done, told : MarkInterrupted(done, told)
      BY <2>4 DEF Boot, LoadQuarantine, RecoverActive, NothingToRecover, RecoverSessions, BootAdopt,
         BootQuarantined, BootDone, BootStartRecorder, BootWithoutRecorder, Pass, elsewhere
    <3> QED BY <3>1, CardListsFollow
  <2> QED BY <2>1, <2>2, <2>3, <2>4
<1> QED BY <1>2, <1>3, <1>4 DEF Publishes

LEMMA RequestPublishes ==
  ASSUME TypeInv, BeginCapture \/ FinalizeCapture \/ Crash \/ PowerLoss
  PROVE  Publishes
<1>1. ~InHand'
  <2>1. CASE BeginCapture
    BY <2>1 DEF BeginCapture, StartRequest, AlignBase, AlignAgain, AlignRefused, AlignTimeout,
         Aligned, RefuseUnfinished, Activate, WriteMark, OpenSession, UndoStart, Pass, StartPass,
         GoTo, QuarantineThen, InHand, Retiring
  <2>2. CASE FinalizeCapture
    BY <2>2 DEF FinalizeCapture, StopFailedCapture, StopRequest, StopInterrupted, StopRecorderGone,
         StopSaved, StopWait, StopTimeout, StopFail, CommitSession, CommitExport, ClearMark, GiveUp,
         CommitFailed, CommitNext, FailCaptureThen, Pass, StartPass, GoTo, QuarantineThen, InHand,
         Retiring
  <2>3. CASE Crash \/ PowerLoss BY <2>3 DEF Crash, PowerLoss, ServiceRestarts, InHand, Retiring
  <2> QED BY <2>1, <2>2, <2>3
<1>2. (files' = files /\ sess' = sess) \/ files' = {}
  <2>1. CASE BeginCapture
    BY <2>1 DEF BeginCapture, StartRequest, AlignBase, AlignAgain, AlignRefused, AlignTimeout,
         Aligned, RefuseUnfinished, Activate, WriteMark, OpenSession, UndoStart, reset_capture,
         capVars
  <2>2. CASE FinalizeCapture
    BY <2>2 DEF FinalizeCapture, StopFailedCapture, StopRequest, StopInterrupted, StopRecorderGone,
         StopSaved, StopWait, StopTimeout, StopFail, CommitSession, CommitExport, ClearMark,
         CommitFailed, CommitNext, reset_capture, capVars, capRest
  <2>3. CASE Crash \/ PowerLoss BY <2>3 DEF Crash, PowerLoss, ServiceRestarts, reset_capture
  <2> QED BY <2>1, <2>2, <2>3
<1>3. ListsFollow
  <2> USE DEF TypeInv, TypeOK
  <2>1. CASE BeginCapture
    <3>1. UNCHANGED sdVars \/ \E o \in Outcome : WriteSession(o, "recording")
      BY <2>1 DEF BeginCapture, StartRequest, AlignBase, AlignAgain, AlignRefused, AlignTimeout,
         Aligned, RefuseUnfinished, Activate, WriteMark, OpenSession, UndoStart, Pass, elsewhere
    <3> QED BY <3>1, CardListsFollow
  <2>2. CASE FinalizeCapture
    <3>1. \/ UNCHANGED sdVars
          \/ \E o \in Outcome : WriteSession(o, "failed") \/ WriteSession(o, "complete")
          \/ \E o \in Outcome : WriteManifest(o)
      BY <2>2 DEF FinalizeCapture, StopFailedCapture, StopRequest, StopInterrupted, StopRecorderGone,
         StopSaved, StopWait, StopTimeout, StopFail, CommitSession, CommitExport, ClearMark, Pass,
         elsewhere
    <3> QED BY <3>1, CardListsFollow
  <2>3. CASE Crash \/ PowerLoss BY <2>3, RestartListsFollow
  <2> QED BY <2>1, <2>2, <2>3
<1> QED BY <1>1, <1>2, <1>3 DEF Publishes

LEMMA MoveDurable ==
  ASSUME TypeInv, Control, Durable, MoveSegment
  PROVE  Durable'
<1> USE DEF TypeInv, TypeOK
<1>a. todo # {} /\ cur \in Seg
  <2>1. pc \in Carrying \cup Retiring
    BY DEF MoveSegment, CopyMcap, CopyStat, WriteJson, WriteExport, RetireMcap, RetireStat,
           Carrying, Retiring
  <2>2. todo # {} BY <2>1 DEF EntryInHand
  <2> QED BY <2>2, CurBelongs DEF PassTypeOK
<1>b. todo' = todo => cur' = cur BY DEF cur
<1>c. pc \in Carrying \/ (pc \in Retiring /\ why = "capture") => sess \in Sess /\ sess # 0
  BY DEF Control, CaptureTypeOK, Sess, Carrying
<1>d. CopyFailed => pc' = "quarMark" /\ UNCHANGED <<files, sess>>
  BY DEF CopyFailed, FailCaptureThen, QuarantineThen, capRest
<1>e. pc' = "quarMark" => ~InHand' /\ pc' \notin Retiring BY DEF InHand, Retiring
<1>1. CASE CopyMcap
  <2>1. PICK o \in Outcome :
          /\ sdMcap' = [sdMcap EXCEPT ![sess] = Stored(o, @ \cup {cur}, @, @)]
          /\ IF Told(o) THEN CopyNext("copyStat") ELSE CopyFailed
    BY <1>1 DEF CopyMcap
  <2>2. UNCHANGED <<sdStat, listed, exported, sdListed, sdExported, files, sess>>
    BY <1>1, <1>d, <2>1 DEF CopyMcap, CopyNext, capVars
  <2>3. \A s \in Sess : sdMcap[s] \subseteq sdMcap'[s] BY <2>1 DEF CardTypeOK, Stored
  <2>4. /\ ListedIsDurable'
        /\ \A s \in Sess : sdListed'[s] \cup sdExported'[s] \subseteq sdMcap'[s] \cap sdStat'[s]
    BY <2>2, <2>3 DEF Durable, ListedIsDurable
  <2>5. sess' # 0 => files' \subseteq sdMcap'[sess'] \cap sdStat'[sess']
    BY <1>1, <1>c, <2>2, <2>3 DEF Durable, CopyMcap, Carrying
  <2>6. CASE Told(o)
    <3>1. pc' = "copyStat" /\ todo' = todo BY <2>1, <2>6 DEF CopyNext, GoTo, passVars
    <3>2. cur \in sdMcap'[sess]
      BY <1>1, <1>c, <2>1, <2>6 DEF Told, Stored, CopyMcap, Carrying, CardTypeOK
    <3> QED BY <1>b, <2>2, <2>4, <2>5, <3>1, <3>2 DEF Durable, Retiring
  <2>7. CASE ~Told(o) BY <1>d, <1>e, <2>1, <2>4, <2>5, <2>7 DEF Durable
  <2> QED BY <2>6, <2>7
<1>2. CASE CopyStat
  <2>1. PICK o \in Outcome :
          /\ sdStat' = [sdStat EXCEPT ![sess] = Stored(o, @ \cup {cur}, @, @)]
          /\ \/ Told(o) /\ GoTo("writeJson") /\ files' = files \cup {cur} /\ UNCHANGED <<sess, passVars>>
             \/ CopyFailed
    BY <1>2 DEF CopyStat
  <2>2. UNCHANGED <<sdMcap, listed, exported, sdListed, sdExported, sess>>
    BY <1>2, <1>d, <2>1 DEF CopyStat
  <2>3. \A s \in Sess : sdStat[s] \subseteq sdStat'[s] BY <2>1 DEF CardTypeOK, Stored
  <2>4. /\ ListedIsDurable'
        /\ \A s \in Sess : sdListed'[s] \cup sdExported'[s] \subseteq sdMcap'[s] \cap sdStat'[s]
    BY <2>2, <2>3 DEF Durable, ListedIsDurable
  <2>5. sess # 0 /\ sess \in Sess /\ cur \in sdMcap[sess] BY <1>2, <1>c DEF Durable, CopyStat, Carrying
  <2>6. CASE Told(o) /\ GoTo("writeJson") /\ files' = files \cup {cur} /\ UNCHANGED <<sess, passVars>>
    <3>1. pc' = "writeJson" /\ todo' = todo BY <2>6 DEF GoTo, passVars
    <3>2. cur \in sdStat'[sess] BY <2>1, <2>5, <2>6 DEF Told, Stored, CardTypeOK
    <3>3. files' \subseteq sdMcap'[sess'] \cap sdStat'[sess']
      BY <2>2, <2>3, <2>5, <2>6, <3>2 DEF Durable
    <3>4. cur' \in files' BY <1>b, <2>6, <3>1
    <3> QED BY <2>4, <3>1, <3>3, <3>4 DEF Durable, Retiring
  <2>7. CASE CopyFailed
    <3>1. files' \subseteq sdMcap'[sess'] \cap sdStat'[sess']
      BY <1>d, <2>2, <2>3, <2>5, <2>7 DEF Durable
    <3> QED BY <1>d, <1>e, <2>4, <2>7, <3>1 DEF Durable
  <2> QED BY <2>1, <2>6, <2>7
<1>3. CASE WriteJson \/ WriteExport
  <2>1. ListsFollow
    <3>1. \E o \in Outcome : WriteSession(o, "recording") \/ WriteManifest(o)
      BY <1>3 DEF WriteJson, WriteExport
    <3> QED BY <3>1, CardListsFollow
  <2>2. \/ CopyFailed
        \/ WriteJson /\ CopyNext("writeExport")
        \/ WriteExport /\ CopyNext("retireMcap") /\ exported' = [exported EXCEPT ![sess] = files]
    BY <1>3 DEF WriteJson, WriteExport, WriteManifest, Told, Commits
  <2>3. CASE CopyFailed
    <3>1. Publishes BY <1>d, <1>e, <2>1, <2>3 DEF Publishes
    <3> QED BY <3>1, PublishesIsDurable
  <2>4. CASE CopyNext("writeExport") \/ CopyNext("retireMcap")
    <3>1. UNCHANGED <<files, sess, todo>> BY <2>4 DEF CopyNext, capVars, passVars
    <3>2. sess # 0 /\ sess \in Sess /\ cur \in files /\ why = "capture"
      BY <1>3, <1>c DEF WriteJson, WriteExport, Durable, InHand, Carrying, Control
    <3>3. UNCHANGED <<sdMcap, sdStat>> BY <2>1 DEF ListsFollow
    <3>5. /\ ListedIsDurable'
          /\ \A s \in Sess : sdListed'[s] \cup sdExported'[s] \subseteq sdMcap'[s] \cap sdStat'[s]
      BY <2>1, FollowingIsDurable
    <3>6. files' \subseteq sdMcap'[sess'] \cap sdStat'[sess'] /\ cur' \in files'
      BY <1>b, <3>1, <3>2, <3>3 DEF Durable
    <3>7. pc' # "copyStat" BY <2>4 DEF CopyNext, GoTo
    <3>8. pc' \in Retiring => cur' \in exported'[sess']
      <4>1. CASE CopyNext("writeExport") BY <4>1 DEF CopyNext, GoTo, Retiring
      <4>2. CASE exported' = [exported EXCEPT ![sess] = files]
        BY <3>1, <3>2, <3>6, <4>2 DEF CardTypeOK
      <4>3. CASE CopyFailed BY <1>d, <1>e, <4>3
      <4> QED BY <2>2, <4>1, <4>2, <4>3
    <3> QED BY <3>5, <3>6, <3>7, <3>8 DEF Durable
  <2> QED BY <2>2, <2>3, <2>4
<1>4. CASE RetireMcap \/ RetireStat
  <2>1. UNCHANGED <<sdVars, why>> BY <1>4 DEF RetireMcap, RetireStat, notRetire
  <2>2. CASE GoTo("retireStat") /\ UNCHANGED <<todo, capVars>>
    <3>1. pc \in Retiring BY <1>4 DEF RetireMcap, RetireStat, Retiring
    <3>2. pc' \in Retiring /\ pc' # "copyStat" BY <2>2 DEF GoTo, Retiring
    <3>3. UNCHANGED <<files, sess, cur>> BY <1>b, <2>2 DEF capVars
    <3>4. UNCHANGED <<sdMcap, sdStat, listed, exported, sdListed, sdExported, why>>
      BY <2>1 DEF sdVars
    <3>5. /\ ListedIsDurable'
          /\ \A s \in Sess : sdListed'[s] \cup sdExported'[s] \subseteq sdMcap'[s] \cap sdStat'[s]
      BY <3>4 DEF Durable, ListedIsDurable
    <3>6. pc \in Retiring => pc # "copyStat" BY DEF Retiring
    <3>7. InHand' => InHand
      BY <3>1, <3>2, <3>4 DEF InHand, Retiring
    <3> QED BY <3>1, <3>2, <3>3, <3>4, <3>5, <3>6, <3>7 DEF Durable
  <2>3. CASE Retired \/ RetireFailed
    <3>1. pc' \in {"passEnd", "entry", "quarMark"}
      BY <2>3 DEF Retired, RetireFailed, GoTo, FailCaptureThen, QuarantineThen
    <3>2. UNCHANGED <<files, sess>>
      BY <2>3 DEF Retired, RetireFailed, FailCaptureThen, capRest, capVars
    <3>3. ~InHand' BY <3>1 DEF InHand, Retiring
    <3>4. ListsFollow BY <2>1, CardListsFollow
    <3>5. Publishes BY <3>2, <3>3, <3>4 DEF Publishes
    <3> QED BY <3>5, PublishesIsDurable
  <2> QED BY <1>4, <2>2, <2>3 DEF RetireMcap, RetireStat
<1> QED BY <1>1, <1>2, <1>3, <1>4 DEF MoveSegment

LEMMA DurableStep == TypeInv /\ Control /\ Durable /\ [Next]_vars => Durable'
<1> SUFFICES ASSUME TypeInv, Control, Durable, [Next]_vars PROVE Durable' OBVIOUS
<1>1. CASE Recorder \/ UNCHANGED vars
  <2>1. UNCHANGED <<sdVars, flowVars, passVars, capVars>>
    BY <1>1 DEF vars, notRing, Recorder, OpenSegment, RecorderExit, CloseSegment, CreateSidecar,
                PublishSidecar
  <2>2. UNCHANGED <<sdMcap, sdStat, listed, exported, sdListed, sdExported, pc, why, todo, files,
                    sess>>
    BY <2>1 DEF sdVars, flowVars, passVars, capVars
  <2>3. UNCHANGED cur /\ UNCHANGED InHand BY <2>2 DEF cur, InHand
  <2>4. ListedIsDurable' BY <2>2 DEF Durable, ListedIsDurable
  <2> QED BY <2>2, <2>3, <2>4 DEF Durable
<1>2. CASE MoveSegment BY <1>2, MoveDurable
<1>3. CASE ProcessEntry BY <1>3, EntryPublishes, PublishesIsDurable
<1>4. CASE Quarantining \/ EndPass \/ Loop \/ Boot BY <1>4, QuietPublishes, PublishesIsDurable
<1>5. CASE BeginCapture \/ FinalizeCapture \/ Crash \/ PowerLoss
  BY <1>5, RequestPublishes, PublishesIsDurable
<1> QED BY <1>1, <1>2, <1>3, <1>4, <1>5 DEF Next, Service

LEMMA InitDurable == Init => Durable
BY DEF Init, ServiceStart, Durable, ListedIsDurable, InHand, Retiring

LEMMA DurableAlways == Spec => [](TypeInv /\ Control /\ Durable)
BY InitType, InitDurable, TypeStep, DurableStep, PTL DEF Spec

(* No crash, power loss or failing file operation leaves a manifest on the *)
(* card that lists a segment whose MCAP or sidecar is not durable.         *)
THEOREM ManifestsListDurableFiles == Spec => []ListedIsDurable
<1>1. Durable => ListedIsDurable BY DEF Durable
<1> QED BY <1>1, DurableAlways, PTL

-----------------------------------------------------------------------------
(* Nothing leaves a quarantined ring unless it is saved. *)

LEMMA RetireMcapHolds ==
  ASSUME TypeInv, Control, Durable, RetireMcap, quar, NEW i \in ringMcap \ ringMcap'
  PROVE  sess # 0 /\ i \in sdMcap[sess] \cap sdStat[sess] \cap exported[sess]
<1>1. pc \in Retiring /\ i = cur BY DEF RetireMcap, Retiring
<1>2. why = "capture" /\ cap = "live" BY <1>1 DEF Control
<1>3. sess # 0 /\ i \in exported[sess] BY <1>1, <1>2 DEF Control, Durable
<1>4. sess \in Sess BY <1>3 DEF TypeInv, TypeOK, CaptureTypeOK, Sess
<1> QED BY <1>3, <1>4 DEF Durable, ListedIsDurable

(* Every other step of the recorder and of the service leaves the MCAPs    *)
(* that are in the ring there.                                             *)
LEMMA RingKept ==
  ASSUME Recorder \/ Service \/ Crash, ~RetireMcap
  PROVE  ringMcap \subseteq ringMcap'
<1>1. CASE Recorder
  BY <1>1 DEF Recorder, OpenSegment, RecorderExit, CloseSegment, CreateSidecar, PublishSidecar
<1>2. CASE Quarantining BY <1>2 DEF Quarantining, PersistQuarantine, FailState, ring, ringVars
<1>3. CASE ProcessEntry
  BY <1>3 DEF ProcessEntry, EndEntries, PendingEntry, StalePending, SettlingEntry, AcceptSegment,
         RejectSegment, SkipForFailedCapture, ObserveSteady, ObserveUnsteady, InvalidateBaseline,
         DiscardResidue, QuarantineSuspect, SkipSuspect, ring, ringVars
<1>4. CASE CopyMcap \/ CopyStat \/ WriteJson \/ WriteExport \/ RetireStat
  BY <1>4 DEF CopyMcap, CopyStat, WriteJson, WriteExport, RetireStat, CopyNext, CopyFailed, ring, ringVars
<1>5. CASE EndPass \/ Loop
  BY <1>5 DEF EndPass, PassQuiet, StaleOpen, StalledRecorder, Loop, LoopPass, SuperviseQuiet,
         SuperviseLoss, NoRequest, Pass, ring, ringVars
<1>6. CASE BeginCapture
  BY <1>6 DEF BeginCapture, StartRequest, AlignBase, AlignAgain, AlignRefused, AlignTimeout, Aligned,
         RefuseUnfinished, Activate, WriteMark, OpenSession, UndoStart, Pass, ring, ringVars
<1>7. CASE FinalizeCapture
  BY <1>7 DEF FinalizeCapture, StopFailedCapture, StopRequest, StopInterrupted, StopRecorderGone,
         StopSaved, StopWait, StopTimeout, StopFail, CommitSession, CommitExport, ClearMark,
         CommitFailed, CommitNext, Pass, ring, ringVars
<1>8. CASE Boot
  BY <1>8 DEF Boot, LoadQuarantine, RecoverActive, NothingToRecover, RecoverSessions, BootAdopt,
         BootQuarantined, BootDone, BootStartRecorder, BootWithoutRecorder, Pass, ring, ringVars
<1>9. CASE Crash BY <1>9 DEF Crash, ringVars
<1> QED BY <1>1, <1>2, <1>3, <1>4, <1>5, <1>6, <1>7, <1>8, <1>9 DEF Service, MoveSegment

(* While the ring is quarantined, the service retires only what it has     *)
(* saved and exported in the session it is recording.                      *)
THEOREM QuarantineHolds == Spec => QuarantineHoldsRing
<1> DEFINE Saved(i) == sess # 0 /\ i \in sdMcap[sess] \cap sdStat[sess] \cap exported[sess]
           Held == quar /\ powers' = powers => \A i \in ringMcap \ ringMcap' : Saved(i)
<1>1. TypeInv /\ Control /\ Durable /\ [Next]_vars => [Held]_vars
  <2>1. SUFFICES ASSUME TypeInv, Control, Durable, Next, quar, powers' = powers,
                        NEW i \in ringMcap \ ringMcap'
                 PROVE  Saved(i)
    OBVIOUS
  <2>2. ~PowerLoss BY <2>1, BoundsAssumption DEF PowerLoss, TypeInv, TypeOK, BudgetTypeOK
  <2>3. RetireMcap BY <2>1, <2>2, RingKept DEF Next
  <2> QED BY <2>1, <2>3, RetireMcapHolds
<1>2. [][Next]_vars /\ [](TypeInv /\ Control /\ Durable) => [][Held]_vars BY <1>1, PTL
<1>3. Spec => [][Held]_vars BY <1>2, DurableAlways, PTL DEF Spec
<1> QED BY <1>3 DEF QuarantineHoldsRing

=============================================================================
