------------------------- MODULE SessionExportProofs -------------------------
(***************************************************************************)
(* Theorems about SessionExport, for any number of exports, sessions and   *)
(* files, of files of any size, and any number of failing responses,       *)
(* damaged blocks, foreign files, cancellations, kills and power losses.   *)
(***************************************************************************)
EXTENDS SessionExport, MinMaxLemmas

-----------------------------------------------------------------------------
(* The inductive invariant.                                                *)

(* At most one export has the lock: the rest follows from that. *)
Exclusive == \A e, o \in Exporters : Holds(e) /\ Holds(o) => e = o

(* The final name is free, or taken by a file of somebody else. *)
Free(f) == final[f] = NoFile \/ final[f].src = Foreign

(* What an export knows of the file it works on. *)
AtFile(e) ==
  LET f == Cur(e)
      size == SizeOf(session[e], f)
  IN  /\ pc[e] \in {"get", "open", "stream", "write", "sync", "verify", "commit"} => Free(f)
      /\ pc[e] \in {"get", "stream", "verify"} => f # Manifest
      /\ pc[e] = "get" => file_length(part[f]) < size
      /\ pc[e] = "open" => written[e] < size /\ written[e] \in {0, file_length(part[f])}
      /\ pc[e] = "open" /\ f = Manifest => written[e] = 0
      /\ pc[e] \in {"stream", "write"} => part[f] # NoFile /\ part[f].len = written[e]
      /\ pc[e] = "stream" => written[e] <= size
      /\ pc[e] = "write" => written[e] < size
      /\ pc[e] = "sync" => part[f] # NoFile
      /\ pc[e] = "sync" /\ f = Manifest => part[f] = Expected(e)
      /\ pc[e] = "commit" => part[f] = Expected(e)

(* What it knows of the files it has been through. *)
Behind(e) ==
  /\ pc[e] = "lock" => todo[e] = Files
  /\ Holds(e) => \A f \in Files \ todo[e] : final[f] = Whole(session[e], f)
  /\ Holds(e) => IF manifest_exists[e] THEN final[Manifest] = Whole(session[e], Manifest)
                 ELSE Free(Manifest)
  /\ pc[e] = "done" => \A f \in Names : final[f] = Whole(session[e], f)

(* Without interruptions a name whose data is not durable is being written. *)
Durable ==
  stops = 0 /\ cuts = 0 =>
    /\ \A e \in Exporters : ~detached[e]
    /\ \A f \in Names \ durable :
         \E e \in Exporters : pc[e] \in {"stream", "write", "sync"} /\ Cur(e) = f

Local == \A e \in Exporters : AtFile(e) /\ Behind(e)
Directory == FinalIsVerified /\ SurvivesPowerLoss /\ ManifestMeansComplete

Inv == TypeOK /\ Exclusive /\ Local /\ Durable /\ Directory

-----------------------------------------------------------------------------
(* Helpers.                                                                *)

(* What Cur denotes. *)
LEMMA CurBelongs ==
  ASSUME TaskTypeOK, NEW e \in Exporters
  PROVE  /\ Cur(e) \in Names
         /\ Cur(e) = Manifest <=> todo[e] = {}
         /\ Cur(e) # Manifest => Cur(e) \in Files /\ Cur(e) \in todo[e]
<1>1. CASE todo[e] = {} BY <1>1 DEF Cur, Names
<1>2. CASE todo[e] # {}
  <2>1. todo[e] \subseteq Files /\ Files \subseteq Int BY DEF TaskTypeOK, Files
  <2>2. IsFiniteSet(Files) BY BoundAssumption, FS_Interval DEF Files
  <2>3. IsFiniteSet(todo[e]) BY <2>1, <2>2, FS_Subset
  <2>4. Min(todo[e]) \in todo[e]
    <3>1. todo[e] \subseteq Int BY <2>1
    <3> QED BY <1>2, <2>3, <3>1, MinBelongs
  <2>5. Cur(e) = Min(todo[e]) BY <1>2 DEF Cur
  <2>6. Manifest \notin Files BY BoundAssumption DEF Files, Manifest
  <2> QED BY <1>2, <2>1, <2>4, <2>5, <2>6 DEF Names
<1> QED BY <1>1, <1>2

LEMMA SizeIsPositive ==
  ASSUME NEW s \in Sessions, NEW f \in Names
  PROVE  SizeOf(s, f) \in Nat /\ SizeOf(s, f) > 0
BY SizeAssumption DEF SizeOf

LEMMA WholeIsContent ==
  ASSUME NEW s \in Sessions, NEW f \in Names
  PROVE  /\ Whole(s, f) \in Content /\ Whole(s, f) # NoFile
         /\ Whole(s, f).src = s /\ Whole(s, f).len = SizeOf(s, f) /\ s # Foreign
BY SizeIsPositive, NoFileAssumption, SourceAssumption DEF Whole, Content

(* An export that does not hold the lock minds no change of the directory  *)
(* but one of a final file that it reported.                               *)
LEMMA BystanderStands ==
  ASSUME NEW o \in Exporters, ~Holds(o), AtFile(o) /\ Behind(o),
         pc'[o] = pc[o], todo'[o] = todo[o], session'[o] = session[o],
         \A f \in Names : final[f] = Whole(session[o], f) => final'[f] = final[f]
  PROVE  AtFile(o)' /\ Behind(o)'
<1>1. pc[o] \in {"idle", "lock", "done"} BY DEF Holds
<1>2. AtFile(o)' BY <1>1 DEF AtFile
<1>3. Behind(o)'
  <2>1. ~Holds(o)' BY <1>1 DEF Holds
  <2>2. pc[o] = "done" => \A f \in Names : final'[f] = Whole(session[o], f) BY DEF Behind
  <2>3. \A f \in Names : Whole(session[o], f)' = Whole(session[o], f) BY DEF Whole, SizeOf
  <2> QED BY <2>1, <2>2, <2>3 DEF Behind
<1> QED BY <1>2, <1>3

(* The locals that do not change and a directory that does not change. *)
LEMMA NothingNew ==
  ASSUME NEW o \in Exporters, AtFile(o) /\ Behind(o),
         pc'[o] = pc[o], todo'[o] = todo[o], session'[o] = session[o],
         written'[o] = written[o], manifest_exists'[o] = manifest_exists[o],
         UNCHANGED <<final, part>>
  PROVE  AtFile(o)' /\ Behind(o)'
<1>1. Cur(o)' = Cur(o) BY DEF Cur
<1>2. AtFile(o)' BY <1>1 DEF AtFile, Free, Expected, Whole, SizeOf, file_length
<1>3. Behind(o)' BY DEF Behind, Holds, Free, Whole, SizeOf
<1> QED BY <1>2, <1>3

LEMMA DirectoryKept ==
  ASSUME Directory, TypeOK, UNCHANGED <<final, powers>>,
         stops' = 0 /\ cuts' = 0 => stops = 0 /\ cuts = 0
  PROVE  Directory'
<1>1. \A f \in Names : IsVerified(f) => IsVerified(f)' BY DEF IsVerified, Whole, SizeOf
<1>2. FinalIsVerified' /\ SurvivesPowerLoss'
  BY <1>1 DEF Directory, FinalIsVerified, SurvivesPowerLoss
<1>3. ManifestMeansComplete' BY DEF Directory, ManifestMeansComplete, Whole, SizeOf
<1> QED BY <1>2, <1>3 DEF Directory

(* The locals of the other exports. *)
OthersStay(e) ==
  \A o \in Exporters \ {e} :
    /\ pc'[o] = pc[o] /\ detached'[o] = detached[o] /\ todo'[o] = todo[o] /\ session'[o] = session[o]
    /\ written'[o] = written[o] /\ manifest_exists'[o] = manifest_exists[o]

LEMMA ExclusiveKept ==
  ASSUME Exclusive, NEW e \in Exporters, OthersStay(e),
         Holds(e)' => Holds(e) \/ \A o \in Exporters : ~Holds(o)
  PROVE  Exclusive'
<1>1. \A o \in Exporters \ {e} : Holds(o)' <=> Holds(o) BY DEF OthersStay, Holds
<1>2. SUFFICES ASSUME NEW a \in Exporters, NEW o \in Exporters, Holds(a)', Holds(o)' PROVE a = o
  BY DEF Exclusive
<1> QED BY <1>1, <1>2 DEF Exclusive

(* A step of one export that leaves the directory alone. *)
LEMMA QuietStep ==
  ASSUME Inv, NEW e \in Exporters, OthersStay(e), UNCHANGED <<final, part, powers>>,
         stops' = 0 /\ cuts' = 0 => stops = 0 /\ cuts = 0,
         Holds(e)' => Holds(e) \/ \A o \in Exporters : ~Holds(o),
         TypeOK', AtFile(e)' /\ Behind(e)', Durable'
  PROVE  Inv'
<1>1. Exclusive' BY ExclusiveKept DEF Inv
<1>2. Local'
  <2>1. SUFFICES ASSUME NEW o \in Exporters \ {e} PROVE AtFile(o)' /\ Behind(o)' BY DEF Local
  <2> QED BY <2>1, NothingNew DEF Inv, Local, OthersStay
<1>3. Directory' BY DirectoryKept DEF Inv
<1> QED BY <1>1, <1>2, <1>3 DEF Inv

(* Such a step keeps Durable unless it ends the writing of a file. *)
LEMMA DurableKept ==
  ASSUME Inv, NEW e \in Exporters, OthersStay(e), UNCHANGED durable,
         stops' = 0 /\ cuts' = 0 => stops = 0 /\ cuts = 0 /\ ~detached'[e],
         pc[e] \in {"stream", "write", "sync"} =>
           (pc'[e] \in {"stream", "write", "sync"} /\ todo'[e] = todo[e]) \/ stops' # 0 \/ cuts' # 0
  PROVE  Durable'
<1>1. SUFFICES ASSUME stops' = 0, cuts' = 0
               PROVE  /\ \A o \in Exporters : ~detached'[o]
                      /\ \A f \in Names \ durable :
                           \E o \in Exporters : pc'[o] \in {"stream", "write", "sync"} /\ Cur(o)' = f
  BY DEF Durable
<1>2. \A o \in Exporters : ~detached'[o] BY <1>1 DEF Inv, Durable, OthersStay
<1>3. ASSUME NEW f \in Names \ durable
      PROVE  \E o \in Exporters : pc'[o] \in {"stream", "write", "sync"} /\ Cur(o)' = f
  <2>1. PICK o \in Exporters : pc[o] \in {"stream", "write", "sync"} /\ Cur(o) = f
    BY <1>1 DEF Inv, Durable
  <2>2. pc'[o] \in {"stream", "write", "sync"} /\ todo'[o] = todo[o] BY <1>1, <2>1 DEF OthersStay
  <2> QED BY <2>1, <2>2 DEF Cur
<1> QED BY <1>2, <1>3

-----------------------------------------------------------------------------
(* Every step keeps the invariant: steps that leave the directory alone.   *)

LEMMA BeginStep ==
  ASSUME Inv, NEW e \in Exporters, NEW s \in Sessions, Begin(e, s)
  PROVE  Inv'
<1> USE DEF Begin, Step
<1>1. TypeOK' BY DEF Inv, TypeOK, DiskTypeOK, TaskTypeOK, BudgetTypeOK, Blocking, disk, budgets
<1>2. pc'[e] = "lock" /\ todo'[e] = Files
  BY DEF Inv, TypeOK, TaskTypeOK, verify_export_manifest
<1>3. AtFile(e)' /\ Behind(e)' BY <1>2 DEF AtFile, Behind, Holds
<1>4. OthersStay(e) BY DEF OthersStay, Inv, TypeOK, TaskTypeOK
<1>5. pc[e] = "idle" /\ detached' = detached BY DEF Inv, TypeOK, TaskTypeOK
<1>6. ~detached[e] BY <1>5 DEF Inv, TypeOK, TaskTypeOK, Blocking
<1>7. Durable' BY <1>4, <1>5, <1>6, DurableKept DEF disk, budgets
<1> QED BY <1>1, <1>2, <1>3, <1>4, <1>7, QuietStep DEF disk, budgets, Holds

LEMMA LockStep ==
  ASSUME Inv, NEW e \in Exporters, Lock(e)
  PROVE  Inv'
<1> USE DEF Lock, Step
<1>1. TypeOK' BY DEF Inv, TypeOK, DiskTypeOK, TaskTypeOK, BudgetTypeOK, Blocking, disk, budgets, Stay
<1>2. pc[e] = "lock" /\ todo[e] = Files /\ \A o \in Exporters : ~Holds(o)
  BY DEF Inv, Local, Behind
<1>3. \/ pc'[e] = "idle"
      \/ pc'[e] = "check" /\ FinalsMatch(e) /\ manifest_exists'[e] = (final[Manifest] # NoFile)
  BY DEF Inv, TypeOK, TaskTypeOK
<1>4. AtFile(e)' BY <1>3 DEF AtFile
<1>5. Behind(e)'
  <2>1. CASE pc'[e] = "idle" BY <2>1 DEF Behind, Holds
  <2>2. CASE pc'[e] = "check" /\ FinalsMatch(e) /\ manifest_exists'[e] = (final[Manifest] # NoFile)
    <3>1. final[Manifest] \in {NoFile, Whole(session[e], Manifest)} BY <2>2 DEF FinalsMatch
    <3>2. UNCHANGED <<final, todo, session>> BY DEF Stay, disk
    <3>3. IF manifest_exists'[e] THEN final'[Manifest] = Whole(session'[e], Manifest) ELSE Free(Manifest)'
      BY <2>2, <3>1, <3>2 DEF Free
    <3>4. todo'[e] = Files BY <1>2, <3>2
    <3> QED BY <2>2, <3>3, <3>4 DEF Behind, Holds, Whole, SizeOf
  <2> QED BY <1>3, <2>1, <2>2
<1>6. OthersStay(e) BY DEF OthersStay, Inv, TypeOK, TaskTypeOK, Stay
<1>7. ~detached[e] /\ detached' = detached BY <1>2 DEF Inv, TypeOK, TaskTypeOK, Blocking, Stay
<1>8. Durable' BY <1>2, <1>6, <1>7, DurableKept DEF Stay, disk, budgets
<1> QED BY <1>1, <1>2, <1>4, <1>5, <1>6, <1>8, QuietStep DEF Stay, disk, budgets

(* An export that returns without having done anything. *)
LEMMA GoesIdle ==
  ASSUME Inv, NEW e \in Exporters, OthersStay(e), UNCHANGED <<final, part, durable, powers, locals>>,
         pc' = [pc EXCEPT ![e] = "idle"], ~detached'[e], detached' \in [Exporters -> BOOLEAN],
         stops' = 0 /\ cuts' = 0 => stops = 0 /\ cuts = 0,
         pc[e] \in {"stream", "write", "sync"} => stops' # 0 \/ cuts' # 0,
         BudgetTypeOK'
  PROVE  Inv'
<1>1. pc'[e] = "idle" BY DEF Inv, TypeOK, TaskTypeOK
<1>2. TypeOK'
  <2>1. DiskTypeOK' BY DEF Inv, TypeOK, DiskTypeOK, Fits, SizeOf
  <2>2. \A o \in Exporters : detached'[o] => pc'[o] \in Blocking
    BY DEF Inv, TypeOK, TaskTypeOK, OthersStay
  <2>3. TaskTypeOK' BY <2>2 DEF Inv, TypeOK, TaskTypeOK, locals
  <2> QED BY <2>1, <2>3 DEF TypeOK
<1>3. AtFile(e)' /\ Behind(e)' BY <1>1 DEF AtFile, Behind, Holds
<1>4. Durable' BY DurableKept
<1> QED BY <1>1, <1>2, <1>3, <1>4, QuietStep DEF Holds

LEMMA LockBusyStep ==
  ASSUME Inv, NEW e \in Exporters, LockBusy(e)
  PROVE  Inv'
<1> USE DEF LockBusy, Step, Stay
<1>1. OthersStay(e) BY DEF OthersStay, Inv, TypeOK, TaskTypeOK, locals
<1>2. ~detached'[e] BY DEF Inv, TypeOK, TaskTypeOK, Blocking
<1>3. BudgetTypeOK' BY DEF Inv, TypeOK, BudgetTypeOK, budgets
<1> QED BY <1>1, <1>2, <1>3, GoesIdle DEF disk, budgets, Inv, TypeOK, TaskTypeOK

LEMMA DoneStep ==
  ASSUME Inv, NEW e \in Exporters, Done(e)
  PROVE  Inv'
<1> USE DEF Done, Step, Stay
<1>1. OthersStay(e) BY DEF OthersStay, Inv, TypeOK, TaskTypeOK, locals
<1>2. ~detached'[e] BY DEF Inv, TypeOK, TaskTypeOK, Blocking
<1>3. BudgetTypeOK' BY DEF Inv, TypeOK, BudgetTypeOK, budgets
<1> QED BY <1>1, <1>2, <1>3, GoesIdle DEF disk, budgets, Inv, TypeOK, TaskTypeOK

LEMMA CutStep ==
  ASSUME Inv, NEW e \in Exporters, Cut(e)
  PROVE  Inv'
<1> USE DEF Cut, Step
<1>1. OthersStay(e) BY DEF OthersStay, Inv, TypeOK, TaskTypeOK, locals
<1>2. ~detached'[e] BY DEF Inv, TypeOK, TaskTypeOK, Blocking
<1>3. BudgetTypeOK' /\ cuts' # 0 BY BoundAssumption DEF Inv, TypeOK, BudgetTypeOK
<1> QED BY <1>1, <1>2, <1>3, GoesIdle DEF disk, Inv, TypeOK, TaskTypeOK

LEMMA KillStep ==
  ASSUME Inv, NEW e \in Exporters, Kill(e)
  PROVE  Inv'
<1> USE DEF Kill, Step, Stopped
<1>1. OthersStay(e) BY DEF OthersStay, Inv, TypeOK, TaskTypeOK, locals
<1>2. ~detached'[e] /\ detached' \in [Exporters -> BOOLEAN] BY DEF Inv, TypeOK, TaskTypeOK
<1>3. BudgetTypeOK' /\ stops' # 0 BY BoundAssumption DEF Inv, TypeOK, BudgetTypeOK
<1> QED BY <1>1, <1>2, <1>3, GoesIdle DEF disk

(* An export that has the lock goes on without touching the directory. *)
LEMMA GoesOn ==
  ASSUME Inv, NEW e \in Exporters, Holds(e), ~detached[e], UNCHANGED <<disk, detached, session, manifest_exists>>,
         OthersStay(e), UNCHANGED <<stops, powers>>, stops' = 0 /\ cuts' = 0 => stops = 0 /\ cuts = 0,
         NEW p \in {"check", "get", "stream", "verify", "done"} \cup Blocking, pc' = [pc EXCEPT ![e] = p],
         pc[e] \in {"stream", "write", "sync"} =>
           (p \in {"stream", "write", "sync"} /\ todo' = todo) \/ cuts' # 0,
         todo' \in [Exporters -> SUBSET Files], written' \in [Exporters -> Nat], BudgetTypeOK',
         AtFile(e)' /\ Behind(e)'
  PROVE  Inv'
<1>1. pc'[e] = p BY DEF Inv, TypeOK, TaskTypeOK
<1>2. TypeOK'
  <2>1. DiskTypeOK' BY DEF Inv, TypeOK, DiskTypeOK, Fits, SizeOf, disk
  <2>2. pc' \in [Exporters -> {"idle", "lock", "check", "get", "stream", "verify", "done"} \cup Blocking]
    BY DEF Inv, TypeOK, TaskTypeOK
  <2>3. \A o \in Exporters : detached'[o] => pc'[o] \in Blocking
    BY DEF Inv, TypeOK, TaskTypeOK, OthersStay
  <2>4. TaskTypeOK' BY <2>2, <2>3 DEF Inv, TypeOK, TaskTypeOK
  <2> QED BY <2>1, <2>4 DEF TypeOK
<1>3. pc[e] \in {"stream", "write", "sync"} =>
           (pc'[e] \in {"stream", "write", "sync"} /\ todo'[e] = todo[e]) \/ stops' # 0 \/ cuts' # 0
  BY <1>1
<1>4. Durable' BY <1>3, DurableKept DEF disk
<1> QED BY <1>2, <1>4, QuietStep DEF disk

LEMMA CheckFileStep ==
  ASSUME Inv, NEW e \in Exporters, CheckFile(e)
  PROVE  Inv'
<1> DEFINE f == Cur(e)
<1> USE DEF Step, Stay
<1>1. /\ Holds(e) /\ pc[e] = "check" /\ f # Manifest /\ f \in Names /\ f \in Files /\ f \in todo[e]
      /\ ~detached[e] /\ TypeOK /\ session[e] \in Sessions /\ AtFile(e) /\ Behind(e)
  BY CurBelongs DEF CheckFile, Holds, Inv, TypeOK, TaskTypeOK, Blocking, Local
<1>2. /\ UNCHANGED <<disk, detached, session, manifest_exists, written, budgets, begun>>
      /\ OthersStay(e) /\ BudgetTypeOK'
  BY DEF CheckFile, Finished, OthersStay, Inv, TypeOK, TaskTypeOK, BudgetTypeOK, budgets
<1>3. \/ /\ final[f] = Expected(e) /\ todo' = [todo EXCEPT ![e] = @ \ {f}]
         /\ pc' = [pc EXCEPT ![e] = "check"]
      \/ UNCHANGED todo /\ pc' = [pc EXCEPT ![e] = "idle"]
      \/ /\ UNCHANGED todo /\ pc' = [pc EXCEPT ![e] = "commit"]
         /\ final[f] = NoFile /\ part[f] = Expected(e)
      \/ /\ UNCHANGED todo /\ pc' = [pc EXCEPT ![e] = "get"]
         /\ final[f] = NoFile /\ file_length(part[f]) < SizeOf(session[e], f)
  <2>1. CASE final[f] = Expected(e) BY <2>1, <1>1 DEF CheckFile, Finished
  <2>2. CASE final[f] # Expected(e)
    <3>1. file_length(part[f]) \in Nat
      BY <1>1 DEF TypeOK, DiskTypeOK, file_length, Content
    <3>2. SizeOf(session[e], f) \in Nat BY <1>1, SizeIsPositive
    <3> QED BY <2>2, <1>1, <3>1, <3>2 DEF CheckFile, FullPart
  <2> QED BY <2>1, <2>2
<1>4. CASE /\ final[f] = Expected(e) /\ todo' = [todo EXCEPT ![e] = @ \ {f}]
           /\ pc' = [pc EXCEPT ![e] = "check"]
  <2>1. pc'[e] = "check" /\ todo'[e] = todo[e] \ {f}
    BY <1>4 DEF Inv, TypeOK, TaskTypeOK
  <2>2. AtFile(e)' BY <2>1 DEF AtFile
  <2>3. Behind(e)' BY <1>1, <1>2, <1>4, <2>1 DEF Behind, Holds, Free, Expected, Whole, SizeOf, disk
  <2>4. todo' \in [Exporters -> SUBSET Files] BY <1>4 DEF Inv, TypeOK, TaskTypeOK
  <2> QED BY <1>1, <1>2, <1>4, <2>2, <2>3, <2>4, GoesOn DEF budgets, Inv, TypeOK, TaskTypeOK
<1>5. CASE UNCHANGED todo /\ pc' = [pc EXCEPT ![e] = "idle"]
  BY <1>1, <1>2, <1>5, GoesIdle DEF disk, locals, budgets, Inv, TypeOK, TaskTypeOK
<1>6. ASSUME NEW p \in {"commit", "get"}, UNCHANGED todo, pc' = [pc EXCEPT ![e] = p], final[f] = NoFile,
             p = "commit" => part[f] = Expected(e),
             p = "get" => file_length(part[f]) < SizeOf(session[e], f)
      PROVE  Inv'
  <2>1. pc'[e] = p /\ Cur(e)' = f BY <1>6 DEF Inv, TypeOK, TaskTypeOK, Cur
  <2>2. AtFile(e)' BY <1>1, <1>2, <1>6, <2>1 DEF AtFile, Free, Expected, Whole, SizeOf, file_length, disk
  <2>3. Behind(e)' BY <1>1, <1>2, <1>6, <2>1 DEF Behind, Holds, Free, Whole, SizeOf, disk
  <2> QED BY <1>1, <1>2, <1>6, <2>2, <2>3, GoesOn DEF budgets, Inv, TypeOK, TaskTypeOK, Blocking
<1> QED BY <1>3, <1>4, <1>5, <1>6

LEMMA GetStep ==
  ASSUME Inv, NEW e \in Exporters, Get(e)
  PROVE  Inv'
<1> DEFINE f == Cur(e)
<1> USE DEF Step, Stay
<1>1. /\ Holds(e) /\ pc[e] = "get" /\ ~detached[e] /\ AtFile(e) /\ Behind(e) /\ f \in Names
      /\ session[e] \in Sessions
  BY CurBelongs DEF Get, Holds, Inv, TypeOK, TaskTypeOK, Blocking, Local
<1>2. PICK offset \in {0, file_length(part[f])} : written' = [written EXCEPT ![e] = offset] BY DEF Get
<1>3. offset \in Nat /\ offset < SizeOf(session[e], f)
  BY <1>1, SizeIsPositive DEF AtFile, Inv, TypeOK, DiskTypeOK, file_length, Content
<1>4. /\ UNCHANGED <<disk, detached, session, todo, manifest_exists, budgets, begun>>
      /\ OthersStay(e) /\ BudgetTypeOK' /\ pc' = [pc EXCEPT ![e] = "open"]
  BY DEF Get, OthersStay, Inv, TypeOK, TaskTypeOK, BudgetTypeOK, budgets
<1>5. pc'[e] = "open" /\ written'[e] = offset /\ Cur(e)' = f /\ written' \in [Exporters -> Nat]
  BY <1>2, <1>3, <1>4 DEF Inv, TypeOK, TaskTypeOK, Cur
<1>6. AtFile(e)' BY <1>1, <1>3, <1>4, <1>5 DEF AtFile, Free, SizeOf, file_length, disk
<1>7. Behind(e)' BY <1>1, <1>4, <1>5 DEF Behind, Holds, Free, Whole, SizeOf, disk
<1> QED BY <1>1, <1>4, <1>5, <1>6, <1>7, GoesOn DEF budgets, Inv, TypeOK, TaskTypeOK, Blocking

LEMMA ReceiveStep ==
  ASSUME Inv, NEW e \in Exporters, Receive(e)
  PROVE  Inv'
<1> DEFINE f == Cur(e)
<1> USE DEF Step, Stay
<1>1. Holds(e) /\ pc[e] = "stream" /\ ~detached[e] /\ AtFile(e) /\ Behind(e)
  BY DEF Receive, Holds, Inv, TypeOK, TaskTypeOK, Blocking, Local
<1>2. /\ UNCHANGED <<disk, detached, locals, budgets, begun>>
      /\ OthersStay(e) /\ BudgetTypeOK' /\ pc' = [pc EXCEPT ![e] = "write"]
  BY DEF Receive, OthersStay, Inv, TypeOK, TaskTypeOK, BudgetTypeOK, budgets, locals
<1>3. pc'[e] = "write" /\ Cur(e)' = f BY <1>2 DEF Inv, TypeOK, TaskTypeOK, Cur, locals
<1>4. AtFile(e)' BY <1>1, <1>2, <1>3 DEF Receive, AtFile, Free, SizeOf, disk, locals
<1>5. Behind(e)' BY <1>1, <1>2, <1>3 DEF Behind, Holds, Free, Whole, SizeOf, disk, locals
<1> QED BY <1>1, <1>2, <1>4, <1>5, GoesOn DEF budgets, locals, Inv, TypeOK, TaskTypeOK, Blocking

(* The body ends, at the end of the file or before. *)
LEMMA BodyEnds ==
  ASSUME Inv, NEW e \in Exporters, pc[e] = "stream", pc' = [pc EXCEPT ![e] = "sync"],
         UNCHANGED <<disk, detached, locals, stops, powers>>,
         cuts' = 0 => cuts = 0, BudgetTypeOK'
  PROVE  Inv'
<1> DEFINE f == Cur(e)
<1>1. Holds(e) /\ ~detached[e] /\ AtFile(e) /\ Behind(e)
  BY DEF Holds, Inv, TypeOK, TaskTypeOK, Blocking, Local
<1>2. OthersStay(e) BY DEF OthersStay, Inv, TypeOK, TaskTypeOK, locals
<1>3. pc'[e] = "sync" /\ Cur(e)' = f BY DEF Inv, TypeOK, TaskTypeOK, Cur, locals
<1>4. AtFile(e)' BY <1>1, <1>3 DEF AtFile, Free, disk, locals
<1>5. Behind(e)' BY <1>1, <1>3 DEF Behind, Holds, Free, Whole, SizeOf, disk, locals
<1> QED BY <1>1, <1>2, <1>4, <1>5, GoesOn DEF locals, Inv, TypeOK, TaskTypeOK, Blocking

LEMMA EndOfBodyStep ==
  ASSUME Inv, NEW e \in Exporters, EndOfBody(e)
  PROVE  Inv'
<1>1. BudgetTypeOK' BY DEF EndOfBody, Stay, Inv, TypeOK, BudgetTypeOK, budgets
<1> QED BY <1>1, BodyEnds DEF EndOfBody, Step, Stay, budgets

LEMMA EarlyEndStep ==
  ASSUME Inv, NEW e \in Exporters, EarlyEnd(e)
  PROVE  Inv'
<1>1. BudgetTypeOK' /\ cuts' # 0 BY BoundAssumption DEF EarlyEnd, Inv, TypeOK, BudgetTypeOK
<1> QED BY <1>1, BodyEnds DEF EarlyEnd, Step

LEMMA VerifyStep ==
  ASSUME Inv, NEW e \in Exporters, Verify(e)
  PROVE  Inv'
<1> DEFINE f == Cur(e)
<1> USE DEF Step, Stay
<1>1. Holds(e) /\ pc[e] = "verify" /\ ~detached[e] /\ AtFile(e) /\ Behind(e)
  BY DEF Verify, Holds, Inv, TypeOK, TaskTypeOK, Blocking, Local
<1>2. /\ UNCHANGED <<disk, detached, locals, budgets, begun>>
      /\ OthersStay(e) /\ BudgetTypeOK'
  BY DEF Verify, OthersStay, Inv, TypeOK, TaskTypeOK, BudgetTypeOK, budgets, locals
<1>3. CASE HashMatches(e)
  <2>1. pc' = [pc EXCEPT ![e] = "commit"] /\ part[f] = Expected(e) BY <1>3 DEF Verify, HashMatches
  <2>2. pc'[e] = "commit" /\ Cur(e)' = f BY <1>2, <2>1 DEF Inv, TypeOK, TaskTypeOK, Cur, locals
  <2>3. AtFile(e)' BY <1>1, <1>2, <2>1, <2>2 DEF AtFile, Free, Expected, Whole, SizeOf, disk, locals
  <2>4. Behind(e)' BY <1>1, <1>2, <2>2 DEF Behind, Holds, Free, Whole, SizeOf, disk, locals
  <2> QED BY <1>1, <1>2, <2>1, <2>3, <2>4, GoesOn DEF budgets, locals, Inv, TypeOK, TaskTypeOK, Blocking
<1>4. CASE ~HashMatches(e)
  <2>1. pc' = [pc EXCEPT ![e] = "idle"] BY <1>4 DEF Verify
  <2> QED BY <1>1, <1>2, <2>1, GoesIdle DEF disk, locals, budgets, Inv, TypeOK, TaskTypeOK
<1> QED BY <1>3, <1>4

LEMMA CheckManifestStep ==
  ASSUME Inv, NEW e \in Exporters, CheckManifest(e)
  PROVE  Inv'
<1> USE DEF Step, Stay
<1>1. /\ Holds(e) /\ pc[e] = "check" /\ ~detached[e] /\ AtFile(e) /\ Behind(e)
      /\ Cur(e) = Manifest /\ todo[e] = {} /\ session[e] \in Sessions
  BY CurBelongs DEF CheckManifest, Holds, Inv, TypeOK, TaskTypeOK, Blocking, Local
<1>2. /\ UNCHANGED <<disk, detached, session, todo, manifest_exists, budgets, begun>>
      /\ OthersStay(e) /\ BudgetTypeOK' /\ written' = [written EXCEPT ![e] = 0]
      /\ written' \in [Exporters -> Nat] /\ written'[e] = 0 /\ Cur(e)' = Manifest
  BY <1>1 DEF CheckManifest, OthersStay, Inv, TypeOK, TaskTypeOK, BudgetTypeOK, budgets, Cur
<1>3. CASE manifest_exists[e]
  <2>1. pc' = [pc EXCEPT ![e] = "done"] BY <1>3 DEF CheckManifest
  <2>2. pc'[e] = "done" BY <2>1 DEF Inv, TypeOK, TaskTypeOK
  <2>3. AtFile(e)' BY <2>2 DEF AtFile
  <2>4. \A f \in Names : final[f] = Whole(session[e], f) BY <1>1, <1>3 DEF Behind, Names
  <2>5. Behind(e)' BY <1>2, <2>2, <2>4 DEF Behind, Holds, Whole, SizeOf, disk
  <2> QED BY <1>1, <1>2, <2>1, <2>3, <2>5, GoesOn DEF budgets, Inv, TypeOK, TaskTypeOK
<1>4. CASE ~manifest_exists[e]
  <2>1. pc' = [pc EXCEPT ![e] = "open"] BY <1>4 DEF CheckManifest
  <2>2. pc'[e] = "open" BY <2>1 DEF Inv, TypeOK, TaskTypeOK
  <2>3. Free(Manifest) BY <1>1, <1>4 DEF Behind
  <2>4. AtFile(e)'
    BY <1>2, <2>2, <2>3 DEF AtFile, Free, SizeOf, disk
  <2>5. Behind(e)' BY <1>1, <1>2, <2>2 DEF Behind, Holds, Free, Whole, SizeOf, disk
  <2> QED BY <1>1, <1>2, <2>1, <2>4, <2>5, GoesOn DEF budgets, Inv, TypeOK, TaskTypeOK, Blocking
<1> QED BY <1>3, <1>4

LEMMA CancelStep ==
  ASSUME Inv, NEW e \in Exporters, Cancel(e)
  PROVE  Inv'
<1> USE DEF Cancel, Step, Stopped
<1>1. OthersStay(e) /\ detached' \in [Exporters -> BOOLEAN]
  BY DEF OthersStay, Inv, TypeOK, TaskTypeOK, locals
<1>2. BudgetTypeOK' /\ stops' # 0 BY BoundAssumption DEF Inv, TypeOK, BudgetTypeOK
<1>3. CASE pc[e] \notin Blocking
  BY <1>1, <1>2, <1>3, GoesIdle DEF disk
<1>4. CASE pc[e] \in Blocking
  <2>1. UNCHANGED <<disk, pc, locals, powers>> BY <1>4
  <2>2. AtFile(e)' /\ Behind(e)'
    <3>1. AtFile(e) /\ Behind(e) BY DEF Inv, Local
    <3> QED BY <2>1, <3>1, NothingNew DEF disk, locals
  <2>3. DiskTypeOK' BY <2>1 DEF Inv, TypeOK, DiskTypeOK, Fits, SizeOf, disk
  <2>4. TaskTypeOK' BY <1>1, <1>4, <2>1 DEF Inv, TypeOK, TaskTypeOK, locals
  <2>5. Durable' BY <1>2 DEF Durable
  <2> QED BY <1>1, <1>2, <2>1, <2>2, <2>3, <2>4, <2>5, QuietStep DEF TypeOK, disk, locals, Holds
<1> QED BY <1>3, <1>4

LEMMA CommitRefusedStep ==
  ASSUME Inv, NEW e \in Exporters, CommitRefused(e)
  PROVE  Inv'
<1> USE DEF CommitRefused, Then, Step
<1>1. OthersStay(e) BY DEF OthersStay, Inv, TypeOK, TaskTypeOK, locals
<1>2. ~detached'[e] /\ detached' \in [Exporters -> BOOLEAN] BY DEF Inv, TypeOK, TaskTypeOK
<1>3. pc' = [pc EXCEPT ![e] = "idle"] OBVIOUS
<1>4. BudgetTypeOK' BY DEF Inv, TypeOK, BudgetTypeOK, budgets
<1> QED BY <1>1, <1>2, <1>3, <1>4, GoesIdle DEF disk, budgets

-----------------------------------------------------------------------------
(* Every step keeps the invariant: steps that change the directory.        *)

(* Content that takes the place of the .part of the file an export works   *)
(* on is minded by nobody else.                                            *)
LEMMA PartStep ==
  ASSUME Inv, NEW e \in Exporters, Holds(e), NEW c \in Content, part' = [part EXCEPT ![Cur(e)] = c],
         Fits(c, Cur(e)), c.src # Foreign,
         UNCHANGED <<final, session, todo, manifest_exists, stops, cuts, powers>>,
         OthersStay(e), BudgetTypeOK', durable' \subseteq Names, written' \in [Exporters -> Nat],
         NEW p \in {"stream", "write", "sync"}, Then(e, p),
         pc'[e] = p => AtFile(e)', durable' = durable \ {Cur(e)}
  PROVE  Inv'
<1> DEFINE f == Cur(e)
<1>1. f \in Names /\ Cur(e)' = f BY CurBelongs DEF Inv, TypeOK, Cur
<1>2. detached' \in [Exporters -> BOOLEAN] /\ ~detached'[e] /\ pc'[e] \in {"idle", p}
      /\ (detached[e] \/ pc'[e] = p)
  BY DEF Then, Step, Inv, TypeOK, TaskTypeOK
<1>3. DiskTypeOK'
  <2>1. part' \in [Names -> Content \cup {NoFile}] BY DEF Inv, TypeOK, DiskTypeOK
  <2>2. \A g \in Names : part'[g] = IF g = f THEN c ELSE part[g] BY DEF Inv, TypeOK, DiskTypeOK
  <2>3. \A g \in Names : Fits(part[g], g) /\ Fits(final[g], g) /\ (part[g] # NoFile => part[g].src # Foreign)
    BY DEF Inv, TypeOK, DiskTypeOK
  <2>4. \A g \in Names : Fits(part'[g], g) /\ (part'[g] # NoFile => part'[g].src # Foreign)
    BY <2>2, <2>3 DEF Fits
  <2>5. \A x, g : Fits(x, g)' <=> Fits(x', g) BY DEF Fits, SizeOf
  <2> QED BY <2>1, <2>3, <2>4, <2>5 DEF DiskTypeOK, Inv, TypeOK
<1>4. TaskTypeOK'
  <2>1. pc' \in [Exporters -> {"idle", "lock", "check", "get", "stream", "verify", "done"} \cup Blocking]
    BY DEF Then, Step, Inv, TypeOK, TaskTypeOK, Blocking
  <2>2. \A o \in Exporters : detached'[o] => pc'[o] \in Blocking
    BY <1>2 DEF OthersStay, Inv, TypeOK, TaskTypeOK
  <2> QED BY <1>2, <2>1, <2>2 DEF Inv, TypeOK, TaskTypeOK
<1>5. Exclusive' BY ExclusiveKept DEF Inv
<1>6. Local'
  <2>1. ASSUME NEW o \in Exporters \ {e} PROVE AtFile(o)' /\ Behind(o)'
    <3>1. ~Holds(o) BY DEF Inv, Exclusive
    <3> QED BY <3>1, BystanderStands DEF Inv, Local, OthersStay
  <2>2. AtFile(e)' BY <1>2 DEF AtFile
  <2>3. Behind(e)' BY <1>2 DEF Behind, Holds, Inv, Local, Free, Whole, SizeOf
  <2> QED BY <2>1, <2>2, <2>3 DEF Local
<1>7. Durable'
  <2>1. SUFFICES ASSUME stops = 0, cuts = 0
                 PROVE  /\ \A o \in Exporters : ~detached'[o]
                        /\ \A g \in Names \ (durable \ {f}) :
                             \E o \in Exporters : pc'[o] \in {"stream", "write", "sync"} /\ Cur(o)' = g
    BY DEF Durable
  <2>2. \A o \in Exporters : ~detached[o] BY <2>1 DEF Inv, Durable
  <2>3. \A o \in Exporters : ~detached'[o] BY <1>2, <2>2 DEF OthersStay
  <2>4. pc'[e] = p BY <1>2, <2>2
  <2>5. ASSUME NEW g \in Names \ durable, g # f PROVE FALSE
    <3>1. PICK o \in Exporters : pc[o] \in {"stream", "write", "sync"} /\ Cur(o) = g
      BY <2>1, <2>5 DEF Inv, Durable
    <3>2. Holds(o) BY <3>1 DEF Holds
    <3> QED BY <2>5, <3>1, <3>2 DEF Inv, Exclusive
  <2> QED BY <1>1, <2>3, <2>4, <2>5
<1>8. Directory' BY DirectoryKept DEF Inv
<1> QED BY <1>3, <1>4, <1>5, <1>6, <1>7, <1>8 DEF Inv, TypeOK

LEMMA OpenStep ==
  ASSUME Inv, NEW e \in Exporters, open_partial(e)
  PROVE  Inv'
<1> DEFINE f == Cur(e)
           c == Opened(part[f], written[e])
           p == IF f = Manifest THEN "write" ELSE "stream"
<1>1. /\ Holds(e) /\ pc[e] = "open" /\ AtFile(e) /\ f \in Names /\ session[e] \in Sessions
      /\ written[e] \in Nat /\ SizeOf(session[e], f) \in Nat /\ SizeOf(session[e], f) > 0
      /\ part[f] \in Content \cup {NoFile} /\ Fits(part[f], f) /\ (part[f] # NoFile => part[f].src # Foreign)
  BY CurBelongs, SizeIsPositive DEF open_partial, Holds, Inv, Local, TypeOK, TaskTypeOK, DiskTypeOK
<1>2. Empty \in Content /\ Empty.len = 0 /\ Empty.src = Junk /\ Junk # Foreign
  BY SourceAssumption DEF Empty, Content
<1>3. c \in Content /\ c.src # Foreign /\ c.len = written[e] /\ c # NoFile
  <2>1. written[e] \in {0, file_length(part[f])} BY <1>1 DEF AtFile
  <2> QED BY <1>1, <1>2, <2>1, NoFileAssumption DEF Opened, file_length
<1>4. written[e] < SizeOf(session[e], f) /\ (f = Manifest => written[e] = 0) BY <1>1 DEF AtFile
<1>5. Fits(c, f) BY <1>1, <1>3, <1>4 DEF Fits
<1>6. /\ part' = [part EXCEPT ![f] = c] /\ durable' = durable \ {f} /\ p \in {"stream", "write", "sync"}
      /\ Then(e, p) /\ UNCHANGED <<final, locals, begun, budgets>> /\ OthersStay(e) /\ BudgetTypeOK'
  BY DEF open_partial, Then, Step, OthersStay, Inv, TypeOK, TaskTypeOK, BudgetTypeOK, locals, budgets
<1>7. Cur(e)' = f /\ part'[f] = c BY <1>1, <1>6 DEF Cur, locals, Inv, TypeOK, DiskTypeOK
<1>8. pc'[e] = p => AtFile(e)'
  <2>1. Free(f)' BY <1>1, <1>6, <1>7 DEF AtFile, Free
  <2>2. written'[e] = written[e] /\ SizeOf(session[e], f)' = SizeOf(session[e], f)
    BY <1>6, <1>7 DEF SizeOf, locals
  <2>3. CASE f = Manifest BY <1>3, <1>4, <1>7, <2>1, <2>2, <2>3 DEF AtFile
  <2>4. CASE f # Manifest
    <3>1. SUFFICES ASSUME pc'[e] = "stream" PROVE AtFile(e)' BY <2>4
    <3>2. part'[f].len = written'[e] /\ part'[f] # NoFile BY <1>3, <1>7, <2>2
    <3>3. written'[e] <= SizeOf(session'[e], f) BY <1>1, <1>4, <1>6, <2>2 DEF SizeOf, locals
    <3> HIDE DEF c, p
    <3> QED BY <1>7, <2>1, <2>4, <3>1, <3>2, <3>3 DEF AtFile, SizeOf
  <2> QED BY <2>3, <2>4
<1> HIDE DEF c, p
<1> QED BY <1>1, <1>3, <1>5, <1>6, <1>8, PartStep DEF locals, budgets, Inv, TypeOK, TaskTypeOK, DiskTypeOK

LEMMA WriteStep ==
  ASSUME Inv, NEW e \in Exporters, write_partial(e)
  PROVE  Inv'
<1> DEFINE f == Cur(e)
           p == IF f = Manifest THEN "sync" ELSE "stream"
<1>1. /\ Holds(e) /\ pc[e] = "write" /\ AtFile(e) /\ f \in Names /\ session[e] \in Sessions
      /\ written[e] \in Nat /\ SizeOf(session[e], f) \in Nat
      /\ part[f] \in Content \cup {NoFile}
  BY CurBelongs, SizeIsPositive DEF write_partial, Holds, Inv, Local, TypeOK, TaskTypeOK, DiskTypeOK
<1>2. part[f] \in Content /\ part[f].len = written[e] /\ written[e] < SizeOf(session[e], f)
  BY <1>1 DEF AtFile
<1>3. PICK x \in {session[e], Junk} :
        /\ part' = [part EXCEPT ![f] = Append(part[f], x, written[e])]
        /\ f = Manifest => x = session[e]
  BY DEF write_partial
<1> DEFINE c == Append(part[f], x, written[e])
<1>4. c \in Content /\ c.src # Foreign /\ c.len = written[e] + 1 /\ c # NoFile
  BY <1>1, <1>2, SourceAssumption, NoFileAssumption DEF Append, Content
<1>5. Fits(c, f) BY <1>1, <1>2, <1>4 DEF Fits
<1>6. /\ durable' = durable \ {f} /\ p \in {"stream", "write", "sync"} /\ Then(e, p)
      /\ UNCHANGED <<final, session, todo, manifest_exists, begun, cuts, stops, powers>> /\ OthersStay(e)
      /\ written' \in [Exporters -> Nat] /\ written'[e] = written[e] + 1
  BY DEF write_partial, Then, Step, OthersStay, Inv, TypeOK, TaskTypeOK
<1>7. BudgetTypeOK' BY BoundAssumption DEF write_partial, Inv, TypeOK, BudgetTypeOK
<1>8. Cur(e)' = f /\ part'[f] = c BY <1>1, <1>3, <1>6 DEF Cur, Inv, TypeOK, DiskTypeOK
<1>9. f = Manifest => c = Expected(e)
  BY <1>1, <1>2, <1>3 DEF Append, Expected, Whole, SizeOf
<1>10. pc'[e] = p => AtFile(e)'
  <2>1. Expected(e)' = Whole(session[e], f) BY <1>6, <1>8 DEF Expected, Whole, SizeOf
  <2>2. pc[e] = "write" => Free(f) BY <1>1 DEF AtFile
  <2> HIDE DEF c
  <2>3. CASE f = Manifest
    BY <1>1, <1>4, <1>6, <1>8, <1>9, <2>1, <2>2, <2>3 DEF AtFile, Free, SizeOf, Expected
  <2>4. CASE f # Manifest
    <3>1. SUFFICES ASSUME pc'[e] = "stream" PROVE AtFile(e)' BY <2>4
    <3>2. part'[f].len = written'[e] /\ part'[f] # NoFile BY <1>4, <1>6, <1>8
    <3>3. written'[e] <= SizeOf(session'[e], f) BY <1>1, <1>2, <1>6 DEF SizeOf
    <3>4. Free(f)' BY <1>1, <1>6, <1>8, <2>2 DEF Free
    <3> HIDE DEF p
    <3> QED BY <1>8, <2>4, <3>1, <3>2, <3>3, <3>4 DEF AtFile, SizeOf
  <2> QED BY <2>3, <2>4
<1> HIDE DEF c, p
<1> QED BY <1>1, <1>3, <1>4, <1>5, <1>6, <1>7, <1>10, PartStep DEF c, Inv, TypeOK, DiskTypeOK

LEMMA SyncStep ==
  ASSUME Inv, NEW e \in Exporters, sync_partial(e)
  PROVE  Inv'
<1> DEFINE f == Cur(e)
           p == IF f = Manifest THEN "commit" ELSE "verify"
<1>1. Holds(e) /\ pc[e] = "sync" /\ AtFile(e) /\ Behind(e) /\ f \in Names
  BY CurBelongs DEF sync_partial, Holds, Inv, Local, TypeOK
<1>2. /\ durable' = durable \cup {f} /\ Then(e, p) /\ UNCHANGED <<final, part, locals, begun, budgets>>
      /\ OthersStay(e) /\ BudgetTypeOK'
  BY DEF sync_partial, sync_all, Then, Step, OthersStay, Inv, TypeOK, TaskTypeOK, BudgetTypeOK, locals,
         budgets
<1>3. detached' \in [Exporters -> BOOLEAN] /\ ~detached'[e] /\ pc'[e] \in {"idle", p} /\ Cur(e)' = f
  BY <1>2 DEF Then, Step, Inv, TypeOK, TaskTypeOK, Cur, locals
<1>4. DiskTypeOK' BY <1>1, <1>2 DEF Inv, TypeOK, DiskTypeOK, Fits, SizeOf
<1>5. TaskTypeOK'
  <2>1. pc' \in [Exporters -> {"idle", "lock", "check", "get", "stream", "verify", "done"} \cup Blocking]
    BY <1>2 DEF Then, Step, Inv, TypeOK, TaskTypeOK, Blocking
  <2>2. \A o \in Exporters : detached'[o] => pc'[o] \in Blocking
    BY <1>2, <1>3 DEF OthersStay, Inv, TypeOK, TaskTypeOK
  <2> QED BY <1>2, <1>3, <2>1, <2>2 DEF Inv, TypeOK, TaskTypeOK, locals
<1>6. AtFile(e)'
  BY <1>1, <1>2, <1>3 DEF AtFile, Free, Expected, Whole, SizeOf, locals
<1>7. Behind(e)' BY <1>1, <1>2, <1>3 DEF Behind, Holds, Free, Whole, SizeOf, locals
<1>8. Durable'
  <2>1. SUFFICES ASSUME stops = 0, cuts = 0
                 PROVE (\A o \in Exporters : ~detached'[o]) /\ Names \ (durable \cup {f}) = {}
    BY <1>2 DEF Durable, budgets
  <2>2. \A o \in Exporters : ~detached'[o] BY <1>2, <1>3, <2>1 DEF Inv, Durable, OthersStay
  <2>3. ASSUME NEW g \in Names \ durable, g # f PROVE FALSE
    <3>1. PICK o \in Exporters : pc[o] \in {"stream", "write", "sync"} /\ Cur(o) = g
      BY <2>1, <2>3 DEF Inv, Durable
    <3>2. Holds(o) BY <3>1 DEF Holds
    <3> QED BY <1>1, <2>3, <3>1, <3>2 DEF Inv, Exclusive
  <2> QED BY <2>2, <2>3
<1> QED BY <1>1, <1>2, <1>4, <1>5, <1>6, <1>7, <1>8, QuietStep DEF TypeOK, budgets, locals

LEMMA CommitStep ==
  ASSUME Inv, NEW e \in Exporters, commit_partial(e)
  PROVE  Inv'
<1> DEFINE f == Cur(e)
           w == Whole(session[e], f)
<1>1. /\ Holds(e) /\ pc[e] = "commit" /\ AtFile(e) /\ Behind(e) /\ f \in Names /\ session[e] \in Sessions
      /\ final[f] = NoFile /\ part[f] = w /\ (f = Manifest <=> todo[e] = {}) /\ (f # Manifest => f \in Files)
  BY CurBelongs DEF commit_partial, NoClobber, Holds, Inv, Local, TypeOK, TaskTypeOK, AtFile, Expected
<1>2. w \in Content /\ w # NoFile /\ w.src = session[e] /\ w.len = SizeOf(session[e], f) /\ w.src # Foreign
  BY <1>1, WholeIsContent
<1>3. /\ final' = [final EXCEPT ![f] = w] /\ part' = [part EXCEPT ![f] = NoFile]
      /\ UNCHANGED <<durable, session, manifest_exists, written, begun, budgets>>
      /\ OthersStay(e) /\ BudgetTypeOK' /\ detached' = [detached EXCEPT ![e] = FALSE]
      /\ ~detached'[e]
  BY <1>1 DEF commit_partial, Finished, Step, OthersStay, Inv, TypeOK, TaskTypeOK, BudgetTypeOK, budgets
<1>4. \/ pc' = [pc EXCEPT ![e] = "idle"] /\ UNCHANGED todo
      \/ /\ todo' = [todo EXCEPT ![e] = @ \ {f}]
         /\ pc' = [pc EXCEPT ![e] = IF f = Manifest THEN "done" ELSE "check"]
  BY DEF commit_partial, Finished, Step
<1>5. \A g \in Names : final'[g] = IF g = f THEN w ELSE final[g] BY <1>3 DEF Inv, TypeOK, DiskTypeOK
<1>6. \A g \in Names : part'[g] = IF g = f THEN NoFile ELSE part[g] BY <1>3 DEF Inv, TypeOK, DiskTypeOK
<1>7. DiskTypeOK'
  <2>1. final' \in [Names -> Content \cup {NoFile}] /\ part' \in [Names -> Content \cup {NoFile}]
    BY <1>1, <1>2, <1>3 DEF Inv, TypeOK, DiskTypeOK
  <2>2. Fits(w, f)
    <3>1. SizeOf(session[e], f) \in Nat BY <1>1, SizeIsPositive
    <3> QED BY <1>1, <1>2, <3>1 DEF Fits
  <2>3. \A g \in Names : Fits(part[g], g) /\ Fits(final[g], g) /\ (part[g] # NoFile => part[g].src # Foreign)
    BY DEF Inv, TypeOK, DiskTypeOK
  <2>4. \A g \in Names : Fits(final'[g], g) /\ Fits(part'[g], g) /\ (part'[g] # NoFile => part'[g].src # Foreign)
    BY <1>5, <1>6, <2>2, <2>3 DEF Fits
  <2>5. \A x, g : Fits(x, g)' <=> Fits(x', g) BY DEF Fits, SizeOf
  <2> QED BY <1>3, <2>1, <2>4, <2>5 DEF DiskTypeOK, Inv, TypeOK
<1>8. TaskTypeOK'
  <2>1. /\ pc' \in [Exporters -> {"idle", "lock", "check", "get", "stream", "verify", "done"} \cup Blocking]
        /\ todo' \in [Exporters -> SUBSET Files]
    BY <1>4 DEF Inv, TypeOK, TaskTypeOK
  <2>2. \A o \in Exporters : detached'[o] => pc'[o] \in Blocking
    BY <1>3 DEF OthersStay, Inv, TypeOK, TaskTypeOK
  <2> QED BY <1>3, <2>1, <2>2 DEF Inv, TypeOK, TaskTypeOK
<1>9. Exclusive' BY <1>1, <1>3, ExclusiveKept DEF Inv
<1>10. Local'
  <2>1. ASSUME NEW o \in Exporters \ {e} PROVE AtFile(o)' /\ Behind(o)'
    <3>1. ~Holds(o) BY <1>1 DEF Inv, Exclusive
    <3>2. session[o] \in Sessions BY DEF Inv, TypeOK, TaskTypeOK
    <3>3. \A g \in Names : final[g] = Whole(session[o], g) => final'[g] = final[g]
      BY <1>1, <1>5, <3>2, WholeIsContent
    <3> QED BY <1>3, <3>1, <3>3, BystanderStands DEF Inv, Local, OthersStay
  <2>2. AtFile(e)'
    <3>1. pc'[e] \in {"idle", "check", "done"} BY <1>4 DEF Inv, TypeOK, TaskTypeOK
    <3> QED BY <3>1 DEF AtFile
  <2>3. Behind(e)'
    <3>1. CASE pc' = [pc EXCEPT ![e] = "idle"] /\ UNCHANGED todo
      <4>1. pc'[e] = "idle" BY <3>1 DEF Inv, TypeOK, TaskTypeOK
      <4> QED BY <4>1 DEF Behind, Holds
    <3>2. CASE /\ todo' = [todo EXCEPT ![e] = @ \ {f}]
               /\ pc' = [pc EXCEPT ![e] = IF f = Manifest THEN "done" ELSE "check"]
      <4>1. todo'[e] = todo[e] \ {f} /\ pc'[e] = IF f = Manifest THEN "done" ELSE "check"
        BY <3>2 DEF Inv, TypeOK, TaskTypeOK
      <4>2. \A g \in Files \ (todo[e] \ {f}) : final'[g] = Whole(session[e], g)
        BY <1>1, <1>5 DEF Behind, Names
      <4>3. \A g : Whole(session[e], g)' = Whole(session[e], g) BY <1>3 DEF Whole, SizeOf
      <4>4. CASE f = Manifest
        <5>1. \A g \in Names : final'[g] = Whole(session[e], g) BY <1>1, <1>5, <4>2, <4>4 DEF Names
        <5> QED BY <4>1, <4>3, <4>4, <5>1 DEF Behind, Holds
      <4>5. CASE f # Manifest
        <5>1. IF manifest_exists[e] THEN final[Manifest] = Whole(session[e], Manifest) ELSE Free(Manifest)
          BY <1>1 DEF Behind
        <5>2. final'[Manifest] = final[Manifest] BY <1>5, <4>5 DEF Names
        <5> QED BY <1>3, <4>1, <4>2, <4>3, <4>5, <5>1, <5>2 DEF Behind, Holds, Free
      <4> QED BY <4>4, <4>5
    <3> QED BY <1>4, <3>1, <3>2
  <2> QED BY <2>1, <2>2, <2>3 DEF Local
<1>11. Durable' BY <1>1, <1>3, DurableKept DEF budgets
<1>12. Directory'
  <2>1. \A g \in Names : IsVerified(g) => IsVerified(g)'
    <3>1. SUFFICES ASSUME NEW g \in Names, IsVerified(g) PROVE IsVerified(g)' OBVIOUS
    <3>2. CASE g = f BY <1>1, <1>3, <1>5, <3>2 DEF IsVerified, Whole, SizeOf
    <3>3. CASE g # f BY <1>5, <3>1, <3>3 DEF IsVerified, Whole, SizeOf
    <3> QED BY <3>2, <3>3
  <2>2. FinalIsVerified' /\ SurvivesPowerLoss'
    BY <1>3, <2>1 DEF Inv, Directory, FinalIsVerified, SurvivesPowerLoss, budgets
  <2>3. ManifestMeansComplete'
    <3>1. SUFFICES ASSUME powers = 0, NEW s \in Sessions, final'[Manifest] = Whole(s, Manifest), NEW g \in Files
                   PROVE  final'[g] = Whole(s, g)
      BY <1>3 DEF ManifestMeansComplete, Whole, SizeOf, budgets
    <3>2. g \in Names /\ Manifest \in Names /\ g # Manifest
      BY BoundAssumption DEF Names, Files, Manifest
    <3>3. CASE f = Manifest
      <4>1. s = session[e] BY <1>1, <1>2, <1>5, <3>1, <3>2, <3>3, WholeIsContent
      <4> QED BY <1>1, <1>5, <3>2, <3>3, <4>1 DEF Behind
    <3>4. CASE f # Manifest
      <4>1. final[f] = Whole(s, f) BY <1>1, <1>5, <3>1, <3>2, <3>4 DEF Inv, Directory, ManifestMeansComplete
      <4> QED BY <1>1, <4>1, WholeIsContent
    <3> QED BY <3>3, <3>4
  <2> QED BY <2>2, <2>3 DEF Directory
<1> QED BY <1>3, <1>7, <1>8, <1>9, <1>10, <1>11, <1>12 DEF Inv, TypeOK

LEMMA PutForeignStep ==
  ASSUME Inv, NEW f \in Names, PutForeign(f)
  PROVE  Inv'
<1> DEFINE c == [src |-> Foreign, len |-> 1]
<1>1. /\ c \in Content /\ c # NoFile /\ c.src = Foreign /\ final[f] = NoFile
      /\ final' = [final EXCEPT ![f] = c] /\ BudgetTypeOK'
      /\ UNCHANGED <<part, durable, pc, detached, locals, cuts, stops, powers>>
  <2>1. c \in Content /\ c.src = Foreign BY DEF Content
  <2>2. c # NoFile BY <2>1, NoFileAssumption
  <2>3. BudgetTypeOK' BY BoundAssumption DEF PutForeign, Inv, TypeOK, BudgetTypeOK
  <2> QED BY <2>1, <2>2, <2>3 DEF PutForeign
<1> HIDE DEF c
<1>2. \A g \in Names : final'[g] = IF g = f THEN c ELSE final[g] BY <1>1 DEF Inv, TypeOK, DiskTypeOK
<1>3. \A g \in Names, s \in Sessions : final[g] = Whole(s, g) => final'[g] = final[g]
  BY <1>1, <1>2, WholeIsContent
<1>4. \A g \in Names, s \in Sessions : final'[g] = Whole(s, g) => final[g] = Whole(s, g)
  BY <1>1, <1>2, WholeIsContent
<1>5. \A g \in Names : Free(g) => Free(g)' BY <1>1, <1>2 DEF Free
<1>6. DiskTypeOK'
  <2>1. final' \in [Names -> Content \cup {NoFile}] BY <1>1 DEF Inv, TypeOK, DiskTypeOK
  <2>2. \A g \in Names : Fits(final'[g], g) BY <1>1, <1>2 DEF Inv, TypeOK, DiskTypeOK, Fits
  <2>3. \A x, g : Fits(x, g)' <=> Fits(x', g) BY DEF Fits, SizeOf
  <2> QED BY <1>1, <2>1, <2>2, <2>3 DEF Inv, TypeOK, DiskTypeOK
<1>7. TaskTypeOK' BY <1>1 DEF Inv, TypeOK, TaskTypeOK, locals
<1>8. Exclusive' BY <1>1 DEF Inv, Exclusive, Holds
<1>9. Local'
  <2>1. SUFFICES ASSUME NEW o \in Exporters PROVE AtFile(o)' /\ Behind(o)' BY DEF Local
  <2>2. AtFile(o) /\ Behind(o) /\ Cur(o) \in Names /\ session[o] \in Sessions
    BY CurBelongs DEF Inv, Local, TypeOK, TaskTypeOK
  <2>3. Cur(o)' = Cur(o) /\ Expected(o)' = Expected(o) BY <1>1 DEF Cur, Expected, Whole, SizeOf, locals
  <2>4. Free(Cur(o)) => Free(Cur(o))' BY <1>2, <1>5, <2>2, <2>3 DEF Free
  <2>5. AtFile(o)' BY <1>1, <2>2, <2>3, <2>4 DEF AtFile, SizeOf, locals, file_length
  <2>6. \A g : Whole(session[o], g)' = Whole(session[o], g) BY <1>1 DEF Whole, SizeOf, locals
  <2>7. Manifest \in Names /\ Files \subseteq Names BY DEF Names
  <2>8. Behind(o)'
    <3>1. pc[o] = "lock" => todo'[o] = Files BY <1>1, <2>2 DEF Behind, locals
    <3>2. Holds(o) => \A g \in Files \ todo[o] : final'[g] = Whole(session[o], g)
      BY <1>3, <2>2, <2>7 DEF Behind
    <3>3. Holds(o) => IF manifest_exists[o] THEN final'[Manifest] = Whole(session[o], Manifest)
                      ELSE Free(Manifest)'
      BY <1>3, <1>5, <2>2, <2>7 DEF Behind
    <3>4. pc[o] = "done" => \A g \in Names : final'[g] = Whole(session[o], g)
      BY <1>3, <2>2 DEF Behind
    <3> QED BY <1>1, <2>6, <3>1, <3>2, <3>3, <3>4 DEF Behind, Holds, locals
  <2> QED BY <2>5, <2>8
<1>10. Durable' BY <1>1 DEF Inv, Durable, Cur, locals
<1>11. Directory'
  <2>1. \A g \in Names : IsVerified(g) => IsVerified(g)'
    <3>1. SUFFICES ASSUME NEW g \in Names, IsVerified(g) PROVE IsVerified(g)' OBVIOUS
    <3>2. CASE g = f BY <1>1, <1>2, <3>2 DEF IsVerified
    <3>3. CASE g # f BY <1>2, <3>1, <3>3 DEF IsVerified, Whole, SizeOf
    <3> QED BY <3>2, <3>3
  <2>2. FinalIsVerified' /\ SurvivesPowerLoss'
    BY <1>1, <2>1 DEF Inv, Directory, FinalIsVerified, SurvivesPowerLoss
  <2>3. ManifestMeansComplete'
    <3>1. SUFFICES ASSUME powers = 0, NEW s \in Sessions, final'[Manifest] = Whole(s, Manifest), NEW g \in Files
                   PROVE  final'[g] = Whole(s, g)
      BY <1>1 DEF ManifestMeansComplete, Whole, SizeOf
    <3>2. final[Manifest] = Whole(s, Manifest) BY <1>4, <3>1 DEF Names
    <3>3. final[g] = Whole(s, g) BY <3>1, <3>2 DEF Inv, Directory, ManifestMeansComplete
    <3> QED BY <1>3, <3>3 DEF Names
  <2> QED BY <2>2, <2>3 DEF Directory
<1> QED BY <1>1, <1>6, <1>7, <1>8, <1>9, <1>10, <1>11 DEF Inv, TypeOK

LEMMA PowerLossStep ==
  ASSUME Inv, PowerLoss
  PROVE  Inv'
<1>1. PICK first \in 1 .. Manifest + 1,
           hurt \in SUBSET {f \in Names \ durable : final[f] # NoFile \/ part[f] # NoFile} :
        LET kept(f) == final[f] # NoFile /\ (f < first \/ final[f].src = Foreign)
            data(f) == IF final[f] # NoFile THEN final[f] ELSE part[f]
            after(f) == IF f \in hurt /\ data(f).src # Foreign THEN [src |-> Junk, len |-> data(f).len]
                        ELSE data(f)
        IN  /\ final' = [f \in Names |-> IF kept(f) THEN after(f) ELSE NoFile]
            /\ part' = [f \in Names |-> IF kept(f) THEN part[f] ELSE after(f)]
  BY DEF PowerLoss
<1> DEFINE kept(f) == final[f] # NoFile /\ (f < first \/ final[f].src = Foreign)
           data(f) == IF final[f] # NoFile THEN final[f] ELSE part[f]
           after(f) == IF f \in hurt /\ data(f).src # Foreign THEN [src |-> Junk, len |-> data(f).len]
                       ELSE data(f)
<1>2. /\ \A f \in Names : final'[f] = IF kept(f) THEN after(f) ELSE NoFile
      /\ \A f \in Names : part'[f] = IF kept(f) THEN part[f] ELSE after(f)
      /\ final' = [f \in Names |-> final'[f]] /\ part' = [f \in Names |-> part'[f]]
  BY <1>1
<1>3. /\ pc' = [e \in Exporters |-> "idle"] /\ detached' = [e \in Exporters |-> FALSE]
      /\ durable' = Names /\ UNCHANGED <<locals, begun, stops, cuts>> /\ powers' # 0 /\ BudgetTypeOK'
  BY BoundAssumption DEF PowerLoss, Inv, TypeOK, BudgetTypeOK
<1>4. DiskTypeOK'
  <2>1. ASSUME NEW f \in Names
        PROVE  /\ after(f) \in Content \cup {NoFile} /\ Fits(after(f), f)
               /\ ~kept(f) /\ after(f) # NoFile => after(f).src # Foreign
    <3>1. /\ data(f) \in Content \cup {NoFile} /\ Fits(data(f), f)
          /\ ~kept(f) /\ data(f) # NoFile => data(f).src # Foreign
      BY DEF Inv, TypeOK, DiskTypeOK
    <3>2. f \in hurt => data(f) # NoFile OBVIOUS
    <3> HIDE DEF data, kept
    <3>3. CASE f \in hurt /\ data(f).src # Foreign
      <4>1. after(f) = [src |-> Junk, len |-> data(f).len] BY <3>3
      <4>2. data(f).len \in Nat BY <3>1, <3>2, <3>3 DEF Content
      <4>3. after(f) \in Content BY <4>1, <4>2 DEF Content
      <4>4. after(f).len = data(f).len /\ after(f).src = Junk BY <4>1
      <4>5. Fits(after(f), f)
        <5> HIDE DEF after
        <5> QED BY <3>1, <3>2, <3>3, <4>4 DEF Fits
      <4> QED BY <4>3, <4>4, <4>5, SourceAssumption
    <3>4. CASE ~(f \in hurt /\ data(f).src # Foreign) BY <3>1, <3>4
    <3> QED BY <3>3, <3>4
  <2> HIDE DEF after, kept
  <2>2. final' \in [Names -> Content \cup {NoFile}] /\ part' \in [Names -> Content \cup {NoFile}]
    BY <1>2, <2>1 DEF Inv, TypeOK, DiskTypeOK
  <2>3. \A f \in Names : Fits(final'[f], f)
    <3>1. \A f : Fits(NoFile, f) BY DEF Fits
    <3> QED BY <1>2, <2>1, <3>1
  <2>4. \A f \in Names : Fits(part'[f], f) /\ (part'[f] # NoFile => part'[f].src # Foreign)
    BY <1>2, <2>1 DEF Inv, TypeOK, DiskTypeOK
  <2>5. \A x, f : Fits(x, f)' <=> Fits(x', f) BY DEF Fits, SizeOf
  <2> QED BY <1>3, <2>2, <2>3, <2>4, <2>5 DEF DiskTypeOK
<1>5. TaskTypeOK' BY <1>3 DEF Inv, TypeOK, TaskTypeOK, locals
<1>6. \A e \in Exporters : pc'[e] = "idle" BY <1>3
<1>7. Exclusive' BY <1>6 DEF Exclusive, Holds
<1>8. Local' BY <1>6 DEF Local, AtFile, Behind, Holds
<1>9. Durable' BY <1>3 DEF Durable
<1>10. SurvivesPowerLoss'
  <2>1. SUFFICES ASSUME stops = 0, cuts = 0, NEW f \in Names PROVE IsVerified(f)'
    BY <1>3 DEF SurvivesPowerLoss
  <2>2. IsVerified(f) BY <2>1 DEF Inv, Directory, SurvivesPowerLoss
  <2>3. f \notin durable => Free(f)
    <3>1. SUFFICES ASSUME f \notin durable PROVE Free(f) OBVIOUS
    <3>2. PICK e \in Exporters : pc[e] \in {"stream", "write", "sync"} /\ Cur(e) = f
      BY <2>1, <3>1 DEF Inv, Durable
    <3> QED BY <3>2 DEF Inv, Local, AtFile
  <2>4. final'[f] \in {NoFile, final[f]} BY <1>2, <2>3 DEF Free
  <2> QED BY <2>2, <2>4 DEF IsVerified, Whole, SizeOf
<1>11. Directory' BY <1>3, <1>10 DEF Directory, FinalIsVerified, ManifestMeansComplete
<1> QED BY <1>3, <1>4, <1>5, <1>7, <1>8, <1>9, <1>11 DEF Inv, TypeOK

LEMMA InitInv == Init => Inv
<1> SUFFICES ASSUME Init PROVE Inv OBVIOUS
<1> USE DEF Init
<1>1. TypeOK BY BoundAssumption DEF TypeOK, DiskTypeOK, TaskTypeOK, BudgetTypeOK, Fits
<1>2. \A e \in Exporters : pc[e] = "idle" OBVIOUS
<1>3. Exclusive /\ Local BY <1>2 DEF Exclusive, Local, AtFile, Behind, Holds
<1>4. Durable BY DEF Durable
<1>5. \A f \in Names : IsVerified(f) BY DEF IsVerified
<1>6. ManifestMeansComplete BY WholeIsContent DEF ManifestMeansComplete, Names
<1> QED BY <1>1, <1>3, <1>4, <1>5, <1>6 DEF Inv, Directory, FinalIsVerified, SurvivesPowerLoss

LEMMA StutterInv == Inv /\ UNCHANGED vars => Inv'
<1> SUFFICES ASSUME Inv, UNCHANGED vars PROVE Inv' OBVIOUS
<1> USE DEF vars, disk, locals, budgets
<1>1. TypeOK' BY DEF Inv, TypeOK, DiskTypeOK, TaskTypeOK, BudgetTypeOK, Fits, SizeOf
<1>2. Exclusive' BY DEF Inv, Exclusive, Holds
<1>3. Local' BY NothingNew DEF Inv, Local
<1>4. Durable' BY DEF Inv, Durable, Cur
<1>5. Directory' BY DirectoryKept DEF Inv
<1> QED BY <1>1, <1>2, <1>3, <1>4, <1>5 DEF Inv

LEMMA NextInv == Inv /\ [Next]_vars => Inv'
<1> SUFFICES ASSUME Inv, Next PROVE Inv' BY StutterInv
<1>1. ASSUME NEW e \in Exporters, Download(e) PROVE Inv'
  BY <1>1, CheckFileStep, GetStep, ReceiveStep, EndOfBodyStep, VerifyStep, CheckManifestStep, DoneStep
     DEF Download
<1>2. ASSUME NEW e \in Exporters, BlockingOperation(e) PROVE Inv'
  BY <1>2, OpenStep, WriteStep, SyncStep, CommitStep, CommitRefusedStep DEF BlockingOperation
<1>3. ASSUME NEW e \in Exporters, Run(e) PROVE Inv'
  BY <1>1, <1>2, <1>3, LockStep, LockBusyStep DEF Run
<1> QED BY <1>3, CutStep, EarlyEndStep, CancelStep, KillStep, BeginStep, PutForeignStep, PowerLossStep
        DEF Next

-----------------------------------------------------------------------------
(* Theorems.                                                               *)

(* The inductive invariant holds in every behaviour. *)
THEOREM Invariance == Spec => []Inv
BY InitInv, NextInv, PTL DEF Spec

(* No .part outgrows its file, with everything else TypeOK says. *)
THEOREM TypeCorrect == Spec => []TypeOK
<1>1. Inv => TypeOK BY DEF Inv
<1> QED BY <1>1, Invariance, PTL

(* What commit_partial publishes is a whole file of one session. *)
THEOREM FinalsAreVerified == Spec => []FinalIsVerified
<1>1. Inv => FinalIsVerified BY DEF Inv, Directory
<1> QED BY <1>1, Invariance, PTL

(* sync_all before the commit: final files outlast any number of power     *)
(* losses if no export was interrupted otherwise.                          *)
THEOREM FinalsSurvivePowerLoss == Spec => []SurvivesPowerLoss
<1>1. Inv => SurvivesPowerLoss BY DEF Inv, Directory
<1> QED BY <1>1, Invariance, PTL

(* session.json is committed last: it stands for all files. *)
THEOREM ManifestStandsForAll == Spec => []ManifestMeansComplete
<1>1. Inv => ManifestMeansComplete BY DEF Inv, Directory
<1> QED BY <1>1, Invariance, PTL

(* The report of export_session is true. *)
THEOREM ReportsAreTrue == Spec => []ReportIsTrue
<1>1. Inv => ReportIsTrue BY DEF Inv, Local, Behind, ReportIsTrue
<1> QED BY <1>1, Invariance, PTL

(* Nothing that has its final name is replaced or removed. *)
THEOREM FinalsAreKept == Spec => FinalIsKept
<1>1. ASSUME Inv, Next, NEW f \in Names, final[f] # NoFile
      PROVE  final'[f] = final[f] \/ powers' # powers
  <2>1. CASE PowerLoss BY <2>1 DEF PowerLoss, Inv, TypeOK, BudgetTypeOK
  <2>2. ASSUME NEW g \in Names, PutForeign(g) PROVE final'[f] = final[f]
    BY <1>1, <2>2 DEF PutForeign, Inv, TypeOK, DiskTypeOK
  <2>3. ASSUME NEW e \in Exporters, commit_partial(e) PROVE final'[f] = final[f]
    BY <1>1, <2>3 DEF commit_partial, NoClobber, Inv, TypeOK, DiskTypeOK
  <2>4. ASSUME NEW e \in Exporters, Run(e) \/ Cut(e) \/ EarlyEnd(e) \/ Cancel(e) \/ Kill(e), ~commit_partial(e)
        PROVE  final' = final
    <3> USE DEF Stay, disk
    <3>1. CASE Lock(e) \/ LockBusy(e) BY <3>1 DEF Lock, LockBusy
    <3>2. CASE Download(e)
      BY <3>2 DEF Download, CheckFile, Get, Receive, EndOfBody, Verify, CheckManifest, Done
    <3>3. CASE BlockingOperation(e)
      BY <2>4, <3>3 DEF BlockingOperation, open_partial, write_partial, sync_partial, CommitRefused
    <3>4. CASE Cut(e) \/ EarlyEnd(e) \/ Cancel(e) \/ Kill(e) BY <3>4 DEF Cut, EarlyEnd, Cancel, Kill
    <3> QED BY <2>4, <3>1, <3>2, <3>3, <3>4 DEF Run
  <2>5. ASSUME NEW e \in Exporters, NEW s \in Sessions, Begin(e, s) PROVE final' = final
    BY <2>5 DEF Begin, disk
  <2> QED BY <1>1, <2>1, <2>2, <2>3, <2>4, <2>5 DEF Next
<1>2. Inv /\ [Next]_vars =>
        [\A f \in Names : final[f] # NoFile => final'[f] = final[f] \/ powers' # powers]_vars
  BY <1>1
<1> QED BY <1>2, Invariance, PTL DEF Spec, FinalIsKept
-----------------------------------------------------------------------------
(* Resuming: what the .part of a file is while one session is exported.    *)

(* An export that runs is of a session that was begun. *)
BegunOf(e) == pc[e] # "idle" => session[e] \in begun

(* The beginning of the file, or nothing yet. *)
Beginning(c, s, f) ==
  c # NoFile => c.len <= SizeOf(s, f) /\ (c.src = s \/ (c.src = Junk /\ c.len = 0))

Resumable ==
  /\ \A e \in Exporters : BegunOf(e)
  /\ junked = 0 /\ powers = 0 =>
       \A s \in Sessions : begun \subseteq {s} => \A f \in Names : Beginning(part[f], s, f)

(* A step that writes to no .part and begins no session. *)
LEMMA ResumableKept ==
  ASSUME Resumable, UNCHANGED <<part, begun, session>>, powers' = 0 => powers = 0,
         junked' = junked, \A e \in Exporters : pc'[e] # "idle" => pc[e] # "idle"
  PROVE  Resumable'
<1>1. \A e \in Exporters : BegunOf(e)' BY DEF Resumable, BegunOf
<1>2. \A c, s, f : Beginning(c, s, f)' <=> Beginning(c', s, f) BY DEF Beginning, SizeOf
<1> QED BY <1>1, <1>2 DEF Resumable

(* An export of the only session begun writes to the .part of its file. *)
LEMMA ResumableWritten ==
  ASSUME Inv, Resumable, NEW e \in Exporters, pc[e] # "idle", UNCHANGED <<begun, session>>,
         \A o \in Exporters : pc'[o] # "idle" => pc[o] # "idle",
         NEW c, part' = [part EXCEPT ![Cur(e)] = c],
         powers' = powers, junked' = 0 => junked = 0,
         junked' = 0 /\ Beginning(part[Cur(e)], session[e], Cur(e)) => Beginning(c, session[e], Cur(e))
  PROVE  Resumable'
<1>1. \A o \in Exporters : BegunOf(o)' BY DEF Resumable, BegunOf
<1>2. \A x, s, f : Beginning(x, s, f)' <=> Beginning(x', s, f) BY DEF Beginning, SizeOf
<1>3. ASSUME junked' = 0, powers' = 0, NEW s \in Sessions, begun \subseteq {s}, NEW f \in Names
      PROVE  Beginning(part'[f], s, f)
  <2>1. session[e] = s BY <1>3 DEF Resumable, BegunOf
  <2>2. Beginning(part[f], s, f) BY <1>3 DEF Resumable
  <2>3. part'[f] = IF f = Cur(e) THEN c ELSE part[f] BY DEF Inv, TypeOK, DiskTypeOK
  <2> QED BY <1>3, <2>1, <2>2, <2>3
<1> QED BY <1>1, <1>2, <1>3 DEF Resumable

LEMMA ResumableWrite ==
  ASSUME Inv, Resumable, NEW e \in Exporters, write_partial(e)
  PROVE  Resumable'
<1> DEFINE f == Cur(e)
           s == session[e]
<1>1. /\ pc[e] = "write" /\ f \in Names /\ s \in Sessions /\ part[f] # NoFile /\ part[f] \in Content
      /\ part[f].len = written[e] /\ written[e] < SizeOf(s, f) /\ SizeOf(s, f) \in Nat
      /\ UNCHANGED <<begun, session, powers>>
      /\ \A o \in Exporters : pc'[o] # "idle" => pc[o] # "idle"
  BY CurBelongs, SizeIsPositive
     DEF write_partial, Then, Step, Inv, Local, AtFile, TypeOK, DiskTypeOK, TaskTypeOK
<1>2. CASE part' = [part EXCEPT ![f] = Append(part[f], s, written[e])] /\ UNCHANGED junked
  <2> DEFINE c == Append(part[f], s, written[e])
  <2>1. ASSUME Beginning(part[f], s, f) PROVE Beginning(c, s, f)
    <3>1. part[f].len = 0 \/ part[f].src = s BY <1>1, <2>1 DEF Beginning
    <3>2. c = [src |-> s, len |-> part[f].len + 1] BY <1>1, <3>1 DEF Append
    <3>3. c.src = s /\ c.len <= SizeOf(s, f) BY <1>1, <3>2 DEF Content
    <3> QED BY <3>3 DEF Beginning
  <2> QED BY <1>1, <1>2, <2>1, ResumableWritten
<1>3. CASE /\ junked' = junked + 1
           /\ part' = [part EXCEPT ![f] = Append(part[f], Junk, written[e])]
  <2>1. junked' # 0 BY <1>3 DEF Inv, TypeOK, BudgetTypeOK
  <2> QED BY <1>1, <1>3, <2>1, ResumableWritten
<1> QED BY <1>2, <1>3 DEF write_partial

LEMMA ResumableOpen ==
  ASSUME Inv, Resumable, NEW e \in Exporters, open_partial(e)
  PROVE  Resumable'
<1> DEFINE f == Cur(e)
           c == Opened(part[f], written[e])
<1>1. /\ pc[e] = "open" /\ f \in Names /\ session[e] \in Sessions
      /\ UNCHANGED <<begun, session, powers, junked>> /\ part' = [part EXCEPT ![f] = c]
      /\ \A o \in Exporters : pc'[o] # "idle" => pc[o] # "idle"
  BY CurBelongs DEF open_partial, Then, Step, locals, budgets, Inv, TypeOK, TaskTypeOK
<1>2. ASSUME Beginning(part[f], session[e], f) PROVE Beginning(c, session[e], f)
  <2>1. c = part[f] \/ c = Empty BY DEF Opened
  <2>2. Beginning(Empty, session[e], f)
    BY <1>1, SizeIsPositive DEF Beginning, Empty
  <2> QED BY <1>2, <2>1, <2>2
<1> HIDE DEF c
<1> QED BY <1>1, <1>2, ResumableWritten

LEMMA ResumableCommit ==
  ASSUME Inv, Resumable, NEW e \in Exporters, commit_partial(e)
  PROVE  Resumable'
<1>1. /\ pc[e] = "commit" /\ UNCHANGED <<begun, session, powers, junked>>
      /\ part' = [part EXCEPT ![Cur(e)] = NoFile]
      /\ \A o \in Exporters : pc'[o] # "idle" => pc[o] # "idle"
  BY DEF commit_partial, Finished, Step, budgets, Inv, TypeOK, TaskTypeOK
<1>2. Beginning(NoFile, session[e], Cur(e)) BY DEF Beginning
<1> QED BY <1>1, <1>2, ResumableWritten

(* One more session only leaves fewer for which anything is promised. *)
LEMMA ResumableBegin ==
  ASSUME Inv, Resumable, NEW e \in Exporters, NEW s \in Sessions, Begin(e, s)
  PROVE  Resumable'
<1>1. /\ begun' = begun \cup {s} /\ session' = [session EXCEPT ![e] = s]
      /\ pc' = [pc EXCEPT ![e] = "lock"] /\ UNCHANGED <<part, junked, powers>>
  BY DEF Begin, Step, disk, budgets
<1>2. \A o \in Exporters : BegunOf(o)'
  BY <1>1 DEF Resumable, BegunOf, Inv, TypeOK, TaskTypeOK
<1>3. \A x, t, f : Beginning(x, t, f)' <=> Beginning(x', t, f) BY DEF Beginning, SizeOf
<1>4. \A t : begun' \subseteq {t} => begun \subseteq {t} BY <1>1
<1> QED BY <1>1, <1>2, <1>3, <1>4 DEF Resumable

LEMMA NextResumable == Inv /\ Resumable /\ [Next]_vars => Resumable'
<1> SUFFICES ASSUME Inv, Resumable, [Next]_vars PROVE Resumable' OBVIOUS
<1>1. ASSUME NEW e \in Exporters, NEW s \in Sessions, Begin(e, s) PROVE Resumable'
  BY <1>1, ResumableBegin
<1>2. ASSUME NEW e \in Exporters, write_partial(e) \/ open_partial(e) \/ commit_partial(e)
      PROVE  Resumable'
  BY <1>2, ResumableWrite, ResumableOpen, ResumableCommit
<1>3. ASSUME NEW e \in Exporters, Lock(e) \/ LockBusy(e) \/ Download(e) PROVE Resumable'
  <2>1. UNCHANGED <<part, begun, session, powers, junked>>
    BY <1>3 DEF Lock, LockBusy, Download, CheckFile, Get, Receive, EndOfBody, Verify, CheckManifest, Done,
         Stay, disk, locals, budgets
  <2>2. \A o \in Exporters : pc'[o] # "idle" => pc[o] # "idle"
    BY <1>3 DEF Lock, LockBusy, Download, CheckFile, Get, Receive, EndOfBody, Verify, CheckManifest, Done,
         Step, Finished, FullPart, Inv, TypeOK, TaskTypeOK
  <2> QED BY <2>1, <2>2, ResumableKept
<1>4. ASSUME NEW e \in Exporters, sync_partial(e) \/ CommitRefused(e) PROVE Resumable'
  BY <1>4, ResumableKept
     DEF sync_partial, CommitRefused, Then, Step, disk, locals, budgets, Inv, TypeOK, TaskTypeOK
<1>5. ASSUME NEW e \in Exporters, Cut(e) \/ EarlyEnd(e) PROVE Resumable'
  BY <1>5, ResumableKept DEF Cut, EarlyEnd, Step, disk, locals, Inv, TypeOK, TaskTypeOK
<1>6. ASSUME NEW e \in Exporters, Cancel(e) \/ Kill(e) PROVE Resumable'
  BY <1>6, ResumableKept DEF Cancel, Kill, Stopped, Step, disk, locals, Inv, TypeOK, TaskTypeOK
<1>7. ASSUME NEW f \in Names, PutForeign(f) PROVE Resumable'
  BY <1>7, ResumableKept DEF PutForeign, locals
<1>8. CASE PowerLoss
  <2>1. powers' # 0 BY <1>8 DEF PowerLoss, Inv, TypeOK, BudgetTypeOK
  <2>2. \A o \in Exporters : pc'[o] = "idle" BY <1>8 DEF PowerLoss
  <2> QED BY <2>1, <2>2 DEF Resumable, BegunOf
<1>9. CASE UNCHANGED vars BY <1>9, ResumableKept DEF vars, disk, locals, budgets
<1> QED BY <1>1, <1>2, <1>3, <1>4, <1>5, <1>6, <1>7, <1>8, <1>9 DEF Next, Run, BlockingOperation

(* Resuming a .part of an earlier, interrupted export is right. *)
THEOREM PartsAreResumable == Spec => []PartIsResumable
<1>1. Init => Resumable BY DEF Init, Resumable, BegunOf, Beginning
<1>2. Inv /\ Resumable => PartIsResumable
  <2> SUFFICES ASSUME Resumable, junked = 0, powers = 0, NEW s \in Sessions, begun = {s},
                      NEW f \in Names, part[f] # NoFile
               PROVE  /\ part[f].len <= SizeOf(s, f) /\ part[f].src \in {s, Junk}
                      /\ part[f].src = Junk => part[f].len = 0
    BY DEF PartIsResumable
  <2>1. Beginning(part[f], s, f) BY DEF Resumable
  <2> QED BY <2>1, SourceAssumption DEF Beginning
<1>3. Spec => []Resumable BY <1>1, NextResumable, Invariance, PTL DEF Spec
<1> QED BY <1>2, <1>3, Invariance, PTL
=============================================================================
