--------------------------- MODULE SessionExport ---------------------------
(***************************************************************************)
(* sdk/core/src/export.rs: export_session, the copy of a session from a    *)
(* device into a directory that earlier, interrupted or simultaneous       *)
(* exports have used.                                                      *)
(*                                                                         *)
(* Each file is downloaded into <name>.part, resumed where an earlier      *)
(* export left it, synced, hashed and renamed to its final name unless     *)
(* that exists; session.json comes last.  Writes, syncs and renames run on *)
(* blocking threads: a cancelled export leaves the one that is under way   *)
(* behind, and that one keeps the lock of the directory.                   *)
(*                                                                         *)
(* Data is abstracted to where its blocks came from: content is a number   *)
(* of blocks of one session, or junk when blocks of several got mixed or   *)
(* the network damaged one.  No two sessions share a block.                *)
(***************************************************************************)
EXTENDS Integers, FiniteSetsExt

CONSTANTS
  Exporters,   \* tasks of one or several processes
  Sessions,
  Size,        \* blocks of each file of a session
  NFiles,      \* files of a session, besides session.json
  Junk,        \* source of mixed or damaged blocks
  Foreign,     \* source of a file somebody else put there
  NoFile,
  MaxCut,      \* bound on failing or interrupted responses
  MaxJunk,     \* bound on damaged blocks
  MaxForeign,  \* bound on files of somebody else
  MaxStop,     \* bound on cancelled exports and killed processes
  MaxPower     \* bound on power losses

ASSUME SizeAssumption == Size \in [Sessions -> Nat \ {0}]
ASSUME SourceAssumption == Junk \notin Sessions /\ Foreign \notin Sessions \cup {Junk}
ASSUME BoundAssumption ==
  /\ NFiles \in Nat \ {0} /\ MaxCut \in Nat /\ MaxJunk \in Nat
  /\ MaxForeign \in Nat /\ MaxStop \in Nat /\ MaxPower \in Nat

Files == 1 .. NFiles          \* in the order of the export plan
Manifest == NFiles + 1        \* session.json
Names == Files \cup {Manifest}

VARIABLES
  final, part,    \* content under the final name and under <name>.part
  durable,        \* names whose data is on the disk
  \* Per export: position, whether its caller has gone, and its locals.
  pc, detached, session, todo, manifest_exists, written,
  \* Sessions exported so far, and what has gone wrong.
  begun, cuts, junked, foreigns, stops, powers

disk == <<final, part, durable>>
locals == <<session, todo, manifest_exists, written>>
budgets == <<cuts, junked, foreigns, stops, powers>>
vars == <<disk, pc, detached, locals, begun, budgets>>

Content == [src : Sessions \cup {Junk, Foreign}, len : Nat]
Empty == [src |-> Junk, len |-> 0]
ASSUME NoFileAssumption == NoFile \notin Content
SizeOf(s, f) == IF f = Manifest THEN 1 ELSE Size[s]
Whole(s, f) == [src |-> s, len |-> SizeOf(s, f)]

(* Block number at of source x arrives behind content c. *)
Append(c, x, at) ==
  [src |-> IF at = c.len /\ (c.len = 0 \/ c.src = x) THEN x ELSE Junk, len |-> c.len + 1]

(* The file an export works on. *)
Cur(e) == IF todo[e] = {} THEN Manifest ELSE Min(todo[e])
Expected(e) == Whole(session[e], Cur(e))
file_length(c) == IF c = NoFile THEN 0 ELSE c.len

Blocking == {"open", "write", "sync", "commit"}

(* MUTANT of Holds: a cancelled export lets go of the lock at once. *)
HoldsWhileAwaited(e) == pc[e] \notin {"idle", "lock", "done"} /\ ~detached[e]

Holds(e) == pc[e] \notin {"idle", "lock", "done"}

Step(e, p) == pc' = [pc EXCEPT ![e] = p]
Stay == UNCHANGED <<disk, detached, begun, budgets>>

-----------------------------------------------------------------------------
(* export_session up to the loop over the files.                           *)

(* MUTANT of verify_export_manifest: a part of the inventory will do. *)
AnySubset(plan) == plan # {}

verify_export_manifest(plan) == plan = Files

(* prepare_export and fetch_manifest: the plan of the device is checked    *)
(* against session.json of the device.                                     *)
Begin(e, s) ==
  /\ pc[e] = "idle" /\ Step(e, "lock")
  /\ \E plan \in SUBSET Files :
       verify_export_manifest(plan) /\ todo' = [todo EXCEPT ![e] = plan]
  /\ session' = [session EXCEPT ![e] = s] /\ begun' = begun \cup {s}
  /\ UNCHANGED <<disk, detached, manifest_exists, written, budgets>>

(* lock_directory and the validation of all final files. *)
FinalsMatch(e) ==
  \A f \in todo[e] \cup {Manifest} : final[f] \in {NoFile, Whole(session[e], f)}

Lock(e) ==
  /\ pc[e] = "lock" /\ \A o \in Exporters : ~Holds(o)
  /\ Step(e, IF FinalsMatch(e) THEN "check" ELSE "idle")
  /\ manifest_exists' = [manifest_exists EXCEPT ![e] = final[Manifest] # NoFile]
  /\ UNCHANGED <<session, todo, written>> /\ Stay

LockBusy(e) ==
  /\ pc[e] = "lock" /\ \E o \in Exporters : Holds(o)
  /\ Step(e, "idle") /\ UNCHANGED locals /\ Stay

-----------------------------------------------------------------------------
(* download_file.                                                          *)

(* The file is done, or the export, when it was session.json. *)
Finished(e) ==
  /\ todo' = [todo EXCEPT ![e] = @ \ {Cur(e)}]
  /\ Step(e, IF Cur(e) = Manifest THEN "done" ELSE "check")

(* MUTANT of FullPart: a .part of the right length is taken as it is. *)
FullPartByLength(e) == "commit"

(* A .part of full length is committed if its hash is right, else kept. *)
FullPart(e) == IF part[Cur(e)] = Expected(e) THEN "commit" ELSE "idle"

CheckFile(e) ==
  /\ pc[e] = "check" /\ Cur(e) # Manifest
  /\ LET f == Cur(e)
         existing == file_length(part[f])
     IN  IF final[f] = Expected(e) THEN Finished(e)
         ELSE /\ UNCHANGED todo
              /\ Step(e, IF final[f] # NoFile \/ existing > SizeOf(session[e], f) THEN "idle"
                         ELSE IF existing = SizeOf(session[e], f) THEN FullPart(e) ELSE "get")
  /\ UNCHANGED <<session, manifest_exists, written>> /\ Stay

(* 206 continues behind the .part, 200 starts again. *)
Get(e) ==
  /\ pc[e] = "get" /\ Step(e, "open")
  /\ \E offset \in {0, file_length(part[Cur(e)])} : written' = [written EXCEPT ![e] = offset]
  /\ UNCHANGED <<session, todo, manifest_exists>> /\ Stay

(* A request that fails, an answer that is refused, or a body that breaks  *)
(* off or is too long.                                                     *)
Cut(e) ==
  /\ pc[e] \in {"get", "stream"} /\ Step(e, "idle")
  /\ cuts < MaxCut /\ cuts' = cuts + 1
  /\ UNCHANGED <<disk, detached, locals, begun, junked, foreigns, stops, powers>>

Receive(e) ==
  /\ pc[e] = "stream" /\ written[e] < SizeOf(session[e], Cur(e)) /\ Step(e, "write")
  /\ UNCHANGED locals /\ Stay

EndOfBody(e) ==
  /\ pc[e] = "stream" /\ written[e] = SizeOf(session[e], Cur(e)) /\ Step(e, "sync")
  /\ UNCHANGED locals /\ Stay

(* A body without a declared length ends early. *)
EarlyEnd(e) ==
  /\ pc[e] = "stream" /\ written[e] < SizeOf(session[e], Cur(e)) /\ Step(e, "sync")
  /\ cuts < MaxCut /\ cuts' = cuts + 1
  /\ UNCHANGED <<disk, detached, locals, begun, junked, foreigns, stops, powers>>

(* MUTANT of HashMatches: only the size is compared. *)
SizeMatches(e) == written[e] = SizeOf(session[e], Cur(e))

HashMatches(e) == written[e] = SizeOf(session[e], Cur(e)) /\ part[Cur(e)] = Expected(e)

Verify(e) ==
  /\ pc[e] = "verify" /\ Step(e, IF HashMatches(e) THEN "commit" ELSE "idle")
  /\ UNCHANGED locals /\ Stay

(* After the files: session.json, unless it was there before. *)
CheckManifest(e) ==
  /\ pc[e] = "check" /\ Cur(e) = Manifest
  /\ Step(e, IF manifest_exists[e] THEN "done" ELSE "open")
  /\ written' = [written EXCEPT ![e] = 0]
  /\ UNCHANGED <<session, todo, manifest_exists>> /\ Stay

Done(e) == pc[e] = "done" /\ Step(e, "idle") /\ UNCHANGED locals /\ Stay

-----------------------------------------------------------------------------
(* Operations on blocking threads.  They run to their end when the export  *)
(* that waits for them is cancelled, and then the lock is released.        *)

Then(e, p) ==
  /\ Step(e, IF detached[e] THEN "idle" ELSE p)
  /\ detached' = [detached EXCEPT ![e] = FALSE]

(* MUTANT of Opened: the old content is not truncated. *)
OpenedAsItIs(c, offset) == IF c # NoFile THEN c ELSE Empty

(* append(offset > 0) and otherwise truncate. *)
Opened(c, offset) == IF offset > 0 /\ c # NoFile THEN c ELSE Empty

open_partial(e) ==
  LET f == Cur(e) IN
  /\ pc[e] = "open" /\ Then(e, IF f = Manifest THEN "write" ELSE "stream")
  /\ part' = [part EXCEPT ![f] = Opened(part[f], written[e])]
  /\ durable' = durable \ {f}
  /\ UNCHANGED <<final, locals, begun, budgets>>

(* The block came over a network that may have damaged it. *)
write_partial(e) ==
  LET f == Cur(e) IN
  /\ pc[e] = "write" /\ Then(e, IF f = Manifest THEN "sync" ELSE "stream")
  /\ \/ part' = [part EXCEPT ![f] = Append(part[f], session[e], written[e])] /\ UNCHANGED junked
     \/ /\ f # Manifest /\ junked < MaxJunk /\ junked' = junked + 1
        /\ part' = [part EXCEPT ![f] = Append(part[f], Junk, written[e])]
  /\ durable' = durable \ {f} /\ written' = [written EXCEPT ![e] = @ + 1]
  /\ UNCHANGED <<final, session, todo, manifest_exists, begun, cuts, foreigns, stops,
                 powers>>

(* MUTANT of sync_all: nothing is forced to the disk. *)
no_sync(f) == durable

sync_all(f) == durable \cup {f}

sync_partial(e) ==
  /\ pc[e] = "sync" /\ Then(e, IF Cur(e) = Manifest THEN "commit" ELSE "verify")
  /\ durable' = sync_all(Cur(e))
  /\ UNCHANGED <<final, part, locals, begun, budgets>>

(* MUTANT of NoClobber: the rename replaces a file of the final name. *)
Clobber(f) == TRUE

NoClobber(f) == final[f] = NoFile

commit_partial(e) ==
  LET f == Cur(e) IN
  /\ pc[e] = "commit" /\ NoClobber(f)
  /\ final' = [final EXCEPT ![f] = part[f]] /\ part' = [part EXCEPT ![f] = NoFile]
  /\ IF detached[e] THEN Step(e, "idle") /\ UNCHANGED todo ELSE Finished(e)
  /\ detached' = [detached EXCEPT ![e] = FALSE]
  /\ UNCHANGED <<durable, session, manifest_exists, written, begun, budgets>>

(* A file of the final name has appeared. *)
CommitRefused(e) ==
  /\ pc[e] = "commit" /\ ~NoClobber(Cur(e)) /\ Then(e, "idle")
  /\ UNCHANGED <<disk, locals, begun, budgets>>

-----------------------------------------------------------------------------
(* The environment.                                                        *)

Stopped == stops < MaxStop /\ stops' = stops + 1 /\ UNCHANGED <<cuts, junked, foreigns, powers>>

(* The future is dropped.  A blocking operation goes on without it. *)
Cancel(e) ==
  /\ pc[e] \notin {"idle", "done"} /\ ~detached[e] /\ Stopped
  /\ IF pc[e] \in Blocking THEN detached' = [detached EXCEPT ![e] = TRUE] /\ UNCHANGED pc
     ELSE Step(e, "idle") /\ UNCHANGED detached
  /\ UNCHANGED <<disk, locals, begun>>

(* The process is killed, with what runs on its threads. *)
Kill(e) ==
  /\ pc[e] # "idle" /\ Stopped /\ Step(e, "idle") /\ detached' = [detached EXCEPT ![e] = FALSE]
  /\ UNCHANGED <<disk, locals, begun>>

(* Somebody else puts a file of a final name into the directory. *)
PutForeign(f) ==
  /\ final[f] = NoFile /\ final' = [final EXCEPT ![f] = [src |-> Foreign, len |-> 1]]
  /\ foreigns < MaxForeign /\ foreigns' = foreigns + 1
  /\ UNCHANGED <<part, durable, pc, detached, locals, begun, cuts, junked, stops, powers>>

(* Power loss on a journalling file system: renames are kept in the order  *)
(* in which they are made, up to some point, and data that was not synced  *)
(* may be damaged.                                                         *)
PowerLoss ==
  /\ powers < MaxPower /\ powers' = powers + 1
  /\ pc' = [e \in Exporters |-> "idle"] /\ detached' = [e \in Exporters |-> FALSE]
  /\ \E first \in 1 .. Manifest + 1 :
     \E hurt \in SUBSET {f \in Names \ durable : final[f] # NoFile \/ part[f] # NoFile} :
       LET kept(f) == final[f] # NoFile /\ (f < first \/ final[f].src = Foreign)
           data(f) == IF final[f] # NoFile THEN final[f] ELSE part[f]
           after(f) == IF f \in hurt /\ data(f).src # Foreign THEN [src |-> Junk, len |-> data(f).len] ELSE data(f)
       IN  /\ final' = [f \in Names |-> IF kept(f) THEN after(f) ELSE NoFile]
           /\ part' = [f \in Names |-> IF kept(f) THEN part[f] ELSE after(f)]
  /\ durable' = Names /\ UNCHANGED <<locals, begun, cuts, junked, foreigns, stops>>

-----------------------------------------------------------------------------
Init ==
  /\ final = [f \in Names |-> NoFile] /\ part = [f \in Names |-> NoFile] /\ durable = Names
  /\ pc = [e \in Exporters |-> "idle"] /\ detached = [e \in Exporters |-> FALSE]
  /\ session \in [Exporters -> Sessions] /\ todo = [e \in Exporters |-> {}]
  /\ manifest_exists = [e \in Exporters |-> FALSE]
  /\ written = [e \in Exporters |-> 0]
  /\ begun = {} /\ cuts = 0 /\ junked = 0 /\ foreigns = 0 /\ stops = 0 /\ powers = 0

Download(e) ==
  \/ CheckFile(e) \/ Get(e) \/ Receive(e) \/ EndOfBody(e) \/ Verify(e) \/ CheckManifest(e) \/ Done(e)

BlockingOperation(e) ==
  open_partial(e) \/ write_partial(e) \/ sync_partial(e) \/ commit_partial(e) \/ CommitRefused(e)

Run(e) == Lock(e) \/ LockBusy(e) \/ Download(e) \/ BlockingOperation(e)

Next ==
  \/ \E e \in Exporters : Run(e) \/ Cut(e) \/ EarlyEnd(e) \/ Cancel(e) \/ Kill(e)
  \/ \E e \in Exporters, s \in Sessions : Begin(e, s)
  \/ \E f \in Names : PutForeign(f)
  \/ PowerLoss

Spec == Init /\ [][Next]_vars

(* The tasks run, and the user repeats the export until it is complete.    *)
FairSpec ==
  /\ Spec
  /\ \A e \in Exporters : WF_vars(Run(e)) /\ WF_vars(\E s \in Sessions : Begin(e, s))

-----------------------------------------------------------------------------
(* No .part outgrows the file it is for, whichever exports of whichever    *)
(* sessions wrote to it and were cancelled in between (the check "written  *)
(* > item.size" is per export, the .part is not).                          *)
Fits(c, f) == c # NoFile /\ c.src # Foreign => \E s \in Sessions : c.len <= SizeOf(s, f)

DiskTypeOK ==
  /\ final \in [Names -> Content \cup {NoFile}] /\ part \in [Names -> Content \cup {NoFile}]
  /\ \A f \in Names : Fits(final[f], f) /\ Fits(part[f], f) /\ (part[f] # NoFile => part[f].src # Foreign)
  /\ durable \subseteq Names

TaskTypeOK ==
  /\ pc \in [Exporters -> {"idle", "lock", "check", "get", "stream", "verify", "done"} \cup Blocking]
  /\ detached \in [Exporters -> BOOLEAN] /\ \A e \in Exporters : detached[e] => pc[e] \in Blocking
  /\ session \in [Exporters -> Sessions] /\ todo \in [Exporters -> SUBSET Files]
  /\ manifest_exists \in [Exporters -> BOOLEAN] /\ written \in [Exporters -> Nat]

BudgetTypeOK ==
  /\ begun \subseteq Sessions
  /\ cuts \in 0 .. MaxCut /\ junked \in 0 .. MaxJunk /\ foreigns \in 0 .. MaxForeign
  /\ stops \in 0 .. MaxStop /\ powers \in 0 .. MaxPower

TypeOK == DiskTypeOK /\ TaskTypeOK /\ BudgetTypeOK

IsVerified(f) ==
  final[f] # NoFile => final[f].src = Foreign \/ \E s \in Sessions : final[f] = Whole(s, f)

(* A file of a final name, unless somebody else put it there, is a whole   *)
(* file of one session: never a mixture of two, a damaged or a shortened   *)
(* one.  (A power loss can break this, see the next property.)             *)
FinalIsVerified == powers = 0 => \A f \in Names : IsVerified(f)

(* It stays so over power losses if no export was interrupted otherwise.   *)
(* (An export interrupted between the last write and sync_all leaves a     *)
(* full .part, and the next one commits it without a sync.)                *)
SurvivesPowerLoss == stops = 0 /\ cuts = 0 => \A f \in Names : IsVerified(f)

(* While there is power nothing that has its final name changes or goes,   *)
(* whoever put it there and whenever ("refusing to overwrite").            *)
FinalIsKept ==
  [][\A f \in Names : final[f] # NoFile => final'[f] = final[f] \/ powers' # powers]_vars

(* The session.json of a session stands for the whole session: it is there *)
(* only when every file of the session is, whatever interrupted the        *)
(* exports into the directory.                                             *)
ManifestMeansComplete ==
  powers = 0 =>
    \A s \in Sessions :
      final[Manifest] = Whole(s, Manifest) => \A f \in Files : final[f] = Whole(s, f)

(* The report of an export (verified: true, manifest_saved: true) is true  *)
(* of the directory at the time of the report, also after power losses.    *)
ReportIsTrue ==
  \A e \in Exporters : pc[e] = "done" => \A f \in Names : final[f] = Whole(session[e], f)

(* Without damage from the network or a power loss, and if the directory   *)
(* is used for one session, every .part is the beginning of its file:      *)
(* resuming it is right whenever earlier exports were interrupted.         *)
PartIsResumable ==
  junked = 0 /\ powers = 0 =>
    \A s \in Sessions : begun = {s} =>
      \A f \in Names : part[f] # NoFile =>
        part[f].len <= SizeOf(s, f) /\ part[f].src \in {s, Junk} /\ (part[f].src = Junk => part[f].len = 0)

Tainted == junked > 0 \/ foreigns > 0 \/ powers > 0 \/ Cardinality(begun) > 1

(* Repeating the command completes the export, whatever failed, was        *)
(* cancelled or killed before and whoever else exports into the directory. *)
ExportResumes == <>(Tainted \/ \E s \in Sessions : \A f \in Names : final[f] = Whole(s, f))
=============================================================================
