---------------------------- MODULE TinaWatchdog ----------------------------
(***************************************************************************)
(* device/S95syncap-tina: the init script of the Tina board.               *)
(*                                                                         *)
(* `start` launches a watchdog shell that keeps one service process alive; *)
(* `stop` and `restart` take both down from another shell.  They share two *)
(* identity files (pid, start time and role, so that a stale file matches  *)
(* nothing), a stop marker and signals.  The recorder outlives the service *)
(* and fills an 88 MiB tmpfs, so it must not be left without a consumer.   *)
(*                                                                         *)
(* A service may end at any time, told to or not.  Timeouts are found      *)
(* expired at any time, except that a watchdog is not starved: the six     *)
(* seconds of `stop` end early only for one that is blocked in wait.       *)
(***************************************************************************)
EXTENDS Integers, FiniteSets

CONSTANTS
  Dogs,        \* watchdog processes, reused
  Svcs,        \* service processes, reused
  None,        \* no process
  Admins,      \* shells that run start, stop and restart
  MaxCmd,      \* bound on the commands they run
  MaxFault,    \* bound on identity files that cannot be written
  MaxDogKill   \* bound on watchdogs killed by something else

ASSUME ProcessAssumption == None \notin Dogs \cup Svcs
ASSUME BudgetAssumption == MaxCmd \in Nat /\ MaxFault \in Nat /\ MaxDogKill \in Nat

VARIABLES
  dog,       \* where each watchdog is in watchdog_loop
  term, watchdog_stop,              \* a TERM to it is pending, was trapped
  watchdog_child, rapid_failures,
  lasted,    \* the child it reaped ran for 15 seconds
  svc,       \* service processes
  qgapp,     \* the recorder is running
  dogFile, kidFile, marker,         \* SERVICE_PID, SERVICE_CHILD_PID, STOP_MARKER
  adm, keep_qgapp,                  \* where each administrator's shell is
  \* History: services told to end by an administrator; short runs in a row.
  asked, shorts,
  cmds, faults, kills

dogLocals == <<term, watchdog_stop, rapid_failures, lasted, shorts>>
dogVars   == <<dog, watchdog_child, dogLocals>>
svcVars   == <<svc, asked>>
fileVars  == <<dogFile, kidFile, marker>>
admVars   == <<adm, keep_qgapp, cmds, kills>>
vars == <<dogVars, svcVars, qgapp, fileVars, admVars, faults>>

Serving(s) == svc[s] \in {"serving", "aged"}      \* "aged": for 15 seconds
Running(s) == svc[s] = "boot" \/ Serving(s)
Zombie(s) == svc[s] \in {"zombie", "agedZombie"}
service_process == {s \in Svcs : Running(s)}

(* identity_pid; a zombie has no start time. *)
watchdog_identity == IF dogFile # None /\ dog[dogFile] # "gone" THEN dogFile ELSE None
kid_identity == IF kidFile # None /\ Running(kidFile) THEN kidFile ELSE None

StepDog(d, p) == dog' = [dog EXCEPT ![d] = p]
StepAdm(a, p) == adm' = [adm EXCEPT ![a] = p]

(* A service ends as a zombie while the watchdog that started it lives. *)
Parented(s) == \E d \in Dogs : dog[d] # "gone" /\ watchdog_child[d] = s
Ended(S) ==
  [s \in Svcs |-> IF s \notin S THEN svc[s] ELSE IF ~Parented(s) THEN "gone"
                  ELSE IF svc[s] = "aged" THEN "agedZombie" ELSE "zombie"]

(* The watchdogs in D end; a child they did not reap is gone with them. *)
DogsEnd(D) ==
  LET Reset(f, v) == [d \in Dogs |-> IF d \in D THEN v ELSE f[d]]
      orphans == {watchdog_child[d] : d \in D}
  IN  /\ dog' = Reset(dog, "gone") /\ watchdog_child' = Reset(watchdog_child, None)
      /\ term' = Reset(term, FALSE) /\ watchdog_stop' = Reset(watchdog_stop, FALSE)
      /\ rapid_failures' = Reset(rapid_failures, 0) /\ lasted' = Reset(lasted, FALSE)
      /\ shorts' = Reset(shorts, 0)
      /\ svc' = [s \in Svcs |-> IF s \in orphans /\ Zombie(s) THEN "gone" ELSE svc[s]]
      /\ asked' = asked \ orphans

Fault == faults < MaxFault /\ faults' = faults + 1

(* MUTANT of stop_qgapp: the recorder is left running. *)
LeaveRecorder == UNCHANGED qgapp

stop_qgapp == qgapp' = FALSE

-----------------------------------------------------------------------------
(* The service process and the recorder.                                   *)

serviceFrame == <<dogVars, asked, fileVars, admVars, faults>>

PortFree == \A t \in Svcs : ~Serving(t)

(* The recorder is adopted, started or, under quarantine, left alone. *)
Bind(s) ==
  /\ svc[s] = "boot" /\ PortFree /\ svc' = [svc EXCEPT ![s] = "serving"]
  /\ qgapp' \in {qgapp, TRUE} /\ UNCHANGED serviceFrame

PortTaken(s) ==
  svc[s] = "boot" /\ ~PortFree /\ svc' = Ended({s}) /\ UNCHANGED <<qgapp, serviceFrame>>

Age(s) ==
  svc[s] = "serving" /\ svc' = [svc EXCEPT ![s] = "aged"] /\ UNCHANGED <<qgapp, serviceFrame>>

Exit(s) == Running(s) /\ svc' = Ended({s}) /\ UNCHANGED <<qgapp, serviceFrame>>

(* The recorder exits, or the service kills it for a quarantine. *)
RecorderGone == qgapp /\ qgapp' = FALSE /\ UNCHANGED <<svc, serviceFrame>>

-----------------------------------------------------------------------------
(* watchdog_loop.                                                          *)

(* MUTANT of ToldToStop: the marker is not looked at. *)
TrapOnly(d) == watchdog_stop[d]

ToldToStop(d) == watchdog_stop[d] \/ marker

(* The TERM trap runs between two commands and interrupts wait. *)
Trap(d) ==
  /\ dog[d] # "gone" /\ term[d] /\ StepDog(d, IF dog[d] = "wait" THEN "check" ELSE dog[d])
  /\ term' = [term EXCEPT ![d] = FALSE] /\ watchdog_stop' = [watchdog_stop EXCEPT ![d] = TRUE]
  /\ UNCHANGED <<watchdog_child, rapid_failures, lasted, shorts, svcVars, qgapp, fileVars, admVars,
                 faults>>

Identify(d) ==
  /\ dog[d] = "ident" /\ dogFile' = d /\ StepDog(d, "loop")
  /\ UNCHANGED <<dogLocals, watchdog_child, svcVars, qgapp, kidFile, marker, admVars, faults>>

IdentifyFails(d) ==
  dog[d] = "ident" /\ Fault /\ stop_qgapp /\ DogsEnd({d}) /\ UNCHANGED <<fileVars, admVars>>

Loop(d) ==
  /\ dog[d] = "loop" /\ StepDog(d, IF ToldToStop(d) THEN "leave" ELSE "spawn")
  /\ UNCHANGED <<dogLocals, watchdog_child, svcVars, qgapp, fileVars, admVars, faults>>

(* The start time in an identity file keeps a reused pid from matching it. *)
Spawn(d, s) ==
  /\ dog[d] = "spawn" /\ svc[s] = "gone" /\ s # kidFile
  /\ svc' = [svc EXCEPT ![s] = "boot"]
  /\ watchdog_child' = [watchdog_child EXCEPT ![d] = s] /\ StepDog(d, "kidIdent")
  /\ UNCHANGED <<dogLocals, asked, qgapp, fileVars, admVars, faults>>

IdentifyKid(d) ==
  /\ dog[d] = "kidIdent" /\ Running(watchdog_child[d])
  /\ kidFile' = watchdog_child[d] /\ StepDog(d, "wait")
  /\ UNCHANGED <<dogLocals, watchdog_child, svcVars, qgapp, dogFile, marker, admVars, faults>>

(* A child that cannot be identified is told to end and waited for. *)
IdentifyKidFails(d) ==
  /\ dog[d] = "kidIdent" /\ StepDog(d, "wait")
  /\ IF Running(watchdog_child[d]) THEN Fault ELSE UNCHANGED faults
  /\ UNCHANGED <<dogLocals, watchdog_child, svcVars, qgapp, fileVars, admVars>>

Reap(d) ==
  LET s == watchdog_child[d]
      long == svc[s] = "agedZombie"
  IN  /\ dog[d] = "wait" /\ Zombie(s) /\ StepDog(d, "check")
      /\ svc' = [svc EXCEPT ![s] = "gone"]
      /\ lasted' = [lasted EXCEPT ![d] = long]
      /\ shorts' = [shorts EXCEPT ![d] = IF long THEN 0 ELSE IF @ < 3 THEN @ + 1 ELSE 3]
      /\ UNCHANGED <<term, watchdog_stop, rapid_failures, watchdog_child, asked, qgapp, fileVars, admVars,
                     faults>>

(* Told to stop: TERM to the child, three seconds, then KILL. *)
Check(d) ==
  /\ dog[d] = "check" /\ StepDog(d, "clear")
  /\ svc' = IF ToldToStop(d) THEN Ended({kid_identity}) ELSE svc
  /\ UNCHANGED <<dogLocals, watchdog_child, asked, qgapp, fileVars, admVars, faults>>

Clear(d) ==
  /\ dog[d] = "clear" /\ kidFile' = None /\ StepDog(d, IF ToldToStop(d) THEN "leave" ELSE "judge")
  /\ UNCHANGED <<dogLocals, watchdog_child, svcVars, qgapp, dogFile, marker, admVars, faults>>

Failures(d) == IF lasted[d] THEN 1 ELSE rapid_failures[d] + 1

TooMany(d) == Failures(d) >= 3

Judge(d) ==
  /\ dog[d] = "judge" /\ StepDog(d, IF TooMany(d) THEN "crashLoop" ELSE "loop")
  /\ rapid_failures' = [rapid_failures EXCEPT ![d] = Failures(d)]
  /\ watchdog_child' = [watchdog_child EXCEPT ![d] = None]
  /\ lasted' = [lasted EXCEPT ![d] = FALSE] /\ asked' = asked \ {watchdog_child[d]}
  /\ UNCHANGED <<term, watchdog_stop, shorts, svc, qgapp, fileVars, admVars, faults>>

CrashLoop(d) ==
  /\ dog[d] = "crashLoop" /\ stop_qgapp /\ dogFile' = None /\ DogsEnd({d})
  /\ UNCHANGED <<kidFile, marker, admVars, faults>>

Leave(d) ==
  /\ dog[d] = "leave" /\ dogFile' = None /\ kidFile' = None /\ DogsEnd({d})
  /\ UNCHANGED <<qgapp, marker, admVars, faults>>

(* The watchdog is killed by something else. *)
KillDog(d) ==
  /\ dog[d] # "gone" /\ kills < MaxDogKill /\ kills' = kills + 1 /\ DogsEnd({d})
  /\ UNCHANGED <<qgapp, fileVars, adm, keep_qgapp, cmds, faults>>

-----------------------------------------------------------------------------
(* stop_service and start_service.                                         *)

admFrame == <<keep_qgapp, cmds, kills, faults>>

Start(a) == adm[a] = "idle" /\ StepAdm(a, "startCheck") /\ UNCHANGED <<marker, keep_qgapp>>

StopOrRestart(a) ==
  /\ adm[a] = "idle" /\ marker' = TRUE /\ StepAdm(a, "termServices")
  /\ \E restart \in BOOLEAN : keep_qgapp' = [keep_qgapp EXCEPT ![a] = restart]

Command(a) ==
  /\ cmds < MaxCmd /\ cmds' = cmds + 1 /\ (Start(a) \/ StopOrRestart(a))
  /\ UNCHANGED <<dogVars, svcVars, qgapp, dogFile, kidFile, kills, faults>>

(* MUTANT of Signalled: only the child of the identity file is signalled. *)
ChildOnly == {kid_identity} \ {None}

(* The child of the identity file, and every process that runs the service. *)
Signalled == service_process
NoteAsked == asked' = asked \cup {s \in Signalled : Parented(s)}

TermServices(a) ==
  /\ adm[a] = "termServices" /\ StepAdm(a, "termDog") /\ NoteAsked
  /\ UNCHANGED <<dogVars, svc, qgapp, fileVars, admFrame>>

TermDog(a) ==
  /\ adm[a] = "termDog" /\ StepAdm(a, "waitDog")
  /\ term' = [d \in Dogs |-> term[d] \/ d = watchdog_identity]
  /\ UNCHANGED <<dog, watchdog_stop, watchdog_child, rapid_failures, lasted, shorts, svcVars, qgapp,
                 fileVars, admFrame>>

WaitDog(a) ==
  /\ adm[a] = "waitDog" /\ StepAdm(a, "killServices")
  /\ watchdog_identity = None \/ \A d \in Dogs : dog[d] \in {"gone", "wait"}
  /\ UNCHANGED <<dogVars, svcVars, qgapp, fileVars, admFrame>>

KillServices(a) ==
  /\ adm[a] = "killServices" /\ StepAdm(a, "killDog") /\ svc' = Ended(Signalled) /\ NoteAsked
  /\ UNCHANGED <<dogVars, qgapp, fileVars, admFrame>>

KillWatchdog(a) ==
  /\ adm[a] = "killDog" /\ StepAdm(a, "rm") /\ DogsEnd({watchdog_identity} \ {None})
  /\ UNCHANGED <<qgapp, fileVars, admFrame>>

RemoveFiles ==
  /\ dogFile' = None /\ kidFile' = None /\ marker' = FALSE
  /\ UNCHANGED <<dogVars, svcVars, qgapp, admFrame>>

StopRemove(a) ==
  adm[a] = "rm" /\ RemoveFiles /\ StepAdm(a, IF keep_qgapp[a] THEN "startCheck" ELSE "stopQgapp")

StopQgapp(a) ==
  /\ adm[a] = "stopQgapp" /\ stop_qgapp /\ StepAdm(a, "stopped")
  /\ UNCHANGED <<dogVars, svcVars, fileVars, admFrame>>

(* MUTANT of StartCheck: a watchdog is launched beside the one that runs. *)
StartAnyway(a) ==
  /\ adm[a] = "startCheck" /\ StepAdm(a, "startRm")
  /\ UNCHANGED <<dogVars, svcVars, qgapp, fileVars, admFrame>>

StartCheck(a) ==
  /\ adm[a] = "startCheck" /\ StepAdm(a, IF watchdog_identity # None THEN "done" ELSE "startRm")
  /\ UNCHANGED <<dogVars, svcVars, qgapp, fileVars, admFrame>>

StartRemove(a) == adm[a] = "startRm" /\ RemoveFiles /\ StepAdm(a, "launch")

Launch(a, d) ==
  /\ adm[a] = "launch" /\ dog[d] = "gone" /\ d # dogFile
  /\ StepDog(d, "ident") /\ StepAdm(a, "await")
  /\ UNCHANGED <<dogLocals, watchdog_child, svcVars, qgapp, fileVars, admFrame>>

(* The service is seen, or six seconds have passed. *)
Await(a) ==
  /\ adm[a] = "await" /\ (\A d \in Dogs : dog[d] # "ident") /\ StepAdm(a, "done")
  /\ UNCHANGED <<dogVars, svcVars, qgapp, fileVars, admFrame>>

Done(a) ==
  /\ adm[a] \in {"stopped", "done"} /\ StepAdm(a, "idle")
  /\ keep_qgapp' = [keep_qgapp EXCEPT ![a] = FALSE]
  /\ UNCHANGED <<dogVars, svcVars, qgapp, fileVars, cmds, kills, faults>>

-----------------------------------------------------------------------------
Init ==
  /\ dog = [d \in Dogs |-> "gone"] /\ watchdog_child = [d \in Dogs |-> None]
  /\ term = [d \in Dogs |-> FALSE] /\ watchdog_stop = [d \in Dogs |-> FALSE]
  /\ rapid_failures = [d \in Dogs |-> 0] /\ lasted = [d \in Dogs |-> FALSE]
  /\ shorts = [d \in Dogs |-> 0] /\ svc = [s \in Svcs |-> "gone"] /\ asked = {} /\ qgapp = FALSE
  /\ dogFile = None /\ kidFile = None /\ marker = FALSE
  /\ adm = [a \in Admins |-> "idle"] /\ keep_qgapp = [a \in Admins |-> FALSE]
  /\ cmds = 0 /\ faults = 0 /\ kills = 0

Service(s) == Bind(s) \/ PortTaken(s)

Watchdog(d) ==
  \/ Trap(d) \/ Identify(d) \/ IdentifyFails(d) \/ Loop(d) \/ IdentifyKid(d) \/ IdentifyKidFails(d)
  \/ Reap(d) \/ Check(d) \/ Clear(d) \/ Judge(d) \/ CrashLoop(d) \/ Leave(d)
  \/ \E s \in Svcs : Spawn(d, s)

Admin(a) ==
  \/ TermServices(a) \/ TermDog(a) \/ WaitDog(a) \/ KillServices(a) \/ KillWatchdog(a) \/ StopRemove(a)
  \/ StopQgapp(a) \/ StartCheck(a) \/ StartRemove(a) \/ Await(a) \/ Done(a)
  \/ \E d \in Dogs : Launch(a, d)

Next ==
  \/ \E s \in Svcs : Service(s) \/ Age(s) \/ Exit(s)
  \/ \E d \in Dogs : Watchdog(d) \/ KillDog(d)
  \/ \E a \in Admins : Admin(a) \/ Command(a)
  \/ RecorderGone

Spec == Init /\ [][Next]_vars

(* Shells run on, and a service that has started binds its port or ends.   *)
FairSpec ==
  /\ Spec
  /\ \A s \in Svcs : WF_vars(Service(s))
  /\ \A d \in Dogs : WF_vars(Watchdog(d))
  /\ \A a \in Admins : WF_vars(Admin(a))

-----------------------------------------------------------------------------
(* Type invariant of the processes, their files and the shells. *)
TypeOK ==
  /\ dog \in [Dogs -> {"gone", "ident", "loop", "spawn", "kidIdent", "wait", "check", "clear",
                       "judge", "crashLoop", "leave"}]
  /\ term \in [Dogs -> BOOLEAN] /\ watchdog_stop \in [Dogs -> BOOLEAN]
  /\ watchdog_child \in [Dogs -> Svcs \cup {None}] /\ rapid_failures \in [Dogs -> 0 .. 3]
  /\ lasted \in [Dogs -> BOOLEAN] /\ shorts \in [Dogs -> 0 .. 3]
  /\ svc \in [Svcs -> {"gone", "boot", "serving", "aged", "zombie", "agedZombie"}]
  /\ asked \subseteq Svcs /\ qgapp \in BOOLEAN
  /\ dogFile \in Dogs \cup {None} /\ kidFile \in Svcs \cup {None} /\ marker \in BOOLEAN
  /\ adm \in [Admins -> {"idle", "termServices", "termDog", "waitDog", "killServices", "killDog", "rm",
                         "stopQgapp", "stopped", "startCheck", "startRm", "launch", "await", "done"}]
  /\ keep_qgapp \in [Admins -> BOOLEAN]
  /\ cmds \in 0 .. MaxCmd /\ faults \in 0 .. MaxFault /\ kills \in 0 .. MaxDogKill

(* When `stop` reports success nothing is left: no watchdog, no service    *)
(* and no recorder, even when the watchdog had been killed before and its  *)
(* service was an orphan.                                                  *)
StopLeavesNothing ==
  \A a \in Admins : adm[a] = "stopped" =>
    ~qgapp /\ service_process = {} /\ \A d \in Dogs : dog[d] = "gone"

(* A service that ends because an administrator told it to is not counted  *)
(* as a failure: a restart never brings the watchdog nearer to the crash   *)
(* loop that kills the recorder.                                           *)
AskedExitIsNoFailure ==
  [][\A d \in Dogs : rapid_failures'[d] > rapid_failures[d] => watchdog_child[d] \notin asked]_vars

(* The script never sets two services against each other.  Only whoever   *)
(* kills a watchdog leaves a service behind that a later start runs into,  *)
(* one for each watchdog killed, and a restart starts from none.           *)
NoRivals ==
  /\ Cardinality(service_process) <= 1 + kills
  /\ \A a \in Admins : adm[a] = "startCheck" /\ keep_qgapp[a] => service_process = {}

(* A recorder is not left to fill the tmpfs: it gets a consumer or it is   *)
(* stopped, however the services crash and whatever is asked for, unless   *)
(* somebody kills the watchdog itself.                                     *)
RecorderHasConsumer == qgapp ~> (~qgapp \/ kills > 0 \/ \E s \in Svcs : Serving(s))

(* A crash loop is three failures in a row shorter than 15 seconds.        *)
CrashLoopIsRapid == \A d \in Dogs : dog[d] = "crashLoop" => shorts[d] >= 3
=============================================================================
