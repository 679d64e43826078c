------------------------- MODULE TinaWatchdogProofs -------------------------
(***************************************************************************)
(* Proofs about TinaWatchdog, for any number of watchdog and service       *)
(* processes and any number of commands, faults and kills: Types with any  *)
(* number of administrators; Solo (what a stop meets), Kids (the children  *)
(* and who was told to end) and Rivals (services without a watchdog) with  *)
(* exactly one, since two that start and stop at a time remove each other's*)
(* files.                                                                  *)
(***************************************************************************)
EXTENDS TinaWatchdog, FiniteSetTheorems, TLAPS

(* The type invariant in parts.  A watchdog that goes on has counted at    *)
(* most two failures.                                                      *)
DogType ==
  /\ dog \in [Dogs -> {"gone", "ident", "loop", "spawn", "kidIdent", "wait", "check", "clear",
                       "judge", "crashLoop", "leave"}]
  /\ term \in [Dogs -> BOOLEAN] /\ watchdog_stop \in [Dogs -> BOOLEAN]
  /\ watchdog_child \in [Dogs -> Svcs \cup {None}] /\ rapid_failures \in [Dogs -> 0 .. 3]
  /\ lasted \in [Dogs -> BOOLEAN] /\ shorts \in [Dogs -> 0 .. 3]
  /\ \A d \in Dogs : dog[d] # "crashLoop" => rapid_failures[d] <= 2
SvcType ==
  /\ svc \in [Svcs -> {"gone", "boot", "serving", "aged", "zombie", "agedZombie"}]
  /\ asked \subseteq Svcs /\ qgapp \in BOOLEAN
FileType == dogFile \in Dogs \cup {None} /\ kidFile \in Svcs \cup {None} /\ marker \in BOOLEAN
AdmType ==
  /\ adm \in [Admins -> {"idle", "termServices", "termDog", "waitDog", "killServices", "killDog", "rm",
                         "stopQgapp", "stopped", "startCheck", "startRm", "launch", "await", "done"}]
  /\ keep_qgapp \in [Admins -> BOOLEAN]
  /\ cmds \in 0 .. MaxCmd /\ faults \in 0 .. MaxFault /\ kills \in 0 .. MaxDogKill
Types == DogType /\ SvcType /\ FileType /\ AdmType

USE ProcessAssumption, BudgetAssumption

LEMMA Parts == Types => TypeOK
BY DEF Types, DogType, SvcType, FileType, AdmType, TypeOK

---------------------------------------------------------------------------
(* What each group of actions leaves alone. *)
ServiceStep == (\E s \in Svcs : Service(s) \/ Age(s) \/ Exit(s)) \/ RecorderGone
Bare(d) == Trap(d) \/ Identify(d) \/ Loop(d) \/ IdentifyKid(d) \/ IdentifyKidFails(d) \/ Clear(d)
Ends(d) == IdentifyFails(d) \/ CrashLoop(d) \/ Leave(d) \/ KillDog(d)
Works(d) == Bare(d) \/ Reap(d) \/ Check(d) \/ Judge(d) \/ \E s \in Svcs : Spawn(d, s)
Waiting(a) == WaitDog(a) \/ StartCheck(a) \/ Await(a) \/ Done(a)
Removing(a) == StopRemove(a) \/ StartRemove(a)

LEMMA Steps ==
  ASSUME Next
  PROVE \/ ServiceStep
        \/ \E d \in Dogs : Works(d) \/ Ends(d)
        \/ \E a \in Admins : \/ Command(a) \/ TermServices(a) \/ TermDog(a) \/ KillServices(a)
                             \/ KillWatchdog(a) \/ StopQgapp(a) \/ Waiting(a) \/ Removing(a)
                             \/ \E d \in Dogs : Launch(a, d)
<1>1. ASSUME NEW d \in Dogs, Watchdog(d) \/ KillDog(d) PROVE Works(d) \/ Ends(d)
  BY <1>1 DEF Watchdog, Works, Bare, Ends
<1>2. ASSUME NEW a \in Admins, Admin(a)
      PROVE \/ TermServices(a) \/ TermDog(a) \/ KillServices(a) \/ KillWatchdog(a)
            \/ StopQgapp(a) \/ Waiting(a) \/ Removing(a) \/ \E d \in Dogs : Launch(a, d)
  BY <1>2 DEF Admin, Waiting, Removing
<1> QED BY <1>1, <1>2, Zenon DEF Next, ServiceStep

LEMMA ServiceLeaves ==
  ASSUME ServiceStep
  PROVE UNCHANGED <<dog, watchdog_child, term, watchdog_stop, rapid_failures, lasted, shorts,
                    asked, dogFile, kidFile, marker, adm, keep_qgapp, cmds, kills, faults>>
BY DEF ServiceStep, Service, Bind, PortTaken, Age, Exit, RecorderGone, serviceFrame, dogVars,
  dogLocals, fileVars, admVars

LEMMA EndedType ==
  ASSUME SvcType, NEW S
  PROVE /\ Ended(S) \in [Svcs -> {"gone", "boot", "serving", "aged", "zombie", "agedZombie"}]
        /\ \A s \in Svcs : s \notin S => Ended(S)[s] = svc[s]
        /\ \A s \in S \cap Svcs : Ended(S)[s] \in {"gone", "zombie", "agedZombie"}
BY DEF SvcType, Ended

(* Whoever ends takes its child with it, unless that still runs. *)
LEMMA DogsEndType ==
  ASSUME Types, NEW D, DogsEnd(D)
  PROVE /\ DogType'
        /\ svc' \in [Svcs -> {"gone", "boot", "serving", "aged", "zombie", "agedZombie"}]
        /\ asked' \subseteq Svcs
<1> USE DEF Types, DogType, SvcType
<1>1. /\ dog' \in [Dogs -> {"gone", "ident", "loop", "spawn", "kidIdent", "wait", "check", "clear",
                            "judge", "crashLoop", "leave"}]
      /\ watchdog_child' \in [Dogs -> Svcs \cup {None}]
  BY DEF DogsEnd
<1>2. term' \in [Dogs -> BOOLEAN] /\ watchdog_stop' \in [Dogs -> BOOLEAN] /\ lasted' \in [Dogs -> BOOLEAN]
  BY DEF DogsEnd
<1>3. rapid_failures' \in [Dogs -> 0 .. 3] /\ shorts' \in [Dogs -> 0 .. 3]
  BY DEF DogsEnd
<1>4. \A d \in Dogs : dog'[d] # "crashLoop" => rapid_failures'[d] <= 2
  BY DEF DogsEnd
<1>5. /\ svc' \in [Svcs -> {"gone", "boot", "serving", "aged", "zombie", "agedZombie"}]
      /\ asked' \subseteq Svcs
  BY DEF DogsEnd
<1> QED BY <1>1, <1>2, <1>3, <1>4, <1>5

LEMMA TypeStep == ASSUME Types, Next PROVE Types'
<1> USE DEF Types
<1>1. CASE ServiceStep
  <2>1. ASSUME NEW s \in Svcs, Bind(s) \/ Age(s) PROVE SvcType'
    BY <2>1 DEF Bind, Age, SvcType, serviceFrame
  <2>2. ASSUME NEW s \in Svcs, PortTaken(s) \/ Exit(s) PROVE SvcType'
    BY <2>2, EndedType DEF PortTaken, Exit, SvcType, serviceFrame
  <2>3. ASSUME RecorderGone PROVE SvcType'
    BY <2>3 DEF RecorderGone, SvcType, serviceFrame
  <2>4. SvcType' BY <1>1, <2>1, <2>2, <2>3 DEF ServiceStep, Service
  <2>5. DogType' BY <1>1, ServiceLeaves DEF DogType
  <2>6. FileType' /\ AdmType' BY <1>1, ServiceLeaves DEF FileType, AdmType
  <2> QED BY <2>4, <2>5, <2>6
<1>2. ASSUME NEW d \in Dogs, Works(d) PROVE Types'
  <2>1. CASE Bare(d)
    <3>1. DogType'
      <4>1. CASE Trap(d)
        <5>1. term' \in [Dogs -> BOOLEAN] /\ watchdog_stop' \in [Dogs -> BOOLEAN]
          BY <4>1, Zenon DEF Trap, DogType
        <5> QED BY <4>1, <5>1 DEF Trap, StepDog, DogType
      <4>2. CASE Identify(d) \/ Loop(d)
        BY <4>2 DEF Identify, Loop, StepDog, DogType, dogLocals
      <4>3. CASE IdentifyKid(d) \/ IdentifyKidFails(d)
        BY <4>3 DEF IdentifyKid, IdentifyKidFails, StepDog, DogType, dogLocals
      <4>4. CASE Clear(d)
        BY <4>4 DEF Clear, StepDog, DogType, dogLocals
      <4> QED BY <2>1, <4>1, <4>2, <4>3, <4>4 DEF Bare
    <3>2. SvcType'
      BY <2>1 DEF Bare, Trap, Identify, Loop, IdentifyKid, IdentifyKidFails, Clear, SvcType,
        svcVars
    <3>3. FileType'
      BY <2>1 DEF Bare, Trap, Identify, Loop, IdentifyKid, IdentifyKidFails, Clear, FileType,
        DogType, fileVars
    <3>4. AdmType'
      BY <2>1 DEF Bare, Trap, Identify, Loop, IdentifyKid, IdentifyKidFails, Clear, AdmType,
        admVars, Fault
    <3> QED BY <3>1, <3>2, <3>3, <3>4
  <2>2. CASE Reap(d)
    <3>1. lasted' \in [Dogs -> BOOLEAN] BY <2>2, Zenon DEF Reap, DogType
    <3>2. DogType' BY <2>2, <3>1 DEF Reap, StepDog, DogType
    <3>3. SvcType' /\ FileType' /\ AdmType'
      BY <2>2 DEF Reap, SvcType, FileType, AdmType, fileVars, admVars
    <3> QED BY <3>2, <3>3
  <2>3. CASE Check(d)
    BY <2>3, EndedType DEF Check, StepDog, DogType, SvcType, FileType, AdmType, dogLocals,
      fileVars, admVars
  <2>4. CASE Judge(d)
    <3>1. Failures(d) \in 1 .. 3 /\ (~TooMany(d) => Failures(d) <= 2)
      BY <2>4 DEF Judge, Failures, TooMany, DogType
    <3>2. DogType' BY <2>4, <3>1 DEF Judge, StepDog, DogType
    <3>3. SvcType' /\ FileType' /\ AdmType'
      BY <2>4 DEF Judge, SvcType, FileType, AdmType, fileVars, admVars
    <3> QED BY <3>2, <3>3
  <2>5. ASSUME NEW s \in Svcs, Spawn(d, s) PROVE Types'
    BY <2>5 DEF Spawn, StepDog, DogType, SvcType, FileType, AdmType, dogLocals, fileVars, admVars
  <2> QED BY <1>2, <2>1, <2>2, <2>3, <2>4, <2>5 DEF Works
<1>3. ASSUME NEW d \in Dogs, Ends(d) PROVE Types'
  <2>1. DogsEnd({d}) BY <1>3 DEF Ends, IdentifyFails, CrashLoop, Leave, KillDog
  <2>2. DogType' /\ SvcType'
    BY <1>3, <2>1, DogsEndType
       DEF Ends, IdentifyFails, CrashLoop, Leave, KillDog, stop_qgapp, SvcType
  <2>3. FileType'
    BY <1>3 DEF Ends, IdentifyFails, CrashLoop, Leave, KillDog, FileType, fileVars
  <2>4. AdmType'
    BY <1>3 DEF Ends, IdentifyFails, CrashLoop, Leave, KillDog, AdmType, admVars, Fault
  <2> QED BY <2>2, <2>3, <2>4
<1>4. ASSUME NEW a \in Admins, Command(a) PROVE Types'
  <2>1. AdmType' /\ FileType'
    <3>1. CASE Start(a) BY <1>4, <3>1 DEF Command, Start, StepAdm, AdmType, FileType
    <3>2. CASE StopOrRestart(a)
      <4>1. keep_qgapp' \in [Admins -> BOOLEAN] BY <3>2 DEF StopOrRestart, AdmType
      <4> QED BY <1>4, <3>2, <4>1 DEF Command, StopOrRestart, StepAdm, AdmType, FileType
    <3> QED BY <1>4, <3>1, <3>2 DEF Command
  <2> QED BY <1>4, <2>1 DEF Command, dogVars, dogLocals, svcVars, DogType, SvcType
<1>5. ASSUME NEW a \in Admins, TermServices(a) \/ TermDog(a) \/ KillServices(a) PROVE Types'
  <2>1. DogType'
    BY <1>5 DEF TermServices, TermDog, KillServices, dogVars, dogLocals, DogType
  <2>2. SvcType'
    BY <1>5, EndedType DEF TermServices, TermDog, KillServices, NoteAsked, Signalled,
      service_process, svcVars, SvcType
  <2>3. FileType' /\ AdmType'
    BY <1>5 DEF TermServices, TermDog, KillServices, StepAdm, fileVars, admFrame, FileType, AdmType
  <2> QED BY <2>1, <2>2, <2>3
<1>6. ASSUME NEW a \in Admins, KillWatchdog(a) PROVE Types'
  BY <1>6, DogsEndType DEF KillWatchdog, StepAdm, fileVars, admFrame, SvcType, FileType, AdmType
<1>7. ASSUME NEW a \in Admins, StopQgapp(a) \/ Waiting(a) \/ Removing(a) PROVE Types'
  <2>1. DogType' /\ SvcType'
    BY <1>7 DEF StopQgapp, Waiting, WaitDog, StartCheck, Await, Done, Removing, StopRemove,
      StartRemove, RemoveFiles, stop_qgapp, dogVars, dogLocals, svcVars, DogType, SvcType
  <2>2. FileType' /\ AdmType'
    BY <1>7 DEF StopQgapp, Waiting, WaitDog, StartCheck, Await, Done, Removing, StopRemove,
      StartRemove, RemoveFiles, StepAdm, fileVars, admFrame, FileType, AdmType
  <2> QED BY <2>1, <2>2
<1>8. ASSUME NEW a \in Admins, NEW d \in Dogs, Launch(a, d) PROVE Types'
  BY <1>8 DEF Launch, StepDog, StepAdm, dogLocals, svcVars, fileVars, admFrame, DogType, SvcType,
    FileType, AdmType
<1> QED BY <1>1, <1>2, <1>3, <1>4, <1>5, <1>6, <1>7, <1>8, Steps

LEMMA TypesHold == Spec => []Types
<1>1. ASSUME Init PROVE Types
  <2>1. /\ term \in [Dogs -> BOOLEAN] /\ watchdog_stop \in [Dogs -> BOOLEAN]
        /\ lasted \in [Dogs -> BOOLEAN] /\ keep_qgapp \in [Admins -> BOOLEAN]
    BY <1>1, Zenon DEF Init
  <2>2. /\ dog \in [Dogs -> {"gone"}] /\ watchdog_child \in [Dogs -> {None}]
        /\ rapid_failures \in [Dogs -> {0}] /\ shorts \in [Dogs -> {0}]
        /\ svc \in [Svcs -> {"gone"}] /\ adm \in [Admins -> {"idle"}]
    BY <1>1, Zenon DEF Init
  <2>3. /\ asked = {} /\ qgapp = FALSE /\ dogFile = None /\ kidFile = None /\ marker = FALSE
        /\ cmds = 0 /\ faults = 0 /\ kills = 0
    BY <1>1 DEF Init
  <2>4. DogType BY <2>1, <2>2 DEF DogType
  <2>5. SvcType /\ FileType BY <2>2, <2>3 DEF SvcType, FileType
  <2>6. AdmType BY <2>1, <2>2, <2>3 DEF AdmType
  <2> QED BY <2>4, <2>5, <2>6 DEF Types
<1>2. ASSUME Types, [Next]_vars PROVE Types'
  <2>1. CASE UNCHANGED vars
    BY <1>2, <2>1 DEF Types, DogType, SvcType, FileType, AdmType, vars, dogVars, dogLocals,
      svcVars, fileVars, admVars
  <2> QED BY <1>2, <2>1, TypeStep
<1> QED BY <1>1, <1>2, PTL DEF Spec

(* Every process, file and shell keeps its type; a watchdog never counts   *)
(* past three failures.                                                    *)
THEOREM TypeCorrect == Spec => []TypeOK
BY TypesHold, Parts, PTL

---------------------------------------------------------------------------
(* A service runs because it was spawned and serves because it got the     *)
(* port.                                                                   *)
LEMMA SvcMoves ==
  ASSUME Types, Next, NEW s \in Svcs
  PROVE /\ Serving(s)' => Serving(s) \/ Bind(s)
        /\ Running(s)' => Running(s) \/ \E d \in Dogs : Spawn(d, s)
<1> USE DEF Types, Serving, Running
<1>1. CASE svc'[s] = svc[s] BY <1>1
<1>2. CASE svc'[s] \in {"gone", "zombie", "agedZombie"} BY <1>2
<1>3. CASE ServiceStep
  <2>1. ASSUME NEW t \in Svcs, Bind(t) \/ Age(t) PROVE svc'[s] = svc[s] \/ t = s
    BY <2>1 DEF Bind, Age, SvcType
  <2>2. ASSUME NEW t \in Svcs, PortTaken(t) \/ Exit(t)
        PROVE svc'[s] = svc[s] \/ svc'[s] \in {"gone", "zombie", "agedZombie"}
    BY <2>2, EndedType DEF PortTaken, Exit
  <2>3. CASE RecorderGone BY <1>1, <2>3 DEF RecorderGone
  <2>4. CASE Age(s) BY <2>4 DEF Age
  <2>5. CASE Bind(s) BY <2>5 DEF Bind
  <2> QED BY <1>1, <1>2, <1>3, <2>1, <2>2, <2>3, <2>4, <2>5 DEF ServiceStep, Service
<1>4. ASSUME NEW d \in Dogs, Works(d) \/ Ends(d),
             ~(svc'[s] = svc[s]), svc'[s] \notin {"gone", "zombie", "agedZombie"}
      PROVE svc'[s] = "boot" /\ Spawn(d, s)
  <2>1. ~Bare(d)
    BY <1>4 DEF Bare, Trap, Identify, Loop, IdentifyKid, IdentifyKidFails, Clear, svcVars
  <2>2. ~Ends(d)
    BY <1>4 DEF Ends, IdentifyFails, CrashLoop, Leave, KillDog, DogsEnd, SvcType
  <2>3. ~Reap(d) /\ ~Judge(d) BY <1>4 DEF Reap, Judge, SvcType
  <2>4. ~Check(d) BY <1>4, EndedType DEF Check
  <2>5. PICK t \in Svcs : Spawn(d, t) BY <1>4, <2>1, <2>2, <2>3, <2>4 DEF Works
  <2> QED BY <1>4, <2>5 DEF Spawn, SvcType
<1>5. ASSUME NEW a \in Admins,
             \/ Command(a) \/ TermServices(a) \/ TermDog(a) \/ KillServices(a)
             \/ KillWatchdog(a) \/ StopQgapp(a) \/ Waiting(a) \/ Removing(a)
             \/ \E d \in Dogs : Launch(a, d)
      PROVE svc'[s] = svc[s] \/ svc'[s] \in {"gone", "zombie", "agedZombie"}
  <2>1. CASE KillServices(a) BY <2>1, EndedType DEF KillServices
  <2>2. CASE KillWatchdog(a) BY <2>2 DEF KillWatchdog, DogsEnd, SvcType
  <2> QED BY <1>5, <2>1, <2>2 DEF Command, TermServices, TermDog, StopQgapp, Waiting, WaitDog,
        StartCheck, Await, Done, Removing, StopRemove, StartRemove, RemoveFiles, Launch, svcVars
<1> QED BY <1>1, <1>2, <1>3, <1>4, <1>5, Steps

---------------------------------------------------------------------------
(* One administrator: at most one watchdog is there, and only between its  *)
(* launch and its first step is it missing from the identity file.  While  *)
(* a stop waits, the watchdog has no way back to a spawn; then nothing     *)
(* runs any more.                                                          *)
Alive(d) == dog[d] # "gone"
NoDog == \A d \in Dogs : ~Alive(d)
NoService == \A s \in Svcs : ~Running(s)
Single == \A d, e \in Dogs : Alive(d) /\ Alive(e) => d = e
Named(a) == \A d \in Dogs : Alive(d) =>
  IF dog[d] = "ident" THEN adm[a] = "await" ELSE dogFile = d
Marked(a) ==
  adm[a] \in {"termServices", "termDog", "waitDog", "killServices", "killDog", "rm"} => marker
Turned(a) == adm[a] \in {"killServices", "killDog"} =>
  \A d \in Dogs : dog[d] \in {"gone", "wait", "check", "clear", "leave"}
Taken(a) ==
  /\ adm[a] \in {"rm", "stopQgapp", "stopped", "startRm", "launch"} => NoDog
  /\ adm[a] \in {"killDog", "rm", "stopQgapp", "stopped"} => NoService
  /\ adm[a] = "stopped" => ~qgapp
Solo(a) == Single /\ Named(a) /\ Marked(a) /\ Turned(a) /\ Taken(a)

(* What a watchdog that was started does to the others and to the shell.   *)
LEMMA DogLeaves ==
  ASSUME NEW d \in Dogs, Works(d) \/ Ends(d), Types
  PROVE /\ UNCHANGED <<adm, marker>> /\ Alive(d)
        /\ \A e \in Dogs : e # d => dog'[e] = dog[e]
<1> USE DEF Types, DogType, Alive
<1>1. CASE Bare(d)
  BY <1>1 DEF Bare, Trap, Identify, Loop, IdentifyKid, IdentifyKidFails, Clear, StepDog,
    admVars, fileVars
<1>2. CASE Reap(d) \/ Check(d) \/ Judge(d) \/ \E s \in Svcs : Spawn(d, s)
  BY <1>2 DEF Reap, Check, Judge, Spawn, StepDog, admVars, fileVars
<1>3. CASE Ends(d)
  BY <1>3 DEF Ends, IdentifyFails, CrashLoop, Leave, KillDog, DogsEnd, admVars, fileVars
<1> QED BY <1>1, <1>2, <1>3 DEF Works

(* The step of the one watchdog. *)
LEMMA DogStep ==
  ASSUME Types, NEW a \in Admins, Solo(a), NEW d \in Dogs, Works(d) \/ Ends(d), Next
  PROVE Solo(a)'
<1> USE DEF Types
<1>0. /\ UNCHANGED <<adm, marker>> /\ Alive(d)
      /\ \A e \in Dogs : e # d => ~Alive(e) /\ ~Alive(e)'
  BY DogLeaves DEF Solo, Single, Alive
<1>1. Single' BY <1>0 DEF Single
<1>2. Named(a)'
  <2>1. CASE Ends(d)
    BY <1>0, <2>1 DEF Named, Alive, Ends, IdentifyFails, CrashLoop, Leave, KillDog, DogsEnd, DogType
  <2>2. CASE Identify(d)
    <3>1. dogFile' = d /\ dog'[d] = "loop" BY <2>2 DEF Identify, StepDog, DogType
    <3> QED BY <1>0, <3>1 DEF Named
  <2>3. CASE Works(d) /\ ~Identify(d)
    <3>1. dogFile' = dogFile /\ (dog[d] = "ident" <=> dog'[d] = "ident")
      BY <1>0, <2>3 DEF Works, Bare, Trap, Loop, IdentifyKid, IdentifyKidFails, Clear, Reap,
        Check, Judge, Spawn, StepDog, fileVars, DogType
    <3> QED BY <1>0, <3>1 DEF Solo, Named
  <2> QED BY <2>1, <2>2, <2>3
<1>3. Marked(a)' BY <1>0 DEF Solo, Marked
<1>4. Turned(a)'
  <2>1. ASSUME adm[a] \in {"killServices", "killDog"}
        PROVE dog'[d] \in {"gone", "wait", "check", "clear", "leave"}
    <3>1. marker /\ dog[d] \in {"wait", "check", "clear", "leave"}
      BY <1>0, <2>1 DEF Solo, Marked, Turned, Alive
    <3>2. CASE Ends(d)
      BY <3>2 DEF Ends, IdentifyFails, CrashLoop, Leave, KillDog, DogsEnd, DogType
    <3>3. CASE Works(d)
      BY <3>1, <3>3 DEF Works, Bare, Trap, Identify, Loop, IdentifyKid, IdentifyKidFails, Clear,
        Reap, Check, Judge, Spawn, StepDog, ToldToStop, DogType
    <3> QED BY <3>2, <3>3
  <2> QED BY <1>0, <2>1 DEF Turned, Alive
<1>5. Taken(a)'
  <2>1. ~(adm[a] \in {"rm", "stopQgapp", "stopped", "startRm", "launch"})
    BY <1>0 DEF Solo, Taken, NoDog
  <2>2. ASSUME adm[a] = "killDog" PROVE NoService'
    <3>1. \A s \in Svcs : ~Spawn(d, s) BY <2>2 DEF Solo, Turned, Spawn
    <3>2. \A e \in Dogs, s \in Svcs : e # d => ~Spawn(e, s) BY <1>0 DEF Spawn, Alive
    <3> QED BY <2>2, <3>1, <3>2, SvcMoves DEF Solo, Taken, NoService
  <2> QED BY <1>0, <2>1, <2>2 DEF Taken
<1> QED BY <1>1, <1>2, <1>3, <1>4, <1>5 DEF Solo

(* A service of its own accord. *)
LEMMA ServiceSolo ==
  ASSUME Types, NEW a \in Admins, Solo(a), ServiceStep, Next
  PROVE Solo(a)'
<1>1. UNCHANGED <<dog, dogFile, marker, adm>> BY ServiceLeaves
<1>2. \A d \in Dogs, s \in Svcs : ~Spawn(d, s)
  BY <1>1 DEF Spawn, StepDog, Types, DogType
<1>3. NoService => NoService' BY <1>2, SvcMoves DEF NoService
<1>4. ASSUME NoService, ~qgapp PROVE ~qgapp'
  BY <1>4 DEF ServiceStep, Service, Bind, PortTaken, Age, Exit, RecorderGone, NoService, Running
<1> QED BY <1>1, <1>3, <1>4 DEF Solo, Single, Named, Marked, Turned, Taken, NoDog, Alive

(* The one administrator. *)
LEMMA AdminSolo ==
  ASSUME Types, NEW a, Admins = {a}, Solo(a), Next,
         \/ Command(a) \/ TermServices(a) \/ TermDog(a) \/ KillServices(a)
         \/ KillWatchdog(a) \/ StopQgapp(a) \/ Waiting(a) \/ Removing(a)
         \/ \E d \in Dogs : Launch(a, d)
  PROVE Solo(a)'
<1> USE DEF Types
<1>0. a \in Admins OBVIOUS
<1>1. CASE Command(a)
  <2>1. /\ UNCHANGED <<dog, dogFile>> /\ adm[a] = "idle"
        /\ \/ adm'[a] = "startCheck" /\ marker' = marker
           \/ adm'[a] = "termServices" /\ marker'
    BY <1>0, <1>1 DEF Command, Start, StopOrRestart, StepAdm, AdmType, dogVars
  <2> QED BY <2>1 DEF Solo, Single, Named, Marked, Turned, Taken, Alive
<1>2. CASE TermServices(a) \/ TermDog(a)
  <2>1. /\ UNCHANGED <<dog, dogFile, marker>>
        /\ adm[a] \in {"termServices", "termDog"} /\ adm'[a] \in {"termDog", "waitDog"}
    BY <1>0, <1>2 DEF TermServices, TermDog, StepAdm, AdmType, dogVars, fileVars
  <2> QED BY <2>1 DEF Solo, Single, Named, Marked, Turned, Taken, Alive
<1>3. CASE WaitDog(a)
  <2>1. /\ UNCHANGED <<dog, dogFile, marker>>
        /\ adm[a] = "waitDog" /\ adm'[a] = "killServices"
        /\ watchdog_identity = None \/ \A d \in Dogs : dog[d] \in {"gone", "wait"}
    BY <1>0, <1>3 DEF WaitDog, StepAdm, AdmType, dogVars, fileVars
  <2>2. ASSUME watchdog_identity = None PROVE NoDog
    BY <2>1, <2>2 DEF watchdog_identity, Solo, Named, NoDog, Alive
  <2>3. Turned(a)' BY <2>1, <2>2 DEF Turned, NoDog, Alive
  <2> QED BY <2>1, <2>3 DEF Solo, Single, Named, Marked, Taken, Alive
<1>4. CASE KillServices(a)
  <2>1. /\ UNCHANGED <<dog, dogFile, marker>>
        /\ adm[a] = "killServices" /\ adm'[a] = "killDog"
    BY <1>0, <1>4 DEF KillServices, StepAdm, AdmType, dogVars, fileVars
  <2>2. NoService'
    BY <1>4, EndedType DEF KillServices, Signalled, service_process, NoService, Running, Serving
  <2> QED BY <2>1, <2>2 DEF Solo, Single, Named, Marked, Turned, Taken, Alive
<1>5. CASE KillWatchdog(a)
  <2>1. /\ adm[a] = "killDog" /\ adm'[a] = "rm" /\ marker' = marker
        /\ DogsEnd({watchdog_identity} \ {None})
    BY <1>0, <1>5 DEF KillWatchdog, StepAdm, AdmType, fileVars
  <2>2. \A d \in Dogs : Alive(d) => d = watchdog_identity
    BY <2>1 DEF Solo, Named, watchdog_identity, Alive
  <2>3. NoDog' BY <2>1, <2>2 DEF NoDog, Alive, DogsEnd, DogType
  <2>4. NoService'
    <3>1. \A d \in Dogs, s \in Svcs : ~Spawn(d, s)
      BY <2>1, <2>3 DEF Spawn, StepDog, NoDog, Alive, DogType
    <3> QED BY <2>1, <3>1, SvcMoves DEF Solo, Taken, NoService
  <2> QED BY <2>1, <2>3, <2>4 DEF Solo, Single, Named, Marked, Turned, Taken, NoDog
<1>6. CASE Removing(a)
  <2>1. /\ UNCHANGED <<dog, svc>>
        /\ \/ adm[a] = "rm" /\ adm'[a] \in {"startCheck", "stopQgapp"}
           \/ adm[a] = "startRm" /\ adm'[a] = "launch"
    BY <1>0, <1>6 DEF Removing, StopRemove, StartRemove, RemoveFiles, StepAdm, AdmType,
      dogVars, svcVars
  <2>2. NoDog /\ NoDog' BY <2>1 DEF Solo, Taken, NoDog, Alive
  <2>3. adm[a] = "rm" => NoService' BY <2>1 DEF Solo, Taken, NoService, Running, Serving
  <2> QED BY <2>1, <2>2, <2>3 DEF Solo, Single, Named, Marked, Turned, Taken, NoDog
<1>7. CASE StopQgapp(a)
  <2>1. /\ UNCHANGED <<dog, svc, dogFile, marker>> /\ ~qgapp'
        /\ adm[a] = "stopQgapp" /\ adm'[a] = "stopped"
    BY <1>0, <1>7 DEF StopQgapp, stop_qgapp, StepAdm, AdmType, dogVars, svcVars, fileVars
  <2> QED BY <2>1
        DEF Solo, Single, Named, Marked, Turned, Taken, Alive, NoDog, NoService, Running, Serving
<1>8. CASE StartCheck(a)
  <2>1. /\ UNCHANGED <<dog, dogFile, marker>> /\ adm[a] = "startCheck"
        /\ adm'[a] = IF watchdog_identity # None THEN "done" ELSE "startRm"
    BY <1>0, <1>8 DEF StartCheck, StepAdm, AdmType, dogVars, fileVars
  <2>2. ASSUME watchdog_identity = None PROVE NoDog'
    BY <2>1, <2>2 DEF watchdog_identity, Solo, Named, NoDog, Alive
  <2> QED BY <2>1, <2>2 DEF Solo, Single, Named, Marked, Turned, Taken, Alive
<1>9. CASE Await(a) \/ Done(a)
  <2>1. /\ UNCHANGED <<dog, dogFile, marker>>
        /\ \/ adm[a] = "await" /\ adm'[a] = "done" /\ \A d \in Dogs : dog[d] # "ident"
           \/ adm[a] \in {"stopped", "done"} /\ adm'[a] = "idle"
    BY <1>0, <1>9 DEF Await, Done, StepAdm, AdmType, dogVars, fileVars
  <2> QED BY <2>1 DEF Solo, Single, Named, Marked, Turned, Taken, Alive
<1>10. ASSUME NEW d \in Dogs, Launch(a, d) PROVE Solo(a)'
  <2>1. /\ UNCHANGED <<dogFile, marker>>
        /\ adm[a] = "launch" /\ adm'[a] = "await"
        /\ dog' = [dog EXCEPT ![d] = "ident"]
    BY <1>0, <1>10 DEF Launch, StepDog, StepAdm, AdmType, fileVars
  <2>2. \A e \in Dogs : Alive(e)' => e = d /\ dog'[e] = "ident"
    BY <2>1 DEF Solo, Taken, NoDog, Alive, DogType
  <2> QED BY <2>1, <2>2 DEF Solo, Single, Named, Marked, Turned, Taken
<1> QED BY <1>1, <1>2, <1>3, <1>4, <1>5, <1>6, <1>7, <1>8, <1>9, <1>10 DEF Waiting

LEMMA SoloHolds ==
  ASSUME NEW a, Admins = {a}
  PROVE Spec => []Solo(a)
<1>1. ASSUME Init PROVE Solo(a)
  BY <1>1 DEF Init, Solo, Single, Named, Marked, Turned, Taken, Alive
<1>2. ASSUME Types, Solo(a), [Next]_vars PROVE Solo(a)'
  <2>1. CASE UNCHANGED vars
    BY <1>2, <2>1 DEF Solo, Single, Named, Marked, Turned, Taken, Alive, NoDog, NoService,
      Running, Serving, vars, dogVars, svcVars, fileVars, admVars
  <2>2. CASE Next
    <3>1. a \in Admins OBVIOUS
    <3> QED BY <1>2, <2>2, <3>1, Steps, DogStep, ServiceSolo, AdminSolo
  <2> QED BY <1>2, <2>1, <2>2
<1> QED BY <1>1, <1>2, TypesHold, PTL DEF Spec

(* When the only administrator's stop reports success no watchdog, no      *)
(* service and no recorder is left, whoever was killed before and whichever*)
(* identity file could not be written.                                     *)
THEOREM StopClean ==
  ASSUME NEW a, Admins = {a}
  PROVE Spec => []StopLeavesNothing
<1>1. ASSUME Solo(a) PROVE StopLeavesNothing
  BY <1>1 DEF Solo, Taken, NoDog, NoService, Alive, StopLeavesNothing, service_process
<1> QED BY <1>1, SoloHolds, PTL

---------------------------------------------------------------------------
(* The child of a watchdog: none before the spawn; once it is judged it has*)
(* ended, and nobody had asked it to.                                      *)
Childless(d) == dog[d] \in {"gone", "ident", "loop", "spawn"} => watchdog_child[d] = None
Over(d) ==
  /\ dog[d] \in {"check", "clear"} => watchdog_stop[d] \/ ~Running(watchdog_child[d])
  /\ dog[d] = "judge" => ~Running(watchdog_child[d])
  /\ dog[d] \in {"wait", "check", "clear", "judge"} => watchdog_child[d] \in Svcs
  /\ dog[d] = "kidIdent" => watchdog_child[d] \in Svcs
Owned(s) == \E d \in Dogs : Alive(d) /\ watchdog_child[d] = s
Kids ==
  /\ \A d \in Dogs : Childless(d) /\ Over(d)
  /\ \A s \in asked : marker /\ Owned(s)
  /\ \A d \in Dogs : dog[d] = "judge" => watchdog_child[d] \notin asked

(* Watchdogs stay where they are, and nobody is asked. *)
LEMMA KidsKept ==
  ASSUME Types, Kids, UNCHANGED <<dog, watchdog_child, watchdog_stop>>,
         marker' = marker \/ asked' = {}, asked' \subseteq asked,
         \A s \in Svcs : Running(s)' => Running(s)
  PROVE Kids'
<1>1. \A d \in Dogs : Childless(d)' BY DEF Kids, Childless
<1>2. \A d \in Dogs : Over(d)' BY DEF Kids, Over
<1>3. \A s \in asked' : marker' /\ Owned(s)' BY DEF Kids, Owned, Alive
<1>4. \A d \in Dogs : dog'[d] = "judge" => watchdog_child'[d] \notin asked' BY DEF Kids
<1> QED BY <1>1, <1>2, <1>3, <1>4 DEF Kids

(* Watchdogs end, and what they owned with them. *)
LEMMA KidsEnd ==
  ASSUME Types, Kids, NEW D, DogsEnd(D), marker' = marker,
         \A s \in Svcs : Running(s)' => Running(s)
  PROVE Kids'
<1> USE DEF Types, DogType
<1>1. \A d \in Dogs : Childless(d)' BY DEF Kids, Childless, DogsEnd
<1>2. \A d \in Dogs : Over(d)' BY DEF Kids, Over, DogsEnd
<1>3. ASSUME NEW s \in asked' PROVE marker' /\ Owned(s)'
  <2>1. s \in asked /\ s \notin {watchdog_child[d] : d \in D} BY DEF DogsEnd
  <2>2. PICK d \in Dogs : Alive(d) /\ watchdog_child[d] = s BY <2>1 DEF Kids, Owned
  <2>3. d \notin D BY <2>1, <2>2
  <2>4. Alive(d)' /\ watchdog_child'[d] = s BY <2>2, <2>3 DEF DogsEnd, Alive
  <2> QED BY <2>1, <2>4 DEF Owned, Kids
<1>4. \A d \in Dogs : dog'[d] = "judge" => watchdog_child'[d] \notin asked'
  BY DEF Kids, DogsEnd
<1> QED BY <1>1, <1>2, <1>3, <1>4 DEF Kids

LEMMA KidsDog ==
  ASSUME Types, Kids, Single, NEW d \in Dogs, Works(d), Next
  PROVE Kids'
<1> USE DEF Types, DogType
<1>0. /\ UNCHANGED <<adm, marker>> /\ Alive(d)
      /\ \A e \in Dogs : e # d => ~Alive(e) /\ dog'[e] = dog[e]
  BY DogLeaves DEF Single
<1>a. \A s \in asked : marker /\ watchdog_child[d] = s
  BY <1>0 DEF Kids, Owned
<1>b. ASSUME \A e \in Dogs : e # d => watchdog_child'[e] = watchdog_child[e],
             Childless(d)', Over(d)', \A s \in asked' : marker /\ watchdog_child'[d] = s,
             dog'[d] = "judge" => watchdog_child'[d] \notin asked', dog'[d] # "gone"
      PROVE Kids'
  <2>1. \A e \in Dogs : e # d => dog[e] = "gone" /\ dog'[e] = "gone" BY <1>0 DEF Alive
  <2>2. \A e \in Dogs : Childless(e)' /\ Over(e)'
    BY <1>b, <2>1 DEF Kids, Childless, Over
  <2>3. \A s \in asked' : marker' /\ Owned(s)' BY <1>0, <1>b DEF Owned, Alive
  <2> QED BY <1>b, <2>1, <2>2, <2>3 DEF Kids
<1>c. Childless(d) /\ Over(d) /\ (dog[d] = "judge" => watchdog_child[d] \notin asked)
  BY DEF Kids
<1>1. CASE Bare(d)
  <2>0. UNCHANGED <<watchdog_child, svc, asked>>
    BY <1>1 DEF Bare, Trap, Identify, Loop, IdentifyKid, IdentifyKidFails, Clear, svcVars
  <2>1. CASE Trap(d)
    <3>1. /\ dog'[d] = IF dog[d] = "wait" THEN "check" ELSE dog[d]
          /\ watchdog_stop'[d] = TRUE
      BY <2>1 DEF Trap, StepDog
    <3> QED BY <1>a, <1>b, <1>c, <2>0, <3>1, <1>0 DEF Childless, Over, Running, Serving, Alive
  <2>2. CASE Clear(d)
    <3>1. /\ dog[d] = "clear" /\ watchdog_stop' = watchdog_stop
          /\ dog'[d] = IF ToldToStop(d) THEN "leave" ELSE "judge"
      BY <2>2 DEF Clear, StepDog, dogLocals
    <3>2. dog'[d] = "judge" => ~watchdog_stop[d] /\ asked = {}
      BY <1>a, <3>1 DEF ToldToStop
    <3> QED BY <1>a, <1>b, <1>c, <2>0, <3>1, <3>2 DEF Childless, Over, Running, Serving
  <2>3. CASE Identify(d) \/ Loop(d) \/ IdentifyKid(d) \/ IdentifyKidFails(d)
    <3>1. /\ dog[d] \in {"ident", "loop", "kidIdent"}
          /\ dog[d] = "kidIdent" => dog'[d] = "wait"
          /\ dog[d] # "kidIdent" => dog'[d] \in {"loop", "spawn", "leave"}
      BY <2>3 DEF Identify, Loop, IdentifyKid, IdentifyKidFails, StepDog
    <3> QED BY <1>a, <1>b, <1>c, <2>0, <3>1 DEF Childless, Over
  <2> QED BY <1>1, <2>1, <2>2, <2>3 DEF Bare
<1>2. CASE Reap(d)
  <2>1. /\ UNCHANGED <<watchdog_child, asked>> /\ dog[d] = "wait" /\ dog'[d] = "check"
        /\ svc'[watchdog_child[d]] = "gone"
    BY <1>2, <1>c DEF Reap, StepDog, SvcType, Over
  <2> QED BY <1>a, <1>b, <1>c, <2>1 DEF Childless, Over, Running, Serving
<1>3. CASE Check(d)
  <2>1. /\ UNCHANGED <<watchdog_child, asked, watchdog_stop>>
        /\ dog[d] = "check" /\ dog'[d] = "clear"
    BY <1>3 DEF Check, StepDog, dogLocals
  <2>2. \A e \in Dogs, s \in Svcs : ~Spawn(e, s)
    BY <1>3, <1>0 DEF Check, Spawn, Alive
  <2>3. ~Running(watchdog_child[d]) => ~Running(watchdog_child[d])'
    BY <1>c, <2>1, <2>2, SvcMoves DEF Over, Running, Serving
  <2> QED BY <1>a, <1>b, <1>c, <2>1, <2>3 DEF Childless, Over, Running, Serving
<1>4. CASE Judge(d)
  <2>1. /\ watchdog_child' = [watchdog_child EXCEPT ![d] = None]
        /\ asked' = asked \ {watchdog_child[d]} /\ dog'[d] \in {"crashLoop", "loop"}
    BY <1>4 DEF Judge, StepDog
  <2>2. asked' = {} BY <1>a, <2>1
  <2> QED BY <1>b, <2>1, <2>2 DEF Childless, Over
<1>5. ASSUME NEW s \in Svcs, Spawn(d, s) PROVE Kids'
  <2>1. /\ watchdog_child' = [watchdog_child EXCEPT ![d] = s] /\ asked' = asked
        /\ dog[d] = "spawn" /\ dog'[d] = "kidIdent"
    BY <1>5 DEF Spawn, StepDog
  <2>2. asked = {} BY <1>a, <1>c, <2>1 DEF Childless, SvcType
  <2> QED BY <1>b, <2>1, <2>2 DEF Childless, Over
<1> QED BY <1>1, <1>2, <1>3, <1>4, <1>5 DEF Works

(* Whom the administrator asks to end still runs and has not been judged.  *)
LEMMA KidsAsked ==
  ASSUME Types, Kids, marker, NoteAsked, UNCHANGED <<dog, watchdog_child, watchdog_stop, marker>>,
         \A s \in Svcs : Running(s)' => Running(s)
  PROVE Kids'
<1>1. \A d \in Dogs : Childless(d)' BY DEF Kids, Childless
<1>2. \A d \in Dogs : Over(d)' BY DEF Kids, Over
<1>3. ASSUME NEW s \in asked' PROVE Owned(s)'
  <2>1. Owned(s) BY <1>3 DEF NoteAsked, Parented, Kids, Owned, Alive
  <2> QED BY <2>1 DEF Owned, Alive
<1>4. ASSUME NEW d \in Dogs, dog'[d] = "judge" PROVE watchdog_child'[d] \notin asked'
  <2>1. ~Running(watchdog_child[d]) /\ watchdog_child[d] \notin asked
    BY <1>4 DEF Kids, Over
  <2> QED BY <2>1 DEF NoteAsked, Signalled, service_process
<1> QED BY <1>1, <1>2, <1>3, <1>4 DEF Kids

LEMMA KidsAdmin ==
  ASSUME Types, NEW a, Admins = {a}, Solo(a), Kids, Next,
         \/ Command(a) \/ TermServices(a) \/ TermDog(a) \/ KillServices(a)
         \/ KillWatchdog(a) \/ StopQgapp(a) \/ Waiting(a) \/ Removing(a)
         \/ \E d \in Dogs : Launch(a, d)
  PROVE Kids'
<1> USE DEF Types
<1>0. ASSUME dog' = dog PROVE \A s \in Svcs : Running(s)' => Running(s)
  <2>1. \A d \in Dogs, s \in Svcs : ~Spawn(d, s) BY <1>0 DEF Spawn, StepDog, DogType
  <2> QED BY <2>1, SvcMoves
<1>1. CASE TermServices(a) \/ KillServices(a)
  <2>1. marker BY <1>1 DEF TermServices, KillServices, Solo, Marked
  <2>2. UNCHANGED <<dog, watchdog_child, watchdog_stop, marker>> /\ NoteAsked
    BY <1>1 DEF TermServices, KillServices, dogVars, dogLocals, fileVars
  <2> QED BY <1>0, <2>1, <2>2, KidsAsked
<1>2. CASE KillWatchdog(a)
  <2>1. DogsEnd({watchdog_identity} \ {None}) /\ marker' = marker
    BY <1>2 DEF KillWatchdog, fileVars
  <2>2. \A d \in Dogs, s \in Svcs : ~Spawn(d, s)
    BY <2>1 DEF DogsEnd, Spawn, StepDog, DogType
  <2> QED BY <2>1, <2>2, SvcMoves, KidsEnd
<1>3. CASE Removing(a)
  <2>1. /\ UNCHANGED <<dog, watchdog_child, watchdog_stop, asked>>
        /\ adm[a] \in {"rm", "startRm"}
    BY <1>3 DEF Removing, StopRemove, StartRemove, RemoveFiles, dogVars, dogLocals, svcVars
  <2>2. asked = {} BY <2>1 DEF Solo, Taken, NoDog, Kids, Owned
  <2> QED BY <1>0, <2>1, <2>2, KidsKept
<1>4. ASSUME NEW d \in Dogs, Launch(a, d) PROVE Kids'
  <2>1. /\ UNCHANGED <<watchdog_child, watchdog_stop, marker, asked, svc>>
        /\ dog[d] = "gone" /\ dog' = [dog EXCEPT ![d] = "ident"]
    BY <1>4 DEF Launch, StepDog, dogLocals, svcVars, fileVars
  <2>2. \A e \in Dogs : Childless(e)' /\ Over(e)'
    BY <2>1 DEF Kids, Childless, Over, Running, Serving, DogType
  <2>3. ASSUME NEW s \in asked' PROVE marker' /\ Owned(s)'
    <3>1. PICK e \in Dogs : Alive(e) /\ watchdog_child[e] = s BY <2>1, <2>3 DEF Kids, Owned
    <3>2. Alive(e)' BY <2>1, <3>1 DEF Alive, DogType
    <3> QED BY <2>1, <2>3, <3>1, <3>2 DEF Kids, Owned
  <2>4. \A e \in Dogs : dog'[e] = "judge" => watchdog_child'[e] \notin asked'
    BY <2>1 DEF Kids, DogType
  <2> QED BY <2>2, <2>3, <2>4 DEF Kids
<1>5. CASE Command(a)
  <2>1. /\ UNCHANGED <<dog, watchdog_child, watchdog_stop, asked>>
        /\ marker' = marker \/ marker'
    BY <1>5 DEF Command, Start, StopOrRestart, dogVars, dogLocals, svcVars
  <2>2. \A s \in Svcs : Running(s)' => Running(s) BY <1>0, <2>1
  <2>3. \A d \in Dogs : Childless(d)' BY <2>1 DEF Kids, Childless
  <2>4. \A d \in Dogs : Over(d)' BY <2>1, <2>2 DEF Kids, Over
  <2>5. \A s \in asked' : marker' /\ Owned(s)' BY <2>1 DEF Kids, Owned, Alive
  <2> QED BY <2>1, <2>3, <2>4, <2>5 DEF Kids
<1>6. CASE TermDog(a) \/ StopQgapp(a) \/ Waiting(a)
  <2>1. UNCHANGED <<dog, watchdog_child, watchdog_stop, asked, marker>>
    BY <1>6 DEF TermDog, StopQgapp, Waiting, WaitDog, StartCheck, Await, Done, dogVars,
      dogLocals, svcVars, fileVars
  <2> QED BY <1>0, <2>1, KidsKept
<1> QED BY <1>1, <1>2, <1>3, <1>4, <1>5, <1>6

LEMMA KidsStep ==
  ASSUME Types, NEW a, Admins = {a}, Solo(a), Kids, Next
  PROVE Kids'
<1> USE DEF Types
<1>0. a \in Admins OBVIOUS
<1>1. CASE ServiceStep
  <2>1. UNCHANGED <<dog, watchdog_child, watchdog_stop, asked, marker>>
    BY <1>1, ServiceLeaves
  <2>2. \A d \in Dogs, s \in Svcs : ~Spawn(d, s) BY <2>1 DEF Spawn, StepDog, DogType
  <2> QED BY <2>1, <2>2, SvcMoves, KidsKept
<1>2. ASSUME NEW d \in Dogs, Works(d) PROVE Kids' BY <1>2, KidsDog DEF Solo
<1>3. ASSUME NEW d \in Dogs, Ends(d) PROVE Kids'
  <2>1. DogsEnd({d}) /\ marker' = marker
    BY <1>3 DEF Ends, IdentifyFails, CrashLoop, Leave, KillDog, fileVars
  <2>2. \A e \in Dogs, s \in Svcs : ~Spawn(e, s)
    BY <2>1 DEF DogsEnd, Spawn, StepDog, DogType
  <2> QED BY <2>1, <2>2, SvcMoves, KidsEnd
<1> QED BY <1>0, <1>1, <1>2, <1>3, Steps, KidsAdmin

(* A watchdog counts a failure only when it judges a child. *)
LEMMA Counts ==
  ASSUME Types, Next, NEW d \in Dogs, rapid_failures'[d] > rapid_failures[d]
  PROVE dog[d] = "judge"
<1> USE DEF Types, DogType
<1>0. ASSUME NEW D, DogsEnd(D) PROVE FALSE BY <1>0 DEF DogsEnd
<1>1. ~ServiceStep BY ServiceLeaves
<1>2. ASSUME NEW e \in Dogs, Works(e) PROVE dog[d] = "judge"
  BY <1>2 DEF Works, Bare, Trap, Identify, Loop, IdentifyKid, IdentifyKidFails, Clear, Reap,
    Check, Judge, Spawn, dogLocals
<1>3. ASSUME NEW e \in Dogs PROVE ~Ends(e)
  BY <1>0 DEF Ends, IdentifyFails, CrashLoop, Leave, KillDog
<1>4. ASSUME NEW a \in Admins,
             \/ Command(a) \/ TermServices(a) \/ TermDog(a) \/ KillServices(a)
             \/ KillWatchdog(a) \/ StopQgapp(a) \/ Waiting(a) \/ Removing(a)
             \/ \E e \in Dogs : Launch(a, e)
      PROVE FALSE
  <2>1. rapid_failures' = rapid_failures \/ \E D : DogsEnd(D)
    BY <1>4 DEF Command, TermServices, TermDog, KillServices, KillWatchdog, StopQgapp, Waiting,
      WaitDog, StartCheck, Await, Done, Removing, StopRemove, StartRemove, RemoveFiles, Launch,
      dogVars, dogLocals
  <2> QED BY <1>0, <2>1
<1> QED BY <1>1, <1>2, <1>3, <1>4, Steps

LEMMA KidsHold ==
  ASSUME NEW a, Admins = {a}
  PROVE Spec => []Kids
<1>1. ASSUME Init PROVE Kids
  BY <1>1 DEF Init, Kids, Childless, Over
<1>2. ASSUME Types, Solo(a), Kids, [Next]_vars PROVE Kids'
  <2>1. CASE UNCHANGED vars
    BY <1>2, <2>1, KidsKept
       DEF Running, Serving, vars, dogVars, dogLocals, svcVars, fileVars
  <2> QED BY <1>2, <2>1, KidsStep
<1> QED BY <1>1, <1>2, TypesHold, SoloHolds, PTL DEF Spec

(* A service that ends because the only administrator told it to is never  *)
(* counted as a failure, so that no restart brings the watchdog nearer to  *)
(* the crash loop that kills the recorder.                                 *)
THEOREM AskedIsNoFailure ==
  ASSUME NEW a, Admins = {a}
  PROVE Spec => AskedExitIsNoFailure
<1>1. ASSUME Types, Kids, [Next]_vars
      PROVE [\A d \in Dogs : rapid_failures'[d] > rapid_failures[d] =>
               watchdog_child[d] \notin asked]_vars
  BY <1>1, Counts DEF Kids
<1> QED BY <1>1, TypesHold, KidsHold, PTL DEF Spec, AskedExitIsNoFailure

---------------------------------------------------------------------------
(* Services without a watchdog.  A watchdog that was told to end leaves its*)
(* child to the stop that told it, which kills it; any other stray was the *)
(* child of a watchdog that somebody killed.                               *)
Trapped(a) == \A d \in Dogs : term[d] \/ watchdog_stop[d] =>
  Alive(d) /\ adm[a] \in {"waitDog", "killServices", "killDog"}
Left(d) ==
  /\ dog[d] = "leave" /\ watchdog_child[d] \in Svcs /\ Running(watchdog_child[d]) =>
       watchdog_stop[d]
  /\ dog[d] = "crashLoop" => watchdog_child[d] = None
Restarted(a) ==
  /\ adm[a] = "idle" => ~keep_qgapp[a]
  /\ adm[a] = "startCheck" /\ keep_qgapp[a] => NoDog /\ NoService
Strays == {s \in Svcs : Running(s) /\ ~Owned(s)}
Excused(a) == adm[a] \in {"waitDog", "killServices"} /\ NoDog
Counted(a) ==
  IsFiniteSet(Strays) /\ Cardinality(Strays) <= IF Excused(a) THEN kills + 1 ELSE kills
Rivals(a) == Trapped(a) /\ (\A d \in Dogs : Left(d)) /\ Restarted(a) /\ Counted(a)

LEMMA Fewer ==
  ASSUME NEW S, IsFiniteSet(S), NEW T, T \subseteq S
  PROVE IsFiniteSet(T) /\ Cardinality(T) \in Nat /\ Cardinality(S) \in Nat
        /\ Cardinality(T) <= Cardinality(S)
BY FS_Subset, FS_CardinalityType

LEMMA OneMore ==
  ASSUME NEW S, IsFiniteSet(S), NEW x, NEW T, T \subseteq S \cup {x}
  PROVE IsFiniteSet(T) /\ Cardinality(T) \in Nat /\ Cardinality(S) \in Nat
        /\ Cardinality(T) <= Cardinality(S) + 1
<1>1. /\ IsFiniteSet(S \cup {x}) /\ Cardinality(S \cup {x}) <= Cardinality(S) + 1
      /\ Cardinality(S) \in Nat
  <2>1. Cardinality(S) \in Nat BY FS_CardinalityType
  <2>2. /\ IsFiniteSet(S \cup {x})
        /\ Cardinality(S \cup {x}) = IF x \in S THEN Cardinality(S) ELSE Cardinality(S) + 1
    BY FS_AddElement
  <2> QED BY <2>1, <2>2
<1>2. /\ IsFiniteSet(T) /\ Cardinality(T) \in Nat /\ Cardinality(S \cup {x}) \in Nat
      /\ Cardinality(T) <= Cardinality(S \cup {x})
  BY <1>1, Fewer
<1> QED BY <1>1, <1>2

(* A watchdog at work stays, and its shell and the kills stay as they are. *)
LEMMA WorksLeaves ==
  ASSUME NEW d \in Dogs, Works(d), Types
  PROVE /\ Alive(d)' /\ UNCHANGED <<adm, keep_qgapp, kills>>
        /\ \A e \in Dogs : Alive(e)' <=> Alive(e)
<1>1. UNCHANGED <<adm, keep_qgapp, kills>>
  BY DEF Works, Bare, Trap, Identify, Loop, IdentifyKid, IdentifyKidFails, Clear, Reap, Check,
    Judge, Spawn, admVars
<1>2. dog'[d] # "gone"
  BY DEF Types, DogType, Works, Bare, Trap, Identify, Loop, IdentifyKid, IdentifyKidFails, Clear,
    Reap, Check, Judge, Spawn, StepDog
<1>3. Alive(d) /\ \A e \in Dogs : e # d => dog'[e] = dog[e] BY DogLeaves
<1> QED BY <1>1, <1>2, <1>3 DEF Alive

LEMMA TrappedDog ==
  ASSUME Types, NEW a \in Admins, Trapped(a), NEW d \in Dogs, Works(d) \/ Ends(d)
  PROVE Trapped(a)'
<1> USE DEF Types, DogType
<1>1. CASE Ends(d)
  <2>1. DogsEnd({d}) BY <1>1 DEF Ends, IdentifyFails, CrashLoop, Leave, KillDog
  <2>2. adm' = adm BY DogLeaves
  <2>3. /\ ~term'[d] /\ ~watchdog_stop'[d]
        /\ \A e \in Dogs : e # d => /\ term'[e] = term[e] /\ watchdog_stop'[e] = watchdog_stop[e]
                                    /\ dog'[e] = dog[e]
    BY <2>1 DEF DogsEnd
  <2> QED BY <2>2, <2>3 DEF Trapped, Alive
<1>2. CASE Trap(d)
  <2>1. /\ term[d] /\ term' = [term EXCEPT ![d] = FALSE]
        /\ watchdog_stop' = [watchdog_stop EXCEPT ![d] = TRUE]
    BY <1>2 DEF Trap
  <2>2. adm' = adm /\ \A e \in Dogs : Alive(e)' <=> Alive(e) BY <1>2, WorksLeaves DEF Works, Bare
  <2> QED BY <2>1, <2>2 DEF Trapped
<1>3. CASE Works(d) /\ ~Trap(d)
  <2>1. UNCHANGED <<term, watchdog_stop>>
    BY <1>3 DEF Works, Bare, Identify, Loop, IdentifyKid, IdentifyKidFails, Clear, Reap, Check,
      Judge, Spawn, dogLocals
  <2>2. adm' = adm /\ \A e \in Dogs : Alive(e)' <=> Alive(e) BY <1>3, WorksLeaves
  <2> QED BY <2>1, <2>2 DEF Trapped
<1> QED BY <1>1, <1>2, <1>3
(* The administrator sends TERM to the watchdog it waits for, and kills the*)
(* one it knows before it goes on.                                         *)
LEMMA TrappedAdmin ==
  ASSUME Types, NEW a, Admins = {a}, Solo(a), Trapped(a),
         \/ Command(a) \/ TermServices(a) \/ TermDog(a) \/ KillServices(a)
         \/ KillWatchdog(a) \/ StopQgapp(a) \/ Waiting(a) \/ Removing(a)
         \/ \E d \in Dogs : Launch(a, d)
  PROVE Trapped(a)'
<1> USE DEF Types, DogType, AdmType
<1>0. a \in Admins OBVIOUS
<1>1. CASE TermDog(a)
  <2>1. /\ UNCHANGED <<dog, watchdog_stop>> /\ adm[a] = "termDog" /\ adm'[a] = "waitDog"
        /\ term' = [d \in Dogs |-> term[d] \/ d = watchdog_identity]
    BY <1>0, <1>1 DEF TermDog, StepAdm
  <2>2. \A d \in Dogs : ~term[d] /\ ~watchdog_stop[d] BY <2>1 DEF Trapped
  <2>3. ASSUME NEW d \in Dogs, term'[d] \/ watchdog_stop'[d] PROVE Alive(d)
    BY <2>1, <2>2, <2>3 DEF watchdog_identity, Alive
  <2> QED BY <2>1, <2>3 DEF Trapped, Alive
<1>2. CASE KillWatchdog(a)
  <2>1. DogsEnd({watchdog_identity} \ {None}) /\ adm[a] = "killDog"
    BY <1>2 DEF KillWatchdog
  <2>2. \A d \in Dogs : Alive(d) => d = watchdog_identity
    BY <2>1 DEF Solo, Named, watchdog_identity, Alive
  <2>3. \A d \in Dogs : ~Alive(d) => ~term[d] /\ ~watchdog_stop[d] BY DEF Trapped
  <2>4. \A d \in Dogs : ~term'[d] /\ ~watchdog_stop'[d]
    BY <2>1, <2>2, <2>3 DEF DogsEnd
  <2> QED BY <2>4 DEF Trapped
<1>3. CASE WaitDog(a) \/ KillServices(a)
  <2>1. /\ UNCHANGED <<dog, term, watchdog_stop>>
        /\ adm'[a] \in {"killServices", "killDog"}
    BY <1>0, <1>3 DEF WaitDog, KillServices, StepAdm, dogVars, dogLocals
  <2> QED BY <2>1 DEF Trapped, Alive
<1>4. CASE ~TermDog(a) /\ ~KillWatchdog(a) /\ ~WaitDog(a) /\ ~KillServices(a)
  <2>1. adm[a] \notin {"waitDog", "killServices", "killDog"}
    BY <1>4 DEF Command, Start, StopOrRestart, TermServices, StopQgapp, Waiting, StartCheck, Await,
      Done, Removing, StopRemove, StartRemove, Launch
  <2>2. UNCHANGED <<term, watchdog_stop>>
    BY <1>4 DEF Command, TermServices, StopQgapp, Waiting, StartCheck, Await, Done, Removing,
      StopRemove, StartRemove, RemoveFiles, Launch, dogVars, dogLocals
  <2> QED BY <2>1, <2>2 DEF Trapped
<1> QED BY <1>1, <1>2, <1>3, <1>4

(* A watchdog leaves on its own account only when its child has ended.     *)
LEMMA LeftStep ==
  ASSUME Types, NEW a, Admins = {a}, Solo(a), Kids, \A d \in Dogs : Left(d), Next
  PROVE \A d \in Dogs : Left(d)'
<1> USE DEF Types, DogType
<1>a. ASSUME NEW d \in Dogs, dog'[d] = dog[d], watchdog_child'[d] = watchdog_child[d],
             watchdog_stop'[d] = watchdog_stop[d]
      PROVE Left(d)'
  <2>1. ASSUME dog[d] = "leave", NEW s \in Svcs, s = watchdog_child[d], Running(s)'
        PROVE watchdog_stop[d]
    <3>1. CASE Running(s) BY <2>1, <3>1 DEF Left
    <3>2. CASE ~Running(s)
      <4>1. PICK e \in Dogs : Spawn(e, s) BY <2>1, <3>2, SvcMoves
      <4>2. e = d BY <2>1, <4>1 DEF Solo, Single, Alive, Spawn
      <4> QED BY <2>1, <4>1, <4>2 DEF Spawn
    <3> QED BY <3>1, <3>2
  <2> QED BY <1>a, <2>1 DEF Left, Running, Serving
<1>b. ASSUME NEW d \in Dogs, dog'[d] \notin {"leave", "crashLoop"} PROVE Left(d)'
  BY <1>b DEF Left
<1>1. CASE ServiceStep BY <1>1, <1>a, ServiceLeaves
<1>2. ASSUME NEW d \in Dogs, Works(d) PROVE \A e \in Dogs : Left(e)'
  <2>1. ASSUME NEW e \in Dogs, e # d PROVE Left(e)'
    <3>1. dog[e] = "gone" /\ dog'[e] = "gone"
      BY <1>2, <2>1, DogLeaves DEF Solo, Single, Alive
    <3> QED BY <1>b, <3>1
  <2>2. Left(d)'
    <3>1. CASE Loop(d)
      <4>1. watchdog_child'[d] = None BY <3>1 DEF Loop, Kids, Childless
      <4> QED BY <4>1 DEF Left
    <3>2. CASE Clear(d)
      <4>1. /\ dog[d] = "clear" /\ UNCHANGED <<watchdog_child, watchdog_stop, svc>>
            /\ dog'[d] # "crashLoop"
        BY <3>2 DEF Clear, StepDog, dogLocals, svcVars
      <4>2. Running(watchdog_child[d]) => watchdog_stop[d] BY <4>1 DEF Kids, Over
      <4> QED BY <4>1, <4>2 DEF Left, Running, Serving
    <3>3. CASE Judge(d)
      <4>1. dog'[d] \in {"crashLoop", "loop"} /\ watchdog_child'[d] = None
        BY <3>3 DEF Judge, StepDog
      <4> QED BY <4>1 DEF Left
    <3>4. CASE Trap(d)
      <4>1. /\ watchdog_stop'[d] = TRUE /\ watchdog_child' = watchdog_child
            /\ dog'[d] = IF dog[d] = "wait" THEN "check" ELSE dog[d]
        BY <3>4 DEF Trap, StepDog
      <4> QED BY <4>1 DEF Left
    <3>5. CASE Works(d) /\ ~Loop(d) /\ ~Clear(d) /\ ~Judge(d) /\ ~Trap(d)
      <4>1. dog'[d] \notin {"leave", "crashLoop"}
        BY <3>5 DEF Works, Bare, Identify, IdentifyKid, IdentifyKidFails, Reap, Check, Spawn, StepDog
      <4> QED BY <1>b, <4>1
    <3> QED BY <1>2, <3>1, <3>2, <3>3, <3>4, <3>5
  <2> QED BY <2>1, <2>2
<1>3. ASSUME NEW D, DogsEnd(D) PROVE \A e \in Dogs : Left(e)'
  <2>1. ASSUME NEW e \in Dogs PROVE Left(e)'
    <3>1. CASE e \in D BY <1>3, <1>b, <3>1 DEF DogsEnd
    <3>2. CASE e \notin D BY <1>3, <1>a, <3>2 DEF DogsEnd
    <3> QED BY <3>1, <3>2
  <2> QED BY <2>1
<1>4. ASSUME NEW d \in Dogs, Ends(d) PROVE \A e \in Dogs : Left(e)'
  BY <1>3, <1>4 DEF Ends, IdentifyFails, CrashLoop, Leave, KillDog
<1>5. ASSUME NEW d \in Dogs, Launch(a, d) PROVE \A e \in Dogs : Left(e)'
  <2>1. ASSUME NEW e \in Dogs PROVE Left(e)'
    <3>1. CASE e = d BY <1>5, <1>b, <3>1 DEF Launch, StepDog
    <3>2. CASE e # d BY <1>5, <1>a, <3>2 DEF Launch, StepDog, dogLocals
    <3> QED BY <3>1, <3>2
  <2> QED BY <2>1
<1>6. CASE \/ Command(a) \/ TermServices(a) \/ TermDog(a) \/ KillServices(a)
           \/ StopQgapp(a) \/ Waiting(a) \/ Removing(a)
  <2>1. UNCHANGED <<dog, watchdog_child, watchdog_stop>>
    BY <1>6 DEF Command, TermServices, TermDog, KillServices, StopQgapp, Waiting, WaitDog,
      StartCheck, Await, Done, Removing, StopRemove, StartRemove, RemoveFiles, dogVars, dogLocals
  <2> QED BY <1>a, <2>1
<1>7. CASE KillWatchdog(a) BY <1>3, <1>7 DEF KillWatchdog
<1> QED BY <1>1, <1>2, <1>4, <1>5, <1>6, <1>7, Steps
(* What a restart finds when it starts. *)
LEMMA RestartedStep ==
  ASSUME Types, NEW a, Admins = {a}, Solo(a), Restarted(a), Next
  PROVE Restarted(a)'
<1> USE DEF Types, AdmType
<1>0. a \in Admins OBVIOUS
<1>a. ASSUME UNCHANGED <<dog, adm, keep_qgapp>> PROVE Restarted(a)'
  <2>1. \A d \in Dogs, s \in Svcs : ~Spawn(d, s) BY <1>a DEF Spawn, StepDog, DogType
  <2> QED BY <1>a, <2>1, SvcMoves DEF Restarted, NoDog, NoService, Alive
<1>1. CASE ServiceStep BY <1>1, <1>a, ServiceLeaves
<1>2. ASSUME NEW d \in Dogs, Works(d) \/ Ends(d) PROVE Restarted(a)'
  <2>1. Alive(d) /\ UNCHANGED <<adm, keep_qgapp>>
    BY <1>2, WorksLeaves, DogLeaves
       DEF Ends, IdentifyFails, CrashLoop, Leave, KillDog, admVars
  <2> QED BY <2>1 DEF Restarted, NoDog
<1>3. CASE Removing(a)
  <2>1. /\ UNCHANGED <<dog, svc>>
        /\ \/ adm[a] = "rm" /\ adm'[a] \in {"startCheck", "stopQgapp"}
           \/ adm[a] = "startRm" /\ adm'[a] = "launch"
    BY <1>0, <1>3 DEF Removing, StopRemove, StartRemove, RemoveFiles, StepAdm, dogVars, svcVars
  <2> QED BY <2>1 DEF Restarted, Solo, Taken, NoDog, NoService, Alive, Running, Serving
<1>4. CASE Command(a)
  <2>1. adm[a] = "idle" /\ (adm'[a] = "startCheck" => keep_qgapp' = keep_qgapp)
        /\ adm'[a] # "idle"
    BY <1>0, <1>4 DEF Command, Start, StopOrRestart, StepAdm
  <2> QED BY <2>1 DEF Restarted
<1>5. CASE Done(a)
  <2>1. adm'[a] = "idle" /\ ~keep_qgapp'[a] BY <1>0, <1>5 DEF Done, StepAdm
  <2> QED BY <2>1 DEF Restarted
<1>6. CASE \/ TermServices(a) \/ TermDog(a) \/ KillServices(a) \/ KillWatchdog(a) \/ StopQgapp(a)
           \/ WaitDog(a) \/ StartCheck(a) \/ Await(a) \/ \E d \in Dogs : Launch(a, d)
  <2>1. adm'[a] \notin {"idle", "startCheck"}
    BY <1>0, <1>6 DEF TermServices, TermDog, KillServices, KillWatchdog, StopQgapp, WaitDog,
      StartCheck, Await, Launch, StepAdm
  <2> QED BY <2>1 DEF Restarted
<1> QED BY <1>0, <1>1, <1>2, <1>3, <1>4, <1>5, <1>6, Steps DEF Waiting

(* As long as no watchdog ends or judges, a stray was one before. *)
LEMMA StraysKept ==
  ASSUME Types, NEW a, Admins = {a}, Counted(a), Strays' \subseteq Strays, kills' = kills,
         Excused(a) => Excused(a)'
  PROVE Counted(a)'
<1> USE DEF Types, AdmType
<1>1. PICK T : T = Strays' OBVIOUS
<1>2. /\ IsFiniteSet(T) /\ Cardinality(T) \in Nat /\ Cardinality(Strays) \in Nat
      /\ Cardinality(T) <= Cardinality(Strays)
  BY <1>1, Fewer DEF Counted
<1> QED BY <1>1, <1>2 DEF Counted

(* A watchdog that ends adds its child, if that runs: the kill counts for  *)
(* it, or the stop that told the watchdog to end is still there.           *)
LEMMA StraysGrow ==
  ASSUME Types, NEW a, Admins = {a}, Counted(a), NEW x, Strays' \subseteq Strays \cup {x},
         \/ kills' = kills + 1 /\ (Excused(a) => Excused(a)')
         \/ kills' = kills /\ ~Excused(a) /\ Excused(a)'
  PROVE Counted(a)'
<1> USE DEF Types, AdmType
<1>1. PICK T : T = Strays' OBVIOUS
<1>2. /\ IsFiniteSet(T) /\ Cardinality(T) \in Nat /\ Cardinality(Strays) \in Nat
      /\ Cardinality(T) <= Cardinality(Strays) + 1
  BY <1>1, OneMore DEF Counted
<1>3. kills \in Nat OBVIOUS
<1> QED BY <1>1, <1>2, <1>3 DEF Counted

LEMMA CountedDog ==
  ASSUME Types, NEW a, Admins = {a}, Solo(a), Kids, Rivals(a), Next, NEW d \in Dogs,
         Works(d) \/ Ends(d)
  PROVE Counted(a)'
<1> USE DEF Types, DogType
<1>0. /\ adm' = adm /\ Alive(d) /\ Counted(a) /\ ~Excused(a)
      /\ \A e \in Dogs : e # d => ~Alive(e) /\ dog'[e] = dog[e]
  BY DogLeaves DEF Solo, Single, Rivals, Excused, NoDog
<1>1. CASE Works(d)
  <2>1. kills' = kills /\ Alive(d)' BY <1>1, WorksLeaves
  <2>2. ASSUME NEW s \in Svcs, Running(s)', ~Owned(s)' PROVE Running(s) /\ ~Owned(s)
    <3>1. watchdog_child'[d] # s BY <2>1, <2>2 DEF Owned
    <3>2. ~Spawn(d, s) BY <3>1 DEF Spawn
    <3>3. \A e \in Dogs : ~Spawn(e, s) BY <1>0, <3>2 DEF Spawn, Alive
    <3>4. Running(s) BY <2>2, <3>3, SvcMoves
    <3>5. watchdog_child[d] # s
      <4>1. CASE Judge(d) BY <3>4, <4>1 DEF Judge, Kids, Over
      <4>2. CASE \E t \in Svcs : Spawn(d, t) BY <4>2 DEF Spawn, Kids, Childless
      <4>3. CASE Bare(d) \/ Reap(d) \/ Check(d)
        <5>1. watchdog_child' = watchdog_child
          BY <4>3 DEF Bare, Trap, Identify, Loop, IdentifyKid, IdentifyKidFails, Clear, Reap, Check,
            dogLocals
        <5> QED BY <3>1, <5>1
      <4> QED BY <1>1, <4>1, <4>2, <4>3 DEF Works
    <3> QED BY <1>0, <3>4, <3>5 DEF Owned
  <2>3. Strays' \subseteq Strays BY <2>2 DEF Strays
  <2> QED BY <1>0, <2>1, <2>3, StraysKept
<1>2. CASE Ends(d)
  <2>1. DogsEnd({d}) BY <1>2 DEF Ends, IdentifyFails, CrashLoop, Leave, KillDog
  <2>2. NoDog' BY <1>0, <2>1 DEF NoDog, Alive, DogsEnd
  <2>3. \A e \in Dogs, s \in Svcs : ~Spawn(e, s) BY <2>2 DEF Spawn, StepDog, NoDog, Alive
  <2>4. ASSUME NEW s \in Svcs, Running(s)' PROVE Running(s) BY <2>3, <2>4, SvcMoves
  <2>5. ASSUME NEW s \in Svcs, Running(s), Owned(s) PROVE s = watchdog_child[d]
    BY <1>0, <2>5 DEF Owned
  <2>6. CASE KillDog(d)
    <3>1. Strays' \subseteq Strays \cup {watchdog_child[d]} BY <2>4, <2>5 DEF Strays
    <3>2. kills' = kills + 1 BY <2>6 DEF KillDog
    <3> QED BY <1>0, <3>1, <3>2, StraysGrow
  <2>7. CASE ~KillDog(d)
    <3>0. kills' = kills
      BY <1>2, <2>7 DEF Ends, IdentifyFails, CrashLoop, Leave, admVars
    <3>1. CASE watchdog_child[d] \in Svcs /\ Running(watchdog_child[d])
      <4>1. Leave(d)
        BY <1>2, <2>7, <3>1 DEF Ends, IdentifyFails, CrashLoop, Kids, Childless, Rivals, Left
      <4>2. watchdog_stop[d] BY <3>1, <4>1 DEF Leave, Rivals, Left
      <4>3. adm[a] \in {"waitDog", "killServices", "killDog"} BY <4>2 DEF Rivals, Trapped
      <4>4. adm[a] # "killDog" BY <3>1 DEF Solo, Taken, NoService
      <4>5. Excused(a)' BY <1>0, <2>2, <4>3, <4>4 DEF Excused
      <4>6. Strays' \subseteq Strays \cup {watchdog_child[d]} BY <2>4, <2>5 DEF Strays
      <4> QED BY <1>0, <3>0, <4>5, <4>6, StraysGrow
    <3>2. CASE ~(watchdog_child[d] \in Svcs /\ Running(watchdog_child[d]))
      <4>1. Strays' \subseteq Strays BY <2>4, <2>5, <3>2 DEF Strays
      <4> QED BY <1>0, <3>0, <4>1, StraysKept
    <3> QED BY <3>1, <3>2
  <2> QED BY <2>6, <2>7
<1> QED BY <1>1, <1>2
LEMMA NoneCounted ==
  ASSUME Types', NoService', NEW a PROVE Counted(a)'
<1>1. Strays' = {} BY DEF Strays, NoService
<1>2. IsFiniteSet({}) /\ Cardinality({}) = 0 BY FS_EmptySet
<1> QED BY <1>1, <1>2 DEF Counted, Types, AdmType

LEMMA CountedAdmin ==
  ASSUME Types, NEW a, Admins = {a}, Solo(a), Counted(a), Next,
         \/ Command(a) \/ TermServices(a) \/ TermDog(a) \/ KillServices(a)
         \/ KillWatchdog(a) \/ StopQgapp(a) \/ Waiting(a) \/ Removing(a)
         \/ \E d \in Dogs : Launch(a, d)
  PROVE Counted(a)'
<1> USE DEF Types, DogType, AdmType
<1>0. a \in Admins /\ kills' = kills
  BY DEF Command, TermServices, TermDog, KillServices, KillWatchdog, StopQgapp, Waiting, WaitDog,
    StartCheck, Await, Done, Removing, StopRemove, StartRemove, RemoveFiles, Launch, admFrame
<1>1. CASE KillServices(a) \/ KillWatchdog(a)
  <2>1. adm'[a] \in {"killDog", "rm"} BY <1>0, <1>1 DEF KillServices, KillWatchdog, StepAdm
  <2>2. Solo(a)' BY <1>1, AdminSolo
  <2>3. NoService' BY <2>1, <2>2 DEF Solo, Taken
  <2> QED BY <2>3, TypeStep, NoneCounted
<1>2. ASSUME NEW d \in Dogs, Launch(a, d) PROVE Counted(a)'
  <2>1. /\ UNCHANGED <<svc, watchdog_child>> /\ adm[a] = "launch"
        /\ dog' = [dog EXCEPT ![d] = "ident"]
    BY <1>2 DEF Launch, StepDog, dogLocals, svcVars
  <2>2. \A e \in Dogs : Alive(e) => Alive(e)' BY <2>1 DEF Alive
  <2>3. Strays' \subseteq Strays BY <2>1, <2>2 DEF Strays, Owned, Running, Serving
  <2> QED BY <1>0, <2>1, <2>3, StraysKept DEF Excused
<1>3. CASE \/ Command(a) \/ TermServices(a) \/ TermDog(a) \/ StopQgapp(a) \/ Waiting(a)
           \/ Removing(a)
  <2>1. UNCHANGED <<dog, watchdog_child>>
    BY <1>3 DEF Command, TermServices, TermDog, StopQgapp, Waiting, WaitDog, StartCheck, Await, Done,
      Removing, StopRemove, StartRemove, RemoveFiles, dogVars
  <2>2. \A d \in Dogs, s \in Svcs : ~Spawn(d, s) BY <2>1 DEF Spawn, StepDog
  <2>3. Strays' \subseteq Strays BY <2>1, <2>2, SvcMoves DEF Strays, Owned, Alive
  <2>4. adm[a] \in {"waitDog", "killServices"} => adm'[a] = "killServices"
    BY <1>0, <1>3 DEF Command, Start, StopOrRestart, TermServices, TermDog, StopQgapp, Waiting,
      WaitDog, StartCheck, Await, Done, Removing, StopRemove, StartRemove, StepAdm
  <2>5. Excused(a) => Excused(a)' BY <2>1, <2>4 DEF Excused, NoDog, Alive
  <2> QED BY <1>0, <2>3, <2>5, StraysKept
<1> QED BY <1>1, <1>2, <1>3

LEMMA RivalsStep ==
  ASSUME Types, NEW a, Admins = {a}, Solo(a), Kids, Rivals(a), Next
  PROVE Rivals(a)'
<1>0. a \in Admins OBVIOUS
<1>1. Trapped(a)'
  <2>1. CASE ServiceStep BY <2>1, ServiceLeaves DEF Rivals, Trapped, Alive
  <2> QED BY <1>0, <2>1, Steps, TrappedDog, TrappedAdmin DEF Rivals
<1>2. \A d \in Dogs : Left(d)' BY LeftStep DEF Rivals
<1>3. Restarted(a)' BY RestartedStep DEF Rivals
<1>4. Counted(a)'
  <2>1. CASE ServiceStep
    <3>1. UNCHANGED <<dog, watchdog_child, adm, kills>> BY <2>1, ServiceLeaves
    <3>2. \A d \in Dogs, s \in Svcs : ~Spawn(d, s)
      BY <3>1 DEF Spawn, StepDog, Types, DogType
    <3>3. Strays' \subseteq Strays BY <3>1, <3>2, SvcMoves DEF Strays, Owned, Alive
    <3>4. Excused(a) => Excused(a)' BY <3>1 DEF Excused, NoDog, Alive
    <3> QED BY <3>1, <3>3, <3>4, StraysKept DEF Rivals
  <2> QED BY <1>0, <2>1, Steps, CountedDog, CountedAdmin DEF Rivals
<1> QED BY <1>1, <1>2, <1>3, <1>4 DEF Rivals

LEMMA RivalsCounted ==
  ASSUME Types, NEW a, Admins = {a}, Solo(a), Rivals(a)
  PROVE NoRivals
<1>0. a \in Admins /\ kills \in Nat BY DEF Types, AdmType
<1>1. Cardinality(service_process) <= 1 + kills
  <2>0. IsFiniteSet(Strays) BY DEF Rivals, Counted
  <2>1. CASE NoDog
    <3>1. service_process \subseteq Strays BY <2>1 DEF service_process, Strays, Owned, NoDog
    <3>2. Cardinality(service_process) <= Cardinality(Strays)
          /\ Cardinality(service_process) \in Nat /\ Cardinality(Strays) \in Nat
      BY <2>0, <3>1, Fewer
    <3> QED BY <1>0, <3>2 DEF Rivals, Counted
  <2>2. ASSUME NEW d \in Dogs, Alive(d) PROVE Cardinality(service_process) <= 1 + kills
    <3>1. service_process \subseteq Strays \cup {watchdog_child[d]}
      BY <2>2 DEF service_process, Strays, Owned, Solo, Single
    <3>2. Cardinality(service_process) <= Cardinality(Strays) + 1
          /\ Cardinality(service_process) \in Nat /\ Cardinality(Strays) \in Nat
      BY <2>0, <3>1, OneMore
    <3>3. ~Excused(a) BY <2>2 DEF Excused, NoDog
    <3> QED BY <1>0, <3>2, <3>3 DEF Rivals, Counted
  <2> QED BY <2>1, <2>2 DEF NoDog
<1>2. ASSUME adm[a] = "startCheck", keep_qgapp[a] PROVE service_process = {}
  BY <1>2 DEF Rivals, Restarted, NoService, service_process
<1> QED BY <1>1, <1>2 DEF NoRivals

(* With one administrator the script never sets two services against each  *)
(* other: there is one more for each watchdog that somebody killed, and    *)
(* none is left when a restart launches its watchdog, wherever the watchdog*)
(* was and whichever identity file could not be written.                   *)
THEOREM NoRivalsHold ==
  ASSUME NEW a, Admins = {a}
  PROVE Spec => []NoRivals
<1>1. ASSUME Init PROVE Rivals(a)
  <2>1. Trapped(a) BY <1>1 DEF Init, Trapped
  <2>2. (\A d \in Dogs : Left(d)) /\ Restarted(a) BY <1>1 DEF Init, Left, Restarted
  <2>3. Strays = {} BY <1>1 DEF Init, Strays, Running, Serving
  <2>4. Counted(a) BY <1>1, <2>3, FS_EmptySet DEF Init, Counted
  <2> QED BY <2>1, <2>2, <2>4 DEF Rivals
<1>2. ASSUME Types, Solo(a), Kids, Rivals(a), [Next]_vars PROVE Rivals(a)'
  <2>1. CASE UNCHANGED vars
    <3>1. UNCHANGED <<dog, watchdog_child, term, watchdog_stop, svc, adm, keep_qgapp, kills>>
      BY <2>1 DEF vars, dogVars, dogLocals, svcVars, admVars
    <3>2. (\A s \in Svcs : (Running(s)' <=> Running(s)) /\ (Owned(s)' <=> Owned(s)))
          /\ (NoDog' <=> NoDog) /\ (NoService' <=> NoService) /\ \A d \in Dogs : Alive(d)' <=> Alive(d)
      BY <3>1 DEF Running, Serving, Owned, Alive, NoDog, NoService
    <3>3. Strays' = Strays BY <3>2 DEF Strays
    <3>4. Counted(a)' BY <1>2, <3>1, <3>2, <3>3 DEF Rivals, Counted, Excused
    <3>5. Trapped(a)' /\ Restarted(a)' BY <1>2, <3>1, <3>2 DEF Rivals, Trapped, Restarted
    <3>6. \A d \in Dogs : Left(d)'
      BY <1>2, <3>1 DEF Rivals, Left, Running, Serving
    <3> QED BY <3>4, <3>5, <3>6 DEF Rivals
  <2> QED BY <1>2, <2>1, RivalsStep
<1> QED BY <1>1, <1>2, TypesHold, SoloHolds, KidsHold, RivalsCounted, PTL DEF Spec
=============================================================================
