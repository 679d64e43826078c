--------------------------- MODULE TinaBleProofs ---------------------------
(***************************************************************************)
(* Proofs about TinaBle, for any number of commands, fragments and         *)
(* accidents.  What each thread leaves alone is stated once (MainLeaves to *)
(* ClientLeaves); the invariants follow one another: types, the thread that*)
(* holds the command in progress (Base), what has left the clients (Reach),*)
(* the order of acceptance (Order), the marker and the advertisement; and, *)
(* for the answers, what was carried out (Carried), who holds the command  *)
(* accepted last (InLine), the transport a command takes (Paths), the      *)
(* reassembly (Table), whose status it is (Owned), what was read (Replies).*)
(***************************************************************************)
EXTENDS TinaBle, FiniteSetTheorems, TLAPS

(* The type invariant in parts. *)
MainType ==
  /\ main \in {"down", "setup", "rf", "marker", "app", "adv", "spawn", "serve"} \cup Leaving
  /\ has \subseteq {"agent", "rf", "app", "adv", "disp"}
  /\ {sig, stop, lost} \subseteq BOOLEAN
  /\ marker \in {"none", "own", "stale"}
RfPlaces == [at : {"none", "accept", "ended"}, cmd : {None}] \cup
            [at : {"recv", "spawn", "failing", "wait", "check", "copy"}, cmd : Cmd]
BoxType ==
  /\ active \in BOOLEAN /\ status \in Status
  /\ reasm \in [cmd : Cmd \cup {None}, parts : SUBSET (1 .. Frags)]
PlaceType ==
  /\ bus \in {Idle} \cup [at : {"spawn", "failing"}, cmd : Cmd]
  /\ rf \in RfPlaces
  /\ worker \in [Cmd -> {"none", "start", "call", "answered", "reported"}]
OutsideType ==
  /\ backlog \in Seq(Cmd) /\ serving \in Cmd \cup {None} /\ ran \in Seq(Cmd)
  /\ bluez \in BOOLEAN /\ lossMsg \in BOOLEAN
  /\ regs \subseteq {"app", "adv"} /\ queue \subseteq Cmd \X (1 .. Frags)
ClientType ==
  /\ ph \in [Cmd -> {"gatt", "write", "poll", "tail", "over"} \cup Executing]
  /\ wrote \in [Cmd -> BOOLEAN]
  /\ timer \in [Cmd -> {"armed", "won", "closed"}]
  /\ res \in [Cmd -> {"none", "failed", "unknown", "reply"}]
  /\ conns \subseteq Cmd /\ sent \subseteq Cmd
GotType == got \in [Cmd -> Seq(Status)]
HistoryType ==
  /\ accepted \in Seq(Cmd) /\ disturbed \subseteq Cmd
  /\ faults \in 0 .. MaxFaults

Types == /\ MainType /\ BoxType /\ PlaceType /\ OutsideType /\ ClientType /\ GotType
         /\ HistoryType

LEMMA Parts == TypeOK <=> Types
BY DEF TypeOK, Types, MainType, BoxType, PlaceType, OutsideType, ClientType, GotType,
  HistoryType, RfPlaces

USE CmdAssumption, BoundAssumption

LEMMA Records ==
  /\ Ready \in Status
  /\ \A c \in Cmd : Is("working", c) \in Status /\ Is("done", c) \in Status
                    /\ Is("failed", c) \in Status
  /\ NoParts \in [cmd : Cmd \cup {None}, parts : SUBSET (1 .. Frags)]
  /\ Idle.at = "idle" /\ NoThread \in RfPlaces /\ At("accept", None) \in RfPlaces
BY DEF Ready, Is, Status, NoParts, NoThread, At, RfPlaces, Idle

LEMMA Handled ==
  ASSUME PlaceType
  PROVE /\ bus.at \in {"spawn", "failing"} => bus.cmd \in Cmd
        /\ rf.at \in {"recv", "spawn", "failing", "wait", "check", "copy"} => rf.cmd \in Cmd
BY DEF PlaceType, RfPlaces, Idle, At

LEMMA Sequences2 ==
  ASSUME NEW S, NEW a \in S, NEW b \in S
  PROVE <<>> \in Seq(S) /\ <<a>> \in Seq(S) /\ <<a, b>> \in Seq(S)
OBVIOUS

---------------------------------------------------------------------------
(* What each group of actions leaves alone. *)

LEMMA MainLeaves ==
  ASSUME Main \/ Start \/ Crash
  PROVE \/ Gone
        \/ /\ UNCHANGED <<boxVars, reasm, bus, worker, serviceVars, bluez, queue,
                         lossMsg, clientVars, history>>
           /\ start_rfcomm_server \/ UNCHANGED rf
           /\ \/ Register("app", "adv", "spawn") \/ Register("adv", "spawn", "spawn")
              \/ regs' \subseteq regs
<1> USE DEF mainVars, boxVars, threadVars, serviceVars, bluezVars,
            clientVars, history
<1>1. CASE Start
  BY <1>1 DEF Start
<1>2. CASE SetUp
  BY <1>2 DEF SetUp
<1>3. CASE start_rfcomm_server
  BY <1>3 DEF start_rfcomm_server
<1>4. CASE publish_ready_marker
  BY <1>4 DEF publish_ready_marker
<1>5. CASE Register("app", "adv", "spawn") \/ Register("adv", "spawn", "spawn")
  BY <1>5 DEF Register
<1>6. CASE StartDispatcher
  BY <1>6 DEF StartDispatcher
<1>7. CASE EndServing
  BY <1>7 DEF EndServing
<1>8. CASE clear_ready_marker
  BY <1>8 DEF clear_ready_marker
<1>9. CASE stop_rfcomm_server
  BY <1>9 DEF stop_rfcomm_server
<1>10. CASE JoinDispatcher
  BY <1>10 DEF JoinDispatcher
<1>11. CASE Unregister("adv-", "app-")
  BY <1>11 DEF Unregister
<1>12. CASE Unregister("app-", "agent-")
  BY <1>12 DEF Unregister
<1>13. CASE Unregister("agent-", "exit")
  BY <1>13 DEF Unregister
<1>14. CASE Exit \/ Crash
  BY <1>14 DEF Exit, Crash
<1> QED BY <1>1, <1>2, <1>3, <1>4, <1>5, <1>6, <1>7, <1>8, <1>9, <1>10,
           <1>11, <1>12, <1>13, <1>14 DEF Main

LEMMA BusLeaves ==
  ASSUME Bus
  PROVE /\ UNCHANGED <<main, has, sig, marker, rf, serviceVars, bluez, regs,
                        wrote, timer, got, conns, sent>>
        /\ SeeLoss \/ UNCHANGED <<stop, lost, lossMsg>>
<1> USE DEF mainVars, boxVars, threadVars, serviceVars, bluezVars,
            clientVars, history
<1>1. CASE \E c \in Cmd, i \in 1 .. Frags : WriteBusy(c, i)
  BY <1>1 DEF WriteBusy, Write
<1>2. CASE \E c \in Cmd, i \in 1 .. Frags : WriteWaits(c, i)
  BY <1>2 DEF WriteWaits, Write
<1>3. CASE \E c \in Cmd, i \in 1 .. Frags : WriteCompletes(c, i)
  BY <1>3 DEF WriteCompletes, Write
<1>4. CASE BusSpawns
  BY <1>4 DEF BusSpawns
<1>5. CASE BusFails
  BY <1>5 DEF BusFails
<1>6. CASE SeeLoss
  BY <1>6 DEF SeeLoss
<1> QED BY <1>1, <1>2, <1>3, <1>4, <1>5, <1>6 DEF Bus

LEMMA RfLeaves ==
  ASSUME RfServer \/ RfEnds(FALSE)
  PROVE UNCHANGED <<mainVars, reasm, bus, serviceVars, bluezVars, wrote, timer>>
<1> USE DEF mainVars, boxVars, threadVars, serviceVars, bluezVars,
            clientVars, history, Rf
<1>1. CASE \E c \in Cmd : RfAccept(c)
  BY <1>1 DEF RfAccept
<1>2. CASE \E told \in BOOLEAN : RfEnds(told)
  BY <1>2 DEF RfEnds
<1>3. CASE RfDrops
  BY <1>3 DEF RfDrops
<1>4. CASE RfDispatches
  BY <1>4 DEF RfDispatches
<1>5. CASE RfSpawns
  BY <1>5 DEF RfSpawns
<1>6. CASE RfFails
  BY <1>6 DEF RfFails
<1>7. CASE RfWaits
  BY <1>7 DEF RfWaits
<1>8. CASE RfChecks
  BY <1>8 DEF RfChecks
<1>9. CASE copy_status
  BY <1>9 DEF copy_status
<1> QED BY <1>1, <1>2, <1>3, <1>4, <1>5, <1>6, <1>7, <1>8, <1>9 DEF RfServer

LEMMA WorkerLeaves ==
  ASSUME Workers
  PROVE UNCHANGED <<mainVars, reasm, bus, rf, bluezVars, clientVars, history, faults>>
BY DEF Workers, http_request, WorkerReports, WorkerEnds, Worker

LEMMA ServiceLeaves ==
  ASSUME Service \/ ServiceDies
  PROVE UNCHANGED <<mainVars, boxVars, reasm, bus, rf, bluezVars, clientVars, history>>
BY DEF Service, handle_request, send_json, ServiceDies, Serve

LEMMA AroundLeaves ==
  ASSUME BluezDies \/ BluezReturns \/ Signal
  PROVE UNCHANGED <<main, has, stop, lost, marker, boxVars, reasm, threadVars,
                    serviceVars, clientVars, history>>
BY DEF BluezDies, BluezReturns, Signal, Around

LEMMA ClientLeaves ==
  ASSUME NEW c \in Cmd, Progress(c) \/ Timers(c)
  PROVE UNCHANGED <<mainVars, boxVars, reasm, threadVars, serviceVars, bluez, regs,
                    lossMsg, history, faults>>
BY DEF Progress, Timers, gatt, GattUnready, GattFails, ReadHead, ReadTail, ReadPart,
  RfConnect, RfMarks, RfWrites, RfThrows, TimerFires, TimerEnds, Timer, Client,
  bluezVars

(* Every accident is counted. *)
LEMMA FaultType ==
  ASSUME HistoryType, \/ UNCHANGED faults \/ Fault \/ \E p \in BOOLEAN : FaultIf(p)
  PROVE faults' \in 0 .. MaxFaults
BY DEF HistoryType, Fault, FaultIf

---------------------------------------------------------------------------
(* The types, part by part. *)

LEMMA MainTypeStep ==
  ASSUME MainType, Next
  PROVE MainType'
<1> USE DEF MainType, Leaving
<1>1. CASE Start
  BY <1>1 DEF Start, Step
<1>2. CASE SetUp
  BY <1>2 DEF SetUp, Step
<1>3. CASE start_rfcomm_server
  BY <1>3 DEF start_rfcomm_server, Step
<1>4. CASE publish_ready_marker
  BY <1>4 DEF publish_ready_marker, Step
<1>5. CASE Register("app", "adv", "spawn") \/ Register("adv", "spawn", "spawn")
  BY <1>5 DEF Register, Step
<1>6. CASE StartDispatcher
  BY <1>6 DEF StartDispatcher, Step
<1>7. CASE EndServing
  BY <1>7 DEF EndServing, Step
<1>8. CASE clear_ready_marker
  BY <1>8 DEF clear_ready_marker, Step
<1>9. CASE stop_rfcomm_server
  BY <1>9 DEF stop_rfcomm_server, Step
<1>10. CASE JoinDispatcher
  BY <1>10 DEF JoinDispatcher, Step
<1>11. CASE Unregister("adv-", "app-") \/ Unregister("app-", "agent-") \/ Unregister("agent-", "exit")
  BY <1>11 DEF Unregister, Step
<1>12. CASE Exit
  BY <1>12 DEF Exit, Gone
<1>13. CASE Crash
  BY <1>13 DEF Crash, Gone
<1>14. CASE SeeLoss
  BY <1>14 DEF SeeLoss
<1>15. CASE Bus /\ ~SeeLoss
  BY <1>15, BusLeaves
<1>16. CASE RfServer \/ RfEnds(FALSE)
  BY <1>16, RfLeaves DEF mainVars
<1>17. CASE Workers
  BY <1>17, WorkerLeaves DEF mainVars
<1>18. CASE Service \/ ServiceDies
  BY <1>18, ServiceLeaves DEF mainVars
<1>19. CASE BluezDies \/ BluezReturns \/ Signal
  BY <1>19, AroundLeaves DEF BluezDies, BluezReturns, Signal
<1>20. CASE \E c \in Cmd : Progress(c) \/ Timers(c)
  BY <1>20, ClientLeaves DEF mainVars
<1> QED BY <1>1, <1>2, <1>3, <1>4, <1>5, <1>6, <1>7, <1>8, <1>9, <1>10,
           <1>11, <1>12, <1>13, <1>14, <1>15, <1>16, <1>17, <1>18, <1>19,
           <1>20 DEF Next, Main

LEMMA BoxTypeStep ==
  ASSUME BoxType, PlaceType, Next
  PROVE BoxType'
<1> USE DEF BoxType, boxVars
<1>1. CASE Start \/ Main \/ Crash
  BY <1>1, MainLeaves, Records DEF Gone
<1>2. CASE \E c \in Cmd, i \in 1 .. Frags : WriteBusy(c, i)
  BY <1>2 DEF WriteBusy, Write
<1>3. CASE \E c \in Cmd, i \in 1 .. Frags : WriteWaits(c, i)
  BY <1>3 DEF WriteWaits, Write, Kept, Extended, NoParts
<1>4. CASE \E c \in Cmd, i \in 1 .. Frags : WriteCompletes(c, i)
  <2>1. PICK c \in Cmd, i \in 1 .. Frags : WriteCompletes(c, i) BY <1>4
  <2>2. reasm' = NoParts /\ (Claim(c) \/ UNCHANGED boxVars)
    BY <2>1, Zenon DEF WriteCompletes
  <2> QED BY <2>2, Records DEF Claim
<1>5. CASE BusSpawns
  BY <1>5 DEF BusSpawns, SpawnWorker, SpawnFails
<1>6. CASE BusFails
  BY <1>6, Records DEF BusFails, set_failed_status, PlaceType
<1>7. CASE SeeLoss
  BY <1>7 DEF SeeLoss
<1>8. CASE (\E c \in Cmd : RfAccept(c)) \/ RfDrops \/ RfWaits \/ RfChecks \/ copy_status \/ RfEnds(TRUE) \/ RfEnds(FALSE)
  BY <1>8 DEF RfAccept, RfDrops, RfWaits, RfChecks, copy_status, RfEnds, Rf
<1>9. CASE RfDispatches
  BY <1>9, Records, Handled DEF RfDispatches, Rf, Claim
<1>10. CASE RfSpawns
  BY <1>10 DEF RfSpawns, Rf, SpawnWorker, SpawnFails
<1>11. CASE RfFails
  BY <1>11, Records, Handled DEF RfFails, Rf, set_failed_status
<1>12. CASE \E c \in Cmd : http_request(c)
  BY <1>12 DEF http_request, Worker
<1>13. CASE \E c \in Cmd : WorkerReports(c)
  BY <1>13, Records DEF WorkerReports, Worker
<1>14. CASE \E c \in Cmd : WorkerEnds(c)
  BY <1>14 DEF WorkerEnds, Worker
<1>15. CASE Service \/ ServiceDies
  BY <1>15, ServiceLeaves
<1>16. CASE BluezDies \/ BluezReturns \/ Signal
  BY <1>16, AroundLeaves
<1>17. CASE \E c \in Cmd : Progress(c) \/ Timers(c)
  BY <1>17, ClientLeaves
<1> QED BY <1>1, <1>2, <1>3, <1>4, <1>5, <1>6, <1>7, <1>8, <1>9, <1>10,
           <1>11, <1>12, <1>13, <1>14, <1>15, <1>16, <1>17 DEF Next, Bus,
           RfServer, Workers

LEMMA PlaceTypeStep ==
  ASSUME PlaceType, ClientType, Next
  PROVE PlaceType'
<1> USE DEF PlaceType, threadVars
<1>1. CASE Start \/ Main \/ Crash
  BY <1>1, MainLeaves, Records DEF start_rfcomm_server, Gone
<1>2. CASE \E c \in Cmd, i \in 1 .. Frags : WriteBusy(c, i) \/ WriteWaits(c, i)
  BY <1>2 DEF WriteBusy, WriteWaits, Write
<1>3. CASE \E c \in Cmd, i \in 1 .. Frags : WriteCompletes(c, i)
  BY <1>3 DEF WriteCompletes, Write, At
<1>4. CASE BusSpawns
  BY <1>4 DEF BusSpawns, SpawnWorker, SpawnFails, At, Idle
<1>5. CASE BusFails
  BY <1>5 DEF BusFails
<1>6. CASE SeeLoss
  BY <1>6 DEF SeeLoss
<1>7. CASE \E c \in Cmd : RfAccept(c)
  BY <1>7 DEF RfAccept, Rf, RfPlaces, At
<1>8. CASE \E told \in BOOLEAN : RfEnds(told)
  BY <1>8 DEF RfEnds, Rf, RfPlaces, At
<1>9. CASE RfDrops
  BY <1>9 DEF RfDrops, Rf, NextClient, RfPlaces, At
<1>10. CASE RfDispatches
  BY <1>10 DEF RfDispatches, Rf, NextClient, RfPlaces, At
<1>11. CASE RfSpawns
  BY <1>11 DEF RfSpawns, Rf, SpawnWorker, SpawnFails, RfPlaces, At
<1>12. CASE RfFails
  BY <1>12 DEF RfFails, Rf, NextClient, RfPlaces, At
<1>13. CASE RfWaits
  BY <1>13 DEF RfWaits, Rf, RfPlaces, At
<1>14. CASE RfChecks
  BY <1>14 DEF RfChecks, Rf, NextClient, RfPlaces, At
<1>15. CASE copy_status
  BY <1>15 DEF copy_status, Rf, NextClient, RfPlaces, At
<1>16. CASE \E c \in Cmd : http_request(c)
  BY <1>16 DEF http_request, Worker
<1>17. CASE \E c \in Cmd : WorkerReports(c)
  BY <1>17 DEF WorkerReports, Worker
<1>18. CASE \E c \in Cmd : WorkerEnds(c)
  BY <1>18 DEF WorkerEnds, Worker
<1>19. CASE handle_request
  BY <1>19 DEF handle_request, Serve
<1>20. CASE send_json
  BY <1>20 DEF send_json, Serve
<1>21. CASE ServiceDies
  BY <1>21 DEF ServiceDies, Serve
<1>22. CASE BluezDies \/ BluezReturns \/ Signal
  BY <1>22, AroundLeaves
<1>23. CASE \E c \in Cmd : Progress(c) \/ Timers(c)
  BY <1>23, ClientLeaves
<1> QED BY <1>1, <1>2, <1>3, <1>4, <1>5, <1>6, <1>7, <1>8, <1>9, <1>10,
           <1>11, <1>12, <1>13, <1>14, <1>15, <1>16, <1>17, <1>18, <1>19,
           <1>20, <1>21, <1>22, <1>23 DEF Next, Bus, RfServer, Workers,
           Service

LEMMA OutsideTypeStep ==
  ASSUME OutsideType, PlaceType, Next
  PROVE OutsideType'
<1> USE DEF OutsideType, serviceVars, bluezVars
<1>1. CASE Register("app", "adv", "spawn") \/ Register("adv", "spawn", "spawn")
  BY <1>1 DEF Register
<1>2. CASE Start \/ Main \/ Crash
  BY <1>2, MainLeaves, <1>1 DEF Gone
<1>3. CASE \E c \in Cmd, i \in 1 .. Frags : WriteBusy(c, i)
  BY <1>3 DEF WriteBusy, Write
<1>4. CASE \E c \in Cmd, i \in 1 .. Frags : WriteWaits(c, i)
  BY <1>4 DEF WriteWaits, Write, Acked
<1>5. CASE \E c \in Cmd, i \in 1 .. Frags : WriteCompletes(c, i)
  BY <1>5 DEF WriteCompletes, Write
<1>6. CASE BusSpawns
  BY <1>6 DEF BusSpawns, Acked, Idle
<1>7. CASE BusFails
  BY <1>7 DEF BusFails
<1>8. CASE SeeLoss
  BY <1>8 DEF SeeLoss
<1>9. CASE RfServer \/ RfEnds(FALSE)
  BY <1>9, RfLeaves
<1>10. CASE \E c \in Cmd : http_request(c)
  BY <1>10 DEF http_request, Worker
<1>11. CASE \E c \in Cmd : WorkerReports(c) \/ WorkerEnds(c)
  BY <1>11 DEF WorkerReports, WorkerEnds, Worker
<1>12. CASE handle_request
  BY <1>12 DEF handle_request, Serve
<1>13. CASE send_json
  BY <1>13 DEF send_json, Serve
<1>14. CASE ServiceDies
  BY <1>14 DEF ServiceDies, Serve
<1>15. CASE BluezDies
  BY <1>15 DEF BluezDies, Around
<1>16. CASE BluezReturns
  BY <1>16 DEF BluezReturns, Around
<1>17. CASE Signal
  BY <1>17 DEF Signal, Around
<1>18. CASE \E c \in Cmd : gatt(c)
  BY <1>18 DEF gatt, Client
<1>19. CASE \E c \in Cmd : GattFails(c)
  BY <1>19 DEF GattFails, Client
<1>20. CASE \E c \in Cmd : (Progress(c) \/ Timers(c)) /\ ~gatt(c) /\ ~GattFails(c)
  BY <1>20 DEF Progress, Timers, GattUnready, ReadHead, ReadTail, ReadPart,
     RfConnect, RfMarks, RfWrites, RfThrows, TimerFires, TimerEnds, Timer,
     Client
<1> QED BY <1>1, <1>2, <1>3, <1>4, <1>5, <1>6, <1>7, <1>8, <1>9, <1>10,
           <1>11, <1>12, <1>13, <1>14, <1>15, <1>16, <1>17, <1>18, <1>19,
           <1>20 DEF Next, Bus, Workers, Service

LEMMA ClientTypeStep ==
  ASSUME ClientType, PlaceType, Next
  PROVE ClientType'
<1> USE DEF ClientType, clientVars
<1>1. CASE Start \/ Main \/ Crash
  BY <1>1, MainLeaves DEF Gone
<1>2. CASE \E c \in Cmd, i \in 1 .. Frags : WriteBusy(c, i)
  BY <1>2 DEF WriteBusy, Write, Refused
<1>3. CASE \E c \in Cmd, i \in 1 .. Frags : WriteWaits(c, i)
  BY <1>3 DEF WriteWaits, Write, Acked
<1>4. CASE \E c \in Cmd, i \in 1 .. Frags : WriteCompletes(c, i)
  BY <1>4 DEF WriteCompletes, Write, Refused
<1>5. CASE BusSpawns
  BY <1>5 DEF BusSpawns, Acked
<1>6. CASE BusFails
  BY <1>6 DEF BusFails, Refused
<1>7. CASE SeeLoss
  BY <1>7 DEF SeeLoss
<1>8. CASE \E c \in Cmd : RfAccept(c)
  BY <1>8 DEF RfAccept, Rf
<1>9. CASE \E told \in BOOLEAN : RfEnds(told)
  BY <1>9 DEF RfEnds, Rf
<1>10. CASE RfDrops
  BY <1>10 DEF RfDrops, Rf
<1>11. CASE RfDispatches
  BY <1>11 DEF RfDispatches, Rf, Deliver
<1>12. CASE RfSpawns
  BY <1>12 DEF RfSpawns, Rf
<1>13. CASE RfFails
  BY <1>13 DEF RfFails, Rf, Deliver
<1>14. CASE RfWaits
  BY <1>14 DEF RfWaits, Rf
<1>15. CASE RfChecks
  BY <1>15 DEF RfChecks, Rf, Deliver
<1>16. CASE copy_status
  BY <1>16 DEF copy_status, Rf, Deliver
<1>17. CASE Workers
  BY <1>17, WorkerLeaves
<1>18. CASE Service \/ ServiceDies
  BY <1>18, ServiceLeaves
<1>19. CASE BluezDies \/ BluezReturns \/ Signal
  BY <1>19, AroundLeaves
<1>20. CASE \E c \in Cmd : gatt(c)
  BY <1>20 DEF gatt, Client
<1>21. CASE \E c \in Cmd : GattUnready(c)
  BY <1>21 DEF GattUnready, Client, Outcome, Executing
<1>22. CASE \E c \in Cmd : GattFails(c)
  BY <1>22 DEF GattFails, Client, Outcome
<1>23. CASE \E c \in Cmd : ReadHead(c)
  BY <1>23 DEF ReadHead, ReadPart, Client
<1>24. CASE \E c \in Cmd : ReadTail(c)
  BY <1>24 DEF ReadTail, ReadPart, Client, Outcome
<1>25. CASE \E c \in Cmd : RfConnect(c)
  BY <1>25 DEF RfConnect, Client, Executing
<1>26. CASE \E c \in Cmd : RfMarks(c)
  BY <1>26 DEF RfMarks, Client, Executing
<1>27. CASE \E c \in Cmd : RfWrites(c)
  BY <1>27 DEF RfWrites, Client, Executing
<1>28. CASE \E c \in Cmd : RfThrows(c)
  BY <1>28 DEF RfThrows, Client, Outcome
<1>29. CASE \E c \in Cmd : TimerFires(c)
  BY <1>29 DEF TimerFires, Timer
<1>30. CASE \E c \in Cmd : TimerEnds(c)
  BY <1>30 DEF TimerEnds, Timer, Outcome
<1> QED BY <1>1, <1>2, <1>3, <1>4, <1>5, <1>6, <1>7, <1>8, <1>9, <1>10,
           <1>11, <1>12, <1>13, <1>14, <1>15, <1>16, <1>17, <1>18, <1>19,
           <1>20, <1>21, <1>22, <1>23, <1>24, <1>25, <1>26, <1>27, <1>28,
           <1>29, <1>30 DEF Next, Bus, RfServer, Progress, Timers

LEMMA ClaimType ==
  ASSUME accepted \in Seq(Cmd), NEW c, c \in Cmd, Claim(c)
  PROVE accepted' \in Seq(Cmd)
BY DEF Claim

LEMMA Others ==
  ASSUME accepted \in Seq(Cmd), BoxType
  PROVE /\ Outstanding \subseteq Cmd
        /\ \A c \in Cmd, expired \in BOOLEAN : Interrupts(c, expired) \subseteq Cmd
BY DEF Outstanding, Range, Interrupts, BoxType

LEMMA AcceptedTypeStep ==
  ASSUME accepted \in Seq(Cmd), disturbed \subseteq Cmd, BoxType, PlaceType, Next
  PROVE accepted' \in Seq(Cmd) /\ disturbed' \subseteq Cmd
<1> USE DEF history
<1>1. CASE Start \/ Main \/ Crash
  BY <1>1, MainLeaves DEF Gone
<1>2. CASE \E c \in Cmd, i \in 1 .. Frags : WriteBusy(c, i)
  BY <1>2 DEF WriteBusy, Write
<1>3. CASE \E c \in Cmd, i \in 1 .. Frags : WriteWaits(c, i)
  BY <1>3, Others DEF WriteWaits, Write
<1>4. CASE \E c \in Cmd, i \in 1 .. Frags : WriteCompletes(c, i)
  BY <1>4, ClaimType, Others DEF WriteCompletes, Write
<1>5. CASE BusSpawns
  BY <1>5 DEF BusSpawns
<1>6. CASE BusFails
  BY <1>6, Others DEF BusFails, set_failed_status
<1>7. CASE SeeLoss
  BY <1>7 DEF SeeLoss
<1>8. CASE RfDispatches
  BY <1>8, Handled, ClaimType, Others DEF RfDispatches, Rf
<1>9. CASE RfFails
  BY <1>9, Handled, Others DEF RfFails, Rf, set_failed_status
<1>10. CASE (\E c \in Cmd : RfAccept(c)) \/ RfDrops \/ RfSpawns \/ RfWaits \/ RfChecks \/ copy_status \/ RfEnds(TRUE) \/ RfEnds(FALSE)
  BY <1>10 DEF RfAccept, RfDrops, RfSpawns, RfWaits, RfChecks, copy_status,
     RfEnds, Rf
<1>11. CASE Workers
  BY <1>11, WorkerLeaves
<1>12. CASE Service \/ ServiceDies
  BY <1>12, ServiceLeaves
<1>13. CASE BluezDies \/ BluezReturns \/ Signal
  BY <1>13, AroundLeaves
<1>14. CASE \E c \in Cmd : Progress(c) \/ Timers(c)
  BY <1>14, ClientLeaves
<1> QED BY <1>1, <1>2, <1>3, <1>4, <1>5, <1>6, <1>7, <1>8, <1>9, <1>10,
           <1>11, <1>12, <1>13, <1>14 DEF Next, Bus, RfServer

LEMMA FaultsTypeStep ==
  ASSUME HistoryType, Next
  PROVE faults' \in 0 .. MaxFaults
<1>1. CASE Start \/ Main
  BY <1>1, FaultType DEF Start, Main, SetUp, start_rfcomm_server,
     publish_ready_marker, Register, StartDispatcher, EndServing,
     clear_ready_marker, stop_rfcomm_server, JoinDispatcher, Unregister,
     Exit, FaultIf, Fault
<1>2. CASE Bus
  <2>1. ASSUME NEW c \in Cmd, NEW i \in 1 .. Frags,
               WriteBusy(c, i) \/ WriteWaits(c, i) \/ WriteCompletes(c, i)
        PROVE faults' \in 0 .. MaxFaults
    <3>1. CASE WriteBusy(c, i) BY <3>1, FaultType DEF WriteBusy
    <3>2. CASE WriteWaits(c, i)
      <4>1. \E p \in BOOLEAN : FaultIf(p) BY <3>2, Zenon DEF WriteWaits
      <4> QED BY <4>1, FaultType
    <3>3. CASE WriteCompletes(c, i)
      <4>1. \E p \in BOOLEAN : FaultIf(p) BY <3>3, Zenon DEF WriteCompletes
      <4> QED BY <4>1, FaultType
    <3> QED BY <2>1, <3>1, <3>2, <3>3
  <2>2. CASE BusSpawns \/ BusFails \/ SeeLoss
    BY <2>2, FaultType DEF BusSpawns, SpawnWorker, SpawnFails, BusFails, SeeLoss
  <2> QED BY <1>2, <2>1, <2>2 DEF Bus
<1>3. CASE RfServer \/ RfEnds(FALSE)
  BY <1>3, FaultType DEF RfServer, RfDispatches, RfFails, SpawnWorker,
     SpawnFails, FaultIf, Fault, RfAccept, RfDrops, RfSpawns, RfWaits,
     RfChecks, copy_status, RfEnds, Rf
<1>4. CASE Crash \/ ServiceDies \/ BluezDies \/ Signal
  BY <1>4, FaultType DEF Crash, ServiceDies, BluezDies, Signal
<1>5. CASE Service \/ BluezReturns
  BY <1>5, FaultType DEF Service, handle_request, send_json, BluezReturns
<1>6. CASE Workers
  BY <1>6, WorkerLeaves, FaultType
<1>7. CASE \E c \in Cmd : Progress(c) \/ Timers(c)
  BY <1>7, ClientLeaves, FaultType
<1> QED BY <1>1, <1>2, <1>3, <1>4, <1>5, <1>6, <1>7 DEF Next

LEMMA DeliverType ==
  ASSUME GotType, NEW c, c \in Cmd, NEW answer, answer \in Status, Deliver(c, answer)
  PROVE GotType'
<1>1. <<answer, answer>> \in Seq(Status) BY Sequences2
<1> QED BY <1>1 DEF Deliver, GotType

LEMMA ReadTailType ==
  ASSUME GotType, BoxType, NEW c \in Cmd, ReadTail(c) PROVE GotType'
<1>1. got[c] \in Seq(Status) /\ status \in Status BY DEF GotType, BoxType
<1>2. Append(got[c], status) \in Seq(Status) /\ <<>> \in Seq(Status) BY <1>1
<1> QED BY <1>2 DEF ReadTail, GotType

LEMMA FailedRecord == ASSUME NEW c, c \in Cmd PROVE Is("failed", c) \in Status
BY Records

LEMMA GotTypeStep ==
  ASSUME GotType, BoxType, ClientType, PlaceType, Next
  PROVE GotType'
<1> USE DEF GotType, clientVars
<1>1. CASE Start \/ Main \/ Crash
  BY <1>1, MainLeaves DEF Gone
<1>2. CASE Bus
  BY <1>2, BusLeaves
<1>3. CASE RfDispatches
  BY <1>3, FailedRecord, Handled, DeliverType DEF RfDispatches, Rf
<1>4. CASE RfFails
  BY <1>4, FailedRecord, Handled, DeliverType DEF RfFails, Rf
<1>5. CASE RfChecks
  BY <1>5, FailedRecord, Handled, DeliverType DEF RfChecks, Rf
<1>6. CASE copy_status
  BY <1>6, Handled, DeliverType DEF copy_status, Rf, BoxType
<1>7. CASE (\E c \in Cmd : RfAccept(c)) \/ RfDrops \/ RfSpawns \/ RfWaits \/ RfEnds(TRUE) \/ RfEnds(FALSE)
  BY <1>7 DEF RfAccept, RfDrops, RfSpawns, RfWaits, RfEnds
<1>8. CASE Workers
  BY <1>8, WorkerLeaves
<1>9. CASE Service \/ ServiceDies
  BY <1>9, ServiceLeaves
<1>10. CASE BluezDies \/ BluezReturns \/ Signal
  BY <1>10, AroundLeaves
<1>11. CASE \E c \in Cmd : gatt(c) \/ GattUnready(c)
  BY <1>11 DEF gatt, GattUnready
<1>12. CASE \E c \in Cmd : GattFails(c)
  BY <1>12 DEF GattFails
<1>13. CASE \E c \in Cmd : ReadHead(c)
  BY <1>13 DEF ReadHead, BoxType
<1>14. CASE \E c \in Cmd : ReadTail(c)
  BY <1>14, ReadTailType
<1>15. CASE \E c \in Cmd : RfConnect(c) \/ RfMarks(c) \/ RfWrites(c) \/ RfThrows(c) \/ Timers(c)
  BY <1>15 DEF RfConnect, RfMarks, RfWrites, RfThrows, Timers, TimerFires,
     TimerEnds, Timer
<1> QED BY <1>1, <1>2, <1>3, <1>4, <1>5, <1>6, <1>7, <1>8, <1>9, <1>10,
           <1>11, <1>12, <1>13, <1>14, <1>15 DEF Next, RfServer, Progress

LEMMA TypeInit == ASSUME Init PROVE Types
<1>1. MainType BY DEF Init, MainType
<1>2. BoxType BY Records DEF Init, BoxType
<1>3. PlaceType BY Records DEF Init, PlaceType
<1>4. OutsideType
  <2>1. backlog = <<>> /\ ran = <<>> /\ serving = None BY DEF Init
  <2>2. bluez = TRUE /\ lossMsg = FALSE /\ regs = {} /\ queue = {} BY DEF Init
  <2>3. <<>> \in Seq(Cmd) OBVIOUS
  <2>4. {} \subseteq {"app", "adv"} /\ {} \subseteq Cmd \X (1 .. Frags) OBVIOUS
  <2> QED BY <2>1, <2>2, <2>3, <2>4 DEF OutsideType
<1>5. ClientType /\ GotType BY DEF Init, ClientType, GotType, Executing
<1>6. HistoryType BY DEF Init, HistoryType
<1> QED BY <1>1, <1>2, <1>3, <1>4, <1>5, <1>6 DEF Types

LEMMA TypeStep == ASSUME Types, [Next]_vars PROVE Types'
<1>1. CASE Next
  BY <1>1, MainTypeStep, BoxTypeStep, PlaceTypeStep, OutsideTypeStep, ClientTypeStep,
     GotTypeStep, AcceptedTypeStep, FaultsTypeStep DEF Types, HistoryType
<1>2. CASE UNCHANGED vars
  BY <1>2 DEF Types, MainType, BoxType, PlaceType, OutsideType, ClientType, GotType,
     HistoryType, vars, mainVars, boxVars, threadVars, serviceVars, bluezVars,
     clientVars, history
<1> QED BY <1>1, <1>2

(* Every variable of the helper, its clients and the service around them   *)
(* stays in its type.                                                      *)
THEOREM TypeCorrect == Spec => []TypeOK
<1>1. Init => Types BY TypeInit
<1>2. Types /\ [Next]_vars => Types' BY TypeStep
<1>3. Types => TypeOK BY Parts
<1> QED BY <1>1, <1>2, <1>3, PTL DEF Spec

---------------------------------------------------------------------------
(* Nothing of an earlier helper is left when one is started, and the RFCOMM *)
(* thread exists only after start_rfcomm_server.                           *)
Down == main = "down" =>
  /\ has = {} /\ bus = Idle /\ regs = {} /\ queue = {}
  /\ ~active /\ \A c \in Cmd : worker[c] = "none"
RfThread == rf.at # "none" => main \notin {"down", "setup", "rf"}

LEMMA RfThreadStep == ASSUME PlaceType, RfThread, Next PROVE RfThread'
<1> USE DEF RfThread
<1>1. CASE Main \/ Start \/ Crash
  <2>1. CASE Gone BY <2>1 DEF Gone, NoThread, At
  <2>2. CASE start_rfcomm_server BY <2>2 DEF start_rfcomm_server, Step, At
  <2>3. CASE UNCHANGED rf /\ ~Gone
    BY <1>1, <2>3 DEF Main, Start, Crash, SetUp, publish_ready_marker, Register,
      StartDispatcher, EndServing, clear_ready_marker, stop_rfcomm_server,
      JoinDispatcher, Unregister, Exit, start_rfcomm_server, Step
  <2> QED BY <1>1, <2>1, <2>2, <2>3, MainLeaves
<1>2. CASE Bus BY <1>2, BusLeaves
<1>3. CASE RfServer \/ RfEnds(FALSE)
  <2>1. main' = main BY <1>3, RfLeaves DEF mainVars
  <2>2. rf.at # "none"
    BY <1>3 DEF RfServer, RfAccept, RfEnds, RfDrops, RfDispatches, RfSpawns, RfFails,
      RfWaits, RfChecks, copy_status, Rf
  <2> QED BY <2>1, <2>2
<1>4. CASE Workers BY <1>4, WorkerLeaves DEF mainVars
<1>5. CASE Service \/ ServiceDies BY <1>5, ServiceLeaves DEF mainVars
<1>6. CASE BluezDies \/ BluezReturns \/ Signal BY <1>6, AroundLeaves DEF threadVars
<1>7. CASE \E c \in Cmd : Progress(c) \/ Timers(c)
  BY <1>7, ClientLeaves DEF mainVars, threadVars
<1> QED BY <1>1, <1>2, <1>3, <1>4, <1>5, <1>6, <1>7 DEF Next

LEMMA BusNeeds ==
  ASSUME Bus PROVE Served \/ bus.at = "spawn" \/ bus.at = "failing"
<1>1. CASE \E c \in Cmd, i \in 1 .. Frags :
             WriteBusy(c, i) \/ WriteWaits(c, i) \/ WriteCompletes(c, i)
  <2>1. PICK c \in Cmd, i \in 1 .. Frags :
            WriteBusy(c, i) \/ WriteWaits(c, i) \/ WriteCompletes(c, i)
    BY <1>1
  <2>2. Write(c, i) BY <2>1, Zenon DEF WriteBusy, WriteWaits, WriteCompletes
  <2> QED BY <2>2 DEF Write
<1>2. CASE BusSpawns \/ BusFails \/ SeeLoss BY <1>2 DEF BusSpawns, BusFails, SeeLoss
<1> QED BY <1>1, <1>2 DEF Bus

(* A helper that is not there does nothing. *)
LEMMA DownStep == ASSUME Types, RfThread, Down, Next PROVE Down'
<1> SUFFICES ASSUME main' = "down"
             PROVE /\ has' = {} /\ bus' = Idle /\ regs' = {} /\ queue' = {}
                   /\ active' = FALSE /\ \A c \in Cmd : worker'[c] = "none"
  BY DEF Down
<1>1. CASE Main \/ Start \/ Crash
  <2>1. Gone
    BY <1>1 DEF Main, Start, Crash, SetUp, publish_ready_marker, Register,
      StartDispatcher, EndServing, clear_ready_marker, stop_rfcomm_server,
      JoinDispatcher, Unregister, Exit, start_rfcomm_server, Step
  <2> QED BY <2>1 DEF Gone
<1>2. CASE Bus
  <2>1. main = "down" BY <1>2, BusLeaves
  <2>2. ~Served /\ bus.at = "idle"
    BY <2>1 DEF Down, Served, InCall, Idle, At
  <2>3. FALSE
    BY <1>2, <2>2, BusNeeds
  <2> QED BY <2>3
<1>3. CASE RfServer \/ RfEnds(FALSE)
  <2>1. main = "down" BY <1>3, RfLeaves DEF mainVars
  <2>2. rf.at = "none" BY <2>1 DEF RfThread
  <2> QED
    BY <1>3, <2>2 DEF RfServer, RfAccept, RfEnds, RfDrops, RfDispatches, RfSpawns, RfFails,
      RfWaits, RfChecks, copy_status, Rf
<1>4. CASE Workers
  <2>1. main = "down" BY <1>4, WorkerLeaves DEF mainVars
  <2>2. \A c \in Cmd : worker[c] = "none" BY <2>1 DEF Down
  <2>3. FALSE BY <1>4, <2>2 DEF Workers, http_request, WorkerReports, WorkerEnds, Worker
  <2> QED BY <2>3
<1>5. CASE Service \/ ServiceDies
  <2>1. /\ main = "down" /\ UNCHANGED <<has, bus, regs, queue, active>>
    BY <1>5, ServiceLeaves DEF mainVars, boxVars, bluezVars
  <2>2. \A c \in Cmd : worker'[c] = "none"
    BY <1>5, <2>1 DEF Down, Types, OutsideType, PlaceType, Service, handle_request, send_json, ServiceDies
  <2> QED BY <2>1, <2>2 DEF Down
<1>6. CASE BluezDies \/ BluezReturns \/ Signal
  <2>1. UNCHANGED <<main, has, bus, worker, active>>
    BY <1>6, AroundLeaves DEF threadVars, boxVars
  <2>2. (regs' = {} /\ queue' = {}) \/ UNCHANGED <<regs, queue>>
    BY <1>6 DEF BluezDies, BluezReturns, Signal, bluezVars
  <2> QED BY <2>1, <2>2 DEF Down
<1>7. CASE \E c \in Cmd : Progress(c) \/ Timers(c)
  <2>1. PICK c \in Cmd : Progress(c) \/ Timers(c) BY <1>7
  <2>2. UNCHANGED <<main, has, bus, worker, active, regs>>
    BY <2>1, ClientLeaves DEF mainVars, threadVars, boxVars
  <2>3. queue' = {}
    <3>1. "app" \notin regs /\ queue = {} BY <2>2 DEF Down
    <3> QED
      BY <2>1, <3>1 DEF Progress, Timers, gatt, GattUnready, GattFails, ReadHead,
        ReadTail, ReadPart, RfConnect, RfMarks, RfWrites, RfThrows, TimerFires,
        TimerEnds, Timer, bluezVars
  <2> QED BY <2>2, <2>3 DEF Down
<1> QED BY <1>1, <1>2, <1>3, <1>4, <1>5, <1>6, <1>7 DEF Next

(* One command in progress, or none. *)
Busy == IF active THEN \E x : InProgress = {x} ELSE InProgress = {}

LEMMA Members ==
  ASSUME PlaceType
  PROVE \A x : x \in InProgress <=> \E c \in Cmd :
          \/ x = <<"worker", c>> /\ worker[c] # "none"
          \/ x = <<"bus", c>> /\ bus.at = "spawn" /\ bus.cmd = c
          \/ x = <<"rf", c>> /\ rf.at = "spawn" /\ rf.cmd = c
BY DEF InProgress, PlaceType, At, Idle

(* What does not start, hand over or end a command leaves it in progress.  *)
LEMMA SameProgress ==
  ASSUME PlaceType, PlaceType', Busy, active' = active,
         \A c \in Cmd : worker'[c] = "none" <=> worker[c] = "none",
         bus' = bus \/ (bus.at # "spawn" /\ bus'.at # "spawn"),
         rf' = rf \/ (rf.at # "spawn" /\ rf'.at # "spawn")
  PROVE Busy'
<1>1. \A x : x \in InProgress' <=> \E c \in Cmd :
          \/ x = <<"worker", c>> /\ worker'[c] # "none"
          \/ x = <<"bus", c>> /\ bus'.at = "spawn" /\ bus'.cmd = c
          \/ x = <<"rf", c>> /\ rf'.at = "spawn" /\ rf'.cmd = c
  BY DEF InProgress, PlaceType, At, Idle
<1>2. \A x : x \in InProgress' <=> x \in InProgress BY <1>1, Members
<1> QED BY <1>2 DEF Busy

(* The command in the hands of one thread is the one the flag is up for.   *)
LEMMA Alone ==
  ASSUME PlaceType, Busy
  PROVE /\ \A c \in Cmd : worker[c] # "none" => active /\ InProgress = {<<"worker", c>>}
        /\ bus.at = "spawn" => active /\ InProgress = {<<"bus", bus.cmd>>}
        /\ rf.at = "spawn" => active /\ InProgress = {<<"rf", rf.cmd>>}
<1>1. \A c \in Cmd : worker[c] # "none" => <<"worker", c>> \in InProgress BY Members
<1>2. bus.at = "spawn" => <<"bus", bus.cmd>> \in InProgress BY Members, Handled
<1>3. rf.at = "spawn" => <<"rf", rf.cmd>> \in InProgress BY Members, Handled
<1> QED BY <1>1, <1>2, <1>3 DEF Busy

(* A claim is made when nothing is in progress. *)
LEMMA ClaimBusy ==
  ASSUME PlaceType, PlaceType', Busy, ~active, active', NEW c \in Cmd, worker' = worker,
         \/ bus.at # "spawn" /\ bus' = At("spawn", c) /\ UNCHANGED rf
         \/ rf.at # "spawn" /\ rf' = At("spawn", c) /\ UNCHANGED bus
  PROVE Busy'
<1>1. InProgress = {} BY DEF Busy
<1>2. /\ \A d \in Cmd : worker[d] = "none"
      /\ bus.at # "spawn" /\ rf.at # "spawn"
  BY <1>1, Alone
<1>3. \A x : x \in InProgress' <=> \E d \in Cmd :
          \/ x = <<"worker", d>> /\ worker'[d] # "none"
          \/ x = <<"bus", d>> /\ bus'.at = "spawn" /\ bus'.cmd = d
          \/ x = <<"rf", d>> /\ rf'.at = "spawn" /\ rf'.cmd = d
  BY DEF InProgress, PlaceType, At, Idle
<1>4. CASE bus' = At("spawn", c) /\ UNCHANGED rf
  <2>1. InProgress' = {<<"bus", c>>} BY <1>2, <1>3, <1>4 DEF At
  <2> QED BY <2>1 DEF Busy
<1>5. CASE rf' = At("spawn", c) /\ UNCHANGED bus
  <2>1. InProgress' = {<<"rf", c>>} BY <1>2, <1>3, <1>5 DEF At
  <2> QED BY <2>1 DEF Busy
<1> QED BY <1>4, <1>5

(* The command goes to a worker, or it ends. *)
LEMMA HandOver ==
  ASSUME PlaceType, PlaceType', Busy, NEW c \in Cmd,
         \/ bus = At("spawn", c) /\ bus'.at # "spawn" /\ UNCHANGED rf
         \/ rf = At("spawn", c) /\ rf'.at # "spawn" /\ UNCHANGED bus,
         \/ worker' = [worker EXCEPT ![c] = "start"] /\ active' = active
         \/ worker' = worker /\ ~active'
  PROVE Busy'
<1>1. active /\ (InProgress = {<<"bus", c>>} \/ InProgress = {<<"rf", c>>})
  BY Alone DEF At
<1>2. /\ \A d \in Cmd : worker[d] = "none"
      /\ bus.at # "spawn" \/ rf.at # "spawn"
  <2>1. ASSUME NEW d \in Cmd PROVE worker[d] = "none"
    <3>1. <<"worker", d>> \notin InProgress BY <1>1
    <3> QED BY <3>1, Members
  <2>2. ASSUME bus.at = "spawn", rf.at = "spawn" PROVE FALSE
    <3>1. <<"bus", bus.cmd>> \in InProgress /\ <<"rf", rf.cmd>> \in InProgress
      BY <2>2, Members, Handled
    <3> QED BY <1>1, <3>1
  <2> QED BY <2>1, <2>2
<1>3. \A x : x \in InProgress' <=> \E d \in Cmd :
          \/ x = <<"worker", d>> /\ worker'[d] # "none"
          \/ x = <<"bus", d>> /\ bus'.at = "spawn" /\ bus'.cmd = d
          \/ x = <<"rf", d>> /\ rf'.at = "spawn" /\ rf'.cmd = d
  BY DEF InProgress, PlaceType, At, Idle
<1>4. bus'.at # "spawn" /\ rf'.at # "spawn" BY <1>2 DEF At
<1>5. CASE worker' = [worker EXCEPT ![c] = "start"] /\ active' = active
  <2>1. InProgress' = {<<"worker", c>>} BY <1>2, <1>3, <1>4, <1>5 DEF PlaceType
  <2> QED BY <2>1, <1>1, <1>5 DEF Busy
<1>6. CASE worker' = worker /\ ~active'
  <2>1. InProgress' = {} BY <1>2, <1>3, <1>4, <1>6
  <2> QED BY <2>1, <1>6 DEF Busy
<1> QED BY <1>5, <1>6

LEMMA BusyStep ==
  ASSUME Types, PlaceType', RfThread, Down, Busy, Next
  PROVE Busy'
<1> USE DEF Types
<1>1. CASE Main \/ Start \/ Crash
  <2>1. CASE Gone
    <3>1. ~active' /\ InProgress' = {} BY <2>1 DEF Gone, InProgress, Idle, NoThread, At
    <3> QED BY <3>1 DEF Busy
  <2>2. CASE start_rfcomm_server
    <3>1. rf.at = "none" BY <2>2 DEF start_rfcomm_server, Step, RfThread
    <3> QED BY <2>2, <3>1, SameProgress DEF start_rfcomm_server, At, boxVars
  <2>3. CASE UNCHANGED <<active, worker, bus, rf>> BY <2>3, SameProgress
  <2> QED BY <1>1, <2>1, <2>2, <2>3, MainLeaves DEF boxVars
<1>2. CASE Bus
  <2>1. rf' = rf BY <1>2, BusLeaves
  <2>2. CASE \E c \in Cmd, i \in 1 .. Frags : WriteBusy(c, i) \/ WriteWaits(c, i)
    BY <2>1, <2>2, SameProgress DEF WriteBusy, WriteWaits, boxVars
  <2>3. ASSUME NEW c \in Cmd, NEW i \in 1 .. Frags, WriteCompletes(c, i) PROVE Busy'
    <3>1. bus.at # "spawn" BY <2>3 DEF WriteCompletes, Write, Served, Idle, At
    <3>2. \/ Claim(c) /\ bus' = At("spawn", c) /\ UNCHANGED worker
          \/ UNCHANGED <<active, bus, worker>>
      BY <2>3, Zenon DEF WriteCompletes, boxVars
    <3>3. CASE Claim(c) /\ bus' = At("spawn", c) /\ UNCHANGED worker
      BY <2>1, <3>1, <3>3, ClaimBusy DEF Claim
    <3>4. CASE UNCHANGED <<active, bus, worker>> BY <2>1, <3>4, SameProgress
    <3> QED BY <3>2, <3>3, <3>4
  <2>4. CASE BusSpawns
    BY <2>1, <2>4, Handled, HandOver
       DEF BusSpawns, SpawnWorker, SpawnFails, Idle, At, PlaceType
  <2>5. CASE BusFails
    BY <2>1, <2>5, SameProgress DEF BusFails, set_failed_status, Idle, At
  <2>6. CASE SeeLoss BY <2>1, <2>6, SameProgress DEF SeeLoss, boxVars, threadVars
  <2> QED BY <1>2, <2>2, <2>3, <2>4, <2>5, <2>6 DEF Bus
<1>3. CASE RfServer \/ RfEnds(FALSE)
  <2>1. bus' = bus BY <1>3, RfLeaves
  <2>2. CASE RfDispatches
    <3>1. rf.at = "recv" /\ rf.cmd \in Cmd BY <2>2, Handled DEF RfDispatches, Rf
    <3>2. CASE rf' = At("spawn", rf.cmd) /\ Claim(rf.cmd)
      BY <2>1, <2>2, <3>1, <3>2, ClaimBusy DEF RfDispatches, Rf, Claim
    <3>3. CASE rf' = NextClient /\ UNCHANGED active
      BY <2>1, <2>2, <3>1, <3>3, SameProgress DEF RfDispatches, Rf, NextClient, At
    <3> QED BY <2>2, <3>2, <3>3 DEF RfDispatches, Rf, boxVars
  <2>3. CASE RfSpawns
    BY <2>1, <2>3, Handled, HandOver
       DEF RfSpawns, Rf, SpawnWorker, SpawnFails, At, PlaceType, RfPlaces
  <2>4. CASE ~RfDispatches /\ ~RfSpawns
    <3>1. UNCHANGED <<active, worker>> /\ rf.at # "spawn" /\ rf'.at # "spawn"
      BY <1>3, <2>4 DEF RfServer, RfAccept, RfEnds, RfDrops, RfFails, RfWaits, RfChecks,
        copy_status, Rf, NextClient, At, boxVars
    <3> QED BY <2>1, <3>1, SameProgress
  <2> QED BY <2>2, <2>3, <2>4
<1>4. CASE Workers
  <2>1. bus' = bus /\ rf' = rf BY <1>4, WorkerLeaves
  <2>2. ASSUME NEW c \in Cmd, http_request(c) \/ WorkerReports(c) PROVE Busy'
    BY <2>1, <2>2, SameProgress
       DEF http_request, WorkerReports, Worker, boxVars, PlaceType
  <2>3. ASSUME NEW c \in Cmd, WorkerEnds(c) PROVE Busy'
    <3>1. worker[c] = "reported" /\ worker' = [worker EXCEPT ![c] = "none"] /\ ~active'
      BY <2>3 DEF WorkerEnds, Worker
    <3>2. InProgress = {<<"worker", c>>} BY <3>1, Alone
    <3>3. \A x : x \in InProgress' <=> \E d \in Cmd :
              \/ x = <<"worker", d>> /\ worker'[d] # "none"
              \/ x = <<"bus", d>> /\ bus'.at = "spawn" /\ bus'.cmd = d
              \/ x = <<"rf", d>> /\ rf'.at = "spawn" /\ rf'.cmd = d
      BY DEF InProgress, PlaceType, At, Idle
    <3>4. \A x : x \in InProgress' => x \in InProgress
      BY <2>1, <3>1, <3>3, Members DEF PlaceType
    <3>5. <<"worker", c>> \notin InProgress' BY <3>1, <3>3 DEF PlaceType
    <3>6. InProgress' = {} BY <3>2, <3>4, <3>5
    <3> QED BY <3>1, <3>6 DEF Busy
  <2> QED BY <1>4, <2>2, <2>3 DEF Workers
<1>5. CASE Service \/ ServiceDies
  BY <1>5, ServiceLeaves, SameProgress
     DEF Service, handle_request, send_json, ServiceDies, OutsideType, PlaceType, boxVars
<1>6. CASE BluezDies \/ BluezReturns \/ Signal
  BY <1>6, AroundLeaves, SameProgress DEF threadVars, boxVars
<1>7. CASE \E c \in Cmd : Progress(c) \/ Timers(c)
  BY <1>7, ClientLeaves, SameProgress DEF threadVars, boxVars
<1> QED BY <1>1, <1>2, <1>3, <1>4, <1>5, <1>6, <1>7 DEF Next

Base == Types /\ RfThread /\ Down /\ Busy

LEMMA BaseHolds == Spec => []Base
<1>1. ASSUME Init PROVE Base
  <2>1. RfThread /\ Down BY <1>1 DEF Init, RfThread, Down, NoThread, At
  <2>2. InProgress = {} /\ ~active
    BY <1>1 DEF Init, InProgress, NoThread, Idle, At
  <2> QED BY <1>1, <2>1, <2>2, TypeInit DEF Base, Busy
<1>2. ASSUME Base, [Next]_vars PROVE Base'
  <2>1. CASE Next
    BY <1>2, <2>1, TypeStep, RfThreadStep, DownStep, BusyStep DEF Base, Types
  <2>2. CASE UNCHANGED vars
    BY <1>2, <2>2, TypeStep
       DEF Base, RfThread, Down, Busy, InProgress, vars, mainVars, boxVars, threadVars,
         bluezVars
  <2> QED BY <1>2, <2>1, <2>2
<1> QED BY <1>1, <1>2, PTL DEF Spec

(* The busy flag is up exactly while one thread holds one command.         *)
THEOREM BusyHolds == Spec => []BusyIsOwned
<1>1. ASSUME Busy PROVE BusyIsOwned
  <2>1. Cardinality({}) = 0 BY FS_EmptySet
  <2>2. \A x : Cardinality({x}) = 1 BY FS_Singleton
  <2> QED BY <1>1, <2>1, <2>2 DEF Busy, BusyIsOwned
<1>2. Base => BusyIsOwned BY <1>1 DEF Base
<1> QED BY <1>2, BaseHolds, PTL

---------------------------------------------------------------------------
(* What a client knows of its command: nothing of it has left the client   *)
(* before wrote is set, it is on its way at most once, and what was        *)
(* accepted is nowhere on its way any more.                                *)
Unreached(c) ==
  c \notin Range(accepted) /\ c \notin sent /\ \A i \in 1 .. Frags : <<c, i>> \notin queue
ReachOf(c) ==
  /\ ~wrote[c] => Unreached(c)
  /\ ph[c] \in {"gatt", "connect", "marking"} => ~wrote[c]
  /\ ph[c] \in {"write", "poll", "tail", "writing", "await"} => wrote[c]
  /\ ph[c] = "writing" => Unreached(c)
  /\ c \in sent =>
       c \notin Range(accepted) /\ \A i \in 1 .. Frags : <<c, i>> \notin queue
  /\ \A i \in 1 .. Frags : <<c, i>> \in queue =>
       c \notin Range(accepted) /\ \A j \in 1 .. Frags : <<c, j>> \in queue => i = j
  /\ timer[c] # "armed" => ph[c] \in Executing \cup {"over"}
  /\ res[c] = "failed" => Unreached(c) /\ (ph[c] = "over" \/ timer[c] = "closed")
Reach == \A c \in Cmd : ReachOf(c)

(* Nothing more of c is on its way.                                        *)
NoMore(c) ==
  /\ c \in Range(accepted') => c \in Range(accepted)
  /\ c \in sent' => c \in sent
  /\ \A i \in 1 .. Frags : <<c, i>> \in queue' => <<c, i>> \in queue
(* The moves of a client that send nothing.                                *)
Moves(c) ==
  /\ wrote'[c] = wrote[c]
  /\ \/ ph'[c] = ph[c] \/ ph'[c] = "over"
     \/ {ph[c], ph'[c]} \subseteq {"write", "poll", "tail"}
     \/ {ph[c], ph'[c]} \subseteq {"gatt", "connect", "marking"} /\ timer[c] = "armed"
  /\ \/ timer'[c] = timer[c]
     \/ ph[c] \in Executing \cup {"over"} /\ ph'[c] = ph[c] /\ timer[c] # "closed"
  /\ \/ res'[c] = res[c] \/ res'[c] \in {"unknown", "reply"}
     \/ res'[c] = "failed" /\ ~wrote[c] /\ (ph'[c] = "over" \/ timer'[c] = "closed")

LEMMA MovesReach ==
  ASSUME NEW c \in Cmd, ClientType, ReachOf(c), NoMore(c), Moves(c)
  PROVE ReachOf(c)'
<1> USE DEF ReachOf, NoMore, Moves
<1>1. Unreached(c) => Unreached(c)' BY DEF Unreached
<1>2. res'[c] = "failed" => Unreached(c)' /\ (ph'[c] = "over" \/ timer'[c] = "closed")
  BY <1>1 DEF ClientType
<1>3. /\ ~wrote'[c] => Unreached(c)'
      /\ ph'[c] \in {"gatt", "connect", "marking"} => ~wrote'[c]
      /\ ph'[c] \in {"write", "poll", "tail", "writing", "await"} => wrote'[c]
      /\ ph'[c] = "writing" => Unreached(c)'
      /\ timer'[c] # "armed" => ph'[c] \in Executing \cup {"over"}
  BY <1>1 DEF ClientType, Executing
<1>4. /\ c \in sent' =>
           c \notin Range(accepted') /\ \A i \in 1 .. Frags : <<c, i>> \notin queue'
      /\ \A i \in 1 .. Frags : <<c, i>> \in queue' =>
           c \notin Range(accepted') /\ \A j \in 1 .. Frags : <<c, j>> \in queue' => i = j
  OBVIOUS
<1> QED BY <1>2, <1>3, <1>4

(* What a claim of c and a write by c do to the other commands.            *)
LEMMA RangeAppend ==
  ASSUME NEW S, NEW s \in Seq(S), NEW e \in S
  PROVE Range(Append(s, e)) = Range(s) \cup {e}
<1> DEFINE t == Append(s, e)
<1>1. DOMAIN s = 1 .. Len(s) /\ DOMAIN t = 1 .. Len(s) + 1 /\ Len(s) \in Nat OBVIOUS
<1>2. t[Len(s) + 1] = e /\ \A i \in 1 .. Len(s) : t[i] = s[i] OBVIOUS
<1> HIDE DEF t
<1>3. DOMAIN t = DOMAIN s \cup {Len(s) + 1} BY <1>1
<1>4. Range(t) \subseteq Range(s) \cup {e} BY <1>1, <1>2, <1>3 DEF Range
<1>5. Range(s) \cup {e} \subseteq Range(t) BY <1>1, <1>2, <1>3 DEF Range
<1> QED BY <1>4, <1>5 DEF t

LEMMA ReachStep == ASSUME Types, Reach, Next PROVE Reach'
<1> USE DEF Types
<1>0. ASSUME UNCHANGED <<ph, wrote, timer, res, accepted>>, sent' \subseteq sent,
             queue' \subseteq queue
      PROVE Reach'
  BY <1>0, MovesReach DEF Reach, Moves, NoMore
<1>1. CASE Main \/ Start \/ Crash
  BY <1>0, <1>1, MainLeaves DEF Gone, clientVars, history
<1>2. CASE Bus
  <2>0. UNCHANGED <<wrote, timer, sent>> BY <1>2, BusLeaves
  <2>1. ASSUME NEW c \in Cmd, NEW i \in 1 .. Frags, WriteBusy(c, i) PROVE Reach'
    <3>1. queue' \subseteq queue /\ accepted' = accepted /\ Refused(c)
      BY <2>1 DEF WriteBusy, history
    <3> QED BY <2>0, <3>1, MovesReach DEF Reach, Moves, NoMore, Refused, ClientType
  <2>2. ASSUME NEW c \in Cmd, NEW i \in 1 .. Frags, WriteWaits(c, i) PROVE Reach'
    <3>1. /\ <<c, i>> \in queue /\ Acked(c, i, queue \ {<<c, i>>})
          /\ UNCHANGED <<accepted, res>>
      BY <2>2, Zenon DEF WriteWaits, Write
    <3>2. CASE queue' = queue \ {<<c, i>>}
      BY <2>0, <3>1, <3>2, MovesReach DEF Reach, Moves, NoMore, Acked, ClientType
    <3>3. CASE ph[c] = "write" /\ i < Frags
      <4>1. queue' = (queue \ {<<c, i>>}) \cup {<<c, i + 1>>} /\ ph' = ph
        BY <3>1, <3>3 DEF Acked
      <4>2. ASSUME NEW d \in Cmd \ {c} PROVE ReachOf(d)'
        BY <2>0, <3>1, <4>1, <4>2, MovesReach DEF Reach, Moves, NoMore
      <4>3. ReachOf(c)'
        <5>1. ReachOf(c) /\ ~Unreached(c) /\ c \notin Range(accepted) /\ wrote[c]
          BY <3>1, <3>3 DEF Reach, ReachOf, Unreached
        <5>2. \A j \in 1 .. Frags : <<c, j>> \in queue' => j = i + 1
          BY <3>1, <4>1, <5>1 DEF ReachOf
        <5> QED BY <2>0, <3>1, <3>3, <4>1, <5>1, <5>2 DEF ReachOf
      <4> QED BY <4>2, <4>3 DEF Reach
    <3> QED BY <3>1, <3>2, <3>3 DEF Acked
  <2>3. ASSUME NEW c \in Cmd, NEW i \in 1 .. Frags, WriteCompletes(c, i) PROVE Reach'
    <3>1. /\ <<c, i>> \in queue /\ queue' = queue \ {<<c, i>>}
          /\ \/ Claim(c) /\ UNCHANGED <<ph, res>>
             \/ Refused(c) /\ UNCHANGED accepted
      BY <2>3, Zenon DEF WriteCompletes, Write
    <3>2. CASE Refused(c) /\ UNCHANGED accepted
      BY <2>0, <3>1, <3>2, MovesReach DEF Reach, Moves, NoMore, Refused, ClientType
    <3>3. CASE Claim(c) /\ UNCHANGED <<ph, res>>
      <4>1. Range(accepted') = Range(accepted) \cup {c}
        BY <3>3, RangeAppend DEF Claim, HistoryType
      <4>2. ASSUME NEW d \in Cmd \ {c} PROVE ReachOf(d)'
        BY <2>0, <3>1, <3>3, <4>1, MovesReach DEF Reach, Moves, NoMore
      <4>3. ReachOf(c)'
        <5>1. ReachOf(c) /\ ~Unreached(c) BY <3>1 DEF Reach, Unreached
        <5>2. \A j \in 1 .. Frags : <<c, j>> \notin queue'
          BY <3>1, <5>1 DEF ReachOf
        <5>3. c \notin sent BY <3>1, <5>1 DEF ReachOf
        <5> QED BY <2>0, <3>3, <5>1, <5>2, <5>3 DEF ReachOf
      <4> QED BY <4>2, <4>3 DEF Reach
    <3> QED BY <3>1, <3>2, <3>3
  <2>4. CASE BusSpawns
    <3>1. \/ UNCHANGED <<ph, queue>> \/ Acked(bus.cmd, Frags, queue)
      BY <2>4 DEF BusSpawns
    <3>2. UNCHANGED <<accepted, res, queue>> /\ bus.cmd \in Cmd
      BY <2>4, <3>1, Handled DEF BusSpawns, history, Acked
    <3> QED BY <2>0, <3>1, <3>2, MovesReach DEF Reach, Moves, NoMore, Acked, ClientType
  <2>5. CASE BusFails
    <3>1. UNCHANGED <<accepted, queue>> /\ bus.cmd \in Cmd /\ Refused(bus.cmd)
      BY <2>5, Handled DEF BusFails, bluezVars
    <3> QED BY <2>0, <3>1, MovesReach DEF Reach, Moves, NoMore, Refused, ClientType
  <2>6. CASE SeeLoss BY <1>0, <2>6 DEF SeeLoss, clientVars, history
  <2> QED BY <1>2, <2>1, <2>2, <2>3, <2>4, <2>5, <2>6 DEF Bus
<1>3. CASE RfServer \/ RfEnds(FALSE)
  <2>0. UNCHANGED <<wrote, timer, queue>> BY <1>3, RfLeaves DEF bluezVars
  <2>1. ASSUME NEW c \in Cmd, NEW answer, Deliver(c, answer), accepted' = accepted,
               sent' \subseteq sent
        PROVE Reach'
    BY <2>0, <2>1, MovesReach DEF Reach, Moves, NoMore, Deliver, ClientType
  <2>2. CASE RfDispatches
    <3>1. rf.cmd \in Cmd /\ rf.cmd \in sent /\ sent' = sent \ {rf.cmd}
      BY <2>2, Handled DEF RfDispatches, Rf
    <3>2. ASSUME NEW c \in Cmd, c = rf.cmd, Claim(c), UNCHANGED <<ph, res>> PROVE Reach'
      <4>1. Range(accepted') = Range(accepted) \cup {c}
        BY <3>2, RangeAppend DEF Claim, HistoryType
      <4>2. ASSUME NEW d \in Cmd \ {c} PROVE ReachOf(d)'
        BY <2>0, <3>1, <3>2, <4>1, MovesReach DEF Reach, Moves, NoMore
      <4>3. ReachOf(c)'
        <5>1. ReachOf(c) /\ ~Unreached(c) /\ c \in sent BY <3>1, <3>2 DEF Reach, Unreached
        <5>2. c \notin sent' BY <3>1, <3>2
        <5> QED BY <2>0, <3>2, <5>1, <5>2 DEF ReachOf
      <4> QED BY <4>2, <4>3 DEF Reach
    <3>3. CASE Deliver(rf.cmd, Is("failed", rf.cmd)) /\ UNCHANGED accepted
      BY <2>1, <3>1, <3>3
    <3> QED BY <2>2, <3>1, <3>2, <3>3 DEF RfDispatches, history
  <2>3. CASE RfFails BY <2>1, <2>3, Handled DEF RfFails, Rf
  <2>4. CASE RfChecks \/ copy_status
    <3>1. /\ rf.cmd \in Cmd /\ accepted' = accepted /\ sent' = sent
          /\ UNCHANGED <<ph, res>> \/ \E answer : Deliver(rf.cmd, answer)
      BY <2>4, Handled DEF RfChecks, copy_status, Rf, history
    <3> QED BY <1>0, <2>0, <2>1, <3>1
  <2>5. CASE (\E c \in Cmd : RfAccept(c)) \/ RfDrops \/ RfSpawns \/ RfWaits
             \/ RfEnds(TRUE) \/ RfEnds(FALSE)
    <3>1. UNCHANGED <<ph, res, accepted, sent>>
      BY <2>5 DEF RfAccept, RfDrops, RfSpawns, RfWaits, RfEnds, history
    <3> QED BY <1>0, <2>0, <3>1
  <2> QED BY <1>3, <2>2, <2>3, <2>4, <2>5 DEF RfServer
<1>4. CASE Workers BY <1>0, <1>4, WorkerLeaves DEF clientVars, history, bluezVars
<1>5. CASE Service \/ ServiceDies
  BY <1>0, <1>5, ServiceLeaves DEF clientVars, history, bluezVars
<1>6. CASE BluezDies \/ BluezReturns \/ Signal
  <2>1. queue' \subseteq queue BY <1>6 DEF BluezDies, BluezReturns, Signal, bluezVars
  <2> QED BY <1>0, <1>6, <2>1, AroundLeaves DEF clientVars, history
<1>7. ASSUME NEW c \in Cmd, Progress(c) \/ Timers(c) PROVE Reach'
  <2>0. accepted' = accepted BY <1>7, ClientLeaves DEF history
  <2>1. ASSUME NoMore(c), Moves(c),
               \A d \in Cmd \ {c} : NoMore(d) /\ Moves(d)
        PROVE Reach'
    BY <2>1, MovesReach DEF Reach
  <2>2. CASE gatt(c)
    <3>1. /\ queue' = queue \cup {<<c, 1>>} /\ UNCHANGED <<timer, res, sent>>
          /\ wrote' = [wrote EXCEPT ![c] = TRUE] /\ ph' = [ph EXCEPT ![c] = "write"]
          /\ ph[c] = "gatt"
      BY <2>2 DEF gatt, Client
    <3>2. ASSUME NEW d \in Cmd \ {c} PROVE ReachOf(d)'
      BY <2>0, <3>1, MovesReach DEF Reach, Moves, NoMore, ClientType
    <3>3. ReachOf(c)'
      <4>1. ReachOf(c) /\ Unreached(c) /\ timer[c] = "armed" /\ res[c] # "failed"
        BY <3>1 DEF Reach, ReachOf, Executing, ClientType
      <4>2. \A j \in 1 .. Frags : <<c, j>> \in queue' => j = 1
        BY <3>1, <4>1 DEF Unreached
      <4>3. ph'[c] = "write" /\ wrote'[c] BY <3>1 DEF ClientType
      <4> QED BY <2>0, <3>1, <4>1, <4>2, <4>3 DEF ReachOf, Unreached
    <3> QED BY <3>2, <3>3 DEF Reach
  <2>3. CASE RfMarks(c)
    <3>1. /\ UNCHANGED <<timer, res, sent, queue>> /\ ph[c] = "marking"
          /\ wrote' = [wrote EXCEPT ![c] = TRUE] /\ ph' = [ph EXCEPT ![c] = "writing"]
      BY <2>3 DEF RfMarks, Client
    <3>2. ASSUME NEW d \in Cmd \ {c} PROVE ReachOf(d)'
      BY <2>0, <3>1, MovesReach DEF Reach, Moves, NoMore, ClientType
    <3>3. ReachOf(c)'
      <4>1. ReachOf(c) /\ Unreached(c) BY <3>1 DEF Reach, ReachOf
      <4>2. ph'[c] = "writing" /\ wrote'[c] BY <3>1 DEF ClientType
      <4> QED BY <2>0, <3>1, <4>1, <4>2 DEF ReachOf, Unreached, Executing
    <3> QED BY <3>2, <3>3 DEF Reach
  <2>4. CASE RfWrites(c)
    <3>1. /\ UNCHANGED <<timer, res, wrote, queue>> /\ ph[c] = "writing"
          /\ sent' = sent \cup {c} /\ ph' = [ph EXCEPT ![c] = "await"]
          /\ timer[c] # "closed"
      BY <2>4 DEF RfWrites, Client, SocketOpen
    <3>2. ASSUME NEW d \in Cmd \ {c} PROVE ReachOf(d)'
      BY <2>0, <3>1, MovesReach DEF Reach, Moves, NoMore, ClientType
    <3>3. ReachOf(c)'
      <4>1. ReachOf(c) /\ Unreached(c) /\ wrote[c] /\ res[c] # "failed"
        BY <3>1 DEF Reach, ReachOf
      <4>2. ph'[c] = "await" BY <3>1 DEF ClientType
      <4> QED BY <2>0, <3>1, <4>1, <4>2 DEF ReachOf, Unreached, Executing
    <3> QED BY <3>2, <3>3 DEF Reach
  <2>5. CASE GattUnready(c)
    <3>1. ~wrote[c] /\ timer[c] = "armed"
      BY <2>5 DEF GattUnready, Client, Reach, ReachOf, Executing
    <3> QED BY <2>0, <2>1, <2>5, <3>1
            DEF GattUnready, Client, Outcome, NoMore, Moves, ClientType
  <2>6. CASE GattFails(c)
    BY <2>0, <2>1, <2>6 DEF GattFails, Client, Outcome, NoMore, Moves, ClientType
  <2>7. CASE ReadHead(c)
    BY <2>0, <2>1, <2>7 DEF ReadHead, ReadPart, Client, NoMore, Moves, ClientType
  <2>8. CASE ReadTail(c)
    BY <2>0, <2>1, <2>8 DEF ReadTail, ReadPart, Client, Outcome, NoMore, Moves, ClientType
  <2>9. CASE RfConnect(c)
    BY <2>0, <2>1, <2>9 DEF RfConnect, Client, NoMore, Moves, ClientType
  <2>10. CASE RfThrows(c)
    BY <2>0, <2>1, <2>10
       DEF RfThrows, Client, Outcome, NoMore, Moves, ClientType, Reach, ReachOf
  <2>11. CASE TimerFires(c)
    BY <2>0, <2>1, <2>11 DEF TimerFires, Timer, NoMore, Moves, ClientType, bluezVars
  <2>12. CASE TimerEnds(c)
    <3>1. ph[c] \in Executing \cup {"over"} /\ timer[c] = "won"
      BY <2>12 DEF TimerEnds, Timer, Reach, ReachOf
    <3> QED BY <2>0, <2>1, <2>12, <3>1
            DEF TimerEnds, Timer, Outcome, NoMore, Moves, ClientType, bluezVars
  <2> QED BY <1>7, <2>2, <2>3, <2>4, <2>5, <2>6, <2>7, <2>8, <2>9, <2>10, <2>11, <2>12
          DEF Progress, Timers
<1> QED BY <1>1, <1>2, <1>3, <1>4, <1>5, <1>6, <1>7 DEF Next

LEMMA ReachHolds == Spec => []Reach
<1>1. ASSUME Init PROVE Reach
  <2>1. /\ accepted = <<>> /\ sent = {} /\ queue = {}
        /\ \A c \in Cmd : ~wrote[c] /\ timer[c] = "armed" /\ res[c] = "none"
        /\ \A c \in Cmd : ph[c] \in {"gatt", "connect"}
    BY <1>1 DEF Init
  <2> QED BY <2>1 DEF Reach, ReachOf, Unreached, Range
<1>2. ASSUME Base, Reach, [Next]_vars PROVE Reach'
  <2>1. CASE Next BY <1>2, <2>1, ReachStep DEF Base
  <2>2. CASE UNCHANGED vars
    BY <1>2, <2>2 DEF Reach, ReachOf, Unreached, vars, clientVars, bluezVars, history
  <2> QED BY <1>2, <2>1, <2>2
<1> QED BY <1>1, <1>2, BaseHolds, PTL DEF Spec

(* A command whose client reports a failure that is no unknown outcome was *)
(* not accepted by the device and never will be, so that it may be sent    *)
(* again.                                                                  *)
THEOREM FailureHonest == Spec => []FailureIsHonest
<1>1. Reach => FailureIsHonest BY DEF Reach, ReachOf, Unreached, FailureIsHonest
<1> QED BY <1>1, ReachHolds, PTL

---------------------------------------------------------------------------
(* What the service has and has had before it, in that order, and the      *)
(* command that is on its way to it: the last one accepted.                *)
Requests == ran \o backlog
Sorted(s) == \A i, j \in 1 .. Len(s) :
  i < j => s[i] # s[j] /\ Precedes(accepted, s[i], s[j])
Pending(c) == \/ worker[c] = "start"
              \/ bus.at = "spawn" /\ bus.cmd = c
              \/ rf.at = "spawn" /\ rf.cmd = c
Last(c) == accepted # <<>> /\ accepted[Len(accepted)] = c
Order ==
  /\ Sorted(Requests)
  /\ \A i \in 1 .. Len(Requests) : Requests[i] \in Range(accepted)
  /\ \A c \in Cmd : Pending(c) =>
       Last(c) /\ \A i \in 1 .. Len(Requests) : Requests[i] # c

LEMMA RequestsType ==
  ASSUME OutsideType
  PROVE /\ Requests \in Seq(Cmd) /\ Len(Requests) = Len(ran) + Len(backlog)
        /\ Len(ran) \in Nat /\ Len(backlog) \in Nat
        /\ \A i \in 1 .. Len(ran) : Requests[i] = ran[i]
        /\ \A i \in 1 .. Len(backlog) : Requests[Len(ran) + i] = backlog[i]
BY DEF OutsideType, Requests

(* Nothing new is accepted or asked for. *)
LEMMA OrderKept ==
  ASSUME Order, UNCHANGED <<accepted, ran, backlog>>,
         \A c \in Cmd : Pending(c)' => Pending(c)
  PROVE Order'
<1>1. Requests' = Requests BY DEF Requests
<1>2. Sorted(Requests)' <=> Sorted(Requests) BY <1>1, Zenon DEF Sorted
<1>3. \A c : Last(c)' <=> Last(c) BY Zenon DEF Last
<1> QED BY <1>1, <1>2, <1>3, Zenon DEF Order

(* A command that was never accepted becomes the last one accepted, at a   *)
(* time when no other one is pending.                                      *)
LEMMA ClaimOrder ==
  ASSUME HistoryType, OutsideType, Order, NEW c \in Cmd, c \notin Range(accepted),
         accepted' = Append(accepted, c), UNCHANGED <<ran, backlog>>,
         \A d \in Cmd \ {c} : ~Pending(d)'
  PROVE Order'
<1>1. /\ accepted \in Seq(Cmd) /\ Len(accepted') = Len(accepted) + 1
      /\ accepted'[Len(accepted')] = c /\ accepted' # <<>>
      /\ \A i \in 1 .. Len(accepted) : accepted'[i] = accepted[i]
      /\ DOMAIN accepted = 1 .. Len(accepted) /\ DOMAIN accepted' = 1 .. Len(accepted')
  BY DEF HistoryType
<1>2. Range(accepted') = Range(accepted) \cup {c} BY RangeAppend DEF HistoryType
<1>3. \A d, e : Precedes(accepted, d, e) => Precedes(accepted', d, e)
  BY <1>1 DEF Precedes
<1>4. Requests' = Requests BY DEF Requests
<1>5. Sorted(Requests') BY <1>3, <1>4 DEF Order, Sorted
<1>6. Sorted(Requests)' BY <1>3, <1>4 DEF Order, Sorted
<1>7. \A i \in 1 .. Len(Requests) : Requests[i] # c BY DEF Order
<1>8. Last(c)' BY <1>1 DEF Last
<1> QED BY <1>2, <1>4, <1>6, <1>7, <1>8 DEF Order

(* The pending command goes to the service: it comes after all the others. *)
LEMMA RequestOrder ==
  ASSUME HistoryType, OutsideType, Order, NEW c \in Cmd, Pending(c),
         accepted' = accepted, ran' = ran, backlog' = Append(backlog, c),
         \A d \in Cmd : ~Pending(d)'
  PROVE Order'
<1>1. Requests' = Append(Requests, c) BY DEF Requests, OutsideType
<1>2. /\ Requests \in Seq(Cmd) /\ Len(Requests') = Len(Requests) + 1
      /\ Requests'[Len(Requests) + 1] = c
      /\ \A i \in 1 .. Len(Requests) : Requests'[i] = Requests[i]
  BY <1>1, RequestsType
<1>3. /\ accepted \in Seq(Cmd) /\ DOMAIN accepted = 1 .. Len(accepted)
      /\ accepted # <<>> /\ accepted[Len(accepted)] = c
      /\ Len(accepted) \in 1 .. Len(accepted)
  BY DEF HistoryType, Order, Last
<1>4. \A i \in 1 .. Len(Requests) : Requests[i] # c BY DEF Order
<1>5. \A i \in 1 .. Len(Requests) : Precedes(accepted, Requests[i], c)
  <2>1. SUFFICES ASSUME NEW i \in 1 .. Len(Requests)
                 PROVE Precedes(accepted, Requests[i], c)
    OBVIOUS
  <2>2. PICK k \in 1 .. Len(accepted) : accepted[k] = Requests[i]
    BY <1>3 DEF Order, Range
  <2>3. k \in DOMAIN accepted /\ Len(accepted) \in DOMAIN accepted /\ k < Len(accepted)
    BY <1>3, <1>4, <2>2
  <2> QED BY <1>3, <2>2, <2>3, Zenon DEF Precedes
<1>6. Sorted(Requests)'
  <2> SUFFICES ASSUME NEW i \in 1 .. Len(Requests'), NEW j \in 1 .. Len(Requests'), i < j
               PROVE /\ Requests'[i] # Requests'[j]
                     /\ Precedes(accepted, Requests'[i], Requests'[j])
    BY DEF Sorted
  <2>1. i \in 1 .. Len(Requests) BY <1>2
  <2>2. CASE j \in 1 .. Len(Requests) BY <1>2, <2>1, <2>2 DEF Order, Sorted
  <2>3. CASE j = Len(Requests) + 1 BY <1>2, <1>4, <1>5, <2>1, <2>3
  <2> QED BY <1>2, <2>2, <2>3
<1>7. \A i \in 1 .. Len(Requests') : Requests'[i] \in Range(accepted)
  <2>1. c \in Range(accepted) BY <1>3 DEF Range
  <2>2. \A i \in 1 .. Len(Requests) : Requests[i] \in Range(accepted) BY DEF Order
  <2>3. \A i \in 1 .. Len(Requests') : i \in 1 .. Len(Requests) \/ i = Len(Requests) + 1
    BY <1>2
  <2> QED BY <1>2, <2>1, <2>2, <2>3
<1> QED BY <1>6, <1>7 DEF Order

LEMMA NothingPending ==
  ASSUME PlaceType, Busy, ~active PROVE \A d \in Cmd : ~Pending(d)
BY Alone DEF Pending

LEMMA OnePending ==
  ASSUME PlaceType, Busy, NEW c \in Cmd, NEW d \in Cmd, Pending(c), Pending(d)
  PROVE c = d
<1>1. PICK k : InProgress = {<<k, c>>} BY Alone DEF Pending
<1>2. PICK l : InProgress = {<<l, d>>} BY Alone DEF Pending
<1>3. <<k, c>> = <<l, d>> BY <1>1, <1>2, Zenon
<1> QED BY <1>3

(* The service takes the oldest request. *)
LEMMA HeadMoves ==
  ASSUME NEW s \in Seq(Cmd), NEW t \in Seq(Cmd), t # <<>>
  PROVE Append(s, Head(t)) \o Tail(t) = s \o t
OBVIOUS

LEMMA OrderStep == ASSUME Base, Reach, Order, Next PROVE Order'
<1> USE DEF Base, Types
<1>0. ASSUME UNCHANGED <<accepted, ran, backlog, bus, worker>>,
             rf' = rf \/ rf'.at # "spawn"
      PROVE Order'
  BY <1>0, OrderKept DEF Pending
<1>1. CASE Main \/ Start \/ Crash
  <2>1. CASE Gone
    <3>1. /\ UNCHANGED <<accepted, ran, backlog>>
          /\ \A c \in Cmd : ~Pending(c)'
      BY <2>1 DEF Gone, serviceVars, Pending, Idle, NoThread, At
    <3> QED BY <3>1, OrderKept
  <2>2. CASE start_rfcomm_server
    BY <1>0, <2>2 DEF start_rfcomm_server, At, history, serviceVars
  <2> QED BY <1>0, <1>1, <2>1, <2>2, MainLeaves DEF history, serviceVars
<1>2. CASE Bus
  <2>0. UNCHANGED <<rf, ran, backlog>> BY <1>2, BusLeaves DEF serviceVars
  <2>1. ASSUME NEW c \in Cmd, NEW i \in 1 .. Frags, WriteBusy(c, i) \/ WriteWaits(c, i)
        PROVE Order'
    <3>1. UNCHANGED <<accepted, bus, worker>>
      BY <2>1, Zenon DEF WriteBusy, WriteWaits, history
    <3> QED BY <1>0, <2>0, <3>1
  <2>2. ASSUME NEW c \in Cmd, NEW i \in 1 .. Frags, WriteCompletes(c, i) PROVE Order'
    <3>1. /\ <<c, i>> \in queue /\ UNCHANGED worker
          /\ \/ Claim(c) /\ bus' = At("spawn", c)
             \/ UNCHANGED <<bus, accepted>>
      BY <2>2, Zenon DEF WriteCompletes, Write
    <3>2. CASE Claim(c) /\ bus' = At("spawn", c)
      <4>1. c \notin Range(accepted) BY <3>1 DEF Reach, ReachOf
      <4>2. \A d \in Cmd : ~Pending(d) BY <3>2, NothingPending DEF Claim
      <4>3. \A d \in Cmd \ {c} : ~Pending(d)'
        BY <2>0, <3>1, <3>2, <4>2 DEF Pending, At
      <4> QED BY <2>0, <3>2, <4>1, <4>3, ClaimOrder DEF Claim
    <3> QED BY <1>0, <2>0, <3>1, <3>2
  <2>3. CASE BusSpawns
    <3>1. accepted' = accepted /\ bus.at = "spawn" /\ bus.cmd \in Cmd
      BY <2>3, Handled DEF BusSpawns, history
    <3>2. \A d \in Cmd : Pending(d)' => Pending(d)
      BY <2>0, <2>3, <3>1 DEF BusSpawns, Pending, SpawnWorker, SpawnFails, PlaceType, Idle, At
    <3> QED BY <2>0, <3>1, <3>2, OrderKept
  <2>4. CASE BusFails
    <3>1. UNCHANGED <<accepted, worker>> /\ bus'.at # "spawn"
      BY <2>4 DEF BusFails, Idle, At
    <3> QED BY <2>0, <3>1, OrderKept DEF Pending
  <2>5. CASE SeeLoss BY <1>0, <2>0, <2>5 DEF SeeLoss, threadVars, history
  <2> QED BY <1>2, <2>1, <2>2, <2>3, <2>4, <2>5 DEF Bus
<1>3. CASE RfServer \/ RfEnds(FALSE)
  <2>0. UNCHANGED <<bus, ran, backlog>> BY <1>3, RfLeaves DEF serviceVars
  <2>1. ASSUME NEW c, c = rf.cmd, RfDispatches PROVE Order'
    <3>1. c \in Cmd /\ c \in sent /\ worker' = worker
      BY <2>1, Handled DEF RfDispatches, Rf
    <3>2. CASE rf' = At("spawn", c) /\ Claim(c)
      <4>1. c \notin Range(accepted) BY <3>1 DEF Reach, ReachOf
      <4>2. \A d \in Cmd : ~Pending(d) BY <3>2, NothingPending DEF Claim
      <4>3. \A d \in Cmd \ {c} : ~Pending(d)'
        BY <2>0, <3>1, <3>2, <4>2 DEF Pending, At
      <4> QED BY <2>0, <3>1, <3>2, <4>1, <4>3, ClaimOrder DEF Claim
    <3>3. CASE rf' = NextClient /\ accepted' = accepted
      BY <1>0, <2>0, <3>1, <3>3 DEF NextClient, At
    <3> QED BY <2>1, <3>2, <3>3 DEF RfDispatches, Rf, history
  <2>2. CASE RfSpawns
    <3>1. accepted' = accepted /\ rf.at = "spawn" /\ rf.cmd \in Cmd
      BY <2>2, Handled DEF RfSpawns, Rf, history
    <3>2. \A d \in Cmd : Pending(d)' => Pending(d)
      BY <2>0, <2>2, <3>1 DEF RfSpawns, Rf, Pending, SpawnWorker, SpawnFails, PlaceType, At
    <3> QED BY <2>0, <3>1, <3>2, OrderKept
  <2>3. CASE ~RfDispatches /\ ~RfSpawns
    <3>1. UNCHANGED <<accepted, worker>> /\ rf'.at # "spawn"
      BY <1>3, <2>3 DEF RfServer, RfAccept, RfEnds, RfDrops, RfFails, RfWaits, RfChecks,
        copy_status, Rf, NextClient, At, history, set_failed_status
    <3> QED BY <1>0, <2>0, <3>1
  <2> QED BY <2>1, <2>2, <2>3
<1>4. ASSUME NEW c \in Cmd, http_request(c) \/ WorkerReports(c) \/ WorkerEnds(c)
      PROVE Order'
  <2>0. UNCHANGED <<accepted, bus, rf>>
    BY <1>4, WorkerLeaves DEF Workers, history
  <2>1. CASE http_request(c)
    <3>1. /\ worker[c] = "start" /\ worker' = [worker EXCEPT ![c] = "call"]
          /\ backlog' = Append(backlog, c) /\ ran' = ran
      BY <2>1 DEF http_request, Worker
    <3>2. Pending(c) /\ bus.at # "spawn" /\ rf.at # "spawn"
      <4>1. worker[c] # "none" BY <3>1
      <4>2. InProgress = {<<"worker", c>>} BY <4>1, Alone
      <4>3. \A x : <<"worker", c>> # <<"bus", x>> /\ <<"worker", c>> # <<"rf", x>> OBVIOUS
      <4>4. bus.at # "spawn" BY <4>2, <4>3, Alone
      <4>5. rf.at # "spawn" BY <4>2, <4>3, Alone
      <4> QED BY <3>1, <4>4, <4>5 DEF Pending
    <3>3. \A d \in Cmd : ~Pending(d)'
      <4> SUFFICES ASSUME NEW d \in Cmd, Pending(d)' PROVE FALSE OBVIOUS
      <4>1. worker'[d] = "start" BY <2>0, <3>2 DEF Pending
      <4>2. d # c /\ worker[d] = "start" BY <3>1, <4>1 DEF PlaceType
      <4> QED BY <3>2, <4>2, OnePending DEF Pending
    <3> QED BY <2>0, <3>1, <3>2, <3>3, RequestOrder
  <2>2. CASE WorkerReports(c) \/ WorkerEnds(c)
    <3>1. /\ UNCHANGED <<ran, backlog>>
          /\ \A d \in Cmd : worker'[d] = "start" => worker[d] = "start"
      BY <2>2 DEF WorkerReports, WorkerEnds, Worker, serviceVars, PlaceType
    <3> QED BY <2>0, <3>1, OrderKept DEF Pending
  <2> QED BY <1>4, <2>1, <2>2
<1>5. CASE Service \/ ServiceDies
  <2>0. /\ UNCHANGED <<accepted, bus, rf>>
        /\ \A d \in Cmd : worker'[d] = "start" => worker[d] = "start"
    BY <1>5, ServiceLeaves
       DEF history, Service, handle_request, send_json, ServiceDies, PlaceType, OutsideType
  <2>1. \A d \in Cmd : Pending(d)' => Pending(d) BY <2>0 DEF Pending
  <2>2. CASE handle_request
    <3>1. Requests' = Requests
      BY <2>2, HeadMoves DEF handle_request, Requests, OutsideType
    <3> QED BY <2>0, <2>1, <3>1 DEF Order, Sorted, Precedes, Last
  <2>3. CASE send_json BY <2>0, <2>1, <2>3, OrderKept DEF send_json
  <2>4. CASE ServiceDies
    <3>1. Requests' = ran
      BY <2>4 DEF ServiceDies, Requests, OutsideType
    <3>2. /\ Len(ran) <= Len(Requests) /\ Len(ran) \in Nat /\ Len(Requests) \in Nat
          /\ \A i \in 1 .. Len(ran) : Requests[i] = ran[i]
      BY RequestsType
    <3>3. \A i \in 1 .. Len(ran) : i \in 1 .. Len(Requests) BY <3>2
    <3>4. /\ Sorted(Requests)'
          /\ \A i \in 1 .. Len(Requests') : Requests'[i] \in Range(accepted)
      BY <2>0, <3>1, <3>2, <3>3 DEF Order, Sorted, Precedes
    <3>5. \A c \in Cmd : Pending(c)' =>
            Last(c)' /\ \A i \in 1 .. Len(Requests') : Requests'[i] # c
      BY <2>0, <2>1, <3>1, <3>2, <3>3 DEF Order, Last
    <3> QED BY <2>0, <3>4, <3>5 DEF Order
  <2> QED BY <1>5, <2>2, <2>3, <2>4 DEF Service
<1>6. CASE BluezDies \/ BluezReturns \/ Signal
  BY <1>0, <1>6, AroundLeaves DEF threadVars, history, serviceVars
<1>7. CASE \E c \in Cmd : Progress(c) \/ Timers(c)
  BY <1>0, <1>7, ClientLeaves DEF threadVars, history, serviceVars
<1> QED BY <1>1, <1>2, <1>3, <1>4, <1>5, <1>6, <1>7 DEF Next, Workers

LEMMA OrderHolds == Spec => []Order
<1>1. ASSUME Init PROVE Order
  <2>1. /\ Requests = <<>> /\ bus.at # "spawn" /\ rf.at # "spawn"
        /\ \A c \in Cmd : worker[c] # "start"
    BY <1>1 DEF Init, Requests, Idle, NoThread, At
  <2>2. Len(Requests) = 0 BY <2>1
  <2> QED BY <2>1, <2>2 DEF Order, Sorted, Pending
<1>2. ASSUME Base, Reach, Order, [Next]_vars PROVE Order'
  <2>1. CASE Next BY <1>2, <2>1, OrderStep
  <2>2. CASE UNCHANGED vars
    BY <1>2, <2>2, OrderKept DEF Pending, vars, threadVars, serviceVars, history
  <2> QED BY <1>2, <2>1, <2>2
<1> QED BY <1>1, <1>2, BaseHolds, ReachHolds, PTL DEF Spec

(* The service carries out commands in the order in which they were        *)
(* accepted, and none twice, whatever dies, gives up or is started again   *)
(* in between.                                                             *)
THEOREM CarriedOut == Spec => []CarriedOutInOrder
<1>1. ASSUME Types, Order PROVE CarriedOutInOrder
  <2> SUFFICES ASSUME NEW c \in Cmd, NEW d \in Cmd, Precedes(ran, c, d)
               PROVE c # d /\ Precedes(accepted, c, d)
    BY DEF CarriedOutInOrder
  <2>1. PICK i, j \in DOMAIN ran : i < j /\ ran[i] = c /\ ran[j] = d BY DEF Precedes
  <2>2. /\ DOMAIN ran = 1 .. Len(ran) /\ Len(Requests) = Len(ran) + Len(backlog)
        /\ Len(ran) \in Nat /\ Len(backlog) \in Nat
        /\ \A k \in 1 .. Len(ran) : Requests[k] = ran[k]
    BY <1>1, RequestsType DEF Types, OutsideType
  <2>3. i \in 1 .. Len(Requests) /\ j \in 1 .. Len(Requests) BY <2>1, <2>2
  <2> QED BY <1>1, <2>1, <2>2, <2>3 DEF Order, Sorted
<1>2. Base /\ Order => CarriedOutInOrder BY <1>1 DEF Base
<1> QED BY <1>2, BaseHolds, OrderHolds, PTL

---------------------------------------------------------------------------
(* The ready marker is written after the RFCOMM server is there and taken  *)
(* away before it is told to stop.                                         *)
ReadyInv ==
  /\ marker = "own" => "rf" \in has /\ main \in {"app", "adv", "spawn", "serve", "clear"}
  /\ main = "marker" => "rf" \in has

LEMMA ReadyStep == ASSUME ReadyInv, Next PROVE ReadyInv'
<1> USE DEF ReadyInv
<1>1. CASE Main \/ Start \/ Crash
  <2>1. CASE Start BY <2>1 DEF Start, Step
  <2>2. CASE Crash \/ Exit BY <2>2 DEF Crash, Exit, Gone
  <2>3. CASE SetUp \/ start_rfcomm_server
    BY <2>3 DEF SetUp, start_rfcomm_server, Step
  <2>4. CASE publish_ready_marker \/ clear_ready_marker
    BY <2>4 DEF publish_ready_marker, clear_ready_marker, Step
  <2>5. CASE Register("app", "adv", "spawn") \/ Register("adv", "spawn", "spawn")
    BY <2>5 DEF Register, Step
  <2>6. CASE StartDispatcher BY <2>6 DEF StartDispatcher, Step
  <2>7. CASE EndServing BY <2>7 DEF EndServing, Step
  <2>8. CASE stop_rfcomm_server \/ JoinDispatcher
    BY <2>8 DEF stop_rfcomm_server, JoinDispatcher, Step
  <2>9. CASE Unregister("adv-", "app-") \/ Unregister("app-", "agent-")
             \/ Unregister("agent-", "exit")
    BY <2>9 DEF Unregister, Step
  <2> QED BY <1>1, <2>1, <2>2, <2>3, <2>4, <2>5, <2>6, <2>7, <2>8, <2>9 DEF Main
<1>2. CASE Bus BY <1>2, BusLeaves
<1>3. CASE RfServer \/ RfEnds(FALSE) BY <1>3, RfLeaves DEF mainVars
<1>4. CASE Workers BY <1>4, WorkerLeaves DEF mainVars
<1>5. CASE Service \/ ServiceDies BY <1>5, ServiceLeaves DEF mainVars
<1>6. CASE BluezDies \/ BluezReturns \/ Signal BY <1>6, AroundLeaves
<1>7. CASE \E c \in Cmd : Progress(c) \/ Timers(c)
  BY <1>7, ClientLeaves DEF mainVars
<1> QED BY <1>1, <1>2, <1>3, <1>4, <1>5, <1>6, <1>7 DEF Next

(* A marker that names the running helper means that its RFCOMM socket     *)
(* listens.                                                                *)
THEOREM MarkerListens == Spec => []MarkerMeansListening
<1>1. Init => ReadyInv BY DEF Init, ReadyInv
<1>2. ASSUME ReadyInv, [Next]_vars PROVE ReadyInv'
  <2>1. CASE UNCHANGED vars BY <1>2, <2>1 DEF ReadyInv, vars, mainVars
  <2> QED BY <1>2, <2>1, ReadyStep
<1>3. ReadyInv => MarkerMeansListening
  BY DEF ReadyInv, MarkerMeansListening, Shut, Leaving
<1> QED BY <1>1, <1>2, <1>3, PTL DEF Spec

---------------------------------------------------------------------------
(* The advertisement is registered when the GATT service is, unless BlueZ  *)
(* was replaced in between.                                                *)
Adverts ==
  /\ "adv" \in regs /\ "app" \notin regs => lossMsg \/ stop \/ main \in Leaving
  /\ main = "adv" /\ ~lossMsg /\ ~stop => "app" \in regs

LEMMA AdvertsStep == ASSUME Types, Down, Adverts, Next PROVE Adverts'
<1> USE DEF Adverts
<1>1. CASE Main \/ Start \/ Crash
  <2>1. CASE Start BY <2>1 DEF Start, Step, Down, bluezVars
  <2>2. CASE Crash \/ Exit BY <2>2 DEF Crash, Exit, Gone
  <2>3. CASE SetUp \/ start_rfcomm_server
    BY <2>3 DEF SetUp, start_rfcomm_server, Step, bluezVars, Leaving
  <2>4. CASE publish_ready_marker \/ clear_ready_marker
    BY <2>4 DEF publish_ready_marker, clear_ready_marker, Step, bluezVars, Leaving
  <2>5. CASE Register("app", "adv", "spawn") \/ Register("adv", "spawn", "spawn")
    BY <2>5 DEF Register, Step, Leaving
  <2>6. CASE StartDispatcher BY <2>6 DEF StartDispatcher, Step, bluezVars, Leaving
  <2>7. CASE EndServing BY <2>7 DEF EndServing, Step, bluezVars, Leaving
  <2>8. CASE stop_rfcomm_server \/ JoinDispatcher
    BY <2>8 DEF stop_rfcomm_server, JoinDispatcher, Step, bluezVars, Leaving
  <2>9. CASE Unregister("adv-", "app-") \/ Unregister("app-", "agent-")
             \/ Unregister("agent-", "exit")
    BY <2>9 DEF Unregister, Step, Leaving
  <2> QED BY <1>1, <2>1, <2>2, <2>3, <2>4, <2>5, <2>6, <2>7, <2>8, <2>9 DEF Main
<1>2. CASE Bus
  <2>1. UNCHANGED <<main, regs>> BY <1>2, BusLeaves
  <2>2. stop' \/ UNCHANGED <<stop, lossMsg>> BY <1>2, BusLeaves DEF SeeLoss
  <2> QED BY <2>1, <2>2
<1>3. CASE RfServer \/ RfEnds(FALSE) BY <1>3, RfLeaves DEF mainVars, bluezVars
<1>4. CASE Workers BY <1>4, WorkerLeaves DEF mainVars, bluezVars
<1>5. CASE Service \/ ServiceDies BY <1>5, ServiceLeaves DEF mainVars, bluezVars
<1>6. CASE BluezDies \/ BluezReturns \/ Signal
  <2>1. UNCHANGED <<main, stop>> BY <1>6, AroundLeaves
  <2>2. \/ regs' = {} /\ lossMsg' = (main # "down")
        \/ UNCHANGED <<regs, lossMsg>>
    BY <1>6 DEF BluezDies, BluezReturns, Signal, bluezVars
  <2> QED BY <2>1, <2>2
<1>7. CASE \E c \in Cmd : Progress(c) \/ Timers(c)
  BY <1>7, ClientLeaves DEF mainVars
<1> QED BY <1>1, <1>2, <1>3, <1>4, <1>5, <1>6, <1>7 DEF Next

(* A helper that advertises a GATT service it has lost is on its way out.  *)
THEOREM AbsentEnds == Spec => []AbsentIsTemporary
<1>1. Init => Adverts BY DEF Init, Adverts
<1>2. ASSUME Base, Adverts, [Next]_vars PROVE Adverts'
  <2>1. CASE UNCHANGED vars BY <1>2, <2>1 DEF Adverts, vars, mainVars, bluezVars
  <2> QED BY <1>2, <2>1, AdvertsStep DEF Base
<1>3. Adverts => AbsentIsTemporary BY DEF Adverts, AbsentIsTemporary
<1> QED BY <1>1, <1>2, <1>3, BaseHolds, PTL DEF Spec

---------------------------------------------------------------------------
(* "done" is only ever said of a command that the service carried out.     *)
Told(s) == s.st = "done" => s.cmd \in Range(ran)
Carried ==
  /\ \A c \in Cmd : worker[c] = "answered" => c \in Range(ran)
  /\ serving # None => serving \in Range(ran)
  /\ Told(status)
  /\ \A c \in Cmd : \A i \in DOMAIN got[c] : Told(got[c][i])

LEMMA CarriedKept ==
  ASSUME Carried, Range(ran) \subseteq Range(ran'),
         \A c \in Cmd : worker'[c] = "answered" =>
           worker[c] = "answered" \/ c \in Range(ran'),
         serving' \in {None, serving} \/ serving' \in Range(ran'),
         status' = status \/ (status'.st = "done" => status'.cmd \in Range(ran')),
         \A c \in Cmd : got'[c] = got[c] \/ \A i \in DOMAIN got'[c] :
           got'[c][i].st = "done" => got'[c][i].cmd \in Range(ran')
  PROVE Carried'
<1>1. \A c \in Cmd : worker'[c] = "answered" => c \in Range(ran') BY DEF Carried
<1>2. serving' # None => serving' \in Range(ran') BY DEF Carried
<1>3. Told(status)' BY DEF Carried, Told
<1>4. \A c \in Cmd : \A i \in DOMAIN got'[c] :
        got'[c][i].st = "done" => got'[c][i].cmd \in Range(ran')
  BY DEF Carried, Told
<1> QED BY <1>1, <1>2, <1>3, <1>4 DEF Carried, Told

LEMMA NotDone == \A c : Is("working", c).st # "done" /\ Is("failed", c).st # "done"
BY DEF Is

(* What is sent over RFCOMM: nobody else's answer changes. *)
LEMMA DeliverGot ==
  ASSUME GotType, NEW c \in Cmd, NEW answer, Deliver(c, answer)
  PROVE \A d \in Cmd : got'[d] = got[d] \/ \A i \in DOMAIN got'[d] : got'[d][i] = answer
<1>1. CASE got' = got BY <1>1
<1>2. CASE got' = [got EXCEPT ![c] = <<answer, answer>>]
  <2>1. got'[c] = <<answer, answer>> /\ \A d \in Cmd \ {c} : got'[d] = got[d]
    BY <1>2 DEF GotType
  <2>2. \A i \in DOMAIN got'[c] : got'[c][i] = answer BY <2>1
  <2> QED BY <2>1, <2>2
<1> QED BY <1>1, <1>2 DEF Deliver

LEMMA CarriedStep == ASSUME Types, Carried, Next PROVE Carried'
<1> USE DEF Types
<1>0. ASSUME UNCHANGED <<ran, serving, status, got>>,
             \A c \in Cmd : worker'[c] = "answered" => worker[c] = "answered"
      PROVE Carried'
  BY <1>0, CarriedKept
<1>1. CASE Main \/ Start \/ Crash
  <2>1. CASE Gone
    <3>1. /\ UNCHANGED <<ran, serving, got>> /\ status'.st # "done"
          /\ \A c \in Cmd : worker'[c] # "answered"
      BY <2>1 DEF Gone, serviceVars, Ready
    <3> QED BY <3>1, CarriedKept
  <2> QED BY <1>0, <1>1, <2>1, MainLeaves DEF serviceVars, boxVars, clientVars
<1>2. CASE Bus
  <2>0. UNCHANGED <<ran, serving, got>> BY <1>2, BusLeaves DEF serviceVars
  <2>1. ASSUME NEW c \in Cmd, NEW i \in 1 .. Frags,
               WriteBusy(c, i) \/ WriteWaits(c, i) \/ WriteCompletes(c, i)
        PROVE Carried'
    <3>1. worker' = worker /\ (status' = status \/ status' = Is("working", c))
      BY <2>1, Zenon DEF WriteBusy, WriteWaits, WriteCompletes, boxVars, Claim
    <3> QED BY <2>0, <3>1, NotDone, CarriedKept
  <2>2. CASE BusSpawns
    BY <1>0, <2>0, <2>2 DEF BusSpawns, SpawnWorker, SpawnFails, PlaceType
  <2>3. CASE BusFails
    BY <2>0, <2>3, NotDone, CarriedKept DEF BusFails, set_failed_status
  <2>4. CASE SeeLoss BY <1>0, <2>0, <2>4 DEF SeeLoss, threadVars, boxVars
  <2> QED BY <1>2, <2>1, <2>2, <2>3, <2>4 DEF Bus
<1>3. CASE RfServer \/ RfEnds(FALSE)
  <2>0. UNCHANGED <<ran, serving>> BY <1>3, RfLeaves DEF serviceVars
  <2>1. ASSUME NEW c \in Cmd, NEW answer, Told(answer), Deliver(c, answer), worker' = worker,
               status' = status \/ status'.st # "done"
        PROVE Carried'
    BY <2>0, <2>1, DeliverGot, CarriedKept DEF Told
  <2>2. CASE RfDispatches
    <3>1. rf.cmd \in Cmd /\ worker' = worker
      BY <2>2, Handled DEF RfDispatches, Rf
    <3>2. CASE Claim(rf.cmd) /\ got' = got
      BY <2>0, <3>1, <3>2, NotDone, CarriedKept DEF Claim
    <3>3. CASE Deliver(rf.cmd, Is("failed", rf.cmd)) /\ status' = status
      BY <2>1, <3>1, <3>3, NotDone DEF Told
    <3> QED BY <2>2, <3>2, <3>3 DEF RfDispatches, boxVars
  <2>3. CASE RfFails
    BY <2>1, <2>3, Handled, NotDone DEF RfFails, Rf, Told, set_failed_status
  <2>4. CASE RfChecks
    <3>1. rf.cmd \in Cmd /\ worker' = worker /\ status' = status
      BY <2>4, Handled DEF RfChecks, Rf, boxVars
    <3>2. CASE Deliver(rf.cmd, Is("failed", rf.cmd))
      BY <2>1, <3>1, <3>2, NotDone DEF Told
    <3>3. CASE got' = got BY <1>0, <2>0, <3>1, <3>3
    <3> QED BY <2>4, <3>2, <3>3 DEF RfChecks
  <2>5. CASE copy_status
    BY <2>1, <2>5, Handled DEF copy_status, Rf, boxVars, Carried
  <2>6. CASE RfSpawns
    BY <1>0, <2>0, <2>6 DEF RfSpawns, SpawnWorker, SpawnFails, PlaceType
  <2>7. CASE (\E c \in Cmd : RfAccept(c)) \/ RfDrops \/ RfWaits \/ RfEnds(TRUE)
             \/ RfEnds(FALSE)
    BY <1>0, <2>0, <2>7 DEF RfAccept, RfDrops, RfWaits, RfEnds, boxVars
  <2> QED BY <1>3, <2>2, <2>3, <2>4, <2>5, <2>6, <2>7 DEF RfServer
<1>4. ASSUME NEW c \in Cmd, http_request(c) \/ WorkerReports(c) \/ WorkerEnds(c)
      PROVE Carried'
  <2>0. UNCHANGED <<ran, serving, got>>
    BY <1>4, WorkerLeaves
       DEF Workers, clientVars, http_request, WorkerReports, WorkerEnds, serviceVars
  <2>1. \A d \in Cmd : worker'[d] = "answered" => worker[d] = "answered"
    BY <1>4 DEF http_request, WorkerReports, WorkerEnds, Worker, PlaceType
  <2>2. CASE WorkerReports(c)
    <3>1. \/ status'.st # "done"
          \/ worker[c] = "answered" /\ status' = Is("done", c)
      BY <2>2, NotDone DEF WorkerReports, Worker
    <3> QED BY <2>0, <2>1, <3>1, CarriedKept DEF Carried, Is
  <2>3. CASE http_request(c) \/ WorkerEnds(c)
    BY <1>0, <2>0, <2>1, <2>3 DEF http_request, WorkerEnds, boxVars
  <2> QED BY <1>4, <2>2, <2>3
<1>5. CASE Service \/ ServiceDies
  <2>0. UNCHANGED <<status, got>> BY <1>5, ServiceLeaves DEF boxVars, clientVars
  <2>1. CASE handle_request
    <3>1. Head(backlog) \in Cmd BY <2>1 DEF handle_request, OutsideType
    <3>2. Range(ran') = Range(ran) \cup {Head(backlog)}
      BY <2>1, <3>1, RangeAppend DEF handle_request, OutsideType
    <3> QED BY <2>0, <2>1, <3>2, CarriedKept DEF handle_request
  <2>2. CASE send_json
    <3>1. \A c \in Cmd : worker'[c] = "answered" => worker[c] = "answered" \/ c = serving
      BY <2>2 DEF send_json, PlaceType
    <3> QED BY <2>0, <2>2, <3>1, CarriedKept DEF send_json, Carried
  <2>3. CASE ServiceDies BY <2>0, <2>3, CarriedKept DEF ServiceDies
  <2> QED BY <1>5, <2>1, <2>2, <2>3 DEF Service
<1>6. CASE BluezDies \/ BluezReturns \/ Signal
  BY <1>0, <1>6, AroundLeaves DEF threadVars, serviceVars, boxVars, clientVars
<1>7. ASSUME NEW c \in Cmd, Progress(c) \/ Timers(c) PROVE Carried'
  <2>0. UNCHANGED <<ran, serving, status, worker>>
    BY <1>7, ClientLeaves DEF threadVars, serviceVars, boxVars
  <2>1. CASE ReadHead(c)
    <3>1. /\ \A d \in Cmd \ {c} : got'[d] = got[d]
          /\ got'[c] = <<status>>
      BY <2>1 DEF ReadHead, GotType
    <3>2. \A i \in DOMAIN got'[c] : got'[c][i] = status BY <3>1
    <3> QED BY <2>0, <3>1, <3>2, CarriedKept DEF Carried, Told
  <2>2. CASE ReadTail(c)
    <3>1. CASE got' = [got EXCEPT ![c] = Append(@, status)]
      <4>1. got'[c] = Append(got[c], status) /\ \A d \in Cmd \ {c} : got'[d] = got[d]
        BY <3>1 DEF GotType
      <4>2. \A i \in DOMAIN got'[c] : got'[c][i] = status
              \/ (i \in DOMAIN got[c] /\ got'[c][i] = got[c][i])
        BY <4>1 DEF GotType, BoxType
      <4> QED BY <2>0, <4>1, <4>2, CarriedKept DEF Carried, Told
    <3>2. CASE got' = [got EXCEPT ![c] = <<>>]
      BY <2>0, <3>2, CarriedKept DEF GotType
    <3> QED BY <2>2, <3>1, <3>2 DEF ReadTail
  <2>3. CASE GattFails(c)
    BY <2>0, <2>3, CarriedKept DEF GattFails, GotType
  <2>4. CASE ~ReadHead(c) /\ ~ReadTail(c) /\ ~GattFails(c)
    <3>1. got' = got
      BY <1>7, <2>4 DEF Progress, Timers, gatt, GattUnready, RfConnect, RfMarks, RfWrites,
        RfThrows, TimerFires, TimerEnds, Timer
    <3> QED BY <1>0, <2>0, <3>1
  <2> QED BY <2>1, <2>2, <2>3, <2>4
<1> QED BY <1>1, <1>2, <1>3, <1>4, <1>5, <1>6, <1>7 DEF Next, Workers

LEMMA CarriedHolds == Spec => []Carried
<1>1. ASSUME Init PROVE Carried
  BY <1>1 DEF Init, Carried, Told, Ready
<1>2. ASSUME Base, Carried, [Next]_vars PROVE Carried'
  <2>1. CASE UNCHANGED vars
    BY <1>2, <2>1, CarriedKept DEF vars, threadVars, serviceVars, boxVars, clientVars
  <2> QED BY <1>2, <2>1, CarriedStep DEF Base
<1> QED BY <1>1, <1>2, BaseHolds, PTL DEF Spec

---------------------------------------------------------------------------
(* Whoever holds the command in progress holds the one accepted last, and a*)
(* thread that went past the flag has a command that was accepted.         *)
Held(c) == \/ worker[c] # "none"
           \/ bus.at = "spawn" /\ bus.cmd = c
           \/ rf.at = "spawn" /\ rf.cmd = c
Admitted == {"spawn", "failing", "wait", "check", "copy"}
Bound(c) == \/ bus.at \in {"spawn", "failing"} /\ bus.cmd = c
            \/ rf.at \in Admitted /\ rf.cmd = c
InLine == \A c \in Cmd : (Held(c) => Last(c)) /\ (Bound(c) => c \in Range(accepted))

LEMMA LastIn == ASSUME HistoryType, NEW c, Last(c) PROVE c \in Range(accepted)
BY DEF HistoryType, Last, Range

LEMMA InLineKept ==
  ASSUME HistoryType, InLine, accepted' = accepted,
         \A c \in Cmd : (Held(c)' => Held(c)) /\ (Bound(c)' => Bound(c) \/ Held(c))
  PROVE InLine'
<1> SUFFICES ASSUME NEW c \in Cmd
             PROVE (Held(c)' => Last(c)') /\ (Bound(c)' => c \in Range(accepted))
  BY DEF InLine
<1>1. Last(c)' <=> Last(c) BY DEF Last
<1>2. Held(c) => c \in Range(accepted) BY LastIn DEF InLine
<1> QED BY <1>1, <1>2 DEF InLine

LEMMA InLineClaim ==
  ASSUME HistoryType, InLine, NEW c \in Cmd, accepted' = Append(accepted, c),
         \A d \in Cmd : (Held(d)' => d = c) /\ (Bound(d)' => Bound(d) \/ d = c)
  PROVE InLine'
<1>1. Range(accepted') = Range(accepted) \cup {c} BY RangeAppend DEF HistoryType
<1>2. Last(c)' BY DEF Last, HistoryType
<1> QED BY <1>1, <1>2 DEF InLine

LEMMA NothingHeld ==
  ASSUME PlaceType, Busy, ~active
  PROVE \A d \in Cmd : ~Held(d) /\ ~(bus.at = "spawn") /\ ~(rf.at = "spawn")
BY Alone DEF Held

LEMMA InLineStep == ASSUME Base, InLine, Next PROVE InLine'
<1> USE DEF Base, Types
<1>0. ASSUME UNCHANGED <<accepted, bus, worker>>,
             rf' = rf \/ rf'.at \notin Admitted
             \/ (rf.at \in Admitted /\ rf'.cmd = rf.cmd /\ rf'.at # "spawn")
      PROVE InLine'
  <2>1. \A c \in Cmd : Held(c)' => Held(c) BY <1>0 DEF Held, Admitted
  <2>2. \A c \in Cmd : Bound(c)' => Bound(c) BY <1>0 DEF Bound
  <2> QED BY <1>0, <2>1, <2>2, InLineKept
<1>1. CASE Main \/ Start \/ Crash
  <2>1. CASE Gone
    <3>1. /\ accepted' = accepted
          /\ \A c \in Cmd : ~Held(c)' /\ ~Bound(c)'
      BY <2>1 DEF Gone, Held, Bound, Admitted, Idle, NoThread, At
    <3> QED BY <3>1, InLineKept
  <2>2. CASE start_rfcomm_server
    BY <1>0, <2>2 DEF start_rfcomm_server, At, history, Admitted
  <2> QED BY <1>0, <1>1, <2>1, <2>2, MainLeaves DEF history
<1>2. CASE Bus
  <2>0. rf' = rf BY <1>2, BusLeaves
  <2>1. ASSUME NEW c \in Cmd, NEW i \in 1 .. Frags, WriteBusy(c, i) \/ WriteWaits(c, i)
        PROVE InLine'
    <3>1. UNCHANGED <<accepted, bus, worker>>
      BY <2>1, Zenon DEF WriteBusy, WriteWaits, history
    <3> QED BY <1>0, <2>0, <3>1
  <2>2. ASSUME NEW c \in Cmd, NEW i \in 1 .. Frags, WriteCompletes(c, i) PROVE InLine'
    <3>1. /\ UNCHANGED worker
          /\ \/ Claim(c) /\ bus' = At("spawn", c)
             \/ UNCHANGED <<bus, accepted>>
      BY <2>2, Zenon DEF WriteCompletes
    <3>2. CASE Claim(c) /\ bus' = At("spawn", c)
      <4>1. \A d \in Cmd : (Held(d)' => d = c) /\ (Bound(d)' => Bound(d) \/ d = c)
        BY <2>0, <3>1, <3>2, NothingHeld DEF Claim, Held, Bound, At
      <4> QED BY <3>2, <4>1, InLineClaim DEF Claim
    <3> QED BY <1>0, <2>0, <3>1, <3>2
  <2>3. CASE BusSpawns
    <3>1. accepted' = accepted /\ bus.at = "spawn" /\ bus.cmd \in Cmd
      BY <2>3, Handled DEF BusSpawns, history
    <3>2. \A d \in Cmd : (Held(d)' => Held(d)) /\ (Bound(d)' => Bound(d))
      BY <2>0, <2>3, <3>1
         DEF BusSpawns, Held, Bound, SpawnWorker, SpawnFails, PlaceType, Idle, At
    <3> QED BY <3>1, <3>2, InLineKept
  <2>4. CASE BusFails
    BY <2>0, <2>4, InLineKept DEF BusFails, Held, Bound, Idle, At
  <2>5. CASE SeeLoss BY <1>0, <2>0, <2>5 DEF SeeLoss, threadVars, history
  <2> QED BY <1>2, <2>1, <2>2, <2>3, <2>4, <2>5 DEF Bus
<1>3. CASE RfServer \/ RfEnds(FALSE)
  <2>0. bus' = bus BY <1>3, RfLeaves
  <2>1. ASSUME NEW c, c = rf.cmd, RfDispatches PROVE InLine'
    <3>1. c \in Cmd /\ worker' = worker
      BY <2>1, Handled DEF RfDispatches, Rf
    <3>2. CASE rf' = At("spawn", c) /\ Claim(c)
      <4>1. \A d \in Cmd : (Held(d)' => d = c) /\ (Bound(d)' => Bound(d) \/ d = c)
        BY <2>0, <3>1, <3>2, NothingHeld DEF Claim, Held, Bound, At
      <4> QED BY <3>1, <3>2, <4>1, InLineClaim DEF Claim
    <3>3. CASE rf' = NextClient /\ accepted' = accepted
      BY <1>0, <2>0, <3>1, <3>3 DEF NextClient, At, Admitted
    <3> QED BY <2>1, <3>2, <3>3 DEF RfDispatches, Rf, history
  <2>2. CASE RfSpawns
    <3>1. accepted' = accepted /\ rf.at = "spawn" /\ rf.cmd \in Cmd
      BY <2>2, Handled DEF RfSpawns, Rf, history
    <3>2. \A d \in Cmd : (Held(d)' => Held(d)) /\ (Bound(d)' => Bound(d))
      BY <2>0, <2>2, <3>1
         DEF RfSpawns, Rf, Held, Bound, Admitted, SpawnWorker, SpawnFails, PlaceType, At
    <3> QED BY <3>1, <3>2, InLineKept
  <2>3. CASE ~RfDispatches /\ ~RfSpawns
    <3>1. UNCHANGED <<accepted, worker>>
      BY <1>3, <2>3 DEF RfServer, RfAccept, RfEnds, RfDrops, RfFails, RfWaits, RfChecks,
        copy_status, history, set_failed_status
    <3>2. \/ rf'.at \notin Admitted
          \/ rf.at \in Admitted /\ rf'.cmd = rf.cmd /\ rf'.at # "spawn"
      BY <1>3, <2>3 DEF RfServer, RfAccept, RfEnds, RfDrops, RfFails, RfWaits, RfChecks,
        copy_status, Rf, NextClient, At, Admitted
    <3> QED BY <1>0, <2>0, <3>1, <3>2
  <2> QED BY <2>1, <2>2, <2>3
<1>4. CASE Workers
  <2>1. UNCHANGED <<accepted, bus, rf>> BY <1>4, WorkerLeaves DEF history
  <2>2. \A d \in Cmd : worker'[d] # "none" => worker[d] # "none"
    BY <1>4 DEF Workers, http_request, WorkerReports, WorkerEnds, Worker, PlaceType
  <2> QED BY <2>1, <2>2, InLineKept DEF Held, Bound
<1>5. CASE Service \/ ServiceDies
  <2>1. UNCHANGED <<accepted, bus, rf>> BY <1>5, ServiceLeaves DEF history
  <2>2. \A d \in Cmd : worker'[d] # "none" => worker[d] # "none"
    BY <1>5 DEF Service, handle_request, send_json, ServiceDies, PlaceType, OutsideType
  <2> QED BY <2>1, <2>2, InLineKept DEF Held, Bound
<1>6. CASE BluezDies \/ BluezReturns \/ Signal
  BY <1>0, <1>6, AroundLeaves DEF threadVars, history
<1>7. CASE \E c \in Cmd : Progress(c) \/ Timers(c)
  BY <1>0, <1>7, ClientLeaves DEF threadVars, history
<1> QED BY <1>1, <1>2, <1>3, <1>4, <1>5, <1>6, <1>7 DEF Next

LEMMA InLineHolds == Spec => []InLine
<1>1. ASSUME Init PROVE InLine
  BY <1>1 DEF Init, InLine, Held, Bound, Admitted, Idle, NoThread, At
<1>2. ASSUME Base, InLine, [Next]_vars PROVE InLine'
  <2>1. CASE Next BY <1>2, <2>1, InLineStep
  <2>2. CASE UNCHANGED vars
    BY <1>2, <2>2, InLineKept
       DEF Base, Types, Held, Bound, vars, threadVars, history
  <2> QED BY <1>2, <2>1, <2>2
<1> QED BY <1>1, <1>2, BaseHolds, PTL DEF Spec

---------------------------------------------------------------------------
(* A command is on its way to the helper over one transport at a time.     *)
Handling == {"recv", "spawn", "failing", "wait", "check", "copy"}
ViaBus(c) ==
  \/ \E i \in 1 .. Frags : <<c, i>> \in queue
  \/ bus.at \in {"spawn", "failing"} /\ bus.cmd = c
ViaRf(c) == c \in conns \/ c \in sent \/ (rf.at \in Handling /\ rf.cmd = c)
PathsOf(c) ==
  /\ ViaBus(c) => ph[c] \in {"write", "over"} /\ ~ViaRf(c)
  /\ ViaRf(c) => ph[c] \in {"marking", "writing", "await", "over"}
Paths == \A c \in Cmd : PathsOf(c)

LEMMA PathKept ==
  ASSUME NEW c, PathsOf(c), ViaBus(c)' => ViaBus(c), ViaRf(c)' => ViaRf(c),
         ph'[c] = ph[c] \/ ph'[c] = "over"
  PROVE PathsOf(c)'
BY DEF PathsOf

LEMMA DeliverPh ==
  ASSUME ClientType, NEW c \in Cmd, NEW answer, Deliver(c, answer)
  PROVE \A d \in Cmd : ph'[d] = ph[d] \/ ph'[d] = "over"
BY DEF Deliver, ClientType

LEMMA RefusedPh ==
  ASSUME ClientType, NEW c \in Cmd, Refused(c)
  PROVE \A d \in Cmd : ph'[d] = ph[d] \/ ph'[d] = "over"
BY DEF Refused, ClientType

LEMMA PathsStep == ASSUME Types, Reach, InLine, Paths, Next PROVE Paths'
<1> USE DEF Types
<1>0. ASSUME queue' \subseteq queue, conns' \subseteq conns, sent' \subseteq sent,
             bus' = bus \/ bus'.at \notin {"spawn", "failing"},
             rf' = rf \/ rf'.at \notin Handling \/ (rf.at \in Handling /\ rf'.cmd = rf.cmd),
             \A c \in Cmd : ph'[c] = ph[c] \/ ph'[c] = "over"
      PROVE Paths'
  BY <1>0, PathKept DEF Paths, ViaBus, ViaRf
<1>1. CASE Main \/ Start \/ Crash
  <2>1. CASE Gone BY <1>0, <2>1 DEF Gone, Idle, NoThread, At, Handling
  <2>2. CASE ~Gone
    <3>1. UNCHANGED <<queue, bus, conns, sent, ph>>
      BY <1>1, <2>2, MainLeaves DEF clientVars
    <3>2. rf' = rf \/ rf'.at \notin Handling
      BY <1>1, <2>2, MainLeaves DEF start_rfcomm_server, At, Handling
    <3> QED BY <1>0, <3>1, <3>2
  <2> QED BY <2>1, <2>2
<1>2. CASE Bus
  <2>0. UNCHANGED <<rf, conns, sent>> BY <1>2, BusLeaves
  <2>1. ASSUME NEW c \in Cmd, NEW i \in 1 .. Frags, WriteBusy(c, i) PROVE Paths'
    <3>1. queue' \subseteq queue /\ bus' = bus /\ Refused(c) BY <2>1 DEF WriteBusy
    <3> QED BY <1>0, <2>0, <3>1, RefusedPh
  <2>2. ASSUME NEW c \in Cmd, NEW i \in 1 .. Frags, WriteWaits(c, i) PROVE Paths'
    <3>1. /\ <<c, i>> \in queue /\ Acked(c, i, queue \ {<<c, i>>})
          /\ bus' = bus /\ bus = Idle
      BY <2>2, Zenon DEF WriteWaits, Write, Served
    <3>2. ASSUME NEW d \in Cmd \ {c} PROVE PathsOf(d)'
      BY <2>0, <3>1, PathKept DEF Paths, Acked, ViaBus, ViaRf, ClientType
    <3>3. PathsOf(c) /\ ViaBus(c) BY <3>1 DEF Paths, ViaBus
    <3>4. PathsOf(c)'
      <4>1. CASE ph'[c] = "poll"
        <5>1. queue' = queue \ {<<c, i>>}
          BY <3>1, <3>3, <4>1 DEF Acked, PathsOf
        <5>2. \A j \in 1 .. Frags : <<c, j>> \notin queue'
          BY <3>1, <5>1 DEF Reach, ReachOf
        <5>3. ~ViaBus(c)' BY <3>1, <5>2 DEF ViaBus, Idle, At
        <5>4. ~ViaRf(c)' BY <2>0, <3>3 DEF PathsOf, ViaRf
        <5> QED BY <5>3, <5>4 DEF PathsOf
      <4>2. CASE ph'[c] = ph[c]
        BY <2>0, <3>3, <4>2 DEF PathsOf, ViaRf
      <4> QED BY <3>1, <4>1, <4>2 DEF Acked, ClientType
    <3> QED BY <3>2, <3>4 DEF Paths
  <2>3. ASSUME NEW c \in Cmd, NEW i \in 1 .. Frags, WriteCompletes(c, i) PROVE Paths'
    <3>1. /\ <<c, i>> \in queue /\ queue' = queue \ {<<c, i>>}
          /\ \/ bus' = At("spawn", c) /\ UNCHANGED ph
             \/ Refused(c) /\ bus' = bus
      BY <2>3, Zenon DEF WriteCompletes, Write
    <3>2. \A d \in Cmd : ph'[d] = ph[d] \/ ph'[d] = "over" BY <3>1, RefusedPh
    <3>3. \A d \in Cmd : ViaBus(d)' => ViaBus(d) BY <3>1 DEF ViaBus, At
    <3> QED BY <2>0, <3>2, <3>3, PathKept DEF Paths, ViaRf
  <2>4. CASE BusSpawns
    <3>1. bus.cmd \in Cmd /\ bus.at = "spawn" BY <2>4, Handled DEF BusSpawns
    <3>2. CASE bus' = Idle /\ Acked(bus.cmd, Frags, queue)
      <4>1. queue' = queue /\ \A d \in Cmd : d # bus.cmd => ph'[d] = ph[d]
        BY <3>1, <3>2 DEF Acked, ClientType
      <4>2. \A d \in Cmd : ViaBus(d)' => \E j \in 1 .. Frags : <<d, j>> \in queue
        BY <3>2, <4>1 DEF ViaBus, Idle, At
      <4>3. \A d \in Cmd : ViaBus(d)' => ViaBus(d) BY <4>2 DEF ViaBus
      <4>4. ASSUME NEW d \in Cmd, d # bus.cmd PROVE PathsOf(d)'
        BY <2>0, <4>1, <4>3, <4>4, PathKept DEF Paths, ViaRf
      <4>5. ASSUME NEW c \in Cmd, c = bus.cmd PROVE PathsOf(c)'
        <5>1. PathsOf(c) /\ ViaBus(c) BY <3>1, <4>5 DEF Paths, ViaBus
        <5>2. c \in Range(accepted) BY <3>1, <4>5 DEF InLine, Bound
        <5>3. ~ViaBus(c)' BY <4>2, <5>2 DEF Reach, ReachOf
        <5>4. ~ViaRf(c)' BY <2>0, <5>1 DEF PathsOf, ViaRf
        <5> QED BY <5>3, <5>4 DEF PathsOf
      <4> QED BY <3>1, <4>4, <4>5 DEF Paths
    <3>3. CASE bus' = At("failing", bus.cmd) /\ UNCHANGED <<ph, queue>>
      BY <2>0, <3>1, <3>3, PathKept DEF Paths, ViaBus, ViaRf, At
    <3> QED BY <2>4, <3>2, <3>3 DEF BusSpawns
  <2>5. CASE BusFails
    <3>1. bus.cmd \in Cmd /\ bus' = Idle /\ queue' = queue /\ Refused(bus.cmd)
      BY <2>5, Handled DEF BusFails, bluezVars
    <3> QED BY <1>0, <2>0, <3>1, RefusedPh DEF Idle, At
  <2>6. CASE SeeLoss BY <1>0, <2>0, <2>6 DEF SeeLoss, threadVars, clientVars
  <2> QED BY <1>2, <2>1, <2>2, <2>3, <2>4, <2>5, <2>6 DEF Bus
<1>3. CASE RfServer \/ RfEnds(FALSE)
  <2>0. UNCHANGED <<bus, queue>> BY <1>3, RfLeaves DEF bluezVars
  <2>1. ASSUME NEW c \in Cmd, RfAccept(c) PROVE Paths'
    <3>1. /\ c \in conns /\ conns' = conns \ {c} /\ rf' = At("recv", c)
          /\ UNCHANGED <<ph, sent>>
      BY <2>1 DEF RfAccept, Rf
    <3>2. \A d \in Cmd : (ViaBus(d)' => ViaBus(d)) /\ (ViaRf(d)' => ViaRf(d))
      BY <2>0, <3>1 DEF ViaBus, ViaRf, At
    <3> QED BY <3>1, <3>2, PathKept DEF Paths
  <2>2. CASE RfDispatches
    <3>1. rf.cmd \in Cmd /\ rf.at = "recv" /\ sent' \subseteq sent /\ conns' = conns
      BY <2>2, Handled DEF RfDispatches, Rf
    <3>2. rf' = At("spawn", rf.cmd) \/ rf' = NextClient BY <2>2 DEF RfDispatches, Rf
    <3>3. rf'.at \notin Handling \/ (rf.at \in Handling /\ rf'.cmd = rf.cmd)
      BY <3>1, <3>2 DEF NextClient, At, Handling
    <3>4. \A d \in Cmd : ph'[d] = ph[d] \/ ph'[d] = "over"
      BY <2>2, <3>1, DeliverPh DEF RfDispatches
    <3> QED BY <1>0, <2>0, <3>1, <3>3, <3>4
  <2>3. CASE RfFails \/ RfChecks \/ copy_status
    <3>1. rf.cmd \in Cmd /\ UNCHANGED <<sent, conns>>
      BY <2>3, Handled DEF RfFails, RfChecks, copy_status, Rf
    <3>2. rf'.at \notin Handling \/ (rf.at \in Handling /\ rf'.cmd = rf.cmd)
      BY <2>3 DEF RfFails, RfChecks, copy_status, Rf, NextClient, At, Handling
    <3>3. \A d \in Cmd : ph'[d] = ph[d] \/ ph'[d] = "over"
      BY <2>3, <3>1, DeliverPh DEF RfFails, RfChecks, copy_status
    <3> QED BY <1>0, <2>0, <3>1, <3>2, <3>3
  <2>4. CASE RfDrops \/ RfSpawns \/ RfWaits \/ RfEnds(TRUE) \/ RfEnds(FALSE)
    <3>1. UNCHANGED <<sent, conns, ph>> BY <2>4 DEF RfDrops, RfSpawns, RfWaits, RfEnds
    <3>2. rf'.at \notin Handling \/ (rf.at \in Handling /\ rf'.cmd = rf.cmd)
      BY <2>4 DEF RfDrops, RfSpawns, RfWaits, RfEnds, Rf, NextClient, At, Handling
    <3> QED BY <1>0, <2>0, <3>1, <3>2
  <2> QED BY <1>3, <2>1, <2>2, <2>3, <2>4 DEF RfServer
<1>4. CASE Workers BY <1>0, <1>4, WorkerLeaves DEF clientVars, bluezVars
<1>5. CASE Service \/ ServiceDies
  BY <1>0, <1>5, ServiceLeaves DEF clientVars, bluezVars
<1>6. CASE BluezDies \/ BluezReturns \/ Signal
  <2>1. queue' \subseteq queue BY <1>6 DEF BluezDies, BluezReturns, Signal, bluezVars
  <2> QED BY <1>0, <1>6, <2>1, AroundLeaves DEF clientVars, threadVars
<1>7. ASSUME NEW c \in Cmd, Progress(c) \/ Timers(c) PROVE Paths'
  <2>0. UNCHANGED <<bus, rf>> BY <1>7, ClientLeaves DEF threadVars
  <2>1. ASSUME \A d \in Cmd \ {c} : ph'[d] = ph[d]
                 /\ (d \in conns' => d \in conns) /\ (d \in sent' => d \in sent)
                 /\ \A i \in 1 .. Frags : <<d, i>> \in queue' => <<d, i>> \in queue,
               PathsOf(c)'
        PROVE Paths'
    BY <2>0, <2>1, PathKept DEF Paths, ViaBus, ViaRf
  <2>2. PathsOf(c) BY DEF Paths
  <2>3. CASE gatt(c)
    <3>1. /\ queue' = queue \cup {<<c, 1>>} /\ UNCHANGED <<conns, sent>>
          /\ ph' = [ph EXCEPT ![c] = "write"] /\ ph[c] = "gatt"
      BY <2>3 DEF gatt, Client
    <3>2. ph'[c] = "write" /\ \A d \in Cmd \ {c} : ph'[d] = ph[d] BY <3>1 DEF ClientType
    <3>3. ~ViaRf(c)' BY <2>0, <2>2, <3>1 DEF PathsOf, ViaRf
    <3> QED BY <2>1, <3>1, <3>2, <3>3 DEF PathsOf
  <2>4. CASE RfConnect(c)
    <3>1. /\ conns' = conns \cup {c} /\ UNCHANGED <<queue, sent>>
          /\ ph' = [ph EXCEPT ![c] = "marking"] /\ ph[c] = "connect"
      BY <2>4 DEF RfConnect, Client
    <3>2. ph'[c] = "marking" /\ \A d \in Cmd \ {c} : ph'[d] = ph[d]
      BY <3>1 DEF ClientType
    <3>3. ~ViaBus(c)' BY <2>0, <2>2, <3>1 DEF PathsOf, ViaBus
    <3> QED BY <2>1, <3>1, <3>2, <3>3 DEF PathsOf
  <2>5. CASE RfWrites(c)
    <3>1. /\ sent' = sent \cup {c} /\ UNCHANGED <<queue, conns>>
          /\ ph' = [ph EXCEPT ![c] = "await"] /\ ph[c] = "writing"
      BY <2>5 DEF RfWrites, Client
    <3>2. ph'[c] = "await" /\ \A d \in Cmd \ {c} : ph'[d] = ph[d]
      BY <3>1 DEF ClientType
    <3>3. ~ViaBus(c)' BY <2>0, <2>2, <3>1 DEF PathsOf, ViaBus
    <3> QED BY <2>1, <3>1, <3>2, <3>3 DEF PathsOf
  <2>6. CASE RfMarks(c) \/ GattUnready(c) \/ ReadHead(c) \/ ReadTail(c)
    <3>1. /\ UNCHANGED <<queue, conns, sent>>
          /\ \E to : /\ ph' = [ph EXCEPT ![c] = to]
                     /\ \/ to = "over" \/ ph[c] \in {"gatt", "poll", "tail"}
                        \/ ph[c] = "marking" /\ to = "writing"
      BY <2>6 DEF RfMarks, GattUnready, ReadHead, ReadTail, ReadPart, Client
    <3>2. \A d \in Cmd \ {c} : ph'[d] = ph[d] BY <3>1 DEF ClientType
    <3>3. \/ ph'[c] = "over" \/ ph[c] \in {"gatt", "poll", "tail"}
          \/ ph[c] = "marking" /\ ph'[c] = "writing"
      BY <3>1 DEF ClientType
    <3>4. (ViaBus(c)' <=> ViaBus(c)) /\ (ViaRf(c)' <=> ViaRf(c))
      BY <2>0, <3>1 DEF ViaBus, ViaRf
    <3>5. PathsOf(c)' BY <2>2, <3>3, <3>4 DEF PathsOf
    <3> QED BY <2>1, <3>1, <3>2, <3>5
  <2>7. CASE GattFails(c) \/ RfThrows(c)
    <3>1. queue' \subseteq queue /\ conns' \subseteq conns /\ sent' = sent
      BY <2>7 DEF GattFails, RfThrows, Client
    <3>2. \A d \in Cmd : ph'[d] = ph[d] \/ ph'[d] = "over"
      BY <2>7 DEF GattFails, RfThrows, Client, ClientType
    <3> QED BY <1>0, <2>0, <3>1, <3>2
  <2>8. CASE Timers(c)
    <3>1. /\ queue' = queue /\ conns' \subseteq conns /\ UNCHANGED <<sent, ph>>
      BY <2>8 DEF Timers, TimerFires, TimerEnds, Timer, bluezVars
    <3> QED BY <1>0, <2>0, <3>1
  <2> QED BY <1>7, <2>3, <2>4, <2>5, <2>6, <2>7, <2>8 DEF Progress
<1> QED BY <1>1, <1>2, <1>3, <1>4, <1>5, <1>6, <1>7 DEF Next

LEMMA PathsHolds == Spec => []Paths
<1>1. ASSUME Init PROVE Paths
  BY <1>1 DEF Init, Paths, PathsOf, ViaBus, ViaRf, Handling, Idle, NoThread, At
<1>2. ASSUME Base, Reach, InLine, Paths, [Next]_vars PROVE Paths'
  <2>1. CASE Next BY <1>2, <2>1, PathsStep DEF Base
  <2>2. CASE UNCHANGED vars
    BY <1>2, <2>2, PathKept
       DEF Paths, ViaBus, ViaRf, vars, threadVars, bluezVars, clientVars
  <2> QED BY <1>2, <2>1, <2>2
<1> QED BY <1>1, <1>2, BaseHolds, ReachHolds, InLineHolds, PTL DEF Spec

---------------------------------------------------------------------------
(* What is written down about a command is never taken back.               *)
LEMMA HistoryGrows ==
  ASSUME Types, Next
  PROVE Range(accepted) \subseteq Range(accepted') /\ disturbed \subseteq disturbed'
<1> USE DEF Types
<1>0. ASSUME accepted' = accepted PROVE Range(accepted) \subseteq Range(accepted')
  BY <1>0
<1>1. ASSUME NEW c \in Cmd, Claim(c) PROVE Range(accepted) \subseteq Range(accepted')
  BY <1>1, RangeAppend DEF Claim, HistoryType
<1>2. CASE Main \/ Start \/ Crash
  BY <1>0, <1>2, MainLeaves DEF Gone, history
<1>3. CASE Bus
  <2>1. ASSUME NEW c \in Cmd, NEW i \in 1 .. Frags,
               WriteBusy(c, i) \/ WriteWaits(c, i) \/ WriteCompletes(c, i)
        PROVE /\ accepted' = accepted \/ Claim(c)
              /\ disturbed' = disturbed \/ \E D, E : disturbed' = disturbed \cup D \cup E
    <3>1. CASE WriteBusy(c, i) BY <3>1 DEF WriteBusy, history
    <3>2. CASE WriteWaits(c, i)
      <4>1. accepted' = accepted /\ \E D : disturbed' = disturbed \cup D
        BY <3>2, Zenon DEF WriteWaits
      <4>2. \A D : disturbed \cup D = disturbed \cup D \cup {} OBVIOUS
      <4> QED BY <4>1, <4>2
    <3>3. CASE WriteCompletes(c, i)
      <4>1. \/ Claim(c) /\ \E D, E : disturbed' = disturbed \cup D \cup E
            \/ accepted' = accepted /\ \E D : disturbed' = disturbed \cup D
        BY <3>3, Zenon DEF WriteCompletes
      <4>2. \A D : disturbed \cup D = disturbed \cup D \cup {} OBVIOUS
      <4> QED BY <4>1, <4>2
    <3> QED BY <2>1, <3>1, <3>2, <3>3
  <2>2. CASE BusSpawns \/ BusFails \/ SeeLoss
    BY <1>0, <2>2 DEF BusSpawns, BusFails, SeeLoss, set_failed_status, history
  <2> QED BY <1>0, <1>1, <1>3, <2>1, <2>2 DEF Bus
<1>4. CASE RfServer \/ RfEnds(FALSE)
  <2>1. CASE RfDispatches
    BY <1>0, <1>1, <2>1, Handled DEF RfDispatches, Rf, history
  <2>2. CASE ~RfDispatches
    BY <1>0, <1>4, <2>2 DEF RfServer, RfAccept, RfDrops, RfSpawns, RfFails, RfWaits,
      RfChecks, copy_status, RfEnds, set_failed_status, history
  <2> QED BY <2>1, <2>2
<1>5. CASE Workers BY <1>0, <1>5, WorkerLeaves DEF history
<1>6. CASE Service \/ ServiceDies BY <1>0, <1>6, ServiceLeaves DEF history
<1>7. CASE BluezDies \/ BluezReturns \/ Signal BY <1>0, <1>7, AroundLeaves DEF history
<1>8. CASE \E c \in Cmd : Progress(c) \/ Timers(c) BY <1>0, <1>8, ClientLeaves DEF history
<1> QED BY <1>2, <1>3, <1>4, <1>5, <1>6, <1>7, <1>8 DEF Next

(* As long as nothing came between, the table holds exactly the fragments  *)
(* that its client has had acknowledged, and the last acknowledgement means*)
(* that the command was accepted.                                          *)
TableOf(c) ==
  /\ ~wrote[c] => reasm.cmd # c
  /\ <<c, 1>> \in queue => reasm.cmd # c
  /\ \A i \in 2 .. Frags : <<c, i>> \in queue /\ c \notin disturbed /\ ph[c] = "write" =>
       reasm.cmd = c /\ reasm.parts = 1 .. (i - 1)
  /\ ph[c] \in {"poll", "tail"} /\ c \notin disturbed => c \in Range(accepted)
Table == \A c \in Cmd : TableOf(c)

LEMMA TableKept ==
  ASSUME NEW c, TableOf(c), wrote[c] => wrote'[c],
         \A i \in 1 .. Frags : <<c, i>> \in queue' => <<c, i>> \in queue,
         disturbed \subseteq disturbed', Range(accepted) \subseteq Range(accepted'),
         ph'[c] = "write" => ph[c] = "write",
         ph'[c] \in {"poll", "tail"} =>
           ph[c] \in {"poll", "tail"} \/ c \in Range(accepted') \/ c \in disturbed',
         reasm' = reasm \/ (reasm'.cmd # c /\ (reasm.cmd = c => c \in disturbed'))
  PROVE TableOf(c)'
<1>1. 1 \in 1 .. Frags /\ \A i \in 2 .. Frags : i \in 1 .. Frags OBVIOUS
<1>2. (~wrote'[c] => reasm'.cmd # c) /\ (<<c, 1>> \in queue' => reasm'.cmd # c)
  BY <1>1 DEF TableOf
<1>3. \A i \in 2 .. Frags : <<c, i>> \in queue' /\ c \notin disturbed' /\ ph'[c] = "write" =>
        reasm'.cmd = c /\ reasm'.parts = 1 .. (i - 1)
  BY <1>1 DEF TableOf
<1>4. ph'[c] \in {"poll", "tail"} /\ c \notin disturbed' => c \in Range(accepted')
  BY DEF TableOf
<1> QED BY <1>2, <1>3, <1>4 DEF TableOf

(* What a fragment makes of the table of a client that nothing came between.*)
LEMMA TableFull ==
  ASSUME BoxType, NEW c \in Cmd, TableOf(c), NEW i \in 1 .. Frags, <<c, i>> \in queue,
         ph[c] = "write", c \notin disturbed, NEW expired \in BOOLEAN,
         c \notin Interrupts(c, expired)
  PROVE /\ Extended(c, i, Kept(expired)).cmd = c
        /\ Extended(c, i, Kept(expired)).parts = 1 .. i
<1>1. CASE i = 1
  <2>1. Kept(expired).cmd # c BY <1>1 DEF TableOf, Kept, NoParts
  <2>2. 1 .. 1 = {1} OBVIOUS
  <2> QED BY <1>1, <2>1, <2>2 DEF Extended
<1>2. CASE i # 1
  <2>1. reasm.cmd = c /\ reasm.parts = 1 .. (i - 1) BY <1>2 DEF TableOf
  <2>2. ~expired BY <2>1 DEF Interrupts
  <2>3. Kept(expired) = reasm BY <2>2 DEF Kept
  <2>4. {i} \cup 1 .. (i - 1) = 1 .. i OBVIOUS
  <2> QED BY <2>1, <2>3, <2>4 DEF Extended
<1> QED BY <1>1, <1>2

LEMMA TableStep ==
  ASSUME Types, Reach, InLine, Table, Next
  PROVE Table'
<1> USE DEF Types
<1>a. Range(accepted) \subseteq Range(accepted') /\ disturbed \subseteq disturbed'
  BY HistoryGrows
<1>0. ASSUME UNCHANGED <<wrote, reasm>>, queue' \subseteq queue,
             \A c \in Cmd : ph'[c] = ph[c] \/ ph'[c] = "over"
      PROVE Table'
  BY <1>a, <1>0, TableKept DEF Table
<1>1. CASE Main \/ Start \/ Crash
  <2>1. CASE Gone
    <3>1. /\ UNCHANGED <<wrote, ph>> /\ queue' = {} /\ reasm' = NoParts
          /\ \A c \in Cmd : reasm'.cmd # c
      BY <2>1 DEF Gone, NoParts
    <3>2. \A c \in Cmd : TableOf(c)'
      <4> SUFFICES ASSUME NEW c \in Cmd PROVE TableOf(c)' OBVIOUS
      <4>1. ph'[c] \in {"poll", "tail"} /\ c \notin disturbed' => c \in Range(accepted')
        BY <1>a, <3>1 DEF Table, TableOf
      <4> QED BY <3>1, <4>1 DEF TableOf
    <3> QED BY <3>2 DEF Table
  <2> QED BY <1>0, <1>1, <2>1, MainLeaves DEF clientVars
<1>2. CASE Bus
  <2>0. wrote' = wrote BY <1>2, BusLeaves
  <2>1. ASSUME NEW c \in Cmd, NEW i \in 1 .. Frags, WriteBusy(c, i) PROVE Table'
    <3>1. queue' \subseteq queue /\ reasm' = reasm /\ Refused(c) BY <2>1 DEF WriteBusy
    <3> QED BY <1>0, <2>0, <3>1, RefusedPh
  <2>2. ASSUME NEW c \in Cmd, NEW i \in 1 .. Frags, WriteWaits(c, i) PROVE Table'
    <3>1. PICK expired \in BOOLEAN :
            /\ <<c, i>> \in queue /\ Acked(c, i, queue \ {<<c, i>>})
            /\ ~Whole(Extended(c, i, Kept(expired)))
            /\ reasm' = Extended(c, i, Kept(expired))
            /\ disturbed' = disturbed \cup Interrupts(c, expired)
      BY <2>2, Zenon DEF WriteWaits, Write
    <3>2. reasm'.cmd = c BY <3>1 DEF Extended
    <3>3. ASSUME NEW d \in Cmd \ {c} PROVE TableOf(d)'
      <4>1. ph'[d] = ph[d] /\ \A j \in 1 .. Frags : <<d, j>> \in queue' => <<d, j>> \in queue
        BY <3>1 DEF Acked, ClientType
      <4>2. reasm.cmd = d => d \in disturbed' BY <3>1 DEF Interrupts
      <4> QED BY <1>a, <2>0, <3>2, <4>1, <4>2, TableKept DEF Table
    <3>4. TableOf(c)'
      <4>1. wrote[c] /\ \A j \in 1 .. Frags : <<c, j>> \in queue => j = i
        BY <3>1 DEF Reach, ReachOf, Unreached
      <4>2. \A j \in 1 .. Frags : <<c, j>> \in queue' =>
              j = i + 1 /\ ph[c] = "write" /\ ph'[c] = "write"
        BY <3>1, <4>1 DEF Acked
      <4>3. ASSUME c \notin disturbed', ph[c] = "write"
            PROVE reasm'.parts = 1 .. i
        BY <3>1, <4>3, TableFull DEF Table
      <4>4. ASSUME c \notin disturbed', ph'[c] \in {"poll", "tail"}
            PROVE c \in Range(accepted')
        <5>1. CASE ph[c] = "write"
          <6>1. i = Frags BY <3>1, <4>4, <5>1 DEF Acked
          <6> QED BY <3>1, <4>3, <4>4, <5>1, <6>1 DEF Whole
        <5>2. CASE ph[c] # "write"
          BY <1>a, <3>1, <4>4, <5>2 DEF Acked, Table, TableOf
        <5> QED BY <5>1, <5>2
      <4>5. ASSUME NEW j \in 2 .. Frags, <<c, j>> \in queue', c \notin disturbed'
            PROVE reasm'.parts = 1 .. (j - 1)
        <5>1. j = i + 1 /\ ph[c] = "write" BY <4>2, <4>5
        <5>2. j - 1 = i BY <5>1
        <5> QED BY <4>3, <4>5, <5>1, <5>2
      <4>6. <<c, 1>> \notin queue'
        <5>1. 1 \in 1 .. Frags /\ 1 # i + 1 OBVIOUS
        <5> QED BY <4>2, <5>1
      <4> QED BY <2>0, <3>2, <4>1, <4>4, <4>5, <4>6 DEF TableOf
    <3> QED BY <3>3, <3>4 DEF Table
  <2>3. ASSUME NEW c \in Cmd, NEW i \in 1 .. Frags, WriteCompletes(c, i) PROVE Table'
    <3>1. PICK expired \in BOOLEAN :
            /\ <<c, i>> \in queue /\ queue' = queue \ {<<c, i>>} /\ reasm' = NoParts
            /\ \/ disturbed' = disturbed \cup Interrupts(c, expired) \cup Outstanding
               \/ disturbed' = disturbed \cup Interrupts(c, expired)
            /\ UNCHANGED ph \/ Refused(c)
      BY <2>3, Zenon DEF WriteCompletes, Write
    <3>2. /\ \A d \in Cmd : ph'[d] = ph[d] \/ ph'[d] = "over"
          /\ \A d \in Cmd : reasm'.cmd # d
      BY <3>1, RefusedPh DEF NoParts
    <3>3. ASSUME NEW d \in Cmd \ {c} PROVE TableOf(d)'
      <4>1. reasm.cmd = d => d \in disturbed' BY <3>1 DEF Interrupts
      <4> QED BY <1>a, <2>0, <3>1, <3>2, <4>1, TableKept DEF Table
    <3>4. TableOf(c)'
      <4>1. \A j \in 1 .. Frags : <<c, j>> \notin queue'
        BY <3>1 DEF Reach, ReachOf
      <4>2. ph'[c] \in {"poll", "tail"} /\ c \notin disturbed' => c \in Range(accepted')
        BY <1>a, <3>2 DEF Table, TableOf
      <4>3. \A j \in 2 .. Frags : j \in 1 .. Frags OBVIOUS
      <4> QED BY <3>2, <4>1, <4>2, <4>3 DEF TableOf
    <3> QED BY <3>3, <3>4 DEF Table
  <2>4. CASE BusSpawns
    <3>1. bus.cmd \in Cmd /\ bus.at = "spawn" /\ reasm' = reasm
      BY <2>4, Handled DEF BusSpawns
    <3>2. bus.cmd \in Range(accepted) BY <3>1 DEF InLine, Bound
    <3>3. /\ queue' = queue
          /\ \A d \in Cmd : ph'[d] = ph[d] \/ (d = bus.cmd /\ ph'[d] = "poll")
      BY <2>4, <3>1 DEF BusSpawns, Acked, ClientType
    <3> QED BY <1>a, <2>0, <3>1, <3>2, <3>3, TableKept DEF Table
  <2>5. CASE BusFails
    <3>1. bus.cmd \in Cmd /\ queue' = queue /\ reasm' = reasm /\ Refused(bus.cmd)
      BY <2>5, Handled DEF BusFails, bluezVars
    <3> QED BY <1>0, <2>0, <3>1, RefusedPh
  <2>6. CASE SeeLoss BY <1>0, <2>0, <2>6 DEF SeeLoss, clientVars
  <2> QED BY <1>2, <2>1, <2>2, <2>3, <2>4, <2>5, <2>6 DEF Bus
<1>3. CASE RfServer \/ RfEnds(FALSE)
  <2>0. UNCHANGED <<wrote, reasm, queue>> BY <1>3, RfLeaves DEF bluezVars
  <2>1. \A d \in Cmd : ph'[d] = ph[d] \/ ph'[d] = "over"
    <3>1. UNCHANGED ph \/ \E answer : Deliver(rf.cmd, answer) /\ rf.cmd \in Cmd
      BY <1>3, Handled DEF RfServer, RfAccept, RfDrops, RfDispatches, RfSpawns, RfFails,
        RfWaits, RfChecks, copy_status, RfEnds, Rf
    <3> QED BY <3>1, DeliverPh
  <2> QED BY <1>0, <2>0, <2>1
<1>4. CASE Workers BY <1>0, <1>4, WorkerLeaves DEF clientVars, bluezVars
<1>5. CASE Service \/ ServiceDies
  BY <1>0, <1>5, ServiceLeaves DEF clientVars, bluezVars
<1>6. CASE BluezDies \/ BluezReturns \/ Signal
  <2>1. queue' \subseteq queue BY <1>6 DEF BluezDies, BluezReturns, Signal, bluezVars
  <2> QED BY <1>0, <1>6, <2>1, AroundLeaves DEF clientVars
<1>7. ASSUME NEW c \in Cmd, Progress(c) \/ Timers(c) PROVE Table'
  <2>0. reasm' = reasm BY <1>7, ClientLeaves
  <2>1. CASE gatt(c)
    <3>1. /\ queue' = queue \cup {<<c, 1>>} /\ ph[c] = "gatt"
          /\ wrote' = [wrote EXCEPT ![c] = TRUE] /\ ph' = [ph EXCEPT ![c] = "write"]
      BY <2>1 DEF gatt, Client
    <3>2. ASSUME NEW d \in Cmd \ {c} PROVE TableOf(d)'
      BY <1>a, <2>0, <3>1, TableKept DEF Table, ClientType
    <3>3. TableOf(c)'
      <4>1. ~wrote[c] /\ reasm.cmd # c /\ \A j \in 1 .. Frags : <<c, j>> \notin queue
        BY <3>1 DEF Reach, ReachOf, Unreached, Table, TableOf
      <4>2. \A j \in 2 .. Frags : <<c, j>> \notin queue' BY <3>1, <4>1
      <4>3. ph'[c] = "write" BY <3>1 DEF ClientType
      <4> QED BY <2>0, <4>1, <4>2, <4>3 DEF TableOf
    <3> QED BY <3>2, <3>3 DEF Table
  <2>2. CASE ~gatt(c)
    <3>1. /\ queue' \subseteq queue
          /\ \A d \in Cmd : wrote[d] => wrote'[d]
          /\ \A d \in Cmd : \/ ph'[d] = ph[d] \/ {ph[d], ph'[d]} \subseteq {"poll", "tail"}
                            \/ ph'[d] \notin {"write", "poll", "tail"}
      BY <1>7, <2>2 DEF Progress, Timers, GattUnready, GattFails, ReadHead, ReadTail,
        ReadPart, RfConnect, RfMarks, RfWrites, RfThrows, TimerFires, TimerEnds, Timer,
        Client, ClientType, bluezVars
    <3> QED BY <1>a, <2>0, <3>1, TableKept DEF Table
  <2> QED BY <2>1, <2>2
<1> QED BY <1>1, <1>2, <1>3, <1>4, <1>5, <1>6, <1>7 DEF Next

LEMMA TableHolds == Spec => []Table
<1>1. ASSUME Init PROVE Table
  BY <1>1 DEF Init, Table, TableOf, NoParts
<1>2. ASSUME Base, Reach, InLine, Table, [Next]_vars PROVE Table'
  <2>1. CASE Next BY <1>2, <2>1, TableStep DEF Base
  <2>2. CASE UNCHANGED vars
    BY <1>2, <2>2, TableKept DEF Table, vars, bluezVars, clientVars, history
  <2> QED BY <1>2, <2>1, <2>2
<1> QED BY <1>1, <1>2, BaseHolds, ReachHolds, InLineHolds, PTL DEF Spec

---------------------------------------------------------------------------
(* As long as nothing came between, the status is that of the command its  *)
(* client waits for, and it says "working" while a thread works on it.     *)
AtRf(c, places) == rf.at \in places /\ rf.cmd = c
AtWork(c) == worker[c] \in {"start", "call", "answered"}
Works(c) == AtWork(c) \/ (bus.at = "spawn" /\ bus.cmd = c) \/ AtRf(c, {"spawn"})
Fails(c) == (bus.at = "failing" /\ bus.cmd = c) \/ AtRf(c, {"failing"})
OnGatt(c) == ph[c] \in {"write", "poll", "tail"}
Waits(c) == OnGatt(c) \/ AtRf(c, Admitted)
Live(c) == c \in Range(accepted) /\ c \notin disturbed /\ res[c] = "none" /\ Waits(c)
OwnedOf(c) == Live(c) =>
  /\ Last(c)
  /\ status \in {Is("working", c), Is("done", c), Is("failed", c)}
  /\ Works(c) => status.st = "working"
  /\ status.st = "working" => Works(c) \/ Fails(c)
  /\ Fails(c) => ~Works(c)
  /\ AtRf(c, {"copy"}) => status.st # "working"
Owned == \A c \in Cmd : OwnedOf(c)

LEMMA OwnedKept ==
  ASSUME NEW c, OwnedOf(c), UNCHANGED <<accepted, status>>,
         Live(c)' => Live(c), Works(c)' <=> Works(c), Fails(c)' <=> Fails(c),
         AtRf(c, {"copy"})' => AtRf(c, {"copy"})
  PROVE OwnedOf(c)'
<1>1. Last(c)' <=> Last(c) BY DEF Last
<1> QED BY <1>1 DEF OwnedOf

(* Once something came between, it stays that way. *)
LEMMA LiveKept ==
  ASSUME NEW c, accepted' = accepted, disturbed \subseteq disturbed',
         res'[c] = "none" => res[c] = "none",
         OnGatt(c)' => OnGatt(c) \/ c \notin Range(accepted),
         AtRf(c, Admitted)' => AtRf(c, Admitted)
  PROVE Live(c)' => Live(c)
BY DEF Live, Waits

(* Nothing happens to the status or to the threads that work on commands.  *)
LEMMA OwnedFrame ==
  ASSUME Owned, UNCHANGED <<accepted, status, bus>>, disturbed \subseteq disturbed',
         \/ rf' = rf
         \/ /\ rf.at \notin {"spawn", "failing"}
            /\ \/ rf'.at \notin Admitted
               \/ rf.at \in Admitted /\ rf'.cmd = rf.cmd /\ rf'.at \in {"wait", "check"},
         \A c \in Cmd : res'[c] = "none" => res[c] = "none",
         \A c \in Cmd : OnGatt(c)' => OnGatt(c) \/ c \notin Range(accepted),
         \A c \in Cmd : AtWork(c)' <=> AtWork(c)
  PROVE Owned'
<1> SUFFICES ASSUME NEW c \in Cmd PROVE OwnedOf(c)' BY DEF Owned
<1>1. /\ AtRf(c, Admitted)' => AtRf(c, Admitted)
      /\ AtRf(c, {"copy"})' => AtRf(c, {"copy"})
      /\ AtRf(c, {"spawn"})' <=> AtRf(c, {"spawn"})
      /\ AtRf(c, {"failing"})' <=> AtRf(c, {"failing"})
  BY DEF AtRf, Admitted
<1>2. Live(c)' => Live(c) BY <1>1, LiveKept
<1>3. Works(c)' <=> Works(c) BY <1>1 DEF Works
<1>4. Fails(c)' <=> Fails(c) BY <1>1 DEF Fails
<1> QED BY <1>1, <1>2, <1>3, <1>4, OwnedKept DEF Owned

(* A command that is accepted comes between every other one and its client.*)
LEMMA ClaimDisturbs ==
  ASSUME HistoryType, NEW c \in Cmd, Claim(c), res' = res, NEW d \in Cmd, d # c,
         Outstanding \subseteq disturbed'
  PROVE ~Live(d)'
<1>1. Range(accepted') = Range(accepted) \cup {c}
  BY RangeAppend DEF Claim, HistoryType
<1> QED BY <1>1 DEF Live, Outstanding

(* And one whose failure is written over the status, too. *)
LEMMA FailureDisturbs ==
  ASSUME NEW c \in Cmd, set_failed_status(c), accepted' = accepted, NEW d \in Cmd, d # c,
         res'[d] = res[d]
  PROVE ~Live(d)'
BY DEF Live, Outstanding, set_failed_status

(* The command that was accepted. *)
LEMMA ClaimOwned ==
  ASSUME HistoryType, NEW c \in Cmd, Claim(c), ~Fails(c)', ~AtRf(c, {"copy"})', Works(c)'
  PROVE OwnedOf(c)'
<1>1. Last(c)' BY DEF Claim, Last, HistoryType
<1>2. status' = Is("working", c) /\ status'.st = "working" BY DEF Claim, Is
<1> QED BY <1>1, <1>2 DEF OwnedOf

(* The thread that starts a worker is the only one with a command.         *)
LEMMA SpawnsAlone ==
  ASSUME PlaceType, Busy, bus.at = "spawn" \/ rf.at = "spawn"
  PROVE /\ \A d \in Cmd : worker[d] = "none"
        /\ bus.at # "spawn" \/ rf.at # "spawn"
<1>1. ASSUME NEW d \in Cmd, worker[d] # "none", bus.at = "spawn" PROVE FALSE
  <2>1. <<"worker", d>> = <<"bus", bus.cmd>> BY <1>1, Alone, Zenon
  <2> QED BY <2>1
<1>2. ASSUME NEW d \in Cmd, worker[d] # "none", rf.at = "spawn" PROVE FALSE
  <2>1. <<"worker", d>> = <<"rf", rf.cmd>> BY <1>2, Alone, Zenon
  <2> QED BY <2>1
<1>3. ASSUME bus.at = "spawn", rf.at = "spawn" PROVE FALSE
  <2>1. <<"bus", bus.cmd>> = <<"rf", rf.cmd>> BY <1>3, Alone, Zenon
  <2> QED BY <2>1
<1> QED BY <1>1, <1>2, <1>3

(* The command that goes to a worker, or whose worker cannot be started.   *)
LEMMA SpawnOwned ==
  ASSUME Owned, UNCHANGED <<accepted, status>>, NEW c \in Cmd,
         \A d \in Cmd : Live(d)' => Live(d),
         \A d \in Cmd : AtRf(d, {"copy"})' => AtRf(d, {"copy"}),
         \A d \in Cmd : d # c => ((Works(d)' <=> Works(d)) /\ (Fails(d)' <=> Fails(d))),
         Works(c),
         \/ Works(c)' /\ (Fails(c)' => Fails(c))
         \/ ~Works(c)' /\ Fails(c)'
  PROVE Owned'
<1>1. ASSUME NEW d \in Cmd, d # c PROVE OwnedOf(d)'
  BY <1>1, OwnedKept DEF Owned
<1>2. OwnedOf(c)'
  <2>1. Last(c)' <=> Last(c) BY DEF Last
  <2> QED BY <2>1 DEF Owned, OwnedOf
<1> QED BY <1>1, <1>2 DEF Owned

LEMMA OwnedStep ==
  ASSUME Base, Reach, InLine, Paths, Owned, Next
  PROVE Owned'
<1> USE DEF Base, Types
<1>a. disturbed \subseteq disturbed' BY HistoryGrows
<1>b. ASSUME \A d \in Cmd : ~Live(d)' PROVE Owned' BY <1>b DEF Owned, OwnedOf
<1>1. CASE Main \/ Start \/ Crash
  <2>1. CASE Gone
    <3>1. \A d \in Cmd : ~Live(d)'
      BY <2>1 DEF Gone, Live, Waits, OnGatt, AtRf, Admitted, NoThread, At
    <3> QED BY <1>b, <3>1
  <2>2. CASE ~Gone
    <3>1. UNCHANGED <<accepted, status, bus, res, ph, worker>>
      BY <1>1, <2>2, MainLeaves DEF boxVars, clientVars, history
    <3>2. rf' = rf \/ (rf'.at \notin Admitted /\ rf.at \notin {"spawn", "failing"})
      <4>1. CASE start_rfcomm_server
        BY <4>1 DEF start_rfcomm_server, RfThread, Step, At, Admitted
      <4> QED BY <1>1, <2>2, <4>1, MainLeaves
    <3> QED BY <1>a, <3>1, <3>2, OwnedFrame DEF OnGatt, AtWork
  <2> QED BY <2>1, <2>2
<1>2. CASE Bus
  <2>0. rf' = rf BY <1>2, BusLeaves
  <2>1. ASSUME NEW c \in Cmd, Refused(c)
        PROVE /\ \A d \in Cmd : res'[d] = "none" => res[d] = "none"
              /\ \A d \in Cmd : OnGatt(d)' => OnGatt(d)
              /\ \A d \in Cmd : d # c => res'[d] = res[d]
    BY <2>1 DEF Refused, OnGatt, ClientType
  <2>2. ASSUME NEW c \in Cmd, NEW i \in 1 .. Frags, WriteBusy(c, i) PROVE Owned'
    <3>1. Refused(c) /\ UNCHANGED <<accepted, status, bus, worker>>
      BY <2>2 DEF WriteBusy, boxVars, history
    <3> QED BY <1>a, <2>0, <2>1, <3>1, OwnedFrame DEF AtWork
  <2>3. ASSUME NEW c \in Cmd, NEW i \in 1 .. Frags, WriteWaits(c, i) PROVE Owned'
    <3>1. Acked(c, i, queue \ {<<c, i>>}) /\ UNCHANGED <<accepted, status, bus, worker, res>>
      BY <2>3, Zenon DEF WriteWaits, boxVars
    <3>2. \A d \in Cmd : OnGatt(d)' => OnGatt(d) BY <3>1 DEF Acked, OnGatt, ClientType
    <3> QED BY <1>a, <2>0, <3>1, <3>2, OwnedFrame DEF AtWork
  <2>4. ASSUME NEW c \in Cmd, NEW i \in 1 .. Frags, WriteCompletes(c, i) PROVE Owned'
    <3>1. /\ <<c, i>> \in queue /\ worker' = worker
          /\ \/ Claim(c) /\ bus' = At("spawn", c) /\ res' = res
                /\ \E D : disturbed' = D \cup Outstanding
             \/ Refused(c) /\ UNCHANGED <<accepted, status, bus>>
      BY <2>4, Zenon DEF WriteCompletes, Write, boxVars
    <3>2. CASE Refused(c) /\ UNCHANGED <<accepted, status, bus>>
      BY <1>a, <2>0, <2>1, <3>1, <3>2, OwnedFrame DEF AtWork
    <3>3. CASE Claim(c) /\ bus' = At("spawn", c) /\ res' = res
               /\ \E D : disturbed' = D \cup Outstanding
      <4>1. ASSUME NEW d \in Cmd, d # c PROVE OwnedOf(d)'
        <5>1. ~Live(d)' BY <3>3, <4>1, ClaimDisturbs
        <5> QED BY <5>1 DEF OwnedOf
      <4>2. ~ViaRf(c) BY <3>1 DEF Paths, PathsOf, ViaBus
      <4>3. /\ ~Fails(c)' /\ ~AtRf(c, {"copy"})' /\ Works(c)'
        BY <2>0, <3>3, <4>2 DEF Fails, AtRf, Works, ViaRf, Handling, At
      <4>4. OwnedOf(c)' BY <3>3, <4>3, ClaimOwned
      <4> QED BY <4>1, <4>4 DEF Owned
    <3> QED BY <3>1, <3>2, <3>3
  <2>5. ASSUME NEW c, c = bus.cmd, BusSpawns PROVE Owned'
    <3>1. /\ c \in Cmd /\ bus.at = "spawn" /\ bus.cmd = c
          /\ UNCHANGED <<accepted, disturbed, status, res>>
      BY <2>5, Handled DEF BusSpawns, history
    <3>2. (\A d \in Cmd : worker[d] = "none") /\ rf.at # "spawn" BY <3>1, SpawnsAlone
    <3>3. \A d \in Cmd : OnGatt(d)' => OnGatt(d)
      BY <2>5, <3>1 DEF BusSpawns, Acked, OnGatt, ClientType
    <3>4. \A d \in Cmd : Live(d)' => Live(d) BY <2>0, <3>1, <3>3, LiveKept DEF AtRf
    <3>5. \/ bus'.at = "idle" /\ worker' = [worker EXCEPT ![c] = "start"]
          \/ bus'.at = "failing" /\ bus'.cmd = c /\ worker' = worker
      BY <2>5 DEF BusSpawns, SpawnWorker, SpawnFails, Idle, At
    <3>6. \A d \in Cmd : d # c => (AtWork(d)' <=> AtWork(d))
      BY <3>5 DEF AtWork, PlaceType
    <3>7. \A d \in Cmd : d # c => ((Works(d)' <=> Works(d)) /\ (Fails(d)' <=> Fails(d)))
      BY <2>0, <3>1, <3>5, <3>6 DEF Works, Fails, AtRf
    <3>8. \/ Works(c)' /\ (Fails(c)' => Fails(c))
          \/ ~Works(c)' /\ Fails(c)'
      BY <2>0, <3>1, <3>2, <3>5 DEF Works, Fails, AtRf, AtWork, PlaceType
    <3>9. Works(c) BY <3>1 DEF Works
    <3>10. \A d \in Cmd : AtRf(d, {"copy"})' => AtRf(d, {"copy"}) BY <2>0 DEF AtRf
    <3> QED BY <3>1, <3>4, <3>7, <3>8, <3>9, <3>10, SpawnOwned
  <2>6. ASSUME NEW c, c = bus.cmd, BusFails PROVE Owned'
    <3>1. /\ c \in Cmd /\ bus.at = "failing" /\ accepted' = accepted
          /\ set_failed_status(c) /\ Refused(c)
      BY <2>6, Handled DEF BusFails
    <3>2. ph[c] \in {"write", "over"} /\ ~ViaRf(c)
      BY <2>6, <3>1 DEF Paths, PathsOf, ViaBus
    <3>3. ph'[c] = "over" BY <3>1, <3>2 DEF Refused, ClientType
    <3>4. ~Live(c)'
      BY <2>0, <3>2, <3>3 DEF Live, Waits, OnGatt, AtRf, ViaRf, Handling, Admitted
    <3>5. \A d \in Cmd : d # c => ~Live(d)' BY <2>1, <3>1, FailureDisturbs
    <3> QED BY <1>b, <3>4, <3>5
  <2>7. CASE SeeLoss
    BY <1>a, <2>0, <2>7, OwnedFrame
       DEF SeeLoss, boxVars, threadVars, clientVars, history, OnGatt, AtWork
  <2> QED BY <1>2, <2>2, <2>3, <2>4, <2>5, <2>6, <2>7 DEF Bus
<1>3. CASE RfServer \/ RfEnds(FALSE)
  <2>0. bus' = bus BY <1>3, RfLeaves
  <2>1. ASSUME NEW c \in Cmd, NEW answer, Deliver(c, answer)
        PROVE /\ \A d \in Cmd : res'[d] = "none" => res[d] = "none"
              /\ \A d \in Cmd : OnGatt(d)' => OnGatt(d)
              /\ \A d \in Cmd : d # c => res'[d] = res[d]
    BY <2>1 DEF Deliver, OnGatt, ClientType
  <2>2. NextClient.at \notin Admitted BY DEF NextClient, At, Admitted
  <2>3. CASE (\E c \in Cmd : RfAccept(c)) \/ RfDrops \/ RfWaits \/ RfEnds(TRUE) \/ RfEnds(FALSE)
    <3>1. UNCHANGED <<accepted, status, worker, res, ph>>
      BY <2>3 DEF RfAccept, RfDrops, RfWaits, RfEnds, boxVars, history
    <3>2. /\ rf.at \notin {"spawn", "failing"}
          /\ \/ rf'.at \notin Admitted
             \/ rf.at \in Admitted /\ rf'.cmd = rf.cmd /\ rf'.at \in {"wait", "check"}
      BY <2>2, <2>3 DEF RfAccept, RfDrops, RfWaits, RfEnds, Rf, At, Admitted
    <3> QED BY <1>a, <2>0, <3>1, <3>2, OwnedFrame DEF OnGatt, AtWork
  <2>4. ASSUME NEW c, c = rf.cmd, RfDispatches PROVE Owned'
    <3>1. c \in Cmd /\ rf.at = "recv" /\ rf.cmd = c /\ worker' = worker
      BY <2>4, Handled DEF RfDispatches, Rf
    <3>2. CASE rf' = NextClient /\ Deliver(c, Is("failed", c)) /\ UNCHANGED <<status, accepted>>
      BY <1>a, <2>0, <2>1, <2>2, <3>1, <3>2, OwnedFrame DEF AtWork
    <3>3. CASE rf' = At("spawn", c) /\ Claim(c) /\ res' = res
               /\ disturbed' = disturbed \cup Outstanding
      <4>1. ASSUME NEW d \in Cmd, d # c PROVE OwnedOf(d)'
        <5>1. ~Live(d)' BY <3>1, <3>3, <4>1, ClaimDisturbs
        <5> QED BY <5>1 DEF OwnedOf
      <4>2. ~ViaBus(c) BY <3>1 DEF Paths, PathsOf, ViaRf, Handling
      <4>3. /\ ~Fails(c)' /\ ~AtRf(c, {"copy"})' /\ Works(c)'
        BY <2>0, <3>3, <4>2 DEF Fails, AtRf, Works, ViaBus, At
      <4>4. OwnedOf(c)' BY <3>1, <3>3, <4>3, ClaimOwned
      <4> QED BY <4>1, <4>4 DEF Owned
    <3> QED BY <2>4, <3>2, <3>3 DEF RfDispatches, Rf, boxVars, history
  <2>5. ASSUME NEW c, c = rf.cmd, RfSpawns PROVE Owned'
    <3>1. /\ c \in Cmd /\ rf.at = "spawn" /\ rf.cmd = c
          /\ UNCHANGED <<accepted, disturbed, status, res, ph>>
      BY <2>5, Handled DEF RfSpawns, Rf, history
    <3>2. (\A d \in Cmd : worker[d] = "none") /\ bus.at # "spawn" BY <3>1, SpawnsAlone
    <3>3. \/ rf'.at = "wait" /\ rf'.cmd = c /\ worker' = [worker EXCEPT ![c] = "start"]
          \/ rf'.at = "failing" /\ rf'.cmd = c /\ worker' = worker
      BY <2>5 DEF RfSpawns, Rf, SpawnWorker, SpawnFails, At
    <3>4. \A d \in Cmd : AtRf(d, Admitted)' => AtRf(d, Admitted)
      BY <3>1, <3>3 DEF AtRf, Admitted
    <3>5. \A d \in Cmd : Live(d)' => Live(d) BY <3>1, <3>4, LiveKept DEF OnGatt
    <3>6. \A d \in Cmd : d # c => (AtWork(d)' <=> AtWork(d))
      BY <3>3 DEF AtWork, PlaceType
    <3>7. \A d \in Cmd : d # c => ((Works(d)' <=> Works(d)) /\ (Fails(d)' <=> Fails(d)))
      BY <2>0, <3>1, <3>3, <3>6 DEF Works, Fails, AtRf
    <3>8. \/ Works(c)' /\ (Fails(c)' => Fails(c))
          \/ ~Works(c)' /\ Fails(c)'
      BY <2>0, <3>1, <3>2, <3>3 DEF Works, Fails, AtRf, AtWork, PlaceType
    <3>9. Works(c) BY <3>1 DEF Works, AtRf
    <3>10. \A d \in Cmd : AtRf(d, {"copy"})' => AtRf(d, {"copy"}) BY <3>3 DEF AtRf
    <3> QED BY <3>1, <3>5, <3>7, <3>8, <3>9, <3>10, SpawnOwned
  <2>6. ASSUME NEW c, c = rf.cmd, RfFails PROVE Owned'
    <3>1. /\ c \in Cmd /\ rf.at = "failing" /\ accepted' = accepted
          /\ set_failed_status(c) /\ Deliver(c, Is("failed", c)) /\ rf' = NextClient
      BY <2>6, Handled DEF RfFails, Rf
    <3>2. ~OnGatt(c) BY <2>6, <3>1 DEF Paths, PathsOf, ViaRf, Handling, OnGatt
    <3>3. ~Live(c)' BY <2>1, <2>2, <3>1, <3>2 DEF Live, Waits, AtRf
    <3>4. \A d \in Cmd : d # c => ~Live(d)' BY <2>1, <3>1, FailureDisturbs
    <3> QED BY <1>b, <3>3, <3>4
  <2>7. ASSUME NEW c, c = rf.cmd, RfChecks PROVE Owned'
    <3>1. /\ c \in Cmd /\ rf.at = "check" /\ rf.cmd = c
          /\ UNCHANGED <<accepted, disturbed, status, worker>>
      BY <2>7, Handled DEF RfChecks, Rf, boxVars, history
    <3>2. CASE rf' = NextClient /\ Deliver(c, Is("failed", c))
      BY <2>0, <2>1, <2>2, <3>1, <3>2, OwnedFrame DEF AtWork
    <3>3. CASE ~active /\ rf' = At("copy", c) /\ UNCHANGED <<ph, res>>
      <4>1. \A d \in Cmd : AtRf(d, Admitted)' => AtRf(d, Admitted)
        BY <3>1, <3>3 DEF AtRf, Admitted, At
      <4>2. \A d \in Cmd : Live(d)' => Live(d) BY <3>1, <3>3, <4>1, LiveKept DEF OnGatt
      <4>3. \A d \in Cmd : (Works(d)' <=> Works(d)) /\ (Fails(d)' <=> Fails(d))
        BY <2>0, <3>1, <3>3 DEF Works, Fails, AtRf, AtWork, At
      <4>4. ASSUME NEW d \in Cmd, d # c PROVE OwnedOf(d)'
        <5>1. ~AtRf(d, {"copy"})' BY <3>3, <4>4 DEF AtRf, At
        <5> QED BY <3>1, <4>2, <4>3, <5>1, OwnedKept DEF Owned
      <4>5. OwnedOf(c)'
        <5>1. ~Works(c)
          BY <3>1, <3>3, NothingHeld DEF Works, AtWork, AtRf, Held
        <5>2. ~Fails(c)
          BY <3>1 DEF Fails, AtRf, Paths, PathsOf, ViaRf, ViaBus, Handling
        <5>3. Last(c)' <=> Last(c) BY <3>1 DEF Last
        <5> QED BY <3>1, <4>2, <4>3, <5>1, <5>2, <5>3 DEF Owned, OwnedOf
      <4> QED BY <4>4, <4>5 DEF Owned
    <3> QED BY <2>7, <3>2, <3>3 DEF RfChecks, Rf
  <2>8. CASE copy_status
    <3>1. rf.cmd \in Cmd /\ Deliver(rf.cmd, status) /\ UNCHANGED <<accepted, status, worker>>
      BY <2>8, Handled DEF copy_status, Rf, boxVars, history
    <3>2. rf.at \notin {"spawn", "failing"} /\ rf' = NextClient BY <2>8 DEF copy_status, Rf
    <3> QED BY <1>a, <2>0, <2>1, <2>2, <3>1, <3>2, OwnedFrame DEF AtWork
  <2> QED BY <1>3, <2>3, <2>4, <2>5, <2>6, <2>7, <2>8 DEF RfServer
<1>4. ASSUME NEW c \in Cmd, http_request(c) \/ WorkerReports(c) \/ WorkerEnds(c) PROVE Owned'
  <2>0. UNCHANGED <<accepted, disturbed, bus, rf, ph, res>>
    BY <1>4, WorkerLeaves DEF Workers, clientVars, history
  <2>1. CASE http_request(c) \/ WorkerEnds(c)
    <3>1. status' = status BY <2>1 DEF http_request, WorkerEnds, boxVars
    <3>2. \A d \in Cmd : AtWork(d)' <=> AtWork(d)
      BY <2>1 DEF http_request, WorkerEnds, Worker, AtWork, PlaceType
    <3> QED BY <2>0, <3>1, <3>2, OwnedFrame DEF OnGatt
  <2>2. CASE WorkerReports(c)
    <3>1. /\ worker[c] # "none" /\ worker' = [worker EXCEPT ![c] = "reported"]
          /\ status' \in {Is("done", c), Is("failed", c)}
      BY <2>2 DEF WorkerReports, Worker
    <3>2. Last(c) BY <3>1 DEF InLine, Held
    <3>3. \A d \in Cmd : Live(d)' => Live(d)
      BY <2>0 DEF Live, Waits, OnGatt, AtRf
    <3>4. ASSUME NEW d \in Cmd, d # c PROVE OwnedOf(d)'
      BY <3>2, <3>3, <3>4 DEF Owned, OwnedOf, Last
    <3>5. OwnedOf(c)'
      <4>1. bus.at # "spawn" /\ rf.at # "spawn" BY <3>1, SpawnsAlone
      <4>2. ~Works(c)' BY <2>0, <3>1, <4>1 DEF Works, AtWork, AtRf, PlaceType
      <4>3. status'.st # "working" BY <3>1 DEF Is
      <4>4. Last(c)' BY <2>0, <3>2 DEF Last
      <4> QED BY <3>1, <4>2, <4>3, <4>4 DEF OwnedOf
    <3> QED BY <3>4, <3>5 DEF Owned
  <2> QED BY <1>4, <2>1, <2>2
<1>5. CASE Service \/ ServiceDies
  <2>1. UNCHANGED <<accepted, disturbed, status, bus, rf, ph, res>>
    BY <1>5, ServiceLeaves DEF boxVars, clientVars, history
  <2>2. \A d \in Cmd : AtWork(d)' <=> AtWork(d)
    BY <1>5 DEF Service, handle_request, send_json, ServiceDies, AtWork, PlaceType
  <2> QED BY <2>1, <2>2, OwnedFrame DEF OnGatt
<1>6. CASE BluezDies \/ BluezReturns \/ Signal
  BY <1>a, <1>6, AroundLeaves, OwnedFrame
     DEF boxVars, threadVars, clientVars, history, OnGatt, AtWork
<1>7. ASSUME NEW c \in Cmd, Progress(c) \/ Timers(c) PROVE Owned'
  <2>1. UNCHANGED <<accepted, disturbed, status, bus, rf, worker>>
    BY <1>7, ClientLeaves DEF boxVars, threadVars, history
  <2>2. \A d \in Cmd : res'[d] = "none" => res[d] = "none"
    BY <1>7 DEF Progress, Timers, gatt, GattUnready, GattFails, ReadHead, ReadTail,
      RfConnect, RfMarks, RfWrites, RfThrows, TimerFires, TimerEnds, Outcome, ClientType
  <2>3. \A d \in Cmd : OnGatt(d)' => OnGatt(d) \/ d \notin Range(accepted)
    <3>1. CASE gatt(c)
      <4>1. ph[c] = "gatt" /\ ph' = [ph EXCEPT ![c] = "write"] BY <3>1 DEF gatt, Client
      <4>2. c \notin Range(accepted) BY <4>1 DEF Reach, ReachOf, Unreached
      <4> QED BY <4>1, <4>2 DEF OnGatt, ClientType
    <3>2. CASE ~gatt(c)
      BY <1>7, <3>2 DEF Progress, Timers, GattUnready, GattFails, ReadHead, ReadTail,
        ReadPart, RfConnect, RfMarks, RfWrites, RfThrows, TimerFires, TimerEnds, Timer,
        Client, ClientType, OnGatt
    <3> QED BY <3>1, <3>2
  <2> QED BY <2>1, <2>2, <2>3, OwnedFrame DEF AtWork
<1> QED BY <1>1, <1>2, <1>3, <1>4, <1>5, <1>6, <1>7 DEF Next, Workers

LEMMA OwnedHolds == Spec => []Owned
<1>1. ASSUME Init PROVE Owned
  BY <1>1 DEF Init, Owned, OwnedOf, Live, Range
<1>2. ASSUME Base, Reach, InLine, Paths, Owned, [Next]_vars PROVE Owned'
  <2>1. CASE Next BY <1>2, <2>1, OwnedStep
  <2>2. CASE UNCHANGED vars
    BY <1>2, <2>2, OwnedFrame
       DEF vars, boxVars, threadVars, clientVars, history, OnGatt, AtWork
  <2> QED BY <1>2, <2>1, <2>2
<1> QED BY <1>1, <1>2, BaseHolds, ReachHolds, InLineHolds, PathsHolds, PTL DEF Spec

---------------------------------------------------------------------------
(* What a client has read; the status stays what it was between the two    *)
(* parts of a final answer.                                                *)
Final(c) == {Is("done", c), Is("failed", c)}
ReplyOf(c) ==
  /\ res[c] = "reply" =>
       /\ ph[c] = "over"
       /\ c \notin disturbed => /\ Head(got[c]) \in Final(c)
                                /\ \A i \in DOMAIN got[c] : got[c][i] = Head(got[c])
  /\ res[c] # "none" => ph[c] = "over" \/ timer[c] = "closed"
  /\ ph[c] = "tail" => \E s : /\ got[c] = <<s>>
                              /\ c \notin disturbed /\ s.st # "working" => status = s
Replies == \A c \in Cmd : ReplyOf(c)

LEMMA ReplyKept ==
  ASSUME NEW c, ReplyOf(c), got'[c] = got[c], res'[c] = res[c],
         disturbed \subseteq disturbed', timer[c] = "closed" => timer'[c] = "closed",
         ph'[c] = ph[c] \/ (ph[c] # "over" /\ ph'[c] # "tail"),
         ph[c] = "tail" /\ c \notin disturbed' /\ status.st # "working" => status' = status
  PROVE ReplyOf(c)'
<1>1. res'[c] = "reply" => /\ ph'[c] = "over"
                           /\ c \notin disturbed' =>
                                /\ Head(got'[c]) \in Final(c)
                                /\ \A i \in DOMAIN got'[c] : got'[c][i] = Head(got'[c])
  BY DEF ReplyOf
<1>2. res'[c] # "none" => ph'[c] = "over" \/ timer'[c] = "closed" BY DEF ReplyOf
<1>3. ASSUME ph'[c] = "tail"
      PROVE \E s : /\ got'[c] = <<s>>
                   /\ c \notin disturbed' /\ s.st # "working" => status' = s
  <2>1. ph[c] = "tail" BY <1>3
  <2>2. PICK s : /\ got[c] = <<s>>
                 /\ c \notin disturbed /\ s.st # "working" => status = s
    BY <2>1 DEF ReplyOf
  <2>3. c \notin disturbed' /\ s.st # "working" => status' = s BY <2>1, <2>2
  <2> QED BY <2>2, <2>3
<1> QED BY <1>1, <1>2, <1>3 DEF ReplyOf, Final

LEMMA NoReply ==
  ASSUME NEW c, res'[c] # "reply", ph'[c] # "tail",
         ph'[c] = "over" \/ timer'[c] = "closed" \/ res'[c] = "none"
  PROVE ReplyOf(c)'
BY DEF ReplyOf

(* A client between the two parts still waits for its own answer.          *)
LEMMA TailLive ==
  ASSUME Reach, Table, Replies, NEW c \in Cmd, ph[c] = "tail", c \notin disturbed
  PROVE Live(c)
<1>1. c \in Range(accepted) BY DEF Table, TableOf
<1>2. timer[c] = "armed" BY DEF Reach, ReachOf, Executing
<1>3. res[c] = "none" BY <1>2 DEF Replies, ReplyOf
<1> QED BY <1>1, <1>3 DEF Live, Waits, OnGatt

(* So nobody changes its final status, unless something comes between.     *)
LEMMA TailStatus ==
  ASSUME Types, InLine, Paths, Owned, Next, NEW c \in Cmd, Live(c), ph[c] = "tail",
         c \notin disturbed', status.st # "working"
  PROVE status' = status
<1> USE DEF Types
<1>0. ASSUME NEW d \in Cmd, set_failed_status(d), d # c PROVE FALSE
  BY <1>0 DEF set_failed_status, Live, Outstanding
<1>1. CASE Main \/ Start \/ Crash
  BY <1>1, MainLeaves DEF Gone, boxVars
<1>2. CASE Bus
  <2>1. ASSUME NEW d \in Cmd, NEW i \in 1 .. Frags,
               WriteBusy(d, i) \/ WriteWaits(d, i) \/ WriteCompletes(d, i)
        PROVE status' = status
    <3>1. status' = status \/ \E D : disturbed' = D \cup Outstanding
      BY <2>1, Zenon DEF WriteBusy, WriteWaits, WriteCompletes, boxVars
    <3> QED BY <3>1 DEF Live, Outstanding
  <2>2. CASE BusSpawns \/ SeeLoss BY <2>2 DEF BusSpawns, SeeLoss, boxVars
  <2>3. CASE BusFails
    <3>1. bus.cmd \in Cmd /\ bus.at = "failing" /\ set_failed_status(bus.cmd)
      BY <2>3, Handled DEF BusFails
    <3>2. bus.cmd # c BY <3>1 DEF Paths, PathsOf, ViaBus
    <3> QED BY <1>0, <3>1, <3>2
  <2> QED BY <1>2, <2>1, <2>2, <2>3 DEF Bus
<1>3. CASE RfServer \/ RfEnds(FALSE)
  <2>1. CASE RfDispatches
    BY <2>1 DEF RfDispatches, Live, Outstanding, boxVars
  <2>2. CASE RfFails
    <3>1. rf.cmd \in Cmd /\ rf.at = "failing" /\ set_failed_status(rf.cmd)
      BY <2>2, Handled DEF RfFails, Rf
    <3>2. rf.cmd # c BY <3>1 DEF Paths, PathsOf, ViaRf, Handling
    <3> QED BY <1>0, <3>1, <3>2
  <2>3. CASE ~RfDispatches /\ ~RfFails
    BY <1>3, <2>3 DEF RfServer, RfAccept, RfEnds, RfDrops, RfSpawns, RfWaits, RfChecks,
      copy_status, boxVars
  <2> QED BY <2>1, <2>2, <2>3
<1>4. ASSUME NEW d \in Cmd, http_request(d) \/ WorkerReports(d) \/ WorkerEnds(d)
      PROVE status' = status
  <2>1. CASE WorkerReports(d)
    <3>1. AtWork(d) BY <2>1 DEF WorkerReports, Worker, AtWork
    <3>2. Last(d) /\ Last(c) BY <3>1 DEF AtWork, InLine, Held, Owned, OwnedOf
    <3>3. Works(c) BY <3>1, <3>2 DEF Last, Works
    <3> QED BY <3>3 DEF Owned, OwnedOf
  <2> QED BY <1>4, <2>1 DEF http_request, WorkerEnds, boxVars
<1>5. CASE Service \/ ServiceDies BY <1>5, ServiceLeaves DEF boxVars
<1>6. CASE BluezDies \/ BluezReturns \/ Signal BY <1>6, AroundLeaves DEF boxVars
<1>7. CASE \E d \in Cmd : Progress(d) \/ Timers(d) BY <1>7, ClientLeaves DEF boxVars
<1> QED BY <1>1, <1>2, <1>3, <1>4, <1>5, <1>6, <1>7 DEF Next, Workers

(* Two parts that agree. *)
LEMMA SecondPart ==
  ASSUME NEW S, NEW a \in S, NEW b \in S
  PROVE /\ Head(<<a>>) = a
        /\ a = b => /\ Head(Append(<<a>>, b)) = b
                    /\ \A i \in DOMAIN Append(<<a>>, b) : Append(<<a>>, b)[i] = b
<1>1. <<a>> \in Seq(S) /\ Len(<<a>>) = 1 /\ <<a>>[1] = a OBVIOUS
<1>2. Head(<<a>>) = a OBVIOUS
<1>3. /\ Append(<<a>>, b) \in Seq(S) /\ Len(Append(<<a>>, b)) = 2
      /\ Append(<<a>>, b)[1] = a /\ Append(<<a>>, b)[2] = b
  BY <1>1
<1>4. DOMAIN Append(<<a>>, b) = 1 .. 2 BY <1>3
<1>5. Head(Append(<<a>>, b)) = a BY <1>3
<1> QED BY <1>2, <1>3, <1>4, <1>5

LEMMA RepliesStep ==
  ASSUME Types, Reach, InLine, Paths, Table, Owned, Replies, Next
  PROVE Replies'
<1> USE DEF Types
<1>a. disturbed \subseteq disturbed' BY HistoryGrows
<1>b. ASSUME NEW c \in Cmd, UNCHANGED <<timer, got>>, res'[c] = res[c],
             ph'[c] = ph[c] \/ (ph[c] # "over" /\ ph'[c] # "tail")
      PROVE ReplyOf(c)'
  <2>1. ph[c] = "tail" /\ c \notin disturbed' /\ status.st # "working" => status' = status
    BY <1>a, TailLive, TailStatus
  <2> QED BY <1>a, <1>b, <2>1, ReplyKept DEF Replies
<1>c. ASSUME NEW c \in Cmd, res'[c] = res[c], ph'[c] = ph[c], got'[c] = got[c],
             timer[c] = "closed" => timer'[c] = "closed"
      PROVE ReplyOf(c)'
  <2>1. ph[c] = "tail" /\ c \notin disturbed' /\ status.st # "working" => status' = status
    BY <1>a, TailLive, TailStatus
  <2> QED BY <1>a, <1>c, <2>1, ReplyKept DEF Replies
<1>0. ASSUME UNCHANGED <<timer, got, res, ph>> PROVE Replies'
  BY <1>0, <1>b DEF Replies
<1>1. CASE Main \/ Start \/ Crash BY <1>0, <1>1, MainLeaves DEF Gone, clientVars
<1>2. CASE Bus
  <2>0. UNCHANGED <<timer, got>> BY <1>2, BusLeaves
  <2>1. ASSUME NEW c \in Cmd, Refused(c) PROVE Replies'
    <3>1. \A d \in Cmd : d # c => res'[d] = res[d] /\ ph'[d] = ph[d]
      BY <2>1 DEF Refused, ClientType
    <3>2. CASE ph[c] = "write"
      <4>1. ph'[c] = "over" /\ res'[c] = "unknown" BY <2>1, <3>2 DEF Refused, ClientType
      <4> QED BY <1>b, <2>0, <3>1, <4>1, NoReply DEF Replies
    <3>3. CASE ph[c] # "write" BY <1>0, <2>0, <2>1, <3>3 DEF Refused
    <3> QED BY <3>2, <3>3
  <2>2. ASSUME NEW c \in Cmd, NEW i, NEW q, Acked(c, i, q), res' = res PROVE Replies'
    <3>1. \A d \in Cmd : ph'[d] = ph[d] \/ (ph[d] # "over" /\ ph'[d] # "tail")
      BY <2>2 DEF Acked, ClientType
    <3> QED BY <1>b, <2>0, <2>2, <3>1 DEF Replies
  <2>3. ASSUME NEW c \in Cmd, NEW i \in 1 .. Frags,
               WriteBusy(c, i) \/ WriteWaits(c, i) \/ WriteCompletes(c, i)
        PROVE Replies'
    <3>1. \/ Refused(c)
          \/ Acked(c, i, queue \ {<<c, i>>}) /\ res' = res
          \/ UNCHANGED <<ph, res>>
      BY <2>3, Zenon DEF WriteBusy, WriteWaits, WriteCompletes
    <3> QED BY <1>0, <2>0, <2>1, <2>2, <3>1
  <2>4. CASE BusSpawns
    <3>1. bus.cmd \in Cmd /\ res' = res BY <2>4, Handled DEF BusSpawns
    <3>2. Acked(bus.cmd, Frags, queue) \/ UNCHANGED ph BY <2>4 DEF BusSpawns
    <3> QED BY <1>0, <2>0, <2>2, <3>1, <3>2
  <2>5. CASE BusFails
    <3>1. bus.cmd \in Cmd /\ Refused(bus.cmd) BY <2>5, Handled DEF BusFails
    <3> QED BY <2>1, <3>1
  <2>6. CASE SeeLoss BY <1>0, <2>6 DEF SeeLoss, clientVars
  <2> QED BY <1>2, <2>3, <2>4, <2>5, <2>6 DEF Bus
<1>3. CASE RfServer \/ RfEnds(FALSE)
  <2>0. timer' = timer BY <1>3, RfLeaves
  <2>1. ASSUME NEW c \in Cmd, NEW answer, Deliver(c, answer),
               ph[c] = "await" /\ timer[c] = "armed" /\ c \notin disturbed' =>
                 answer \in Final(c)
        PROVE Replies'
    <3>1. CASE UNCHANGED <<ph, got, res>> BY <1>0, <2>0, <3>1
    <3>2. CASE ~UNCHANGED <<ph, got, res>>
      <4>1. /\ ph[c] = "await" /\ timer[c] = "armed"
            /\ ph'[c] = "over" /\ got'[c] = <<answer, answer>> /\ res'[c] = "reply"
            /\ \A d \in Cmd : d # c => res'[d] = res[d] /\ ph'[d] = ph[d] /\ got'[d] = got[d]
        BY <2>1, <3>2 DEF Deliver, ClientType, GotType
      <4>2. /\ Head(got'[c]) = answer
            /\ \A i \in DOMAIN got'[c] : got'[c][i] = answer
        BY <4>1
      <4>3. ReplyOf(c)' BY <2>1, <4>1, <4>2 DEF ReplyOf, Final
      <4> QED BY <1>c, <2>0, <4>1, <4>3 DEF Replies
    <3> QED BY <3>1, <3>2
  <2>2. ASSUME NEW c \in Cmd, Deliver(c, Is("failed", c)) PROVE Replies'
    BY <2>1, <2>2 DEF Final
  <2>3. CASE (\E c \in Cmd : RfAccept(c)) \/ RfDrops \/ RfSpawns \/ RfWaits
             \/ RfEnds(TRUE) \/ RfEnds(FALSE)
    BY <1>0, <2>0, <2>3 DEF RfAccept, RfDrops, RfSpawns, RfWaits, RfEnds
  <2>4. CASE RfDispatches \/ RfFails \/ RfChecks
    <3>1. rf.cmd \in Cmd /\ (Deliver(rf.cmd, Is("failed", rf.cmd)) \/ UNCHANGED <<ph, got, res>>)
      BY <2>4, Handled DEF RfDispatches, RfFails, RfChecks, Rf
    <3> QED BY <1>0, <2>0, <2>2, <3>1
  <2>5. ASSUME NEW c, c = rf.cmd, copy_status PROVE Replies'
    <3>1. c \in Cmd /\ rf.at = "copy" /\ rf.cmd = c /\ Deliver(c, status)
      BY <2>5, Handled DEF copy_status, Rf
    <3>2. ASSUME ph[c] = "await", timer[c] = "armed", c \notin disturbed'
          PROVE status \in Final(c)
      <4>1. res[c] = "none" BY <3>1, <3>2 DEF Replies, ReplyOf
      <4>2. c \in Range(accepted) BY <3>1 DEF InLine, Bound, Admitted
      <4>3. Live(c)
        BY <1>a, <3>1, <3>2, <4>1, <4>2 DEF Live, Waits, AtRf, Admitted
      <4>4. AtRf(c, {"copy"}) BY <3>1 DEF AtRf
      <4> QED BY <3>1, <4>3, <4>4 DEF Owned, OwnedOf, Final, Is
    <3> QED BY <2>1, <3>1, <3>2
  <2> QED BY <1>3, <2>3, <2>4, <2>5 DEF RfServer
<1>4. CASE Workers BY <1>0, <1>4, WorkerLeaves DEF clientVars
<1>5. CASE Service \/ ServiceDies BY <1>0, <1>5, ServiceLeaves DEF clientVars
<1>6. CASE BluezDies \/ BluezReturns \/ Signal BY <1>0, <1>6, AroundLeaves DEF clientVars
<1>7. ASSUME NEW c \in Cmd, Progress(c) \/ Timers(c) PROVE Replies'
  <2>0. status' = status /\ disturbed' = disturbed
    BY <1>7, ClientLeaves DEF boxVars, history
  <2>1. ASSUME NEW d \in Cmd, d # c PROVE ReplyOf(d)'
    <3>1. UNCHANGED <<ph[d], got[d], res[d], timer[d]>>
      BY <1>7, <2>1 DEF Progress, Timers, gatt, GattUnready, GattFails, ReadHead, ReadTail,
        ReadPart, RfConnect, RfMarks, RfWrites, RfThrows, TimerFires, TimerEnds, Timer,
        Client, Outcome, ClientType, GotType
    <3> QED BY <1>c, <3>1
  <2>2. CASE gatt(c) \/ RfConnect(c) \/ RfMarks(c) \/ RfWrites(c)
    <3>1. /\ UNCHANGED <<timer, got, res>>
          /\ ph[c] # "over" /\ ph'[c] # "tail"
      BY <2>2 DEF gatt, RfConnect, RfMarks, RfWrites, Client, ClientType
    <3> QED BY <1>b, <2>1, <3>1 DEF Replies
  <2>3. CASE GattUnready(c) \/ GattFails(c)
    <3>1. /\ ph'[c] # "tail" /\ ph[c] \in {"gatt", "write", "poll", "tail"}
          /\ \/ ph'[c] = "over" /\ res'[c] \in {"failed", "unknown"}
             \/ UNCHANGED <<timer, got, res>>
      BY <2>3 DEF GattUnready, GattFails, Client, Outcome, ClientType
    <3> QED BY <1>b, <2>1, <3>1, NoReply DEF Replies
  <2>4. CASE RfThrows(c)
    <3>1. ph'[c] = "over" /\ ph[c] # "over" /\ UNCHANGED <<timer, got>>
      BY <2>4 DEF RfThrows, Client, ClientType
    <3>2. res'[c] = res[c] \/ res'[c] \in {"failed", "unknown"}
      BY <2>4 DEF RfThrows, Outcome, ClientType
    <3> QED BY <1>b, <2>1, <3>1, <3>2, NoReply DEF Replies
  <2>5. CASE TimerFires(c)
    <3>1. UNCHANGED <<res, ph, got>> /\ timer[c] = "armed"
      BY <2>5 DEF TimerFires, Timer
    <3> QED BY <1>c, <2>1, <3>1 DEF Replies
  <2>6. CASE TimerEnds(c)
    <3>1. /\ timer[c] = "won" /\ timer'[c] = "closed" /\ ph' = ph
          /\ res'[c] \in {"failed", "unknown"}
      BY <2>6 DEF TimerEnds, Timer, Outcome, ClientType
    <3>2. ph[c] # "tail" BY <3>1 DEF Reach, ReachOf, Executing
    <3> QED BY <2>1, <3>1, <3>2, NoReply DEF Replies
  <2>7. CASE ReadHead(c)
    <3>1. /\ ph[c] = "poll" /\ ph'[c] = "tail" /\ got'[c] = <<status>>
          /\ UNCHANGED <<res, timer>>
      BY <2>7 DEF ReadHead, ReadPart, Client, ClientType, GotType
    <3>2. res[c] = "none" BY <3>1 DEF Replies, ReplyOf, Reach, ReachOf, Executing
    <3>3. ReplyOf(c)' BY <2>0, <3>1, <3>2 DEF ReplyOf
    <3> QED BY <2>1, <3>3 DEF Replies
  <2>8. CASE ReadTail(c)
    <3>1. ph[c] = "tail" /\ timer' = timer
      BY <2>8 DEF ReadTail, ReadPart, Client
    <3>2. CASE ph'[c] = "poll" /\ res' = res
      <4>1. res[c] = "none" BY <3>1 DEF Replies, ReplyOf, Reach, ReachOf, Executing
      <4> QED BY <2>1, <3>2, <4>1, NoReply DEF Replies
    <3>3. CASE /\ ph'[c] = "over" /\ res'[c] = "reply"
               /\ Head(got[c]).st # "working" /\ got'[c] = Append(got[c], status)
      <4>1. PICK s : /\ got[c] = <<s>>
                     /\ c \notin disturbed /\ s.st # "working" => status = s
        BY <3>1 DEF Replies, ReplyOf
      <4>2. s \in Status /\ status \in Status
        <5>1. <<s>> \in Seq(Status) BY <4>1 DEF GotType
        <5>2. Len(<<s>>) = 1 /\ <<s>>[1] = s OBVIOUS
        <5> QED BY <5>1, <5>2 DEF BoxType
      <4>3. s.st # "working" /\ got'[c] = Append(<<s>>, status)
        BY <3>3, <4>1, <4>2, SecondPart
      <4>4. ASSUME c \notin disturbed
            PROVE /\ Head(got'[c]) \in Final(c)
                  /\ \A i \in DOMAIN got'[c] : got'[c][i] = Head(got'[c])
        <5>1. s = status /\ Live(c) BY <3>1, <4>1, <4>3, <4>4, TailLive
        <5>2. status \in Final(c) BY <4>3, <5>1 DEF Owned, OwnedOf, Final, Is
        <5> QED BY <4>2, <4>3, <5>1, <5>2, SecondPart
      <4>5. ReplyOf(c)' BY <2>0, <3>3, <4>4 DEF ReplyOf, Final
      <4> QED BY <2>1, <4>5 DEF Replies
    <3> QED BY <2>8, <3>2, <3>3
          DEF ReadTail, ReadPart, Client, Outcome, ClientType, GotType
  <2> QED BY <1>7, <2>2, <2>3, <2>4, <2>5, <2>6, <2>7, <2>8 DEF Progress, Timers
<1> QED BY <1>1, <1>2, <1>3, <1>4, <1>5, <1>6, <1>7 DEF Next

LEMMA RepliesHold == Spec => []Replies
<1>1. ASSUME Init PROVE Replies
  BY <1>1 DEF Init, Replies, ReplyOf
<1>2. ASSUME Base, Reach, InLine, Paths, Table, Owned, Replies, [Next]_vars PROVE Replies'
  <2>1. CASE Next BY <1>2, <2>1, RepliesStep DEF Base
  <2>2. CASE UNCHANGED vars
    BY <1>2, <2>2, ReplyKept DEF Replies, vars, boxVars, clientVars, history
  <2> QED BY <1>2, <2>1, <2>2
<1> QED BY <1>1, <1>2, BaseHolds, ReachHolds, InLineHolds, PathsHolds, TableHolds,
  OwnedHolds, PTL DEF Spec

(* The answer a client gets is the final one of its own command, unless    *)
(* something came between, and "done" only if the service did carry it     *)
(* out: over GATT in two reads and over RFCOMM in one, for any number of   *)
(* commands and fragments.                                                 *)
THEOREM AnswerOwn == Spec => []AnswerIsOwn
<1>1. ASSUME Carried, Replies PROVE AnswerIsOwn
  BY <1>1 DEF Carried, Told, Replies, ReplyOf, Final, AnswerIsOwn
<1> QED BY <1>1, CarriedHolds, RepliesHold, PTL
=============================================================================
