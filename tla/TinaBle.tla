------------------------------ MODULE TinaBle ------------------------------
(***************************************************************************)
(* device/tina_ble.c: the helper that takes Wi-Fi commands over GATT and   *)
(* over RFCOMM and passes them to the HTTP service of the device, from its *)
(* start to its exit, with the Android client that sends the commands      *)
(* (ProvisioningClient.kt), the service that carries them out one after    *)
(* the other (tina_service.c), BlueZ and the supervisor that starts the    *)
(* helper again.                                                           *)
(*                                                                         *)
(* Threads of the helper: main; whoever dispatches D-Bus messages (main    *)
(* while it waits in bluez_call, the dispatcher thread in between: "bus"); *)
(* the RFCOMM server ("rf"); a worker for the command in progress.  An     *)
(* action is one section under g_state_lock, one D-Bus message handled, or *)
(* one call of another process.  A command stands for itself: what it asks *)
(* for, what is answered and the time a deadline takes are left out.       *)
(***************************************************************************)
EXTENDS Naturals, Sequences, FiniteSets, Functions

CONSTANTS
  Cmd,        \* commands, each sent once, by a client of its own
  AutoCmd,    \* those that may go over RFCOMM, at once or after GATT failed
  None,
  Frags,      \* fragments of a command over GATT
  MaxFaults   \* bound on what goes wrong

ASSUME CmdAssumption == None \notin Cmd /\ AutoCmd \subseteq Cmd
ASSUME BoundAssumption == Frags \in Nat \ {0} /\ MaxFaults \in Nat

VARIABLES
  (* main: its position, the *_registered and *_started flags that are set,*)
  (* g_signal_stop, g_stop, g_bluez_lost; the ready marker on disk.        *)
  main, has, sig, stop, lost, marker,
  (* g_worker_active, g_status, g_reassembly, and the other threads.       *)
  active, status, reasm, bus, rf, worker,
  (* The HTTP service: requests it has not read, the one whose answer it   *)
  (* owes, the commands it has carried out.                                *)
  backlog, serving, ran,
  (* BlueZ: running, what is registered with it, writes on their way to the*)
  (* helper, and whether the loss of its bus name is still to be seen.     *)
  bluez, regs, queue, lossMsg,
  (* Clients: position of the command, wrote, the timer of an RFCOMM       *)
  (* command, the status parts read, the outcome; RFCOMM connections not   *)
  (* accepted yet and commands whose bytes are written.                    *)
  ph, wrote, timer, got, res, conns, sent,
  (* Commands in the order they were accepted; commands another one, a     *)
  (* slow fragment or an exit of the helper got between; what went wrong.  *)
  accepted, disturbed, faults

mainVars == <<main, has, sig, stop, lost, marker>>
boxVars == <<active, status>>
threadVars == <<bus, rf, worker>>
serviceVars == <<backlog, serving, ran>>
bluezVars == <<bluez, regs, queue, lossMsg>>
clientVars == <<ph, wrote, timer, got, res, conns, sent>>
history == <<accepted, disturbed>>
vars == <<mainVars, boxVars, reasm, threadVars, serviceVars, bluezVars,
          clientVars, history, faults>>

Status == [st : {"ready"}, cmd : {None}] \cup
          [st : {"working", "done", "failed"}, cmd : Cmd]
Ready == [st |-> "ready", cmd |-> None]
Is(st, c) == [st |-> st, cmd |-> c]
NoParts == [cmd |-> None, parts |-> {}]
At(place, c) == [at |-> place, cmd |-> c]
Idle == At("idle", None)
NoThread == At("none", None)

Fault == faults < MaxFaults /\ faults' = faults + 1
FaultIf(p) == IF p THEN Fault ELSE UNCHANGED faults

(***************************************************************************)
(* Who dispatches D-Bus messages: main during its calls of BlueZ, and the  *)
(* dispatcher thread from the moment it is started until it is joined.     *)
(***************************************************************************)
Leaving == {"clear", "stoprf", "joinrf", "stopbus", "adv-", "app-", "agent-", "exit"}
What(step) == CASE step = "adv-" -> "adv" [] step = "app-" -> "app"
                [] step = "agent-" -> "agent" [] OTHER -> "nothing"
InCall == \/ main \in {"setup", "app", "adv"}
          \/ main \in {"adv-", "app-", "agent-"} /\ What(main) \in has /\ ~lost
Served == bus = Idle /\ (InCall \/ "disp" \in has)
(* MUTANT of Shut: the listening socket is not shut down.                  *)
NeverShut == FALSE
Shut == main \in Leaving \ {"clear", "stoprf"}
Stopping == stop \/ Shut

---------------------------------------------------------------------------
(* main: set up, serve, take everything down in the opposite order.        *)

Step(from, to) == main = from /\ main' = to

(* supervise_service: the marker of an earlier helper is removed first.    *)
Start ==
  /\ Step("down", "setup")
  /\ bluez
  /\ marker' = "none"
  /\ UNCHANGED <<has, sig, stop, lost, boxVars, reasm, threadVars, serviceVars,
                 bluezVars, clientVars, history, faults>>

(* Owner watch, objects, adapter properties, agent: calls of BlueZ.        *)
SetUp ==
  /\ bus = Idle
  /\ \/ /\ bluez /\ Step("setup", "rf")
        /\ has' = {"agent"}
        /\ UNCHANGED faults
     \/ /\ Step("setup", "clear")
        /\ FaultIf(bluez)
        /\ UNCHANGED has
  /\ UNCHANGED <<sig, stop, lost, marker, boxVars, reasm, threadVars,
                 serviceVars, bluezVars, clientVars, history>>

start_rfcomm_server ==
  /\ \/ /\ Step("rf", "marker")
        /\ has' = has \cup {"rf"} /\ rf' = At("accept", None)
        /\ UNCHANGED faults
     \/ Step("rf", "app") /\ Fault /\ UNCHANGED <<has, rf>>
  /\ UNCHANGED <<sig, stop, lost, marker, boxVars, reasm, bus, worker,
                 serviceVars, bluezVars, clientVars, history>>

publish_ready_marker ==
  /\ \/ Step("marker", "app") /\ marker' = "own" /\ UNCHANGED faults
     \/ Step("marker", "clear") /\ Fault /\ UNCHANGED marker
  /\ UNCHANGED <<has, sig, stop, lost, boxVars, reasm, threadVars,
                 serviceVars, bluezVars, clientVars, history>>

(* A registration that fails may have reached BlueZ all the same (its reply*)
(* came too late).                                                         *)
Register(what, ok, failed) ==
  /\ bus = Idle
  /\ \/ /\ bluez /\ Step(what, ok)
        /\ has' = has \cup {what} /\ regs' = regs \cup {what}
        /\ UNCHANGED faults
     \/ /\ ~bluez /\ Step(what, failed)
        /\ UNCHANGED <<has, regs, faults>>
     \/ /\ bluez /\ Step(what, failed) /\ Fault
        /\ regs' \in {regs, regs \cup {what}}
        /\ UNCHANGED has
  /\ UNCHANGED <<sig, stop, lost, marker, boxVars, reasm, threadVars,
                 serviceVars, bluez, queue, lossMsg, clientVars, history>>

Reachable == "rf" \in has \/ {"app", "adv"} \subseteq has

StartDispatcher ==
  /\ \/ /\ Reachable /\ Step("spawn", "serve")
        /\ has' = has \cup {"disp"}
        /\ UNCHANGED faults
     \/ ~Reachable /\ Step("spawn", "clear") /\ UNCHANGED <<has, faults>>
     \/ Reachable /\ Step("spawn", "clear") /\ Fault /\ UNCHANGED has
  /\ UNCHANGED <<sig, stop, lost, marker, boxVars, reasm, threadVars,
                 serviceVars, bluezVars, clientVars, history>>

EndServing ==
  /\ Step("serve", "clear")
  /\ sig \/ stop
  /\ stop' = TRUE
  /\ UNCHANGED <<has, sig, lost, marker, boxVars, reasm, threadVars,
                 serviceVars, bluezVars, clientVars, history, faults>>

(* MUTANT of clear_ready_marker: the marker is left to the supervisor.     *)
LeaveMarker ==
  /\ Step("clear", "stoprf")
  /\ UNCHANGED <<has, sig, stop, lost, marker, boxVars, reasm, threadVars,
                 serviceVars, bluezVars, clientVars, history, faults>>

clear_ready_marker ==
  /\ Step("clear", "stoprf")
  /\ marker' = "none"
  /\ UNCHANGED <<has, sig, stop, lost, boxVars, reasm, threadVars,
                 serviceVars, bluezVars, clientVars, history, faults>>

(* The listening socket is shut down, which wakes a thread in accept, and  *)
(* the thread is joined; then the dispatcher likewise.                     *)
stop_rfcomm_server ==
  /\ \/ "rf" \in has /\ Step("stoprf", "joinrf")
     \/ "rf" \notin has /\ Step("stoprf", "stopbus")
     \/ rf.at = "ended" /\ Step("joinrf", "stopbus")
  /\ UNCHANGED <<has, sig, stop, lost, marker, boxVars, reasm, threadVars,
                 serviceVars, bluezVars, clientVars, history, faults>>

JoinDispatcher ==
  /\ Step("stopbus", "adv-")
  /\ bus = Idle
  /\ has' = has \ {"disp"}
  /\ UNCHANGED <<sig, stop, lost, marker, boxVars, reasm, threadVars,
                 serviceVars, bluezVars, clientVars, history, faults>>

(* Nothing is unregistered from a BlueZ that was lost; a call that fails is*)
(* not repeated.                                                           *)
Unregister(step, next) ==
  /\ bus = Idle
  /\ Step(step, next)
  /\ \/ /\ What(step) \in has /\ ~lost /\ bluez
        /\ regs' = regs \ {What(step)}
        /\ UNCHANGED faults
     \/ /\ What(step) \in has /\ ~lost
        /\ FaultIf(bluez)
        /\ UNCHANGED regs
     \/ (What(step) \notin has \/ lost) /\ UNCHANGED <<regs, faults>>
  /\ UNCHANGED <<has, sig, stop, lost, marker, boxVars, reasm, threadVars,
                 serviceVars, bluez, queue, lossMsg, clientVars, history>>

(* The process is gone: its workers with it, its name on the bus, and with *)
(* it what was registered, and its sockets.  A request that has reached    *)
(* the service stays there.                                                *)
Gone ==
  /\ main' = "down" /\ has' = {}
  /\ sig' = FALSE /\ stop' = FALSE /\ lost' = FALSE /\ lossMsg' = FALSE
  /\ active' = FALSE /\ status' = Ready /\ reasm' = NoParts
  /\ bus' = Idle /\ rf' = NoThread
  /\ worker' = [c \in Cmd |-> "none"]
  /\ regs' = {} /\ queue' = {}
  /\ conns' = {} /\ sent' = {}
  /\ disturbed' = disturbed \cup {c \in Cmd : ph[c] \in {"write", "poll", "tail"}}
  /\ UNCHANGED <<serviceVars, bluez, ph, wrote, timer, got, res, accepted>>

Exit == main = "exit" /\ Gone /\ UNCHANGED <<marker, faults>>

(* Killed: the marker stays.                                               *)
Crash ==
  /\ main # "down"
  /\ Fault
  /\ marker' = IF marker = "own" THEN "stale" ELSE marker
  /\ Gone

Main ==
  \/ SetUp \/ start_rfcomm_server \/ publish_ready_marker
  \/ Register("app", "adv", "spawn") \/ Register("adv", "spawn", "spawn")
  \/ StartDispatcher \/ EndServing \/ clear_ready_marker
  \/ stop_rfcomm_server \/ JoinDispatcher
  \/ Unregister("adv-", "app-") \/ Unregister("app-", "agent-")
  \/ Unregister("agent-", "exit") \/ Exit

---------------------------------------------------------------------------
(* dispatch_command: one command at a time.  What is refused before the    *)
(* flag is looked at (format, size, code, operation, memory) changes       *)
(* nothing.                                                                *)

Outstanding == {d \in Range(accepted) : res[d] = "none"}

(* MUTANT of Claim: the flag is raised without being looked at.            *)
ClaimAnyway(c) ==
  /\ active' = TRUE
  /\ status' = Is("working", c)
  /\ accepted' = Append(accepted, c)

Claim(c) ==
  /\ ~active
  /\ active' = TRUE
  /\ status' = Is("working", c)
  /\ accepted' = Append(accepted, c)

(* MUTANT of SpawnFails: the flag stays up.                                *)
FlagStaysUp == Fault /\ UNCHANGED <<active, worker>>

(* pthread_create succeeds; or the flag is cleared and, in a section of its*)
(* own, the failure written over whatever the status is by then.           *)
SpawnWorker(c) == worker' = [worker EXCEPT ![c] = "start"] /\ UNCHANGED <<active, faults>>
SpawnFails == active' = FALSE /\ Fault /\ UNCHANGED worker
set_failed_status(c) ==
  /\ status' = Is("failed", c)
  /\ disturbed' = disturbed \cup (Outstanding \ {c})

(***************************************************************************)
(* The answer of a GATT write reaches a client that still waits for it:    *)
(* the next fragment is written, or polling begins; an error ends the      *)
(* command with an unknown outcome.                                        *)
(***************************************************************************)
Acked(c, i, q) ==
  IF ph[c] # "write" THEN queue' = q /\ UNCHANGED ph
  ELSE IF i < Frags THEN queue' = q \cup {<<c, i + 1>>} /\ UNCHANGED ph
  ELSE queue' = q /\ ph' = [ph EXCEPT ![c] = "poll"]
Refused(c) ==
  IF ph[c] # "write" THEN UNCHANGED <<ph, res>>
  ELSE ph' = [ph EXCEPT ![c] = "over"] /\ res' = [res EXCEPT ![c] = "unknown"]

(***************************************************************************)
(* accept_command_value: the table holds the fragments of one message; one *)
(* that was begun more than BLE_FRAGMENT_TTL_MS ago is dropped (an expiry  *)
(* counts as a fault); a first fragment of another message replaces it.    *)
(***************************************************************************)
Write(c, i) ==
  /\ Served
  /\ <<c, i>> \in queue
  /\ UNCHANGED <<mainVars, rf, serviceVars, bluez, regs, lossMsg, wrote, timer,
                 got, conns, sent>>
Kept(expired) == IF expired THEN NoParts ELSE reasm
Extended(c, i, old) ==
  [cmd |-> c, parts |-> {i} \cup (IF old.cmd = c THEN old.parts ELSE {})]
Whole(table) == table.parts = 1 .. Frags
Interrupts(c, expired) ==
  IF expired \/ reasm.cmd # c THEN {reasm.cmd} \ {None} ELSE {}

WriteBusy(c, i) ==
  /\ Write(c, i)
  /\ reasm.cmd \notin {None, c} /\ i # 1
  /\ queue' = queue \ {<<c, i>>} /\ Refused(c)
  /\ UNCHANGED <<boxVars, reasm, bus, worker, history, faults>>

WriteWaits(c, i) == \E expired \in BOOLEAN :
  LET old == Kept(expired)
      table == Extended(c, i, old)
  IN /\ Write(c, i)
     /\ expired => reasm.cmd # None
     /\ old.cmd \in {None, c} \/ i = 1
     /\ ~Whole(table)
     /\ reasm' = table
     /\ disturbed' = disturbed \cup Interrupts(c, expired)
     /\ Acked(c, i, queue \ {<<c, i>>})
     /\ FaultIf(expired)
     /\ UNCHANGED <<boxVars, bus, worker, res, accepted>>

WriteCompletes(c, i) == \E expired \in BOOLEAN :
  LET old == Kept(expired)
  IN /\ Write(c, i)
     /\ expired => reasm.cmd # None
     /\ old.cmd \in {None, c} \/ i = 1
     /\ Whole(Extended(c, i, old))
     /\ reasm' = NoParts
     /\ queue' = queue \ {<<c, i>>}
     /\ FaultIf(expired)
     /\ \/ /\ Claim(c)
           /\ bus' = At("spawn", c)
           /\ disturbed' = disturbed \cup Interrupts(c, expired) \cup Outstanding
           /\ UNCHANGED <<ph, res>>
        \/ /\ disturbed' = disturbed \cup Interrupts(c, expired)
           /\ Refused(c)
           /\ UNCHANGED <<boxVars, bus, accepted>>
     /\ UNCHANGED worker

BusSpawns == LET c == bus.cmd IN
  /\ bus.at = "spawn"
  /\ \/ SpawnWorker(c) /\ bus' = Idle /\ Acked(c, Frags, queue)
     \/ SpawnFails /\ bus' = At("failing", c) /\ UNCHANGED <<ph, queue>>
  /\ UNCHANGED <<mainVars, status, reasm, rf, serviceVars, bluez, regs, lossMsg,
                 wrote, timer, got, res, conns, sent, history>>

BusFails == LET c == bus.cmd IN
  /\ bus.at = "failing"
  /\ set_failed_status(c)
  /\ bus' = Idle
  /\ Refused(c)
  /\ UNCHANGED <<mainVars, active, reasm, rf, worker, serviceVars, bluezVars,
                 wrote, timer, got, conns, sent, accepted, faults>>

(* bus_message, stop_after_bluez_loss.                                     *)
SeeLoss ==
  /\ Served /\ lossMsg
  /\ lossMsg' = FALSE
  /\ lost' = (lost \/ ~stop) /\ stop' = TRUE
  /\ UNCHANGED <<main, has, sig, marker, boxVars, reasm, threadVars, serviceVars,
                 bluez, regs, queue, clientVars, history, faults>>

Bus ==
  \/ \E c \in Cmd, i \in 1 .. Frags :
       WriteBusy(c, i) \/ WriteWaits(c, i) \/ WriteCompletes(c, i)
  \/ BusSpawns \/ BusFails \/ SeeLoss

---------------------------------------------------------------------------
(* rfcomm_server_main, rfcomm_serve_client: one client after the other,    *)
(* until told to stop; what wakes a thread in accept is the socket that is *)
(* shut down.                                                              *)

NextClient == At(IF Stopping THEN "ended" ELSE "accept", None)
Rf(place, next) ==
  /\ rf.at = place
  /\ rf' = next
  /\ UNCHANGED <<mainVars, reasm, bus, serviceVars, bluezVars, wrote, timer>>

RfAccept(c) ==
  /\ c \in conns /\ ~Shut
  /\ Rf("accept", At("recv", c))
  /\ conns' = conns \ {c}
  /\ UNCHANGED <<boxVars, worker, ph, got, res, sent, history, faults>>

(* accept returns because the socket was shut down; the thread also ends   *)
(* when accept fails for another reason.                                   *)
RfEnds(told) ==
  /\ Shut = told
  /\ Rf("accept", At("ended", None))
  /\ FaultIf(~told)
  /\ UNCHANGED <<boxVars, worker, ph, got, res, conns, sent, history>>

(* No encryption, nothing complete within ten seconds, or the client has   *)
(* closed.                                                                 *)
RfDrops ==
  /\ Rf("recv", NextClient)
  /\ UNCHANGED <<boxVars, worker, ph, got, res, conns, sent, history, faults>>

(* The answer arrives if the client's timer has not fired; then the next   *)
(* client is accepted.                                                     *)
Deliver(c, answer) ==
  \/ /\ ph[c] = "await" /\ timer[c] = "armed"
     /\ ph' = [ph EXCEPT ![c] = "over"]
     /\ got' = [got EXCEPT ![c] = <<answer, answer>>]
     /\ res' = [res EXCEPT ![c] = "reply"]
  \/ UNCHANGED <<ph, got, res>>

RfDispatches == LET c == rf.cmd IN
  /\ c \in sent
  /\ \/ /\ Rf("recv", At("spawn", c))
        /\ Claim(c)
        /\ disturbed' = disturbed \cup Outstanding
        /\ UNCHANGED <<ph, got, res>>
     \/ /\ Rf("recv", NextClient)
        /\ Deliver(c, Is("failed", c))
        /\ UNCHANGED <<boxVars, history>>
  /\ sent' = sent \ {c}
  /\ UNCHANGED <<worker, conns, faults>>

RfSpawns == LET c == rf.cmd IN
  /\ \/ Rf("spawn", At("wait", c)) /\ SpawnWorker(c)
     \/ Rf("spawn", At("failing", c)) /\ SpawnFails
  /\ UNCHANGED <<status, ph, got, res, conns, sent, history>>

RfFails == LET c == rf.cmd IN
  /\ Rf("failing", NextClient)
  /\ set_failed_status(c)
  /\ Deliver(c, Is("failed", c))
  /\ UNCHANGED <<active, worker, conns, sent, accepted, faults>>

(* MUTANT of RfChecks: at the deadline the status is sent as it is.        *)
ChecksNothing == LET c == rf.cmd IN
  /\ Rf("check", At("copy", c))
  /\ UNCHANGED <<boxVars, worker, ph, got, res, conns, sent, history, faults>>

(* The loop ends when the flag is seen down, at the deadline or when told  *)
(* to stop; then the flag is read again, and the status only after that.   *)
RfWaits ==
  /\ Rf("wait", At("check", rf.cmd))
  /\ UNCHANGED <<boxVars, worker, ph, got, res, conns, sent, history, faults>>
RfChecks == LET c == rf.cmd IN
  /\ \/ active /\ Rf("check", NextClient) /\ Deliver(c, Is("failed", c))
     \/ ~active /\ Rf("check", At("copy", c)) /\ UNCHANGED <<ph, got, res>>
  /\ UNCHANGED <<boxVars, worker, conns, sent, history, faults>>
copy_status ==
  /\ Rf("copy", NextClient)
  /\ Deliver(rf.cmd, status)
  /\ UNCHANGED <<boxVars, worker, conns, sent, history, faults>>

RfServer ==
  \/ \E c \in Cmd : RfAccept(c)
  \/ RfEnds(TRUE) \/ RfDrops \/ RfDispatches \/ RfSpawns \/ RfFails
  \/ RfWaits \/ RfChecks \/ copy_status

---------------------------------------------------------------------------
(* worker_main: the request to the service, the status, and only then the  *)
(* flag.  It gives up at its deadline, whether the service has the request *)
(* or not.                                                                 *)

Worker(c, from, to) ==
  /\ worker[c] \in from
  /\ worker' = [worker EXCEPT ![c] = to]
  /\ UNCHANGED <<mainVars, reasm, bus, rf, bluezVars, clientVars, history, faults>>

http_request(c) ==
  /\ Worker(c, {"start"}, "call")
  /\ backlog' = Append(backlog, c)
  /\ UNCHANGED <<boxVars, serving, ran>>

(* MUTANT of WorkerReports: the request has no deadline.                   *)
ReportAnswer(c) ==
  /\ Worker(c, {"answered"}, "reported")
  /\ status' \in {Is("done", c), Is("failed", c)}
  /\ UNCHANGED <<active, serviceVars>>

(* What the service answers is a success or an error; a success that cannot*)
(* be read is a failure, too.                                              *)
WorkerReports(c) ==
  /\ \/ /\ Worker(c, {"answered"}, "reported")
        /\ status' \in {Is("done", c), Is("failed", c)}
     \/ /\ Worker(c, {"start", "call"}, "reported")
        /\ status' = Is("failed", c)
  /\ UNCHANGED <<active, serviceVars>>

WorkerEnds(c) ==
  /\ Worker(c, {"reported"}, "none")
  /\ active' = FALSE
  /\ UNCHANGED <<status, serviceVars>>

Workers == \E c \in Cmd : http_request(c) \/ WorkerReports(c) \/ WorkerEnds(c)

(* The service: one connection after the other, in the order they came, the*)
(* request carried out before it is answered, to whoever still listens.    *)
Serve ==
  /\ UNCHANGED <<mainVars, boxVars, reasm, bus, rf, bluezVars, clientVars, history>>
handle_request ==
  /\ serving = None /\ backlog # <<>>
  /\ serving' = Head(backlog) /\ backlog' = Tail(backlog)
  /\ ran' = Append(ran, Head(backlog))
  /\ Serve /\ UNCHANGED <<worker, faults>>
send_json ==
  /\ serving # None
  /\ serving' = None
  /\ worker' = IF worker[serving] = "call"
               THEN [worker EXCEPT ![serving] = "answered"] ELSE worker
  /\ Serve /\ UNCHANGED <<backlog, ran, faults>>
ServiceDies ==
  /\ serving # None \/ backlog # <<>>
  /\ Fault
  /\ serving' = None /\ backlog' = <<>>
  /\ Serve /\ UNCHANGED <<worker, ran>>

Service == handle_request \/ send_json

---------------------------------------------------------------------------
(* BlueZ, and SIGTERM (from the supervisor or the user).                   *)

Around ==
  UNCHANGED <<main, has, stop, lost, marker, boxVars, reasm, threadVars,
              serviceVars, clientVars, history>>
BluezDies ==
  /\ bluez /\ Fault
  /\ bluez' = FALSE
  /\ regs' = {} /\ queue' = {}
  /\ lossMsg' = (main # "down")
  /\ Around /\ UNCHANGED sig
BluezReturns ==
  /\ ~bluez /\ bluez' = TRUE
  /\ Around /\ UNCHANGED <<sig, regs, queue, lossMsg, faults>>
Signal ==
  /\ main # "down" /\ ~sig
  /\ Fault
  /\ sig' = TRUE
  /\ Around /\ UNCHANGED bluezVars

---------------------------------------------------------------------------
(* The client, ProvisioningClient.kt.  Over GATT everything happens on one *)
(* looper, timeouts and lost links included.  Once a write has begun, a    *)
(* failure leaves the outcome unknown; before, the command may go over     *)
(* RFCOMM.                                                                 *)

Client(c, from, to) ==
  /\ ph[c] \in from
  /\ ph' = [ph EXCEPT ![c] = to]
  /\ UNCHANGED <<mainVars, boxVars, reasm, threadVars, serviceVars, bluez, regs,
                 lossMsg, history, faults>>
Outcome(c, r) == res' = [res EXCEPT ![c] = r]

gatt(c) ==
  /\ "app" \in regs
  /\ Client(c, {"gatt"}, "write")
  /\ queue' = queue \cup {<<c, 1>>}
  /\ wrote' = [wrote EXCEPT ![c] = TRUE]
  /\ UNCHANGED <<timer, got, res, conns, sent>>

(* Connection, MTU or discovery failed: nothing was written.               *)
GattUnready(c) ==
  /\ \/ c \in AutoCmd /\ Client(c, {"gatt"}, "connect") /\ UNCHANGED res
     \/ Client(c, {"gatt"}, "over") /\ Outcome(c, "failed")
  /\ UNCHANGED <<queue, wrote, timer, got, conns, sent>>

(* A write in the air may still arrive.                                    *)
GattFails(c) ==
  /\ Client(c, {"write", "poll", "tail"}, "over")
  /\ Outcome(c, IF wrote[c] THEN "unknown" ELSE "failed")
  /\ queue' \in {queue, {q \in queue : q[1] # c}}
  /\ got' = [got EXCEPT ![c] = <<>>]
  /\ UNCHANGED <<wrote, timer, conns, sent>>

(* status_read_reply: each part of a long value shows the status of its own*)
(* moment.                                                                 *)
ReadPart(c, from, to) ==
  /\ Served /\ "app" \in regs
  /\ Client(c, {from}, to)
  /\ UNCHANGED <<queue, wrote, timer, conns, sent>>
ReadHead(c) ==
  /\ ReadPart(c, "poll", "tail")
  /\ got' = [got EXCEPT ![c] = <<status>>]
  /\ UNCHANGED res
ReadTail(c) ==
  \/ /\ got[c] # <<>> /\ Head(got[c]).st # "working"
     /\ ReadPart(c, "tail", "over")
     /\ got' = [got EXCEPT ![c] = Append(@, status)]
     /\ Outcome(c, "reply")
  \/ /\ got[c] # <<>> /\ Head(got[c]).st = "working"
     /\ ReadPart(c, "tail", "poll")
     /\ got' = [got EXCEPT ![c] = <<>>]
     /\ UNCHANGED res

(***************************************************************************)
(* Over RFCOMM the executor connects and writes while the timer may fire   *)
(* on the looper; finished is the compareAndSet both go through.  The timer*)
(* closes the socket before it reads wrote.                                *)
(***************************************************************************)
Executing == {"connect", "marking", "writing", "await"}
(* MUTANT of SocketOpen: the timer does not close the socket.              *)
StillOpen(c) == TRUE
SocketOpen(c) == timer[c] # "closed"

RfConnect(c) ==
  /\ rf.at \notin {"none", "ended"} /\ ~Shut
  /\ timer[c] = "armed"
  /\ Client(c, {"connect"}, "marking")
  /\ conns' = conns \cup {c}
  /\ UNCHANGED <<queue, wrote, timer, got, res, sent>>
RfMarks(c) ==
  /\ Client(c, {"marking"}, "writing")
  /\ wrote' = [wrote EXCEPT ![c] = TRUE]
  /\ UNCHANGED <<queue, timer, got, res, conns, sent>>
RfWrites(c) ==
  /\ SocketOpen(c)
  /\ Client(c, {"writing"}, "await")
  /\ sent' = sent \cup {c}
  /\ UNCHANGED <<queue, wrote, timer, got, res, conns>>

(* An exception in the executor: finish, unless the timer was first.       *)
RfThrows(c) ==
  /\ Client(c, {"connect", "writing", "await"}, "over")
  /\ IF timer[c] = "armed"
     THEN Outcome(c, IF wrote[c] THEN "unknown" ELSE "failed") ELSE UNCHANGED res
  /\ conns' = conns \ {c}
  /\ UNCHANGED <<queue, wrote, timer, got, sent>>
Timer(c, from, to) ==
  /\ timer[c] = from
  /\ timer' = [timer EXCEPT ![c] = to]
  /\ UNCHANGED <<mainVars, boxVars, reasm, threadVars, serviceVars, bluezVars,
                 ph, wrote, got, sent, history, faults>>
TimerFires(c) ==
  /\ ph[c] \in Executing
  /\ Timer(c, "armed", "won") /\ UNCHANGED <<res, conns>>
TimerEnds(c) ==
  /\ Timer(c, "won", "closed")
  /\ conns' = conns \ {c}
  /\ Outcome(c, IF wrote[c] THEN "unknown" ELSE "failed")

Progress(c) ==
  \/ gatt(c) \/ GattUnready(c) \/ GattFails(c) \/ ReadHead(c) \/ ReadTail(c)
  \/ RfConnect(c) \/ RfMarks(c) \/ RfWrites(c) \/ RfThrows(c)
Timers(c) == TimerFires(c) \/ TimerEnds(c)

---------------------------------------------------------------------------
Init ==
  /\ main = "down" /\ has = {} /\ sig = FALSE /\ stop = FALSE /\ lost = FALSE
  /\ marker = "none"
  /\ active = FALSE /\ status = Ready /\ reasm = NoParts
  /\ bus = Idle /\ rf = NoThread /\ worker = [c \in Cmd |-> "none"]
  /\ backlog = <<>> /\ serving = None /\ ran = <<>>
  /\ bluez = TRUE /\ regs = {} /\ queue = {} /\ lossMsg = FALSE
  /\ ph \in {f \in [Cmd -> {"gatt", "connect"}] : \A c \in Cmd \ AutoCmd : f[c] = "gatt"}
  /\ wrote = [c \in Cmd |-> FALSE]
  /\ timer = [c \in Cmd |-> "armed"] /\ got = [c \in Cmd |-> <<>>]
  /\ res = [c \in Cmd |-> "none"] /\ conns = {} /\ sent = {}
  /\ accepted = <<>> /\ disturbed = {} /\ faults = 0

Next ==
  \/ Start \/ Main \/ Crash \/ Bus \/ RfServer \/ RfEnds(FALSE) \/ Workers
  \/ Service \/ ServiceDies \/ BluezDies \/ BluezReturns \/ Signal
  \/ \E c \in Cmd : Progress(c) \/ Timers(c)

Spec == Init /\ [][Next]_vars

(***************************************************************************)
(* Fairness: the threads of the helper run, and every call of BlueZ and of *)
(* the service has a deadline.  Clients, the service, BlueZ and whoever    *)
(* starts the helper again promise nothing.                                *)
(***************************************************************************)
FairSpec ==
  /\ Spec
  /\ WF_vars(Main) /\ WF_vars(Bus) /\ WF_vars(RfServer)
  /\ \A c \in Cmd : WF_vars(WorkerReports(c) \/ WorkerEnds(c))

---------------------------------------------------------------------------
TypeOK ==
  /\ main \in {"down", "setup", "rf", "marker", "app", "adv", "spawn", "serve"} \cup Leaving
  /\ has \subseteq {"agent", "rf", "app", "adv", "disp"}
  /\ {sig, stop, lost, active, bluez, lossMsg} \subseteq BOOLEAN
  /\ marker \in {"none", "own", "stale"}
  /\ status \in Status
  /\ reasm \in [cmd : Cmd \cup {None}, parts : SUBSET (1 .. Frags)]
  /\ bus \in {Idle} \cup [at : {"spawn", "failing"}, cmd : Cmd]
  /\ rf \in [at : {"none", "accept", "ended"}, cmd : {None}] \cup
            [at : {"recv", "spawn", "failing", "wait", "check", "copy"}, cmd : Cmd]
  /\ worker \in [Cmd -> {"none", "start", "call", "answered", "reported"}]
  /\ backlog \in Seq(Cmd) /\ serving \in Cmd \cup {None} /\ ran \in Seq(Cmd)
  /\ regs \subseteq {"app", "adv"} /\ queue \subseteq Cmd \X (1 .. Frags)
  /\ ph \in [Cmd -> {"gatt", "write", "poll", "tail", "over"} \cup Executing]
  /\ wrote \in [Cmd -> BOOLEAN]
  /\ timer \in [Cmd -> {"armed", "won", "closed"}]
  /\ got \in [Cmd -> Seq(Status)]
  /\ res \in [Cmd -> {"none", "failed", "unknown", "reply"}]
  /\ conns \subseteq Cmd /\ sent \subseteq Cmd
  /\ accepted \in Seq(Cmd) /\ disturbed \subseteq Cmd
  /\ faults \in 0 .. MaxFaults

(* What a client is told decides whether it may send the command again: a  *)
(* command reported as surely not written is never accepted by the device, *)
(* on neither transport, not even later.                                   *)
FailureIsHonest == \A c \in Cmd : res[c] = "failed" => c \notin Range(accepted)

(* The service carries out a command at most once, and commands in the     *)
(* order in which the helper accepted them, also one whose worker has long *)
(* given up, whose client has gone or whose helper was started again.      *)
Precedes(s, c, d) == \E i, j \in DOMAIN s : i < j /\ s[i] = c /\ s[j] = d
CarriedOutInOrder == \A c, d \in Cmd :
  Precedes(ran, c, d) => c # d /\ Precedes(accepted, c, d)

(* A command is in progress in one place at a time, and the busy flag is up*)
(* exactly then: no path leaves the flag up with nobody to take it down,   *)
(* and none takes it down under another command.                           *)
InProgress ==
  {<<"worker", c>> : c \in {d \in Cmd : worker[d] # "none"}} \cup
  {<<"bus", c>> : c \in {d \in Cmd : bus = At("spawn", d)}} \cup
  {<<"rf", c>> : c \in {d \in Cmd : rf.at = "spawn" /\ rf.cmd = d}}
BusyIsOwned ==
  main # "down" => Cardinality(InProgress) = (IF active THEN 1 ELSE 0)

(* The answer a client gets is the final one of its own command, unless    *)
(* another command was accepted, its fragments were dropped or the helper  *)
(* ended meanwhile; "done" means that the service did carry it out.        *)
AnswerIsOwn == \A c \in Cmd : res[c] = "reply" =>
  /\ \A i \in DOMAIN got[c] : got[c][i].st = "done" => got[c][i].cmd \in Range(ran)
  /\ c \notin disturbed => /\ Head(got[c]) \in {Is("done", c), Is("failed", c)}
                           /\ \A i \in DOMAIN got[c] : got[c][i] = Head(got[c])

(* A helper that advertises without a registered GATT service is about to  *)
(* exit: it has seen, or is about to see, that BlueZ was replaced, or it is*)
(* taking its registrations down.                                          *)
AbsentIsTemporary ==
  "adv" \in regs /\ "app" \notin regs => lossMsg \/ stop \/ main \in Leaving

(* While the marker names the running helper its RFCOMM socket listens.    *)
MarkerMeansListening ==
  marker = "own" => main # "down" /\ "rf" \in has /\ ~Shut

(* A helper whose BlueZ is lost exits, whatever its threads are waiting    *)
(* for, so that the supervisor can start it with the new one.              *)
LossEndsHelper == lost ~> main = "down"

(* The busy flag comes down again and again.                               *)
BusyEnds == active ~> ~active
=============================================================================
