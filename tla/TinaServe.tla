----------------------------- MODULE TinaServe -----------------------------
(***************************************************************************)
(* device/tina_service.c: the HTTP control plane of the Tina service.      *)
(*                                                                         *)
(* One thread serves one client at a time and also empties the recorder's  *)
(* tmpfs ring: a pass (process_closed_segments, supervise_qgapp).  While a *)
(* request is read, a Wi-Fi command runs, sessions are listed or a file is *)
(* sent, the handler must make the passes itself, keep to its deadlines    *)
(* and notice that g_running was cleared.                                  *)
(*                                                                         *)
(* Time is counted in ticks of half a second; a wait counts as a whole     *)
(* tick, and a pass takes up to PassMax.  What the capture handlers do is  *)
(* TinaCapture's; here they are requests that go straight to an answer.    *)
(***************************************************************************)
EXTENDS Integers

CONSTANTS
  PassMax,       \* ticks a pass may take
  ConnectTime,   \* the 60 seconds of the connect command, in ticks
  SettleTime,    \* the 20 seconds configure_wifi waits for a link, in ticks
  Room,          \* pieces a request may come in before the buffer is full
  Parts,         \* entries of a listing, pieces of a file or of an answer
  Horizon        \* ticks at which spent and late stop counting

ASSUME TimeAssumption ==
  PassMax \in Nat /\ ConnectTime \in Nat /\ SettleTime \in Nat \ {0} /\ Horizon \in Nat
ASSUME SizeAssumption == Room \in Nat \ {0} /\ Parts \in Nat \ {0}

VARIABLES
  running,                    \* g_running
  pc, op,                     \* where the thread is, for which request
  used, todo,                 \* pieces received; entries or pieces to go
  left,                       \* ticks to the deadline of what is under way
  settle,                     \* ticks to the deadline of configure_wifi
  attempt,                    \* of wifi_scan
  cmd, child, status, pipe,   \* the command, its process and its output
  child_done, pipe_done, ok,  \* what run_command_capture knows of them
  \* History: ticks since the last pass, since the handler began, since the
  \* signal; the output was over the limit or the pipe could not be set up.
  gap, spent, late, over

reqVars  == <<op, used, todo>>
procVars == <<child, status, pipe, child_done, pipe_done, ok, over>>
cmdVars  == <<cmd, procVars>>
timeVars == <<settle, gap, spent, late>>
vars == <<running, pc, reqVars, left, attempt, cmdVars, timeVars>>

ReadTime  == 20    \* deadline of parse_http_request
SendTime  == 20    \* SO_SNDTIMEO
StallTime == 30    \* EXPORT_STALL_SECONDS
WorkerTime == 50   \* the BLE worker waits this long for a scan (tina_ble.c)
Attempts  == 3
timeout_seconds(c) == IF c = "connect" THEN ConnectTime ELSE IF c = "dump" THEN 4 ELSE 10

Minus(n, t) == IF n > t THEN n - t ELSE 0
Least(m, n) == IF m < n THEN m ELSE n

TypeOK ==
  /\ running \in BOOLEAN
  /\ pc \in {"loop", "select", "read", "scan", "fork", "poll", "wait", "reap",
             "nap", "settle", "list", "head", "download", "respond", "exited"}
  /\ op \in {"none", "scan", "status", "configure", "list", "download", "other"}
  /\ used \in 0 .. Room /\ todo \in 0 .. Parts
  /\ left \in Nat /\ settle \in 0 .. SettleTime /\ attempt \in 0 .. Attempts
  /\ cmd \in {"none", "scan", "dump", "country", "connect", "link"}
  /\ child \in {"none", "live", "exited"}
  /\ status \in {"ok", "busy", "fail", "killed"}
  /\ pipe \in {"held", "eof"}
  /\ child_done \in BOOLEAN /\ pipe_done \in BOOLEAN /\ ok \in BOOLEAN /\ over \in BOOLEAN
  /\ gap \in Nat /\ spent \in 0 .. Horizon /\ late \in 0 .. Horizon

Init ==
  /\ running = TRUE /\ pc = "loop" /\ op = "none" /\ used = 0 /\ todo = 0
  /\ left = 0 /\ settle = 0 /\ attempt = 0
  /\ cmd = "none" /\ child = "none" /\ status = "ok" /\ pipe = "eof"
  /\ child_done = FALSE /\ pipe_done = FALSE /\ ok = TRUE /\ over = FALSE
  /\ gap = 0 /\ spent = 0 /\ late = 0

-----------------------------------------------------------------------------
(* Time: t ticks go by; before them a pass, in Passed, of p ticks. *)
Clocks(t) ==
  /\ settle' = Minus(settle, t)
  /\ late' = IF running THEN 0 ELSE Least(late + t, Horizon)
  /\ spent' = IF op \in {"scan", "configure"} /\ pc # "respond" THEN Least(spent + t, Horizon) ELSE 0
Waited(t) == Clocks(t) /\ gap' = gap + t
Passed(p, t) == Clocks(p + t) /\ gap' = t

(* main *)
Turn(p) ==
  /\ pc = "loop" /\ running
  /\ pc' = "select" /\ Passed(p, 0)
  /\ UNCHANGED <<running, reqVars, left, attempt, cmdVars>>

Idle ==
  /\ pc = "select"
  /\ pc' = "loop" /\ Waited(1)
  /\ UNCHANGED <<running, reqVars, left, attempt, cmdVars>>

Accept ==
  /\ pc = "select"
  /\ pc' = "read" /\ used' = 0 /\ left' = ReadTime
  /\ UNCHANGED <<running, op, todo, attempt, cmdVars, timeVars>>

Exit ==
  /\ pc = "loop" /\ ~running
  /\ pc' = "exited"
  /\ UNCHANGED <<running, reqVars, left, attempt, cmdVars, timeVars>>

-----------------------------------------------------------------------------
(* The handler is done and its answer, of some pieces, is to be written. *)
Answer == pc' = "respond" /\ todo' \in 1 .. Parts

(* MUTANT of Look: the ring is left alone while a request is read. *)
LookOnly(p, t) ==
  /\ pc = "read" /\ running /\ left > 0
  /\ Waited(p + t) /\ left' = Minus(left, p + t)
  /\ UNCHANGED <<running, attempt, cmdVars>>

(* read_request_bytes: a pass after every look at the socket. *)
Look(p, t) ==
  /\ pc = "read" /\ running /\ left > 0
  /\ Clocks(p + t) /\ gap' = 0
  /\ left' = Minus(left, p + t)
  /\ UNCHANGED <<running, attempt, cmdVars>>

(* parse_http_request: no end of the request yet; a full buffer is a 413. *)
ReadNothing(p) == Look(p, 1) /\ UNCHANGED <<pc, reqVars>>

ReadPart(p) ==
  /\ Look(p, 0)
  /\ used' = used + 1 /\ UNCHANGED op
  /\ IF used' = Room THEN Answer ELSE UNCHANGED <<pc, todo>>

(* The client closed or broke the request; it is answered all the same. *)
ReadBad(p) == Look(p, 0) /\ Answer /\ UNCHANGED <<op, used>>

ReadTimeout ==
  /\ pc = "read" /\ running /\ left = 0
  /\ Answer
  /\ UNCHANGED <<running, op, used, left, attempt, cmdVars, timeVars>>

(* Once g_running is 0 the read fails with EINTR, and is tried again. *)
ReadSpin == pc = "read" /\ ~running /\ UNCHANGED vars

Run(c) == pc' = "fork" /\ cmd' = c

(* handle_request *)
Dispatch(p) ==
  /\ pc = "read" /\ running /\ left > 0
  /\ Clocks(p) /\ gap' = 0
  /\ used' = 0 /\ left' = 0 /\ UNCHANGED <<running, attempt, procVars>>
  /\ \/ op' = "other" /\ Answer /\ UNCHANGED cmd
     \/ op' = "scan" /\ pc' = "scan" /\ UNCHANGED <<cmd, todo>>
     \/ op' = "status" /\ Run("link") /\ UNCHANGED todo
     \/ op' = "configure" /\ Run("country") /\ UNCHANGED todo
     \/ op' = "list" /\ pc' = "list" /\ todo' \in 1 .. Parts /\ UNCHANGED cmd
     \/ op' = "download" /\ pc' = "head" /\ todo' \in 1 .. Parts /\ UNCHANGED cmd

-----------------------------------------------------------------------------
(* run_command_capture *)
Fork ==
  /\ pc = "fork"
  /\ pc' = "poll" /\ left' = timeout_seconds(cmd)
  /\ child' = "live" /\ pipe' = "held" /\ status' = "ok"
  /\ child_done' = FALSE /\ pipe_done' = FALSE
  /\ ok' \in BOOLEAN /\ over' = ~ok'
  /\ UNCHANGED <<running, reqVars, attempt, cmd, timeVars>>

(* MUTANT of Looping: g_running is not looked at. *)
LoopingOn == ok /\ ~(child_done /\ pipe_done)

Looping == ok /\ ~(child_done /\ pipe_done) /\ running

(* Reads what there is: too much, to the end, or until it would block. *)
CmdRead ==
  /\ pc = "poll" /\ Looping
  /\ pc' = "wait"
  /\ \/ ~pipe_done /\ ok' = FALSE /\ over' = TRUE /\ UNCHANGED pipe_done
     \/ pipe_done' = (pipe = "eof") /\ UNCHANGED <<ok, over>>
  /\ UNCHANGED <<running, reqVars, left, attempt, cmd, child, status, pipe, child_done, timeVars>>

Reaped == child_done \/ child = "exited"
Reap == child_done' = Reaped /\ child' = IF Reaped THEN "none" ELSE child

(* waitpid(WNOHANG); nothing more is charged to a command that completed. *)
CmdBreak ==
  /\ pc = "wait" /\ Reaped /\ pipe_done
  /\ pc' = "reap" /\ Reap
  /\ UNCHANGED <<running, reqVars, left, attempt, cmd, status, pipe, pipe_done, ok, over, timeVars>>

(* MUTANTS of CmdWait: a command that completed is charged, too; ... *)
ChargeAll(p) ==
  /\ pc = "wait"
  /\ pc' = "poll" /\ Reap
  /\ LET t == IF ok /\ left > p THEN 1 ELSE 0 IN
       /\ ok' = (ok /\ left > p)
       /\ Passed(p, t) /\ left' = Minus(left, p + t)
  /\ UNCHANGED <<running, reqVars, attempt, cmd, status, pipe, pipe_done, over>>

(* ... the deadline is not tested. *)
NeverLate(p) ==
  /\ pc = "wait" /\ ~(Reaped /\ pipe_done)
  /\ pc' = "poll" /\ Reap
  /\ Passed(p, IF ok THEN 1 ELSE 0) /\ left' = Minus(left, p + 1)
  /\ UNCHANGED <<running, reqVars, attempt, cmd, status, pipe, pipe_done, ok, over>>

(* ... else a pass, the deadline, and a wait for output. *)
CmdWait(p) ==
  /\ pc = "wait" /\ ~(Reaped /\ pipe_done)
  /\ pc' = "poll" /\ Reap
  /\ LET t == IF ok /\ left > p THEN 1 ELSE 0 IN
       /\ ok' = (ok /\ left > p)
       /\ Passed(p, t) /\ left' = Minus(left, p + t)
  /\ UNCHANGED <<running, reqVars, attempt, cmd, status, pipe, pipe_done, over>>

CmdLeave ==
  /\ pc = "poll" /\ ~Looping
  /\ pc' = "reap"
  /\ UNCHANGED <<running, reqVars, left, attempt, cmdVars, timeVars>>

(* The caller's next step, after a result and an exit code. *)
Scanned(result, code) ==
  /\ cmd = "scan" /\ UNCHANGED settle
  /\ IF ~result /\ code = "busy"
     THEN /\ attempt' = attempt + 1 /\ cmd' = "none" /\ UNCHANGED todo
          /\ pc' = IF attempt' < Attempts THEN "nap" ELSE "scan"
     ELSE Answer /\ cmd' = "none" /\ UNCHANGED attempt
Dumped == cmd = "dump" /\ Answer /\ cmd' = "none" /\ UNCHANGED <<attempt, settle>>
Configured == cmd = "country" /\ Run("connect") /\ UNCHANGED <<attempt, settle, todo>>
Connected ==
  /\ cmd = "connect" /\ Run("link")
  /\ settle' = SettleTime /\ UNCHANGED <<attempt, todo>>
Sampled(result) ==
  /\ cmd = "link" /\ cmd' = "none" /\ UNCHANGED attempt
  /\ \/ (op = "configure" => result) /\ Answer /\ settle' = 0
     \/ op = "configure" /\ pc' = "settle" /\ UNCHANGED <<todo, settle>>
Continue(result, code) ==
  /\ \/ Scanned(result, code) \/ Dumped \/ Configured \/ Connected \/ Sampled(result)
  /\ child' = "none" /\ status' = "ok" /\ pipe' = "eof" /\ left' = 0
  /\ child_done' = FALSE /\ pipe_done' = FALSE /\ ok' = TRUE /\ over' = FALSE
  /\ UNCHANGED <<running, op, used, gap, spent, late>>

ForkFails == pc = "fork" /\ Continue(FALSE, "ok")

(* A child still there is killed and waited for. *)
CmdReap ==
  /\ pc = "reap"
  /\ Continue(ok /\ child_done /\ status = "ok", IF child = "live" THEN "killed" ELSE status)

-----------------------------------------------------------------------------
(* MUTANT of Scan: one attempt too many. *)
ScanOnceMore ==
  /\ pc = "scan" /\ running
  /\ Run(IF attempt =< Attempts THEN "scan" ELSE "dump")
  /\ UNCHANGED <<running, reqVars, left, attempt, procVars, timeVars>>

(* wifi_scan: three attempts while the driver is busy, then its cache. *)
Scan ==
  /\ pc = "scan" /\ running
  /\ Run(IF attempt < Attempts THEN "scan" ELSE "dump")
  /\ UNCHANGED <<running, reqVars, left, attempt, procVars, timeVars>>

ScanStopped ==
  /\ pc = "scan" /\ ~running
  /\ Answer
  /\ UNCHANGED <<running, op, used, left, attempt, cmdVars, timeVars>>

Nap ==
  /\ pc = "nap"
  /\ pc' = "scan" /\ Waited(1)
  /\ UNCHANGED <<running, reqVars, left, attempt, cmdVars>>

(* configure_wifi: the round ends; whether g_running is 0 does not matter. *)
Settle(p) ==
  /\ pc = "settle"
  /\ Clocks(1 + p) /\ gap' = 0
  /\ IF settle > 1 + p THEN Run("link") /\ UNCHANGED todo ELSE Answer /\ UNCHANGED cmd
  /\ UNCHANGED <<running, op, used, left, attempt, procVars>>

(* build_sessions, validate_session_document: a pass per entry, which takes *)
(* a tick at most.                                                         *)
List(p, t) ==
  /\ pc = "list"
  /\ Passed(p, t)
  /\ IF todo > 1 THEN todo' = todo - 1 /\ UNCHANGED pc ELSE Answer
  /\ UNCHANGED <<running, op, used, left, attempt, cmdVars>>

-----------------------------------------------------------------------------
(* The answer is written, or not, and the client closed. *)
Close ==
  /\ pc' = "loop" /\ op' = "none" /\ used' = 0 /\ todo' = 0
  /\ left' = 0 /\ attempt' = 0
  /\ UNCHANGED <<running, cmdVars>>

(* write_all: a piece, in at most SendTime, with no pass and no g_running. *)
WritePart(t) ==
  /\ pc = "respond" /\ todo > 1
  /\ todo' = todo - 1 /\ Waited(t)
  /\ UNCHANGED <<running, pc, op, used, left, attempt, cmdVars>>

WriteEnds(t) == pc = "respond" /\ Close /\ Waited(t)

(* send_file_response: the headers, then the first pass of the download. *)
Head(t, p) ==
  /\ pc = "head" /\ (running \/ p = 0)
  /\ pc' = "download" /\ left' = Minus(StallTime, p)
  /\ Clocks(t + p) /\ gap' = 0
  /\ UNCHANGED <<running, reqVars, attempt, cmdVars>>

HeadEnds(t) == pc = "head" /\ Close /\ Waited(t)

(* send_download_bytes: a pass first, unless the last one is recent. *)
Due(p) == gap = 0 => p = 0
Send(p) ==
  /\ pc = "download" /\ running /\ Due(p)
  /\ Clocks(p) /\ gap' = 0
  /\ IF todo > 1
     THEN todo' = todo - 1 /\ left' = StallTime /\ UNCHANGED <<running, pc, op, used, attempt, cmdVars>>
     ELSE Close

Blocked(p) ==
  /\ pc = "download" /\ running /\ Due(p) /\ left > p
  /\ Passed(p, 1) /\ left' = Minus(left, p + 1)
  /\ UNCHANGED <<running, pc, reqVars, attempt, cmdVars>>

Stalled(p) ==
  /\ pc = "download" /\ running /\ Due(p) /\ left =< p
  /\ Clocks(p) /\ gap' = 0 /\ Close

(* The client is gone, or the service was told to end. *)
HangsUp == pc = "download" /\ Close /\ UNCHANGED timeVars

-----------------------------------------------------------------------------
(* The rest of the world: the command, what it started, SIGTERM. *)
ChildExits(s) ==
  /\ child = "live" /\ (s = "busy" => cmd = "scan")
  /\ child' = "exited" /\ status' = s
  /\ UNCHANGED <<running, pc, reqVars, left, attempt, cmd, pipe, child_done, pipe_done, ok, over, timeVars>>

PipeCloses ==
  /\ pc \in {"poll", "wait"} /\ pipe = "held"
  /\ pipe' = "eof"
  /\ UNCHANGED <<running, pc, reqVars, left, attempt, cmd, child, status, child_done, pipe_done, ok, over, timeVars>>

Term ==
  /\ running /\ pc # "exited"
  /\ running' = FALSE
  /\ UNCHANGED <<pc, reqVars, left, attempt, cmdVars, timeVars>>

Pass == 0 .. PassMax
Main == \/ \E p \in Pass : Turn(p)
        \/ Idle \/ Accept \/ Exit
Reading ==
  \/ \E p \in Pass : ReadNothing(p) \/ ReadPart(p) \/ ReadBad(p) \/ Dispatch(p)
  \/ ReadTimeout \/ ReadSpin
Command == \/ Fork \/ ForkFails \/ CmdRead \/ CmdBreak \/ CmdLeave \/ CmdReap
           \/ \E p \in Pass : CmdWait(p)
Wifi == Scan \/ ScanStopped \/ Nap \/ \E p \in Pass : Settle(p)
Files == \/ \E p \in Pass, t \in 0 .. 1 : List(p, t)
         \/ \E p \in Pass, t \in 0 .. SendTime : Head(t, p)
         \/ \E t \in 0 .. SendTime : HeadEnds(t)
         \/ \E p \in Pass : Send(p) \/ Blocked(p) \/ Stalled(p)
         \/ HangsUp
Writing == \E t \in 0 .. SendTime : WritePart(t) \/ WriteEnds(t)
Thread == Main \/ Reading \/ Command \/ Wifi \/ Files \/ Writing
World == \/ \E s \in {"ok", "busy", "fail"} : ChildExits(s)
         \/ PipeCloses \/ Term

Next == Thread \/ World
Spec == Init /\ [][Next]_vars
FairSpec == Spec /\ WF_vars(Thread)

-----------------------------------------------------------------------------
(* While a client is dealt with, the ring waits for its next pass no more  *)
(* than the wait for a command's output and wifi_scan's two naps, as each  *)
(* handler makes the passes main cannot make.  write_all alone makes none. *)
RingIsVisited == running /\ pc \notin {"loop", "respond"} => gap =< 3

(* The Wi-Fi handlers answer in the time their deadlines add up to, plus   *)
(* one pass per deadline that is found too late (and one per last round).  *)
(* The comment in wifi_scan counts on 25 seconds, as the BLE worker does.  *)
ScanTime == Attempts * 10 + 2 + 4 + (Attempts + 1) * PassMax
ConfigureTime == 20 + ConnectTime + SettleTime + 4 * PassMax
AnswersAreBounded ==
  /\ op = "scan" => spent =< ScanTime
  /\ op = "configure" => spent =< ConfigureTime

(* After SIGTERM a handler goes on only for what it is waiting for: a pass *)
(* and a wait.  configure_wifi ends its 20 seconds all the same, a listing *)
(* its entries, and a download the write of its headers.                   *)
Unheeded == IF op = "configure" THEN SettleTime
            ELSE IF op = "list" THEN Parts * (PassMax + 1)
            ELSE IF op = "download" THEN SendTime ELSE 0
StopIsPrompt ==
  pc \notin {"read", "respond", "loop", "exited"} => late =< PassMax + 2 + Unheeded

(* run_command_capture leaves no process behind, running or unwaited for,  *)
(* and a command seen to exit and to close its output is not failed for a  *)
(* deadline that a pass of the recorder's made it miss.                    *)
CommandIsSettled ==
  /\ pc \in {"poll", "wait", "reap"} \/ child = "none"
  /\ pc = "reap" /\ child_done /\ pipe_done => ok \/ over

(* Every client is done with: a command that hangs, a silent sender and a  *)
(* receiver that stalls all come to a deadline.                            *)
RequestsEnd == pc \notin {"loop", "select"} ~> pc \in {"loop", "exited"} \/ ~running

(* The service ends after SIGTERM, as test_tina_service.py expects of it   *)
(* (terminate, then wait).  It does not while a request is being read.     *)
TermEnds == ~running ~> pc = "exited"
=============================================================================
