-------------------------- MODULE TinaServeProofs --------------------------
(***************************************************************************)
(* Proofs about TinaServe, for any deadlines of connect and of the wait    *)
(* for a link, any number of pieces and entries and any length of a pass.  *)
(* The invariants follow one another: the place of each operation and      *)
(* command (Place), the process (Settled), the ring (Visited), the time a  *)
(* handler has used (InTime) and the time since the signal (Prompt).       *)
(***************************************************************************)
EXTENDS TinaServe, TLAPS

InCommand == pc \in {"fork", "poll", "wait", "reap"}

(* Which commands a request runs, and after how many attempts. *)
Place ==
  /\ pc = "read" => used < Room
  /\ pc \in {"loop", "select", "read", "exited"} => op = "none"
  /\ pc \in {"scan", "nap"} => op = "scan"
  /\ pc = "nap" => attempt \in 1 .. 2
  /\ InCommand =>
       \/ op = "scan" /\ cmd = "scan" /\ attempt < Attempts
       \/ op = "scan" /\ cmd = "dump" /\ attempt = Attempts
       \/ op = "configure" /\ cmd \in {"country", "connect", "link"}
       \/ op = "status" /\ cmd = "link"
  /\ pc = "settle" => op = "configure"
  /\ pc = "list" => op = "list"
  /\ pc \in {"head", "download"} => op = "download"
  /\ op # "scan" => attempt = 0

(* A process lives only while its command is waited for, and a result that *)
(* was refused was refused before the command was seen to complete.        *)
Settled ==
  /\ pc \in {"poll", "wait", "reap"} \/ child = "none"
  /\ pc \in {"poll", "reap"} /\ child_done /\ pipe_done => ok \/ over
  /\ pc = "wait" => ok \/ over

(* How long the last pass is ago, where the thread is. *)
Visited ==
  /\ pc \in {"read", "head", "select"} => gap = 0
  /\ pc \in {"list", "download", "settle"} => gap =< 1
  /\ pc = "exited" => ~running
  /\ InCommand \/ pc = "scan" => gap =< 1 + Least(attempt, 2)
  /\ pc = "nap" => gap =< attempt

(* The longest a handler has taken as its command, or its scan, begins. *)
Begun == IF attempt = 0 THEN 0 ELSE IF attempt = 1 THEN 11 + PassMax
         ELSE IF attempt = 2 THEN 22 + 2 * PassMax ELSE 32 + 3 * PassMax
Base == IF cmd = "country" THEN 0 ELSE IF cmd = "connect" THEN 10 + PassMax
        ELSE IF cmd = "link" THEN 9 + 2 * PassMax + ConnectTime + SettleTime ELSE Begun

(* ... and as its command is given up, but for one pass. *)
Whole == Base + timeout_seconds(cmd)

(* What a handler has taken and what its deadline leaves, together. *)
InTime ==
  /\ op \notin {"scan", "configure"} => spent = 0
  /\ op = "scan" =>
    /\ pc = "scan" => spent =< Begun
    /\ pc = "nap" => spent =< Begun - 1
    /\ pc = "respond" => spent =< ScanTime
  /\ op = "configure" =>
    /\ pc = "settle" => spent =< 19 + 3 * PassMax + ConnectTime + SettleTime
    /\ ((InCommand /\ cmd = "link") \/ pc = "settle") /\ settle > 0 =>
          spent + settle =< 10 + 2 * PassMax + ConnectTime + SettleTime
    /\ pc = "respond" => spent =< ConfigureTime
  /\ op \in {"scan", "configure"} =>
    /\ pc = "fork" => spent =< Base
    /\ pc = "poll" => (ok => spent + left =< Whole) /\ spent =< Whole + PassMax
    /\ pc = "wait" => spent + left =< Whole
    /\ pc = "reap" => spent =< Whole + PassMax

(* What the signal found still to do: a wait, or what cannot be cut short. *)
Listed(n) == (Parts - n) * (PassMax + 1)

Prompt ==
  /\ running \/ pc \in {"select", "head", "wait"} => late = 0
  /\ op # "configure" =>
      /\ pc \in {"poll", "reap", "nap"} => late =< PassMax + 1
      /\ pc = "fork" => late = 0
      /\ pc = "scan" => late =< PassMax + 2
  /\ op = "configure" /\ InCommand /\ cmd # "link" => late =< PassMax + 1
  /\ op = "configure" /\ (pc = "settle" \/ (InCommand /\ cmd = "link")) =>
       late + settle =< PassMax + 1 + SettleTime
  /\ pc = "download" => late =< SendTime
  /\ pc = "list" => late =< Listed(todo)

Inv == TypeOK /\ Place

(* The type invariant in parts. *)
Bools ==
  /\ running \in BOOLEAN
  /\ child_done \in BOOLEAN /\ pipe_done \in BOOLEAN /\ ok \in BOOLEAN /\ over \in BOOLEAN
Names ==
  /\ pc \in {"loop", "select", "read", "scan", "fork", "poll", "wait", "reap",
             "nap", "settle", "list", "head", "download", "respond", "exited"}
  /\ op \in {"none", "scan", "status", "configure", "list", "download", "other"}
  /\ cmd \in {"none", "scan", "dump", "country", "connect", "link"}
  /\ child \in {"none", "live", "exited"}
  /\ status \in {"ok", "busy", "fail", "killed"}
  /\ pipe \in {"held", "eof"}
Counts == used \in 0 .. Room /\ todo \in 0 .. Parts /\ attempt \in 0 .. Attempts
Times ==
  /\ left \in Nat /\ settle \in 0 .. SettleTime
  /\ gap \in Nat /\ spent \in 0 .. Horizon /\ late \in 0 .. Horizon

LEMMA TypeParts == TypeOK <=> Bools /\ Names /\ Counts /\ Times
  BY DEF TypeOK, Bools, Names, Counts, Times

-----------------------------------------------------------------------------
(* The type and the place of things. *)
USE DEF Pass, reqVars, cmdVars, procVars, timeVars, InCommand

LEMMA BoolsMain == ASSUME Inv, Main PROVE Bools'
<1>1. ASSUME NEW p \in Pass, Turn(p) PROVE Bools'
  BY <1>1, TypeParts DEF Inv, Bools, Turn, Passed
<1>2. CASE Idle
  BY <1>2, TypeParts DEF Inv, Bools, Idle, Waited
<1>3. CASE Accept
  BY <1>3, TypeParts DEF Inv, Bools, Accept, ReadTime
<1>4. CASE Exit
  BY <1>4, TypeParts DEF Inv, Bools, Exit
<1>. QED BY <1>1, <1>2, <1>3, <1>4 DEF Main

LEMMA BoolsReading == ASSUME Inv, Reading PROVE Bools'
<1>1. ASSUME NEW p \in Pass, ReadNothing(p) PROVE Bools'
  BY <1>1, TypeParts DEF Inv, Bools, ReadNothing, Look
<1>2. ASSUME NEW p \in Pass, ReadPart(p) PROVE Bools'
  BY <1>2, TypeParts DEF Inv, Bools, ReadPart, Look, Answer
<1>3. ASSUME NEW p \in Pass, ReadBad(p) PROVE Bools'
  BY <1>3, TypeParts DEF Inv, Bools, ReadBad, Look, Answer
<1>4. ASSUME NEW p \in Pass, Dispatch(p) PROVE Bools'
  BY <1>4, TypeParts DEF Inv, Bools, Dispatch, Answer, Run
<1>5. CASE ReadTimeout
  BY <1>5, TypeParts DEF Inv, Bools, ReadTimeout, Answer
<1>6. CASE ReadSpin
  BY <1>6, TypeParts DEF Inv, Bools, ReadSpin, vars
<1>. QED BY <1>1, <1>2, <1>3, <1>4, <1>5, <1>6 DEF Reading

LEMMA BoolsCommand == ASSUME Inv, Command PROVE Bools'
<1>1. CASE Fork
  BY <1>1, TypeParts DEF Inv, Bools, Fork, timeout_seconds
<1>2. CASE ForkFails
  BY <1>2, TypeParts
     DEF Inv, Bools, ForkFails, Continue, Scanned, Dumped, Configured, Connected,
         Sampled, Answer, Run
<1>3. CASE CmdRead
  BY <1>3, TypeParts DEF Inv, Bools, CmdRead, Looping
<1>4. CASE CmdBreak
  BY <1>4, TypeParts DEF Inv, Bools, CmdBreak, Reaped, Reap
<1>5. CASE CmdLeave
  BY <1>5, TypeParts DEF Inv, Bools, CmdLeave, Looping
<1>6. CASE CmdReap
  BY <1>6, TypeParts
     DEF Inv, Bools, CmdReap, Continue, Scanned, Dumped, Configured, Connected,
         Sampled, Answer, Run
<1>7. ASSUME NEW p \in Pass, CmdWait(p) PROVE Bools'
  BY <1>7, TypeParts DEF Inv, Bools, CmdWait, Reaped, Reap, Passed
<1>. QED BY <1>1, <1>2, <1>3, <1>4, <1>5, <1>6, <1>7 DEF Command

LEMMA BoolsWifi == ASSUME Inv, Wifi PROVE Bools'
<1>1. CASE Scan
  BY <1>1, TypeParts DEF Inv, Bools, Scan, Run
<1>2. CASE ScanStopped
  BY <1>2, TypeParts DEF Inv, Bools, ScanStopped, Answer
<1>3. CASE Nap
  BY <1>3, TypeParts DEF Inv, Bools, Nap, Waited
<1>4. ASSUME NEW p \in Pass, Settle(p) PROVE Bools'
  BY <1>4, TypeParts DEF Inv, Bools, Settle, Run, Answer
<1>. QED BY <1>1, <1>2, <1>3, <1>4 DEF Wifi

LEMMA BoolsFiles == ASSUME Inv, Files PROVE Bools'
<1>1. ASSUME NEW p \in Pass, NEW t \in 0 .. 1, List(p, t) PROVE Bools'
  BY <1>1, TypeParts DEF Inv, Bools, List, Passed, Answer
<1>2. ASSUME NEW t \in 0 .. SendTime, NEW p \in Pass, Head(t, p) PROVE Bools'
  BY <1>2, TypeParts DEF Inv, Bools, Head, StallTime, SendTime
<1>3. ASSUME NEW t \in 0 .. SendTime, HeadEnds(t) PROVE Bools'
  BY <1>3, TypeParts DEF Inv, Bools, HeadEnds, Close, Waited, SendTime
<1>4. ASSUME NEW p \in Pass, Send(p) PROVE Bools'
  BY <1>4, TypeParts DEF Inv, Bools, Send, Close, StallTime, Due
<1>5. ASSUME NEW p \in Pass, Blocked(p) PROVE Bools'
  BY <1>5, TypeParts DEF Inv, Bools, Blocked, Passed, Due
<1>6. ASSUME NEW p \in Pass, Stalled(p) PROVE Bools'
  BY <1>6, TypeParts DEF Inv, Bools, Stalled, Close, Due
<1>7. CASE HangsUp
  BY <1>7, TypeParts DEF Inv, Bools, HangsUp, Close
<1>. QED BY <1>1, <1>2, <1>3, <1>4, <1>5, <1>6, <1>7 DEF Files

LEMMA BoolsWriting == ASSUME Inv, Writing PROVE Bools'
<1>1. ASSUME NEW t \in 0 .. SendTime, WritePart(t) PROVE Bools'
  BY <1>1, TypeParts DEF Inv, Bools, WritePart, Waited, SendTime
<1>2. ASSUME NEW t \in 0 .. SendTime, WriteEnds(t) PROVE Bools'
  BY <1>2, TypeParts DEF Inv, Bools, WriteEnds, Close, Waited, SendTime
<1>. QED BY <1>1, <1>2 DEF Writing

LEMMA BoolsWorld == ASSUME Inv, World PROVE Bools'
<1>1. ASSUME NEW s \in {"ok", "busy", "fail"}, ChildExits(s) PROVE Bools'
  BY <1>1, TypeParts DEF Inv, Bools, ChildExits
<1>2. CASE PipeCloses
  BY <1>2, TypeParts DEF Inv, Bools, PipeCloses
<1>3. CASE Term
  BY <1>3, TypeParts DEF Inv, Bools, Term
<1>. QED BY <1>1, <1>2, <1>3 DEF World

LEMMA NamesMain == ASSUME Inv, Main PROVE Names'
<1>1. ASSUME NEW p \in Pass, Turn(p) PROVE Names'
  BY <1>1, TypeParts DEF Inv, Names, Turn, Passed
<1>2. CASE Idle
  BY <1>2, TypeParts DEF Inv, Names, Idle, Waited
<1>3. CASE Accept
  BY <1>3, TypeParts DEF Inv, Names, Accept, ReadTime
<1>4. CASE Exit
  BY <1>4, TypeParts DEF Inv, Names, Exit
<1>. QED BY <1>1, <1>2, <1>3, <1>4 DEF Main

LEMMA NamesReading == ASSUME Inv, Reading PROVE Names'
<1>1. ASSUME NEW p \in Pass, ReadNothing(p) PROVE Names'
  BY <1>1, TypeParts DEF Inv, Names, ReadNothing, Look
<1>2. ASSUME NEW p \in Pass, ReadPart(p) PROVE Names'
  BY <1>2, TypeParts DEF Inv, Names, ReadPart, Look, Answer
<1>3. ASSUME NEW p \in Pass, ReadBad(p) PROVE Names'
  BY <1>3, TypeParts DEF Inv, Names, ReadBad, Look, Answer
<1>4. ASSUME NEW p \in Pass, Dispatch(p) PROVE Names'
  BY <1>4, TypeParts DEF Inv, Names, Dispatch, Answer, Run
<1>5. CASE ReadTimeout
  BY <1>5, TypeParts DEF Inv, Names, ReadTimeout, Answer
<1>6. CASE ReadSpin
  BY <1>6, TypeParts DEF Inv, Names, ReadSpin, vars
<1>. QED BY <1>1, <1>2, <1>3, <1>4, <1>5, <1>6 DEF Reading

LEMMA NamesCommand == ASSUME Inv, Command PROVE Names'
<1>1. CASE Fork
  BY <1>1, TypeParts DEF Inv, Names, Fork, timeout_seconds
<1>2. CASE ForkFails
  BY <1>2, TypeParts
     DEF Inv, Names, ForkFails, Continue, Scanned, Dumped, Configured, Connected,
         Sampled, Answer, Run
<1>3. CASE CmdRead
  BY <1>3, TypeParts DEF Inv, Names, CmdRead, Looping
<1>4. CASE CmdBreak
  BY <1>4, TypeParts DEF Inv, Names, CmdBreak, Reaped, Reap
<1>5. CASE CmdLeave
  BY <1>5, TypeParts DEF Inv, Names, CmdLeave, Looping
<1>6. CASE CmdReap
  BY <1>6, TypeParts
     DEF Inv, Names, CmdReap, Continue, Scanned, Dumped, Configured, Connected,
         Sampled, Answer, Run
<1>7. ASSUME NEW p \in Pass, CmdWait(p) PROVE Names'
  BY <1>7, TypeParts DEF Inv, Names, CmdWait, Reaped, Reap, Passed
<1>. QED BY <1>1, <1>2, <1>3, <1>4, <1>5, <1>6, <1>7 DEF Command

LEMMA NamesWifi == ASSUME Inv, Wifi PROVE Names'
<1>1. CASE Scan
  BY <1>1, TypeParts DEF Inv, Names, Scan, Run
<1>2. CASE ScanStopped
  BY <1>2, TypeParts DEF Inv, Names, ScanStopped, Answer
<1>3. CASE Nap
  BY <1>3, TypeParts DEF Inv, Names, Nap, Waited
<1>4. ASSUME NEW p \in Pass, Settle(p) PROVE Names'
  BY <1>4, TypeParts DEF Inv, Names, Settle, Run, Answer
<1>. QED BY <1>1, <1>2, <1>3, <1>4 DEF Wifi

LEMMA NamesFiles == ASSUME Inv, Files PROVE Names'
<1>1. ASSUME NEW p \in Pass, NEW t \in 0 .. 1, List(p, t) PROVE Names'
  BY <1>1, TypeParts DEF Inv, Names, List, Passed, Answer
<1>2. ASSUME NEW t \in 0 .. SendTime, NEW p \in Pass, Head(t, p) PROVE Names'
  BY <1>2, TypeParts DEF Inv, Names, Head, StallTime, SendTime
<1>3. ASSUME NEW t \in 0 .. SendTime, HeadEnds(t) PROVE Names'
  BY <1>3, TypeParts DEF Inv, Names, HeadEnds, Close, Waited, SendTime
<1>4. ASSUME NEW p \in Pass, Send(p) PROVE Names'
  BY <1>4, TypeParts DEF Inv, Names, Send, Close, StallTime, Due
<1>5. ASSUME NEW p \in Pass, Blocked(p) PROVE Names'
  BY <1>5, TypeParts DEF Inv, Names, Blocked, Passed, Due
<1>6. ASSUME NEW p \in Pass, Stalled(p) PROVE Names'
  BY <1>6, TypeParts DEF Inv, Names, Stalled, Close, Due
<1>7. CASE HangsUp
  BY <1>7, TypeParts DEF Inv, Names, HangsUp, Close
<1>. QED BY <1>1, <1>2, <1>3, <1>4, <1>5, <1>6, <1>7 DEF Files

LEMMA NamesWriting == ASSUME Inv, Writing PROVE Names'
<1>1. ASSUME NEW t \in 0 .. SendTime, WritePart(t) PROVE Names'
  BY <1>1, TypeParts DEF Inv, Names, WritePart, Waited, SendTime
<1>2. ASSUME NEW t \in 0 .. SendTime, WriteEnds(t) PROVE Names'
  BY <1>2, TypeParts DEF Inv, Names, WriteEnds, Close, Waited, SendTime
<1>. QED BY <1>1, <1>2 DEF Writing

LEMMA NamesWorld == ASSUME Inv, World PROVE Names'
<1>1. ASSUME NEW s \in {"ok", "busy", "fail"}, ChildExits(s) PROVE Names'
  BY <1>1, TypeParts DEF Inv, Names, ChildExits
<1>2. CASE PipeCloses
  BY <1>2, TypeParts DEF Inv, Names, PipeCloses
<1>3. CASE Term
  BY <1>3, TypeParts DEF Inv, Names, Term
<1>. QED BY <1>1, <1>2, <1>3 DEF World

LEMMA CountsMain == ASSUME Inv, Main PROVE Counts'
<1>1. ASSUME NEW p \in Pass, Turn(p) PROVE Counts'
  BY <1>1, TypeParts, SizeAssumption DEF Inv, Counts, Place, Attempts, Turn, Passed
<1>2. CASE Idle
  BY <1>2, TypeParts, SizeAssumption DEF Inv, Counts, Place, Attempts, Idle, Waited
<1>3. CASE Accept
  BY <1>3, TypeParts, SizeAssumption DEF Inv, Counts, Place, Attempts, Accept, ReadTime
<1>4. CASE Exit
  BY <1>4, TypeParts, SizeAssumption DEF Inv, Counts, Place, Attempts, Exit
<1>. QED BY <1>1, <1>2, <1>3, <1>4 DEF Main

LEMMA CountsReading == ASSUME Inv, Reading PROVE Counts'
<1>1. ASSUME NEW p \in Pass, ReadNothing(p) PROVE Counts'
  BY <1>1, TypeParts, SizeAssumption DEF Inv, Counts, Place, Attempts, ReadNothing, Look
<1>2. ASSUME NEW p \in Pass, ReadPart(p) PROVE Counts'
  BY <1>2, TypeParts, SizeAssumption
     DEF Inv, Counts, Place, Attempts, ReadPart, Look, Answer
<1>3. ASSUME NEW p \in Pass, ReadBad(p) PROVE Counts'
  BY <1>3, TypeParts, SizeAssumption
     DEF Inv, Counts, Place, Attempts, ReadBad, Look, Answer
<1>4. ASSUME NEW p \in Pass, Dispatch(p) PROVE Counts'
  BY <1>4, TypeParts, SizeAssumption
     DEF Inv, Counts, Place, Attempts, Dispatch, Answer, Run
<1>5. CASE ReadTimeout
  BY <1>5, TypeParts, SizeAssumption DEF Inv, Counts, Place, Attempts, ReadTimeout, Answer
<1>6. CASE ReadSpin
  BY <1>6, TypeParts, SizeAssumption DEF Inv, Counts, Place, Attempts, ReadSpin, vars
<1>. QED BY <1>1, <1>2, <1>3, <1>4, <1>5, <1>6 DEF Reading

LEMMA CountsCommand == ASSUME Inv, Command PROVE Counts'
<1>1. CASE Fork
  BY <1>1, TypeParts, SizeAssumption
     DEF Inv, Counts, Place, Attempts, Fork, timeout_seconds
<1>2. CASE ForkFails
  BY <1>2, TypeParts, SizeAssumption
     DEF Inv, Counts, Place, Attempts, ForkFails, Continue, Scanned, Dumped,
         Configured, Connected, Sampled, Answer, Run
<1>3. CASE CmdRead
  BY <1>3, TypeParts, SizeAssumption DEF Inv, Counts, Place, Attempts, CmdRead, Looping
<1>4. CASE CmdBreak
  BY <1>4, TypeParts, SizeAssumption
     DEF Inv, Counts, Place, Attempts, CmdBreak, Reaped, Reap
<1>5. CASE CmdLeave
  BY <1>5, TypeParts, SizeAssumption DEF Inv, Counts, Place, Attempts, CmdLeave, Looping
<1>6. CASE CmdReap
  BY <1>6, TypeParts, SizeAssumption
     DEF Inv, Counts, Place, Attempts, CmdReap, Continue, Scanned, Dumped, Configured,
         Connected, Sampled, Answer, Run
<1>7. ASSUME NEW p \in Pass, CmdWait(p) PROVE Counts'
  BY <1>7, TypeParts, SizeAssumption
     DEF Inv, Counts, Place, Attempts, CmdWait, Reaped, Reap, Passed
<1>. QED BY <1>1, <1>2, <1>3, <1>4, <1>5, <1>6, <1>7 DEF Command

LEMMA CountsWifi == ASSUME Inv, Wifi PROVE Counts'
<1>1. CASE Scan
  BY <1>1, TypeParts, SizeAssumption DEF Inv, Counts, Place, Attempts, Scan, Run
<1>2. CASE ScanStopped
  BY <1>2, TypeParts, SizeAssumption DEF Inv, Counts, Place, Attempts, ScanStopped, Answer
<1>3. CASE Nap
  BY <1>3, TypeParts, SizeAssumption DEF Inv, Counts, Place, Attempts, Nap, Waited
<1>4. ASSUME NEW p \in Pass, Settle(p) PROVE Counts'
  BY <1>4, TypeParts, SizeAssumption DEF Inv, Counts, Place, Attempts, Settle, Run, Answer
<1>. QED BY <1>1, <1>2, <1>3, <1>4 DEF Wifi

LEMMA CountsFiles == ASSUME Inv, Files PROVE Counts'
<1>1. ASSUME NEW p \in Pass, NEW t \in 0 .. 1, List(p, t) PROVE Counts'
  BY <1>1, TypeParts, SizeAssumption
     DEF Inv, Counts, Place, Attempts, List, Passed, Answer
<1>2. ASSUME NEW t \in 0 .. SendTime, NEW p \in Pass, Head(t, p) PROVE Counts'
  BY <1>2, TypeParts, SizeAssumption
     DEF Inv, Counts, Place, Attempts, Head, StallTime, SendTime
<1>3. ASSUME NEW t \in 0 .. SendTime, HeadEnds(t) PROVE Counts'
  BY <1>3, TypeParts, SizeAssumption
     DEF Inv, Counts, Place, Attempts, HeadEnds, Close, Waited, SendTime
<1>4. ASSUME NEW p \in Pass, Send(p) PROVE Counts'
  <2>1. CASE todo > 1
    BY <2>1, <1>4, TypeParts, SizeAssumption
       DEF Inv, Counts, Attempts, Send, Close, StallTime, Due
  <2>2. CASE ~(todo > 1)
    BY <2>2, <1>4, TypeParts, SizeAssumption
       DEF Inv, Counts, Attempts, Send, Close, StallTime, Due
  <2>. QED BY <2>1, <2>2
<1>5. ASSUME NEW p \in Pass, Blocked(p) PROVE Counts'
  BY <1>5, TypeParts, SizeAssumption
     DEF Inv, Counts, Place, Attempts, Blocked, Passed, Due
<1>6. ASSUME NEW p \in Pass, Stalled(p) PROVE Counts'
  BY <1>6, TypeParts, SizeAssumption DEF Inv, Counts, Place, Attempts, Stalled, Close, Due
<1>7. CASE HangsUp
  BY <1>7, TypeParts, SizeAssumption DEF Inv, Counts, Place, Attempts, HangsUp, Close
<1>. QED BY <1>1, <1>2, <1>3, <1>4, <1>5, <1>6, <1>7 DEF Files

LEMMA CountsWriting == ASSUME Inv, Writing PROVE Counts'
<1>1. ASSUME NEW t \in 0 .. SendTime, WritePart(t) PROVE Counts'
  BY <1>1, TypeParts, SizeAssumption
     DEF Inv, Counts, Place, Attempts, WritePart, Waited, SendTime
<1>2. ASSUME NEW t \in 0 .. SendTime, WriteEnds(t) PROVE Counts'
  BY <1>2, TypeParts, SizeAssumption
     DEF Inv, Counts, Place, Attempts, WriteEnds, Close, Waited, SendTime
<1>. QED BY <1>1, <1>2 DEF Writing

LEMMA CountsWorld == ASSUME Inv, World PROVE Counts'
<1>1. ASSUME NEW s \in {"ok", "busy", "fail"}, ChildExits(s) PROVE Counts'
  BY <1>1, TypeParts, SizeAssumption DEF Inv, Counts, Place, Attempts, ChildExits
<1>2. CASE PipeCloses
  BY <1>2, TypeParts, SizeAssumption DEF Inv, Counts, Place, Attempts, PipeCloses
<1>3. CASE Term
  BY <1>3, TypeParts, SizeAssumption DEF Inv, Counts, Place, Attempts, Term
<1>. QED BY <1>1, <1>2, <1>3 DEF World

LEMMA TimesMain == ASSUME Inv, Main PROVE Times'
<1>1. ASSUME NEW p \in Pass, Turn(p) PROVE Times'
  BY <1>1, TypeParts, TimeAssumption DEF Inv, Times, Clocks, Minus, Least, Turn, Passed
<1>2. CASE Idle
  BY <1>2, TypeParts, TimeAssumption DEF Inv, Times, Clocks, Minus, Least, Idle, Waited
<1>3. CASE Accept
  BY <1>3, TypeParts, TimeAssumption
     DEF Inv, Times, Clocks, Minus, Least, Accept, ReadTime
<1>4. CASE Exit
  BY <1>4, TypeParts, TimeAssumption DEF Inv, Times, Clocks, Minus, Least, Exit
<1>. QED BY <1>1, <1>2, <1>3, <1>4 DEF Main

LEMMA TimesReading == ASSUME Inv, Reading PROVE Times'
<1>1. ASSUME NEW p \in Pass, ReadNothing(p) PROVE Times'
  BY <1>1, TypeParts, TimeAssumption
     DEF Inv, Times, Clocks, Minus, Least, ReadNothing, Look
<1>2. ASSUME NEW p \in Pass, ReadPart(p) PROVE Times'
  BY <1>2, TypeParts, TimeAssumption
     DEF Inv, Times, Clocks, Minus, Least, ReadPart, Look, Answer
<1>3. ASSUME NEW p \in Pass, ReadBad(p) PROVE Times'
  BY <1>3, TypeParts, TimeAssumption
     DEF Inv, Times, Clocks, Minus, Least, ReadBad, Look, Answer
<1>4. ASSUME NEW p \in Pass, Dispatch(p) PROVE Times'
  BY <1>4, TypeParts, TimeAssumption
     DEF Inv, Times, Clocks, Minus, Least, Dispatch, Answer, Run
<1>5. CASE ReadTimeout
  BY <1>5, TypeParts, TimeAssumption
     DEF Inv, Times, Clocks, Minus, Least, ReadTimeout, Answer
<1>6. CASE ReadSpin
  BY <1>6, TypeParts, TimeAssumption DEF Inv, Times, Clocks, Minus, Least, ReadSpin, vars
<1>. QED BY <1>1, <1>2, <1>3, <1>4, <1>5, <1>6 DEF Reading

LEMMA TimesCommand == ASSUME Inv, Command PROVE Times'
<1>1. CASE Fork
  BY <1>1, TypeParts, TimeAssumption
     DEF Inv, Times, Clocks, Minus, Least, Fork, timeout_seconds
<1>2. CASE ForkFails
  BY <1>2, TypeParts, TimeAssumption
     DEF Inv, Times, Clocks, Minus, Least, ForkFails, Continue, Scanned, Dumped,
         Configured, Connected, Sampled, Answer, Run
<1>3. CASE CmdRead
  BY <1>3, TypeParts, TimeAssumption
     DEF Inv, Times, Clocks, Minus, Least, CmdRead, Looping
<1>4. CASE CmdBreak
  BY <1>4, TypeParts, TimeAssumption
     DEF Inv, Times, Clocks, Minus, Least, CmdBreak, Reaped, Reap
<1>5. CASE CmdLeave
  BY <1>5, TypeParts, TimeAssumption
     DEF Inv, Times, Clocks, Minus, Least, CmdLeave, Looping
<1>6. CASE CmdReap
  BY <1>6, TypeParts, TimeAssumption
     DEF Inv, Times, Clocks, Minus, Least, CmdReap, Continue, Scanned, Dumped,
         Configured, Connected, Sampled, Answer, Run
<1>7. ASSUME NEW p \in Pass, CmdWait(p) PROVE Times'
  BY <1>7, TypeParts, TimeAssumption
     DEF Inv, Times, Clocks, Minus, Least, CmdWait, Reaped, Reap, Passed
<1>. QED BY <1>1, <1>2, <1>3, <1>4, <1>5, <1>6, <1>7 DEF Command

LEMMA TimesWifi == ASSUME Inv, Wifi PROVE Times'
<1>1. CASE Scan
  BY <1>1, TypeParts, TimeAssumption DEF Inv, Times, Clocks, Minus, Least, Scan, Run
<1>2. CASE ScanStopped
  BY <1>2, TypeParts, TimeAssumption
     DEF Inv, Times, Clocks, Minus, Least, ScanStopped, Answer
<1>3. CASE Nap
  BY <1>3, TypeParts, TimeAssumption DEF Inv, Times, Clocks, Minus, Least, Nap, Waited
<1>4. ASSUME NEW p \in Pass, Settle(p) PROVE Times'
  BY <1>4, TypeParts, TimeAssumption
     DEF Inv, Times, Clocks, Minus, Least, Settle, Run, Answer
<1>. QED BY <1>1, <1>2, <1>3, <1>4 DEF Wifi

LEMMA TimesFiles == ASSUME Inv, Files PROVE Times'
<1>1. ASSUME NEW p \in Pass, NEW t \in 0 .. 1, List(p, t) PROVE Times'
  BY <1>1, TypeParts, TimeAssumption
     DEF Inv, Times, Clocks, Minus, Least, List, Passed, Answer
<1>2. ASSUME NEW t \in 0 .. SendTime, NEW p \in Pass, Head(t, p) PROVE Times'
  BY <1>2, TypeParts, TimeAssumption
     DEF Inv, Times, Clocks, Minus, Least, Head, StallTime, SendTime
<1>3. ASSUME NEW t \in 0 .. SendTime, HeadEnds(t) PROVE Times'
  BY <1>3, TypeParts, TimeAssumption
     DEF Inv, Times, Clocks, Minus, Least, HeadEnds, Close, Waited, SendTime
<1>4. ASSUME NEW p \in Pass, Send(p) PROVE Times'
  <2>1. CASE todo > 1
    BY <2>1, <1>4, TypeParts, TimeAssumption
       DEF Inv, Times, Clocks, Minus, Least, Send, Close, StallTime, Due
  <2>2. CASE ~(todo > 1)
    BY <2>2, <1>4, TypeParts, TimeAssumption
       DEF Inv, Times, Clocks, Minus, Least, Send, Close, StallTime, Due
  <2>. QED BY <2>1, <2>2
<1>5. ASSUME NEW p \in Pass, Blocked(p) PROVE Times'
  BY <1>5, TypeParts, TimeAssumption
     DEF Inv, Times, Clocks, Minus, Least, Blocked, Passed, Due
<1>6. ASSUME NEW p \in Pass, Stalled(p) PROVE Times'
  BY <1>6, TypeParts, TimeAssumption
     DEF Inv, Times, Clocks, Minus, Least, Stalled, Close, Due
<1>7. CASE HangsUp
  BY <1>7, TypeParts, TimeAssumption DEF Inv, Times, Clocks, Minus, Least, HangsUp, Close
<1>. QED BY <1>1, <1>2, <1>3, <1>4, <1>5, <1>6, <1>7 DEF Files

LEMMA TimesWriting == ASSUME Inv, Writing PROVE Times'
<1>1. ASSUME NEW t \in 0 .. SendTime, WritePart(t) PROVE Times'
  BY <1>1, TypeParts, TimeAssumption
     DEF Inv, Times, Clocks, Minus, Least, WritePart, Waited, SendTime
<1>2. ASSUME NEW t \in 0 .. SendTime, WriteEnds(t) PROVE Times'
  BY <1>2, TypeParts, TimeAssumption
     DEF Inv, Times, Clocks, Minus, Least, WriteEnds, Close, Waited, SendTime
<1>. QED BY <1>1, <1>2 DEF Writing

LEMMA TimesWorld == ASSUME Inv, World PROVE Times'
<1>1. ASSUME NEW s \in {"ok", "busy", "fail"}, ChildExits(s) PROVE Times'
  BY <1>1, TypeParts, TimeAssumption DEF Inv, Times, Clocks, Minus, Least, ChildExits
<1>2. CASE PipeCloses
  BY <1>2, TypeParts, TimeAssumption DEF Inv, Times, Clocks, Minus, Least, PipeCloses
<1>3. CASE Term
  BY <1>3, TypeParts, TimeAssumption DEF Inv, Times, Clocks, Minus, Least, Term
<1>. QED BY <1>1, <1>2, <1>3 DEF World

LEMMA PlaceMain == ASSUME Inv, Main PROVE Place'
<1>1. ASSUME NEW p \in Pass, Turn(p) PROVE Place'
  BY <1>1, TypeParts, SizeAssumption DEF Inv, Place, Counts, Names, Attempts, Turn, Passed
<1>2. CASE Idle
  BY <1>2, TypeParts, SizeAssumption DEF Inv, Place, Counts, Names, Attempts, Idle, Waited
<1>3. CASE Accept
  BY <1>3, TypeParts, SizeAssumption
     DEF Inv, Place, Counts, Names, Attempts, Accept, ReadTime
<1>4. CASE Exit
  BY <1>4, TypeParts, SizeAssumption DEF Inv, Place, Counts, Names, Attempts, Exit
<1>. QED BY <1>1, <1>2, <1>3, <1>4 DEF Main

LEMMA PlaceReading == ASSUME Inv, Reading PROVE Place'
<1>1. ASSUME NEW p \in Pass, ReadNothing(p) PROVE Place'
  BY <1>1, TypeParts, SizeAssumption
     DEF Inv, Place, Counts, Names, Attempts, ReadNothing, Look
<1>2. ASSUME NEW p \in Pass, ReadPart(p) PROVE Place'
  <2>1. used \in 0 .. Room /\ used < Room /\ op = "none"
    BY <1>2, TypeParts DEF Inv, Counts, Place, ReadPart, Look
  <2>2. used' # Room => used' < Room
    BY <1>2, <2>1, SizeAssumption DEF ReadPart
  <2>. QED BY <1>2, <2>1, <2>2, TypeParts DEF Inv, Place, Names, ReadPart, Look, Answer
<1>3. ASSUME NEW p \in Pass, ReadBad(p) PROVE Place'
  BY <1>3, TypeParts, SizeAssumption
     DEF Inv, Place, Counts, Names, Attempts, ReadBad, Look, Answer
<1>4. ASSUME NEW p \in Pass, Dispatch(p) PROVE Place'
  BY <1>4, TypeParts, SizeAssumption
     DEF Inv, Place, Counts, Names, Attempts, Dispatch, Answer, Run
<1>5. CASE ReadTimeout
  BY <1>5, TypeParts, SizeAssumption
     DEF Inv, Place, Counts, Names, Attempts, ReadTimeout, Answer
<1>6. CASE ReadSpin
  BY <1>6, TypeParts, SizeAssumption
     DEF Inv, Place, Counts, Names, Attempts, ReadSpin, vars
<1>. QED BY <1>1, <1>2, <1>3, <1>4, <1>5, <1>6 DEF Reading

LEMMA PlaceCommand == ASSUME Inv, Command PROVE Place'
<1>1. CASE Fork
  BY <1>1, TypeParts, SizeAssumption
     DEF Inv, Place, Counts, Names, Attempts, Fork, timeout_seconds
<1>2. CASE ForkFails
  BY <1>2, TypeParts, SizeAssumption
     DEF Inv, Place, Counts, Names, Attempts, ForkFails, Continue, Scanned, Dumped,
         Configured, Connected, Sampled, Answer, Run
<1>3. CASE CmdRead
  BY <1>3, TypeParts, SizeAssumption
     DEF Inv, Place, Counts, Names, Attempts, CmdRead, Looping
<1>4. CASE CmdBreak
  BY <1>4, TypeParts, SizeAssumption
     DEF Inv, Place, Counts, Names, Attempts, CmdBreak, Reaped, Reap
<1>5. CASE CmdLeave
  BY <1>5, TypeParts, SizeAssumption
     DEF Inv, Place, Counts, Names, Attempts, CmdLeave, Looping
<1>6. CASE CmdReap
  BY <1>6, TypeParts, SizeAssumption
     DEF Inv, Place, Counts, Names, Attempts, CmdReap, Continue, Scanned, Dumped,
         Configured, Connected, Sampled, Answer, Run
<1>7. ASSUME NEW p \in Pass, CmdWait(p) PROVE Place'
  BY <1>7, TypeParts, SizeAssumption
     DEF Inv, Place, Counts, Names, Attempts, CmdWait, Reaped, Reap, Passed
<1>. QED BY <1>1, <1>2, <1>3, <1>4, <1>5, <1>6, <1>7 DEF Command

LEMMA PlaceWifi == ASSUME Inv, Wifi PROVE Place'
<1>1. CASE Scan
  BY <1>1, TypeParts, SizeAssumption DEF Inv, Place, Counts, Names, Attempts, Scan, Run
<1>2. CASE ScanStopped
  BY <1>2, TypeParts, SizeAssumption
     DEF Inv, Place, Counts, Names, Attempts, ScanStopped, Answer
<1>3. CASE Nap
  BY <1>3, TypeParts, SizeAssumption DEF Inv, Place, Counts, Names, Attempts, Nap, Waited
<1>4. ASSUME NEW p \in Pass, Settle(p) PROVE Place'
  BY <1>4, TypeParts, SizeAssumption
     DEF Inv, Place, Counts, Names, Attempts, Settle, Run, Answer
<1>. QED BY <1>1, <1>2, <1>3, <1>4 DEF Wifi

LEMMA PlaceFiles == ASSUME Inv, Files PROVE Place'
<1>1. ASSUME NEW p \in Pass, NEW t \in 0 .. 1, List(p, t) PROVE Place'
  BY <1>1, TypeParts, SizeAssumption
     DEF Inv, Place, Counts, Names, Attempts, List, Passed, Answer
<1>2. ASSUME NEW t \in 0 .. SendTime, NEW p \in Pass, Head(t, p) PROVE Place'
  BY <1>2, TypeParts, SizeAssumption
     DEF Inv, Place, Counts, Names, Attempts, Head, StallTime, SendTime
<1>3. ASSUME NEW t \in 0 .. SendTime, HeadEnds(t) PROVE Place'
  BY <1>3, TypeParts, SizeAssumption
     DEF Inv, Place, Counts, Names, Attempts, HeadEnds, Close, Waited, SendTime
<1>4. ASSUME NEW p \in Pass, Send(p) PROVE Place'
  BY <1>4, TypeParts, SizeAssumption
     DEF Inv, Place, Counts, Names, Attempts, Send, Close, StallTime, Due
<1>5. ASSUME NEW p \in Pass, Blocked(p) PROVE Place'
  BY <1>5, TypeParts, SizeAssumption
     DEF Inv, Place, Counts, Names, Attempts, Blocked, Passed, Due
<1>6. ASSUME NEW p \in Pass, Stalled(p) PROVE Place'
  BY <1>6, TypeParts, SizeAssumption
     DEF Inv, Place, Counts, Names, Attempts, Stalled, Close, Due
<1>7. CASE HangsUp
  BY <1>7, TypeParts, SizeAssumption
     DEF Inv, Place, Counts, Names, Attempts, HangsUp, Close
<1>. QED BY <1>1, <1>2, <1>3, <1>4, <1>5, <1>6, <1>7 DEF Files

LEMMA PlaceWriting == ASSUME Inv, Writing PROVE Place'
<1>1. ASSUME NEW t \in 0 .. SendTime, WritePart(t) PROVE Place'
  BY <1>1, TypeParts, SizeAssumption
     DEF Inv, Place, Counts, Names, Attempts, WritePart, Waited, SendTime
<1>2. ASSUME NEW t \in 0 .. SendTime, WriteEnds(t) PROVE Place'
  BY <1>2, TypeParts, SizeAssumption
     DEF Inv, Place, Counts, Names, Attempts, WriteEnds, Close, Waited, SendTime
<1>. QED BY <1>1, <1>2 DEF Writing

LEMMA PlaceWorld == ASSUME Inv, World PROVE Place'
<1>1. ASSUME NEW s \in {"ok", "busy", "fail"}, ChildExits(s) PROVE Place'
  BY <1>1, TypeParts, SizeAssumption DEF Inv, Place, Counts, Names, Attempts, ChildExits
<1>2. CASE PipeCloses
  BY <1>2, TypeParts, SizeAssumption DEF Inv, Place, Counts, Names, Attempts, PipeCloses
<1>3. CASE Term
  BY <1>3, TypeParts, SizeAssumption DEF Inv, Place, Counts, Names, Attempts, Term
<1>. QED BY <1>1, <1>2, <1>3 DEF World

LEMMA BoolsStep == ASSUME Inv, [Next]_vars PROVE Bools'
<1>1. CASE UNCHANGED vars BY <1>1 DEF vars, Inv, TypeOK, Bools
<1>. QED BY <1>1, BoolsMain, BoolsReading, BoolsCommand, BoolsWifi, BoolsFiles, BoolsWriting, BoolsWorld DEF Next, Thread

LEMMA NamesStep == ASSUME Inv, [Next]_vars PROVE Names'
<1>1. CASE UNCHANGED vars BY <1>1 DEF vars, Inv, TypeOK, Names
<1>. QED BY <1>1, NamesMain, NamesReading, NamesCommand, NamesWifi, NamesFiles, NamesWriting, NamesWorld DEF Next, Thread

LEMMA CountsStep == ASSUME Inv, [Next]_vars PROVE Counts'
<1>1. CASE UNCHANGED vars BY <1>1 DEF vars, Inv, TypeOK, Counts
<1>. QED BY <1>1, CountsMain, CountsReading, CountsCommand, CountsWifi, CountsFiles, CountsWriting, CountsWorld DEF Next, Thread

LEMMA TimesStep == ASSUME Inv, [Next]_vars PROVE Times'
<1>1. CASE UNCHANGED vars BY <1>1 DEF vars, Inv, TypeOK, Times
<1>. QED BY <1>1, TimesMain, TimesReading, TimesCommand, TimesWifi, TimesFiles, TimesWriting, TimesWorld DEF Next, Thread

LEMMA PlaceStep == ASSUME Inv, [Next]_vars PROVE Place'
<1>1. CASE UNCHANGED vars BY <1>1 DEF vars, Inv, Place
<1>. QED BY <1>1, PlaceMain, PlaceReading, PlaceCommand, PlaceWifi, PlaceFiles, PlaceWriting, PlaceWorld DEF Next, Thread

LEMMA InvHolds == Spec => []Inv
<1>1. Init => Inv
  <2>. SUFFICES ASSUME Init PROVE Inv
    OBVIOUS
  <2>1. Bools /\ Names
    BY DEF Init, Bools, Names
  <2>2. Counts /\ Times
    BY TimeAssumption, SizeAssumption DEF Init, Counts, Times, Attempts
  <2>3. Place
    BY DEF Init, Place
  <2>. QED BY <2>1, <2>2, <2>3, TypeParts DEF Inv
<1>2. Inv /\ [Next]_vars => Inv'
  <2>. SUFFICES ASSUME Inv, [Next]_vars PROVE Inv'
    OBVIOUS
  <2>1. Bools' /\ Names' /\ Counts' /\ Times'
    BY BoolsStep, NamesStep, CountsStep, TimesStep
  <2>2. TypeOK'
    BY <2>1 DEF TypeOK, Bools, Names, Counts, Times
  <2>. QED BY <2>2, PlaceStep DEF Inv
<1>. QED BY <1>1, <1>2, PTL DEF Spec

(* Every variable keeps its type: the buffer of a request is never written *)
(* beyond its end, no deadline is negative, and wifi_scan's attempts stay  *)
(* within the three it makes.                                              *)
THEOREM TypeCorrect == Spec => []TypeOK
<1>1. Inv => TypeOK BY DEF Inv
<1>. QED BY <1>1, InvHolds, PTL

-----------------------------------------------------------------------------
LEMMA SettledMain == ASSUME Inv, Settled, Main PROVE Settled'
<1>1. ASSUME NEW p \in Pass, Turn(p) PROVE Settled'
  BY <1>1, TypeParts DEF Inv, Settled, Bools, Names, Turn, Passed
<1>2. CASE Idle
  BY <1>2, TypeParts DEF Inv, Settled, Bools, Names, Idle, Waited
<1>3. CASE Accept
  BY <1>3, TypeParts DEF Inv, Settled, Bools, Names, Accept, ReadTime
<1>4. CASE Exit
  BY <1>4, TypeParts DEF Inv, Settled, Bools, Names, Exit
<1>. QED BY <1>1, <1>2, <1>3, <1>4 DEF Main

LEMMA SettledReading == ASSUME Inv, Settled, Reading PROVE Settled'
<1>1. ASSUME NEW p \in Pass, ReadNothing(p) PROVE Settled'
  BY <1>1, TypeParts DEF Inv, Settled, Bools, Names, ReadNothing, Look
<1>2. ASSUME NEW p \in Pass, ReadPart(p) PROVE Settled'
  BY <1>2, TypeParts DEF Inv, Settled, Bools, Names, ReadPart, Look, Answer
<1>3. ASSUME NEW p \in Pass, ReadBad(p) PROVE Settled'
  BY <1>3, TypeParts DEF Inv, Settled, Bools, Names, ReadBad, Look, Answer
<1>4. ASSUME NEW p \in Pass, Dispatch(p) PROVE Settled'
  BY <1>4, TypeParts DEF Inv, Settled, Bools, Names, Dispatch, Answer, Run
<1>5. CASE ReadTimeout
  BY <1>5, TypeParts DEF Inv, Settled, Bools, Names, ReadTimeout, Answer
<1>6. CASE ReadSpin
  BY <1>6, TypeParts DEF Inv, Settled, Bools, Names, ReadSpin, vars
<1>. QED BY <1>1, <1>2, <1>3, <1>4, <1>5, <1>6 DEF Reading

LEMMA SettledCommand == ASSUME Inv, Settled, Command PROVE Settled'
<1>1. CASE Fork
  BY <1>1, TypeParts DEF Inv, Settled, Bools, Names, Fork, timeout_seconds
<1>2. CASE ForkFails
  BY <1>2, TypeParts
     DEF Inv, Settled, Bools, Names, ForkFails, Continue, Scanned, Dumped, Configured,
         Connected, Sampled, Answer, Run
<1>3. CASE CmdRead
  BY <1>3, TypeParts DEF Inv, Settled, Bools, Names, CmdRead, Looping
<1>4. CASE CmdBreak
  BY <1>4, TypeParts DEF Inv, Settled, Bools, Names, CmdBreak, Reaped, Reap
<1>5. CASE CmdLeave
  BY <1>5, TypeParts DEF Inv, Settled, Bools, Names, CmdLeave, Looping
<1>6. CASE CmdReap
  BY <1>6, TypeParts
     DEF Inv, Settled, Bools, Names, CmdReap, Continue, Scanned, Dumped, Configured,
         Connected, Sampled, Answer, Run
<1>7. ASSUME NEW p \in Pass, CmdWait(p) PROVE Settled'
  BY <1>7, TypeParts DEF Inv, Settled, Bools, Names, CmdWait, Reaped, Reap, Passed
<1>. QED BY <1>1, <1>2, <1>3, <1>4, <1>5, <1>6, <1>7 DEF Command

LEMMA SettledWifi == ASSUME Inv, Settled, Wifi PROVE Settled'
<1>1. CASE Scan
  BY <1>1, TypeParts DEF Inv, Settled, Bools, Names, Scan, Run
<1>2. CASE ScanStopped
  BY <1>2, TypeParts DEF Inv, Settled, Bools, Names, ScanStopped, Answer
<1>3. CASE Nap
  BY <1>3, TypeParts DEF Inv, Settled, Bools, Names, Nap, Waited
<1>4. ASSUME NEW p \in Pass, Settle(p) PROVE Settled'
  BY <1>4, TypeParts DEF Inv, Settled, Bools, Names, Settle, Run, Answer
<1>. QED BY <1>1, <1>2, <1>3, <1>4 DEF Wifi

LEMMA SettledFiles == ASSUME Inv, Settled, Files PROVE Settled'
<1>1. ASSUME NEW p \in Pass, NEW t \in 0 .. 1, List(p, t) PROVE Settled'
  BY <1>1, TypeParts DEF Inv, Settled, Bools, Names, List, Passed, Answer
<1>2. ASSUME NEW t \in 0 .. SendTime, NEW p \in Pass, Head(t, p) PROVE Settled'
  BY <1>2, TypeParts DEF Inv, Settled, Bools, Names, Head, StallTime, SendTime
<1>3. ASSUME NEW t \in 0 .. SendTime, HeadEnds(t) PROVE Settled'
  BY <1>3, TypeParts DEF Inv, Settled, Bools, Names, HeadEnds, Close, Waited, SendTime
<1>4. ASSUME NEW p \in Pass, Send(p) PROVE Settled'
  BY <1>4, TypeParts DEF Inv, Settled, Bools, Names, Send, Close, StallTime, Due
<1>5. ASSUME NEW p \in Pass, Blocked(p) PROVE Settled'
  BY <1>5, TypeParts DEF Inv, Settled, Bools, Names, Blocked, Passed, Due
<1>6. ASSUME NEW p \in Pass, Stalled(p) PROVE Settled'
  BY <1>6, TypeParts DEF Inv, Settled, Bools, Names, Stalled, Close, Due
<1>7. CASE HangsUp
  BY <1>7, TypeParts DEF Inv, Settled, Bools, Names, HangsUp, Close
<1>. QED BY <1>1, <1>2, <1>3, <1>4, <1>5, <1>6, <1>7 DEF Files

LEMMA SettledWriting == ASSUME Inv, Settled, Writing PROVE Settled'
<1>1. ASSUME NEW t \in 0 .. SendTime, WritePart(t) PROVE Settled'
  BY <1>1, TypeParts DEF Inv, Settled, Bools, Names, WritePart, Waited, SendTime
<1>2. ASSUME NEW t \in 0 .. SendTime, WriteEnds(t) PROVE Settled'
  BY <1>2, TypeParts DEF Inv, Settled, Bools, Names, WriteEnds, Close, Waited, SendTime
<1>. QED BY <1>1, <1>2 DEF Writing

LEMMA SettledWorld == ASSUME Inv, Settled, World PROVE Settled'
<1>1. ASSUME NEW s \in {"ok", "busy", "fail"}, ChildExits(s) PROVE Settled'
  BY <1>1, TypeParts DEF Inv, Settled, Bools, Names, ChildExits
<1>2. CASE PipeCloses
  BY <1>2, TypeParts DEF Inv, Settled, Bools, Names, PipeCloses
<1>3. CASE Term
  BY <1>3, TypeParts DEF Inv, Settled, Bools, Names, Term
<1>. QED BY <1>1, <1>2, <1>3 DEF World

LEMMA SettledStep == ASSUME Inv, Settled, [Next]_vars PROVE Settled'
<1>1. CASE UNCHANGED vars BY <1>1 DEF vars, Settled
<1>. QED BY <1>1, SettledMain, SettledReading, SettledCommand, SettledWifi, SettledFiles, SettledWriting, SettledWorld DEF Next, Thread

LEMMA SettledHolds == Spec => []Settled
<1>1. Init => Settled BY TimeAssumption, SizeAssumption DEF Init, Settled
<1>2. Inv /\ Settled /\ [Next]_vars => Settled' BY SettledStep
<1>. QED BY <1>1, <1>2, InvHolds, PTL DEF Spec

(* run_command_capture leaves no process behind, and no command that was   *)
(* seen to complete fails for a deadline, whatever the command, what it    *)
(* started and the signal do, and however long the passes between.         *)
THEOREM CommandsSettled == Spec => []CommandIsSettled
<1>1. Settled => CommandIsSettled BY DEF Settled, CommandIsSettled
<1>. QED BY <1>1, SettledHolds, PTL

-----------------------------------------------------------------------------
LEMMA VisitedMain == ASSUME Inv, Visited, Main PROVE Visited'
<1>1. ASSUME NEW p \in Pass, Turn(p) PROVE Visited'
  BY <1>1, TypeParts DEF Inv, Visited, Place, Counts, Times, Attempts, Least, Turn, Passed
<1>2. CASE Idle
  BY <1>2, TypeParts DEF Inv, Visited, Place, Counts, Times, Attempts, Least, Idle, Waited
<1>3. CASE Accept
  BY <1>3, TypeParts
     DEF Inv, Visited, Place, Counts, Times, Attempts, Least, Accept, ReadTime
<1>4. CASE Exit
  BY <1>4, TypeParts DEF Inv, Visited, Place, Counts, Times, Attempts, Least, Exit
<1>. QED BY <1>1, <1>2, <1>3, <1>4 DEF Main

LEMMA VisitedReading == ASSUME Inv, Visited, Reading PROVE Visited'
<1>1. ASSUME NEW p \in Pass, ReadNothing(p) PROVE Visited'
  BY <1>1, TypeParts
     DEF Inv, Visited, Place, Counts, Times, Attempts, Least, ReadNothing, Look
<1>2. ASSUME NEW p \in Pass, ReadPart(p) PROVE Visited'
  BY <1>2, TypeParts
     DEF Inv, Visited, Place, Counts, Times, Attempts, Least, ReadPart, Look, Answer
<1>3. ASSUME NEW p \in Pass, ReadBad(p) PROVE Visited'
  BY <1>3, TypeParts
     DEF Inv, Visited, Place, Counts, Times, Attempts, Least, ReadBad, Look, Answer
<1>4. ASSUME NEW p \in Pass, Dispatch(p) PROVE Visited'
  BY <1>4, TypeParts
     DEF Inv, Visited, Place, Counts, Times, Attempts, Least, Dispatch, Answer, Run
<1>5. CASE ReadTimeout
  BY <1>5, TypeParts
     DEF Inv, Visited, Place, Counts, Times, Attempts, Least, ReadTimeout, Answer
<1>6. CASE ReadSpin
  BY <1>6, TypeParts
     DEF Inv, Visited, Place, Counts, Times, Attempts, Least, ReadSpin, vars
<1>. QED BY <1>1, <1>2, <1>3, <1>4, <1>5, <1>6 DEF Reading

LEMMA VisitedCommand == ASSUME Inv, Visited, Command PROVE Visited'
<1>1. CASE Fork
  BY <1>1, TypeParts
     DEF Inv, Visited, Place, Counts, Times, Attempts, Least, Fork, timeout_seconds
<1>2. CASE ForkFails
  BY <1>2, TypeParts
     DEF Inv, Visited, Place, Counts, Times, Attempts, Least, ForkFails, Continue,
         Scanned, Dumped, Configured, Connected, Sampled, Answer, Run
<1>3. CASE CmdRead
  BY <1>3, TypeParts
     DEF Inv, Visited, Place, Counts, Times, Attempts, Least, CmdRead, Looping
<1>4. CASE CmdBreak
  BY <1>4, TypeParts
     DEF Inv, Visited, Place, Counts, Times, Attempts, Least, CmdBreak, Reaped, Reap
<1>5. CASE CmdLeave
  BY <1>5, TypeParts
     DEF Inv, Visited, Place, Counts, Times, Attempts, Least, CmdLeave, Looping
<1>6. CASE CmdReap
  BY <1>6, TypeParts
     DEF Inv, Visited, Place, Counts, Times, Attempts, Least, CmdReap, Continue,
         Scanned, Dumped, Configured, Connected, Sampled, Answer, Run
<1>7. ASSUME NEW p \in Pass, CmdWait(p) PROVE Visited'
  BY <1>7, TypeParts
     DEF Inv, Visited, Place, Counts, Times, Attempts, Least, CmdWait, Reaped, Reap,
         Passed
<1>. QED BY <1>1, <1>2, <1>3, <1>4, <1>5, <1>6, <1>7 DEF Command

LEMMA VisitedWifi == ASSUME Inv, Visited, Wifi PROVE Visited'
<1>1. CASE Scan
  BY <1>1, TypeParts DEF Inv, Visited, Place, Counts, Times, Attempts, Least, Scan, Run
<1>2. CASE ScanStopped
  BY <1>2, TypeParts
     DEF Inv, Visited, Place, Counts, Times, Attempts, Least, ScanStopped, Answer
<1>3. CASE Nap
  BY <1>3, TypeParts DEF Inv, Visited, Place, Counts, Times, Attempts, Least, Nap, Waited
<1>4. ASSUME NEW p \in Pass, Settle(p) PROVE Visited'
  BY <1>4, TypeParts
     DEF Inv, Visited, Place, Counts, Times, Attempts, Least, Settle, Run, Answer
<1>. QED BY <1>1, <1>2, <1>3, <1>4 DEF Wifi

LEMMA VisitedFiles == ASSUME Inv, Visited, Files PROVE Visited'
<1>1. ASSUME NEW p \in Pass, NEW t \in 0 .. 1, List(p, t) PROVE Visited'
  BY <1>1, TypeParts
     DEF Inv, Visited, Place, Counts, Times, Attempts, Least, List, Passed, Answer
<1>2. ASSUME NEW t \in 0 .. SendTime, NEW p \in Pass, Head(t, p) PROVE Visited'
  BY <1>2, TypeParts
     DEF Inv, Visited, Place, Counts, Times, Attempts, Least, Head, StallTime,
         SendTime
<1>3. ASSUME NEW t \in 0 .. SendTime, HeadEnds(t) PROVE Visited'
  BY <1>3, TypeParts
     DEF Inv, Visited, Place, Counts, Times, Attempts, Least, HeadEnds, Close, Waited,
         SendTime
<1>4. ASSUME NEW p \in Pass, Send(p) PROVE Visited'
  <2>1. CASE todo > 1
    BY <2>1, <1>4, TypeParts
       DEF Inv, Visited, Place, Counts, Times, Attempts, Least, Send, Close,
           StallTime, Due
  <2>2. CASE ~(todo > 1)
    BY <2>2, <1>4, TypeParts
       DEF Inv, Visited, Place, Counts, Times, Attempts, Least, Send, Close,
           StallTime, Due
  <2>. QED BY <2>1, <2>2
<1>5. ASSUME NEW p \in Pass, Blocked(p) PROVE Visited'
  BY <1>5, TypeParts
     DEF Inv, Visited, Place, Counts, Times, Attempts, Least, Blocked, Passed, Due
<1>6. ASSUME NEW p \in Pass, Stalled(p) PROVE Visited'
  BY <1>6, TypeParts
     DEF Inv, Visited, Place, Counts, Times, Attempts, Least, Stalled, Close, Due
<1>7. CASE HangsUp
  BY <1>7, TypeParts
     DEF Inv, Visited, Place, Counts, Times, Attempts, Least, HangsUp, Close
<1>. QED BY <1>1, <1>2, <1>3, <1>4, <1>5, <1>6, <1>7 DEF Files

LEMMA VisitedWriting == ASSUME Inv, Visited, Writing PROVE Visited'
<1>1. ASSUME NEW t \in 0 .. SendTime, WritePart(t) PROVE Visited'
  BY <1>1, TypeParts
     DEF Inv, Visited, Place, Counts, Times, Attempts, Least, WritePart, Waited,
         SendTime
<1>2. ASSUME NEW t \in 0 .. SendTime, WriteEnds(t) PROVE Visited'
  BY <1>2, TypeParts
     DEF Inv, Visited, Place, Counts, Times, Attempts, Least, WriteEnds, Close,
         Waited, SendTime
<1>. QED BY <1>1, <1>2 DEF Writing

LEMMA VisitedWorld == ASSUME Inv, Visited, World PROVE Visited'
<1>1. ASSUME NEW s \in {"ok", "busy", "fail"}, ChildExits(s) PROVE Visited'
  BY <1>1, TypeParts DEF Inv, Visited, Place, Counts, Times, Attempts, Least, ChildExits
<1>2. CASE PipeCloses
  BY <1>2, TypeParts DEF Inv, Visited, Place, Counts, Times, Attempts, Least, PipeCloses
<1>3. CASE Term
  BY <1>3, TypeParts DEF Inv, Visited, Place, Counts, Times, Attempts, Least, Term
<1>. QED BY <1>1, <1>2, <1>3 DEF World

LEMMA VisitedStep == ASSUME Inv, Visited, [Next]_vars PROVE Visited'
<1>1. CASE UNCHANGED vars BY <1>1 DEF vars, Visited
<1>. QED BY <1>1, VisitedMain, VisitedReading, VisitedCommand, VisitedWifi, VisitedFiles, VisitedWriting, VisitedWorld DEF Next, Thread

LEMMA VisitedHolds == Spec => []Visited
<1>1. Init => Visited BY TimeAssumption, SizeAssumption DEF Init, Visited, Least
<1>2. Inv /\ Visited /\ [Next]_vars => Visited' BY VisitedStep
<1>. QED BY <1>1, <1>2, InvHolds, PTL DEF Spec

(* While a client is dealt with the ring waits for a pass no longer than   *)
(* the wait for a command and two naps, for any number of clients, any     *)
(* sizes and deadlines, and passes of any length.                          *)
THEOREM RingVisited == Spec => []RingIsVisited
<1>1. Inv /\ Visited => RingIsVisited
  BY TypeParts
     DEF Inv, Names, Counts, Times, Attempts, Place, Visited, RingIsVisited, Least
<1>. QED BY <1>1, InvHolds, VisitedHolds, PTL

-----------------------------------------------------------------------------
LEMMA InTimeMain == ASSUME Inv, InTime, Main PROVE InTime'
<1>1. ASSUME NEW p \in Pass, Turn(p) PROVE InTime'
  BY <1>1, TypeParts, TimeAssumption
     DEF Inv, InTime, Place, Names, Counts, Times, Attempts, Least, Clocks, Minus,
         Begun, Base, Whole, timeout_seconds, ScanTime, ConfigureTime, Turn, Passed
<1>2. CASE Idle
  BY <1>2, TypeParts, TimeAssumption
     DEF Inv, InTime, Place, Names, Counts, Times, Attempts, Least, Clocks, Minus,
         Begun, Base, Whole, timeout_seconds, ScanTime, ConfigureTime, Idle, Waited
<1>3. CASE Accept
  BY <1>3, TypeParts, TimeAssumption
     DEF Inv, InTime, Place, Names, Counts, Times, Attempts, Least, Clocks, Minus,
         Begun, Base, Whole, timeout_seconds, ScanTime, ConfigureTime, Accept,
         ReadTime
<1>4. CASE Exit
  BY <1>4, TypeParts, TimeAssumption
     DEF Inv, InTime, Place, Names, Counts, Times, Attempts, Least, Clocks, Minus,
         Begun, Base, Whole, timeout_seconds, ScanTime, ConfigureTime, Exit
<1>. QED BY <1>1, <1>2, <1>3, <1>4 DEF Main

LEMMA InTimeReading == ASSUME Inv, InTime, Reading PROVE InTime'
<1>1. ASSUME NEW p \in Pass, ReadNothing(p) PROVE InTime'
  BY <1>1, TypeParts, TimeAssumption
     DEF Inv, InTime, Place, Names, Counts, Times, Attempts, Least, Clocks, Minus,
         Begun, Base, Whole, timeout_seconds, ScanTime, ConfigureTime, ReadNothing,
         Look
<1>2. ASSUME NEW p \in Pass, ReadPart(p) PROVE InTime'
  BY <1>2, TypeParts, TimeAssumption
     DEF Inv, InTime, Place, Names, Counts, Times, Attempts, Least, Clocks, Minus,
         Begun, Base, Whole, timeout_seconds, ScanTime, ConfigureTime, ReadPart, Look,
         Answer
<1>3. ASSUME NEW p \in Pass, ReadBad(p) PROVE InTime'
  BY <1>3, TypeParts, TimeAssumption
     DEF Inv, InTime, Place, Names, Counts, Times, Attempts, Least, Clocks, Minus,
         Begun, Base, Whole, timeout_seconds, ScanTime, ConfigureTime, ReadBad, Look,
         Answer
<1>4. ASSUME NEW p \in Pass, Dispatch(p) PROVE InTime'
  BY <1>4, TypeParts, TimeAssumption
     DEF Inv, InTime, Place, Names, Counts, Times, Attempts, Least, Clocks, Minus,
         Begun, Base, Whole, timeout_seconds, ScanTime, ConfigureTime, Dispatch,
         Answer, Run
<1>5. CASE ReadTimeout
  BY <1>5, TypeParts, TimeAssumption
     DEF Inv, InTime, Place, Names, Counts, Times, Attempts, Least, Clocks, Minus,
         Begun, Base, Whole, timeout_seconds, ScanTime, ConfigureTime, ReadTimeout,
         Answer
<1>6. CASE ReadSpin
  BY <1>6, TypeParts, TimeAssumption
     DEF Inv, InTime, Place, Names, Counts, Times, Attempts, Least, Clocks, Minus,
         Begun, Base, Whole, timeout_seconds, ScanTime, ConfigureTime, ReadSpin, vars
<1>. QED BY <1>1, <1>2, <1>3, <1>4, <1>5, <1>6 DEF Reading

LEMMA InTimeCommand == ASSUME Inv, InTime, Command PROVE InTime'
<1>1. CASE Fork
  BY <1>1, TypeParts, TimeAssumption
     DEF Inv, InTime, Place, Names, Counts, Times, Attempts, Least, Clocks, Minus,
         Begun, Base, Whole, timeout_seconds, ScanTime, ConfigureTime, Fork
<1>2. CASE ForkFails
  BY <1>2, TypeParts, TimeAssumption
     DEF Inv, InTime, Place, Names, Counts, Times, Attempts, Least, Clocks, Minus,
         Begun, Base, Whole, timeout_seconds, ScanTime, ConfigureTime, ForkFails,
         Continue, Scanned, Dumped, Configured, Connected, Sampled, Answer, Run
<1>3. CASE CmdRead
  BY <1>3, TypeParts, TimeAssumption
     DEF Inv, InTime, Place, Names, Counts, Times, Attempts, Least, Clocks, Minus,
         Begun, Base, Whole, timeout_seconds, ScanTime, ConfigureTime, CmdRead,
         Looping
<1>4. CASE CmdBreak
  BY <1>4, TypeParts, TimeAssumption
     DEF Inv, InTime, Place, Names, Counts, Times, Attempts, Least, Clocks, Minus,
         Begun, Base, Whole, timeout_seconds, ScanTime, ConfigureTime, CmdBreak,
         Reaped, Reap
<1>5. CASE CmdLeave
  BY <1>5, TypeParts, TimeAssumption
     DEF Inv, InTime, Place, Names, Counts, Times, Attempts, Least, Clocks, Minus,
         Begun, Base, Whole, timeout_seconds, ScanTime, ConfigureTime, CmdLeave,
         Looping
<1>6. CASE CmdReap
  BY <1>6, TypeParts, TimeAssumption
     DEF Inv, InTime, Place, Names, Counts, Times, Attempts, Least, Clocks, Minus,
         Begun, Base, Whole, timeout_seconds, ScanTime, ConfigureTime, CmdReap,
         Continue, Scanned, Dumped, Configured, Connected, Sampled, Answer, Run
<1>7. ASSUME NEW p \in Pass, CmdWait(p) PROVE InTime'
  <2>1. /\ pc = "wait" /\ pc' = "poll" /\ op' = op /\ cmd' = cmd /\ attempt' = attempt
        /\ Whole' = Whole /\ ok' = (ok /\ left > p)
        /\ left \in Nat /\ spent \in Nat /\ p \in Nat /\ p =< PassMax
    BY <1>7, TypeParts, TimeAssumption
       DEF Inv, Times, CmdWait, Whole, Base, Begun, timeout_seconds
  <2>2. CASE op \notin {"scan", "configure"}
    BY <1>7, <2>1, <2>2 DEF InTime, CmdWait, Passed, Clocks
  <2>3. CASE op \in {"scan", "configure"}
    <3>1. spent + left =< Whole
      BY <2>1, <2>3 DEF InTime
    <3>2. Whole \in Nat
      BY TypeParts, TimeAssumption
         DEF Inv, Names, Counts, Whole, Base, Begun, timeout_seconds, Attempts
    <3>3. (ok' => spent' + left' =< Whole) /\ spent' =< Whole + PassMax
      <4>0. PassMax \in Nat /\ Horizon \in Nat
        BY TimeAssumption
      <4>1. CASE ok /\ left > p
        <5>1. spent' = Least(spent + (p + 1), Horizon) /\ left' = Minus(left, p + 1) /\ ok'
          BY <1>7, <4>1, <2>1, <2>3 DEF CmdWait, Passed, Clocks
        <5>. QED BY <4>0, <4>1, <5>1, <2>1, <3>1, <3>2 DEF Minus, Least
      <4>2. CASE ~(ok /\ left > p)
        <5>1. spent' = Least(spent + (p + 0), Horizon) /\ ~ok'
          BY <1>7, <4>2, <2>1, <2>3 DEF CmdWait, Passed, Clocks
        <5>. QED BY <4>0, <5>1, <2>1, <3>1, <3>2 DEF Least
      <4>. QED BY <4>1, <4>2
    <3>4. op = "configure" /\ cmd = "link" /\ settle' > 0 =>
             spent' + settle' =< 10 + 2 * PassMax + ConnectTime + SettleTime
      BY <1>7, <2>1, TypeParts, TimeAssumption
         DEF Inv, Times, InTime, CmdWait, Passed, Clocks, Minus, Least
    <3>. QED BY <2>1, <2>3, <3>3, <3>4 DEF InTime
  <2>. QED BY <2>2, <2>3
<1>. QED BY <1>1, <1>2, <1>3, <1>4, <1>5, <1>6, <1>7 DEF Command

LEMMA InTimeWifi == ASSUME Inv, InTime, Wifi PROVE InTime'
<1>1. CASE Scan
  BY <1>1, TypeParts, TimeAssumption
     DEF Inv, InTime, Place, Names, Counts, Times, Attempts, Least, Clocks, Minus,
         Begun, Base, Whole, timeout_seconds, ScanTime, ConfigureTime, Scan, Run
<1>2. CASE ScanStopped
  BY <1>2, TypeParts, TimeAssumption
     DEF Inv, InTime, Place, Names, Counts, Times, Attempts, Least, Clocks, Minus,
         Begun, Base, Whole, timeout_seconds, ScanTime, ConfigureTime, ScanStopped,
         Answer
<1>3. CASE Nap
  BY <1>3, TypeParts, TimeAssumption
     DEF Inv, InTime, Place, Names, Counts, Times, Attempts, Least, Clocks, Minus,
         Begun, Base, Whole, timeout_seconds, ScanTime, ConfigureTime, Nap, Waited
<1>4. ASSUME NEW p \in Pass, Settle(p) PROVE InTime'
  BY <1>4, TypeParts, TimeAssumption
     DEF Inv, InTime, Place, Names, Counts, Times, Attempts, Least, Clocks, Minus,
         Begun, Base, Whole, timeout_seconds, ScanTime, ConfigureTime, Settle, Run,
         Answer
<1>. QED BY <1>1, <1>2, <1>3, <1>4 DEF Wifi

LEMMA InTimeFiles == ASSUME Inv, InTime, Files PROVE InTime'
<1>1. ASSUME NEW p \in Pass, NEW t \in 0 .. 1, List(p, t) PROVE InTime'
  BY <1>1, TypeParts, TimeAssumption
     DEF Inv, InTime, Place, Names, Counts, Times, Attempts, Least, Clocks, Minus,
         Begun, Base, Whole, timeout_seconds, ScanTime, ConfigureTime, List, Passed,
         Answer
<1>2. ASSUME NEW t \in 0 .. SendTime, NEW p \in Pass, Head(t, p) PROVE InTime'
  BY <1>2, TypeParts, TimeAssumption
     DEF Inv, InTime, Place, Names, Counts, Times, Attempts, Least, Clocks, Minus,
         Begun, Base, Whole, timeout_seconds, ScanTime, ConfigureTime, Head,
         StallTime, SendTime
<1>3. ASSUME NEW t \in 0 .. SendTime, HeadEnds(t) PROVE InTime'
  BY <1>3, TypeParts, TimeAssumption
     DEF Inv, InTime, Place, Names, Counts, Times, Attempts, Least, Clocks, Minus,
         Begun, Base, Whole, timeout_seconds, ScanTime, ConfigureTime, HeadEnds,
         Close, Waited, SendTime
<1>4. ASSUME NEW p \in Pass, Send(p) PROVE InTime'
  BY <1>4, TypeParts, TimeAssumption
     DEF Inv, InTime, Place, Names, Counts, Times, Attempts, Least, Clocks, Minus,
         Begun, Base, Whole, timeout_seconds, ScanTime, ConfigureTime, Send, Close,
         StallTime, Due
<1>5. ASSUME NEW p \in Pass, Blocked(p) PROVE InTime'
  BY <1>5, TypeParts, TimeAssumption
     DEF Inv, InTime, Place, Names, Counts, Times, Attempts, Least, Clocks, Minus,
         Begun, Base, Whole, timeout_seconds, ScanTime, ConfigureTime, Blocked,
         Passed, Due
<1>6. ASSUME NEW p \in Pass, Stalled(p) PROVE InTime'
  BY <1>6, TypeParts, TimeAssumption
     DEF Inv, InTime, Place, Names, Counts, Times, Attempts, Least, Clocks, Minus,
         Begun, Base, Whole, timeout_seconds, ScanTime, ConfigureTime, Stalled, Close,
         Due
<1>7. CASE HangsUp
  BY <1>7, TypeParts, TimeAssumption
     DEF Inv, InTime, Place, Names, Counts, Times, Attempts, Least, Clocks, Minus,
         Begun, Base, Whole, timeout_seconds, ScanTime, ConfigureTime, HangsUp, Close
<1>. QED BY <1>1, <1>2, <1>3, <1>4, <1>5, <1>6, <1>7 DEF Files

LEMMA InTimeWriting == ASSUME Inv, InTime, Writing PROVE InTime'
<1>1. ASSUME NEW t \in 0 .. SendTime, WritePart(t) PROVE InTime'
  BY <1>1, TypeParts, TimeAssumption
     DEF Inv, InTime, Place, Names, Counts, Times, Attempts, Least, Clocks, Minus,
         Begun, Base, Whole, timeout_seconds, ScanTime, ConfigureTime, WritePart,
         Waited, SendTime
<1>2. ASSUME NEW t \in 0 .. SendTime, WriteEnds(t) PROVE InTime'
  BY <1>2, TypeParts, TimeAssumption
     DEF Inv, InTime, Place, Names, Counts, Times, Attempts, Least, Clocks, Minus,
         Begun, Base, Whole, timeout_seconds, ScanTime, ConfigureTime, WriteEnds,
         Close, Waited, SendTime
<1>. QED BY <1>1, <1>2 DEF Writing

LEMMA InTimeWorld == ASSUME Inv, InTime, World PROVE InTime'
<1>1. ASSUME NEW s \in {"ok", "busy", "fail"}, ChildExits(s) PROVE InTime'
  BY <1>1, TypeParts, TimeAssumption
     DEF Inv, InTime, Place, Names, Counts, Times, Attempts, Least, Clocks, Minus,
         Begun, Base, Whole, timeout_seconds, ScanTime, ConfigureTime, ChildExits
<1>2. CASE PipeCloses
  BY <1>2, TypeParts, TimeAssumption
     DEF Inv, InTime, Place, Names, Counts, Times, Attempts, Least, Clocks, Minus,
         Begun, Base, Whole, timeout_seconds, ScanTime, ConfigureTime, PipeCloses
<1>3. CASE Term
  BY <1>3, TypeParts, TimeAssumption
     DEF Inv, InTime, Place, Names, Counts, Times, Attempts, Least, Clocks, Minus,
         Begun, Base, Whole, timeout_seconds, ScanTime, ConfigureTime, Term
<1>. QED BY <1>1, <1>2, <1>3 DEF World

LEMMA InTimeStep == ASSUME Inv, InTime, [Next]_vars PROVE InTime'
<1>1. CASE UNCHANGED vars BY <1>1 DEF vars, InTime, Base, Begun, Whole, timeout_seconds
<1>. QED BY <1>1, InTimeMain, InTimeReading, InTimeCommand, InTimeWifi, InTimeFiles, InTimeWriting, InTimeWorld DEF Next, Thread

LEMMA InTimeHolds == Spec => []InTime
<1>1. Init => InTime BY TimeAssumption, SizeAssumption DEF Init, InTime
<1>2. Inv /\ InTime /\ [Next]_vars => InTime' BY InTimeStep
<1>. QED BY <1>1, <1>2, InvHolds, PTL DEF Spec

(* A scan and a configuration are answered in the time their deadlines add *)
(* up to and a few passes, whatever each command, the driver and the link  *)
(* do, and whatever a pass takes.                                          *)
THEOREM AnswersBounded == Spec => []AnswersAreBounded
<1>1. Inv /\ InTime => AnswersAreBounded
  BY TypeParts, TimeAssumption
     DEF Inv, Names, Counts, Times, Attempts, Place, InTime, AnswersAreBounded, Begun, Base,
         Whole, timeout_seconds, ScanTime, ConfigureTime
<1>. QED BY <1>1, InvHolds, InTimeHolds, PTL

(* With passes of at most a second and a half a scan is answered within    *)
(* the 25 seconds the BLE worker waits, which the comment in wifi_scan     *)
(* counts on.                                                              *)
THEOREM ScanFitsWorker ==
  ASSUME PassMax =< 3
  PROVE  Spec => [](op = "scan" => spent =< WorkerTime)
<1>1. TypeOK /\ AnswersAreBounded => (op = "scan" => spent =< WorkerTime)
  BY TimeAssumption DEF TypeOK, AnswersAreBounded, ScanTime, WorkerTime, Attempts
<1>. QED BY <1>1, TypeCorrect, AnswersBounded, PTL

-----------------------------------------------------------------------------
LEMMA Parted ==
  ASSUME NEW n \in 0 .. Parts
  PROVE  /\ Listed(n) \in Nat
         /\ n > 0 => Listed(n - 1) = Listed(n) + (PassMax + 1)
         /\ Listed(n) =< Parts * (PassMax + 1)
<1> DEFINE a == Parts - n
           m == PassMax + 1
<1>1. a \in Nat /\ m \in Nat /\ n \in Nat /\ Parts = a + n
  BY SizeAssumption, TimeAssumption
<1>. HIDE DEF a, m
<1>2. a * m \in Nat /\ n * m \in Nat /\ (a + 1) * m = a * m + m /\ (a + n) * m = a * m + n * m
  BY <1>1
<1>3. Parts * m = a * m + n * m
  BY <1>1, <1>2
<1>4. a * m =< Parts * m
  BY <1>2, <1>3
<1>5. n > 0 => Parts - (n - 1) = a + 1
  BY <1>1
<1>. QED BY <1>2, <1>4, <1>5 DEF a, m, Listed

LEMMA PromptMain == ASSUME Inv, Prompt, Main PROVE Prompt'
<1>1. ASSUME NEW p \in Pass, Turn(p) PROVE Prompt'
  BY <1>1, TypeParts, TimeAssumption
     DEF Inv, Prompt, Place, Names, Counts, Times, Attempts, Least, Clocks, Minus,
         Turn, Passed
<1>2. CASE Idle
  BY <1>2, TypeParts, TimeAssumption
     DEF Inv, Prompt, Place, Names, Counts, Times, Attempts, Least, Clocks, Minus,
         Idle, Waited
<1>3. CASE Accept
  BY <1>3, TypeParts, TimeAssumption
     DEF Inv, Prompt, Place, Names, Counts, Times, Attempts, Least, Clocks, Minus,
         Accept, ReadTime
<1>4. CASE Exit
  BY <1>4, TypeParts, TimeAssumption
     DEF Inv, Prompt, Place, Names, Counts, Times, Attempts, Least, Clocks, Minus,
         Exit
<1>. QED BY <1>1, <1>2, <1>3, <1>4 DEF Main

LEMMA PromptReading == ASSUME Inv, Prompt, Reading PROVE Prompt'
<1>1. ASSUME NEW p \in Pass, ReadNothing(p) PROVE Prompt'
  BY <1>1, TypeParts, TimeAssumption
     DEF Inv, Prompt, Place, Names, Counts, Times, Attempts, Least, Clocks, Minus,
         ReadNothing, Look
<1>2. ASSUME NEW p \in Pass, ReadPart(p) PROVE Prompt'
  BY <1>2, TypeParts, TimeAssumption
     DEF Inv, Prompt, Place, Names, Counts, Times, Attempts, Least, Clocks, Minus,
         ReadPart, Look, Answer
<1>3. ASSUME NEW p \in Pass, ReadBad(p) PROVE Prompt'
  BY <1>3, TypeParts, TimeAssumption
     DEF Inv, Prompt, Place, Names, Counts, Times, Attempts, Least, Clocks, Minus,
         ReadBad, Look, Answer
<1>4. ASSUME NEW p \in Pass, Dispatch(p) PROVE Prompt'
  <2>1. running /\ late' = 0 /\ settle' \in 0 .. SettleTime
    BY <1>4, TypeParts, TimeAssumption DEF Inv, Times, Dispatch, Clocks, Minus
  <2>2. pc' = "list" => todo' \in 0 .. Parts
    BY <1>4, SizeAssumption DEF Dispatch, Run, Answer
  <2>3. ASSUME pc' = "list" PROVE Listed(todo') \in Nat
    BY <2>2, <2>3, Parted
  <2>4. pc' = "list" => late' =< Listed(todo')
    BY <2>1, <2>3
  <2>5. /\ pc' \in {"respond", "scan", "fork", "list", "head"}
        /\ op' = "configure" => pc' = "fork" /\ cmd' = "country"
    BY <1>4 DEF Dispatch, Run, Answer
  <2>6. /\ late' = 0 /\ late' =< PassMax + 1 /\ late' =< PassMax + 2
        /\ pc' # "download" /\ pc' # "settle"
        /\ op' = "configure" => cmd' # "link"
    BY <2>1, <2>5, TimeAssumption
  <2>. QED BY <2>4, <2>6 DEF Prompt
<1>5. CASE ReadTimeout
  BY <1>5, TypeParts, TimeAssumption
     DEF Inv, Prompt, Place, Names, Counts, Times, Attempts, Least, Clocks, Minus,
         ReadTimeout, Answer
<1>6. CASE ReadSpin
  BY <1>6, TypeParts, TimeAssumption
     DEF Inv, Prompt, Place, Names, Counts, Times, Attempts, Least, Clocks, Minus,
         ReadSpin, vars
<1>. QED BY <1>1, <1>2, <1>3, <1>4, <1>5, <1>6 DEF Reading

LEMMA PromptCommand == ASSUME Inv, Prompt, Command PROVE Prompt'
<1>1. CASE Fork
  BY <1>1, TypeParts, TimeAssumption
     DEF Inv, Prompt, Place, Names, Counts, Times, Attempts, Least, Clocks, Minus,
         Fork, timeout_seconds
<1>2. CASE ForkFails
  BY <1>2, TypeParts, TimeAssumption
     DEF Inv, Prompt, Place, Names, Counts, Times, Attempts, Least, Clocks, Minus,
         ForkFails, Continue, Scanned, Dumped, Configured, Connected, Sampled, Answer,
         Run
<1>3. CASE CmdRead
  BY <1>3, TypeParts, TimeAssumption
     DEF Inv, Prompt, Place, Names, Counts, Times, Attempts, Least, Clocks, Minus,
         CmdRead, Looping
<1>4. CASE CmdBreak
  BY <1>4, TypeParts, TimeAssumption
     DEF Inv, Prompt, Place, Names, Counts, Times, Attempts, Least, Clocks, Minus,
         CmdBreak, Reaped, Reap
<1>5. CASE CmdLeave
  BY <1>5, TypeParts, TimeAssumption
     DEF Inv, Prompt, Place, Names, Counts, Times, Attempts, Least, Clocks, Minus,
         CmdLeave, Looping
<1>6. CASE CmdReap
  BY <1>6, TypeParts, TimeAssumption
     DEF Inv, Prompt, Place, Names, Counts, Times, Attempts, Least, Clocks, Minus,
         CmdReap, Continue, Scanned, Dumped, Configured, Connected, Sampled, Answer,
         Run
<1>7. ASSUME NEW p \in Pass, CmdWait(p) PROVE Prompt'
  BY <1>7, TypeParts, TimeAssumption
     DEF Inv, Prompt, Place, Names, Counts, Times, Attempts, Least, Clocks, Minus,
         CmdWait, Reaped, Reap, Passed
<1>. QED BY <1>1, <1>2, <1>3, <1>4, <1>5, <1>6, <1>7 DEF Command

LEMMA PromptWifi == ASSUME Inv, Prompt, Wifi PROVE Prompt'
<1>1. CASE Scan
  BY <1>1, TypeParts, TimeAssumption
     DEF Inv, Prompt, Place, Names, Counts, Times, Attempts, Least, Clocks, Minus,
         Scan, Run
<1>2. CASE ScanStopped
  BY <1>2, TypeParts, TimeAssumption
     DEF Inv, Prompt, Place, Names, Counts, Times, Attempts, Least, Clocks, Minus,
         ScanStopped, Answer
<1>3. CASE Nap
  BY <1>3, TypeParts, TimeAssumption
     DEF Inv, Prompt, Place, Names, Counts, Times, Attempts, Least, Clocks, Minus,
         Nap, Waited
<1>4. ASSUME NEW p \in Pass, Settle(p) PROVE Prompt'
  BY <1>4, TypeParts, TimeAssumption
     DEF Inv, Prompt, Place, Names, Counts, Times, Attempts, Least, Clocks, Minus,
         Settle, Run, Answer
<1>. QED BY <1>1, <1>2, <1>3, <1>4 DEF Wifi

LEMMA PromptFiles == ASSUME Inv, Prompt, Files PROVE Prompt'
<1>1. ASSUME NEW p \in Pass, NEW t \in 0 .. 1, List(p, t) PROVE Prompt'
  <2>1. /\ pc = "list" /\ op = "list" /\ op' = "list" /\ todo \in 0 .. Parts
        /\ late' \in Nat /\ late' =< late + p + t /\ late \in Nat /\ (running => late' = 0)
        /\ running' = running /\ late =< Listed(todo)
    BY <1>1, TypeParts, TimeAssumption
       DEF Inv, Place, Counts, Times, Prompt, List, Passed, Clocks, Least
  <2>2. pc' = "list" => todo' = todo - 1 /\ todo > 1
    BY <1>1 DEF List, Answer
  <2>3. pc' = "list" => Listed(todo') = Listed(todo) + (PassMax + 1)
    BY <2>1, <2>2, SizeAssumption, TimeAssumption, Parted
  <2>4. pc' = "list" => late' =< Listed(todo')
    BY <2>1, <2>3, SizeAssumption, TimeAssumption, Parted
  <2>5. pc' \in {"list", "respond"}
    BY <1>1 DEF List, Answer
  <2>. QED BY <2>1, <2>4, <2>5 DEF Prompt
<1>2. ASSUME NEW t \in 0 .. SendTime, NEW p \in Pass, Head(t, p) PROVE Prompt'
  BY <1>2, TypeParts, TimeAssumption
     DEF Inv, Prompt, Place, Names, Counts, Times, Attempts, Least, Clocks, Minus,
         Head, StallTime, SendTime
<1>3. ASSUME NEW t \in 0 .. SendTime, HeadEnds(t) PROVE Prompt'
  BY <1>3, TypeParts, TimeAssumption
     DEF Inv, Prompt, Place, Names, Counts, Times, Attempts, Least, Clocks, Minus,
         HeadEnds, Close, Waited, SendTime
<1>4. ASSUME NEW p \in Pass, Send(p) PROVE Prompt'
  BY <1>4, TypeParts, TimeAssumption
     DEF Inv, Prompt, Place, Names, Counts, Times, Attempts, Least, Clocks, Minus,
         Send, Close, StallTime, Due
<1>5. ASSUME NEW p \in Pass, Blocked(p) PROVE Prompt'
  BY <1>5, TypeParts, TimeAssumption
     DEF Inv, Prompt, Place, Names, Counts, Times, Attempts, Least, Clocks, Minus,
         Blocked, Passed, Due
<1>6. ASSUME NEW p \in Pass, Stalled(p) PROVE Prompt'
  BY <1>6, TypeParts, TimeAssumption
     DEF Inv, Prompt, Place, Names, Counts, Times, Attempts, Least, Clocks, Minus,
         Stalled, Close, Due
<1>7. CASE HangsUp
  BY <1>7, TypeParts, TimeAssumption
     DEF Inv, Prompt, Place, Names, Counts, Times, Attempts, Least, Clocks, Minus,
         HangsUp, Close
<1>. QED BY <1>1, <1>2, <1>3, <1>4, <1>5, <1>6, <1>7 DEF Files

LEMMA PromptWriting == ASSUME Inv, Prompt, Writing PROVE Prompt'
<1>1. ASSUME NEW t \in 0 .. SendTime, WritePart(t) PROVE Prompt'
  BY <1>1, TypeParts, TimeAssumption
     DEF Inv, Prompt, Place, Names, Counts, Times, Attempts, Least, Clocks, Minus,
         WritePart, Waited, SendTime
<1>2. ASSUME NEW t \in 0 .. SendTime, WriteEnds(t) PROVE Prompt'
  BY <1>2, TypeParts, TimeAssumption
     DEF Inv, Prompt, Place, Names, Counts, Times, Attempts, Least, Clocks, Minus,
         WriteEnds, Close, Waited, SendTime
<1>. QED BY <1>1, <1>2 DEF Writing

LEMMA PromptWorld == ASSUME Inv, Prompt, World PROVE Prompt'
<1>1. ASSUME NEW s \in {"ok", "busy", "fail"}, ChildExits(s) PROVE Prompt'
  BY <1>1, TypeParts, TimeAssumption
     DEF Inv, Prompt, Place, Names, Counts, Times, Attempts, Least, Clocks, Minus,
         ChildExits
<1>2. CASE PipeCloses
  BY <1>2, TypeParts, TimeAssumption
     DEF Inv, Prompt, Place, Names, Counts, Times, Attempts, Least, Clocks, Minus,
         PipeCloses
<1>3. CASE Term
  BY <1>3, TypeParts, TimeAssumption
     DEF Inv, Prompt, Place, Names, Counts, Times, Attempts, Least, Clocks, Minus,
         Term
<1>. QED BY <1>1, <1>2, <1>3 DEF World

LEMMA PromptStep == ASSUME Inv, Prompt, [Next]_vars PROVE Prompt'
<1>1. CASE UNCHANGED vars BY <1>1 DEF vars, Prompt
<1>. QED BY <1>1, PromptMain, PromptReading, PromptCommand, PromptWifi, PromptFiles, PromptWriting, PromptWorld DEF Next, Thread

LEMMA PromptHolds == Spec => []Prompt
<1>1. Init => Prompt BY TimeAssumption, SizeAssumption DEF Init, Prompt
<1>2. Inv /\ Prompt /\ [Next]_vars => Prompt' BY PromptStep
<1>. QED BY <1>1, <1>2, InvHolds, PTL DEF Spec

(* After SIGTERM a handler goes on for a pass and a wait, or for what it   *)
(* does not cut short (configure_wifi's deadline, the entries of a         *)
(* listing, the headers of a download), whenever the signal comes.         *)
THEOREM StopPrompt == Spec => []StopIsPrompt
<1>1. Inv /\ Prompt => StopIsPrompt
  <2>. SUFFICES ASSUME Inv, Prompt, pc \notin {"read", "respond", "loop", "exited"}
                PROVE  late =< PassMax + 2 + Unheeded
    BY DEF StopIsPrompt
  <2>1. /\ late \in Nat /\ settle \in Nat /\ todo \in 0 .. Parts
        /\ PassMax \in Nat /\ SettleTime \in Nat
    BY TypeParts, TimeAssumption DEF Inv, Times, Counts
  <2>2. CASE pc = "list"
    <3>1. late =< Listed(todo) /\ op = "list"
      BY <2>2 DEF Inv, Place, Prompt
    <3>2. Listed(todo) \in Nat /\ Listed(todo) =< Parts * (PassMax + 1)
      BY <2>1, Parted
    <3>3. Parts * (PassMax + 1) \in Nat
      BY <2>1, SizeAssumption
    <3>. HIDE DEF Listed
    <3>4. Unheeded = Parts * (PassMax + 1)
      BY <3>1 DEF Unheeded
    <3>. QED BY <2>1, <3>1, <3>2, <3>3, <3>4
  <2>3. CASE pc # "list" /\ op = "configure"
    BY <2>1, <2>3, TypeParts DEF Inv, Names, Place, Prompt, Unheeded
  <2>4. CASE pc # "list" /\ op # "configure"
    <3>1. late =< PassMax + 2 \/ (op = "download" /\ late =< SendTime)
      BY <2>1, <2>4, TypeParts DEF Inv, Names, Place, Prompt
    <3>2. Unheeded \in Nat /\ (op = "download" => Unheeded = SendTime)
      BY <2>1, <2>4, SizeAssumption DEF Unheeded, SendTime
    <3>. QED BY <2>1, <3>1, <3>2 DEF SendTime
  <2>. QED BY <2>2, <2>3, <2>4
<1>. QED BY <1>1, InvHolds, PromptHolds, PTL

=============================================================================
