# Verification of SynCap

SynCap records synchronised stereo sensor data on small camera boards, controls the boards from a
phone, and copies finished sessions off them. This directory holds TLA+ models of the parts where a
mistake loses a recording, the TLC configurations that check them, and the TLAPS proofs about them.
Every definition is translated from the source; `PROJECT.json` gives the lines each one stands for.

## 1. The system

| Component | Source | State it keeps | Talks to |
|---|---|---|---|
| Tina capture engine | `device/tina_service.c` | `g_capture`, integrity baseline, quarantine flag, table of incomplete segments; markers in the ring directory; `session.json` and the export manifest on the SD card | the recorder `qgapp` through a tmpfs directory and signals; HTTP clients |
| Tina HTTP control plane | `device/tina_service.c` | the request being read, a Wi-Fi command with its process and output, deadlines, the time of the last pass over the ring | clients over HTTP; `iw`, `wifi`; the capture engine, which it calls between its own steps |
| Tina watchdog | `device/S95syncap-tina` | two identity files, a stop marker, a failure count | the service and the recorder through signals |
| Tina BLE helper | `device/tina_ble.c`, `device/S96syncap-tina-ble` | the busy flag and the command in progress, the status value, the reassembly table, what is registered with BlueZ, a ready marker | the Tina service over HTTP; a phone over GATT or RFCOMM; BlueZ over D-Bus; its supervisor through the marker and signals |
| RoboBaton device service | `device/syncap_service.py`, `legacy_adapter.py` | the active capture and its recorders under one lock, storage target under another | clients over HTTP, recorder processes, USB storage |
| RoboBaton provisioning | `device/ble_provisioning.py` | fragments of a command, the status value, worker threads | the device service over HTTP; a phone over BLE |
| RoboBaton supervisors | `device/camera_supervisor.py`, `wifi_supervisor.py`, `S96syncap` | a child process, a settings file, a marker file | the device service through files and signals |
| RoboBaton clock and calibration | `ptp_software_grandmaster.py`, `sync_measure_capture.py`, `calibration_snapshot.py`, `phc_raw_cross_timestamp.py` | frame history, snapshot requests | the camera program |
| Session export | `sdk/core/src/export.rs`, `export_manifest.rs`, `client.rs` | files and `.part` files of a destination directory and its lock | a device over HTTP |
| Bindings and CLI | `sdk/ffi`, `sdk/cli` | handles over the core | the core |
| Bluetooth SDKs | `sdk/android/bluetooth`, `sdk/apple/Sources` | one operation: connection, fragments written, reply polling, timers | the BLE helpers |
| Media SDKs and calibration | `sdk/android/media`, `sdk/apple-media` | preview sessions, calibration sessions | preview sockets |
| Apps | `apps/android` (web, Android and iOS hosts, desktop) | UI and download state | the SDKs |

Hard behaviours, by component:

* **Capture engine** - one thread serves a directory that another process writes without any
  handshake: segments are opened, closed and published (non-atomically) at any point of a directory
  walk. File operations fail half way, the process is killed and started again by the watchdog, and
  the board loses power. A capture must start and stop on segment boundaries, must be whole or
  marked as failed, and what was captured but not saved must stay in the ring, quarantined.
* **Control plane** - the thread that empties the ring also reads slow requests, waits for commands that
  hang and sends files to receivers that stall: each wait must make passes, keep a deadline and notice
  the end of the service.
* **Watchdog** - shells that share pid files and signals; check-then-act on every one of them; a
  trap that runs between any two commands; a recorder that outlives its consumer.
* **BLE and RFCOMM provisioning** - five threads of three processes around one busy flag, one status
  value and one reassembly table; commands whose outcome may be unknown to the client, sent again or
  not over a second transport; deadlines of the worker and of the client that pass while the service
  still has the request; a BlueZ that is replaced at any moment.
* **RoboBaton service** - check-then-act between two locks (capture and storage), five recorder
  processes started one after the other.
* **Export** - downloads that are interrupted at any byte, resumed, verified and published next to
  another process doing the same.

## 2. Plan

Order of modules, most important behaviour first. Done so far are the modules with a mark.

1. `TinaCapture` (done): the capture engine and its recorder; shown to implement the abstract
   `CaptureLife`; `TinaCaptureProofs` (types, manifests and quarantine) and `TinaCustodyProofs` (answered
   stops, both boundaries, the quarantine of interrupted sessions, kept segments, complete sessions,
   `CaptureLife`): done for all safety properties.
2. `TinaWatchdog` (done): start, stop, restart, the crash loop; `TinaWatchdogProofs` (done for all its
   safety properties).
3. `SessionExport` (done): resumable export, its lock and its commit; `SessionExportProofs` (done for all
   safety properties).
4. `BatonCapture` (done): the RoboBaton capture manager with the storage manager, shown to implement
   the abstract `CaptureLife`; `BatonCaptureProofs` (done for all its properties).
5. `TinaBle` (done): a Wi-Fi command end to end (client, transport, helper, service, BlueZ, restart of
   the helper); `TinaBleProofs` (done for its safety properties).
6. `TinaServe` (done): the one thread between its clients, the Wi-Fi commands and the ring, with time;
   `TinaServeProofs` (done for all its safety properties).
7. `TinaPublish`: `copy_file_atomic` and `write_atomic_text` step by step under power loss, with
   `AtomicPublish` as the abstract file they promise, which is what `TinaCapture` assumes.
8. `TinaCustody`: an abstract specification of "every captured segment is in the ring or on the card",
   with `TinaCapture` shown to implement it. The promise itself is proved as an invariant
   (`CapturedSegmentsAreKept`).
9. Camera and Wi-Fi supervisors, preview reconnection, the download state of the Android host.

## 3. The capture engine: `TinaCapture`

### State and actions

| Model | Code |
|---|---|
| `ringMcap`, `ringStat`, `closed`, `side`, `ctr`, `prog` | the tmpfs ring: `<n>.mcap`, `<n>.mcap.status.json`, the closing magic, what `segment_status_state` reads from a sidecar |
| `disk`, `sdMcap`, `sdStat`, `listed`, `exported` | a session directory: the `state` and the files of `session.json`, durable files, `.syncap-export.json` |
| `sdState`, `sdListed`, `sdExported` | what a power loss would leave of the two manifests |
| `activeMark`, `quarMark` | the two marker files in the ring directory |
| `pc`, `ret`, `after`, `note` | where the single thread is: the position, the caller of `process_closed_segments`, the point after `quarantine_ring`, whether `fail_active_capture` has to write `session.json` |
| `todo`, `why`, `terminal`, `seenOpen`, `seenSide` | the snapshot a pass walks, why a pair is retired, `g_incomplete_segments` |
| `cap`, `finalizing`, `stopSeg`, `sess`, `files`, `moved`, `capBase`, `capLast` | `g_capture` |
| `adopted`, `baseLast`, `baseStable`, `hasClean`, `genMoved`, `reqLast`, `discarded` | `g_integrity_baseline`, readiness, and the locals of `begin_capture` |
| `quar` | `g_ring_quarantined` |

`Recorder` is the environment: it opens, closes and publishes segments, drops frames, stalls, leaves
a sidecar unfinished or exits. `ProcessEntry`, `MoveSegment` and `EndPass` are one pass of
`process_closed_segments` with `copy_closed_segment` and `retire_ring_pair`; `Quarantining` is
`quarantine_ring` and the manifest of `fail_active_capture`; `BeginCapture` and `FinalizeCapture` are
the two requests; `Loop` is `main` and `supervise_qgapp`; `Boot` is `main` before the loop. `Crash`
kills the service at any step, in the middle of a publish too (`CutShort`); `PowerLoss` empties the
tmpfs and keeps what was synced to the card.

Each action is one durable file operation or the code between two of them, so that the recorder, a
crash and a power loss interleave at that grain. A publish (`write_atomic_text`, `copy_file_atomic`)
syncs a temporary file, renames it, and syncs the file and its directory again. It succeeds, fails
before the rename, or fails after it; in the last case the new file is there but nobody knows what a
power loss would leave of it: the new file, an empty one (the comment in `copy_file_atomic` says why),
or the old one. `Outcome` has these five cases, and `Stored` is what each leaves. A power loss in the
middle of a publish is a `Crash` there with a `PowerLoss` after it. Segments are numbers in the order in which the recorder opens them, which is the order
`ring_status_entry_compare` gives names of one recorder run. Integrity counters are one cumulative
number, and so is progress; a sidecar is `clean`, `integrity` (complete but with bad counters),
`failed` or `pending`.

Clocks are not modelled: a test of a deadline may go either way, except that an entry is never stale
the first time it is seen.

### What is checked

| Run | Bounds | Property | Says |
|---|---|---|---|
| `safety` | 6 segments, two captures, constraint `Scenario` | `CompleteIsWhole` | a complete session is the uninterrupted run of segments from its boundary to the one open at the stop, listed alike by both manifests (the export manifest may be empty if the power went before the answer), and nothing leaks from one capture into the next |
| | | `StartsAtBoundary` | the segment open at the request is not part of the session (recorder publishes before it opens the next) |
| | | `QuarantineHoldsRing` | nothing leaves a quarantined ring unless saved |
| | | `ListedIsDurable` | manifests list only durable files |
| | | `CapturedIsKept` | after an answered start every segment is in the ring or saved and listed |
| | | `InterruptedIsQuarantined` | a session cut short leaves the ring quarantined |
| | | `StopBoundaryHolds` | the stop boundary stays and nothing past it is saved |
| | | `LifeSpec` | the engine implements `CaptureLife` (section 6): one capture at a time, each ends once, none becomes complete later, an answered one is complete from then on, also in what a power loss leaves |
| `live` | 5 segments, one capture, one upset or one crash, constraint `LiveScenario`, fair | `RingDrains`, `RecorderLossIsNoticed` | published pairs leave the ring or it is quarantined; a dead recorder is noticed |
| | | `RequestsAreAnswered` | start and stop return whatever the recorder does, also with the last segment |
| | | `FrozenIsKilled` | a recorder frozen by a service that died is killed by the next |

The bounds: two steady segments make the baseline, one is the boundary of a start, one is captured
and one is open at the stop (the boundary may be the second steady one), so four segments reach every
step of a capture, a fifth a session of two segments, and a sixth makes room for a second capture.
`Scenario` keeps what goes wrong in one behaviour to what the code's recovery is
written for, with one capture and four segments: one upset of the recorder, or any two of one failing
file operation, one crash and one power loss. `LiveScenario` also keeps a start after an accident to
the three segments that it needs. Both cut steps of the recorder and accidents only, and none of these
is fair, so they are sound for liveness. In `live` a stop finds its last segment published but not
saved, with an unfinished sidecar, or without one, in each case with an upset, after a restart, or
with neither, and each way out of its wait is taken (`StopSaved`, `StopTimeout`, `StopInterrupted`). The
recovery from two failures in a row is named as a hazard. Each bound was also raised by one in
exploratory runs without a new result (up to 7 segments with two sessions, and one upset with one
fault and one crash; five segments under every accident: 1.35 million states).

`safety` has a recorder that publishes a segment before it opens the next. For one that opens first
`StopBoundaryHolds` is a theorem (below: any value of `Overlap`), and `v_preroll` shows what does not hold.

Fairness (`FairSpec`): the service's thread keeps running, and a test of a deadline that is made
again and again succeeds in the end. The deadlines that a pass tests share one condition, which asks
only that one of them succeeds; the one for aligning and the one for the stop have their own. The
code justifies both: it is one loop whose waits all have deadlines on the monotonic clock. Nothing
is assumed of the recorder.

### Where the code and its documentation disagree

* `v_recovery` - `begin_capture` aligns to a boundary for up to six seconds, during which a pass may
  quarantine the ring, and does not look at `g_ring_quarantined` again; the README of the board says
  captures are refused while quarantined.
* `v_preroll` - a start waits for *some* clean pair to be discarded. When the recorder opens a
  segment before it publishes the previous one, that pair is the previous one, and the segment that
  was open at the request becomes the first of the session.

### What is proved

`TinaCaptureProofs` proves, for every number of segments, sessions, upsets, faults, crashes and power
losses:

* `TypeCorrect`: `Spec => []TypeOK`. The type invariant alone is not inductive: `cur == Min(todo)`
  is a segment only while the pass has an entry in hand, so the invariant is `TypeInv`, `TypeOK` with
  `EntryInHand` (at every position of a pass that works on an entry, `todo` is not empty).
* `ManifestsListDurableFiles`: `Spec => []ListedIsDurable`. Needs `Control`, which ties the position
  of the thread to the capture (a capture is live, and has a session number, exactly while its steps
  run), and `Durable`, that the files `g_capture` remembers are durable and that the entry being
  copied is durable by the time it is remembered, for the manifests on the card and for what a power
  loss would leave of them.
* `QuarantineHolds`: `Spec => QuarantineHoldsRing`, from the same invariants: the only step that takes
  a pair out of a quarantined ring is the retirement of an entry whose export manifest is written.

`TinaCustodyProofs` extends it and proves what the engine keeps:

* `AnswersAreFinal`: every session whose stop was answered is `Lasting`, that is complete both on the
  card and in what a power loss leaves of it (the run checks this as part of `LifeSpec`). The invariant
  `Sessions` says whose session is on the card: the one being recorded is the last one begun and is not
  answered, and it is already `Lasting` while the stop does its last two steps. That is where the second
  `fsync` of `write_atomic_text` is needed: without it (`NotSynced`) an answer is lost with the power.
* `StopBoundaryKept`: `Spec => StopBoundaryHolds`. The invariant `Stops` ties the boundary to the steps
  of the stop: a boundary is remembered only by a live capture that stops, and a pass copies an entry
  only after it compared it with the boundary.
* `InterruptionQuarantines`: `Spec => []InterruptedIsQuarantined`, assuming `MaxFault \in 0 .. 1`. The
  invariants are `Phases` (what each position of the thread knows about the capture) and, while the
  power is on, `Marks` (an answered session that is not complete has the active marker or the
  quarantine marker behind it, and without a capture the service is past boot only in quarantine).
* `CapturedSegmentsAreKept`: `Spec => []CapturedIsKept`, under the same assumption. It is inductive
  only together with `Ring` (a pass visits the snapshot in order, and what it has left behind is no
  longer there), `Boundary` (what is in the ring when a start finds its boundary lies above it),
  `Lists` (what the manifests in memory and on the card list)
  and `Kept` (where each captured segment is, at each point of a copy and of a retirement).
* `SessionsStartAtBoundary`: `Spec => []StartsAtBoundary`, assuming `Overlap = FALSE`, and
  `CompleteSessionsAreWhole`: `Spec => []CompleteIsWhole`, with no assumption on the constants. Both
  are described below.
* `ImplementsCaptureLife`: `Spec => LifeSpec`. A session is running while it is `sess`, promised when
  its stop was answered, complete when `session.json` or what a power loss leaves of it says so (for an
  answered one: both). `Activate` implements `Begin`, the successful `ClearMark` implements `Answer`,
  everything else is `End` or no step. It needs `Sessions` (a start takes a session that is new, a stop
  answers one that is `Lasting`), `Phases` (a start is aligned without a capture) and the lemma
  `OverStays`: a session that is over never becomes complete, and an answered one stays so.

`InterruptionQuarantines` and `CapturedSegmentsAreKept` are false for two faults, and the assumption says so: when the quarantine marker
and the failed `session.json` cannot both be written, the service comes back as if idle and discards
the ring (hazard at `tina_service.c:1721`). The runs use `MaxFault = 1` too.

The start boundary and the whole session rest on one inductive invariant, `Ground`, which says what
the engine knows of the recorder from the ring alone, and what that is worth after a restart that
finds a recorder running and a ring half full:

* `Boots`: a recorder that is quarantined is dead, and so is one that the service has neither found
  nor started. Segments of an earlier process are numbered up to `born`; a later one begins after them.
* `SweptStat`, `Drained`, `Residue`: sidecars leave the ring in order. The ring may hold what an
  earlier recorder left, but then its first entry is one that no pass can take out (an unfinished
  sidecar, a missing footer), so no pair of the present recorder is moved, observed or discarded
  before that is gone. The integrity baseline therefore never mixes two recorders, whose counters and
  progress both start at zero.
* `Base`: while a start is being aligned and the counters have not moved, what is discarded is what
  the baseline was observed on, and every sidecar written after the boundary is still in the ring.
* `Line`: a capture has accepted the unbroken run of segments from its boundary to `capLast`, with
  equal counters and rising progress, and every later sidecar is in the ring. So the next one that a
  pass accepts is `capLast + 1` (`AcceptIsNext`), and what was accepted does not change any more
  (`WholeStays`: a finished sidecar is not written again). It holds only while the recorder lives as
  far as the service can tell (`Alive`): after that nothing is accepted.
* `Fresh`, `Files`: no session has a `session.json` before it begins, and the manifest in memory and
  the export manifest, synced, follow the line of accepted segments at each step of a copy.
* `StopsAt`: the boundary of a stop is the last segment that was open; when it is saved, it is the
  last of the line.
* `Held`, `Done`: only the commit of its own stop makes a session complete (`CardStep`), at a moment
  when all of the above holds of its capture (`CommitHolds`); from then on the list in memory stays
  (`Held`), the segments are not written again, and nothing but a power loss changes the manifests.
  `Done` says it of the card (`DoneOnCard`) and of what a power loss would leave
  (`DoneAfterPowerLoss`), because a power loss turns the second into the first.

`SessionsStartAtBoundary` adds `Settled` (a recorder that publishes a segment before it opens the next
has published and closed all but the open one) and `Start`: when a start has made its first pass,
every segment before the one that was open at the request has been dealt with, so that the next clean
discard is that one or a later one. The assumption cannot be dropped: for `Overlap = TRUE` the
property is false, which is what `v_preroll` shows. `Ground` needs none of it, so a complete session is
whole for a recorder that overlaps its segments too. All parts were checked with TLC before they were
proved: with the constants of `safety`, with overlapping segments, and with two upsets.

The proofs rest on the three named assumptions of the module (bounds are naturals, at least two
stable segments, `Overlap` is a Boolean) and on `FiniteSetTheorems`. All safety properties of the run
are proved. The liveness properties of `live` are model-checked only; liveness under fairness is out
of the prover's reach.

### What is left out

The synchronisation telemetry (`g_sync`), dry-run mode, allocation failures, a second `qgapp` process
(the code quarantines on it), the 64-entry limit of the incomplete-segment table, the space of
retired files that a crash leaves behind, storage selection and Wi-Fi.

## 4. The watchdog: `TinaWatchdog`

### State and actions

| Model | Code |
|---|---|
| `dog` | where a watchdog shell is in `watchdog_loop`; `Dogs` are pids, reused after a watchdog ended |
| `term`, `watchdog_stop` | a TERM that the shell has not run its trap for, and what the trap sets |
| `watchdog_child`, `rapid_failures`, `lasted` | the locals of `watchdog_loop` |
| `svc` | service processes: started, serving (the port is bound), serving for 15 s, zombie |
| `qgapp` | the recorder runs |
| `dogFile`, `kidFile`, `marker` | `SERVICE_PID`, `SERVICE_CHILD_PID`, `STOP_MARKER` |
| `adm`, `keep_qgapp` | where each administrator's shell is in `start`, `stop` or `restart` |
| `asked`, `shorts` | history: services told to end; short runs in a row |

Each action is one command of a shell, so the trap, a second shell and the end of any process come
between any two. An identity file holds pid, start time and role: a stale one matches nothing, which
the model keeps by not reusing a process that a file names. A process that ended is a zombie while
its watchdog lives, and `process_start_time` finds no zombie.

### What is checked

| Run | Bounds | Property | Says |
|---|---|---|---|
| `watchdog` | 2 watchdogs, 3 services, 3 commands, one file that cannot be written, one watchdog killed from outside, fair | `StopLeavesNothing` | after stop there is no watchdog, service or recorder |
| | | `NoRivals` | two services run beside each other only for each watchdog somebody killed; a restart launches its watchdog when no service is left |
| | | `AskedExitIsNoFailure` | an exit that was asked for does not count towards the crash loop |
| | | `RecorderHasConsumer` | a running recorder gets a consumer or is stopped, unless a watchdog was killed from outside |
| `v_rapid` | | `CrashLoopIsRapid` | violated: see below |

A crash loop takes three services in a row, so three service processes are enough; a third command
reaches a stop after a restart. Timeouts of `stop` are found expired at any time, with one
assumption: a watchdog that is not blocked in `wait` acts within the six seconds that `stop` gives it.

Fairness (`FairSpec`): a shell that can take a step takes it, and a service that has started binds
its port or ends. Nothing is assumed about crashes. A watchdog killed from outside is not restarted
by anyone, which is why `RecorderHasConsumer` excepts it. `Admins` may hold more than one shell; the runs have one, because `stop` and `start`
from two shells at a time remove each other's files and nothing promises an outcome.

`v_rapid`: the script sets the failure count to one, not to zero, after a run of 15 seconds or more;
one such run followed by two short ones is treated as the crash loop that the README describes as
three short failures.

Left out: log rotation, steps of the wall clock (the script measures run times with `date`), and an
administrator's shell that dies half way through `restart`.

### What is proved

`TinaWatchdogProofs` proves the four safety properties for any number of processes, commands, faults
and kills, from `ProcessAssumption` and `BudgetAssumption`.

- `TypeCorrect` holds for any number of administrators.
- `StopClean`, `AskedIsNoFailure` and `NoRivalsHold` are stated for exactly one administrator, as in
  the run: with two, one shell's `start` removes the marker that the other one's `stop` relies on.

`StopClean` rests on `Solo`. There is at most one watchdog (`Single`). Its identity file names it,
except between its launch and its first step, during which the administrator waits for it (`Named`).
While a stop is under way the marker stands (`Marked`). Once its six seconds are over the watchdog is
gone, blocked in `wait` or on the way from there to its end, and the marker leaves it no way back to a
spawn (`Turned`). So the KILL of the services and of the identified watchdog leaves nothing, and
nothing starts anything before the recorder has been stopped too (`Taken`).

`AskedIsNoFailure` rests on `Kids`. A child that is judged has ended, and nobody had asked it to. A
service noted as asked is the child of a live watchdog, and the marker stands as long as one is: a
watchdog whose child was asked to end goes from `clear` to `leave` and never to `judge`.

`NoRivalsHold` rests on `Solo`, `Kids` and `Rivals`. Of the services that run, one at most is the child of
the one live watchdog; the others are strays (`Strays`), and `Counted` says that there are no more of them
than watchdogs were killed. One more is allowed for (`Excused`) while a stop has ended its watchdog but not
yet killed a child that no file identifies. A watchdog that ends by itself leaves no stray: it gets to its
end with a child that runs only through its trap (`Left`), and a TERM is pending or trapped only while the
stop that sent it waits (`Trapped`). `Restarted` carries to the start of a `restart` what its stop has
achieved.

`RecorderHasConsumer` is model-checked only, being a liveness property.

## 5. Export of a session: `SessionExport`

### State and actions

| Model | Code |
|---|---|
| `final`, `part` | what is under `<name>` and `<name>.part` in the destination |
| `durable` | names whose data has been synced |
| `pc` | where an `export_session` is; `lock` .. `done` are its steps, the four in `Blocking` run on blocking threads |
| `detached` | the future was dropped while a blocking operation runs: it finishes, and only then the lock of the directory is free (`ExportWriter` and `commit_partial` own a reference to it) |
| `session`, `todo`, `manifest_exists`, `written` | its locals: the export plan, the files still to do, the answer of `final_exists` for `session.json`, the bytes of the current file |
| `begun`, `cuts`, `junked`, `foreigns`, `stops`, `powers` | history and budgets |

Content is a number of blocks of one session, or junk. A write appends one block; a block at another
place than behind the ones that are there makes junk, so a wrong offset, an open without truncation
or two writers at once show. A hash compares with the whole file. The network may fail at any point,
answer a range request with the whole file, end a body early, or damage a block. A power loss may
damage what was not synced and takes back renames, the last ones first (metadata journalling).

### What is checked

| Run | Bounds | Property | Says |
|---|---|---|---|
| `export` | 2 exports, 2 sessions (2 blocks, 1 block per file), 2 files and `session.json`; at most two accidents of: failing responses, a damaged block, a foreign file, cancellations or kills, a power loss (`Few`); fair | `FinalIsVerified` | while there is power a final file is a whole file of one session, or somebody else's |
| | | `SurvivesPowerLoss` | so it is after a power loss, if no export was interrupted otherwise |
| | | `ManifestMeansComplete` | `session.json` of a session is there only with all its files |
| | | `ReportIsTrue` | an export that reports success is right about the directory |
| | | `PartIsResumable` | in a directory used for one session every `.part` is the beginning of its file |
| | | `FinalIsKept` | nothing that has its final name is replaced or removed while there is power |
| | | `ExportResumes` | repeating the command completes the export |

Two exports are what the lock has to keep apart, two sessions are what can get mixed up, and a file
of two blocks can be interrupted in the middle; the second accident meets the state that the first
left. `Few` cuts a third accident, and as accidents are not fair it cuts no fair step. Exploratory runs without it, which used the symmetry of the
exports, found nothing else, and the safety properties are proved for any number of accidents.

`SurvivesPowerLoss` has its condition for a reason. `download_file` syncs a `.part` before it commits
it, but a `.part` that is found with its full length and the right hash is committed as it is
(`export.rs:404`). If the export that wrote it was interrupted between the last write and `sync_all`,
the data may not be on the disk yet; a power loss after the commit then leaves a damaged file under
the final name, and every later export refuses to replace it. Without the condition TLC shows this in
thirteen steps: download, cancel, repeat, power loss.

Fairness (`FairSpec`): an export that can take a step takes it, and each user repeats the command.
Failures are not fair, and bounded. The property is about a directory used as the SDK's README
asks (one session, nobody else's files), without damaged blocks: a `.part` with a wrong hash is kept
on purpose and stops every later export until it is moved away.

### What is proved

`SessionExportProofs`, for any number of exports, sessions, files and failures, and files of any size:
`TypeCorrect`, `FinalsAreVerified`, `FinalsSurvivePowerLoss`, `ManifestStandsForAll`, `ReportsAreTrue`,
`FinalsAreKept` and `PartsAreResumable`. They follow from one inductive invariant, `Inv`:

* `Exclusive`, at most one export has the lock, which makes every other export a bystander
  (`BystanderStands`): it knows at most that the files it reported are there, and those do not change;
* `AtFile`, what an export knows of its current file: the name is free (or foreign), `written` is the
  length of the `.part`, and before `commit` the `.part` is the whole file - after `HashMatches`, after
  `FullPart`, or because `session.json` is written in one piece;
* `Behind`, that the files it has been through are whole, and `session.json` too if it found it;
* `Durable`, that without interruptions a name that is not durable is being written by somebody, so a
  power loss cannot hurt what has its final name.

`QuietStep`, `GoesIdle`, `GoesOn` and `PartStep` keep the invariant for whole families of actions; the
commit, a foreign file and the power loss are proved on their own. `PartsAreResumable` needs one
invariant more, `Resumable`: an export that runs is of a session that was begun, and as long as that
is one session only its blocks are appended, each behind the last. The assumptions are those of
`SessionExport`: sizes are positive (`export_files` refuses empty files), and the model values differ.
`MinMaxLemmas` proves what `Min` and `Max` return for finite sets of integers.

Left out: names, URLs, redirects and the parsing of the documents; a session whose `session.json`
changes on the device between two exports; file systems without an atomic no-clobber rename, and
volumes that vanish; the size overflow checks (sizes are far below 2^64).

## 6. The RoboBaton captures: `BatonCapture`, `CaptureLife`

### State and actions

| Model | Code |
|---|---|
| `clock`, `active`, `astate`, `root`, `processes` | `CaptureManager`: its lock, `active` with its `state`, the volume of `active_session_path`, `processes` |
| `spawned` | the local list of `_spawn_recorders` |
| `target`, `saved`, `slock` | `StorageManager`: `target`, `storage.json`, its lock |
| `plugged`, `live`, `stale` | the drive is in, is mounted, was pulled out while mounted |
| `manifest`, `durable` | `session.json` per volume and session, and what a power loss leaves of it at worst |
| `where`, `data` | the volumes on which recorders opened files of a session; whether their data is cached, on the disk, or damaged |
| `alive`, `cut` | recorder processes (four cameras and the IMU in the code), and those that ended too early |
| `pc`, `arg` | where each request thread is |
| `used`, `taken`, `acked`, `unsaved` | history: sessions begun; those whose drive was ejected, pulled out or mounted during the capture; those answered with `completed`; those whose last manifest could not be written |

`Start` to `Publish` is `start`, `Stop` to `Completed` is `stop`, `Abort` and `Note` are the exception
handlers of both; one step is a lock, a file operation, a process or the code between. `Check`,
`Configure`, `Eject`, `Ejected` are `do_POST` with the storage manager, `Look` is every request that
mounts the drive on the way, `Boot` is the start of the service with its recovery.

A path below the mount point means three things: the drive while it is mounted, nothing while a
pulled drive is still mounted there, and otherwise a directory of the root file system, the volume
`shadow`. `Resolve` decides that at every file operation, as the kernel does; the code never looks
again after `capture_root`.

The environment is `RecorderEnds`, `Kill` (SIGKILL by `S96syncap stop` or the kernel; recorders are
sessions of their own and go on), `Unplug`, `Plug` and `PowerLoss`. A power loss keeps, per volume and
session, the manifest on the disk or an older one that was synced, and damages files that were not.

### What is promised: `CaptureLife`

The abstract specification of both device services. A session is new, running, complete, or ended
without being complete. One runs at a time, each ends
once, nothing becomes complete after its end, and a session whose stop was answered with `completed`
is complete from then on. One that is complete but was not promised may be lost. The refinement mapping of `BatonCapture`: a session runs while it is `active`; it is complete
when the `session.json` beside all of its files says so and the files are not damaged; promised are the
answered sessions but the `taken` ones. `MakeDir` implements `Begin`, `Completed` implements `Answer`
(with `os.sync` before it), everything else is `End` or no step.

### What is checked

| Run | Bounds | Property | Says |
|---|---|---|---|
| `baton_safety` | 2 threads, 2 sessions, one camera and the IMU, 4 requests; at most two accidents, one of a kind but recorders | `TypeOK` | recorders write on volumes |
| | | `CompleteIsWhole` | a complete manifest stands for recorders that have ended and cameras that ran to the stop |
| | | `IdleIsSettled` | an idle service leaves nothing unfinished on the internal storage, but what it could not write |
| | | `LifeSpec` | the service implements `CaptureLife` |
| `v_fallback` | 3 requests, no accident | `NeverFallsBack` | violated: see below |

Two threads are what the two locks have to keep apart, and the third and fourth request are the stop
of a capture and the next start. With one camera beside the IMU every order of a failing spawn
occurs. A second accident meets the recovery from the first. The view leaves out the recorders and
files of sessions that have ended incomplete on every volume, which no action reads again.

`v_fallback`: a request to eject tests for a running capture under the lock of the capture manager
and unmounts under the lock of the storage manager. A start between the two chooses the drive, loses
it, makes its directories again through `atomic_json` and records on the internal storage below the
mount point; the board's README says that a USB target never falls back. Such a
session is `taken`, like one whose drive is pulled out, and is not promised.

### What is proved

`BatonCaptureProofs`, for any number of threads, sessions, cameras, requests and accidents: `TypeCorrect`,
`CompleteStandsForWhole`, `IdleServiceIsSettled` and `ImplementsCaptureLife` (all of `LifeSpec`), from the
assumptions that the IMU is no camera, that `None` is no thread or session, and that the bounds are
naturals. The invariant, `Inv`, in parts:

* `Asked`, `Control`: who holds the lock, what a request asks for, and what its position says of
  `active`, `astate` and `processes`. `HolderAlone` draws the conclusion: while a thread has the lock,
  only it touches the capture. Types depend on it: a manifest is written for a capture.
* `Fresh`: nothing is on any volume of a session that has not begun.
* `Halted`, `Final`: what the stop has established about the recorders when the manifest is written,
  and that a complete manifest is the last one, in the cache and on the disk. A recorder that a failed
  start left behind cannot belong to a complete session.
* `Settled`: the internal storage says of captures that are over that they are.
* `Steady`, `Promised`, `AckedOver`: as long as nothing happens to the drive, the files are on the
  volume that was chosen, and `os.sync` reaches them; what was answered is on the disk from then on.

`ManifestStep`, `RecorderStep`, `FilesStep`, `BegunStep` and `DriveStep` state once what any step may do to a
part of the state, and every other proof cites them instead of going through the actions.

Left out, or abstracted: the contents of manifests, MP4 tables and logs, free space (a refusal may
come at any time); a camera that ends less than 2.5 s before the stop passes `validate_capture_videos`
and is not `cut`; the IMU file is not validated by the code, so a session may be complete with an IMU
recorder that ended early; SIGINT, SIGTERM and SIGKILL of `_stop_processes` are one step; recorders
orphaned by a failed spawn or a killed service stay in `alive` until they end; a restart of the
cameras for a new orientation is a `RecorderEnds`; the recovery looks at mounted volumes only, as the
code does, so a drive that comes back later keeps its unfinished manifests. There is no liveness
property: every wait of the handlers is a timeout, and the model has them expire at any time.

## 7. Commands over Bluetooth: `TinaBle`

### State and actions

| Model | Code |
|---|---|
| `main`, `has`, `sig`, `stop`, `lost`, `marker` | `main` of `tina_ble.c` between start and exit, its `*_registered` and `*_started` flags, `g_signal_stop`, `g_stop`, `g_bluez_lost`, the ready marker |
| `active`, `status`, `reasm` | `g_worker_active`, `g_status`, `g_reassembly` |
| `bus`, `rf`, `worker` | whoever dispatches D-Bus messages, `rfcomm_server_main`, one `worker_main` per command |
| `backlog`, `serving`, `ran` | connections the HTTP service has not taken, the one it owes an answer, the requests it has carried out |
| `bluez`, `regs`, `queue`, `lossMsg` | BlueZ, what is registered with it, GATT writes on their way, a `NameOwnerChanged` on its way |
| `ph`, `wrote`, `timer`, `got`, `res`, `conns`, `sent` | `ProvisioningClient`: where `execute` is, `wrote`, the timer of an RFCOMM command, the parts of the status read, the outcome; RFCOMM connections and bytes on their way |
| `accepted`, `disturbed` | history: commands in the order of acceptance; commands that something came between |

`SetUp` to `Exit` are `main`; what its calls of BlueZ do with the messages that arrive meanwhile are the
actions of `Bus`, which the dispatcher thread runs in between. `WriteBusy`, `WriteWaits` and
`WriteCompletes` are `accept_command_value` (table busy, fragment stored, message whole), `Claim` with
`SpawnWorker`, `SpawnFails` and `set_failed_status` is `dispatch_command` from the flag on.
`RfAccept` to `copy_status` are one RFCOMM session, `http_request` to `WorkerEnds` a worker,
`handle_request` and `send_json` the loop of `tina_service.c`. `gatt` to `RfThrows` and the two timer
actions are the Android client. An action is one section under `g_state_lock`, one D-Bus message, or
one call of another process.

A command is sent once, by a client of its own, and stands for its content and its answer. Deadlines
expire at any time. What goes wrong is counted in `faults`: a call of BlueZ that fails (it may have
been carried out all the same), a thread that cannot be started, a marker that cannot be written, an
`accept` that fails, a fragment that comes later than `BLE_FRAGMENT_TTL_MS`, SIGTERM, a kill of the
helper or of the service, and the loss of BlueZ.

### What is checked

| Run | Bounds | Property | Says |
|---|---|---|---|
| `ble` | 2 commands in 2 fragments, one of which may go over either transport; one accident around one command (`Scenario`), fair | `FailureIsHonest` | a command reported as failed (not "unknown") is never accepted, so that it may be sent again |
| | | `CarriedOutInOrder` | the service carries out a command at most once and in the order of acceptance |
| | | `BusyIsOwned` | the busy flag is up exactly while one thread holds a command |
| | | `AnswerIsOwn` | an answer is the final one of the client's own command, unless something came between; "done" means carried out |
| | | `MarkerMeansListening` | the ready marker names a helper whose RFCOMM socket listens |
| | | `LossEndsHelper` | a helper whose BlueZ is lost exits |
| | | `BusyEnds` | the busy flag comes down again |

Two fragments are the least that can be interleaved, expire or be replaced; two commands are what
the flag, the status and the table have to keep apart. `Scenario` lets both clients run as long as
nothing goes wrong, and lets the accident happen while one of them has not begun. It cuts an accident
while both run and a client that begins after one; every fair action has an outcome without an
accident and clients are not fair, so that no fair step is lost where it cuts. Without `Scenario`, with two
commands and one accident anywhere, the safety properties hold as well (2.8 million states, not part
of the runs), and the invariants that are proved hold for any number of either.

Fairness (`FairSpec`): the threads of the helper run, and a worker ends. The code justifies it: a call
of BlueZ has a timeout, `accept` is woken by the socket that is shut down, a session has ten seconds
to send its command and a deadline for its answer, a request of a worker has a deadline. Clients, the
service, BlueZ and the supervisor are not fair: they may stop for good.

`disturbed` is what `AnswerIsOwn` cannot promise, and it is wide on purpose. The status is one value
without the name of a command in it: a client that polls after another command was accepted reads the
status of that one. So does a client whose fragments were replaced by the first fragment of another
message, or whose helper was restarted. And when a worker cannot be started, the flag is
cleared in one section and the failure written in another; a command accepted in between has its
status overwritten. The client's protection is that it asks for one command at a time
(`serial.withLock`), which holds for one phone.

### What is proved

`TinaBleProofs`, for any number of commands, fragments and accidents, from the assumptions that `None`
is no command, that there is at least one fragment, and that the bound on accidents is a natural:
`TypeCorrect`, `BusyHolds`, `FailureHonest`, `CarriedOut`, `AnswerOwn`, `MarkerListens`, `AbsentEnds`:
every invariant the run checks, and two that it does not: the types (the client never polls for
fragments that do not exist) and `AbsentIsTemporary` (a helper that advertises without its GATT service
is about to exit). The frame lemmas
(`MainLeaves` to `ClientLeaves`) say once what each thread leaves alone; the invariants are

* `Base`: the types, `Down` (nothing of an earlier helper is left when one is started), `RfThread`, and
  `Busy`, that the set `InProgress` is a singleton while the flag is up and empty otherwise. `BusyIsOwned`
  speaks of its cardinality, which says less about *which* thread holds the command; `Alone`,
  `ClaimBusy` and `HandOver` are the steps between threads.
* `Reach`, per command: before `wrote` is set nothing of it has left the client; it is on its way at
  most once; what was accepted is nowhere on its way. The socket that the timer closes before it reads
  `wrote` is what keeps it inductive.
* `Order`: what the service has had and has in its backlog, in that order, is a part of `accepted` in
  the same order; a command between its acceptance and its request is the last one accepted.
* `ReadyInv` and `Adverts` for the marker and the advertisement.
* For `AnswerIsOwn`, in this order: `Carried` (a status that says "done", in the mailbox or already
  read, belongs to a command the service carried out); `InLine` (the thread in progress works on the
  command accepted *last*); `Paths` (a command is on its way over one transport, so that the failure of
  one never meets its answer over the other); `Table` (as long as nothing came between, the table holds
  exactly the fragments the client has had acknowledged, so that the last acknowledgement means
  acceptance); `Owned` (as long as nothing came between, the status is that of the command its client
  waits for, and says "working" while a thread works on it; the RFCOMM thread, which reads the flag
  before the status, never copies "working"); and `Replies` (between the two reads of a final answer
  nobody changes the status). `Table`, `Owned` and `Replies` need `disturbed` as their escape: the step
  that would break one of them for a command is the step that adds the command to it.

The liveness properties are model-checked only.

### What is left out

The parsing and rewriting of commands and answers (`json_*`, `compact_*`), pairing and the agent,
single writes without a fragment header, collisions of message ids, failing `malloc`, the end of the
D-Bus daemon, `Release` calls (BlueZ sends them before its name disappears: they are part of
`lossMsg`), the supervisor's count of rapid exits, and, at the client, discovery, pairing, the
cancellation of a coroutine and the order of several commands of one client. The connection and the
test of `finished` that follows it are one step.

Met while modelling, and not claimed by any document in a form that a run could refute: the RFCOMM
thread ends for good when `accept` fails for another reason than a shutdown, while the helper goes on
with GATT only and its marker stays (`tina_ble.c:1301-1306`); an advertisement whose
`UnregisterAdvertisement` failed stays until the process has ended; a helper whose RFCOMM server could
not be started never writes the marker, so that the supervisor ends it after its 30 seconds although
it serves GATT; and between the start of the helper and `record_process` the supervisor can be
stopped without ending its child.

## 8. One thread for everybody: `TinaServe`

### State and actions

| Model | Code |
|---|---|
| `running` | `g_running` |
| `pc`, `op` | where the thread is (`main`, `parse_http_request`, `wifi_scan`, `configure_wifi`, `run_command_capture`, a listing, a download, `write_all`), and for which request |
| `used`, `todo` | pieces of the request received; entries of a listing or pieces of a file or an answer still to go |
| `left`, `settle` | time to the deadline of the read, the command or the stalled download; time to the deadline of `configure_wifi` |
| `attempt`, `cmd` | of `wifi_scan`; the command that runs (scan, dump, country, connect, or `iw link`) |
| `child`, `status`, `pipe` | its process, its exit, and whether somebody still holds its output open |
| `child_done`, `pipe_done`, `ok` | the locals of `run_command_capture` |
| `gap`, `spent`, `late`, `over` | history: time since the last pass, since the handler began, since the signal; the output was refused |

`Turn` to `Exit` are `main`; `Look` with the `Read` actions is `read_request_bytes` under
`parse_http_request`, and `Dispatch` its end with `handle_request`; `Fork` to `CmdReap` are
`run_command_capture`, at whose end `Continue` does the caller's next step; `Scan`, `Nap` and `Settle` are
the loops of `wifi_scan` and `configure_wifi`; `List`, `Head`, `Send`, `Blocked` and `Stalled` are the
listing and the download; `WritePart` is `write_all`. `ChildExits`, `PipeCloses` and `Term` are the world.
Start, stop and quarantine are `TinaCapture`'s; here they are requests that go straight to an answer.

Time is counted in ticks of half a second, the nap of `wifi_scan` and the longest wait of these loops. A
wait counts as a whole tick even where it is 50, 200 or 250 milliseconds, and a pass takes any number
of ticks up to `PassMax`. A bound in ticks is therefore a bound of the code but for one wait per
deadline, which may begin just before the deadline. Three waits need a word. The listing makes a pass
per entry, and an entry costs a tick at most. After a command has closed its output the code polls a
pipe that is always ready until the process ends: a busy loop, which the model counts like a wait.
And a write takes up to the ten seconds of `SO_SNDTIMEO`.

### What is checked

| Run | Bounds | Property | Says |
|---|---|---|---|
| `serve` | passes of up to 3 ticks; connect 6 ticks, link 4 ticks (120 and 40 in the code), 2 pieces to a request, 2 entries or pieces, clocks stop at 60; fair | `RingIsVisited` | while a client is dealt with, the ring waits for a pass at most three ticks |
| | | `AnswersAreBounded` | a scan and a configuration take their deadlines and four passes |
| | | `StopIsPrompt` | after SIGTERM a handler goes on for a pass and a wait, or for what it does not cut short |
| | | `CommandIsSettled` | no process is left behind; a command seen to complete is not failed for a deadline |
| | | `RequestsEnd` | every client is done with |
| `v_term` | | `TermEnds` | violated: see below |

The two scaled deadlines are each longer than a pass and a wait, so that a command can end before, at
and after them; all other times are the code's. Sixty ticks are more than any bound of the
properties comes to, so that the end of the count hides nothing. Two pieces are the first and the
last; clients follow each other without end.

What the bounds say of the code: a scan fits the 25 seconds for which the BLE worker waits (the comment
in `wifi_scan` counts on it) when passes take a second and a half at most, and not with longer ones; a
configuration may take ninety seconds and four passes, and the worker gives it ninety, so that in the
worst case the client is told of a timeout and the network is configured all the same
(`TinaBle` has that as a worker that gives up while its request is carried out).
`StopIsPrompt` shows that `configure_wifi` does not look at `g_running` and ends its 20 seconds, more than the
init script waits before it kills the service.

What the properties except: writing an answer makes no passes and has no deadline of its own
(`write_all` waits ten seconds for each piece, as long as the client takes one in time), so that
`RingIsVisited` and `StopIsPrompt` leave it out, and `RequestsEnd` holds of it because an answer has a last
piece. Reading is left out of `StopIsPrompt` because of `v_term`, and a step that is under way when
the signal comes is not charged to it.

Fairness (`FairSpec`): the one thread takes steps. Nothing is assumed of clients or commands: that they
are done with comes from the deadlines. The spin of `v_term` is a step that changes nothing, so that
fairness does not end it.

`v_term`: when SIGTERM comes while a client has sent a part of its request, `read_request_bytes` returns
EINTR from then on, and `parse_http_request` repeats the read on EINTR without looking at `g_running` or at
its deadline. The service spins until it is killed; `test_tina_service.py` terminates it and waits.

### What is proved

`TinaServeProofs`, for passes of any length, any deadlines of connect and link and any number of pieces and
entries: `TypeCorrect`, `CommandsSettled`, `RingVisited`, `AnswersBounded`, `StopPrompt`, all the
invariants of the run, and `ScanFitsWorker`, that `PassMax =< 3` keeps a scan within the worker's time. The
assumptions are `TimeAssumption` and `SizeAssumption` (naturals, the link's deadline and the sizes
positive). The invariants build on each other:

* `Place`: which request and which command can be where, and after how many attempts. With the types it
  is inductive (`Inv`).
* `Settled`: a process lives only inside the loop of its command, and a result is refused before the
  command was seen to complete, never after.
* `Visited`: at each place how long the last pass is ago; the naps of a scan are the reason why it
  depends on the attempt.
* `InTime`: what is conserved is the time spent *and* left: a wait moves time from one to the other, so
  their sum stays below what had been spent when the command began (`Base`) and its deadline,
  until the deadline is overrun by one pass. For `configure_wifi` the same holds of `settle`.
* `Prompt`: time after the signal, with the same kind of sum for `configure_wifi` and for the entries of a
  listing (`Listed`, whose product `Parted` bounds).

`RequestsEnd` is model-checked only.

## 9. Not modelled

* The other half of the RoboBaton board: BLE provisioning (`ble_provisioning.py`, the protocol of
  `TinaBle` without RFCOMM; its worker threads write one status value in the same way), the camera and
  Wi-Fi supervisors, telemetry and the HTTP surface. Hazards seen there: the marker that keeps the Wi-Fi
  supervisor away is ignored after 60 seconds of wall-clock time (`wifi_supervisor.py:44`), and a start
  over BLE is given up after 15 seconds while the service may still succeed (`ble_provisioning.py:380`).
* Further hazards of the capture engine that no run reaches: the table of incomplete segments holds 64
  entries, and the 65th is reported infinitely old (`tina_service.c:334`); when the card is not mounted
  as the service starts, sessions keep the state "recording" (`tina_service.c:3371`).
* Parsers, byte ranges, storage inspection and the wording of answers in `tina_service.c`, which run
  between two steps of one thread and keep no state.
* The iOS exporter, which writes `session.json` before the files it lists
  (`SynCapSessionExporter.swift:29`), the app hosts, players, bindings and tools: user interface,
  numerical code or plain I/O.
