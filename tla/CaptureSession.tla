---------------------------- MODULE CaptureSession ----------------------------
(***************************************************************************)
(* ml/src/capture.py run after run: one run scans for the device, connects,*)
(* switches it to CAPTURE, collects windows until its deadline, switches it*)
(* back, checks what it has and saves a meta file and a parquet file.      *)
(*                                                                         *)
(* Any await may raise, the operator may interrupt the run, the connection *)
(* may go at any time (which the tool notices at its next GATT call only), *)
(* the device may reboot, the gateway takes it when it is free, and the    *)
(* wall clock that the deadline is measured with may be set.               *)
(*                                                                         *)
(* How chunks become windows is RawWindowLink's subject: here a window is  *)
(* counted when it is complete.  A tick is the time of a window.           *)
(***************************************************************************)
EXTENDS Integers

CONSTANTS
    MinWindows,    \* windows below which quality_check calls a session short
    Duration,      \* --duration-s
    MaxRuns,       \* bound on the runs
    MaxClockSets   \* bound on how often the wall clock is set

ASSUME CaptureAssumption ==
    /\ MinWindows \in Nat /\ Duration \in Nat
    /\ MaxRuns \in Nat /\ MaxClockSets \in Nat

VARIABLES
    run,        \* number of the run: its session_id
    args,       \* --force, and whether --fault-params is JSON
    at,         \* the statement the run is about to execute
    exit,       \* exit status of the last run, NoExit while one is running
    mode,       \* the device's mode characteristic
    peer,       \* who holds the device's connection: "none", "tool", "gateway"
    left,       \* deadline - time.time()
    windows,    \* len(windows)
    issues,     \* what quality_check found
    meta,       \* runs with a {sid}.meta.json
    parquet,    \* runs with a complete {sid}.parquet
    partial,    \* runs whose parquet file was begun and not completed
    clockSets,  \* times the wall clock was set
    unfit,      \* history: runs whose windows had an issue and were not forced
    cut         \* history: the last run that reached the device did not get to
                \* switch it back, and it has not rebooted since

tool == <<run, args, at, exit, left, windows, issues>>
files == <<meta, parquet, partial>>
history == <<unfit, cut>>
vars == <<tool, mode, peer, files, clockSets, history>>

Args == [force : BOOLEAN, json : BOOLEAN]

\* Statements at which a run is connected, or believes it is.
Connected == {"capture", "notify", "wait", "stop", "infer"}
Running == {"scan", "connect", "check", "meta", "parquet", "return"} \cup Connected

\* What a shell sees of a process that runs, and of one that a signal ended.
NoExit == -1
Interrupted == 130

-----------------------------------------------------------------------------
(* A run.                                                                  *)

Start ==
    /\ at = "idle"
    /\ run < MaxRuns
    /\ run' = run + 1
    /\ args' \in Args
    /\ at' = "scan" /\ exit' = NoExit
    /\ left' = 0 /\ windows' = 0 /\ issues' = {}
    /\ UNCHANGED <<mode, peer, files, clockSets, history>>

Goto(next) ==
    /\ at' = next
    /\ UNCHANGED <<run, args, exit, left, windows, issues>>

Exit(status) ==
    /\ at' = "idle"
    /\ exit' = status
    /\ UNCHANGED <<run, args, left, windows, issues>>

\* find_device_by_name: the device advertises while nobody is connected to it.
ScanFinds ==
    /\ at = "scan" /\ peer = "none"
    /\ Goto("connect")
    /\ UNCHANGED <<mode, peer, files, clockSets, history>>

ScanTimesOut ==
    /\ at = "scan"
    /\ Exit(1)
    /\ UNCHANGED <<mode, peer, files, clockSets, history>>

Connect ==
    /\ at = "connect" /\ peer = "none"
    /\ Goto("capture")
    /\ peer' = "tool"
    /\ UNCHANGED <<mode, files, clockSets, history>>

WriteCapture ==
    /\ at = "capture" /\ peer = "tool"
    /\ Goto("notify")
    /\ mode' = "CAPTURE"
    /\ UNCHANGED <<peer, files, clockSets, history>>

\* _on_chunk may complete a window while the subscribed tool awaits something.
Assembles ==
    windows' \in IF peer = "tool" /\ mode = "CAPTURE" THEN {windows, windows + 1}
                                                    ELSE {windows}

StartNotify ==
    /\ at = "notify" /\ peer = "tool"
    /\ Assembles
    /\ at' = "wait"
    /\ left' = Duration
    /\ UNCHANGED <<run, args, exit, issues, mode, peer, files, clockSets, history>>

BugSleepCountsWindows ==
    /\ at = "wait" /\ left > 0
    /\ Assembles
    /\ left' = left - (windows' - windows)
    /\ UNCHANGED <<run, args, at, exit, issues, mode, peer, files, clockSets, history>>

Sleep ==
    /\ at = "wait" /\ left > 0
    /\ Assembles
    /\ left' = left - 1
    /\ UNCHANGED <<run, args, at, exit, issues, mode, peer, files, clockSets, history>>

DeadlinePassed ==
    /\ at = "wait" /\ left <= 0
    /\ Goto("stop")
    /\ UNCHANGED <<mode, peer, files, clockSets, history>>

BugStopReturnsWhenEmpty ==
    /\ at = "stop" /\ peer = "tool"
    /\ Assembles
    /\ IF windows' = 0 THEN at' = "idle" /\ exit' = 1 /\ peer' = "none"
                       ELSE at' = "infer" /\ UNCHANGED <<exit, peer>>
    /\ UNCHANGED <<run, args, left, issues, mode, files, clockSets, history>>

StopNotify ==
    /\ at = "stop" /\ peer = "tool"
    /\ Assembles
    /\ at' = "infer"
    /\ UNCHANGED <<run, args, exit, left, issues, mode, peer, files, clockSets, history>>

\* The mode is written back and `async with' disconnects.
WriteInfer ==
    /\ at = "infer" /\ peer = "tool"
    /\ Goto("check")
    /\ mode' = "INFER"
    /\ peer' = "none"
    /\ cut' = FALSE
    /\ UNCHANGED <<files, clockSets, unfit>>

-----------------------------------------------------------------------------
(* What it does with the windows.                                          *)

NoWindows ==
    /\ at = "check" /\ windows = 0
    /\ Exit(1)
    /\ UNCHANGED <<mode, peer, files, clockSets, history>>

\* The samples may be non-finite, clipped, or of a sensor that lies on its side.
Issues(samples) ==
    samples \cup (IF windows < MinWindows THEN {"short"} ELSE {})

BugQualityCheckWarns ==
    /\ at = "check" /\ windows > 0
    /\ \E samples \in SUBSET {"samples"} : issues' = Issues(samples)
    /\ at' = "meta" /\ exit' = exit
    /\ unfit' = IF issues' # {} /\ ~args.force THEN unfit \cup {run} ELSE unfit
    /\ UNCHANGED <<run, args, left, windows, mode, peer, files, clockSets, cut>>

BugQualityCheckAfterMeta ==
    /\ at = "check" /\ windows > 0
    /\ \E samples \in SUBSET {"samples"} : issues' = Issues(samples)
    /\ IF issues' # {} /\ ~args.force
       THEN at' = "idle" /\ exit' = 2 /\ unfit' = unfit \cup {run}
       ELSE at' = "meta" /\ UNCHANGED <<exit, unfit>>
    /\ meta' = meta \cup {run}
    /\ UNCHANGED <<run, args, left, windows, mode, peer, parquet, partial, clockSets, cut>>

QualityCheck ==
    /\ at = "check" /\ windows > 0
    /\ \E samples \in SUBSET {"samples"} : issues' = Issues(samples)
    /\ IF issues' # {} /\ ~args.force
       THEN at' = "idle" /\ exit' = 2 /\ unfit' = unfit \cup {run}
       ELSE at' = "meta" /\ UNCHANGED <<exit, unfit>>
    /\ UNCHANGED <<run, args, left, windows, mode, peer, files, clockSets, cut>>

\* json.loads(fault_params) comes before the file is written.
WriteMeta ==
    /\ at = "meta" /\ args.json
    /\ Goto("parquet")
    /\ meta' = meta \cup {run}
    /\ UNCHANGED <<mode, peer, parquet, partial, clockSets, history>>

\* to_parquet writes in place: until it is done the file is there, unreadable.
BeginParquet ==
    /\ at = "parquet" /\ run \notin partial
    /\ partial' = partial \cup {run}
    /\ UNCHANGED <<tool, mode, peer, meta, parquet, clockSets, history>>

EndParquet ==
    /\ at = "parquet" /\ run \in partial
    /\ Goto("return")
    /\ partial' = partial \ {run}
    /\ parquet' = parquet \cup {run}
    /\ UNCHANGED <<mode, peer, meta, clockSets, history>>

Return ==
    /\ at = "return"
    /\ Exit(0)
    /\ UNCHANGED <<mode, peer, files, clockSets, history>>

\* An await raises, a write fails, or the operator presses ^C.  `async with'
\* disconnects, and nothing else is undone.  Nobody catches the exception, so Python
\* ends with status 1, as it does when capture() returns 1.  A write to the mode that
\* raises may still have reached the device.
Raises ==
    /\ at \in Running
    /\ \E status \in {1, Interrupted} : Exit(status)
    /\ mode' \in {mode} \cup CASE at = "capture" /\ peer = "tool" -> {"CAPTURE"}
                               [] at = "infer" /\ peer = "tool" -> {"INFER"}
                               [] OTHER -> {}
    /\ peer' = IF peer = "tool" THEN "none" ELSE peer
    /\ cut' = (cut \/ at \in Connected)
    /\ UNCHANGED <<files, clockSets, unfit>>

-----------------------------------------------------------------------------
(* The surroundings.                                                       *)

LinkLost ==
    /\ peer # "none"
    /\ peer' = "none"
    /\ UNCHANGED <<tool, mode, files, clockSets, history>>

GatewayConnects ==
    /\ peer = "none"
    /\ peer' = "gateway"
    /\ UNCHANGED <<tool, mode, files, clockSets, history>>

Reboot ==
    /\ mode' = "INFER"
    /\ peer' = "none"
    /\ cut' = FALSE
    /\ UNCHANGED <<tool, files, clockSets, unfit>>

ClockIsSet ==
    /\ at = "wait"
    /\ clockSets < MaxClockSets
    /\ clockSets' = clockSets + 1
    /\ left' \in {left - Duration, left + Duration}
    /\ UNCHANGED <<run, args, at, exit, windows, issues, mode, peer, files, history>>

-----------------------------------------------------------------------------

Init ==
    /\ run = 0
    /\ args \in Args
    /\ at = "idle" /\ exit = NoExit
    /\ mode = "INFER" /\ peer = "none"
    /\ left = 0 /\ windows = 0 /\ issues = {}
    /\ meta = {} /\ parquet = {} /\ partial = {}
    /\ clockSets = 0
    /\ unfit = {} /\ cut = FALSE

\* What a run does once it is started, as long as nothing raises.
Step ==
    \/ ScanFinds \/ ScanTimesOut \/ Connect \/ WriteCapture \/ StartNotify
    \/ Sleep \/ DeadlinePassed \/ StopNotify \/ WriteInfer
    \/ NoWindows \/ QualityCheck \/ WriteMeta \/ BeginParquet \/ EndParquet \/ Return

Next ==
    \/ Start \/ Step \/ Raises
    \/ LinkLost \/ GatewayConnects \/ Reboot \/ ClockIsSet

Spec == Init /\ [][Next]_vars

\* A call over a connection that somebody else has or that is gone, and json.loads
\* of what is not JSON.
Hopeless ==
    \/ at \in {"connect", "capture", "notify", "stop", "infer"} /\ peer # "tool"
    \/ at = "meta" /\ ~args.json

\* asyncio runs the coroutine, and BlueZ answers or raises: a run goes on where it
\* can, and raises where it cannot.
FairSpec == Spec /\ WF_vars(Step \/ (Hopeless /\ Raises))

-----------------------------------------------------------------------------
(* Properties.                                                             *)

\* Type invariant: a run collects at most a window per tick until its deadline,
\* and one each while it subscribes and unsubscribes; a file is whole or is not.
TypeOK ==
    /\ run \in 0 .. MaxRuns
    /\ args \in Args
    /\ at \in Running \cup {"idle"}
    /\ exit \in {NoExit, 0, 1, 2, Interrupted}
    /\ (at \in Running) => exit = NoExit
    /\ mode \in {"INFER", "CAPTURE"} /\ peer \in {"none", "tool", "gateway"}
    /\ left \in Int /\ left <= Duration * (MaxClockSets + 1)
    /\ windows \in 0 .. Duration * (MaxClockSets + 1) + 2
    /\ issues \subseteq {"samples", "short"}
    /\ meta \cup parquet \cup partial \cup unfit \subseteq 1 .. run
    /\ parquet \cap partial = {}
    /\ clockSets \in 0 .. MaxClockSets /\ cut \in BOOLEAN

\* Outside of a run the device computes states, whatever the run found and
\* however it ended, unless an exception or the operator cut it off between its
\* two writes of the mode (capture.py:95-117).  The gateway, which never writes
\* the mode, depends on it.
InferUnlessCut ==
    mode = "CAPTURE" /\ at \notin Connected => cut

\* A session file, whole or not, has its meta file beside it and comes from a run
\* that passed the quality check or was forced: at every moment, also when the run
\* is killed between two writes (capture.py:124-158).
SavedSessions ==
    \A r \in parquet \cup partial : r \in meta /\ r \notin unfit

\* What the exit status tells.  0: the whole session is on disk.  2: nothing of it is.
\* After either the device computes states again, until the next run (capture.py:117,
\* 130, 160).  1 tells nothing: it is that of a device that was not found, of no windows,
\* and of an exception, at whatever statement, which may leave a meta file with half a
\* parquet file or none (capture.py:88, 121, 147-158, 184).
ExitStatusTells ==
    /\ exit = 0 => run \in meta \cap parquet
    /\ exit = 2 => run \notin meta \cup parquet \cup partial
    /\ exit \in {0, 2} => mode = "INFER"

\* A run ends, though nothing may come from the device and the clock that its
\* deadline is measured with may be set back (capture.py:105-108).
Terminates == at # "idle" ~> at = "idle"
=============================================================================
