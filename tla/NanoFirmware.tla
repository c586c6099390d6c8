---------------------------- MODULE NanoFirmware ----------------------------
(***************************************************************************)
(* The Nano's main loop: firmware/nano33/nano33.ino with the parts of      *)
(* src/ble_service.cpp it calls.  One iteration is four steps (read the    *)
(* BLE state and set the LED; watchdog; take a sample; publish a full      *)
(* window) between which the BLE stack, which every ArduinoBLE call polls, *)
(* may connect or disconnect the central or accept a write of the mode     *)
(* characteristic.                                                         *)
(*                                                                         *)
(* millis() and the sequence counters are unsigned and wrap, here at       *)
(* ClockMod and SeqMod instead of 2^32.  The variables silent, late and    *)
(* samples are history that no guard reads.                                *)
(***************************************************************************)
EXTENDS Integers

CONSTANTS
    WindowSize,    \* WINDOW_SIZE
    Timeout,       \* WATCHDOG_TIMEOUT_MS, in ticks
    ClockMod,      \* millis() wraps here
    SeqMod,        \* seq and gWindowSeq wrap here
    MaxLoop        \* ticks that pass at most in one iteration of loop()

ASSUME FirmwareAssumption ==
    /\ WindowSize \in Nat \ {0}
    /\ Timeout \in Nat \ {0}
    /\ SeqMod \in Nat \ {0, 1}
    /\ MaxLoop \in Nat \ {0}
    /\ ClockMod \in Nat
    /\ ClockMod > Timeout + 2 * MaxLoop + 1

INFER == 0
CAPTURE == 1
ModeWrites == 0 .. 2     \* a central can write any byte; 2 stands for the others

VARIABLES
    pc,               \* the next step of loop(), or "setup" or "halted"
    now,              \* millis()
    spent,            \* ticks since this iteration began
    radioUp,          \* the last BLE.begin() succeeded
    stalled,          \* the radio no longer sends
    central,          \* a central is connected
    gMode,            \* value of the mode characteristic
    gLastPublishMs,
    connected, m,     \* loop()'s locals: what it read at its top
    lastConnected, lastModeReported,
    led,
    fill, seq, gWindowSeq,
    silent,           \* ticks since a notify last reached the central, or the
                      \* central connected, or the radio was reset; capped
    late,             \* windows published in the other mode since gMode changed
    samples           \* samples taken since boot, modulo a whole number of windows

radio == <<radioUp, stalled, central, gMode>>
locals == <<connected, m>>
reported == <<lastConnected, lastModeReported, led>>
window == <<fill, seq, gWindowSeq, samples>>
vars == <<pc, now, spent, radio, gLastPublishMs, locals, reported, window, silent, late>>

-----------------------------------------------------------------------------

ModeOf(byte) == IF byte = 1 THEN CAPTURE ELSE INFER

\* Definitions named Bug... are plausible mistakes in the definition that follows
\* them.  No action uses them: they are put in its place to see that the
\* properties notice.
BugMsSinceSigned == now - gLastPublishMs
msSinceLastPublish == (now - gLastPublishMs) % ClockMod

\* The longest silence the watchdog can let pass: the timeout, and two iterations
\* more if the clock wraps, 49.7 days after the last publish, while it looks away.
MaxSilence == Timeout + 2 * MaxLoop

\* silent is counted no further than that.
Capped(t) == IF t > MaxSilence THEN MaxSilence + 1 ELSE t

LedFor(isConnected, aMode) ==
    CASE ~isConnected -> "ADVERTISING"
      [] isConnected /\ aMode = CAPTURE -> "CAPTURE"
      [] OTHER -> "CONNECTED"

-----------------------------------------------------------------------------
(* setup() and loop().                                                     *)

SetupOk ==
    /\ pc = "setup"
    /\ pc' = "top"
    /\ radioUp' = TRUE
    /\ gMode' = INFER
    /\ gLastPublishMs' = now
    /\ led' = "ADVERTISING"
    /\ UNCHANGED <<now, spent, stalled, central, locals, lastConnected,
                   lastModeReported, window, silent, late>>

\* IMU, model or radio fails to start: blink for ever.
SetupFails ==
    /\ pc = "setup"
    /\ pc' = "halted"
    /\ led' = "ERROR"
    /\ UNCHANGED <<now, spent, radio, gLastPublishMs, locals, lastConnected,
                   lastModeReported, window, silent, late>>

BugLoopTopModeOnConnect ==
    /\ pc = "top"
    /\ pc' = "watchdog"
    /\ spent' = 0
    /\ connected' = central
    /\ m' = IF central # lastConnected THEN ModeOf(gMode) ELSE m
    /\ IF connected' # lastConnected \/ m' # lastModeReported
       THEN /\ lastConnected' = connected'
            /\ lastModeReported' = m'
            /\ led' = LedFor(connected', m')
       ELSE UNCHANGED reported
    /\ UNCHANGED <<now, radio, gLastPublishMs, window, silent, late>>

\* Lines 53-69.
LoopTop ==
    /\ pc = "top"
    /\ pc' = "watchdog"
    /\ spent' = 0
    /\ connected' = central
    /\ m' = ModeOf(gMode)
    /\ IF connected' # lastConnected \/ m' # lastModeReported
       THEN /\ lastConnected' = connected'
            /\ lastModeReported' = m'
            /\ led' = LedFor(connected', m')
       ELSE UNCHANGED reported
    /\ UNCHANGED <<now, radio, gLastPublishMs, window, silent, late>>

WatchdogTrips == connected /\ msSinceLastPublish > Timeout

WatchdogQuiet ==
    /\ pc = "watchdog"
    /\ ~WatchdogTrips
    /\ pc' = "sample"
    /\ UNCHANGED <<now, spent, radio, gLastPublishMs, locals, reported, window,
                   silent, late>>

BugResetLeavesLastConnected(ok) ==
    /\ pc = "watchdog"
    /\ WatchdogTrips
    /\ pc' = "sample"
    /\ central' = FALSE
    /\ stalled' = FALSE
    /\ radioUp' = ok
    /\ gLastPublishMs' = IF ok THEN now ELSE gLastPublishMs
    /\ silent' = 0
    /\ led' = "ADVERTISING"
    /\ UNCHANGED <<now, spent, gMode, locals, lastConnected, lastModeReported, window, late>>

\* Lines 73-78 with softReset.  A failed BLE.begin() returns before the clock is
\* refreshed; loop() does not look at the result.
WatchdogReset(ok) ==
    /\ pc = "watchdog"
    /\ WatchdogTrips
    /\ pc' = "sample"
    /\ central' = FALSE
    /\ stalled' = FALSE
    /\ radioUp' = ok
    /\ gLastPublishMs' = IF ok THEN now ELSE gLastPublishMs
    /\ silent' = 0
    /\ lastConnected' = FALSE
    /\ led' = "ADVERTISING"
    /\ UNCHANGED <<now, spent, gMode, locals, lastModeReported, window, late>>

\* Lines 80-83, with a sample ready ...
SampleTaken ==
    /\ pc = "sample"
    /\ fill < WindowSize
    /\ pc' = "window"
    /\ fill' = fill + 1
    /\ samples' = (samples + 1) % (WindowSize * SeqMod)
    /\ UNCHANGED <<now, spent, radio, gLastPublishMs, locals, reported, seq,
                   gWindowSeq, silent, late>>

\* ... and without.
NoSample ==
    /\ pc = "sample"
    /\ pc' = "window"
    /\ UNCHANGED <<now, spent, radio, gLastPublishMs, locals, reported, window,
                   silent, late>>

WindowPartial ==
    /\ pc = "window"
    /\ fill < WindowSize
    /\ pc' = "top"
    /\ UNCHANGED <<now, spent, radio, gLastPublishMs, locals, reported, window,
                   silent, late>>

BugWindowSeqInInferOnly ==
    /\ pc = "window"
    /\ fill >= WindowSize
    /\ pc' = "top"
    /\ seq' = IF m = INFER THEN (seq + 1) % SeqMod ELSE seq
    /\ gWindowSeq' = IF m = INFER THEN gWindowSeq ELSE (gWindowSeq + 1) % SeqMod
    /\ gLastPublishMs' = now
    /\ fill' = 0
    /\ silent' = IF central /\ radioUp /\ ~stalled THEN 0 ELSE silent
    /\ late' = IF m = ModeOf(gMode) THEN late ELSE late + 1
    /\ UNCHANGED <<now, spent, radio, locals, reported, samples>>

\* Lines 85-104: publishState or publishRawWindow, by the mode read at the top.
\* Both ignore what writeValue returns and refresh the clock in any case.
WindowFull ==
    /\ pc = "window"
    /\ fill >= WindowSize
    /\ pc' = "top"
    /\ seq' = (seq + 1) % SeqMod
    /\ gWindowSeq' = IF m = INFER THEN gWindowSeq ELSE (gWindowSeq + 1) % SeqMod
    /\ gLastPublishMs' = now
    /\ fill' = 0
    /\ silent' = IF central /\ radioUp /\ ~stalled THEN 0 ELSE silent
    /\ late' = IF m = ModeOf(gMode) THEN late ELSE late + 1
    /\ UNCHANGED <<now, spent, radio, locals, reported, samples>>

-----------------------------------------------------------------------------
(* The world.                                                              *)

Running == pc \notin {"setup", "halted"}

Connect ==
    /\ Running /\ radioUp /\ ~central
    /\ central' = TRUE
    /\ silent' = 0
    /\ UNCHANGED <<pc, now, spent, radioUp, stalled, gMode, gLastPublishMs, locals,
                   reported, window, late>>

Disconnect ==
    /\ central
    /\ central' = FALSE
    /\ UNCHANGED <<pc, now, spent, radioUp, stalled, gMode, gLastPublishMs, locals,
                   reported, window, silent, late>>

WriteMode(byte) ==
    /\ central /\ ~stalled
    /\ gMode' = byte
    /\ late' = IF ModeOf(byte) = ModeOf(gMode) THEN late ELSE 0
    /\ UNCHANGED <<pc, now, spent, radioUp, stalled, central, gLastPublishMs, locals,
                   reported, window, silent>>

Stall ==
    /\ Running /\ radioUp /\ ~stalled
    /\ stalled' = TRUE
    /\ UNCHANGED <<pc, now, spent, radioUp, central, gMode, gLastPublishMs, locals,
                   reported, window, silent, late>>

Tick ==
    /\ Running /\ spent < MaxLoop
    /\ now' = (now + 1) % ClockMod
    /\ spent' = spent + 1
    /\ silent' = Capped(silent + 1)
    /\ UNCHANGED <<pc, radio, gLastPublishMs, locals, reported, window, late>>

\* Power cycle: setup() runs again on zeroed memory.
Reboot ==
    /\ pc # "setup"
    /\ pc' = "setup"
    /\ now' = 0 /\ spent' = 0
    /\ radioUp' = FALSE /\ stalled' = FALSE /\ central' = FALSE /\ gMode' = INFER
    /\ gLastPublishMs' = 0
    /\ connected' = FALSE /\ m' = INFER
    /\ lastConnected' = FALSE /\ lastModeReported' = INFER /\ led' = "ADVERTISING"
    /\ fill' = 0 /\ seq' = 0 /\ gWindowSeq' = 0
    /\ silent' = 0 /\ late' = 0 /\ samples' = 0

Init ==
    /\ pc = "setup"
    /\ now = 0 /\ spent = 0
    /\ radioUp = FALSE /\ stalled = FALSE /\ central = FALSE /\ gMode = INFER
    /\ gLastPublishMs = 0
    /\ connected = FALSE /\ m = INFER
    /\ lastConnected = FALSE /\ lastModeReported = INFER /\ led = "ADVERTISING"
    /\ fill = 0 /\ seq = 0 /\ gWindowSeq = 0
    /\ silent = 0 /\ late = 0 /\ samples = 0

Loop ==
    \/ LoopTop
    \/ WatchdogQuiet \/ \E ok \in BOOLEAN : WatchdogReset(ok)
    \/ SampleTaken \/ NoSample
    \/ WindowPartial \/ WindowFull

World ==
    \/ Connect \/ Disconnect \/ Stall \/ Tick \/ Reboot
    \/ \E byte \in ModeWrites : WriteMode(byte)

Next == SetupOk \/ SetupFails \/ Loop \/ World

Spec == Init /\ [][Next]_vars

-----------------------------------------------------------------------------
(* Properties.                                                             *)

\* Type invariant.
TypeOK ==
    /\ pc \in {"setup", "top", "watchdog", "sample", "window", "halted"}
    /\ now \in 0 .. ClockMod - 1 /\ gLastPublishMs \in 0 .. ClockMod - 1
    /\ spent \in 0 .. MaxLoop
    /\ radioUp \in BOOLEAN /\ stalled \in BOOLEAN /\ central \in BOOLEAN
    /\ gMode \in ModeWrites
    /\ connected \in BOOLEAN /\ lastConnected \in BOOLEAN
    /\ m \in {INFER, CAPTURE} /\ lastModeReported \in {INFER, CAPTURE}
    /\ led \in {"ADVERTISING", "CONNECTED", "CAPTURE", "ERROR"}
    /\ fill \in 0 .. WindowSize
    /\ seq \in 0 .. SeqMod - 1 /\ gWindowSeq \in 0 .. SeqMod - 1
    /\ silent \in 0 .. MaxSilence + 1
    /\ late \in Nat
    /\ samples \in 0 .. WindowSize * SeqMod - 1

\* The LED is only written on a change, yet once loop() has run its top lines it
\* shows what they read, whatever connected, disconnected, wrote the mode or was
\* reset since the last iteration (nano33.ino:57-69, 76-77).
LedTruthful == pc = "watchdog" => led = LedFor(connected, m)

\* seq is the number of whole windows sampled since boot, in both modes and
\* whether or not anybody listens: windows neither overlap nor skip a sample
\* (nano33.ino:90, 103).
SeqIsWindowClock == samples = (WindowSize * seq + fill) % (WindowSize * SeqMod)

\* The mode is read once per iteration and used after inference: the central that
\* writes it sees at most one more window of the other kind (nano33.ino:58, 92).
AtMostOneLateWindow == late <= 1

\* firmware/README.md, Watchdog: while a central stays connected to a radio that
\* sends what it is given, no iteration passes the watchdog with more than MaxSilence
\* of silence, across wraps of the clock (ble_service.cpp:66-68, nano33.ino:73).
WatchdogBoundsSilence ==
    [][pc = "watchdog" /\ pc' = "sample" /\ connected /\ central' /\ ~stalled'
         => silent' <= MaxSilence]_vars

\* firmware/README.md:76, "no notify has gone out in 30 s", to recover "from the BLE
\* stack getting stuck": the same of a radio that does not send any more.
WatchdogSeesStall ==
    [][pc = "watchdog" /\ pc' = "sample" /\ connected /\ central'
         => silent' <= MaxSilence]_vars

\* ble_service.h:35: a blue LED means the device is advertising.
BlueMeansRadioUp == (Running /\ led = "ADVERTISING") => radioUp
=============================================================================
