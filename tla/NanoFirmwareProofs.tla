-------------------------- MODULE NanoFirmwareProofs --------------------------
(***************************************************************************)
(* The LED, the window counter, the late window and the watchdog are right *)
(* for every window size, timeout, clock and sequence width, and however   *)
(* long the device runs: the counters wrap any number of times.            *)
(***************************************************************************)
EXTENDS NanoFirmware, TLAPS

\* The LED shows what was reported last; between the two, setup() and a reset agree.
LedShowsReport ==
    /\ pc = "setup" => ~lastConnected
    /\ Running => led = LedFor(lastConnected, lastModeReported)
    /\ pc = "watchdog" => connected = lastConnected /\ m = lastModeReported

\* No window went out in the other mode yet if this iteration's is going to.
NoneLateYet ==
    pc \in {"watchdog", "sample", "window"} /\ m # ModeOf(gMode) => late = 0

\* Nobody is connected to a radio that is down.
CentralNeedsRadio == central => radioUp

\* The central hears what it is sent.
Heard == central /\ ~stalled

\* How long the central can have heard nothing when this iteration ...
\* ... began with nobody connected, ...
SilentSinceConnect == ~connected /\ Heard => silent <= spent

\* ... has not come to the watchdog, which looked an iteration ago or has a central
\* that came since, ...
SilentBeforeCheck ==
    pc = "watchdog" /\ connected /\ Heard =>
        \/ silent <= MaxLoop + spent
        \/ /\ msSinceLastPublish <= Timeout + MaxLoop + spent
           /\ silent <= msSinceLastPublish + 2 * MaxLoop

\* ... or has passed it: the clock of the last publish has not wrapped since.
SilentAfterCheck ==
    pc \in {"sample", "window", "top"} /\ connected =>
        /\ radioUp => msSinceLastPublish <= Timeout + spent
        /\ Heard => silent <= msSinceLastPublish + 2 * MaxLoop

Silence ==
    /\ CentralNeedsRadio
    /\ pc = "setup" => ~connected /\ ~central
    /\ SilentSinceConnect /\ SilentBeforeCheck /\ SilentAfterCheck

WholeWindows ==
    samples = IF WindowSize * seq + fill = WindowSize * SeqMod THEN 0 ELSE WindowSize * seq + fill


-----------------------------------------------------------------------------
(* Types.                                                                  *)

\* The constants are numbers.
LEMMA Constants ==
    /\ WindowSize \in Nat /\ WindowSize >= 1 /\ Timeout \in Nat /\ Timeout >= 1
    /\ SeqMod \in Nat /\ SeqMod >= 2 /\ MaxLoop \in Nat /\ MaxLoop >= 1
    /\ ClockMod \in Nat /\ ClockMod > Timeout + 2 * MaxLoop + 1
    /\ WindowSize * SeqMod \in Nat /\ WindowSize * SeqMod >= WindowSize
<1>1. /\ WindowSize \in Nat /\ WindowSize >= 1 /\ SeqMod \in Nat /\ SeqMod >= 2
  BY FirmwareAssumption
<1>2. WindowSize * SeqMod \in Nat /\ WindowSize * SeqMod >= WindowSize
  BY <1>1
<1> QED
  BY <1>1, <1>2, FirmwareAssumption

\* What % leaves is less than the modulus.
LEMMA Remainder ==
    ASSUME NEW a \in Int, NEW d \in Nat, d >= 1
    PROVE  a % d \in 0 .. d - 1
  OBVIOUS

\* The types are kept by every step, of whatever part.
LEMMA TypeInductive ==
    ASSUME TypeOK, [Next]_vars
    PROVE  TypeOK'
<1> USE DEF TypeOK, radio, locals, reported, window
<1>1. ASSUME SetupOk PROVE TypeOK'
  BY <1>1 DEF SetupOk, INFER, CAPTURE, ModeWrites
<1>2. ASSUME SetupFails PROVE TypeOK'
  BY <1>2 DEF SetupFails
<1>3. ASSUME LoopTop PROVE TypeOK'
  <2>1. m' \in {INFER, CAPTURE} /\ LedFor(connected', m') \in {"ADVERTISING", "CONNECTED", "CAPTURE", "ERROR"}
    BY <1>3 DEF LoopTop, ModeOf, LedFor
  <2>2. spent' \in 0 .. MaxLoop
    BY <1>3, Constants DEF LoopTop
  <2>3. /\ pc' \in {"setup", "top", "watchdog", "sample", "window", "halted"}
        /\ lastConnected' \in BOOLEAN /\ lastModeReported' \in {INFER, CAPTURE}
        /\ led' \in {"ADVERTISING", "CONNECTED", "CAPTURE", "ERROR"}
    BY <1>3, <2>1 DEF LoopTop
  <2> QED
    BY <1>3, <2>1, <2>2, <2>3 DEF LoopTop
<1>4. ASSUME WatchdogQuiet PROVE TypeOK'
  BY <1>4 DEF WatchdogQuiet
<1>5. ASSUME NEW ok \in BOOLEAN, WatchdogReset(ok) PROVE TypeOK'
  <2>1. silent' \in 0 .. MaxSilence + 1
    BY <1>5, Constants DEF WatchdogReset, MaxSilence
  <2> QED
    BY <1>5, <2>1 DEF WatchdogReset
<1>6. ASSUME SampleTaken PROVE TypeOK'
  <2>1. fill' \in 0 .. WindowSize
    BY <1>6, Constants DEF SampleTaken
  <2>2. samples + 1 \in Int
    BY Constants
  <2>3. samples' \in 0 .. WindowSize * SeqMod - 1
    <3> DEFINE M == WindowSize * SeqMod
    <3>1. M \in Nat /\ M >= 1
      BY Constants
    <3>2. samples' = (samples + 1) % M
      BY <1>6 DEF SampleTaken
    <3> HIDE DEF M
    <3>3. samples' \in 0 .. M - 1
      BY <2>2, <3>1, <3>2, Remainder
    <3> QED
      BY <3>3 DEF M
  <2> QED
    BY <1>6, <2>1, <2>3 DEF SampleTaken
<1>7. ASSUME NoSample PROVE TypeOK'
  BY <1>7 DEF NoSample
<1>8. ASSUME WindowPartial PROVE TypeOK'
  BY <1>8 DEF WindowPartial
<1>9. ASSUME WindowFull PROVE TypeOK'
  <2>1. /\ (seq + 1) % SeqMod \in 0 .. SeqMod - 1
        /\ (gWindowSeq + 1) % SeqMod \in 0 .. SeqMod - 1
    BY Constants, Remainder
  <2>2. fill' \in 0 .. WindowSize /\ silent' \in 0 .. MaxSilence + 1 /\ late' \in Nat
    BY <1>9, Constants DEF WindowFull, MaxSilence
  <2> QED
    BY <1>9, <2>1, <2>2 DEF WindowFull
<1>10. ASSUME Connect PROVE TypeOK'
  <2>1. silent' \in 0 .. MaxSilence + 1
    BY <1>10, Constants DEF Connect, MaxSilence
  <2> QED
    BY <1>10, <2>1 DEF Connect
<1>11. ASSUME Disconnect PROVE TypeOK'
  BY <1>11 DEF Disconnect
<1>12. ASSUME Stall PROVE TypeOK'
  BY <1>12 DEF Stall
<1>13. ASSUME Tick PROVE TypeOK'
  <2>1. spent' \in 0 .. MaxLoop
    BY <1>13, Constants DEF Tick
  <2>2. now' \in 0 .. ClockMod - 1
    BY <1>13, Constants, Remainder DEF Tick
  <2>3. silent' \in 0 .. MaxSilence + 1
    BY <1>13, Constants DEF Tick, Capped, MaxSilence
  <2> QED
    BY <1>13, <2>1, <2>2, <2>3 DEF Tick
<1>14. ASSUME Reboot PROVE TypeOK'
  <2>1. /\ now' \in 0 .. ClockMod - 1 /\ gLastPublishMs' \in 0 .. ClockMod - 1
        /\ spent' \in 0 .. MaxLoop /\ silent' \in 0 .. MaxSilence + 1 /\ late' \in Nat
    BY <1>14, Constants DEF Reboot, MaxSilence
  <2>2. /\ fill' \in 0 .. WindowSize /\ seq' \in 0 .. SeqMod - 1 /\ gWindowSeq' \in 0 .. SeqMod - 1
        /\ samples' \in 0 .. WindowSize * SeqMod - 1
    BY <1>14, Constants DEF Reboot
  <2>3. /\ pc' = "setup" /\ led' = "ADVERTISING" /\ gMode' \in ModeWrites
        /\ m' \in {INFER, CAPTURE} /\ lastModeReported' \in {INFER, CAPTURE}
    BY <1>14 DEF Reboot, INFER, CAPTURE, ModeWrites
  <2>4. /\ radioUp' \in BOOLEAN /\ stalled' \in BOOLEAN /\ central' \in BOOLEAN
        /\ connected' \in BOOLEAN /\ lastConnected' \in BOOLEAN
    BY <1>14 DEF Reboot
  <2> QED
    BY <2>1, <2>2, <2>3, <2>4
<1>15. ASSUME NEW byte \in ModeWrites, WriteMode(byte) PROVE TypeOK'
  BY <1>15 DEF WriteMode
<1>16. ASSUME UNCHANGED vars PROVE TypeOK'
  BY <1>16 DEF vars
<1> QED
  BY <1>1, <1>2, <1>3, <1>4, <1>5, <1>6, <1>7, <1>8, <1>9, <1>10, <1>11, <1>12, <1>13, <1>14,
     <1>15, <1>16 DEF Next, Loop, World

\* Type correctness of the sketch.
THEOREM TypeCorrect == Spec => []TypeOK
<1>1. Init => TypeOK
  <2> SUFFICES ASSUME Init PROVE TypeOK
    OBVIOUS
  <2>1. /\ now \in 0 .. ClockMod - 1 /\ gLastPublishMs \in 0 .. ClockMod - 1
        /\ spent \in 0 .. MaxLoop /\ silent \in 0 .. MaxSilence + 1 /\ late \in Nat
    BY Constants DEF Init, MaxSilence
  <2>2. /\ fill \in 0 .. WindowSize /\ seq \in 0 .. SeqMod - 1 /\ gWindowSeq \in 0 .. SeqMod - 1
        /\ samples \in 0 .. WindowSize * SeqMod - 1
    BY Constants DEF Init
  <2>3. /\ pc = "setup" /\ led = "ADVERTISING" /\ gMode \in ModeWrites
        /\ m \in {INFER, CAPTURE} /\ lastModeReported \in {INFER, CAPTURE}
    BY DEF Init, INFER, CAPTURE, ModeWrites
  <2>4. /\ radioUp \in BOOLEAN /\ stalled \in BOOLEAN /\ central \in BOOLEAN
        /\ connected \in BOOLEAN /\ lastConnected \in BOOLEAN
    BY DEF Init
  <2> QED
    BY <2>1, <2>2, <2>3, <2>4 DEF TypeOK
<1>2. TypeOK /\ [Next]_vars => TypeOK'
  BY TypeInductive
<1> QED
  BY <1>1, <1>2, PTL DEF Spec

-----------------------------------------------------------------------------
(* The LED and the late window.                                            *)

\* The LED follows what loop() reads, whatever the world does in between
\* (nano33.ino:57-69, 76-77).
THEOREM LedIsTruthful == Spec => []LedTruthful
<1>1. Init => LedShowsReport
  BY DEF Init, LedShowsReport, Running
<1>2. TypeOK /\ LedShowsReport /\ [Next]_vars => LedShowsReport'
  <2> SUFFICES ASSUME TypeOK, LedShowsReport, [Next]_vars PROVE LedShowsReport'
    OBVIOUS
  <2> USE DEF LedShowsReport, Running, radio, locals, reported, window
  <2>1. CASE SetupOk
    BY <2>1 DEF SetupOk, LedFor
  <2>2. CASE SetupFails
    BY <2>2 DEF SetupFails
  <2>3. CASE LoopTop
    BY <2>3 DEF LoopTop
  <2>4. CASE WatchdogQuiet
    BY <2>4 DEF WatchdogQuiet
  <2>5. CASE \E ok \in BOOLEAN : WatchdogReset(ok)
    BY <2>5 DEF WatchdogReset, LedFor
  <2>6. CASE SampleTaken \/ NoSample \/ WindowPartial \/ WindowFull
    BY <2>6 DEF SampleTaken, NoSample, WindowPartial, WindowFull
  <2>7. CASE Connect \/ Disconnect \/ Stall \/ Tick
    BY <2>7 DEF Connect, Disconnect, Stall, Tick
  <2>8. CASE Reboot
    BY <2>8 DEF Reboot
  <2>9. CASE \E byte \in ModeWrites : WriteMode(byte)
    BY <2>9 DEF WriteMode
  <2>10. CASE UNCHANGED vars
    BY <2>10 DEF vars
  <2> QED
    BY <2>1, <2>2, <2>3, <2>4, <2>5, <2>6, <2>7, <2>8, <2>9, <2>10 DEF Next, Loop, World
<1>3. LedShowsReport => LedTruthful
  BY DEF LedShowsReport, LedTruthful, Running
<1> QED
  BY <1>1, <1>2, <1>3, TypeCorrect, PTL DEF Spec

\* The mode a central writes is obeyed after at most one window, whenever it is
\* written (nano33.ino:58, 92).
THEOREM OneLateWindow == Spec => []AtMostOneLateWindow
<1> DEFINE LInv == AtMostOneLateWindow /\ NoneLateYet
<1>1. Init => LInv
  BY DEF Init, AtMostOneLateWindow, NoneLateYet
<1>2. TypeOK /\ LInv /\ [Next]_vars => LInv'
  <2> SUFFICES ASSUME TypeOK, LInv, [Next]_vars PROVE LInv'
    OBVIOUS
  <2>0. late \in Nat
    BY DEF TypeOK
  <2> USE DEF AtMostOneLateWindow, NoneLateYet, radio, locals, reported, window
  <2>1. CASE SetupOk \/ SetupFails
    BY <2>1 DEF SetupOk, SetupFails
  <2>2. CASE LoopTop
    BY <2>2 DEF LoopTop
  <2>3. CASE WatchdogQuiet \/ \E ok \in BOOLEAN : WatchdogReset(ok)
    BY <2>3 DEF WatchdogQuiet, WatchdogReset
  <2>4. CASE SampleTaken \/ NoSample \/ WindowPartial
    BY <2>4 DEF SampleTaken, NoSample, WindowPartial
  <2>5. CASE WindowFull
    BY <2>0, <2>5 DEF WindowFull
  <2>6. CASE Connect \/ Disconnect \/ Stall \/ Tick
    BY <2>6 DEF Connect, Disconnect, Stall, Tick
  <2>7. CASE Reboot
    BY <2>7 DEF Reboot
  <2>8. CASE \E byte \in ModeWrites : WriteMode(byte)
    BY <2>8 DEF WriteMode
  <2>9. CASE UNCHANGED vars
    BY <2>9 DEF vars
  <2> QED
    BY <2>1, <2>2, <2>3, <2>4, <2>5, <2>6, <2>7, <2>8, <2>9 DEF Next, Loop, World
<1>3. LInv => AtMostOneLateWindow
  OBVIOUS
<1> QED
  BY <1>1, <1>2, <1>3, TypeCorrect, PTL DEF Spec

-----------------------------------------------------------------------------
(* Wrapping counters.                                                      *)

\* Nothing else than the quotient and the remainder gives the number.
LEMMA RemainderUnique ==
    ASSUME NEW a \in Int, NEW d \in Nat, d >= 1, NEW k \in Int, NEW r \in 0 .. d - 1, a = d * k + r
    PROVE  a % d = r
<1> DEFINE q == a \div d  s == a % d
<1>1. q \in Int /\ s \in 0 .. d - 1 /\ a = d * q + s
  OBVIOUS
<1> HIDE DEF q, s
<1>2. d * (k - q) = s - r /\ d * (q - k) = r - s
  BY <1>1
<1>3. \A n \in Int : n >= 1 => d * n >= d
  OBVIOUS
<1>4. ~(k - q >= 1) /\ ~(q - k >= 1)
  BY <1>1, <1>2, <1>3
<1>5. q = k
  BY <1>1, <1>4
<1>6. s = r
  BY <1>1, <1>2, <1>5
<1> QED
  BY <1>6 DEF s

\* The remainder of a number within one modulus of zero.
LEMMA RemainderNear ==
    ASSUME NEW a \in Int, NEW d \in Nat, d >= 1, -d <= a, a <= d
    PROVE  a % d = IF a < 0 THEN a + d ELSE IF a = d THEN 0 ELSE a
<1>1. CASE a < 0
  <2>1. a = d * (-1) + (a + d) /\ a + d \in 0 .. d - 1
    BY <1>1
  <2>2. a % d = a + d
    BY <2>1, RemainderUnique
  <2> QED
    BY <1>1, <2>2
<1>2. CASE a = d
  <2>1. a = d * 1 + 0 /\ 0 \in 0 .. d - 1
    BY <1>2
  <2>2. a % d = 0
    BY <2>1, RemainderUnique
  <2> QED
    BY <1>2, <2>2
<1>3. CASE a >= 0 /\ a # d
  <2>1. a = d * 0 + a /\ a \in 0 .. d - 1
    BY <1>3
  <2>2. a % d = a
    BY <2>1, RemainderUnique
  <2> QED
    BY <1>3, <2>2
<1> QED
  BY <1>1, <1>2, <1>3

\* A counter that wraps.
LEMMA Successor ==
    ASSUME NEW d \in Nat, d >= 1, NEW a \in 0 .. d - 1
    PROVE  (a + 1) % d = IF a + 1 = d THEN 0 ELSE a + 1
<1>1. a + 1 \in Int /\ -d <= a + 1 /\ a + 1 <= d /\ ~(a + 1 < 0)
  OBVIOUS
<1> DEFINE b == a + 1
<1> HIDE DEF b
<1>2. b % d = IF b < 0 THEN b + d ELSE IF b = d THEN 0 ELSE b
  BY <1>1, RemainderNear DEF b
<1> QED
  BY <1>1, <1>2 DEF b

\* How far a counter that wraps is ahead of an earlier value of its own.
LEMMA RemainderAhead ==
    ASSUME NEW d \in Nat, d >= 1, NEW t \in 0 .. d - 1, NEW s \in 0 .. d - 1
    PROVE  (t - s) % d = IF t - s < 0 THEN t - s + d ELSE t - s
<1> DEFINE a == t - s
<1>1. a \in Int /\ -d <= a /\ a <= d /\ a # d
  OBVIOUS
<1> HIDE DEF a
<1>2. a % d = IF a < 0 THEN a + d ELSE IF a = d THEN 0 ELSE a
  BY <1>1, RemainderNear
<1> QED
  BY <1>1, <1>2 DEF a

\* The windows and the samples since boot agree, across all wraps
\* (nano33.ino:90, 103).
THEOREM WindowClock == Spec => []SeqIsWindowClock
<1> DEFINE M == WindowSize * SeqMod  N == WindowSize * seq + fill
<1>c. M \in Nat /\ M >= WindowSize /\ WindowSize \in Nat /\ WindowSize >= 1 /\ SeqMod \in Nat /\ SeqMod >= 2
  BY Constants
<1>t. ASSUME TypeOK PROVE N \in Nat /\ N <= M /\ N <= M - WindowSize + fill /\ seq \in Nat /\ fill \in Nat
  <2>1. seq \in Nat /\ fill \in Nat /\ seq <= SeqMod - 1 /\ fill <= WindowSize
    BY <1>c, <1>t DEF TypeOK
  <2>2. WindowSize * seq <= WindowSize * (SeqMod - 1)
    BY <1>c, <2>1
  <2>3. WindowSize * seq \in Nat /\ WindowSize * (SeqMod - 1) = WindowSize * SeqMod - WindowSize
    BY <1>c, <2>1
  <2> QED
    BY <1>c, <2>1, <2>2, <2>3
<1>1. Init => WholeWindows
  <2>1. WindowSize * 0 + 0 = 0
    BY <1>c
  <2> QED
    BY <2>1 DEF Init, WholeWindows
<1>2. TypeOK /\ WholeWindows /\ [Next]_vars => WholeWindows'
  <2> SUFFICES ASSUME TypeOK, WholeWindows, [Next]_vars PROVE WholeWindows'
    OBVIOUS
  <2>1. CASE SampleTaken
    <3>1. samples' = (samples + 1) % M /\ fill' = fill + 1 /\ seq' = seq /\ fill < WindowSize
      BY <2>1 DEF SampleTaken, window
    <3>2. N' = N + 1
      BY <1>c, <1>t, <3>1
    <3>3. N \in Nat /\ fill \in Nat /\ N <= M - WindowSize + fill
      BY <1>t
    <3>4. N + 1 <= M
      <4> HIDE DEF M, N
      <4> QED
        BY <1>c, <3>1, <3>3
    <3>5. samples = IF N = M THEN 0 ELSE N
      BY DEF WholeWindows
    <3>6. samples' = IF N + 1 = M THEN 0 ELSE N + 1
      <4> HIDE DEF M, N
      <4> QED
        BY <1>c, <3>1, <3>3, <3>4, <3>5, RemainderNear
    <3> QED
      BY <3>2, <3>6 DEF WholeWindows
  <2>2. CASE WindowFull
    <3>a. /\ fill >= WindowSize /\ fill \in 0 .. WindowSize /\ seq \in 0 .. SeqMod - 1
          /\ fill' = 0 /\ samples' = samples /\ seq' = (seq + 1) % SeqMod
      BY <2>2 DEF WindowFull, TypeOK
    <3>1. /\ fill = WindowSize /\ fill' = 0 /\ samples' = samples
          /\ seq' = (seq + 1) % SeqMod /\ seq \in 0 .. SeqMod - 1
      BY <1>c, <3>a
    <3>2. seq' = IF seq + 1 = SeqMod THEN 0 ELSE seq + 1
      BY <1>c, <3>1, Successor
    <3>3. N = WindowSize * (seq + 1)
      BY <1>c, <3>1
    <3>4. CASE seq + 1 = SeqMod
      <4>1. N = M /\ N' = 0
        BY <1>c, <3>1, <3>2, <3>3, <3>4
      <4> QED
        BY <4>1, <3>1, <1>c DEF WholeWindows
    <3>5. CASE seq + 1 # SeqMod
      <4>1. N' = N
        BY <1>c, <3>1, <3>2, <3>3, <3>5
      <4> QED
        BY <4>1, <3>1 DEF WholeWindows
    <3> QED
      BY <3>4, <3>5
  <2>3. CASE Reboot
    <3>1. N' = 0 /\ samples' = 0
      BY <1>c, <2>3 DEF Reboot
    <3> QED
      BY <3>1 DEF WholeWindows
  <2>4. CASE UNCHANGED window
    BY <2>4 DEF window, WholeWindows
  <2>5. SampleTaken \/ WindowFull \/ Reboot \/ UNCHANGED window
    BY DEF Next, Loop, World, vars, SetupOk, SetupFails, LoopTop, WatchdogQuiet, WatchdogReset,
           NoSample, WindowPartial, Connect, Disconnect, Stall, Tick, WriteMode
  <2> QED
    BY <2>1, <2>2, <2>3, <2>4, <2>5
<1>3. TypeOK /\ WholeWindows => SeqIsWindowClock
  <2> SUFFICES ASSUME TypeOK, WholeWindows PROVE samples = N % M
    BY DEF SeqIsWindowClock
  <2>1. samples = IF N = M THEN 0 ELSE N
    BY DEF WholeWindows
  <2>2. N \in Nat /\ N <= M
    BY <1>t
  <2> HIDE DEF M, N
  <2> QED
    BY <1>c, <2>1, <2>2, RemainderNear
<1> QED
  BY <1>1, <1>2, <1>3, TypeCorrect, PTL DEF Spec

-----------------------------------------------------------------------------
(* The watchdog.                                                           *)

\* While its modulus is not reached, the time since the last publish is counted.
LEMMA Elapsed ==
    ASSUME TypeOK
    PROVE  /\ msSinceLastPublish \in Nat
           /\ Tick /\ msSinceLastPublish + 1 < ClockMod
                => msSinceLastPublish' = msSinceLastPublish + 1
           /\ UNCHANGED <<now, gLastPublishMs>> => msSinceLastPublish' = msSinceLastPublish
           /\ gLastPublishMs' = now /\ now' = now => msSinceLastPublish' = 0
<1> DEFINE d == now - gLastPublishMs
<1>1. /\ now \in 0 .. ClockMod - 1 /\ gLastPublishMs \in 0 .. ClockMod - 1
      /\ ClockMod \in Nat /\ ClockMod >= 1
  BY Constants DEF TypeOK
<1>2. msSinceLastPublish = IF d < 0 THEN d + ClockMod ELSE d
  <2>2. msSinceLastPublish = d % ClockMod
    BY DEF msSinceLastPublish
  <2> QED
    BY <1>1, <2>2, RemainderAhead
<1>3. ASSUME Tick, msSinceLastPublish + 1 < ClockMod
      PROVE  msSinceLastPublish' = msSinceLastPublish + 1
  <2>1. now' = (now + 1) % ClockMod /\ gLastPublishMs' = gLastPublishMs
    BY <1>3 DEF Tick
  <2>2. now' = IF now + 1 = ClockMod THEN 0 ELSE now + 1
    BY <1>1, <2>1, Successor
  <2>3. now' \in 0 .. ClockMod - 1 /\ gLastPublishMs' \in 0 .. ClockMod - 1
    BY <1>1, <2>1, <2>2
  <2>4. msSinceLastPublish' = IF d' < 0 THEN d' + ClockMod ELSE d'
    <3>1. msSinceLastPublish' = d' % ClockMod
      BY DEF msSinceLastPublish
    <3> QED
      BY <1>1, <2>1, <2>2, <2>3, <3>1, RemainderAhead
  <2> QED
    BY <1>1, <1>2, <1>3, <2>1, <2>2, <2>4
<1>4. ASSUME UNCHANGED <<now, gLastPublishMs>> PROVE msSinceLastPublish' = msSinceLastPublish
  BY <1>4 DEF msSinceLastPublish
<1>5. ASSUME gLastPublishMs' = now, now' = now PROVE msSinceLastPublish' = 0
  <2>1. msSinceLastPublish' = 0 % ClockMod
    BY <1>1, <1>5 DEF msSinceLastPublish
  <2> QED
    BY <1>1, <2>1, RemainderNear
<1>6. msSinceLastPublish \in Nat
  BY <1>1, <1>2
<1> QED
  BY <1>3, <1>4, <1>5, <1>6

\* The numbers of the watchdog's argument.
LEMMA SilenceNumbers ==
    ASSUME TypeOK
    PROVE  /\ silent \in Nat /\ spent \in Nat /\ spent <= MaxLoop
           /\ MaxLoop \in Nat /\ MaxLoop >= 1 /\ Timeout \in Nat
           /\ ClockMod \in Nat /\ ClockMod > Timeout + 2 * MaxLoop + 1
           /\ msSinceLastPublish \in Nat
  BY Constants, Elapsed DEF TypeOK, MaxSilence

\* What the central has to wait for is kept by every step.
LEMMA SilenceInductive ==
    ASSUME TypeOK, Silence, [Next]_vars
    PROVE  Silence'
<1>n. /\ silent \in Nat /\ spent \in Nat /\ spent <= MaxLoop
      /\ MaxLoop \in Nat /\ MaxLoop >= 1 /\ Timeout \in Nat
      /\ ClockMod \in Nat /\ ClockMod > Timeout + 2 * MaxLoop + 1
      /\ msSinceLastPublish \in Nat
  BY SilenceNumbers
<1> USE DEF radio, locals, reported, window, Heard
<1>s. /\ central => radioUp
      /\ pc = "setup" => ~connected /\ ~central
      /\ SilentSinceConnect /\ SilentBeforeCheck /\ SilentAfterCheck
  BY DEF Silence, CentralNeedsRadio
<1> USE DEF SilentSinceConnect, SilentBeforeCheck, SilentAfterCheck
<1>q. SUFFICES /\ (central => radioUp)'
               /\ (pc = "setup" => ~connected /\ ~central)'
               /\ SilentSinceConnect' /\ SilentBeforeCheck' /\ SilentAfterCheck'
  BY DEF Silence, CentralNeedsRadio
<1>1. CASE SetupOk
  BY <1>s, <1>1 DEF SetupOk
<1>2. CASE SetupFails
  BY <1>s, <1>2 DEF SetupFails
<1>3. CASE LoopTop
  <2>1. /\ pc = "top" /\ pc' = "watchdog" /\ spent' = 0 /\ connected' = central
        /\ UNCHANGED <<now, radio, gLastPublishMs, silent>>
    BY <1>3 DEF LoopTop
  <2>2. msSinceLastPublish' = msSinceLastPublish
    BY <2>1, Elapsed
  <2>3. central /\ ~stalled =>
          \/ silent <= MaxLoop
          \/ /\ msSinceLastPublish <= Timeout + MaxLoop
             /\ silent <= msSinceLastPublish + 2 * MaxLoop
    BY <1>s, <1>n, <2>1
  <2> QED
    BY <1>s, <1>n, <2>1, <2>2, <2>3
<1>4. CASE WatchdogQuiet
  <2>1. /\ pc = "watchdog" /\ pc' = "sample"
        /\ connected => msSinceLastPublish <= Timeout
        /\ UNCHANGED <<now, spent, radio, gLastPublishMs, locals, silent>>
    BY <1>4, <1>n DEF WatchdogQuiet, WatchdogTrips
  <2>2. msSinceLastPublish' = msSinceLastPublish
    BY <2>1, Elapsed
  <2>3. connected => msSinceLastPublish <= Timeout + spent
    BY <1>n, <2>1
  <2>4. connected /\ Heard => silent <= msSinceLastPublish + 2 * MaxLoop
    BY <1>s, <1>n, <2>1
  <2> QED
    BY <1>s, <2>1, <2>2, <2>3, <2>4
<1>5. CASE \E ok \in BOOLEAN : WatchdogReset(ok)
  <2> PICK ok \in BOOLEAN : WatchdogReset(ok)
    BY <1>5
  <2>1. /\ pc = "watchdog" /\ pc' = "sample" /\ ~central' /\ radioUp' = ok
        /\ gLastPublishMs' = (IF ok THEN now ELSE gLastPublishMs)
        /\ UNCHANGED <<now, spent, locals>>
    BY DEF WatchdogReset
  <2>2. ok => msSinceLastPublish' <= Timeout + spent'
    <3>1. ok => msSinceLastPublish' = 0
      BY <2>1, Elapsed
    <3> QED
      BY <1>n, <2>1, <3>1
  <2> QED
    BY <2>1, <2>2
<1>6. CASE SampleTaken \/ NoSample \/ WindowPartial
  <2>1. /\ pc \in {"sample", "window"} /\ pc' \in {"window", "top"}
        /\ UNCHANGED <<now, spent, radio, gLastPublishMs, locals, silent>>
    BY <1>6 DEF SampleTaken, NoSample, WindowPartial
  <2>2. msSinceLastPublish' = msSinceLastPublish
    BY <2>1, Elapsed
  <2> QED
    BY <1>s, <2>1, <2>2
<1>7. CASE WindowFull
  <2>1. /\ pc = "window" /\ pc' = "top" /\ gLastPublishMs' = now
        /\ UNCHANGED <<now, spent, radio, locals>>
        /\ silent' = (IF central /\ radioUp /\ ~stalled THEN 0 ELSE silent)
    BY <1>7 DEF WindowFull
  <2>2. msSinceLastPublish' = 0
    BY <2>1, Elapsed
  <2>3. Heard' => silent' = 0
    BY <1>s, <2>1
  <2> QED
    BY <1>s, <1>n, <2>1, <2>2, <2>3
<1>8. CASE Connect
  <2>1. /\ silent' = 0 /\ radioUp /\ pc # "setup"
        /\ UNCHANGED <<pc, now, spent, radioUp, gLastPublishMs, locals>>
    BY <1>8 DEF Connect, Running
  <2>2. msSinceLastPublish' = msSinceLastPublish
    BY <2>1, Elapsed
  <2> QED
    BY <1>s, <1>n, <2>1, <2>2
<1>9. CASE Disconnect \/ Stall \/ \E byte \in ModeWrites : WriteMode(byte)
  <2>1. /\ UNCHANGED <<pc, now, spent, radioUp, gLastPublishMs, locals, silent>>
        /\ central' => central
        /\ Heard' => Heard
    BY <1>9 DEF Disconnect, Stall, WriteMode
  <2>2. msSinceLastPublish' = msSinceLastPublish
    BY <2>1, Elapsed
  <2> QED
    BY <1>s, <2>1, <2>2
<1>10. CASE Tick
  <2>1. /\ spent < MaxLoop /\ spent' = spent + 1 /\ silent' = Capped(silent + 1)
        /\ UNCHANGED <<pc, radio, gLastPublishMs, locals>>
    BY <1>10 DEF Tick
  <2>2. silent' \in Nat /\ silent' <= silent + 1
    BY <1>n, <2>1 DEF Capped, MaxSilence
  <2>3. msSinceLastPublish <= Timeout + MaxLoop + spent => msSinceLastPublish' = msSinceLastPublish + 1
    BY <1>n, <1>10, <2>1, Elapsed
  <2>4. SilentSinceConnect'
    BY <1>s, <1>n, <2>1, <2>2
  <2>5. SilentBeforeCheck'
    BY <1>s, <1>n, <2>1, <2>2, <2>3
  <2>6. SilentAfterCheck'
    BY <1>s, <1>n, <2>1, <2>2, <2>3
  <2> QED
    BY <1>s, <2>1, <2>4, <2>5, <2>6
<1>11. CASE Reboot
  BY <1>11 DEF Reboot
<1>12. CASE UNCHANGED vars
  BY <1>s, <1>12 DEF vars, msSinceLastPublish
<1> QED
  BY <1>1, <1>2, <1>3, <1>4, <1>5, <1>6, <1>7, <1>8, <1>9, <1>10, <1>11, <1>12 DEF Next, Loop, World

\* While the radio sends what it is given, the watchdog lets no central wait longer
\* than the timeout and two iterations, however often the clock has wrapped
\* (ble_service.cpp:66-68, nano33.ino:73).
THEOREM WatchdogBound == Spec => WatchdogBoundsSilence
<1>1. Init => Silence
  BY DEF Init, Silence, CentralNeedsRadio, SilentSinceConnect, SilentBeforeCheck, SilentAfterCheck,
         Heard
<1>2. TypeOK /\ Silence /\ [Next]_vars => Silence'
  BY SilenceInductive
<1>3. TypeOK /\ Silence /\ [Next]_vars =>
        [pc = "watchdog" /\ pc' = "sample" /\ connected /\ central' /\ ~stalled'
           => silent' <= MaxSilence]_vars
  <2> SUFFICES ASSUME TypeOK, Silence, Next, pc = "watchdog", pc' = "sample", connected,
                      central', ~stalled'
               PROVE  silent' <= MaxSilence
    BY DEF vars
  <2>1. WatchdogQuiet
    BY DEF Next, Loop, World, SetupOk, SetupFails, LoopTop, WatchdogReset, SampleTaken, NoSample,
           WindowPartial, WindowFull, Connect, Disconnect, Stall, Tick, Reboot, WriteMode
  <2>2. Heard /\ silent' = silent /\ msSinceLastPublish <= Timeout
    BY <2>1, SilenceNumbers DEF WatchdogQuiet, WatchdogTrips, Heard, radio
  <2>3. \/ silent <= MaxLoop + spent
        \/ silent <= msSinceLastPublish + 2 * MaxLoop
    BY <2>2 DEF Silence, SilentBeforeCheck
  <2> QED
    BY <2>2, <2>3, SilenceNumbers DEF MaxSilence
<1> QED
  BY <1>1, <1>2, <1>3, TypeCorrect, PTL DEF Spec, WatchdogBoundsSilence

=============================================================================
