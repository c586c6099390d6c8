------------------------- MODULE CaptureSessionProofs -------------------------
(***************************************************************************)
(* What a capture run leaves behind, on the device and on disk, for any    *)
(* duration, number of runs and number of times the clock is set.          *)
(***************************************************************************)
EXTENDS CaptureSession, TLAPS

\* Ticks that the deadline has allowed for, over all settings of the clock.
Budget == Duration * (clockSets + 1)

\* The windows a run has are those of the ticks it waited: what is still to come
\* and what is there stay within the budget.
WindowsBounded ==
    /\ at \in {"scan", "connect", "capture", "notify"} => windows = 0
    /\ at = "wait" => windows <= Budget + 1 /\ windows + left <= Budget + 1
    /\ at = "stop" => windows <= Budget + 1
    /\ windows <= Budget + 2
    /\ left <= Budget

\* How far a run has come tells what there is of it.
FilesFollowRun ==
    /\ at \in {"scan", "connect", "check", "meta"} \cup Connected => run \notin meta
    /\ at \in Running => run \notin unfit
    /\ at \in {"parquet", "return"} => run \in meta
    /\ at = "parquet" => run \notin parquet
    /\ at = "return" => run \in parquet

\* Behind its second write of the mode, a run has left the device in INFER.
SwitchedBack == at \in {"check", "meta", "parquet", "return"} => mode = "INFER"

RunTypes ==
    /\ run \in 0 .. MaxRuns
    /\ args \in Args
    /\ at \in Running \cup {"idle"}
    /\ exit \in {NoExit, 0, 1, 2, Interrupted}
    /\ at \in Running => exit = NoExit
    /\ mode \in {"INFER", "CAPTURE"}
    /\ peer \in {"none", "tool", "gateway"}
    /\ left \in Int
    /\ windows \in Nat
    /\ clockSets \in 0 .. MaxClockSets
    /\ at \in Running => run > 0

FileTypes ==
    /\ issues \subseteq {"samples", "short"}
    /\ \A r \in meta : r \in 1 .. run
    /\ \A r \in parquet : r \in 1 .. run
    /\ \A r \in partial : r \in 1 .. run /\ r \notin parquet
    /\ \A r \in unfit : r \in 1 .. run

Inv ==
    /\ cut \in BOOLEAN
    /\ RunTypes
    /\ FileTypes
    /\ WindowsBounded
    /\ FilesFollowRun
    /\ InferUnlessCut
    /\ SavedSessions
    /\ SwitchedBack
    /\ ExitStatusTells

-----------------------------------------------------------------------------

\* The budget is a number, within what the type invariant allows.
LEMMA BudgetBounded ==
    ASSUME clockSets \in 0 .. MaxClockSets
    PROVE  /\ Budget \in Nat /\ Duration <= Budget
           /\ Budget <= Duration * (MaxClockSets + 1)
<1> DEFINE rest == MaxClockSets - clockSets
<1>1. rest \in Nat /\ clockSets \in Nat /\ Duration \in Nat
  BY CaptureAssumption
<1>2. Duration * (MaxClockSets + 1) = Duration * (clockSets + 1) + Duration * rest
  BY <1>1, CaptureAssumption
<1>3. Duration * rest \in Nat /\ Duration * clockSets \in Nat
  BY <1>1
<1>4. Duration * (clockSets + 1) = Duration * clockSets + Duration
  BY <1>1
<1> QED
  BY <1>1, <1>2, <1>3, <1>4 DEF Budget

LEMMA AssemblesOne ==
    ASSUME Assembles
    PROVE  windows' = windows \/ windows' = windows + 1
  BY DEF Assembles

LEMMA InitInv == Init => Inv
<1> SUFFICES ASSUME Init PROVE Inv
  OBVIOUS
<1>1. Budget \in Nat
  BY BudgetBounded, CaptureAssumption DEF Init
<1>2. RunTypes
  BY CaptureAssumption DEF Init, RunTypes, Running, Connected, NoExit, Interrupted
<1>3. FileTypes
  BY DEF Init, FileTypes
<1>4. WindowsBounded
  BY <1>1 DEF Init, WindowsBounded
<1>5. cut \in BOOLEAN
  BY DEF Init
<1> QED
  BY <1>2, <1>3, <1>4, <1>5 DEF Init, Inv, FilesFollowRun, InferUnlessCut, SavedSessions,
                   SwitchedBack, ExitStatusTells, NoExit, Interrupted, Connected

LEMMA KeepsRunTypes == Inv /\ [Next]_vars => RunTypes'
<1> SUFFICES ASSUME Inv, [Next]_vars PROVE RunTypes'
  OBVIOUS
<1>0. RunTypes
  BY DEF Inv
<1>1. CASE Start
  BY <1>0, <1>1, CaptureAssumption DEF Start, files, history, RunTypes, Running, Connected, NoExit, Interrupted
<1>2. CASE ScanFinds
  BY <1>0, <1>2 DEF ScanFinds, Goto, files, history, RunTypes, Running, Connected, NoExit, Interrupted
<1>3. CASE ScanTimesOut
  BY <1>0, <1>3 DEF ScanTimesOut, Exit, files, history, RunTypes, Running, Connected, NoExit, Interrupted
<1>4. CASE Connect
  BY <1>0, <1>4 DEF Connect, Goto, files, history, RunTypes, Running, Connected, NoExit, Interrupted
<1>5. CASE WriteCapture
  BY <1>0, <1>5 DEF WriteCapture, Goto, files, history, RunTypes, Running, Connected, NoExit, Interrupted
<1>6. CASE StartNotify
  BY <1>0, <1>6, CaptureAssumption DEF StartNotify, Assembles, files, history, RunTypes, Running, Connected, NoExit, Interrupted
<1>7. CASE Sleep
  BY <1>0, <1>7 DEF Sleep, Assembles, files, history, RunTypes, Running, Connected, NoExit, Interrupted
<1>8. CASE DeadlinePassed
  BY <1>0, <1>8 DEF DeadlinePassed, Goto, files, history, RunTypes, Running, Connected, NoExit, Interrupted
<1>9. CASE StopNotify
  BY <1>0, <1>9 DEF StopNotify, Assembles, files, history, RunTypes, Running, Connected, NoExit, Interrupted
<1>10. CASE WriteInfer
  BY <1>0, <1>10 DEF WriteInfer, Goto, files, RunTypes, Running, Connected, NoExit, Interrupted
<1>11. CASE NoWindows
  BY <1>0, <1>11 DEF NoWindows, Exit, files, history, RunTypes, Running, Connected, NoExit, Interrupted
<1>12. CASE QualityCheck
  BY <1>0, <1>12 DEF QualityCheck, Issues, files, RunTypes, Running, Connected, NoExit, Interrupted
<1>13. CASE WriteMeta
  BY <1>0, <1>13 DEF WriteMeta, Goto, history, RunTypes, Running, Connected, NoExit, Interrupted
<1>14. CASE BeginParquet
  BY <1>0, <1>14 DEF BeginParquet, tool, history, RunTypes, Running, Connected, NoExit, Interrupted
<1>15. CASE EndParquet
  BY <1>0, <1>15 DEF EndParquet, Goto, history, RunTypes, Running, Connected, NoExit, Interrupted
<1>16. CASE Return
  BY <1>0, <1>16 DEF Return, Exit, files, history, RunTypes, Running, Connected, NoExit, Interrupted
<1>17. CASE Raises
  BY <1>0, <1>17 DEF Raises, Exit, files, RunTypes, Running, Connected, NoExit, Interrupted
<1>18. CASE LinkLost
  BY <1>0, <1>18 DEF LinkLost, tool, files, history, RunTypes, Running, Connected, NoExit, Interrupted
<1>19. CASE GatewayConnects
  BY <1>0, <1>19 DEF GatewayConnects, tool, files, history, RunTypes, Running, Connected, NoExit, Interrupted
<1>20. CASE Reboot
  BY <1>0, <1>20 DEF Reboot, tool, files, RunTypes, Running, Connected, NoExit, Interrupted
<1>21. CASE ClockIsSet
  BY <1>0, <1>21, CaptureAssumption DEF ClockIsSet, files, history, RunTypes, Running, Connected, NoExit, Interrupted
<1>22. CASE UNCHANGED vars
  BY <1>0, <1>22 DEF vars, tool, files, history, RunTypes, Running, Connected, NoExit, Interrupted
<1> QED
  BY <1>1, <1>2, <1>3, <1>4, <1>5, <1>6, <1>7, <1>8, <1>9, <1>10, <1>11, <1>12, <1>13, <1>14, <1>15, <1>16, <1>17, <1>18, <1>19, <1>20, <1>21, <1>22 DEF Next, Step

LEMMA KeepsFileTypes == Inv /\ [Next]_vars => FileTypes'
<1> SUFFICES ASSUME Inv, [Next]_vars PROVE FileTypes'
  OBVIOUS
<1>0. FileTypes /\ RunTypes /\ FilesFollowRun
  BY DEF Inv
<1>1. CASE Start
  BY <1>0, <1>1, CaptureAssumption DEF Start, files, history, FileTypes, Running, Connected, RunTypes, FilesFollowRun
<1>2. CASE ScanFinds
  BY <1>0, <1>2 DEF ScanFinds, Goto, files, history, FileTypes, Running, Connected, RunTypes, FilesFollowRun
<1>3. CASE ScanTimesOut
  BY <1>0, <1>3 DEF ScanTimesOut, Exit, files, history, FileTypes, Running, Connected, RunTypes, FilesFollowRun
<1>4. CASE Connect
  BY <1>0, <1>4 DEF Connect, Goto, files, history, FileTypes, Running, Connected, RunTypes, FilesFollowRun
<1>5. CASE WriteCapture
  BY <1>0, <1>5 DEF WriteCapture, Goto, files, history, FileTypes, Running, Connected, RunTypes, FilesFollowRun
<1>6. CASE StartNotify
  BY <1>0, <1>6 DEF StartNotify, Assembles, files, history, FileTypes, Running, Connected, RunTypes, FilesFollowRun
<1>7. CASE Sleep
  BY <1>0, <1>7 DEF Sleep, Assembles, files, history, FileTypes, Running, Connected, RunTypes, FilesFollowRun
<1>8. CASE DeadlinePassed
  BY <1>0, <1>8 DEF DeadlinePassed, Goto, files, history, FileTypes, Running, Connected, RunTypes, FilesFollowRun
<1>9. CASE StopNotify
  BY <1>0, <1>9 DEF StopNotify, Assembles, files, history, FileTypes, Running, Connected, RunTypes, FilesFollowRun
<1>10. CASE WriteInfer
  BY <1>0, <1>10 DEF WriteInfer, Goto, files, FileTypes, Running, Connected, RunTypes, FilesFollowRun
<1>11. CASE NoWindows
  BY <1>0, <1>11 DEF NoWindows, Exit, files, history, FileTypes, Running, Connected, RunTypes, FilesFollowRun
<1>12. CASE QualityCheck
  BY <1>0, <1>12 DEF QualityCheck, Issues, files, FileTypes, Running, Connected, RunTypes, FilesFollowRun
<1>13. CASE WriteMeta
  BY <1>0, <1>13 DEF WriteMeta, Goto, history, FileTypes, Running, Connected, RunTypes, FilesFollowRun
<1>14. CASE BeginParquet
  BY <1>0, <1>14 DEF BeginParquet, tool, history, FileTypes, Running, Connected, RunTypes, FilesFollowRun
<1>15. CASE EndParquet
  BY <1>0, <1>15 DEF EndParquet, Goto, history, FileTypes, Running, Connected, RunTypes, FilesFollowRun
<1>16. CASE Return
  BY <1>0, <1>16 DEF Return, Exit, files, history, FileTypes, Running, Connected, RunTypes, FilesFollowRun
<1>17. CASE Raises
  BY <1>0, <1>17 DEF Raises, Exit, files, FileTypes, Running, Connected, RunTypes, FilesFollowRun
<1>18. CASE LinkLost
  BY <1>0, <1>18 DEF LinkLost, tool, files, history, FileTypes, Running, Connected, RunTypes, FilesFollowRun
<1>19. CASE GatewayConnects
  BY <1>0, <1>19 DEF GatewayConnects, tool, files, history, FileTypes, Running, Connected, RunTypes, FilesFollowRun
<1>20. CASE Reboot
  BY <1>0, <1>20 DEF Reboot, tool, files, FileTypes, Running, Connected, RunTypes, FilesFollowRun
<1>21. CASE ClockIsSet
  BY <1>0, <1>21 DEF ClockIsSet, files, history, FileTypes, Running, Connected, RunTypes, FilesFollowRun
<1>22. CASE UNCHANGED vars
  BY <1>0, <1>22 DEF vars, tool, files, history, FileTypes, Running, Connected
<1> QED
  BY <1>1, <1>2, <1>3, <1>4, <1>5, <1>6, <1>7, <1>8, <1>9, <1>10, <1>11, <1>12, <1>13, <1>14, <1>15, <1>16, <1>17, <1>18, <1>19, <1>20, <1>21, <1>22 DEF Next, Step

LEMMA KeepsWindowsBounded == Inv /\ [Next]_vars => WindowsBounded'
<1> SUFFICES ASSUME Inv, [Next]_vars PROVE WindowsBounded'
  OBVIOUS
<1>0. WindowsBounded /\ RunTypes
  BY DEF Inv
<1>a. Budget \in Nat /\ Duration \in Nat /\ Duration <= Budget
  BY <1>0, BudgetBounded, CaptureAssumption DEF RunTypes
<1>b. clockSets' = clockSets => Budget' = Budget
  BY DEF Budget
<1>c. clockSets' = clockSets + 1 => Budget' = Budget + Duration
  <2>1. clockSets \in Nat /\ Duration \in Nat
    BY <1>0, CaptureAssumption DEF RunTypes
  <2>2. Duration * (clockSets + 1 + 1) = Duration * (clockSets + 1) + Duration
    BY <2>1
  <2> QED
    BY <2>2 DEF Budget
<1>1. CASE Start
  BY <1>0, <1>a, <1>b, <1>1, CaptureAssumption DEF Start, files, history, WindowsBounded, RunTypes
<1>2. CASE ScanFinds
  BY <1>0, <1>a, <1>b, <1>2 DEF ScanFinds, Goto, files, history, WindowsBounded, RunTypes
<1>3. CASE ScanTimesOut
  BY <1>0, <1>a, <1>b, <1>3 DEF ScanTimesOut, Exit, files, history, WindowsBounded, RunTypes
<1>4. CASE Connect
  BY <1>0, <1>a, <1>b, <1>4 DEF Connect, Goto, files, history, WindowsBounded, RunTypes
<1>5. CASE WriteCapture
  BY <1>0, <1>a, <1>b, <1>5 DEF WriteCapture, Goto, files, history, WindowsBounded, RunTypes
<1>6. CASE StartNotify
  <2>1. /\ at = "notify" /\ at' = "wait" /\ left' = Duration
        /\ windows' = windows \/ windows' = windows + 1
        /\ Budget' = Budget
    BY <1>b, <1>6, AssemblesOne DEF StartNotify
  <2>2. windows = 0
    BY <1>0, <2>1 DEF WindowsBounded
  <2> QED
    BY <1>a, <2>1, <2>2 DEF WindowsBounded
<1>7. CASE Sleep
  <2>1. /\ at = "wait" /\ at' = "wait" /\ left > 0 /\ left' = left - 1
        /\ windows' = windows \/ windows' = windows + 1
    BY <1>7, AssemblesOne DEF Sleep
  <2>2. Budget' = Budget
    BY <1>b, <1>7 DEF Sleep
  <2>3. /\ windows \in Nat /\ left \in Int /\ left <= Budget
        /\ windows <= Budget + 1 /\ windows + left <= Budget + 1
    BY <1>0, <2>1 DEF RunTypes, WindowsBounded
  <2> QED
    BY <1>a, <2>1, <2>2, <2>3 DEF WindowsBounded
<1>8. CASE DeadlinePassed
  BY <1>0, <1>a, <1>b, <1>8 DEF DeadlinePassed, Goto, files, history, WindowsBounded, RunTypes
<1>9. CASE StopNotify
  BY <1>0, <1>a, <1>b, <1>9 DEF StopNotify, Assembles, files, history, WindowsBounded, RunTypes
<1>10. CASE WriteInfer
  BY <1>0, <1>a, <1>b, <1>10 DEF WriteInfer, Goto, files, WindowsBounded, RunTypes
<1>11. CASE NoWindows
  BY <1>0, <1>a, <1>b, <1>11 DEF NoWindows, Exit, files, history, WindowsBounded, RunTypes
<1>12. CASE QualityCheck
  BY <1>0, <1>a, <1>b, <1>12 DEF QualityCheck, Issues, files, WindowsBounded, RunTypes
<1>13. CASE WriteMeta
  BY <1>0, <1>a, <1>b, <1>13 DEF WriteMeta, Goto, history, WindowsBounded, RunTypes
<1>14. CASE BeginParquet
  BY <1>0, <1>a, <1>b, <1>14 DEF BeginParquet, tool, history, WindowsBounded, RunTypes
<1>15. CASE EndParquet
  BY <1>0, <1>a, <1>b, <1>15 DEF EndParquet, Goto, history, WindowsBounded, RunTypes
<1>16. CASE Return
  BY <1>0, <1>a, <1>b, <1>16 DEF Return, Exit, files, history, WindowsBounded, RunTypes
<1>17. CASE Raises
  BY <1>0, <1>a, <1>b, <1>17 DEF Raises, Exit, files, WindowsBounded, RunTypes
<1>18. CASE LinkLost
  BY <1>0, <1>a, <1>b, <1>18 DEF LinkLost, tool, files, history, WindowsBounded, RunTypes
<1>19. CASE GatewayConnects
  BY <1>0, <1>a, <1>b, <1>19 DEF GatewayConnects, tool, files, history, WindowsBounded, RunTypes
<1>20. CASE Reboot
  BY <1>0, <1>a, <1>b, <1>20 DEF Reboot, tool, files, WindowsBounded, RunTypes
<1>21. CASE ClockIsSet
  <2>1. /\ at = "wait" /\ at' = "wait" /\ windows' = windows
        /\ Budget' = Budget + Duration
        /\ left' = left - Duration \/ left' = left + Duration
    BY <1>c, <1>21 DEF ClockIsSet
  <2>2. /\ windows \in Nat /\ left \in Int /\ left <= Budget
        /\ windows <= Budget + 1 /\ windows + left <= Budget + 1
    BY <1>0, <2>1 DEF RunTypes, WindowsBounded
  <2> QED
    BY <1>a, <2>1, <2>2 DEF WindowsBounded
<1>22. CASE UNCHANGED vars
  BY <1>0, <1>a, <1>b, <1>22 DEF vars, tool, files, history, WindowsBounded
<1> QED
  BY <1>1, <1>2, <1>3, <1>4, <1>5, <1>6, <1>7, <1>8, <1>9, <1>10, <1>11, <1>12, <1>13, <1>14, <1>15, <1>16, <1>17, <1>18, <1>19, <1>20, <1>21, <1>22 DEF Next, Step

LEMMA KeepsFilesFollowRun == Inv /\ [Next]_vars => FilesFollowRun'
<1> SUFFICES ASSUME Inv, [Next]_vars PROVE FilesFollowRun'
  OBVIOUS
<1>0. FilesFollowRun /\ RunTypes /\ FileTypes /\ SavedSessions
  BY DEF Inv
<1>1. CASE Start
  BY <1>0, <1>1, CaptureAssumption DEF Start, files, history, FilesFollowRun, Connected, RunTypes, FileTypes, SavedSessions, Running
<1>2. CASE ScanFinds
  BY <1>0, <1>2 DEF ScanFinds, Goto, files, history, FilesFollowRun, Connected, RunTypes, FileTypes, SavedSessions, Running
<1>3. CASE ScanTimesOut
  BY <1>0, <1>3 DEF ScanTimesOut, Exit, files, history, FilesFollowRun, Connected, RunTypes, FileTypes, SavedSessions, Running
<1>4. CASE Connect
  BY <1>0, <1>4 DEF Connect, Goto, files, history, FilesFollowRun, Connected, RunTypes, FileTypes, SavedSessions, Running
<1>5. CASE WriteCapture
  BY <1>0, <1>5 DEF WriteCapture, Goto, files, history, FilesFollowRun, Connected, RunTypes, FileTypes, SavedSessions, Running
<1>6. CASE StartNotify
  BY <1>0, <1>6 DEF StartNotify, Assembles, files, history, FilesFollowRun, Connected, RunTypes, FileTypes, SavedSessions, Running
<1>7. CASE Sleep
  BY <1>0, <1>7 DEF Sleep, Assembles, files, history, FilesFollowRun, Connected, RunTypes, FileTypes, SavedSessions, Running
<1>8. CASE DeadlinePassed
  BY <1>0, <1>8 DEF DeadlinePassed, Goto, files, history, FilesFollowRun, Connected, RunTypes, FileTypes, SavedSessions, Running
<1>9. CASE StopNotify
  BY <1>0, <1>9 DEF StopNotify, Assembles, files, history, FilesFollowRun, Connected, RunTypes, FileTypes, SavedSessions, Running
<1>10. CASE WriteInfer
  BY <1>0, <1>10 DEF WriteInfer, Goto, files, FilesFollowRun, Connected, RunTypes, FileTypes, SavedSessions, Running
<1>11. CASE NoWindows
  BY <1>0, <1>11 DEF NoWindows, Exit, files, history, FilesFollowRun, Connected, RunTypes, FileTypes, SavedSessions, Running
<1>12. CASE QualityCheck
  BY <1>0, <1>12 DEF QualityCheck, Issues, files, FilesFollowRun, Connected, RunTypes, FileTypes, SavedSessions, Running
<1>13. CASE WriteMeta
  BY <1>0, <1>13 DEF WriteMeta, Goto, history, FilesFollowRun, Connected, RunTypes, FileTypes, SavedSessions, Running
<1>14. CASE BeginParquet
  BY <1>0, <1>14 DEF BeginParquet, tool, history, FilesFollowRun, Connected, RunTypes, FileTypes, SavedSessions, Running
<1>15. CASE EndParquet
  BY <1>0, <1>15 DEF EndParquet, Goto, history, FilesFollowRun, Connected, RunTypes, FileTypes, SavedSessions, Running
<1>16. CASE Return
  BY <1>0, <1>16 DEF Return, Exit, files, history, FilesFollowRun, Connected, RunTypes, FileTypes, SavedSessions, Running
<1>17. CASE Raises
  BY <1>0, <1>17 DEF Raises, Exit, files, FilesFollowRun, Connected, RunTypes, FileTypes, SavedSessions, Running
<1>18. CASE LinkLost
  BY <1>0, <1>18 DEF LinkLost, tool, files, history, FilesFollowRun, Connected, RunTypes, FileTypes, SavedSessions, Running
<1>19. CASE GatewayConnects
  BY <1>0, <1>19 DEF GatewayConnects, tool, files, history, FilesFollowRun, Connected, RunTypes, FileTypes, SavedSessions, Running
<1>20. CASE Reboot
  BY <1>0, <1>20 DEF Reboot, tool, files, FilesFollowRun, Connected, RunTypes, FileTypes, SavedSessions, Running
<1>21. CASE ClockIsSet
  BY <1>0, <1>21 DEF ClockIsSet, files, history, FilesFollowRun, Connected, RunTypes, FileTypes, SavedSessions, Running
<1>22. CASE UNCHANGED vars
  BY <1>0, <1>22 DEF vars, tool, files, history, FilesFollowRun, Connected
<1> QED
  BY <1>1, <1>2, <1>3, <1>4, <1>5, <1>6, <1>7, <1>8, <1>9, <1>10, <1>11, <1>12, <1>13, <1>14, <1>15, <1>16, <1>17, <1>18, <1>19, <1>20, <1>21, <1>22 DEF Next, Step

LEMMA KeepsInferUnlessCut == Inv /\ [Next]_vars => InferUnlessCut'
<1> SUFFICES ASSUME Inv, [Next]_vars PROVE InferUnlessCut'
  OBVIOUS
<1>0. InferUnlessCut /\ RunTypes
  BY DEF Inv
<1>1. CASE Start
  BY <1>0, <1>1 DEF Start, files, history, InferUnlessCut, Connected, RunTypes
<1>2. CASE ScanFinds
  BY <1>0, <1>2 DEF ScanFinds, Goto, files, history, InferUnlessCut, Connected, RunTypes
<1>3. CASE ScanTimesOut
  BY <1>0, <1>3 DEF ScanTimesOut, Exit, files, history, InferUnlessCut, Connected, RunTypes
<1>4. CASE Connect
  BY <1>0, <1>4 DEF Connect, Goto, files, history, InferUnlessCut, Connected, RunTypes
<1>5. CASE WriteCapture
  BY <1>0, <1>5 DEF WriteCapture, Goto, files, history, InferUnlessCut, Connected, RunTypes
<1>6. CASE StartNotify
  BY <1>0, <1>6 DEF StartNotify, Assembles, files, history, InferUnlessCut, Connected, RunTypes
<1>7. CASE Sleep
  BY <1>0, <1>7 DEF Sleep, Assembles, files, history, InferUnlessCut, Connected, RunTypes
<1>8. CASE DeadlinePassed
  BY <1>0, <1>8 DEF DeadlinePassed, Goto, files, history, InferUnlessCut, Connected, RunTypes
<1>9. CASE StopNotify
  BY <1>0, <1>9 DEF StopNotify, Assembles, files, history, InferUnlessCut, Connected, RunTypes
<1>10. CASE WriteInfer
  BY <1>0, <1>10 DEF WriteInfer, Goto, files, InferUnlessCut, Connected, RunTypes
<1>11. CASE NoWindows
  BY <1>0, <1>11 DEF NoWindows, Exit, files, history, InferUnlessCut, Connected, RunTypes
<1>12. CASE QualityCheck
  BY <1>0, <1>12 DEF QualityCheck, Issues, files, InferUnlessCut, Connected, RunTypes
<1>13. CASE WriteMeta
  BY <1>0, <1>13 DEF WriteMeta, Goto, history, InferUnlessCut, Connected, RunTypes
<1>14. CASE BeginParquet
  BY <1>0, <1>14 DEF BeginParquet, tool, history, InferUnlessCut, Connected, RunTypes
<1>15. CASE EndParquet
  BY <1>0, <1>15 DEF EndParquet, Goto, history, InferUnlessCut, Connected, RunTypes
<1>16. CASE Return
  BY <1>0, <1>16 DEF Return, Exit, files, history, InferUnlessCut, Connected, RunTypes
<1>17. CASE Raises
  BY <1>0, <1>17 DEF Raises, Exit, files, InferUnlessCut, Connected, RunTypes
<1>18. CASE LinkLost
  BY <1>0, <1>18 DEF LinkLost, tool, files, history, InferUnlessCut, Connected, RunTypes
<1>19. CASE GatewayConnects
  BY <1>0, <1>19 DEF GatewayConnects, tool, files, history, InferUnlessCut, Connected, RunTypes
<1>20. CASE Reboot
  BY <1>0, <1>20 DEF Reboot, tool, files, InferUnlessCut, Connected, RunTypes
<1>21. CASE ClockIsSet
  BY <1>0, <1>21 DEF ClockIsSet, files, history, InferUnlessCut, Connected, RunTypes
<1>22. CASE UNCHANGED vars
  BY <1>0, <1>22 DEF vars, tool, files, history, InferUnlessCut, Connected
<1> QED
  BY <1>1, <1>2, <1>3, <1>4, <1>5, <1>6, <1>7, <1>8, <1>9, <1>10, <1>11, <1>12, <1>13, <1>14, <1>15, <1>16, <1>17, <1>18, <1>19, <1>20, <1>21, <1>22 DEF Next, Step

LEMMA KeepsSavedSessions == Inv /\ [Next]_vars => SavedSessions'
<1> SUFFICES ASSUME Inv, [Next]_vars PROVE SavedSessions'
  OBVIOUS
<1>0. SavedSessions /\ RunTypes /\ FileTypes /\ FilesFollowRun
  BY DEF Inv
<1>1. CASE Start
  BY <1>0, <1>1, CaptureAssumption DEF Start, files, history, SavedSessions, RunTypes, FileTypes, FilesFollowRun, Running, Connected
<1>2. CASE ScanFinds
  BY <1>0, <1>2 DEF ScanFinds, Goto, files, history, SavedSessions, RunTypes, FileTypes, FilesFollowRun, Running, Connected
<1>3. CASE ScanTimesOut
  BY <1>0, <1>3 DEF ScanTimesOut, Exit, files, history, SavedSessions, RunTypes, FileTypes, FilesFollowRun, Running, Connected
<1>4. CASE Connect
  BY <1>0, <1>4 DEF Connect, Goto, files, history, SavedSessions, RunTypes, FileTypes, FilesFollowRun, Running, Connected
<1>5. CASE WriteCapture
  BY <1>0, <1>5 DEF WriteCapture, Goto, files, history, SavedSessions, RunTypes, FileTypes, FilesFollowRun, Running, Connected
<1>6. CASE StartNotify
  BY <1>0, <1>6 DEF StartNotify, Assembles, files, history, SavedSessions, RunTypes, FileTypes, FilesFollowRun, Running, Connected
<1>7. CASE Sleep
  BY <1>0, <1>7 DEF Sleep, Assembles, files, history, SavedSessions, RunTypes, FileTypes, FilesFollowRun, Running, Connected
<1>8. CASE DeadlinePassed
  BY <1>0, <1>8 DEF DeadlinePassed, Goto, files, history, SavedSessions, RunTypes, FileTypes, FilesFollowRun, Running, Connected
<1>9. CASE StopNotify
  BY <1>0, <1>9 DEF StopNotify, Assembles, files, history, SavedSessions, RunTypes, FileTypes, FilesFollowRun, Running, Connected
<1>10. CASE WriteInfer
  BY <1>0, <1>10 DEF WriteInfer, Goto, files, SavedSessions, RunTypes, FileTypes, FilesFollowRun, Running, Connected
<1>11. CASE NoWindows
  BY <1>0, <1>11 DEF NoWindows, Exit, files, history, SavedSessions, RunTypes, FileTypes, FilesFollowRun, Running, Connected
<1>12. CASE QualityCheck
  BY <1>0, <1>12 DEF QualityCheck, Issues, files, SavedSessions, RunTypes, FileTypes, FilesFollowRun, Running, Connected
<1>13. CASE WriteMeta
  BY <1>0, <1>13 DEF WriteMeta, Goto, history, SavedSessions, RunTypes, FileTypes, FilesFollowRun, Running, Connected
<1>14. CASE BeginParquet
  BY <1>0, <1>14 DEF BeginParquet, tool, history, SavedSessions, RunTypes, FileTypes, FilesFollowRun, Running, Connected
<1>15. CASE EndParquet
  BY <1>0, <1>15 DEF EndParquet, Goto, history, SavedSessions, RunTypes, FileTypes, FilesFollowRun, Running, Connected
<1>16. CASE Return
  BY <1>0, <1>16 DEF Return, Exit, files, history, SavedSessions, RunTypes, FileTypes, FilesFollowRun, Running, Connected
<1>17. CASE Raises
  BY <1>0, <1>17 DEF Raises, Exit, files, SavedSessions, RunTypes, FileTypes, FilesFollowRun, Running, Connected
<1>18. CASE LinkLost
  BY <1>0, <1>18 DEF LinkLost, tool, files, history, SavedSessions, RunTypes, FileTypes, FilesFollowRun, Running, Connected
<1>19. CASE GatewayConnects
  BY <1>0, <1>19 DEF GatewayConnects, tool, files, history, SavedSessions, RunTypes, FileTypes, FilesFollowRun, Running, Connected
<1>20. CASE Reboot
  BY <1>0, <1>20 DEF Reboot, tool, files, SavedSessions, RunTypes, FileTypes, FilesFollowRun, Running, Connected
<1>21. CASE ClockIsSet
  BY <1>0, <1>21 DEF ClockIsSet, files, history, SavedSessions, RunTypes, FileTypes, FilesFollowRun, Running, Connected
<1>22. CASE UNCHANGED vars
  BY <1>0, <1>22 DEF vars, tool, files, history, SavedSessions
<1> QED
  BY <1>1, <1>2, <1>3, <1>4, <1>5, <1>6, <1>7, <1>8, <1>9, <1>10, <1>11, <1>12, <1>13, <1>14, <1>15, <1>16, <1>17, <1>18, <1>19, <1>20, <1>21, <1>22 DEF Next, Step

LEMMA KeepsSwitchedBack == Inv /\ [Next]_vars => SwitchedBack'
<1> SUFFICES ASSUME Inv, [Next]_vars PROVE SwitchedBack'
  OBVIOUS
<1>0. SwitchedBack /\ RunTypes
  BY DEF Inv
<1>1. CASE Start
  BY <1>0, <1>1, CaptureAssumption DEF Start, files, history, SwitchedBack, RunTypes, Running, Connected
<1>2. CASE ScanFinds
  BY <1>0, <1>2 DEF ScanFinds, Goto, files, history, SwitchedBack, RunTypes, Running, Connected
<1>3. CASE ScanTimesOut
  BY <1>0, <1>3 DEF ScanTimesOut, Exit, files, history, SwitchedBack, RunTypes, Running, Connected
<1>4. CASE Connect
  BY <1>0, <1>4 DEF Connect, Goto, files, history, SwitchedBack, RunTypes, Running, Connected
<1>5. CASE WriteCapture
  BY <1>0, <1>5 DEF WriteCapture, Goto, files, history, SwitchedBack, RunTypes, Running, Connected
<1>6. CASE StartNotify
  BY <1>0, <1>6 DEF StartNotify, Assembles, files, history, SwitchedBack, RunTypes, Running, Connected
<1>7. CASE Sleep
  BY <1>0, <1>7 DEF Sleep, Assembles, files, history, SwitchedBack, RunTypes, Running, Connected
<1>8. CASE DeadlinePassed
  BY <1>0, <1>8 DEF DeadlinePassed, Goto, files, history, SwitchedBack, RunTypes, Running, Connected
<1>9. CASE StopNotify
  BY <1>0, <1>9 DEF StopNotify, Assembles, files, history, SwitchedBack, RunTypes, Running, Connected
<1>10. CASE WriteInfer
  BY <1>0, <1>10 DEF WriteInfer, Goto, files, SwitchedBack, RunTypes, Running, Connected
<1>11. CASE NoWindows
  BY <1>0, <1>11 DEF NoWindows, Exit, files, history, SwitchedBack, RunTypes, Running, Connected
<1>12. CASE QualityCheck
  BY <1>0, <1>12 DEF QualityCheck, Issues, files, SwitchedBack, RunTypes, Running, Connected
<1>13. CASE WriteMeta
  BY <1>0, <1>13 DEF WriteMeta, Goto, history, SwitchedBack, RunTypes, Running, Connected
<1>14. CASE BeginParquet
  BY <1>0, <1>14 DEF BeginParquet, tool, history, SwitchedBack, RunTypes, Running, Connected
<1>15. CASE EndParquet
  BY <1>0, <1>15 DEF EndParquet, Goto, history, SwitchedBack, RunTypes, Running, Connected
<1>16. CASE Return
  BY <1>0, <1>16 DEF Return, Exit, files, history, SwitchedBack, RunTypes, Running, Connected
<1>17. CASE Raises
  BY <1>0, <1>17 DEF Raises, Exit, files, SwitchedBack, RunTypes, Running, Connected
<1>18. CASE LinkLost
  BY <1>0, <1>18 DEF LinkLost, tool, files, history, SwitchedBack, RunTypes, Running, Connected
<1>19. CASE GatewayConnects
  BY <1>0, <1>19 DEF GatewayConnects, tool, files, history, SwitchedBack, RunTypes, Running, Connected
<1>20. CASE Reboot
  BY <1>0, <1>20 DEF Reboot, tool, files, SwitchedBack, RunTypes, Running, Connected
<1>21. CASE ClockIsSet
  BY <1>0, <1>21 DEF ClockIsSet, files, history, SwitchedBack, RunTypes, Running, Connected
<1>22. CASE UNCHANGED vars
  BY <1>0, <1>22 DEF vars, tool, files, history, SwitchedBack
<1> QED
  BY <1>1, <1>2, <1>3, <1>4, <1>5, <1>6, <1>7, <1>8, <1>9, <1>10, <1>11, <1>12, <1>13, <1>14, <1>15, <1>16, <1>17, <1>18, <1>19, <1>20, <1>21, <1>22 DEF Next, Step

LEMMA KeepsExitStatusTells == Inv /\ [Next]_vars => ExitStatusTells'
<1> SUFFICES ASSUME Inv, [Next]_vars PROVE ExitStatusTells'
  OBVIOUS
<1>0. ExitStatusTells /\ SwitchedBack /\ SavedSessions /\ RunTypes /\ FileTypes /\ FilesFollowRun
  BY DEF Inv
<1>1. CASE Start
  BY <1>0, <1>1, CaptureAssumption DEF Start, files, history, ExitStatusTells, SwitchedBack, NoExit, Interrupted, RunTypes, FileTypes, FilesFollowRun, SavedSessions, Running, Connected
<1>2. CASE ScanFinds
  BY <1>0, <1>2 DEF ScanFinds, Goto, files, history, ExitStatusTells, SwitchedBack, NoExit, Interrupted, RunTypes, FileTypes, FilesFollowRun, SavedSessions, Running, Connected
<1>3. CASE ScanTimesOut
  BY <1>0, <1>3 DEF ScanTimesOut, Exit, files, history, ExitStatusTells, SwitchedBack, NoExit, Interrupted, RunTypes, FileTypes, FilesFollowRun, SavedSessions, Running, Connected
<1>4. CASE Connect
  BY <1>0, <1>4 DEF Connect, Goto, files, history, ExitStatusTells, SwitchedBack, NoExit, Interrupted, RunTypes, FileTypes, FilesFollowRun, SavedSessions, Running, Connected
<1>5. CASE WriteCapture
  BY <1>0, <1>5 DEF WriteCapture, Goto, files, history, ExitStatusTells, SwitchedBack, NoExit, Interrupted, RunTypes, FileTypes, FilesFollowRun, SavedSessions, Running, Connected
<1>6. CASE StartNotify
  BY <1>0, <1>6 DEF StartNotify, Assembles, files, history, ExitStatusTells, SwitchedBack, NoExit, Interrupted, RunTypes, FileTypes, FilesFollowRun, SavedSessions, Running, Connected
<1>7. CASE Sleep
  BY <1>0, <1>7 DEF Sleep, Assembles, files, history, ExitStatusTells, SwitchedBack, NoExit, Interrupted, RunTypes, FileTypes, FilesFollowRun, SavedSessions, Running, Connected
<1>8. CASE DeadlinePassed
  BY <1>0, <1>8 DEF DeadlinePassed, Goto, files, history, ExitStatusTells, SwitchedBack, NoExit, Interrupted, RunTypes, FileTypes, FilesFollowRun, SavedSessions, Running, Connected
<1>9. CASE StopNotify
  BY <1>0, <1>9 DEF StopNotify, Assembles, files, history, ExitStatusTells, SwitchedBack, NoExit, Interrupted, RunTypes, FileTypes, FilesFollowRun, SavedSessions, Running, Connected
<1>10. CASE WriteInfer
  BY <1>0, <1>10 DEF WriteInfer, Goto, files, ExitStatusTells, SwitchedBack, NoExit, Interrupted, RunTypes, FileTypes, FilesFollowRun, SavedSessions, Running, Connected
<1>11. CASE NoWindows
  BY <1>0, <1>11 DEF NoWindows, Exit, files, history, ExitStatusTells, SwitchedBack, NoExit, Interrupted, RunTypes, FileTypes, FilesFollowRun, SavedSessions, Running, Connected
<1>12. CASE QualityCheck
  BY <1>0, <1>12 DEF QualityCheck, Issues, files, ExitStatusTells, SwitchedBack, NoExit, Interrupted, RunTypes, FileTypes, FilesFollowRun, SavedSessions, Running, Connected
<1>13. CASE WriteMeta
  BY <1>0, <1>13 DEF WriteMeta, Goto, history, ExitStatusTells, SwitchedBack, NoExit, Interrupted, RunTypes, FileTypes, FilesFollowRun, SavedSessions, Running, Connected
<1>14. CASE BeginParquet
  BY <1>0, <1>14 DEF BeginParquet, tool, history, ExitStatusTells, SwitchedBack, NoExit, Interrupted, RunTypes, FileTypes, FilesFollowRun, SavedSessions, Running, Connected
<1>15. CASE EndParquet
  BY <1>0, <1>15 DEF EndParquet, Goto, history, ExitStatusTells, SwitchedBack, NoExit, Interrupted, RunTypes, FileTypes, FilesFollowRun, SavedSessions, Running, Connected
<1>16. CASE Return
  BY <1>0, <1>16 DEF Return, Exit, files, history, ExitStatusTells, SwitchedBack, NoExit, Interrupted, RunTypes, FileTypes, FilesFollowRun, SavedSessions, Running, Connected
<1>17. CASE Raises
  BY <1>0, <1>17 DEF Raises, Exit, files, ExitStatusTells, SwitchedBack, NoExit, Interrupted, RunTypes, FileTypes, FilesFollowRun, SavedSessions, Running, Connected
<1>18. CASE LinkLost
  BY <1>0, <1>18 DEF LinkLost, tool, files, history, ExitStatusTells, SwitchedBack, NoExit, Interrupted, RunTypes, FileTypes, FilesFollowRun, SavedSessions, Running, Connected
<1>19. CASE GatewayConnects
  BY <1>0, <1>19 DEF GatewayConnects, tool, files, history, ExitStatusTells, SwitchedBack, NoExit, Interrupted, RunTypes, FileTypes, FilesFollowRun, SavedSessions, Running, Connected
<1>20. CASE Reboot
  BY <1>0, <1>20 DEF Reboot, tool, files, ExitStatusTells, SwitchedBack, NoExit, Interrupted, RunTypes, FileTypes, FilesFollowRun, SavedSessions, Running, Connected
<1>21. CASE ClockIsSet
  BY <1>0, <1>21 DEF ClockIsSet, files, history, ExitStatusTells, SwitchedBack, NoExit, Interrupted, RunTypes, FileTypes, FilesFollowRun, SavedSessions, Running, Connected
<1>22. CASE UNCHANGED vars
  BY <1>0, <1>22 DEF vars, tool, files, history, ExitStatusTells, SwitchedBack, NoExit, Interrupted
<1> QED
  BY <1>1, <1>2, <1>3, <1>4, <1>5, <1>6, <1>7, <1>8, <1>9, <1>10, <1>11, <1>12, <1>13, <1>14, <1>15, <1>16, <1>17, <1>18, <1>19, <1>20, <1>21, <1>22 DEF Next, Step

LEMMA CutIsBoolean == Inv /\ [Next]_vars => cut' \in BOOLEAN
<1> SUFFICES ASSUME Inv, [Next]_vars PROVE cut' \in BOOLEAN
  OBVIOUS
<1>0. cut \in BOOLEAN
  BY DEF Inv
<1>1. CASE cut' = cut
  BY <1>0, <1>1
<1>2. CASE WriteInfer \/ Raises \/ Reboot
  BY <1>0, <1>2 DEF WriteInfer, Raises, Reboot
<1>3. cut' = cut \/ WriteInfer \/ Raises \/ Reboot
  BY DEF Next, Step, vars, history, Start, ScanFinds, ScanTimesOut, Connect, WriteCapture,
         StartNotify, Sleep, DeadlinePassed, StopNotify, NoWindows, QualityCheck, WriteMeta,
         BeginParquet, EndParquet, Return, LinkLost, GatewayConnects, ClockIsSet
<1> QED
  BY <1>1, <1>2, <1>3

\* The inductive invariant: InferUnlessCut is inductive by itself; that files are
\* what they seem and that the exit status tells them needs to know how far the run
\* has come (FilesFollowRun, SwitchedBack).
THEOREM CaptureInvariance == Spec => []Inv
<1>1. Init => Inv
  BY InitInv
<1>2. Inv /\ [Next]_vars => Inv'
  BY KeepsRunTypes, KeepsFileTypes, KeepsWindowsBounded, KeepsFilesFollowRun,
     KeepsInferUnlessCut, KeepsSavedSessions, KeepsSwitchedBack, KeepsExitStatusTells, CutIsBoolean DEF Inv
<1> QED
  BY <1>1, <1>2, PTL DEF Spec

LEMMA InvTyped == Inv => TypeOK
<1> SUFFICES ASSUME Inv PROVE TypeOK
  OBVIOUS
<1>1. RunTypes /\ FileTypes /\ WindowsBounded /\ cut \in BOOLEAN
  BY DEF Inv
<1>2. /\ Budget \in Nat
      /\ Budget <= Duration * (MaxClockSets + 1)
      /\ Duration * (MaxClockSets + 1) \in Nat
  BY <1>1, BudgetBounded, CaptureAssumption DEF RunTypes
<1>3. /\ left \in Int /\ left <= Duration * (MaxClockSets + 1)
      /\ windows \in 0 .. Duration * (MaxClockSets + 1) + 2
  BY <1>1, <1>2 DEF RunTypes, WindowsBounded
<1>4. meta \cup parquet \cup partial \cup unfit \subseteq 1 .. run /\ parquet \cap partial = {}
  BY <1>1 DEF FileTypes
<1> QED
  BY <1>1, <1>3, <1>4 DEF TypeOK, RunTypes, FileTypes

\* Type correctness, with the bound on what a run collects before its deadline, for
\* any duration and any number of times the clock is set.
THEOREM CaptureTyped == Spec => []TypeOK
  BY CaptureInvariance, InvTyped, PTL

\* The capture tool leaves the device computing states unless a run was cut off
\* between its two writes of the mode.
THEOREM ModeRestored == Spec => []InferUnlessCut
<1>1. Inv => InferUnlessCut
  BY DEF Inv
<1> QED
  BY <1>1, CaptureInvariance, PTL

\* Every session file has its meta file and comes from a run that passed the quality
\* check or was forced, at every moment.
THEOREM FilesHonest == Spec => []SavedSessions
<1>1. Inv => SavedSessions
  BY DEF Inv
<1> QED
  BY <1>1, CaptureInvariance, PTL

\* Status 0 means that the session is on disk, 2 that nothing of it is, and after
\* either the device computes states.  Status 1 promises nothing.
THEOREM ExitHonest == Spec => []ExitStatusTells
<1>1. Inv => ExitStatusTells
  BY DEF Inv
<1> QED
  BY <1>1, CaptureInvariance, PTL
=============================================================================
