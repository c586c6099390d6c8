---------------------------- MODULE AcceptanceTests ----------------------------
(***************************************************************************)
(* The tools that decide whether a model and a device are accepted:        *)
(* scripts/atp01_timing.py, which reads the latencies that the sketch      *)
(* prints and gates their 95th percentile, and ml/src/eval.py, which tests *)
(* a model on the sessions of its split and gates accuracy and recall.     *)
(* Between them the device itself, and eval.py's own interpreter, answer   *)
(* windows (Inference).  One test in a behaviour.                          *)
(*                                                                         *)
(* One device, flashed and started once.  A latency is below the target,   *)
(* or not, and then below the plan's second limit (350 ms) or not.  A      *)
(* session is of one class; which sessions the split takes is any choice.  *)
(***************************************************************************)
EXTENDS Inference, FiniteSets

CONSTANTS
    Parts,       \* an input of the model is a multiple of 1 / Parts
    Inputs,      \* the inputs tried, in Parts
    Levels,      \* the int8 values tried for an output
    MaxSamples,  \* bound on the latencies read
    Datasets,    \* class -> sessions, the datasets tried
    Windows      \* windows in a session

ASSUME AcceptanceAssumption ==
    /\ Parts \in Nat \ {0} /\ Inputs \subseteq Int /\ Levels \subseteq -128 .. 127
    /\ MaxSamples \in Nat /\ Windows \in Nat \ {0}
    /\ Datasets \subseteq [Outputs -> Nat]

VARIABLES
    device,   \* "off", "halted", "noModel" or "ready"
    serial,   \* atp01_timing.py: "closed" or "reading"
    samples,  \* how many of the latencies read are below 250 ms, below 350 ms, above
    report    \* what was just tested and what came out

vars == <<device, serial, samples, report>>

NoReport == [test |-> "none"]
NoSamples == [below |-> 0, late |-> 0, worse |-> 0]
Count(s) == s.below + s.late + s.worse

-----------------------------------------------------------------------------
(* The device.                                                             *)

\* setup() either reaches the loop or halts with the error pattern.
Boot ==
    /\ device = "off"
    /\ \E image \in Images : device' = Begun(image)
    /\ UNCHANGED <<serial, samples, report>>

\* A window on the device, and the same window in eval.py.
Infer ==
    /\ device \in {"noModel", "ready"} /\ serial = "closed" /\ report = NoReport
    /\ \E q \in Inputs, invoked \in BOOLEAN, out \in {o \in [Outputs -> Levels] : IsSoftmax(o)} :
         report' = [test |-> "infer", q |-> q,
                    input |-> DeviceInput(q, Parts), evalInput |-> EvalInput(q, Parts),
                    fellBack |-> device # "ready" \/ ~invoked,
                    result |-> Run(device = "ready", invoked, out),
                    evalClass |-> CLASSES[EvalArgmax(out)]]
    /\ UNCHANGED <<device, serial, samples>>

-----------------------------------------------------------------------------
(* ATP-01: atp01_timing.py.                                                *)

Exit(code) == [test |-> "atp01", exit |-> code]

Open ==
    /\ serial = "closed" /\ report = NoReport
    /\ serial' = "reading"
    /\ samples' = NoSamples
    /\ UNCHANGED <<device, report>>

\* A line infer_us=...: the sketch prints one for each window, model or not.
ReadLine ==
    /\ serial = "reading" /\ device \in {"noModel", "ready"}
    /\ Count(samples) < MaxSamples
    /\ \E bucket \in DOMAIN samples : samples' = [samples EXCEPT ![bucket] = @ + 1]
    /\ UNCHANGED <<device, serial, report>>

SerialError ==
    /\ serial = "reading" \/ (serial = "closed" /\ report = NoReport)
    /\ serial' = "closed" /\ samples' = NoSamples
    /\ report' = Exit(2)
    /\ UNCHANGED device

BugRank(n, p) == (p * (n - 1)) \div 100

\* The index that percentile() takes of n sorted samples, from 0.
Rank(n, p) ==
    LET k == RoundEven(p * (n - 1), 100)
    IN  IF k > n - 1 THEN n - 1 ELSE IF k < 0 THEN 0 ELSE k

\* The sample of that index is below the target.
Percentile95Below(s) == Rank(Count(s), 95) < s.below

\* The same of p99 and the plan's 350 ms; the script only prints p99.
Percentile99Below(s) == Rank(Count(s), 99) < s.below + s.late

\* The deadline: the verdict on what was read.
Verdict ==
    /\ serial = "reading"
    /\ serial' = "closed"
    /\ report' = Exit(IF Count(samples) > 0 /\ Percentile95Below(samples) THEN 0 ELSE 1)
    /\ UNCHANGED <<device, samples>>

-----------------------------------------------------------------------------
(* ATP-05: eval.py.                                                        *)

Total(f) == f[1] + f[2] + f[3] + f[4]

\* max(1, int(0.15 * sessions)).
TestCount(n) == LET k == (15 * n) \div 100 IN IF k < 1 THEN 1 ELSE k

\* What session_stratified_split may take: class -> sessions tested.
Splits(dataset) ==
    {t \in [Outputs -> 0 .. TestCount(Total(dataset))] :
        /\ \A c \in Outputs : t[c] <= dataset[c]
        /\ Total(t) = TestCount(Total(dataset))}

BugRecallReaches(hits, total) == 10 * hits >= 8 * total

\* The recall of a class is hits / total, 0 for a class that was not tested.
RecallReaches(hits, total) == total > 0 /\ 10 * hits >= 8 * total

\* passes_atp05: accuracy 0.90 and each recall 0.80.
PassesAtp05(hits, total) ==
    /\ 10 * Total(hits) >= 9 * Total(total)
    /\ \A c \in Outputs : RecallReaches(hits[c], total[c])

\* What eval.py reports; hits are the windows of a class that are predicted so.
Evaluated(dataset, total, hits) ==
    [test |-> "atp05", sessions |-> Total(dataset), hits |-> hits, total |-> total,
     exit |-> IF PassesAtp05(hits, total) THEN 0 ELSE 2]

\* run_eval and main.
Evaluate ==
    /\ report = NoReport /\ serial = "closed"
    /\ \E dataset \in Datasets :
         \E split \in Splits(dataset) :
           LET total == [c \in Outputs |-> Windows * split[c]]
           IN  \E h1 \in 0 .. total[1], h2 \in 0 .. total[2], h3 \in 0 .. total[3], h4 \in 0 .. total[4] :
                 report' = Evaluated(dataset, total, <<h1, h2, h3, h4>>)
    /\ UNCHANGED <<device, serial, samples>>

-----------------------------------------------------------------------------

Init == device = "off" /\ serial = "closed" /\ samples = NoSamples /\ report = NoReport

Next ==
    \/ Boot \/ Infer
    \/ Open \/ ReadLine \/ SerialError \/ Verdict
    \/ Evaluate

Spec == Init /\ [][Next]_vars

-----------------------------------------------------------------------------
(* Properties.                                                             *)

\* eval.py's figures for a .tflite file are the device's: both give the interpreter
\* the same input, but for one step where the value is half way between two, and take
\* the same class from the same outputs, ties and the order of the names included
\* (inference.cpp:119-141, eval.py:72-76).
DeviceAgreesWithEval ==
    report.test = "infer" =>
        /\ ~report.fellBack => report.result.class = report.evalClass
        /\ report.input - report.evalInput \in {-1, 0, 1}
        /\ report.input # report.evalInput => (2 * report.q) % (2 * Parts) = Parts

\* A fallback says HEALTHY and can be told from an answer of the network only by its
\* confidence: it is 0, which no answer of a softmax is, and keeps the fallback below
\* the floor of the alarms (inference.cpp:104-147, flows.json:37).
FallbackIsToldByConfidence ==
    report.test = "infer" =>
        /\ report.fellBack <=> report.result.confidence = 0
        /\ report.fellBack => report.result.class = "HEALTHY" /\ ~ClearsFloor(report.result.confidence)

\* A verdict of ATP-01 bounds the share of slow inferences on both sides, for any
\* number of samples: PASS means that at most 5 % of the others, and half a sample,
\* took 250 ms; a failure means that there was no sample or that about 5 % did.  A
\* device that halted never passes (atp01_timing.py:37-42, 67-82).
VerdictBoundsSlow ==
    (report.test = "atp01" /\ report.exit \in {0, 1}) =>
        LET n == Count(samples)
            slow == n - samples.below
        IN  /\ report.exit = 0 => n > 0 /\ 100 * slow <= 5 * (n - 1) + 50 /\ device # "halted"
            /\ report.exit = 1 => n = 0 \/ 100 * slow >= 5 * (n - 1) + 50

\* eval.py accepts only what it has tested: exit code 0 means that windows of every
\* class were in the split, that at most a fifth of each and a tenth of all were
\* taken for something else, and so that the split had a session for every class
\* (eval.py:43-46, 96-99, 148).
PassMeansTested ==
    (report.test = "atp05" /\ report.exit = 0) =>
        /\ \A c \in Outputs : report.hits[c] > 0 /\ 5 * (report.total[c] - report.hits[c]) <= report.total[c]
        /\ 10 * (Total(report.total) - Total(report.hits)) <= Total(report.total)
        /\ TestCount(report.sessions) >= Len(CLASSES)

\* test_eval.py:42, "If predictions are perfect, ATP-05 should pass."
PerfectModelPasses ==
    (report.test = "atp05" /\ report.hits = report.total) => report.exit = 0

\* PROJECT_PLAN.md:711, "p95 < 250 ms; p99 < 350 ms. The script exits non-zero if the
\* gate fails."
P99IsGated ==
    (report.test = "atp01" /\ report.exit = 0) => Percentile99Below(samples)

\* atp01_timing.py:1, "on-device inference latency": what passes has run a model.
PassMeansInference ==
    (report.test = "atp01" /\ report.exit = 0) => device = "ready"
=============================================================================
