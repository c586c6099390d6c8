------------------------- MODULE AcceptanceTestsProofs -------------------------
(***************************************************************************)
(* Proofs about AcceptanceTests, for any inputs and outputs of a network,  *)
(* any latencies, and any datasets: first what the two argmaxes and the    *)
(* two roundings have in common, then the four properties of the runs.     *)
(***************************************************************************)
EXTENDS AcceptanceTests, TLAPS

-----------------------------------------------------------------------------
(* The largest output.                                                     *)

\* The first of the largest outputs.
FirstLargest(out, i) ==
    /\ i \in Outputs
    /\ \A j \in Outputs : out[j] < out[i] \/ (out[j] = out[i] /\ i <= j)

\* The firmware's loop finds the first of the largest outputs (inference.cpp:134-141).
LEMMA DeviceArgmaxFirst ==
    ASSUME NEW out \in [Outputs -> Int]
    PROVE  FirstLargest(out, DeviceArgmax(out))
<1> DEFINE b2 == IF out[2] > out[1] THEN 2 ELSE 1
           b3 == IF out[3] > out[b2] THEN 3 ELSE b2
           b4 == IF out[4] > out[b3] THEN 4 ELSE b3
           B(f) == f = [i \in Outputs |-> IF i = 1 THEN 1 ELSE IF out[i] > out[f[i - 1]] THEN i ELSE f[i - 1]]
           g == [i \in Outputs |-> IF i = 1 THEN 1 ELSE IF i = 2 THEN b2 ELSE IF i = 3 THEN b3 ELSE b4]
           best == CHOOSE f : B(f)
<1>1. B(g)
  BY DEF Outputs
<1>2. B(best)
  BY <1>1
<1>3. DeviceArgmax(out) = best[4]
  BY DEF DeviceArgmax
<1>4. best[4] = b4
  <2> HIDE DEF best, b2, b3, b4
  <2>1. best[1] = 1
    BY <1>2 DEF Outputs
  <2>2. best[2] = b2
    BY <1>2, <2>1 DEF Outputs, b2
  <2>3. best[3] = b3
    BY <1>2, <2>2 DEF Outputs, b3
  <2> QED
    BY <1>2, <2>3 DEF Outputs, b4
<1>5. FirstLargest(out, b4)
  <2> HIDE DEF best
  <2>1. out[1] \in Int /\ out[2] \in Int /\ out[3] \in Int /\ out[4] \in Int
    BY DEF Outputs
  <2> QED
    BY <2>1 DEF FirstLargest, Outputs
<1> QED
  BY <1>3, <1>4, <1>5

\* np.argmax's answer is the only first one, so the device's is the same (eval.py:76).
LEMMA SameArgmax ==
    ASSUME NEW out \in [Outputs -> Int]
    PROVE  EvalArgmax(out) = DeviceArgmax(out)
<1>1. FirstLargest(out, DeviceArgmax(out))
  BY DeviceArgmaxFirst
<1>2. FirstLargest(out, EvalArgmax(out))
  BY <1>1 DEF FirstLargest, EvalArgmax
<1> DEFINE d == DeviceArgmax(out)  e == EvalArgmax(out)
<1>3. d \in Outputs /\ e \in Outputs /\ out[d] \in Int /\ out[e] \in Int
  BY <1>1, <1>2 DEF FirstLargest
<1>4. out[e] < out[d] \/ (out[e] = out[d] /\ d <= e)
  BY <1>1, <1>3 DEF FirstLargest
<1>5. out[d] < out[e] \/ (out[d] = out[e] /\ e <= d)
  BY <1>2, <1>3 DEF FirstLargest
<1> HIDE DEF d, e
<1>6. d = e
  BY <1>3, <1>4, <1>5 DEF Outputs
<1> QED
  BY <1>6 DEF d, e

-----------------------------------------------------------------------------
(* Rounding.                                                               *)

\* Quotient and remainder ...
LEMMA Division ==
    ASSUME NEW a \in Int, NEW d \in Nat \ {0}
    PROVE  /\ a \div d \in Int /\ a % d \in 0 .. d - 1
           /\ a = d * (a \div d) + (a % d)
  OBVIOUS

\* ... which nothing else can be.
LEMMA DivisionUnique ==
    ASSUME NEW a \in Int, NEW d \in Nat \ {0}, NEW k \in Int, NEW r \in 0 .. d - 1, a = d * k + r
    PROVE  a \div d = k /\ a % d = r
<1> DEFINE q == a \div d  s == a % d
<1>1. q \in Int /\ s \in 0 .. d - 1 /\ a = d * q + s
  BY Division
<1> HIDE DEF q, s
<1>2. d * (k - q) = s - r
  BY <1>1
<1>3. \A m \in Int : m >= 1 => d * m >= d
  OBVIOUS
<1>4. d * (q - k) = r - s
  BY <1>1
<1>5. ~(k - q >= 1)
  BY <1>1, <1>2, <1>3
<1>6. ~(q - k >= 1)
  BY <1>1, <1>4, <1>3
<1>7. q = k
  BY <1>1, <1>5, <1>6
<1>8. s = r
  BY <1>1, <1>2, <1>7
<1> QED
  BY <1>7, <1>8 DEF q, s

\* x is q / p rounded to the nearest, a half to either side.
Nearest(x, q, p) ==
    LET low == q \div p
        rest == q % p
    IN  /\ 2 * rest < p => x = low
        /\ 2 * rest > p => x = low + 1
        /\ 2 * rest = p => x \in {low, low + 1}

LEMMA EvenIsNearest ==
    ASSUME NEW q \in Int, NEW p \in Nat \ {0}
    PROVE  RoundEven(q, p) \in Int /\ Nearest(RoundEven(q, p), q, p)
<1> DEFINE low == q \div p  rest == q % p
<1>1. low \in Int /\ rest \in 0 .. p - 1
  BY Division
<1>2. RoundEven(q, p) = IF 2 * rest < p \/ (2 * rest = p /\ low % 2 = 0) THEN low ELSE low + 1
  BY DEF RoundEven
<1>3. Nearest(RoundEven(q, p), q, p)
      <=> /\ 2 * rest < p => RoundEven(q, p) = low
          /\ 2 * rest > p => RoundEven(q, p) = low + 1
          /\ 2 * rest = p => RoundEven(q, p) \in {low, low + 1}
  BY DEF Nearest
<1> HIDE DEF low, rest
<1> QED
  BY <1>1, <1>2, <1>3

\* roundf is the same but for halves, on both sides of zero.
LEMMA AwayIsNearest ==
    ASSUME NEW q \in Int, NEW p \in Nat \ {0}
    PROVE  RoundAway(q, p) \in Int /\ Nearest(RoundAway(q, p), q, p)
<1> DEFINE low == q \div p  rest == q % p
<1>1. low \in Int /\ rest \in 0 .. p - 1 /\ q = p * low + rest
  BY Division
<1>2. \A x : Nearest(x, q, p) <=> /\ 2 * rest < p => x = low
                                  /\ 2 * rest > p => x = low + 1
                                  /\ 2 * rest = p => x \in {low, low + 1}
  BY DEF Nearest
<1> HIDE DEF low, rest
<1>3. 2 * p \in Nat \ {0}
  OBVIOUS
<1>4. CASE q >= 0
  <2>1. RoundAway(q, p) = (2 * q + p) \div (2 * p)
    BY <1>4 DEF RoundAway
  <2>2. CASE 2 * rest < p
    <3>1. 2 * q + p = (2 * p) * low + (2 * rest + p) /\ 2 * rest + p \in 0 .. 2 * p - 1
      BY <1>1, <2>2
    <3>2. (2 * q + p) \div (2 * p) = low
      BY <1>1, <1>3, <3>1, DivisionUnique
    <3> QED
      BY <1>1, <1>2, <2>1, <2>2, <3>2
  <2>3. CASE 2 * rest >= p
    <3>1. 2 * q + p = (2 * p) * (low + 1) + (2 * rest - p) /\ 2 * rest - p \in 0 .. 2 * p - 1
      BY <1>1, <2>3
    <3>2. (2 * q + p) \div (2 * p) = low + 1
      BY <1>1, <1>3, <3>1, DivisionUnique
    <3> QED
      BY <1>1, <1>2, <2>1, <2>3, <3>2
  <2> QED
    BY <1>1, <2>2, <2>3
<1>5. CASE q < 0
  <2>1. RoundAway(q, p) = -((2 * (-q) + p) \div (2 * p))
    BY <1>5 DEF RoundAway
  <2>2. CASE 2 * rest <= p
    <3>1. 2 * (-q) + p = (2 * p) * (-low) + (p - 2 * rest) /\ p - 2 * rest \in 0 .. 2 * p - 1
      BY <1>1, <2>2
    <3>2. (2 * (-q) + p) \div (2 * p) = -low
      BY <1>1, <1>3, <3>1, DivisionUnique
    <3> QED
      BY <1>1, <1>2, <2>1, <2>2, <3>2
  <2>3. CASE 2 * rest > p
    <3>1. /\ 2 * (-q) + p = (2 * p) * (-low - 1) + (3 * p - 2 * rest)
          /\ 3 * p - 2 * rest \in 0 .. 2 * p - 1
      BY <1>1, <2>3
    <3>2. (2 * (-q) + p) \div (2 * p) = -low - 1
      BY <1>1, <1>3, <3>1, DivisionUnique
    <3> QED
      BY <1>1, <1>2, <2>1, <2>3, <3>2
  <2> QED
    BY <1>1, <2>2, <2>3
<1> QED
  BY <1>4, <1>5

\* The two inputs are one step apart at most, and only at a half (inference.cpp:119-124,
\* eval.py:72).
LEMMA InputsClose ==
    ASSUME NEW q \in Int, NEW p \in Nat \ {0}
    PROVE  /\ DeviceInput(q, p) - EvalInput(q, p) \in {-1, 0, 1}
           /\ DeviceInput(q, p) # EvalInput(q, p) => (2 * q) % (2 * p) = p
<1> DEFINE low == q \div p  rest == q % p  x == RoundAway(q, p)  y == RoundEven(q, p)
<1>1. low \in Int /\ rest \in 0 .. p - 1 /\ q = p * low + rest
  BY Division
<1>2. x \in Int /\ y \in Int /\ Nearest(x, q, p) /\ Nearest(y, q, p)
  BY EvenIsNearest, AwayIsNearest
<1>3. x - y \in {-1, 0, 1} /\ (x # y => 2 * rest = p)
  <2>1. \A z \in {x, y} : /\ 2 * rest < p => z = low
                          /\ 2 * rest > p => z = low + 1
                          /\ 2 * rest = p => z \in {low, low + 1}
    BY <1>2 DEF Nearest
  <2> HIDE DEF low, rest, x, y
  <2> QED
    BY <1>1, <1>2, <2>1
<1>4. 2 * rest = p => (2 * q) % (2 * p) = p
  <2> HIDE DEF low, rest
  <2> SUFFICES ASSUME 2 * rest = p PROVE (2 * q) % (2 * p) = p
    OBVIOUS
  <2>1. 2 * q \in Int /\ 2 * p \in Nat \ {0} /\ p \in 0 .. 2 * p - 1
    OBVIOUS
  <2>2. 2 * q = (2 * p) * low + p
    BY <1>1
  <2> QED
    BY <1>1, <2>1, <2>2, DivisionUnique
<1>5. DeviceInput(q, p) = ClampInt8(x) /\ EvalInput(q, p) = ClampInt8(y)
  BY DEF DeviceInput, EvalInput
<1> HIDE DEF low, rest, x, y
<1>6. ClampInt8(x) - ClampInt8(y) \in {-1, 0, 1}
  BY <1>2, <1>3 DEF ClampInt8
<1> QED
  BY <1>3, <1>4, <1>5, <1>6

-----------------------------------------------------------------------------
(* Answers of the device.                                                  *)

\* Each action reports what it tests, or nothing.
LEMMA OtherReports ==
    /\ Next /\ ~Infer => report'.test # "infer" \/ UNCHANGED report
    /\ Next /\ ~Evaluate => report'.test # "atp05" \/ UNCHANGED report
<1>1. Boot \/ Open \/ ReadLine => UNCHANGED report
  BY DEF Boot, Open, ReadLine
<1>2. SerialError \/ Verdict => report'.test = "atp01"
  BY DEF SerialError, Verdict, Exit
<1>3. Infer => report'.test = "infer"
  BY DEF Infer
<1>4. Evaluate => report'.test = "atp05"
  BY DEF Evaluate, Evaluated
<1> QED
  BY <1>1, <1>2, <1>3, <1>4 DEF Next

\* eval.py's class and input for a window are the device's, whatever the network, the
\* inputs and their scale (inference.cpp:103-150, eval.py:57-77).
THEOREM Agreement == Spec => []DeviceAgreesWithEval
<1>1. Init => DeviceAgreesWithEval
  BY DEF Init, NoReport, DeviceAgreesWithEval
<1>2. DeviceAgreesWithEval /\ [Next]_vars => DeviceAgreesWithEval'
  <2> SUFFICES ASSUME DeviceAgreesWithEval, [Next]_vars PROVE DeviceAgreesWithEval'
    OBVIOUS
  <2>1. CASE Infer
    <3>1. PICK q \in Inputs, invoked \in BOOLEAN, out \in [Outputs -> Levels] :
            report' = [test |-> "infer", q |-> q,
                       input |-> DeviceInput(q, Parts), evalInput |-> EvalInput(q, Parts),
                       fellBack |-> device # "ready" \/ ~invoked,
                       result |-> Run(device = "ready", invoked, out),
                       evalClass |-> CLASSES[EvalArgmax(out)]]
      BY <2>1 DEF Infer
    <3>2. q \in Int /\ Parts \in Nat \ {0} /\ out \in [Outputs -> Int]
      <4>1. Inputs \subseteq Int /\ Levels \subseteq Int
        BY AcceptanceAssumption
      <4> QED
        BY <4>1, AcceptanceAssumption
    <3>3. EvalArgmax(out) = DeviceArgmax(out)
      BY <3>2, SameArgmax
    <3>4. ~report'.fellBack => report'.result.class = report'.evalClass
      BY <3>1, <3>3 DEF Run, LABELS, CLASSES
    <3>5. /\ DeviceInput(q, Parts) - EvalInput(q, Parts) \in {-1, 0, 1}
          /\ DeviceInput(q, Parts) # EvalInput(q, Parts) => (2 * q) % (2 * Parts) = Parts
      BY <3>2, InputsClose
    <3>6. /\ report'.input = DeviceInput(q, Parts) /\ report'.evalInput = EvalInput(q, Parts)
          /\ report'.q = q
      BY <3>1
    <3> QED
      BY <3>4, <3>5, <3>6 DEF DeviceAgreesWithEval
  <2>2. CASE report'.test # "infer"
    BY <2>2 DEF DeviceAgreesWithEval
  <2>3. CASE UNCHANGED report
    BY <2>3 DEF DeviceAgreesWithEval
  <2>4. Next /\ ~Infer => report'.test # "infer" \/ UNCHANGED report
    BY OtherReports
  <2> QED
    BY <2>1, <2>2, <2>3, <2>4 DEF vars
<1> QED
  BY <1>1, <1>2, PTL DEF Spec

\* The largest output of a softmax is above its zero point, and not above its top.
LEMMA SomethingIsLikely ==
    ASSUME NEW out \in [Outputs -> -128 .. 127], IsSoftmax(out)
    PROVE  Confidence(out) \in 1 .. 256
<1> DEFINE d == DeviceArgmax(out)
<1>1. FirstLargest(out, d)
  BY DeviceArgmaxFirst
<1>2. d \in Outputs /\ \A j \in Outputs : out[j] <= out[d]
  <2> HIDE DEF d
  <2>1. d \in Outputs /\ \A j \in Outputs : out[j] \in Int
    BY <1>1 DEF FirstLargest
  <2> QED
    BY <1>1, <2>1 DEF FirstLargest
<1>3. Confidence(out) = IF out[d] + 128 < 0 THEN 0 ELSE IF out[d] + 128 > 256 THEN 256 ELSE out[d] + 128
  BY DEF Confidence
<1> HIDE DEF d
<1>4. /\ out[1] \in -128 .. 127 /\ out[2] \in -128 .. 127 /\ out[3] \in -128 .. 127 /\ out[4] \in -128 .. 127
      /\ out[d] \in -128 .. 127
  BY <1>2 DEF Outputs
<1>5. out[1] <= out[d] /\ out[2] <= out[d] /\ out[3] <= out[d] /\ out[4] <= out[d]
  BY <1>2 DEF Outputs
<1>6. out[1] + out[2] + out[3] + out[4] + 512 >= 254
  BY <1>4 DEF IsSoftmax
<1>7. out[d] > -128
  <2>1. \A a, b, c, e, m \in Int :
          (a <= m /\ b <= m /\ c <= m /\ e <= m /\ a + b + c + e + 512 >= 254) => m > -128
    OBVIOUS
  <2>2. out[1] \in Int /\ out[2] \in Int /\ out[3] \in Int /\ out[4] \in Int /\ out[d] \in Int
    BY <1>4
  <2> QED
    BY <1>5, <1>6, <2>1, <2>2
<1> QED
  BY <1>3, <1>4, <1>7

\* A confidence of 0 marks the answers that are none, and never passes the floor
\* (inference.cpp:104-147, flows.json:37).
THEOREM FallbackMarked == Spec => []FallbackIsToldByConfidence
<1>1. Init => FallbackIsToldByConfidence
  BY DEF Init, NoReport, FallbackIsToldByConfidence
<1>2. FallbackIsToldByConfidence /\ [Next]_vars => FallbackIsToldByConfidence'
  <2> SUFFICES ASSUME FallbackIsToldByConfidence, [Next]_vars PROVE FallbackIsToldByConfidence'
    OBVIOUS
  <2>1. CASE Infer
    <3>1. PICK q \in Inputs, invoked \in BOOLEAN, out \in {o \in [Outputs -> Levels] : IsSoftmax(o)} :
            report' = [test |-> "infer", q |-> q,
                       input |-> DeviceInput(q, Parts), evalInput |-> EvalInput(q, Parts),
                       fellBack |-> device # "ready" \/ ~invoked,
                       result |-> Run(device = "ready", invoked, out),
                       evalClass |-> CLASSES[EvalArgmax(out)]]
      BY <2>1 DEF Infer
    <3>2. out \in [Outputs -> -128 .. 127] /\ IsSoftmax(out)
      BY AcceptanceAssumption
    <3>3. Confidence(out) \in 1 .. 256
      BY <3>2, SomethingIsLikely
    <3>4. report'.fellBack = (device # "ready" \/ ~invoked) /\ report'.result = Run(device = "ready", invoked, out)
      BY <3>1
    <3>5. CASE device = "ready" /\ invoked
      <4>1. report'.result.confidence = Confidence(out)
        BY <3>4, <3>5 DEF Run
      <4>2. ~report'.fellBack
        BY <3>4, <3>5
      <4>3. report'.result.confidence # 0
        BY <3>3, <4>1
      <4> QED
        BY <4>2, <4>3 DEF FallbackIsToldByConfidence
    <3>6. CASE ~(device = "ready" /\ invoked)
      <4>1. report'.result.confidence = 0 /\ report'.result.class = "HEALTHY"
        BY <3>4, <3>6 DEF Run, Fallback, LABELS
      <4>2. report'.fellBack
        BY <3>4, <3>6
      <4>3. ~ClearsFloor(0)
        BY DEF ClearsFloor
      <4> QED
        BY <4>1, <4>2, <4>3 DEF FallbackIsToldByConfidence
    <3> QED
      BY <3>5, <3>6
  <2>2. CASE report'.test # "infer"
    BY <2>2 DEF FallbackIsToldByConfidence
  <2>3. CASE UNCHANGED report
    BY <2>3 DEF FallbackIsToldByConfidence
  <2>4. Next /\ ~Infer => report'.test # "infer" \/ UNCHANGED report
    BY OtherReports
  <2> QED
    BY <2>1, <2>2, <2>3, <2>4 DEF vars
<1> QED
  BY <1>1, <1>2, PTL DEF Spec

-----------------------------------------------------------------------------
(* Verdicts of ATP-01.                                                     *)

\* The index is in range, and half a sample away at most from 95 % of the others.
LEMMA RankBounds ==
    ASSUME NEW n \in Nat \ {0}
    PROVE  /\ Rank(n, 95) \in 0 .. n - 1
           /\ 95 * (n - 1) - 50 <= 100 * Rank(n, 95) /\ 100 * Rank(n, 95) <= 95 * (n - 1) + 50
<1> DEFINE a == 95 * (n - 1)  low == a \div 100  rest == a % 100  k == RoundEven(a, 100)
<1>1. a \in Int /\ 100 \in Nat \ {0}
  OBVIOUS
<1>2. k \in Int /\ Nearest(k, a, 100)
  BY <1>1, EvenIsNearest
<1>3. low \in Int /\ rest \in 0 .. 99 /\ a = 100 * low + rest
  BY <1>1
<1>4. a - 50 <= 100 * k /\ 100 * k <= a + 50
  <2>1. /\ 2 * rest < 100 => k = low
        /\ 2 * rest > 100 => k = low + 1
        /\ 2 * rest = 100 => k \in {low, low + 1}
    BY <1>2 DEF Nearest
  <2> HIDE DEF a, low, rest, k
  <2> QED
    BY <1>1, <1>2, <1>3, <2>1
<1>5. Rank(n, 95) = IF k > n - 1 THEN n - 1 ELSE IF k < 0 THEN 0 ELSE k
  BY DEF Rank
<1> HIDE DEF k
<1> QED
  BY <1>2, <1>4, <1>5

\* What the script has read, and what it says of it.
SamplesOK ==
    /\ samples \in [below : Nat, late : Nat, worse : Nat]
    /\ device \in {"off", "halted"} => Count(samples) = 0
    /\ serial = "reading" => report = NoReport
    /\ report.test = "atp01" /\ report.exit = 0 => Count(samples) > 0 /\ Percentile95Below(samples)
    /\ report.test = "atp01" /\ report.exit = 1 => Count(samples) = 0 \/ ~Percentile95Below(samples)

LEMMA SamplesInductive == Spec => []SamplesOK
<1>1. Init => SamplesOK
  BY DEF Init, SamplesOK, NoSamples, NoReport, Count
<1>2. SamplesOK /\ [Next]_vars => SamplesOK'
  <2> SUFFICES ASSUME SamplesOK, [Next]_vars PROVE SamplesOK'
    OBVIOUS
  <2>1. CASE Boot
    BY <2>1 DEF Boot, Begun, SamplesOK, Count, Percentile95Below
  <2>2. CASE Infer
    BY <2>2 DEF Infer, SamplesOK
  <2>3. CASE Open
    BY <2>3 DEF Open, SamplesOK, NoSamples, NoReport, Count
  <2>4. CASE ReadLine
    <3>1. PICK b \in {"below", "late", "worse"} : samples' = [samples EXCEPT ![b] = @ + 1]
      BY <2>4 DEF ReadLine, SamplesOK
    <3>2. samples' \in [below : Nat, late : Nat, worse : Nat]
      BY <3>1 DEF SamplesOK
    <3> QED
      BY <2>4, <3>2 DEF ReadLine, SamplesOK, NoReport
  <2>5. CASE SerialError
    BY <2>5 DEF SerialError, SamplesOK, NoSamples, Count, Exit
  <2>6. CASE Verdict
    <3>1. Count(samples)' = Count(samples) /\ (Percentile95Below(samples)' <=> Percentile95Below(samples))
      BY <2>6 DEF Verdict, Count, Percentile95Below
    <3>2. \/ report' = Exit(0) /\ Count(samples) > 0 /\ Percentile95Below(samples)
          \/ report' = Exit(1) /\ ~(Count(samples) > 0 /\ Percentile95Below(samples))
      BY <2>6 DEF Verdict
    <3>3. Count(samples) \in Nat
      BY DEF SamplesOK, Count
    <3>4. /\ samples' = samples /\ device' = device /\ serial' = "closed"
      BY <2>6 DEF Verdict
    <3> QED
      BY <3>1, <3>2, <3>3, <3>4 DEF SamplesOK, Exit
  <2>7. CASE Evaluate
    BY <2>7 DEF Evaluate, Evaluated, SamplesOK
  <2>8. CASE UNCHANGED vars
    BY <2>8 DEF vars, SamplesOK, Count, Percentile95Below
  <2> QED
    BY <2>1, <2>2, <2>3, <2>4, <2>5, <2>6, <2>7, <2>8 DEF Next
<1> QED
  BY <1>1, <1>2, PTL DEF Spec

\* For any number of samples a verdict bounds the share of slow ones from its side, and
\* a device that halted does not pass (atp01_timing.py:37-82).
THEOREM VerdictSound == Spec => []VerdictBoundsSlow
<1>1. SamplesOK => VerdictBoundsSlow
  <2> SUFFICES ASSUME SamplesOK, report.test = "atp01", report.exit \in {0, 1}
               PROVE  LET n == Count(samples)
                          slow == n - samples.below
                      IN  /\ report.exit = 0 => n > 0 /\ 100 * slow <= 5 * (n - 1) + 50 /\ device # "halted"
                          /\ report.exit = 1 => n = 0 \/ 100 * slow >= 5 * (n - 1) + 50
    BY DEF VerdictBoundsSlow
  <2> DEFINE n == Count(samples)  b == samples.below
  <2>1. n \in Nat /\ b \in Nat
    BY DEF SamplesOK, Count
  <2>2. Percentile95Below(samples) <=> Rank(n, 95) < b
    BY DEF Percentile95Below
  <2>3. n > 0 => /\ Rank(n, 95) \in 0 .. n - 1
                 /\ 95 * (n - 1) - 50 <= 100 * Rank(n, 95) /\ 100 * Rank(n, 95) <= 95 * (n - 1) + 50
    <3> HIDE DEF n, b
    <3> QED
      BY <2>1, RankBounds
  <2>4. CASE report.exit = 0
    <3>1. n > 0 /\ Rank(n, 95) < b /\ device # "halted"
      BY <2>2, <2>4 DEF SamplesOK
    <3> HIDE DEF n, b
    <3>2. 100 * (n - b) <= 5 * (n - 1) + 50
      BY <2>1, <2>3, <3>1
    <3> QED
      BY <2>4, <3>1, <3>2 DEF n, b
  <2>5. CASE report.exit = 1
    <3>1. n = 0 \/ ~(Rank(n, 95) < b)
      BY <2>2, <2>5 DEF SamplesOK
    <3> HIDE DEF n, b
    <3>2. n = 0 \/ 100 * (n - b) >= 5 * (n - 1) + 50
      BY <2>1, <2>3, <3>1
    <3> QED
      BY <2>5, <3>2 DEF n, b
  <2> QED
    BY <2>4, <2>5
<1> QED
  BY <1>1, SamplesInductive, PTL

-----------------------------------------------------------------------------
(* Verdicts of ATP-05.                                                     *)

\* The gate passes nothing that was not tested, whatever the dataset and the split
\* (eval.py:43-46, 96-99).
THEOREM PassTested == Spec => []PassMeansTested
<1>1. Init => PassMeansTested
  BY DEF Init, NoReport, PassMeansTested
<1>2. PassMeansTested /\ [Next]_vars => PassMeansTested'
  <2> SUFFICES ASSUME PassMeansTested, [Next]_vars PROVE PassMeansTested'
    OBVIOUS
  <2>1. CASE Evaluate
    <3>0. PICK dataset \in Datasets :
            \E split \in Splits(dataset) :
              LET total == [c \in Outputs |-> Windows * split[c]]
              IN  \E h1 \in 0 .. total[1], h2 \in 0 .. total[2], h3 \in 0 .. total[3], h4 \in 0 .. total[4] :
                    report' = Evaluated(dataset, total, <<h1, h2, h3, h4>>)
      BY <2>1 DEF Evaluate
    <3>1. PICK split \in Splits(dataset) :
            LET total == [c \in Outputs |-> Windows * split[c]]
            IN  \E h1 \in 0 .. total[1], h2 \in 0 .. total[2], h3 \in 0 .. total[3], h4 \in 0 .. total[4] :
                  report' = Evaluated(dataset, total, <<h1, h2, h3, h4>>)
      BY <3>0
    <3> DEFINE total == [c \in Outputs |-> Windows * split[c]]
    <3>2. PICK h1 \in 0 .. total[1], h2 \in 0 .. total[2], h3 \in 0 .. total[3], h4 \in 0 .. total[4] :
            report' = Evaluated(dataset, total, <<h1, h2, h3, h4>>)
      BY <3>1
    <3> DEFINE hits == <<h1, h2, h3, h4>>
    <3>3. /\ report'.hits = hits /\ report'.total = total /\ report'.sessions = Total(dataset)
          /\ report'.exit = 0 => PassesAtp05(hits, total)
      BY <3>2 DEF Evaluated
    <3>4. SUFFICES ASSUME PassesAtp05(hits, total)
                   PROVE  /\ \A c \in Outputs : hits[c] > 0 /\ 5 * (total[c] - hits[c]) <= total[c]
                          /\ 10 * (Total(total) - Total(hits)) <= Total(total)
                          /\ TestCount(Total(dataset)) >= Len(CLASSES)
      BY <3>3 DEF PassMeansTested
    <3>5. /\ split \in [Outputs -> 0 .. TestCount(Total(dataset))]
          /\ Total(split) = TestCount(Total(dataset))
      BY DEF Splits
    <3>6. \A c \in Outputs : split[c] \in Nat /\ total[c] = Windows * split[c] /\ total[c] \in Nat
      <4>1. TestCount(Total(dataset)) \in Int
        BY AcceptanceAssumption DEF TestCount, Total, Outputs
      <4> QED
        BY <3>5, <4>1, AcceptanceAssumption
    <3>7. \A c \in Outputs : hits[c] \in Nat
      BY <3>6 DEF Outputs
    <3>8. \A c \in Outputs : total[c] > 0 /\ 10 * hits[c] >= 8 * total[c]
      BY <3>4 DEF PassesAtp05, RecallReaches
    <3>9. \A c \in Outputs : hits[c] > 0 /\ 5 * (total[c] - hits[c]) <= total[c]
      <4> HIDE DEF hits, total
      <4> QED
        BY <3>6, <3>7, <3>8
    <3>10. 10 * (Total(total) - Total(hits)) <= Total(total)
      <4>1. 10 * Total(hits) >= 9 * Total(total)
        BY <3>4 DEF PassesAtp05
      <4> HIDE DEF hits, total
      <4>2. Total(hits) \in Int /\ Total(total) \in Int
        BY <3>6, <3>7 DEF Total, Outputs
      <4> QED
        BY <4>1, <4>2
    <3>11. TestCount(Total(dataset)) >= Len(CLASSES)
      <4>1. \A c \in Outputs : split[c] >= 1
        BY <3>6, <3>8, AcceptanceAssumption
      <4>2. Total(split) >= 4
        BY <3>6, <4>1 DEF Total, Outputs
      <4> QED
        BY <3>5, <4>2 DEF CLASSES
    <3> QED
      BY <3>9, <3>10, <3>11
  <2>2. CASE report'.test # "atp05"
    BY <2>2 DEF PassMeansTested
  <2>3. CASE UNCHANGED report
    BY <2>3 DEF PassMeansTested
  <2>4. Next /\ ~Evaluate => report'.test # "atp05" \/ UNCHANGED report
    BY OtherReports
  <2> QED
    BY <2>1, <2>2, <2>3, <2>4 DEF vars
<1> QED
  BY <1>1, <1>2, PTL DEF Spec
=============================================================================
