------------------------------- MODULE Inference -------------------------------
(***************************************************************************)
(* What the Nano does with a window (firmware/nano33/src/inference.cpp)    *)
(* and what eval.py does with it when it is given the same .tflite file:   *)
(* both quantise the input, run the interpreter and take the largest       *)
(* output.  The network is external: any outputs that a softmax may have.  *)
(*                                                                         *)
(* Reals are fractions: an input is q / Parts, already divided by the      *)
(* scale and shifted by the zero point; a confidence is in 256ths, the     *)
(* scale that TFLite gives to an int8 softmax, with zero point -128.       *)
(***************************************************************************)
EXTENDS Integers, Sequences

\* The firmware's names of the outputs, and train_cnn.py's.
LABELS == <<"HEALTHY", "IMBALANCE", "LOOSENESS", "BEARING_FAULT">>
CLASSES == <<"HEALTHY", "IMBALANCE", "LOOSENESS", "BEARING_FAULT">>
Outputs == 1 .. 4

-----------------------------------------------------------------------------
(* Rounding.                                                               *)

\* C's roundf of num / den: a half goes away from zero.
RoundAway(num, den) ==
    IF num >= 0 THEN (2 * num + den) \div (2 * den)
                ELSE -((2 * (-num) + den) \div (2 * den))

\* Python's round() and np.round of num / den: a half goes to the even neighbour.
RoundEven(num, den) ==
    LET low == num \div den
        twice == 2 * (num % den)
    IN  IF twice < den \/ (twice = den /\ low % 2 = 0) THEN low ELSE low + 1

ClampInt8(v) == IF v < -128 THEN -128 ELSE IF v > 127 THEN 127 ELSE v

DeviceInput(q, parts) == ClampInt8(RoundAway(q, parts))

EvalInput(q, parts) == ClampInt8(RoundEven(q, parts))

-----------------------------------------------------------------------------
(* Begin.                                                                  *)

\* What is flashed: the placeholder model.h, a model that the interpreter takes,
\* or one of another schema version, too large for the arena, or not int8.
Images == {"placeholder", "model", "otherVersion", "tooLarge", "notInt8"}

\* begin(): setup() halts if it returns false; the placeholder is let through.
Begun(image) ==
    CASE image = "placeholder" -> "noModel"
      [] image = "model" -> "ready"
      [] OTHER -> "halted"

-----------------------------------------------------------------------------
(* Run.                                                                    *)

\* Softmax outputs in int8: the probabilities add up to 1 but for rounding.
IsSoftmax(out) ==
    LET sum == out[1] + out[2] + out[3] + out[4] + 4 * 128
    IN  254 <= sum /\ sum <= 258

\* Definitions named Bug... are plausible mistakes in the definition that follows
\* them.  No action uses them: they are put in its place to see that the
\* properties notice.
BugDeviceArgmax(out) ==
    LET best[i \in Outputs] ==
            IF i = 1 THEN 1 ELSE IF out[i] >= out[best[i - 1]] THEN i ELSE best[i - 1]
    IN  best[4]

\* The loop keeps the best output so far, until one is larger.
DeviceArgmax(out) ==
    LET best[i \in Outputs] ==
            IF i = 1 THEN 1 ELSE IF out[i] > out[best[i - 1]] THEN i ELSE best[i - 1]
    IN  best[4]

\* np.argmax: the first of the largest.
EvalArgmax(out) ==
    CHOOSE i \in Outputs : \A j \in Outputs : out[j] < out[i] \/ (out[j] = out[i] /\ i <= j)

Confidence(out) ==
    LET c == out[DeviceArgmax(out)] + 128
    IN  IF c < 0 THEN 0 ELSE IF c > 256 THEN 256 ELSE c

\* What run() answers when there is no model, no scale, or Invoke() fails.
Fallback == [class |-> LABELS[1], confidence |-> 0]

BugRun(ready, invoked, out) ==
    IF ready THEN [class |-> LABELS[DeviceArgmax(out)], confidence |-> Confidence(out)] ELSE Fallback

Run(ready, invoked, out) ==
    IF ready /\ invoked
    THEN [class |-> LABELS[DeviceArgmax(out)], confidence |-> Confidence(out)]
    ELSE Fallback

\* fn.state_change: 0.6 of 256.
ClearsFloor(confidence) == 10 * confidence >= 6 * 256
=============================================================================
