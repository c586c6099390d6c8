---------------------------- MODULE MCTrainingData ----------------------------
(* Two captures and a synthetic file of one session with two sets of rows.   *)
EXTENDS TrainingData

MCSynthSessions == <<{3}, {3}>>
=============================================================================
