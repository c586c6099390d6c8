----------------------------- MODULE MCAcceptance -----------------------------
(* The synthetic dataset as it is, one with enough sessions, a lopsided one.  *)
EXTENDS AcceptanceTests

MCInputs == -10 .. 10 \cup {-514, -512, -510, 506, 508, 510}
MCLevels == {-128, -127, -64, -63, 0, 127}
MCDatasets == {<<5, 5, 5, 5>>, <<7, 7, 7, 7>>, <<30, 1, 1, 1>>}
=============================================================================
