--------------------------- MODULE MCRawWindowLink ---------------------------
(* Three windows of two, three and two chunks.                               *)
EXTENDS RawWindowLink

MCWindows == 1 .. 3
MCSize == [w \in MCWindows |-> IF w = 2 THEN 5 ELSE 3]
MCSeqOf == [w \in MCWindows |-> w]
=============================================================================
