-------------------------- MODULE MCWindowAssembler --------------------------
(* Four windows: two share number 1 with different totals, two share number 2 *)
(* with the same total, as after a reboot of the device.                     *)
EXTENDS WindowAssembler

MCWindows == {"a", "b", "c", "d"}
MCSize == [w \in MCWindows |-> CASE w = "a" -> 5 [] w = "b" -> 3
                                 [] w = "c" -> 4 [] w = "d" -> 3]
MCSeqOf == [w \in MCWindows |-> IF w \in {"a", "b"} THEN 1 ELSE 2]
=============================================================================
