--------------------------- MODULE WindowDelivery ---------------------------
(***************************************************************************)
(* What the raw-window protocol promises a capture session: windows that   *)
(* the device published, whole, in the order of publication, each at most  *)
(* once.  Any of them may be missing (ADR-0004: "any dropped chunk         *)
(* silently drops the whole window").                                      *)
(***************************************************************************)
EXTENDS Integers, Sequences

CONSTANT MaxWindows    \* windows a device session publishes

VARIABLES
    published,     \* number of windows published, numbered from 1
    delivered      \* the numbers of those handed to the session

dvars == <<published, delivered>>

DInit == published = 0 /\ delivered = <<>>

DPublish ==
    /\ published < MaxWindows
    /\ published' = published + 1
    /\ UNCHANGED delivered

DDeliver ==
    \E w \in 1 .. published :
        /\ \A k \in 1 .. Len(delivered) : delivered[k] < w
        /\ delivered' = Append(delivered, w)
        /\ UNCHANGED published

DNext == DPublish \/ DDeliver

DSpec == DInit /\ [][DNext]_dvars
=============================================================================
