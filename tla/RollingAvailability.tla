------------------------- MODULE RollingAvailability -------------------------
(***************************************************************************)
(* The `rolling availability' node of gateway/nodered/flows.json: for each *)
(* state message it appends a sample to the asset's buffer, drops what is  *)
(* older than the window from the front of the buffer, and publishes the   *)
(* fraction of HEALTHY samples in what is left.                            *)
(*                                                                         *)
(* Samples carry the wall clock of the gateway (ble_central.py, _iso_now), *)
(* which a time server may set back or ahead.  time is the time that has   *)
(* really passed.  One asset: the buffers are per asset_id.                *)
(*                                                                         *)
(* seen is history: the samples since the node started, with both times.   *)
(***************************************************************************)
EXTENDS Integers, Sequences, FiniteSets

CONSTANTS
    Window,       \* WINDOW_MS, in clock ticks
    MaxTime,      \* bound on the time that passes
    MaxSamples,   \* bound on the samples since the node started
    Back, Ahead   \* by how much the wall clock may be set back or ahead, once

ASSUME AvailabilityAssumption ==
    /\ Window \in Nat /\ MaxTime \in Nat /\ MaxSamples \in Nat
    /\ Back \subseteq Nat /\ Ahead \subseteq Nat

VARIABLES
    time,     \* time passed
    offset,   \* wall clock minus time
    set,      \* the wall clock has been set
    buf,      \* context.get('buf_' + key)
    out,      \* the payload published last: healthy and all samples counted
    seen

availabilityVars == <<time, offset, set, buf, out, seen>>

wall == time + offset
Sample(ok) == [ts |-> wall, healthy |-> ok]
Nothing == [healthy |-> 0, samples |-> 0]

HealthyIn(b) == Cardinality({i \in 1 .. Len(b) : b[i].healthy})

\* Definitions named Bug... are plausible mistakes in the definition that follows
\* them.  No action uses them: they are put in its place to see that the
\* properties notice.
BugExpired(s) == wall - s.ts >= Window

Expired(s) == wall - s.ts > Window

\* The while loop stops at the first sample that has not expired; the newest never
\* has.
Kept(b) ==
    LET first == CHOOSE i \in 1 .. Len(b) :
                     ~Expired(b[i]) /\ \A j \in 1 .. i - 1 : Expired(b[j])
    IN  SubSeq(b, first, Len(b))

OnState(ok) ==
    /\ Len(seen) < MaxSamples
    /\ buf' = Kept(Append(buf, Sample(ok)))
    /\ out' = [healthy |-> HealthyIn(buf'), samples |-> Len(buf')]
    /\ seen' = Append(seen, [ts |-> wall, at |-> time, healthy |-> ok])
    /\ UNCHANGED <<time, offset, set>>

\* Node-RED restarts with an empty context.
Restart ==
    /\ seen # <<>>
    /\ buf' = <<>> /\ seen' = <<>> /\ out' = Nothing
    /\ UNCHANGED <<time, offset, set>>

Tick ==
    /\ time < MaxTime
    /\ time' = time + 1
    /\ UNCHANGED <<offset, set, buf, out, seen>>

ClockIsSet(by) ==
    /\ ~set
    /\ set' = TRUE
    /\ offset' = offset + by
    /\ UNCHANGED <<time, buf, out, seen>>

AvailabilityInit ==
    /\ time = 0 /\ offset = 0 /\ set = FALSE
    /\ buf = <<>> /\ out = Nothing /\ seen = <<>>

AvailabilityNext ==
    \/ \E ok \in BOOLEAN : OnState(ok)
    \/ Restart \/ Tick
    \/ \E by \in {-b : b \in Back} \cup Ahead : ClockIsSet(by)

AvailabilitySpec == AvailabilityInit /\ [][AvailabilityNext]_availabilityVars

-----------------------------------------------------------------------------
(* Properties.                                                             *)

InOrder == \A i, j \in 1 .. Len(seen) : i < j => seen[i].ts <= seen[j].ts

Last == seen[Len(seen)]

\* The samples whose stamp is no older than the window when the last one came.
StampedWithin == {i \in 1 .. Len(seen) : Last.ts - seen[i].ts <= Window}

\* As long as the stamps do not go back, what is published counts exactly the samples
\* stamped within the window, although only the front of the buffer is looked at
\* (flows.json:47).
ExactInOrder ==
    (seen # <<>> /\ InOrder) =>
        /\ out.samples = Cardinality(StampedWithin)
        /\ out.healthy = Cardinality({i \in StampedWithin : seen[i].healthy})

\* Set back or not, the node never forgets a sample stamped within the window unless
\* the clock has been further ahead since.
NeverForgetsEarly ==
    seen # <<>> =>
        \A i \in StampedWithin :
            (\A j \in i .. Len(seen) : seen[j].ts <= Last.ts)
                => i > Len(seen) - Len(buf)

\* gateway/README.md:110, "60-second rolling fraction of HEALTHY samples": what is
\* published counts the samples of the last 60 seconds.
CountsTheLastMinute ==
    seen # <<>> => out.samples = Cardinality({i \in 1 .. Len(seen) : Last.at - seen[i].at <= Window})
=============================================================================
