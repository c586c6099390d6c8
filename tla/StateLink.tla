------------------------------ MODULE StateLink ------------------------------
(***************************************************************************)
(* The `state' path from the Nano to the gateway: the device's sequence    *)
(* counter (firmware/nano33/nano33.ino), the one BLE connection it has to  *)
(* offer, and gateway/ble_central.py, which scans, subscribes, accounts    *)
(* for sequence gaps (SeqStats) and publishes, for ever.                   *)
(*                                                                         *)
(* The capture tool (ml/src/capture.py) is the other client of the device: *)
(* while it is connected the gateway finds nothing to connect to, and it   *)
(* switches the device to CAPTURE, where windows are computed and counted  *)
(* but no state is notified.                                               *)
(*                                                                         *)
(* Every window has a production index that survives reboots.  The         *)
(* variables produced, first, last, firstBoot and dropped are history.     *)
(***************************************************************************)
EXTENDS Integers, Sequences, FiniteSets

CONSTANTS
    MaxWindows,    \* bound on the windows produced
    MaxBoots,      \* bound on the device's reboots
    MaxInFlight    \* notifications in flight at once

ASSUME StateLinkAssumption ==
    /\ MaxWindows \in Nat
    /\ MaxBoots \in Nat
    /\ MaxInFlight \in Nat \ {0}

VARIABLES
    seq,           \* nano33.ino's seq: windows since boot
    boot,          \* which boot of the device this is
    mode,          \* "INFER" or "CAPTURE"
    peer,          \* who holds the connection: "none", "gateway" or "capture"
    link,          \* state notifications on their way to _on_notify
    central,       \* where ble_central.run() is
    stats,         \* SeqStats
    published,     \* messages handed to MQTT since ble_central started
    produced,      \* production index of the last window
    first, last,   \* production index of the first and last notification counted
    firstBoot,     \* the boot the first one came from
    dropped        \* production indices of notifications sent and never received

device == <<seq, boot, mode>>
history == <<produced, first, last, firstBoot, dropped>>
vars == <<device, peer, link, central, stats, published, history>>

None == 0    \* expected_next before the first notification
FreshStats == [expected_next |-> None, received |-> 0, missed |-> 0]

-----------------------------------------------------------------------------
(* The device.                                                             *)

Subscribed == peer = "gateway" /\ central = "session"

\* One window: seq counts it in either mode, connected or not (nano33.ino:90).
WindowSilent ==
    /\ produced < MaxWindows
    /\ mode = "CAPTURE" \/ ~Subscribed
    /\ seq' = seq + 1
    /\ produced' = produced + 1
    /\ UNCHANGED <<boot, mode, peer, link, central, stats, published, first, last,
                   firstBoot, dropped>>

WindowNotified ==
    /\ produced < MaxWindows
    /\ mode = "INFER" /\ Subscribed
    /\ Len(link) < MaxInFlight
    /\ seq' = seq + 1
    /\ produced' = produced + 1
    /\ link' = Append(link, [seq |-> seq + 1, at |-> produced + 1, boot |-> boot])
    /\ UNCHANGED <<boot, mode, peer, central, stats, published, first, last,
                   firstBoot, dropped>>

\* The notification is lost between writeValue and the callback.
WindowDropped ==
    /\ produced < MaxWindows
    /\ mode = "INFER" /\ Subscribed
    /\ seq' = seq + 1
    /\ produced' = produced + 1
    /\ dropped' = dropped \cup {produced + 1}
    /\ UNCHANGED <<boot, mode, peer, link, central, stats, published, first, last,
                   firstBoot>>

\* The connection ends; of what was in flight only a prefix still arrives.
LoseConnection(kept) ==
    /\ peer' = "none"
    /\ link' = SubSeq(link, 1, kept)
    /\ dropped' = dropped \cup {link[k].at : k \in kept + 1 .. Len(link)}

Disconnect ==
    /\ peer = "gateway"
    /\ \E kept \in 0 .. Len(link) : LoseConnection(kept)
    /\ UNCHANGED <<device, central, stats, published, produced, first, last, firstBoot>>

Reboot ==
    /\ boot < MaxBoots
    /\ boot' = boot + 1
    /\ seq' = 0
    /\ mode' = "INFER"
    /\ \E kept \in 0 .. Len(link) : LoseConnection(kept)
    /\ UNCHANGED <<central, stats, published, produced, first, last, firstBoot>>

-----------------------------------------------------------------------------
(* The capture tool.                                                       *)

CaptureStarts ==
    /\ peer = "none"
    /\ peer' = "capture"
    /\ mode' = "CAPTURE"
    /\ UNCHANGED <<seq, boot, link, central, stats, published, history>>

CaptureEnds ==
    /\ peer = "capture"
    /\ peer' = "none"
    /\ mode' = "INFER"
    /\ UNCHANGED <<seq, boot, link, central, stats, published, history>>

\* It loses the connection or dies before it writes the mode back
\* (capture.py:104-117 has no finally).
CaptureDies ==
    /\ peer = "capture"
    /\ peer' = "none"
    /\ UNCHANGED <<device, link, central, stats, published, history>>

-----------------------------------------------------------------------------
(* ble_central.run().                                                      *)

\* The process (re)starts under systemd and reaches the broker, with new stats.
Start ==
    /\ central = "down"
    /\ central' = "scanning"
    /\ stats' = FreshStats
    /\ published' = 0
    /\ link' = <<>>
    /\ first' = 0 /\ last' = 0 /\ firstBoot' = 0
    /\ UNCHANGED <<device, peer, produced, dropped>>

\* find_device_by_name: a device whose connection is free is found ...
ScanFinds ==
    /\ central = "scanning" /\ peer = "none"
    /\ central' = "connecting"
    /\ UNCHANGED <<device, peer, link, stats, published, history>>

\* ... or the scan times out and sleeps five seconds ...
ScanTimesOut ==
    /\ central = "scanning"
    /\ central' = "sleeping"
    /\ UNCHANGED <<device, peer, link, stats, published, history>>

\* ... or raises, outside the try: the process exits.
ScanRaises ==
    /\ central = "scanning"
    /\ central' = "down"
    /\ UNCHANGED <<device, peer, link, stats, published, history>>

\* BleakClient and start_notify succeed ...
Connects ==
    /\ central = "connecting" /\ peer = "none"
    /\ central' = "session"
    /\ peer' = "gateway"
    /\ UNCHANGED <<device, link, stats, published, history>>

\* Definitions named Bug... are plausible mistakes in the definition that follows
\* them.  No action uses them: they are put in its place to see that the
\* properties notice.
BugSessionErrorEscapes ==
    /\ central \in {"connecting", "session"}
    /\ central' = "stopped"
    /\ peer' = IF peer = "gateway" THEN "none" ELSE peer
    /\ link' = <<>>
    /\ dropped' = dropped \cup {link[k].at : k \in 1 .. Len(link)}
    /\ UNCHANGED <<device, stats, published, produced, first, last, firstBoot>>

\* ... or something in the session raises: the client is closed and run() sleeps
\* two seconds.
SessionError ==
    /\ central \in {"connecting", "session"}
    /\ central' = "sleeping"
    /\ peer' = IF peer = "gateway" THEN "none" ELSE peer
    /\ link' = <<>>
    /\ dropped' = dropped \cup {link[k].at : k \in 1 .. Len(link)}
    /\ UNCHANGED <<device, stats, published, produced, first, last, firstBoot>>

\* The poll of is_connected sees that the connection is gone.
SessionEnds ==
    /\ central = "session" /\ peer # "gateway"
    /\ central' = "scanning"
    /\ link' = <<>>
    /\ dropped' = dropped \cup {link[k].at : k \in 1 .. Len(link)}
    /\ UNCHANGED <<device, peer, stats, published, produced, first, last, firstBoot>>

Wakes ==
    /\ central = "sleeping"
    /\ central' = "scanning"
    /\ UNCHANGED <<device, peer, link, stats, published, history>>

BugGapTolerant(s) == IF stats.expected_next # None /\ s > stats.expected_next + 1
                     THEN s - stats.expected_next ELSE 0

\* SeqStats.observe: a jump ahead is a gap, a jump back is a reboot.
Gap(s) == IF stats.expected_next # None /\ s > stats.expected_next
          THEN s - stats.expected_next ELSE 0

BugObserveCountsFirst(s) ==
    [expected_next |-> s + 1,
     received |-> stats.received + 1,
     missed |-> stats.missed + (IF stats.expected_next = None THEN s - 1 ELSE Gap(s))]

Observe(s) ==
    [expected_next |-> s + 1,
     received |-> stats.received + 1,
     missed |-> stats.missed + Gap(s)]

\* _on_notify.
OnNotify ==
    /\ central = "session" /\ link # <<>>
    /\ LET n == Head(link) IN
        /\ stats' = Observe(n.seq)
        /\ first' = IF first = 0 THEN n.at ELSE first
        /\ firstBoot' = IF first = 0 THEN n.boot ELSE firstBoot
        /\ last' = n.at
    /\ link' = Tail(link)
    /\ published' = published + 1
    /\ UNCHANGED <<device, peer, central, produced, dropped>>

-----------------------------------------------------------------------------

Init ==
    /\ seq = 0 /\ boot = 0 /\ mode = "INFER"
    /\ peer = "none" /\ link = <<>>
    /\ central = "down" /\ stats = FreshStats /\ published = 0
    /\ produced = 0 /\ first = 0 /\ last = 0 /\ firstBoot = 0 /\ dropped = {}

Next ==
    \/ WindowSilent \/ WindowNotified \/ WindowDropped
    \/ Disconnect \/ Reboot
    \/ CaptureStarts \/ CaptureEnds \/ CaptureDies
    \/ Start \/ ScanFinds \/ ScanTimesOut \/ ScanRaises
    \/ Connects \/ SessionError \/ SessionEnds \/ Wakes \/ OnNotify

Spec == Init /\ [][Next]_vars

\* systemd restarts the process and its sleeps and polls end; a capture does not
\* last for ever; a scan or a connection attempt that is possible again and again
\* succeeds sometime.
Fairness ==
    /\ WF_vars(Start) /\ WF_vars(Wakes) /\ WF_vars(SessionEnds)
    /\ WF_vars(CaptureEnds \/ CaptureDies)
    /\ SF_vars(ScanFinds) /\ SF_vars(Connects)

FairSpec == Spec /\ Fairness

-----------------------------------------------------------------------------
(* Properties.                                                             *)

\* Type invariant.
TypeOK ==
    /\ seq \in 0 .. MaxWindows /\ boot \in 0 .. MaxBoots /\ produced \in 0 .. MaxWindows
    /\ mode \in {"INFER", "CAPTURE"}
    /\ peer \in {"none", "gateway", "capture"}
    /\ link \in Seq([seq : 1 .. MaxWindows, at : 1 .. MaxWindows, boot : 0 .. MaxBoots])
    /\ central \in {"down", "scanning", "connecting", "session", "sleeping"}
    /\ stats \in [expected_next : Nat, received : Nat, missed : Nat]
    /\ published \in Nat
    /\ first \in 0 .. produced /\ last \in 0 .. produced
    /\ firstBoot \in 0 .. boot
    /\ dropped \subseteq 1 .. produced

\* SeqStats never reports more than there was: what it received and what it says
\* it missed add up to no more than the windows the device computed between the
\* first and the last it received, however often the device rebooted, the link
\* broke or the capture tool cut in (ble_central.py:50-67).
MissedNeverInvented ==
    stats.received > 0 => stats.received + stats.missed <= last - first + 1

\* Within one boot of the device it reports exactly the windows it did not get,
\* across any number of reconnections.
MissedExactWithinBoot ==
    (stats.received > 0 /\ firstBoot = boot) =>
        stats.received + stats.missed = last - first + 1

\* ble_central.py:6, "Auto-reconnects on link drop": unless captures go on for
\* ever, the gateway is subscribed again and again, whatever drops, times out,
\* raises or reboots.
Reconnects == <>[](peer # "capture") => []<>Subscribed

\* ble_central.py:5, "dropped notifies surface as warnings": every notification
\* lost between two that arrived is counted in missed.
DroppedSurface ==
    Cardinality({i \in dropped : first < i /\ i < last}) <= stats.missed

\* ble_central.py:62 and 90 call what missed counts notifies: it counts no window
\* for which no notification was sent.
MissedWereSent ==
    stats.missed <= Cardinality({i \in dropped : first < i /\ i < last})
=============================================================================
