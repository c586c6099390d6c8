---------------------------- MODULE RawWindowLink ----------------------------
(***************************************************************************)
(* A capture session end to end: publishRawWindow                          *)
(* (firmware/nano33/src/ble_service.cpp) cuts each window into chunks and  *)
(* writes them to the raw_window characteristic without looking at the     *)
(* outcome; the BLE connection carries notifications in order and may lose *)
(* or cut them short; _on_chunk (ml/src/capture.py) pushes each into the   *)
(* assembler and keeps the windows it returns.                             *)
(*                                                                         *)
(* A window is identified by the value of gWindowSeq it is sent under: one *)
(* connection never outlives a boot of the device, so no number is used    *)
(* twice (2^32 windows of 0.27 s last 36 years).                           *)
(***************************************************************************)
EXTENDS WindowAssembler, Sequences

CONSTANTS
    MaxWindows,     \* bound on the windows of the session
    MaxInFlight     \* notifications the stack holds before writeValue blocks

ASSUME LinkAssumption ==
    /\ MaxWindows \in Nat
    /\ MaxInFlight \in Nat \ {0}
    /\ Windows = 1 .. MaxWindows
    /\ SeqOf = [w \in Windows |-> w]

VARIABLES
    gWindowSeq,    \* number of the window being sent, or sent last
    idx,           \* the loop's next chunk; TotalChunks when the loop is over
    session,       \* "scanning", "subscribed" (start_notify done) or "closed"
    link,          \* notifications in flight
    windows,       \* capture.py's windows and window_seqs
    lost,          \* history: windows that lost a chunk, in any way
    arrival        \* history: window -> times of its first and its last push

linkVars == <<gWindowSeq, idx, session, link, windows, lost, arrival>>
allVars == <<vars, linkVars>>

-----------------------------------------------------------------------------

LoopOver == IF gWindowSeq = 0 THEN TRUE ELSE idx = TotalChunks(gWindowSeq)

\* Entry of publishRawWindow.
PublishWindow ==
    /\ LoopOver
    /\ gWindowSeq < MaxWindows
    /\ gWindowSeq' = gWindowSeq + 1
    /\ idx' = 0
    /\ UNCHANGED <<vars, session, link, windows, lost, arrival>>

\* One turn of its loop, when the notification goes out in full ...
WriteChunk ==
    /\ ~LoopOver
    /\ session = "subscribed"
    /\ Len(link) < MaxInFlight
    /\ link' = Append(link, Frame(gWindowSeq, idx))
    /\ idx' = idx + 1
    /\ UNCHANGED <<vars, gWindowSeq, session, windows, lost, arrival>>

\* ... when it is cut at the MTU ...
WriteChunkCut ==
    /\ ~LoopOver
    /\ session = "subscribed"
    /\ Len(link) < MaxInFlight
    /\ link' = Append(link, Truncated(Frame(gWindowSeq, idx)))
    /\ idx' = idx + 1
    /\ lost' = lost \cup {gWindowSeq}
    /\ UNCHANGED <<vars, gWindowSeq, session, windows, arrival>>

\* ... and when nobody is subscribed or the stack drops it.
WriteChunkLost ==
    /\ ~LoopOver
    /\ idx' = idx + 1
    /\ lost' = lost \cup {gWindowSeq}
    /\ UNCHANGED <<vars, gWindowSeq, session, link, windows, arrival>>

\* _on_chunk.
OnChunk ==
    /\ link # <<>>
    /\ Push(Head(link))
    /\ link' = Tail(link)
    /\ windows' = IF result' = {} THEN windows
                  ELSE Append(windows, CHOOSE e \in result' : TRUE)
    /\ arrival' = LET w == Head(link).seq
                      first == IF w \in DOMAIN arrival THEN arrival[w][1] ELSE now
                  IN  Put(arrival, w, <<first, now>>)
    /\ UNCHANGED <<gWindowSeq, idx, session, lost>>

\* start_notify.
Subscribe ==
    /\ session = "scanning"
    /\ session' = "subscribed"
    /\ UNCHANGED <<vars, gWindowSeq, idx, link, windows, lost, arrival>>

\* The end of the connection: stop_notify at the deadline, or a disconnect.
\* Whatever is in flight is gone.
Close ==
    /\ session = "subscribed"
    /\ session' = "closed"
    /\ link' = <<>>
    /\ lost' = lost \cup {link[k].seq : k \in 1 .. Len(link)}
    /\ UNCHANGED <<vars, gWindowSeq, idx, windows, arrival>>

LinkTick == Tick /\ UNCHANGED linkVars

LinkInit ==
    /\ Init
    /\ gWindowSeq = 0 /\ idx = 0
    /\ session = "scanning"
    /\ link = <<>> /\ windows = <<>>
    /\ lost = {} /\ arrival = [w \in {} |-> 0]

LinkNext ==
    \/ PublishWindow \/ WriteChunk \/ WriteChunkCut \/ WriteChunkLost
    \/ OnChunk \/ Subscribe \/ Close \/ LinkTick

LinkSpec == LinkInit /\ [][LinkNext]_allVars

-----------------------------------------------------------------------------
(* Properties.                                                             *)

Before(s, i, t, j) == s < t \/ (s = t /\ i < j)

\* Type invariant of the sending side and the connection.
LinkTypeOK ==
    /\ TypeOK
    /\ gWindowSeq \in 0 .. MaxWindows
    /\ gWindowSeq = 0 => idx = 0
    /\ gWindowSeq > 0 => idx \in 0 .. TotalChunks(gWindowSeq)
    /\ session \in {"scanning", "subscribed", "closed"}
    /\ link \in Seq(Frames \cup {Truncated(f) : f \in Frames})
    /\ lost \subseteq 1 .. gWindowSeq

\* What a captured window is: its number when its chunks are exactly those of
\* that window, else 0, the number of no window.
Identify(e) ==
    IF /\ e.seq \in Windows
       /\ DOMAIN e.parts = 0 .. TotalChunks(e.seq) - 1
       /\ \A i \in DOMAIN e.parts : e.parts[i].data = Payload(e.seq, i)
    THEN e.seq
    ELSE 0

\* The session implements the promise: what reaches `windows' is whole, was
\* published, in order and at most once, so that window_seqs in the parquet file
\* is strictly increasing (capture.py:100-102, 155).
Delivery == INSTANCE WindowDelivery
              WITH published <- gWindowSeq,
                   delivered <- [k \in 1 .. Len(windows) |-> Identify(windows[k])]

ImplementsDelivery == Delivery!DSpec

\* A window whose chunks have all been sent and have left the link.
Settled(w) ==
    /\ w < gWindowSeq \/ (w = gWindowSeq /\ LoopOver)
    /\ \A k \in 1 .. Len(link) : link[k].seq # w

Captured(w) == \E k \in 1 .. Len(windows) : windows[k].seq = w

\* A window is captured exactly when none of its chunks was lost and they came in
\* within the TTL of each other: nothing else, such as the remains of an earlier
\* window or a collection in mid-window, costs a capture session a window.
CapturedIffIntact ==
    \A w \in 1 .. gWindowSeq :
        Settled(w) =>
            (Captured(w) <=> /\ w \notin lost
                             /\ arrival[w][2] - arrival[w][1] <= Ttl)

\* The buffer never holds more windows than lost a chunk, overran the TTL or are
\* still arriving: pending() does not grow with the windows received intact.
PendingOnlyBroken ==
    \A s \in DOMAIN buf :
        \/ s \in lost
        \/ ~Settled(s)
        \/ arrival[s][2] - arrival[s][1] > Ttl
=============================================================================
