--------------------------- MODULE WindowAssembler ---------------------------
(***************************************************************************)
(* The receiving half of the raw-window protocol (ADR-0004):               *)
(* ml/src/raw_window.py, class WindowAssembler.  Frames arrive in any      *)
(* order, any number of times, or never; `push' buffers their chunks per   *)
(* window_seq and returns a window once it holds all of its chunks.        *)
(*                                                                         *)
(* Samples are abstracted to where they come from: a payload is the range  *)
(* of samples [first, first + len) of one physical window.  Two physical   *)
(* windows may carry the same window_seq (SeqOf need not be injective): a  *)
(* device that reboots, or runs firmware with another window size, counts  *)
(* from 1 again while the assembler still holds chunks of its last run.    *)
(***************************************************************************)
EXTENDS Integers, FiniteSets

CONSTANTS
    SamplesPerChunk,   \* SAMPLES_PER_CHUNK
    Windows,           \* the physical windows that devices encode
    Size,              \* samples of each window
    SeqOf,             \* window_seq each window is sent under
    Ttl,               \* ttl_s, in clock ticks
    MaxTime            \* bound on the clock

ASSUME AssemblerAssumption ==
    /\ SamplesPerChunk \in Nat \ {0}
    /\ Size \in [Windows -> Nat \ {0}]
    /\ SeqOf \in [Windows -> Nat]
    /\ Ttl \in Nat
    /\ MaxTime \in Nat

VARIABLES
    now,       \* the monotonic clock behind self._now
    buf,       \* self._buf: window_seq -> entry
    result     \* what the last push returned: {} for None, else the one window

vars == <<now, buf, result>>

-----------------------------------------------------------------------------
(* Frames: encode_window and publishRawWindow cut a window the same way.   *)

\* Ceiling division: number of chunks of a window.
TotalChunks(w) == (Size[w] + SamplesPerChunk - 1) \div SamplesPerChunk

\* Every chunk is full but the last, which takes what is left.
SamplesIn(w, i) ==
    IF (i + 1) * SamplesPerChunk > Size[w]
    THEN Size[w] - i * SamplesPerChunk
    ELSE SamplesPerChunk

Payload(w, i) == [win |-> w, first |-> i * SamplesPerChunk, len |-> SamplesIn(w, i)]

Frame(w, i) ==
    [seq |-> SeqOf[w], idx |-> i, total |-> TotalChunks(w),
     samples |-> SamplesIn(w, i), payload |-> Payload(w, i)]

\* A link whose MTU is too small cuts the end off a notification.
Truncated(f) == [f EXCEPT !.payload.len = f.samples - 1]

Frames == UNION {{Frame(w, i) : i \in 0 .. TotalChunks(w) - 1} : w \in Windows}

-----------------------------------------------------------------------------
(* The buffer.                                                             *)

Put(f, k, v) == [x \in DOMAIN f \cup {k} |-> IF x = k THEN v ELSE f[x]]
Drop(f, k) == [x \in DOMAIN f \ {k} |-> f[x]]
NoChunks == [i \in {} |-> 0]

\* Definitions named Bug... are plausible mistakes in the definition that follows
\* them.  No action uses them: they are put in its place to see that the
\* properties notice.
BugLiveNoGc == buf
BugLiveStrict == [s \in {s \in DOMAIN buf : now - buf[s].first_seen < Ttl} |-> buf[s]]

\* _gc: an entry is stale when it is strictly older than the TTL.
Live == [s \in {s \in DOMAIN buf : now - buf[s].first_seen <= Ttl} |-> buf[s]]

Accepted(f) == f.payload.len = f.samples /\ f.idx < f.total

BugEntrySlidingTtl(f) ==
    IF f.seq \in DOMAIN Live /\ Live[f.seq].total = f.total
    THEN [Live[f.seq] EXCEPT !.first_seen = now]
    ELSE [total |-> f.total, chunks |-> NoChunks, first_seen |-> now]

\* The entry a frame goes to: the live one, or a fresh one when there is none
\* or the frame disagrees with it about the number of chunks.
Entry(f) ==
    IF f.seq \in DOMAIN Live /\ Live[f.seq].total = f.total
    THEN Live[f.seq]
    ELSE [total |-> f.total, chunks |-> NoChunks, first_seen |-> now]

\* The entry with the frame's chunk in its place.  The stored chunk carries the
\* time of the push, which only the properties read.
Filled(f) ==
    [Entry(f) EXCEPT !.chunks = Put(@, f.idx, [data |-> f.payload, at |-> now])]

BugFullBeforeInsert(f) == Cardinality(DOMAIN Entry(f).chunks) = f.total
BugFullOnLastChunk(f) == f.idx = f.total - 1

Full(f) == Cardinality(DOMAIN Filled(f).chunks) = f.total

-----------------------------------------------------------------------------
(* push, one action per way it returns.                                    *)

Reject(f) ==
    /\ ~Accepted(f)
    /\ result' = {}
    /\ UNCHANGED <<now, buf>>

Buffer(f) ==
    /\ Accepted(f)
    /\ ~Full(f)
    /\ buf' = Put(Live, f.seq, Filled(f))
    /\ result' = {}
    /\ UNCHANGED now

BugCompleteKeepsEntry(f) ==
    /\ Accepted(f)
    /\ Full(f)
    /\ buf' = Put(Live, f.seq, Filled(f))
    /\ result' = {[seq |-> f.seq, parts |-> Filled(f).chunks]}
    /\ UNCHANGED now

\* The code lists chunks[i] for i in range(total); EmittedWhole is what makes
\* that the same as taking every buffered chunk.
Complete(f) ==
    /\ Accepted(f)
    /\ Full(f)
    /\ buf' = Drop(Live, f.seq)
    /\ result' = {[seq |-> f.seq, parts |-> Filled(f).chunks]}
    /\ UNCHANGED now

Push(f) == Reject(f) \/ Buffer(f) \/ Complete(f)

Tick == now < MaxTime /\ now' = now + 1 /\ UNCHANGED <<buf, result>>

Init == now = 0 /\ buf = [s \in {} |-> 0] /\ result = {}

Next ==
    \/ \E f \in Frames : Push(f) \/ Push(Truncated(f))
    \/ Tick

Spec == Init /\ [][Next]_vars

-----------------------------------------------------------------------------
(* Properties.                                                             *)

\* Chunk i of a window that is sent as s in `total' chunks.
ChunkOf(s, total, i, data) ==
    \E w \in Windows : /\ SeqOf[w] = s
                       /\ TotalChunks(w) = total
                       /\ i \in 0 .. total - 1
                       /\ data = Payload(w, i)

\* Type invariant: the clock, and an entry per sequence number some window uses.
TypeOK ==
    /\ now \in 0 .. MaxTime
    /\ DOMAIN buf \subseteq {SeqOf[w] : w \in Windows}
    /\ \A s \in DOMAIN buf :
         /\ buf[s] = [total |-> buf[s].total, chunks |-> buf[s].chunks,
                      first_seen |-> buf[s].first_seen]
         /\ buf[s].total \in Nat \ {0}
         /\ buf[s].first_seen \in 0 .. now
         /\ \A i \in DOMAIN buf[s].chunks :
              /\ i \in Nat
              /\ buf[s].chunks[i].at \in buf[s].first_seen .. now

\* ADR-0004 rules 1 and 3: all chunks of an entry belong to windows sent under
\* its number and in its number of chunks, each in its own place.  Without the
\* reset on a changed total (raw_window.py:87) chunks of two layouts would meet
\* in one entry.
EntriesHomogeneous ==
    \A s \in DOMAIN buf : \A i \in DOMAIN buf[s].chunks :
        ChunkOf(s, buf[s].total, i, buf[s].chunks[i].data)

\* A window that is complete never waits in the buffer: `pending' counts only
\* windows that miss a chunk.
PendingMissesAChunk ==
    \A s \in DOMAIN buf : DOMAIN buf[s].chunks # 0 .. buf[s].total - 1

\* ADR-0004 rule 2.  What push returns holds every chunk 0 .. total-1, each in
\* its place: the list at raw_window.py:96 raises no KeyError and leaves no
\* buffered chunk out, and counting the chunks (line 95) is enough to know it.
EmittedWhole ==
    \A e \in result : \E w \in Windows :
        /\ DOMAIN e.parts = 0 .. TotalChunks(w) - 1
        /\ \A i \in DOMAIN e.parts :
             ChunkOf(e.seq, TotalChunks(w), i, e.parts[i].data)

\* Two chunks of an emitted window were pushed at most the TTL apart, so a
\* window_seq that comes back later than that (a rebooted device) is never
\* joined to what was left of its previous use.
EmittedFresh ==
    \A e \in result : \A i, j \in DOMAIN e.parts :
        e.parts[i].at - e.parts[j].at <= Ttl

\* ADR-0004 rule 4: after a push that touches the buffer no entry is older than
\* the TTL (line 84 collects before the lookup).
NothingStaleAfterPush ==
    [][buf' # buf => \A s \in DOMAIN buf' : now - buf'[s].first_seen <= Ttl]_vars
=============================================================================
