------------------------- MODULE RawWindowLinkProofs -------------------------
(***************************************************************************)
(* First the assembler: its properties hold for every set of windows,      *)
(* every numbering, every chunk size and every TTL.  IInv is the           *)
(* conjunction of its state properties: none of them is inductive alone,   *)
(* since what is emitted is sound only because the entries are.            *)
(*                                                                         *)
(* Then the session: it implements WindowDelivery, for any number of       *)
(* windows of any sizes, any TTL and any pattern of loss.  The argument:   *)
(* frames leave the device in lexicographic order of (window, chunk), the  *)
(* link keeps a subsequence of that order, and so whatever is buffered or  *)
(* captured lies behind whatever is still in flight.                       *)
(*                                                                         *)
(* Last, what becomes of each window.  A lost one misses a chunk that is   *)
(* neither buffered nor to come, so it is never captured; of an intact one *)
(* each chunk is still to come or buffered until it is captured, and its   *)
(* entry is as old as its first arrival, so that only the TTL can cost it. *)
(***************************************************************************)
EXTENDS RawWindowLink, FiniteSetTheorems, SequenceTheorems, TLAPS

-----------------------------------------------------------------------------
(* The assembler.                                                          *)

IInv == /\ TypeOK
        /\ EntriesHomogeneous
        /\ PendingMissesAChunk
        /\ EmittedWhole
        /\ EmittedFresh

\* A window has at least one chunk, so total_chunks is never 0 on the wire.
LEMMA TotalChunksPositive ==
    ASSUME NEW w \in Windows
    PROVE  TotalChunks(w) \in Nat \ {0}
<1>1. Size[w] \in Nat \ {0} /\ SamplesPerChunk \in Nat \ {0}
  BY AssemblerAssumption
<1>2. ASSUME NEW n \in Nat, NEW k \in Nat \ {0}, n >= k
      PROVE  n \div k \in Nat \ {0}
  BY <1>2, Z3
<1>3. QED
  BY <1>1, <1>2 DEF TotalChunks

\* An accepted frame is one that some window was cut into: truncation always
\* shows in the payload's length.
LEMMA AcceptedFrame ==
    ASSUME NEW g \in Frames, NEW f \in {g, Truncated(g)}, Accepted(f)
    PROVE  \E w \in Windows : \E i \in 0 .. TotalChunks(w) - 1 : f = Frame(w, i)
<1>1. PICK w \in Windows : \E i \in 0 .. TotalChunks(w) - 1 : g = Frame(w, i)
  BY DEF Frames
<1>2. PICK i \in 0 .. TotalChunks(w) - 1 : g = Frame(w, i)
  BY <1>1
<1>3. TotalChunks(w) \in Nat
  BY TotalChunksPositive
<1>4. SamplesIn(w, i) \in Int
  BY <1>3, AssemblerAssumption DEF SamplesIn
<1>5. f # Truncated(g)
  <2>1. SUFFICES ASSUME f = Truncated(g) PROVE FALSE
    OBVIOUS
  <2>2. f.samples = SamplesIn(w, i) /\ f.payload.len = SamplesIn(w, i) - 1
    BY <1>2, <2>1 DEF Truncated, Frame, Payload
  <2>3. QED
    BY <2>2, <1>4 DEF Accepted
<1>6. QED
  BY <1>2, <1>5

\* What an accepted frame is put into is a sound entry no older than the TTL,
\* and its own chunk joins it without disturbing the others.
LEMMA FilledSound ==
    ASSUME IInv,
           NEW w \in Windows, NEW i \in 0 .. TotalChunks(w) - 1,
           NEW f, f = Frame(w, i)
    PROVE  LET e == Filled(f) IN
           /\ e = [total |-> e.total, chunks |-> e.chunks, first_seen |-> e.first_seen]
           /\ e.total = TotalChunks(w)
           /\ e.first_seen \in 0 .. now
           /\ now - e.first_seen <= Ttl
           /\ \A j \in DOMAIN e.chunks :
                /\ j \in 0 .. TotalChunks(w) - 1
                /\ e.chunks[j].at \in e.first_seen .. now
                /\ ChunkOf(SeqOf[w], TotalChunks(w), j, e.chunks[j].data)
<1> DEFINE s == SeqOf[w]
           n == TotalChunks(w)
<1>1. n \in Nat \ {0}
  BY TotalChunksPositive
<1>2. f.seq = s /\ f.idx = i /\ f.total = n /\ f.payload = Payload(w, i)
  BY DEF Frame
<1>3. now \in Nat /\ Ttl \in Nat
  BY AssemblerAssumption DEF IInv, TypeOK
<1>4. /\ Entry(f) = [total |-> Entry(f).total, chunks |-> Entry(f).chunks,
                     first_seen |-> Entry(f).first_seen]
      /\ Entry(f).total = n
      /\ Entry(f).first_seen \in 0 .. now
      /\ now - Entry(f).first_seen <= Ttl
      /\ \A j \in DOMAIN Entry(f).chunks :
           /\ j \in 0 .. n - 1
           /\ Entry(f).chunks[j].at \in Entry(f).first_seen .. now
           /\ ChunkOf(s, n, j, Entry(f).chunks[j].data)
  <2>1. CASE s \in DOMAIN Live /\ Live[s].total = n
    <3>1. s \in DOMAIN buf /\ Live[s] = buf[s] /\ now - buf[s].first_seen <= Ttl
      BY <2>1 DEF Live
    <3>2. Entry(f) = buf[s]
      BY <2>1, <3>1, <1>2 DEF Entry
    <3>3. buf[s].total = n
      BY <2>1, <3>1
    <3>4. \A j \in DOMAIN buf[s].chunks : ChunkOf(s, n, j, buf[s].chunks[j].data)
      BY <3>1, <3>3 DEF IInv, EntriesHomogeneous
    <3>5. \A j \in DOMAIN buf[s].chunks : j \in 0 .. n - 1
      BY <3>4 DEF ChunkOf
    <3>6. QED
      BY <3>1, <3>2, <3>3, <3>4, <3>5 DEF IInv, TypeOK
  <2>2. CASE ~(s \in DOMAIN Live /\ Live[s].total = n)
    <3>1. Entry(f) = [total |-> n, chunks |-> NoChunks, first_seen |-> now]
      BY <2>2, <1>2 DEF Entry
    <3>2. DOMAIN NoChunks = {}
      BY DEF NoChunks
    <3>3. QED
      BY <3>1, <3>2, <1>3
  <2>3. QED
    BY <2>1, <2>2
<1>5. Filled(f) = [total |-> n,
                   chunks |-> Put(Entry(f).chunks, i,
                                  [data |-> Payload(w, i), at |-> now]),
                   first_seen |-> Entry(f).first_seen]
  BY <1>2, <1>4 DEF Filled
<1>6. ChunkOf(s, n, i, Payload(w, i))
  BY DEF ChunkOf
<1>7. QED
  BY <1>1, <1>3, <1>4, <1>5, <1>6 DEF Put

\* Buffering a chunk that does not complete its window.
LEMMA BufferPreserves ==
    ASSUME IInv,
           NEW w \in Windows, NEW i \in 0 .. TotalChunks(w) - 1,
           Buffer(Frame(w, i))
    PROVE  IInv'
<1> DEFINE f == Frame(w, i)
           n == TotalChunks(w)
<1>1. n \in Nat \ {0}
  BY TotalChunksPositive
<1>2. f.seq = SeqOf[w] /\ f.total = n
  BY DEF Frame
<1>3. /\ Filled(f) = [total |-> n, chunks |-> Filled(f).chunks,
                      first_seen |-> Filled(f).first_seen]
      /\ Filled(f).total = n
      /\ Filled(f).first_seen \in 0 .. now
      /\ \A j \in DOMAIN Filled(f).chunks :
           /\ j \in 0 .. n - 1
           /\ Filled(f).chunks[j].at \in Filled(f).first_seen .. now
           /\ ChunkOf(SeqOf[w], n, j, Filled(f).chunks[j].data)
  BY FilledSound
<1>4. buf' = Put(Live, f.seq, Filled(f)) /\ result' = {} /\ now' = now
  BY DEF Buffer
<1>5. /\ DOMAIN buf' \subseteq DOMAIN buf \cup {SeqOf[w]}
      /\ SeqOf[w] \in DOMAIN buf'
      /\ buf'[SeqOf[w]] = Filled(f)
      /\ \A s \in DOMAIN buf' : s # SeqOf[w] => s \in DOMAIN buf /\ buf'[s] = buf[s]
  BY <1>2, <1>4 DEF Put, Live
<1>6. TypeOK'
  <2>1. DOMAIN buf' \subseteq {SeqOf[v] : v \in Windows}
    BY <1>5 DEF IInv, TypeOK
  <2>2. QED
    BY <1>1, <1>3, <1>4, <1>5, <2>1 DEF IInv, TypeOK
<1>7. EntriesHomogeneous'
  BY <1>3, <1>5 DEF IInv, EntriesHomogeneous, ChunkOf
<1>8. PendingMissesAChunk'
  <2>1. Cardinality(DOMAIN Filled(f).chunks) # n
    BY <1>2 DEF Buffer, Full
  <2>2. DOMAIN Filled(f).chunks # 0 .. n - 1
    BY <1>1, <2>1, FS_Interval
  <2>3. QED
    BY <1>3, <1>5, <2>2 DEF IInv, PendingMissesAChunk
<1>9. EmittedWhole' /\ EmittedFresh'
  BY <1>4 DEF EmittedWhole, EmittedFresh
<1>10. QED
  BY <1>6, <1>7, <1>8, <1>9 DEF IInv

\* Completing a window: as many chunks as the total, all below the total, are
\* all the chunks there are.
LEMMA CompletePreserves ==
    ASSUME IInv,
           NEW w \in Windows, NEW i \in 0 .. TotalChunks(w) - 1,
           Complete(Frame(w, i))
    PROVE  IInv'
<1> DEFINE f == Frame(w, i)
           n == TotalChunks(w)
           c == Filled(f).chunks
<1>1. n \in Nat \ {0}
  BY TotalChunksPositive
<1>2. f.seq = SeqOf[w] /\ f.total = n
  BY DEF Frame
<1>3. /\ Filled(f).first_seen \in 0 .. now
      /\ now - Filled(f).first_seen <= Ttl
      /\ \A j \in DOMAIN c :
           /\ j \in 0 .. n - 1
           /\ c[j].at \in Filled(f).first_seen .. now
           /\ ChunkOf(SeqOf[w], n, j, c[j].data)
  BY FilledSound
<1>4. /\ buf' = Drop(Live, f.seq)
      /\ result' = {[seq |-> f.seq, parts |-> c]}
      /\ now' = now
  BY DEF Complete
<1>5. /\ DOMAIN buf' \subseteq DOMAIN buf
      /\ \A s \in DOMAIN buf' : buf'[s] = buf[s]
  BY <1>4 DEF Drop, Live
<1>6. TypeOK'
  BY <1>4, <1>5 DEF IInv, TypeOK
<1>7. EntriesHomogeneous' /\ PendingMissesAChunk'
  BY <1>5 DEF IInv, EntriesHomogeneous, PendingMissesAChunk, ChunkOf
<1>8. EmittedWhole'
  <2>1. Cardinality(DOMAIN c) = n
    BY <1>2 DEF Complete, Full
  <2>2. IsFiniteSet(0 .. n - 1) /\ Cardinality(0 .. n - 1) = n
    BY <1>1, FS_Interval
  <2>3. DOMAIN c \in SUBSET (0 .. n - 1)
    BY <1>3
  <2>4. DOMAIN c = 0 .. n - 1
    BY <2>1, <2>2, <2>3, FS_Subset
  <2>5. \A e \in result' : e.seq = SeqOf[w] /\ e.parts = c
    BY <1>2, <1>4
  <2>6. \A j \in DOMAIN c : ChunkOf(SeqOf[w], TotalChunks(w), j, c[j].data)
    BY <1>3
  <2>7. SUFFICES ASSUME NEW e \in result'
                 PROVE  \E v \in Windows :
                          /\ DOMAIN e.parts = 0 .. TotalChunks(v) - 1
                          /\ \A j \in DOMAIN e.parts :
                               ChunkOf(e.seq, TotalChunks(v), j, e.parts[j].data)
    BY DEF EmittedWhole, ChunkOf
  <2>8. QED
    BY <2>4, <2>5, <2>6
<1>9. EmittedFresh'
  <2>1. now \in Nat /\ Ttl \in Nat
    BY AssemblerAssumption DEF IInv, TypeOK
  <2>2. \A j, k \in DOMAIN c : c[j].at - c[k].at <= Ttl
    BY <1>3, <2>1
  <2>3. QED
    BY <1>4, <2>2 DEF EmittedFresh
<1>10. QED
  BY <1>6, <1>7, <1>8, <1>9 DEF IInv

\* An assembler starts empty.
LEMMA InitIInv == Init => IInv
  BY AssemblerAssumption
     DEF Init, IInv, TypeOK, EntriesHomogeneous, PendingMissesAChunk,
         EmittedWhole, EmittedFresh

\* Every push and every tick keeps the inductive invariant.
LEMMA NextIInv == IInv /\ [Next]_vars => IInv'
<1> SUFFICES ASSUME IInv, [Next]_vars PROVE IInv'
  OBVIOUS
<1>1. ASSUME NEW g \in Frames, NEW f \in {g, Truncated(g)}, Push(f)
      PROVE  IInv'
  <2>1. CASE Reject(f)
    BY <2>1 DEF Reject, IInv, TypeOK, EntriesHomogeneous, PendingMissesAChunk,
                EmittedWhole, EmittedFresh
  <2>2. CASE Buffer(f) \/ Complete(f)
    <3>1. Accepted(f)
      BY <2>2 DEF Buffer, Complete
    <3>2. PICK w \in Windows : \E i \in 0 .. TotalChunks(w) - 1 : f = Frame(w, i)
      BY <3>1, AcceptedFrame
    <3>3. QED
      BY <2>2, <3>2, BufferPreserves, CompletePreserves
  <2>3. QED
    BY <1>1, <2>1, <2>2 DEF Push
<1>2. CASE Tick
  <2>1. buf' = buf /\ result' = result /\ now' = now + 1 /\ now < MaxTime
    BY <1>2 DEF Tick
  <2>2. TypeOK'
    <3>1. now' \in 0 .. MaxTime /\ \A t \in 0 .. now : 0 .. now \subseteq 0 .. now'
      BY <2>1, AssemblerAssumption DEF IInv, TypeOK
    <3>2. ASSUME NEW s \in DOMAIN buf, NEW i \in DOMAIN buf[s].chunks
          PROVE  buf[s].chunks[i].at \in buf[s].first_seen .. now'
      BY <2>1 DEF IInv, TypeOK
    <3>3. QED
      BY <2>1, <3>1, <3>2 DEF IInv, TypeOK
  <2>3. (EntriesHomogeneous /\ PendingMissesAChunk /\ EmittedWhole /\ EmittedFresh)'
    BY <2>1 DEF IInv, EntriesHomogeneous, PendingMissesAChunk, EmittedWhole,
                EmittedFresh, ChunkOf
  <2>4. QED
    BY <2>2, <2>3 DEF IInv
<1>3. CASE UNCHANGED vars
  BY <1>3 DEF vars, IInv, TypeOK, EntriesHomogeneous, PendingMissesAChunk,
              EmittedWhole, EmittedFresh
<1>4. QED
  BY <1>1, <1>2, <1>3 DEF Next

\* Every reachable state satisfies the inductive invariant.
THEOREM Invariance == Spec => []IInv
<1>1. QED
  BY InitIInv, NextIInv, PTL DEF Spec

\* The clock stays in range and the buffer keeps the shape of a dict of entries.
THEOREM TypeCorrect == Spec => []TypeOK
<1>1. IInv => TypeOK
  BY DEF IInv
<1>2. QED
  BY <1>1, Invariance, PTL

\* ADR-0004 rules 1 and 3, for every set of windows: entries never mix layouts.
THEOREM Homogeneous == Spec => []EntriesHomogeneous
<1>1. IInv => EntriesHomogeneous
  BY DEF IInv
<1>2. QED
  BY <1>1, Invariance, PTL

\* A complete window never stays behind in the buffer.
THEOREM CompleteIsEmitted == Spec => []PendingMissesAChunk
<1>1. IInv => PendingMissesAChunk
  BY DEF IInv
<1>2. QED
  BY <1>1, Invariance, PTL

\* ADR-0004 rule 2: every emitted window holds each of its chunks in its place,
\* so indexing them by range(total) raises no KeyError.
THEOREM WholeWindows == Spec => []EmittedWhole
<1>1. IInv => EmittedWhole
  BY DEF IInv
<1>2. QED
  BY <1>1, Invariance, PTL

\* No window joins chunks that were pushed further apart than the TTL.
THEOREM FreshWindows == Spec => []EmittedFresh
<1>1. IInv => EmittedFresh
  BY DEF IInv
<1>2. QED
  BY <1>1, Invariance, PTL

\* ADR-0004 rule 4: whatever push does to the buffer, nothing stale is left.
THEOREM StaleCollected == Spec => NothingStaleAfterPush
<1>1. IInv /\ [Next]_vars =>
        [buf' # buf => \A s \in DOMAIN buf' : now - buf'[s].first_seen <= Ttl]_vars
  <2> SUFFICES ASSUME IInv, Next, buf' # buf, NEW s \in DOMAIN buf'
               PROVE  now - buf'[s].first_seen <= Ttl
    BY DEF vars
  <2>1. PICK g \in Frames : Push(g) \/ Push(Truncated(g))
    BY DEF Next, Tick
  <2>2. PICK f \in {g, Truncated(g)} : Buffer(f) \/ Complete(f)
    BY <2>1 DEF Push, Reject
  <2>3. PICK w \in Windows : \E i \in 0 .. TotalChunks(w) - 1 : f = Frame(w, i)
    BY <2>2, AcceptedFrame DEF Buffer, Complete
  <2>4. now - Filled(f).first_seen <= Ttl
    BY <2>3, FilledSound
  <2>5. ASSUME NEW t \in DOMAIN Live PROVE now - Live[t].first_seen <= Ttl
    BY <2>5 DEF Live
  <2>6. CASE Buffer(f)
    BY <2>4, <2>5, <2>6 DEF Buffer, Put
  <2>7. CASE Complete(f)
    BY <2>5, <2>7 DEF Complete, Drop
  <2>8. QED
    BY <2>2, <2>6, <2>7
<1>2. QED
  BY <1>1, Invariance, PTL DEF Spec, NothingStaleAfterPush

-----------------------------------------------------------------------------
(* The session.                                                            *)

\* What is in flight is sorted and lies behind the sender's position.
LinkSorted ==
    /\ \A k, l \in 1 .. Len(link) :
         k < l => Before(link[k].seq, link[k].idx, link[l].seq, link[l].idx)
    /\ \A k \in 1 .. Len(link) : Before(link[k].seq, link[k].idx, gWindowSeq, idx)

\* What is buffered lies behind what is in flight.
BufferBehind ==
    \A s \in DOMAIN buf : \A i \in DOMAIN buf[s].chunks :
        /\ Before(s, i, gWindowSeq, idx)
        /\ \A k \in 1 .. Len(link) : Before(s, i, link[k].seq, link[k].idx)

\* What is captured is whole, sorted, and lies behind what is in flight.
CapturedBehind ==
    /\ \E S : windows \in Seq(S)
    /\ \A k \in 1 .. Len(windows) :
         /\ windows[k].seq \in 1 .. gWindowSeq
         /\ Identify(windows[k]) = windows[k].seq
         /\ \A l \in 1 .. Len(link) : windows[k].seq < link[l].seq
         /\ windows[k].seq = gWindowSeq => idx = TotalChunks(gWindowSeq)
    /\ \A k, l \in 1 .. Len(windows) : k < l => windows[k].seq < windows[l].seq

LinkInv == LinkTypeOK /\ IInv /\ LinkSorted /\ BufferBehind /\ CapturedBehind

Notifications == Frames \cup {Truncated(f) : f \in Frames}

\* The header of a notification names a window and one of its chunks.
LEMMA HeaderInRange ==
    ASSUME NEW f \in Notifications
    PROVE  /\ f.seq \in Windows
           /\ f.seq \in Nat \ {0}
           /\ f.idx \in 0 .. TotalChunks(f.seq) - 1
           /\ TotalChunks(f.seq) \in Nat \ {0}
<1>1. PICK g \in Frames : f \in {g, Truncated(g)}
  BY DEF Notifications
<1>2. PICK w \in Windows : \E i \in 0 .. TotalChunks(w) - 1 : g = Frame(w, i)
  BY <1>1 DEF Frames
<1>3. PICK i \in 0 .. TotalChunks(w) - 1 : g = Frame(w, i)
  BY <1>2
<1>4. g.seq = w /\ g.idx = i
  BY <1>3, LinkAssumption DEF Frame
<1>5. Truncated(g).seq = w /\ Truncated(g).idx = i
  BY <1>3, <1>4 DEF Truncated, Frame
<1>6. w \in Nat \ {0}
  BY LinkAssumption
<1>7. QED
  BY <1>1, <1>4, <1>5, <1>6, TotalChunksPositive

\* The frame a sender with work left writes.
LEMMA SenderFrame ==
    ASSUME LinkTypeOK, ~LoopOver
    PROVE  /\ gWindowSeq \in Windows
           /\ idx \in 0 .. TotalChunks(gWindowSeq) - 1
           /\ Frame(gWindowSeq, idx) \in Frames
           /\ Frame(gWindowSeq, idx).seq = gWindowSeq
           /\ Frame(gWindowSeq, idx).idx = idx
           /\ Truncated(Frame(gWindowSeq, idx)).seq = gWindowSeq
           /\ Truncated(Frame(gWindowSeq, idx)).idx = idx
<1>1. gWindowSeq \in Windows /\ gWindowSeq # 0
  BY LinkAssumption DEF LinkTypeOK, LoopOver
<1>2. TotalChunks(gWindowSeq) \in Nat \ {0}
  BY <1>1, TotalChunksPositive
<1>3. idx \in 0 .. TotalChunks(gWindowSeq) - 1
  BY <1>1, <1>2, LinkAssumption DEF LinkTypeOK, LoopOver
<1>4. Frame(gWindowSeq, idx) \in Frames
  BY <1>1, <1>3 DEF Frames
<1>5. Frame(gWindowSeq, idx).seq = gWindowSeq /\ Frame(gWindowSeq, idx).idx = idx
  BY <1>1, LinkAssumption DEF Frame
<1>6. /\ Truncated(Frame(gWindowSeq, idx)).seq = gWindowSeq
      /\ Truncated(Frame(gWindowSeq, idx)).idx = idx
  BY <1>5 DEF Truncated, Frame
<1>7. QED
  BY <1>1, <1>3, <1>4, <1>5, <1>6

\* What the assembler does in a step of the session is a step of its own.
LEMMA AssemblerStep ==
    ASSUME LinkTypeOK, [LinkNext]_allVars
    PROVE  [Next]_vars
<1>1. CASE OnChunk
  <2>1. Head(link) \in Notifications
    BY <1>1 DEF OnChunk, LinkTypeOK, Notifications
  <2>2. \E f \in Frames : Push(f) \/ Push(Truncated(f))
    BY <1>1, <2>1 DEF OnChunk, Notifications
  <2>3. QED
    BY <2>2 DEF Next
<1>2. CASE LinkTick
  BY <1>2 DEF LinkTick, Next
<1>3. CASE \/ PublishWindow \/ WriteChunk \/ WriteChunkCut \/ WriteChunkLost
           \/ Subscribe \/ Close \/ UNCHANGED allVars
  BY <1>3 DEF PublishWindow, WriteChunk, WriteChunkCut, WriteChunkLost, Subscribe,
              Close, allVars, vars
<1>4. QED
  BY <1>1, <1>2, <1>3 DEF LinkNext

\* Filling an entry adds the frame's own index and no other.
LEMMA FilledDomain ==
    ASSUME TypeOK, NEW f
    PROVE  DOMAIN Filled(f).chunks = DOMAIN Entry(f).chunks \cup {f.idx}
<1>1. CASE f.seq \in DOMAIN Live /\ Live[f.seq].total = f.total
  <2>1. f.seq \in DOMAIN buf /\ Entry(f) = buf[f.seq]
    BY <1>1 DEF Entry, Live
  <2>2. buf[f.seq] = [total |-> buf[f.seq].total, chunks |-> buf[f.seq].chunks,
                      first_seen |-> buf[f.seq].first_seen]
    BY <2>1 DEF TypeOK
  <2>3. QED
    BY <2>1, <2>2 DEF Filled, Put
<1>2. CASE ~(f.seq \in DOMAIN Live /\ Live[f.seq].total = f.total)
  BY <1>2 DEF Entry, Filled, Put
<1>3. QED
  BY <1>1, <1>2

\* A completed window has a place of its own in the promise: it is whole, and the
\* chunk that completed it was its last.
LEMMA CompletedWindow ==
    ASSUME LinkInv, IInv', link # <<>>, Complete(Head(link)),
           NEW e \in result'
    PROVE  /\ e.seq = Head(link).seq
           /\ result' = {e}
           /\ Identify(e) = e.seq
           /\ Head(link).idx = TotalChunks(e.seq) - 1
<1> DEFINE f == Head(link)
<1>1. /\ f \in Notifications
      /\ f.seq \in Windows
      /\ f.seq \in Nat \ {0}
      /\ f.idx \in 0 .. TotalChunks(f.seq) - 1
      /\ TotalChunks(f.seq) \in Nat \ {0}
  <2>1. f \in Notifications
    BY DEF LinkInv, LinkTypeOK, Notifications
  <2>2. QED
    BY <2>1, HeaderInRange
<1>2. result' = {[seq |-> f.seq, parts |-> Filled(f).chunks]}
  BY DEF Complete
<1>3. e.seq = f.seq /\ e.parts = Filled(f).chunks /\ result' = {e}
  BY <1>2
<1>4. PICK v \in Windows :
        /\ DOMAIN e.parts = 0 .. TotalChunks(v) - 1
        /\ \A i \in DOMAIN e.parts :
             ChunkOf(e.seq, TotalChunks(v), i, e.parts[i].data)
  BY DEF IInv, EmittedWhole, ChunkOf
<1>5. ASSUME NEW i \in DOMAIN e.parts
      PROVE  TotalChunks(v) = TotalChunks(f.seq) /\ e.parts[i].data = Payload(f.seq, i)
  <2>1. PICK w \in Windows : /\ SeqOf[w] = e.seq
                             /\ TotalChunks(w) = TotalChunks(v)
                             /\ e.parts[i].data = Payload(w, i)
    BY <1>4 DEF ChunkOf
  <2>2. w = f.seq
    BY <2>1, <1>3, LinkAssumption
  <2>3. QED
    BY <2>1, <2>2
<1>6. TotalChunks(v) \in Nat \ {0}
  BY TotalChunksPositive
<1>7. DOMAIN e.parts = 0 .. TotalChunks(f.seq) - 1
  <2>1. 0 \in DOMAIN e.parts
    BY <1>4, <1>6
  <2>2. QED
    BY <1>4, <1>5, <2>1
<1>8. Identify(e) = e.seq
  BY <1>1, <1>3, <1>5, <1>7 DEF Identify
<1>9. f.idx = TotalChunks(f.seq) - 1
  <2> DEFINE last == TotalChunks(f.seq) - 1
  <2>1. SUFFICES ASSUME f.idx # last PROVE FALSE
    OBVIOUS
  <2>2. last \in DOMAIN Filled(f).chunks
    BY <1>1, <1>3, <1>7
  <2>3. DOMAIN Filled(f).chunks = DOMAIN Entry(f).chunks \cup {f.idx}
    BY FilledDomain DEF LinkInv, LinkTypeOK
  <2>4. last \in DOMAIN Entry(f).chunks
    BY <2>1, <2>2, <2>3
  <2>5. f.seq \in DOMAIN buf /\ last \in DOMAIN buf[f.seq].chunks
    BY <2>4 DEF Entry, Live, NoChunks
  <2>6. Before(f.seq, last, f.seq, f.idx)
    <3>1. f = link[1] /\ 1 \in 1 .. Len(link)
      BY DEF LinkInv, LinkTypeOK
    <3>2. QED
      BY <2>5, <3>1 DEF LinkInv, BufferBehind
  <2>7. QED
    BY <2>6, <1>1 DEF Before
<1>10. QED
  BY <1>3, <1>8, <1>9

\* Appending a frame of the sender's position, or losing it, keeps the order.
LEMMA WritePreserves ==
    ASSUME LinkInv, IInv', WriteChunk \/ WriteChunkCut \/ WriteChunkLost
    PROVE  LinkInv'
<1>1. ~LoopOver /\ idx' = idx + 1 /\ gWindowSeq' = gWindowSeq /\ buf' = buf
      /\ windows' = windows /\ session' = session /\ now' = now /\ result' = result
  BY DEF WriteChunk, WriteChunkCut, WriteChunkLost, vars
<1>2. /\ gWindowSeq \in Windows
      /\ gWindowSeq \in Nat \ {0}
      /\ idx \in 0 .. TotalChunks(gWindowSeq) - 1
      /\ TotalChunks(gWindowSeq) \in Nat \ {0}
  BY <1>1, SenderFrame, TotalChunksPositive, LinkAssumption DEF LinkInv
<1>3. \/ link' = link
      \/ \E f \in Notifications : /\ f.seq = gWindowSeq /\ f.idx = idx
                                 /\ link' = Append(link, f)
  BY <1>1, SenderFrame DEF LinkInv, WriteChunk, WriteChunkCut, WriteChunkLost, Notifications
<1>4. link \in Seq(Notifications)
  BY DEF LinkInv, LinkTypeOK, Notifications
<1>5. \A k \in 1 .. Len(link) : link[k].seq \in Nat \ {0} /\ link[k].idx \in Nat
  BY <1>4, HeaderInRange
<1>6. link' \in Seq(Notifications)
  BY <1>3, <1>4
<1>7. \A k \in 1 .. Len(link') :
        \/ k \in 1 .. Len(link) /\ link'[k] = link[k]
        \/ k = Len(link) + 1 /\ link'[k].seq = gWindowSeq /\ link'[k].idx = idx
  BY <1>3, <1>4
<1>8. LinkTypeOK'
  <2>1. lost' \subseteq 1 .. gWindowSeq
    <3>1. lost' \in {lost, lost \cup {gWindowSeq}}
      BY DEF WriteChunk, WriteChunkCut, WriteChunkLost
    <3>2. QED
      BY <1>2, <3>1 DEF LinkInv, LinkTypeOK
  <2>2. TypeOK'
    BY DEF IInv
  <2>3. TotalChunks(gWindowSeq)' = TotalChunks(gWindowSeq)
    BY <1>1 DEF TotalChunks
  <2>4. QED
    BY <1>1, <1>2, <1>6, <2>1, <2>2, <2>3 DEF LinkInv, LinkTypeOK, Notifications
<1>9. LinkSorted'
  <2> SUFFICES ASSUME NEW k \in 1 .. Len(link')
               PROVE  /\ Before(link'[k].seq, link'[k].idx, gWindowSeq, idx + 1)
                      /\ \A l \in 1 .. Len(link') : k < l =>
                           Before(link'[k].seq, link'[k].idx, link'[l].seq, link'[l].idx)
    BY <1>1 DEF LinkSorted, Before
  <2>1. Len(link) \in Nat
    BY <1>4
  <2>2. CASE k \in 1 .. Len(link) /\ link'[k] = link[k]
    <3>1. link[k].seq \in Nat /\ link[k].idx \in Nat
      BY <1>5, <2>2
    <3>2. Before(link[k].seq, link[k].idx, gWindowSeq, idx)
      BY <2>2 DEF LinkInv, LinkSorted
    <3>3. ASSUME NEW l \in 1 .. Len(link'), k < l
          PROVE  Before(link'[k].seq, link'[k].idx, link'[l].seq, link'[l].idx)
      BY <1>7, <2>2, <3>2, <3>3 DEF LinkInv, LinkSorted
    <3>4. QED
      BY <1>2, <2>2, <3>1, <3>2, <3>3 DEF Before
  <2>3. CASE k = Len(link) + 1 /\ link'[k].seq = gWindowSeq /\ link'[k].idx = idx
    <3>1. Before(link'[k].seq, link'[k].idx, gWindowSeq, idx + 1)
      BY <1>2, <2>3 DEF Before
    <3>2. \A l \in 1 .. Len(link') : ~(k < l)
      BY <1>7, <2>1, <2>3
    <3>3. QED
      BY <3>1, <3>2
  <2>4. QED
    BY <1>7, <2>2, <2>3
<1>10. BufferBehind'
  <2> SUFFICES ASSUME NEW s \in DOMAIN buf, NEW i \in DOMAIN buf[s].chunks
               PROVE  /\ Before(s, i, gWindowSeq, idx + 1)
                      /\ \A k \in 1 .. Len(link') : Before(s, i, link'[k].seq, link'[k].idx)
    BY <1>1 DEF BufferBehind, Before
  <2>1. i \in Nat
    BY DEF LinkInv, LinkTypeOK, TypeOK
  <2>2. Before(s, i, gWindowSeq, idx)
    BY DEF LinkInv, BufferBehind
  <2>3. ASSUME NEW k \in 1 .. Len(link') PROVE Before(s, i, link'[k].seq, link'[k].idx)
    BY <1>7, <2>2 DEF LinkInv, BufferBehind
  <2>4. QED
    BY <1>2, <2>1, <2>2, <2>3 DEF Before
<1>11. CapturedBehind'
  <2>1. \A k \in 1 .. Len(windows) : windows[k].seq # gWindowSeq
    BY <1>2 DEF LinkInv, CapturedBehind
  <2>2. ASSUME NEW k \in 1 .. Len(windows), NEW l \in 1 .. Len(link')
        PROVE  windows[k].seq < link'[l].seq
    <3>1. windows[k].seq \in 1 .. gWindowSeq /\ windows[k].seq # gWindowSeq
      BY <2>1 DEF LinkInv, CapturedBehind
    <3>2. windows[k].seq < gWindowSeq
      BY <1>2, <3>1
    <3>3. CASE l \in 1 .. Len(link) /\ link'[l] = link[l]
      BY <3>3 DEF LinkInv, CapturedBehind
    <3>4. CASE link'[l].seq = gWindowSeq
      BY <3>2, <3>4
    <3>5. QED
      BY <1>7, <3>3, <3>4
  <2>3. \A k \in 1 .. Len(windows) : Identify(windows[k])' = Identify(windows[k])
    BY <1>1 DEF Identify, TotalChunks, Payload, SamplesIn
  <2>4. QED
    BY <1>1, <2>1, <2>2, <2>3 DEF LinkInv, CapturedBehind
<1>12. QED
  BY <1>8, <1>9, <1>10, <1>11 DEF LinkInv

\* Receiving the oldest notification keeps the order.
LEMMA OnChunkPreserves ==
    ASSUME LinkInv, IInv', OnChunk
    PROVE  LinkInv'
<1> DEFINE f == Head(link)
<1>1. /\ link # <<>> /\ link' = Tail(link) /\ gWindowSeq' = gWindowSeq /\ idx' = idx
      /\ session' = session /\ lost' = lost
  BY DEF OnChunk
<1>2. link \in Seq(Notifications) /\ link' \in Seq(Notifications) /\ f \in Notifications
  BY <1>1 DEF LinkInv, LinkTypeOK, Notifications
<1>3. /\ Len(link) \in Nat \ {0}
      /\ Len(link') = Len(link) - 1
      /\ f = link[1]
      /\ \A k \in 1 .. Len(link') : k + 1 \in 1 .. Len(link) /\ link'[k] = link[k + 1]
  BY <1>1, <1>2
<1>4. /\ f.seq \in Windows
      /\ f.seq \in Nat \ {0}
      /\ f.idx \in 0 .. TotalChunks(f.seq) - 1
      /\ TotalChunks(f.seq) \in Nat \ {0}
  BY <1>2, HeaderInRange
<1>5. /\ Before(f.seq, f.idx, gWindowSeq, idx)
      /\ \A k \in 1 .. Len(link') : Before(f.seq, f.idx, link'[k].seq, link'[k].idx)
  BY <1>3 DEF LinkInv, LinkSorted
<1>6. TotalChunks(gWindowSeq)' = TotalChunks(gWindowSeq)
  BY <1>1 DEF TotalChunks
<1>7. LinkTypeOK'
  <2>1. TypeOK'
    BY DEF IInv
  <2>2. QED
    BY <1>1, <1>2, <1>6, <2>1 DEF LinkInv, LinkTypeOK, Notifications
<1>8. LinkSorted'
  BY <1>1, <1>3 DEF LinkInv, LinkSorted, Before
<1>9. BufferBehind'
  <2>1. \A s \in DOMAIN buf' : \A i \in DOMAIN buf'[s].chunks :
          \/ s \in DOMAIN buf /\ i \in DOMAIN buf[s].chunks
          \/ s = f.seq /\ i = f.idx
    <3>1. CASE Reject(f)
      BY <3>1 DEF Reject
    <3>2. CASE Complete(f)
      BY <3>2 DEF Complete, Drop, Live
    <3>3. CASE Buffer(f)
      <4>1. DOMAIN Filled(f).chunks = DOMAIN Entry(f).chunks \cup {f.idx}
        BY FilledDomain, <1>2 DEF LinkInv, LinkTypeOK
      <4>2. \A i \in DOMAIN Entry(f).chunks :
              f.seq \in DOMAIN buf /\ i \in DOMAIN buf[f.seq].chunks
        BY DEF Entry, Live, NoChunks
      <4>3. buf' = Put(Live, f.seq, Filled(f))
        BY <3>3 DEF Buffer
      <4>4. QED
        BY <4>1, <4>2, <4>3 DEF Put, Live
    <3>4. QED
      BY <3>1, <3>2, <3>3 DEF OnChunk, Push
  <2>2. ASSUME NEW s \in DOMAIN buf', NEW i \in DOMAIN buf'[s].chunks
        PROVE  /\ Before(s, i, gWindowSeq, idx)
               /\ \A k \in 1 .. Len(link') : Before(s, i, link'[k].seq, link'[k].idx)
    BY <1>3, <1>5, <2>1 DEF LinkInv, BufferBehind
  <2>3. QED
    BY <1>1, <2>2 DEF BufferBehind, Before
<1>10. CapturedBehind'
  <2>1. CASE result' = {}
    <3>1. windows' = windows
      BY <2>1 DEF OnChunk
    <3>2. \A k \in 1 .. Len(windows), l \in 1 .. Len(link') : windows[k].seq < link'[l].seq
      BY <1>3 DEF LinkInv, CapturedBehind
    <3>3. QED
      BY <1>1, <1>6, <3>1, <3>2 DEF LinkInv, CapturedBehind
  <2>2. CASE result' # {}
    <3>1. Complete(f)
      BY <2>2 DEF OnChunk, Push, Reject, Buffer
    <3>2. PICK e \in result' : result' = {e}
      BY <2>2, <3>1, <1>1, CompletedWindow
    <3>3. /\ e.seq = f.seq
          /\ Identify(e) = e.seq
          /\ f.idx = TotalChunks(f.seq) - 1
      BY <1>1, <3>1, <3>2, CompletedWindow
    <3>4. windows' = Append(windows, e)
      BY <2>2, <3>2 DEF OnChunk
    <3>5. PICK S : windows \in Seq(S)
      BY DEF LinkInv, CapturedBehind
    <3>6. windows \in Seq(S \cup {e}) /\ windows' \in Seq(S \cup {e})
      BY <3>4, <3>5
    <3>7. /\ Len(windows) \in Nat
          /\ Len(windows') = Len(windows) + 1
          /\ \A k \in 1 .. Len(windows) : windows'[k] = windows[k]
          /\ windows'[Len(windows) + 1] = e
      BY <3>4, <3>6
    <3>8. /\ e.seq \in 1 .. gWindowSeq
          /\ e.seq = gWindowSeq => idx = TotalChunks(gWindowSeq)
      <4>1. gWindowSeq \in Nat /\ (gWindowSeq > 0 => idx \in 0 .. TotalChunks(gWindowSeq))
        BY DEF LinkInv, LinkTypeOK
      <4>2. QED
        BY <1>4, <1>5, <3>3, <4>1 DEF Before
    <3>9. ASSUME NEW l \in 1 .. Len(link') PROVE e.seq < link'[l].seq
      <4>1. link'[l] \in Notifications
        BY <1>2
      <4>2. /\ link'[l].seq \in Nat
            /\ link'[l].idx \in 0 .. TotalChunks(link'[l].seq) - 1
        BY <4>1, HeaderInRange
      <4>3. Before(f.seq, f.idx, link'[l].seq, link'[l].idx)
        BY <1>5
      <4>4. QED
        BY <1>4, <3>3, <4>2, <4>3 DEF Before
    <3>10. ASSUME NEW k \in 1 .. Len(windows)
           PROVE  /\ windows[k].seq \in 1 .. gWindowSeq
                  /\ windows[k].seq < e.seq
                  /\ Identify(windows[k]) = windows[k].seq
                  /\ windows[k].seq = gWindowSeq => idx = TotalChunks(gWindowSeq)
                  /\ \A l \in 1 .. Len(link') : windows[k].seq < link'[l].seq
      BY <1>3, <3>3 DEF LinkInv, CapturedBehind
    <3>11. \A k \in 1 .. Len(windows') :
            /\ windows'[k].seq \in 1 .. gWindowSeq
            /\ Identify(windows'[k]) = windows'[k].seq
            /\ \A l \in 1 .. Len(link') : windows'[k].seq < link'[l].seq
            /\ windows'[k].seq = gWindowSeq => idx = TotalChunks(gWindowSeq)
      BY <3>3, <3>7, <3>8, <3>9, <3>10
    <3>12. \A k, l \in 1 .. Len(windows') : k < l => windows'[k].seq < windows'[l].seq
      <4>1. SUFFICES ASSUME NEW k \in 1 .. Len(windows'), NEW l \in 1 .. Len(windows'), k < l
                     PROVE  windows'[k].seq < windows'[l].seq
        OBVIOUS
      <4>2. k \in 1 .. Len(windows) /\ windows'[k] = windows[k]
        BY <3>7, <4>1
      <4>3. CASE l \in 1 .. Len(windows)
        BY <3>7, <4>1, <4>2, <4>3 DEF LinkInv, CapturedBehind
      <4>4. CASE l = Len(windows) + 1
        BY <3>7, <3>10, <4>2, <4>4
      <4>5. QED
        BY <3>7, <4>3, <4>4
    <3>13. QED
      BY <1>1, <1>6, <3>6, <3>11, <3>12 DEF CapturedBehind, Identify, TotalChunks, Payload, SamplesIn
  <2>3. QED
    BY <2>1, <2>2
<1>11. QED
  BY <1>7, <1>8, <1>9, <1>10 DEF LinkInv

\* A session starts in order.
LEMMA LinkInitInv == LinkInit => LinkInv
<1> SUFFICES ASSUME LinkInit PROVE LinkInv
  OBVIOUS
<1>1. IInv
  BY InitIInv DEF LinkInit
<1>2. link = <<>> /\ windows = <<>> /\ gWindowSeq = 0 /\ idx = 0 /\ lost = {}
      /\ session = "scanning" /\ buf = [s \in {} |-> 0]
  BY DEF LinkInit, Init
<1>3. LinkTypeOK
  BY <1>1, <1>2, LinkAssumption DEF IInv, LinkTypeOK
<1>4. LinkSorted /\ BufferBehind
  BY <1>2 DEF LinkSorted, BufferBehind
<1>5. CapturedBehind
  <2>1. windows \in Seq({})
    BY <1>2
  <2>2. QED
    BY <1>2, <2>1 DEF CapturedBehind
<1>6. QED
  BY <1>1, <1>3, <1>4, <1>5 DEF LinkInv

\* Every step of the session keeps the inductive invariant.
LEMMA LinkNextInv == LinkInv /\ [LinkNext]_allVars => LinkInv'
<1> SUFFICES ASSUME LinkInv, [LinkNext]_allVars PROVE LinkInv'
  OBVIOUS
<1>1. IInv'
  BY AssemblerStep, NextIInv DEF LinkInv
<1>2. TypeOK'
  BY <1>1 DEF IInv
<1>3. CASE PublishWindow
  <2>1. /\ gWindowSeq' = gWindowSeq + 1 /\ gWindowSeq' \in 1 .. MaxWindows /\ idx' = 0
        /\ buf' = buf /\ link' = link /\ windows' = windows /\ session' = session
        /\ lost' = lost
    BY <1>3, LinkAssumption DEF PublishWindow, vars, LinkInv, LinkTypeOK
  <2>2. gWindowSeq \in Nat
    BY DEF LinkInv, LinkTypeOK
  <2>3. \A k \in 1 .. Len(link) : link[k].seq \in Nat /\ link[k].seq <= gWindowSeq
    <3>1. SUFFICES ASSUME NEW k \in 1 .. Len(link)
                   PROVE  link[k].seq \in Nat /\ link[k].seq <= gWindowSeq
      OBVIOUS
    <3>2. link[k].seq \in Nat
      BY HeaderInRange DEF LinkInv, LinkTypeOK, Notifications
    <3>3. QED
      BY <2>2, <3>2 DEF LinkInv, LinkSorted, Before
  <2>4. LinkTypeOK'
    <3>1. TotalChunks(gWindowSeq') \in Nat
      BY <2>1, TotalChunksPositive, LinkAssumption
    <3>2. lost' \subseteq 1 .. gWindowSeq'
      BY <2>1, <2>2 DEF LinkInv, LinkTypeOK
    <3>3. QED
      BY <1>2, <2>1, <3>1, <3>2 DEF LinkInv, LinkTypeOK
  <2>5. LinkSorted'
    BY <2>1, <2>2, <2>3 DEF LinkInv, LinkSorted, Before
  <2>6. BufferBehind'
    <3>1. SUFFICES ASSUME NEW s \in DOMAIN buf, NEW i \in DOMAIN buf[s].chunks
                   PROVE  Before(s, i, gWindowSeq + 1, 0)
      BY <2>1 DEF LinkInv, BufferBehind, Before
    <3>2. s \in Nat
      BY AssemblerAssumption DEF LinkInv, LinkTypeOK, TypeOK
    <3>3. Before(s, i, gWindowSeq, idx)
      BY DEF LinkInv, BufferBehind
    <3>4. QED
      BY <2>2, <3>2, <3>3 DEF Before
  <2>7. CapturedBehind'
    BY <2>1, <2>2 DEF LinkInv, CapturedBehind
  <2>8. QED
    BY <1>1, <2>4, <2>5, <2>6, <2>7 DEF LinkInv
<1>4. CASE WriteChunk \/ WriteChunkCut \/ WriteChunkLost
  BY <1>1, <1>4, WritePreserves
<1>5. CASE OnChunk
  BY <1>1, <1>5, OnChunkPreserves
<1>6. CASE Close
  <2>1. /\ gWindowSeq' = gWindowSeq /\ idx' = idx /\ link' = <<>> /\ windows' = windows
        /\ buf' = buf /\ session' = "closed"
        /\ lost' = lost \cup {link[k].seq : k \in 1 .. Len(link)}
    BY <1>6 DEF Close, vars
  <2>2. {link[k].seq : k \in 1 .. Len(link)} \subseteq 1 .. gWindowSeq
    <3>1. SUFFICES ASSUME NEW k \in 1 .. Len(link) PROVE link[k].seq \in 1 .. gWindowSeq
      OBVIOUS
    <3>2. link[k].seq \in Nat \ {0}
      BY HeaderInRange DEF LinkInv, LinkTypeOK, Notifications
    <3>3. QED
      BY <3>2 DEF LinkInv, LinkTypeOK, LinkSorted, Before
  <2>3. TotalChunks(gWindowSeq') = TotalChunks(gWindowSeq)
    BY <2>1
  <2>4. LinkTypeOK'
    <3>1. lost' \subseteq 1 .. gWindowSeq'
      BY <2>1, <2>2 DEF LinkInv, LinkTypeOK
    <3>2. link' \in Seq(Frames \cup {Truncated(f) : f \in Frames})
      BY <2>1
    <3>3. QED
      BY <1>2, <2>1, <2>3, <3>1, <3>2 DEF LinkInv, LinkTypeOK
  <2>5. LinkSorted' /\ BufferBehind' /\ CapturedBehind'
    BY <2>1 DEF LinkInv, LinkSorted, BufferBehind, CapturedBehind, Before
  <2>6. QED
    BY <1>1, <2>4, <2>5 DEF LinkInv
<1>7. CASE Subscribe \/ LinkTick \/ UNCHANGED allVars
  <2>1. /\ gWindowSeq' = gWindowSeq /\ idx' = idx /\ link' = link /\ windows' = windows
        /\ buf' = buf /\ lost' = lost /\ session' \in {session, "subscribed"}
    BY <1>7 DEF Subscribe, LinkTick, Tick, linkVars, allVars, vars
  <2>2. TotalChunks(gWindowSeq') = TotalChunks(gWindowSeq)
    BY <2>1
  <2>3. LinkTypeOK'
    BY <1>2, <2>1, <2>2 DEF LinkInv, LinkTypeOK
  <2>4. LinkSorted' /\ BufferBehind' /\ CapturedBehind'
    BY <2>1 DEF LinkInv, LinkSorted, BufferBehind, CapturedBehind, Before
  <2>5. QED
    BY <1>1, <2>3, <2>4 DEF LinkInv
<1>8. QED
  BY <1>3, <1>4, <1>5, <1>6, <1>7 DEF LinkNext

\* Every reachable state of a session satisfies the inductive invariant.
THEOREM LinkInvariance == LinkSpec => []LinkInv
<1>1. QED
  BY LinkInitInv, LinkNextInv, PTL DEF LinkSpec

\* The session's variables keep their types for every size and number of windows.
THEOREM LinkTypeCorrect == LinkSpec => []LinkTypeOK
<1>1. LinkInv => LinkTypeOK
  BY DEF LinkInv
<1>2. QED
  BY <1>1, LinkInvariance, PTL

\* The list of captured windows as the promise sees it.
Mapped == [k \in 1 .. Len(windows) |-> Identify(windows[k])]

\* A step of the session is a step of the promise, or changes nothing it sees.
LEMMA StepRefines ==
    ASSUME LinkInv, LinkInv', [LinkNext]_allVars
    PROVE  [Delivery!DNext]_(Delivery!dvars)
<1>1. CASE PublishWindow
  <2>1. gWindowSeq < MaxWindows /\ gWindowSeq' = gWindowSeq + 1 /\ windows' = windows
    BY <1>1 DEF PublishWindow
  <2>2. QED
    BY <2>1 DEF Delivery!DNext, Delivery!DPublish
<1>2. CASE OnChunk /\ result' # {}
  <2>1. Complete(Head(link)) /\ link # <<>> /\ gWindowSeq' = gWindowSeq
    BY <1>2 DEF OnChunk, Push, Reject, Buffer
  <2>2. IInv'
    BY DEF LinkInv
  <2>3. PICK e \in result' : result' = {e} /\ Identify(e) = e.seq /\ e.seq = Head(link).seq
    BY <1>2, <2>1, <2>2, CompletedWindow
  <2>4. windows' = Append(windows, e)
    BY <1>2, <2>3 DEF OnChunk
  <2>5. PICK S : windows \in Seq(S)
    BY DEF LinkInv, CapturedBehind
  <2>6. windows \in Seq(S \cup {e}) /\ windows' \in Seq(S \cup {e})
    BY <2>4, <2>5
  <2>7. /\ Len(windows) \in Nat
        /\ Len(windows') = Len(windows) + 1
        /\ \A k \in 1 .. Len(windows) : windows'[k] = windows[k]
        /\ windows'[Len(windows) + 1] = e
    BY <2>4, <2>6
  <2>8. \A k \in 1 .. Len(windows') : Identify(windows'[k]) = windows'[k].seq
                                     /\ windows'[k].seq \in 1 .. gWindowSeq
    BY <2>1 DEF LinkInv, CapturedBehind
  <2>9. e.seq \in 1 .. gWindowSeq
    BY <2>7, <2>8
  <2>10. \A k \in 1 .. Len(windows) : Identify(windows[k]) = windows[k].seq
                                     /\ windows[k].seq \in 1 .. gWindowSeq
    BY DEF LinkInv, CapturedBehind
  <2>11. Mapped \in Seq(1 .. gWindowSeq) /\ Len(Mapped) = Len(windows)
    BY <2>7, <2>10 DEF Mapped
  <2>12. \A k \in 1 .. Len(Mapped) : Mapped[k] < e.seq
    <3>1. SUFFICES ASSUME NEW k \in 1 .. Len(windows) PROVE windows[k].seq < e.seq
      BY <2>10, <2>11 DEF Mapped
    <3>2. 1 \in 1 .. Len(link) /\ Head(link) = link[1]
      BY <2>1 DEF LinkInv, LinkTypeOK
    <3>3. QED
      BY <2>3, <3>2 DEF LinkInv, CapturedBehind
  <2>13. [k \in 1 .. Len(windows') |-> Identify(windows'[k])] = Append(Mapped, e.seq)
    <3> DEFINE M == [k \in 1 .. Len(windows) + 1 |-> Identify(windows'[k])]
    <3>1. M \in Seq(1 .. gWindowSeq) /\ Len(M) = Len(windows) + 1
      BY <2>7, <2>8
    <3>2. Append(Mapped, e.seq) \in Seq(1 .. gWindowSeq)
          /\ Len(Append(Mapped, e.seq)) = Len(windows) + 1
      BY <2>7, <2>9, <2>11
    <3>3. \A k \in 1 .. Len(windows) + 1 : M[k] = Append(Mapped, e.seq)[k]
      BY <2>3, <2>7, <2>11 DEF Mapped
    <3>4. M = Append(Mapped, e.seq)
      BY <3>1, <3>2, <3>3, SeqEqual
    <3>5. QED
      BY <2>7, <3>4
  <2>14. Delivery!DDeliver
    BY <2>1, <2>9, <2>12, <2>13 DEF Delivery!DDeliver, Mapped
  <2>15. QED
    BY <2>14 DEF Delivery!DNext
<1>3. CASE \/ OnChunk /\ result' = {}
           \/ WriteChunk \/ WriteChunkCut \/ WriteChunkLost
           \/ Subscribe \/ Close \/ LinkTick \/ UNCHANGED allVars
  <2>1. gWindowSeq' = gWindowSeq /\ windows' = windows
    BY <1>3 DEF OnChunk, WriteChunk, WriteChunkCut, WriteChunkLost, Subscribe, Close,
                LinkTick, linkVars, allVars
  <2>2. QED
    BY <2>1 DEF Delivery!dvars
<1>4. QED
  BY <1>1, <1>2, <1>3 DEF LinkNext

\* Every capture session keeps the promise: whole windows, in order, at most once.
THEOREM SessionImplementsDelivery == LinkSpec => ImplementsDelivery
<1>1. LinkInit => Delivery!DInit
  <2> SUFFICES ASSUME LinkInit PROVE Delivery!DInit
    OBVIOUS
  <2>1. gWindowSeq = 0 /\ windows = <<>>
    BY DEF LinkInit
  <2>2. [k \in 1 .. Len(windows) |-> Identify(windows[k])] = <<>>
    BY <2>1
  <2>3. QED
    BY <2>1, <2>2 DEF Delivery!DInit
<1>2. LinkInv /\ LinkInv' /\ [LinkNext]_allVars => [Delivery!DNext]_(Delivery!dvars)
  BY StepRefines
<1>3. QED
  BY <1>1, <1>2, LinkInvariance, PTL DEF LinkSpec, ImplementsDelivery, Delivery!DSpec

-----------------------------------------------------------------------------
(* What becomes of each window.                                            *)

\* Chunk i of window w was written, or skipped; it is in flight; it is buffered.
Sent(w, i) == Before(w, i, gWindowSeq, idx)
InFlight(w, i) == \E k \in 1 .. Len(link) : link[k].seq = w /\ link[k].idx = i
Buffered(w, i) == w \in DOMAIN buf /\ i \in DOMAIN buf[w].chunks
Spread(w) == arrival[w][2] - arrival[w][1]

\* A notification that was cut counts as lost.
CutIsLost == \A k \in 1 .. Len(link) : link[k] \in Frames \/ link[k].seq \in lost

\* An entry is of one window and not empty; it was opened after the window's first
\* push, and not later than its chunk 0, which is its first.
EntriesOfWindow ==
    \A s \in DOMAIN buf :
        /\ buf[s].total = TotalChunks(s) /\ DOMAIN buf[s].chunks # {}
        /\ s \in DOMAIN arrival /\ arrival[s][1] <= buf[s].first_seen
        /\ 0 \in DOMAIN buf[s].chunks => buf[s].first_seen <= arrival[s][1]

\* Of a window that has begun to arrive, chunk 0 is not in flight any more.
ArrivalBehind ==
    \A s \in DOMAIN arrival :
        /\ arrival[s][1] \in 0 .. now /\ arrival[s][2] \in 0 .. now
        /\ s \in Windows /\ Sent(s, 0)
        /\ \A k \in 1 .. Len(link) : Before(s, 0, link[k].seq, link[k].idx)

\* A lost window misses a chunk that will not come any more.
LostMissesAChunk ==
    \A w \in lost :
        /\ ~Captured(w)
        /\ \E i \in 0 .. TotalChunks(w) - 1 :
             /\ Sent(w, i) /\ ~Buffered(w, i)
             /\ \A k \in 1 .. Len(link) : link[k] # Frame(w, i)

\* A captured window has left the buffer, and came in within the TTL.
CapturedInTime ==
    \A k \in 1 .. Len(windows) :
        /\ windows[k].seq \notin DOMAIN buf
        /\ windows[k].seq \in DOMAIN arrival /\ Spread(windows[k].seq) <= Ttl

\* Of a window that is neither broken nor captured, what was sent is in flight or
\* buffered.
NothingMissing(w) ==
    \A i \in 0 .. TotalChunks(w) - 1 : Sent(w, i) => InFlight(w, i) \/ Buffered(w, i)

IntactSoFar ==
    \A w \in 1 .. gWindowSeq :
        \/ w \in lost
        \/ Captured(w)
        \/ w \in DOMAIN arrival /\ Spread(w) > Ttl
        \/ NothingMissing(w)

FateInv ==
    /\ CutIsLost /\ EntriesOfWindow /\ ArrivalBehind
    /\ LostMissesAChunk /\ CapturedInTime /\ IntactSoFar

\* What filling makes of a frame's entry: the one that waits, or a new one if that is
\* missing or stale.
LEMMA FilledEntry ==
    ASSUME TypeOK, EntriesOfWindow, NEW f, f.seq \in Windows, f.total = TotalChunks(f.seq)
    PROVE  /\ Filled(f).total = TotalChunks(f.seq)
           /\ \/ /\ f.seq \in DOMAIN buf /\ now - buf[f.seq].first_seen <= Ttl
                 /\ Filled(f).first_seen = buf[f.seq].first_seen
                 /\ DOMAIN Filled(f).chunks = DOMAIN buf[f.seq].chunks \cup {f.idx}
              \/ /\ f.seq \in DOMAIN buf => now - buf[f.seq].first_seen > Ttl
                 /\ Filled(f).first_seen = now
                 /\ DOMAIN Filled(f).chunks = {f.idx}
<1>1. CASE f.seq \in DOMAIN Live /\ Live[f.seq].total = f.total
  <2>1. f.seq \in DOMAIN buf /\ Entry(f) = buf[f.seq] /\ now - buf[f.seq].first_seen <= Ttl
    BY <1>1 DEF Entry, Live
  <2>2. buf[f.seq] = [total |-> buf[f.seq].total, chunks |-> buf[f.seq].chunks,
                      first_seen |-> buf[f.seq].first_seen]
    BY <2>1 DEF TypeOK
  <2>3. buf[f.seq].total = TotalChunks(f.seq)
    BY <2>1 DEF EntriesOfWindow
  <2> QED
    BY <2>1, <2>2, <2>3 DEF Filled, Put
<1>2. CASE ~(f.seq \in DOMAIN Live /\ Live[f.seq].total = f.total)
  <2>1. Entry(f) = [total |-> f.total, chunks |-> NoChunks, first_seen |-> now]
    BY <1>2 DEF Entry
  <2>2. /\ Filled(f).total = f.total /\ Filled(f).first_seen = now
        /\ DOMAIN Filled(f).chunks = {f.idx}
    BY <2>1 DEF Filled, Put, NoChunks
  <2>3. f.seq \in DOMAIN buf => now - buf[f.seq].first_seen > Ttl
    <3>1. ASSUME f.seq \in DOMAIN buf PROVE ~(now - buf[f.seq].first_seen <= Ttl)
      BY <1>2, <3>1 DEF Live, EntriesOfWindow
    <3>2. now \in Nat /\ Ttl \in Nat
      BY AssemblerAssumption DEF TypeOK
    <3>3. f.seq \in DOMAIN buf => buf[f.seq].first_seen \in Nat
      BY <3>2 DEF TypeOK
    <3> QED
      BY <3>1, <3>2, <3>3
  <2> QED
    BY <2>2, <2>3
<1> QED
  BY <1>1, <1>2

\* A notification is accepted exactly when it is the whole frame of its header.
LEMMA AcceptedWhole ==
    ASSUME NEW f \in Notifications
    PROVE  /\ Accepted(f) <=> f = Frame(f.seq, f.idx)
           /\ f \in Frames => f = Frame(f.seq, f.idx)
           /\ f.total = TotalChunks(f.seq)
<1>1. PICK g \in Frames : f \in {g, Truncated(g)}
  BY DEF Notifications
<1>2. PICK w \in Windows : \E i \in 0 .. TotalChunks(w) - 1 : g = Frame(w, i)
  BY <1>1 DEF Frames
<1>3. PICK i \in 0 .. TotalChunks(w) - 1 : g = Frame(w, i)
  BY <1>2
<1>4. ASSUME NEW x \in Windows, NEW j \in 0 .. TotalChunks(x) - 1
      PROVE  Frame(x, j).seq = x /\ Frame(x, j).idx = j /\ Frame(x, j).total = TotalChunks(x)
  BY LinkAssumption DEF Frame
<1>5. f.total = TotalChunks(f.seq)
  <2>1. f.seq = g.seq /\ f.total = g.total
    BY <1>1, <1>3 DEF Truncated, Frame
  <2> QED
    BY <1>3, <1>4, <2>1
<1>6. Accepted(f) => f = Frame(f.seq, f.idx)
  BY <1>1, <1>4, AcceptedFrame
<1>7. f \in Frames => f = Frame(f.seq, f.idx)
  BY <1>4 DEF Frames
<1>8. f = Frame(f.seq, f.idx) => Accepted(f)
  <2>1. f.seq \in Windows /\ f.idx \in 0 .. TotalChunks(f.seq) - 1 /\ TotalChunks(f.seq) \in Nat
    BY HeaderInRange
  <2>2. f = Frame(f.seq, f.idx) => f.payload.len = f.samples
    BY DEF Frame, Payload
  <2> QED
    BY <1>5, <2>1, <2>2 DEF Accepted
<1> QED
  BY <1>5, <1>6, <1>7, <1>8

\* What the arrival of a notification does to the buffer, to the windows captured and
\* to the times.
LEMMA ChunkPushed ==
    ASSUME LinkInv, LinkInv', FateInv, OnChunk
    PROVE  LET f == Head(link)
               v == f.seq
           IN
           /\ f \in Notifications /\ f = link[1]
           /\ Len(link) \in Nat /\ Len(link) >= 1 /\ Len(link') = Len(link) - 1
           /\ \A k \in 1 .. Len(link') : k + 1 \in 1 .. Len(link) /\ link'[k] = link[k + 1]
           /\ DOMAIN arrival' = DOMAIN arrival \cup {v}
           /\ arrival'[v][1] = (IF v \in DOMAIN arrival THEN arrival[v][1] ELSE now)
           /\ arrival'[v][2] = now
           /\ \A s \in DOMAIN arrival : s # v => arrival'[s] = arrival[s]
           /\ UNCHANGED <<now, gWindowSeq, idx, lost>>
           /\ \A s \in DOMAIN buf' : s # v => s \in DOMAIN buf /\ buf'[s] = buf[s]
           /\ \/ f # Frame(v, f.idx) /\ buf' = buf /\ windows' = windows
              \/ /\ f = Frame(v, f.idx) /\ windows' = windows
                 /\ v \in DOMAIN buf' /\ buf'[v] = Filled(f)
              \/ /\ f = Frame(v, f.idx) /\ v \notin DOMAIN buf'
                 /\ DOMAIN Filled(f).chunks = 0 .. TotalChunks(v) - 1
                 /\ \E e : e.seq = v /\ windows' = Append(windows, e)
<1> DEFINE f == Head(link)
           v == f.seq
<1>1. link # <<>> /\ link' = Tail(link) /\ link \in Seq(Notifications)
  BY DEF OnChunk, LinkInv, LinkTypeOK, Notifications
<1>2. /\ f \in Notifications /\ f = link[1]
      /\ Len(link) \in Nat /\ Len(link) >= 1 /\ Len(link') = Len(link) - 1
      /\ \A k \in 1 .. Len(link') : k + 1 \in 1 .. Len(link) /\ link'[k] = link[k + 1]
  <2>1. Len(link) \in Nat \ {0}
    BY <1>1, EmptySeq
  <2>2. f \in Notifications /\ f = link[1] /\ Len(link') = Len(link) - 1
        /\ \A k \in 1 .. Len(link') : link'[k] = link[k + 1]
    BY <1>1, <2>1, HeadTailProperties
  <2> QED
    BY <2>1, <2>2
<1>3. arrival' = Put(arrival, v, <<IF v \in DOMAIN arrival THEN arrival[v][1] ELSE now, now>>)
  BY DEF OnChunk
<1>4. /\ DOMAIN arrival' = DOMAIN arrival \cup {v}
      /\ arrival'[v][1] = (IF v \in DOMAIN arrival THEN arrival[v][1] ELSE now)
      /\ arrival'[v][2] = now
      /\ \A s \in DOMAIN arrival : s # v => arrival'[s] = arrival[s]
  BY <1>3 DEF Put
<1>5. gWindowSeq' = gWindowSeq /\ idx' = idx /\ lost' = lost /\ now' = now
  BY DEF OnChunk, Push, Reject, Buffer, Complete
<1>6. Accepted(f) <=> f = Frame(v, f.idx)
  BY <1>2, AcceptedWhole
<1>7. CASE Reject(f)
  <2>1. result' = {} /\ buf' = buf /\ ~Accepted(f)
    BY <1>7 DEF Reject
  <2>2. windows' = windows
    BY <2>1 DEF OnChunk
  <2> HIDE DEF f
  <2> QED
    BY <1>2, <1>4, <1>5, <1>6, <2>1, <2>2
<1>8. CASE Buffer(f)
  <2>1. result' = {} /\ buf' = Put(Live, v, Filled(f)) /\ Accepted(f)
    BY <1>8 DEF Buffer
  <2>2. windows' = windows
    BY <2>1 DEF OnChunk
  <2>3. /\ v \in DOMAIN buf' /\ buf'[v] = Filled(f)
        /\ \A s \in DOMAIN buf' : s # v => s \in DOMAIN buf /\ buf'[s] = buf[s]
    BY <2>1 DEF Put, Live
  <2> HIDE DEF f
  <2> QED
    BY <1>2, <1>4, <1>5, <1>6, <2>1, <2>2, <2>3
<1>9. CASE Complete(f)
  <2>1. /\ result' = {[seq |-> v, parts |-> Filled(f).chunks]}
        /\ buf' = Drop(Live, v) /\ Accepted(f)
    BY <1>9 DEF Complete
  <2>2. IInv'
    BY DEF LinkInv
  <2>3. PICK e \in result' : e.seq = v /\ result' = {e} /\ Identify(e) = e.seq
    BY <1>1, <1>9, <2>1, <2>2, CompletedWindow
  <2>4. windows' = Append(windows, e)
    BY <2>3 DEF OnChunk
  <2>5. DOMAIN Filled(f).chunks = 0 .. TotalChunks(v) - 1
    <3>1. e.seq \in Nat \ {0} /\ e.parts = Filled(f).chunks
      BY <1>2, <2>1, <2>3, HeaderInRange
    <3> QED
      BY <2>3, <3>1 DEF Identify
  <2>6. /\ v \notin DOMAIN buf'
        /\ \A s \in DOMAIN buf' : s # v => s \in DOMAIN buf /\ buf'[s] = buf[s]
    BY <2>1 DEF Drop, Live
  <2> HIDE DEF f
  <2> QED
    BY <1>2, <1>4, <1>5, <1>6, <2>1, <2>3, <2>4, <2>5, <2>6
<1> QED
  BY <1>7, <1>8, <1>9 DEF OnChunk, Push

\* The head of the link: its numbers, and what lies before it.
LEMMA HeadOfLink ==
    ASSUME LinkInv, FateInv, link # <<>>
    PROVE  LET f == Head(link)
               v == f.seq
           IN
           /\ f = link[1] /\ 1 \in 1 .. Len(link)
           /\ v \in Windows /\ v \in Nat \ {0} /\ TotalChunks(v) \in Nat \ {0}
           /\ f.idx \in 0 .. TotalChunks(v) - 1 /\ f.total = TotalChunks(v)
           /\ Sent(v, f.idx) /\ v <= gWindowSeq
           /\ \A s \in DOMAIN buf : \A i \in DOMAIN buf[s].chunks : Before(s, i, v, f.idx)
           /\ \A s \in DOMAIN arrival : Before(s, 0, v, f.idx)
           /\ \A k \in 1 .. Len(windows) : windows[k].seq < v
           /\ \A k \in 1 .. Len(link) : k # 1 => Before(v, f.idx, link[k].seq, link[k].idx)
<1> DEFINE f == Head(link)
           v == f.seq
<1>1. link \in Seq(Notifications)
  BY DEF LinkInv, LinkTypeOK, Notifications
<1>2. f = link[1] /\ f \in Notifications /\ 1 \in 1 .. Len(link) /\ Len(link) \in Nat
  <2>1. Len(link) \in Nat \ {0}
    BY <1>1, EmptySeq
  <2> QED
    BY <1>1, <2>1, HeadTailProperties
<1> HIDE DEF f
<1>3. /\ v \in Windows /\ v \in Nat \ {0} /\ TotalChunks(v) \in Nat \ {0}
      /\ f.idx \in 0 .. TotalChunks(v) - 1 /\ f.total = TotalChunks(v)
  BY <1>2, HeaderInRange, AcceptedWhole
<1>4. Sent(v, f.idx) /\ \A k \in 1 .. Len(link) : k # 1 => Before(v, f.idx, link[k].seq, link[k].idx)
  <2>1. \A k \in 1 .. Len(link) : k # 1 => 1 < k
    BY <1>2
  <2> QED
    BY <1>2, <2>1 DEF LinkInv, LinkSorted, Sent
<1>5. v <= gWindowSeq
  <2>1. gWindowSeq \in Nat
    BY DEF LinkInv, LinkTypeOK
  <2> QED
    BY <1>3, <1>4, <2>1 DEF Sent, Before
<1>6. \A s \in DOMAIN buf : \A i \in DOMAIN buf[s].chunks : Before(s, i, v, f.idx)
  BY <1>2 DEF LinkInv, BufferBehind
<1>7. \A s \in DOMAIN arrival : Before(s, 0, v, f.idx)
  BY <1>2 DEF FateInv, ArrivalBehind
<1>8. \A k \in 1 .. Len(windows) : windows[k].seq < v
  BY <1>2 DEF LinkInv, CapturedBehind
<1> QED
  BY <1>2, <1>3, <1>4, <1>5, <1>6, <1>7, <1>8 DEF f

\* The times, entries and captured windows after the arrival of a notification.
LEMMA ArrivalInTime ==
    ASSUME LinkInv, LinkInv', FateInv, OnChunk
    PROVE  (CutIsLost /\ EntriesOfWindow /\ ArrivalBehind /\ CapturedInTime)'
<1> DEFINE f == Head(link)
           v == f.seq
<1>1. link # <<>>
  BY DEF OnChunk
<1>2. /\ f = link[1] /\ Len(link) \in Nat /\ Len(link) >= 1 /\ Len(link') = Len(link) - 1
      /\ \A k \in 1 .. Len(link') : k + 1 \in 1 .. Len(link) /\ link'[k] = link[k + 1]
      /\ DOMAIN arrival' = DOMAIN arrival \cup {v}
      /\ arrival'[v][1] = (IF v \in DOMAIN arrival THEN arrival[v][1] ELSE now)
      /\ arrival'[v][2] = now
      /\ \A s \in DOMAIN arrival : s # v => arrival'[s] = arrival[s]
      /\ UNCHANGED <<now, gWindowSeq, idx, lost>>
      /\ \A s \in DOMAIN buf' : s # v => s \in DOMAIN buf /\ buf'[s] = buf[s]
      /\ \/ f # Frame(v, f.idx) /\ buf' = buf /\ windows' = windows
         \/ /\ f = Frame(v, f.idx) /\ windows' = windows
            /\ v \in DOMAIN buf' /\ buf'[v] = Filled(f)
         \/ /\ f = Frame(v, f.idx) /\ v \notin DOMAIN buf'
            /\ DOMAIN Filled(f).chunks = 0 .. TotalChunks(v) - 1
            /\ \E e : e.seq = v /\ windows' = Append(windows, e)
  BY ChunkPushed
<1>3. /\ v \in Windows /\ v \in Nat \ {0} /\ TotalChunks(v) \in Nat \ {0}
      /\ f.idx \in 0 .. TotalChunks(v) - 1 /\ f.total = TotalChunks(v)
      /\ Sent(v, f.idx)
      /\ \A s \in DOMAIN buf : \A i \in DOMAIN buf[s].chunks : Before(s, i, v, f.idx)
      /\ \A s \in DOMAIN arrival : Before(s, 0, v, f.idx)
      /\ \A k \in 1 .. Len(windows) : windows[k].seq < v
      /\ \A k \in 1 .. Len(link) : k # 1 => Before(v, f.idx, link[k].seq, link[k].idx)
  BY <1>1, HeadOfLink
<1>4. TypeOK /\ EntriesOfWindow
  BY DEF LinkInv, LinkTypeOK, FateInv
<1>5. /\ Filled(f).total = TotalChunks(v)
      /\ \/ /\ v \in DOMAIN buf /\ now - buf[v].first_seen <= Ttl
            /\ Filled(f).first_seen = buf[v].first_seen
            /\ DOMAIN Filled(f).chunks = DOMAIN buf[v].chunks \cup {f.idx}
         \/ /\ v \in DOMAIN buf => now - buf[v].first_seen > Ttl
            /\ Filled(f).first_seen = now
            /\ DOMAIN Filled(f).chunks = {f.idx}
  BY <1>3, <1>4, FilledEntry
<1> HIDE DEF f
<1>t. now \in Nat /\ Ttl \in Nat /\ 0 \in 0 .. now /\ now \in 0 .. now
  BY AssemblerAssumption, <1>4 DEF TypeOK
<1>u. \A s \in DOMAIN arrival : arrival[s][1] \in 0 .. now /\ arrival[s][2] \in 0 .. now
  BY DEF FateInv, ArrivalBehind
<1>v. arrival'[v][1] \in 0 .. now /\ arrival'[v][2] \in 0 .. now
  BY <1>2, <1>t, <1>u
<1>w. \A w : TotalChunks(w)' = TotalChunks(w)
  BY DEF TotalChunks
<1>z. f.idx = 0 => v \notin DOMAIN arrival
  BY <1>3 DEF Before
<1>6. CutIsLost'
  BY <1>2 DEF FateInv, CutIsLost, Frames, Frame, TotalChunks, SamplesIn, Payload
<1>7. EntriesOfWindow'
  <2> SUFFICES ASSUME NEW s \in DOMAIN buf'
               PROVE  /\ buf'[s].total = TotalChunks(s) /\ DOMAIN buf'[s].chunks # {}
                      /\ s \in DOMAIN arrival' /\ arrival'[s][1] <= buf'[s].first_seen
                      /\ 0 \in DOMAIN buf'[s].chunks => buf'[s].first_seen <= arrival'[s][1]
    BY <1>w DEF EntriesOfWindow
  <2>1. CASE s # v
    BY <1>2, <1>4, <2>1 DEF EntriesOfWindow
  <2>2. CASE s = v /\ buf' = buf
    BY <1>2, <1>4, <2>2 DEF EntriesOfWindow
  <2>3. CASE s = v /\ buf'[v] = Filled(f)
    <3>1. CASE /\ v \in DOMAIN buf /\ Filled(f).first_seen = buf[v].first_seen
               /\ DOMAIN Filled(f).chunks = DOMAIN buf[v].chunks \cup {f.idx}
      BY <1>2, <1>4, <1>5, <1>z, <2>3, <3>1 DEF EntriesOfWindow
    <3>2. CASE Filled(f).first_seen = now /\ DOMAIN Filled(f).chunks = {f.idx}
      <4>1. arrival'[v][1] <= now /\ (f.idx = 0 => arrival'[v][1] = now)
        BY <1>2, <1>t, <1>v, <1>z
      <4> QED
        BY <1>2, <1>5, <1>t, <2>3, <3>2, <4>1
    <3> QED
      BY <1>5, <3>1, <3>2
  <2> QED
    BY <1>2, <2>1, <2>2, <2>3
<1>8. ArrivalBehind'
  <2> SUFFICES ASSUME NEW s \in DOMAIN arrival'
               PROVE  /\ arrival'[s][1] \in 0 .. now /\ arrival'[s][2] \in 0 .. now
                      /\ s \in Windows /\ Sent(s, 0)
                      /\ \A k \in 1 .. Len(link') : Before(s, 0, link'[k].seq, link'[k].idx)
    BY <1>2 DEF ArrivalBehind, Sent, Before
  <2>1. CASE s # v
    BY <1>2, <2>1 DEF FateInv, ArrivalBehind
  <2>2. CASE s = v
    <3>1. gWindowSeq \in Nat /\ f.idx \in Nat
      BY <1>3 DEF LinkInv, LinkTypeOK
    <3>2. idx \in Nat
      <4>1. gWindowSeq = 0 \/ gWindowSeq \in Windows
        BY LinkAssumption DEF LinkInv, LinkTypeOK
      <4>2. gWindowSeq \in Windows => TotalChunks(gWindowSeq) \in Nat
        BY TotalChunksPositive
      <4> QED
        BY <3>1, <4>1, <4>2 DEF LinkInv, LinkTypeOK
    <3>3. Sent(v, 0)
      BY <1>3, <3>1, <3>2 DEF Sent, Before
    <3>4. \A k \in 1 .. Len(link') : Before(v, 0, link'[k].seq, link'[k].idx)
      <4> TAKE k \in 1 .. Len(link')
      <4>1. k + 1 \in 1 .. Len(link) /\ k + 1 # 1 /\ link'[k] = link[k + 1]
        BY <1>2
      <4>2. link[k + 1].idx \in Nat
        <5>1. link[k + 1] \in Notifications
          BY <4>1, ElementOfSeq DEF LinkInv, LinkTypeOK, Notifications
        <5>2. /\ link[k + 1].seq \in Windows
              /\ link[k + 1].idx \in 0 .. TotalChunks(link[k + 1].seq) - 1
              /\ TotalChunks(link[k + 1].seq) \in Nat \ {0}
          BY <5>1, HeaderInRange
        <5> QED
          BY <5>2
      <4>3. Before(v, f.idx, link[k + 1].seq, link[k + 1].idx)
        BY <1>3, <4>1
      <4> QED
        BY <3>1, <4>1, <4>2, <4>3 DEF Before
    <3> QED
      BY <1>v, <1>3, <2>2, <3>3, <3>4
  <2> QED
    BY <2>1, <2>2
<1>9. CapturedInTime'
  <2>1. ASSUME NEW k \in 1 .. Len(windows)
        PROVE  /\ windows[k].seq \notin DOMAIN buf'
               /\ windows[k].seq \in DOMAIN arrival'
               /\ arrival'[windows[k].seq][2] - arrival'[windows[k].seq][1] <= Ttl
    <3>1. windows[k].seq # v
      BY <1>3
    <3>2. windows[k].seq \notin DOMAIN buf /\ windows[k].seq \in DOMAIN arrival /\ Spread(windows[k].seq) <= Ttl
      BY DEF FateInv, CapturedInTime
    <3> QED
      BY <1>2, <3>1, <3>2 DEF Spread
  <2>2. CASE windows' = windows
    BY <2>1, <2>2 DEF CapturedInTime, Spread
  <2>3. ASSUME NEW e, e.seq = v, windows' = Append(windows, e), v \notin DOMAIN buf',
               DOMAIN Filled(f).chunks = 0 .. TotalChunks(v) - 1
        PROVE  CapturedInTime'
    <3>1. v \in DOMAIN arrival' /\ now - arrival'[v][1] <= Ttl
      <4>1. 0 \in 0 .. TotalChunks(v) - 1
        BY <1>3
      <4>2. CASE v \in DOMAIN buf /\ 0 \in DOMAIN buf[v].chunks /\ now - buf[v].first_seen <= Ttl
        <5>1. v \in DOMAIN arrival /\ buf[v].first_seen <= arrival[v][1]
          BY <1>4, <4>2 DEF EntriesOfWindow
        <5>2. buf[v].first_seen \in Nat /\ arrival[v][1] \in Nat
          BY <1>4, <1>t, <1>u, <4>2, <5>1 DEF TypeOK
        <5> QED
          BY <1>2, <1>t, <4>2, <5>1, <5>2
      <4>3. CASE f.idx = 0
        BY <1>2, <1>t, <1>z, <4>3
      <4> QED
        BY <1>5, <2>3, <4>1, <4>2, <4>3
    <3>2. PICK S : windows \in Seq(S)
      BY DEF LinkInv, CapturedBehind
    <3>3. windows \in Seq(S \cup {e}) /\ e \in S \cup {e}
      BY <3>2
    <3>4. /\ Len(windows) \in Nat /\ Len(windows') = Len(windows) + 1
          /\ \A k \in 1 .. Len(windows) : windows'[k] = windows[k]
          /\ windows'[Len(windows) + 1] = e
      BY <2>3, <3>3, AppendProperties, LenProperties
    <3>5. \A k \in 1 .. Len(windows') : k \in 1 .. Len(windows) \/ k = Len(windows) + 1
      BY <3>4
    <3> SUFFICES ASSUME NEW k \in 1 .. Len(windows')
                 PROVE  /\ windows'[k].seq \notin DOMAIN buf'
                        /\ windows'[k].seq \in DOMAIN arrival'
                        /\ arrival'[windows'[k].seq][2] - arrival'[windows'[k].seq][1] <= Ttl
      BY DEF CapturedInTime, Spread
    <3>6. CASE k \in 1 .. Len(windows)
      BY <2>1, <3>4, <3>6
    <3>7. CASE k = Len(windows) + 1
      BY <1>2, <2>3, <3>1, <3>4, <3>7
    <3> QED
      BY <3>5, <3>6, <3>7
  <2> QED
    BY <1>2, <2>2, <2>3
<1> QED
  BY <1>6, <1>7, <1>8, <1>9

\* Which windows are captured after one more has been.
LEMMA CapturedAppended ==
    ASSUME LinkInv, NEW e, windows' = Append(windows, e)
    PROVE  \A w : Captured(w)' <=> (Captured(w) \/ w = e.seq)
<1>1. PICK S : windows \in Seq(S)
  BY DEF LinkInv, CapturedBehind
<1>2. windows \in Seq(S \cup {e}) /\ e \in S \cup {e}
  BY <1>1
<1>3. /\ Len(windows) \in Nat /\ Len(windows') = Len(windows) + 1
      /\ \A k \in 1 .. Len(windows) : windows'[k] = windows[k]
      /\ windows'[Len(windows) + 1] = e
  BY <1>2, AppendProperties, LenProperties
<1>4. /\ \A k \in 1 .. Len(windows') : k \in 1 .. Len(windows) \/ k = Len(windows) + 1
      /\ \A k \in 1 .. Len(windows) : k \in 1 .. Len(windows')
      /\ Len(windows) + 1 \in 1 .. Len(windows')
  BY <1>3
<1>5. \A k \in 1 .. Len(windows') : windows'[k].seq = e.seq \/ k \in 1 .. Len(windows)
  BY <1>3, <1>4
<1> QED
  BY <1>3, <1>4, <1>5 DEF Captured

\* A lost window stays without its chunk when a notification arrives.
LEMMA ArrivalKeepsLost ==
    ASSUME LinkInv, LinkInv', FateInv, OnChunk
    PROVE  LostMissesAChunk'
<1> DEFINE f == Head(link)
           v == f.seq
<1>1. link # <<>>
  BY DEF OnChunk
<1>2. /\ f = link[1] /\ 1 \in 1 .. Len(link)
      /\ \A k \in 1 .. Len(link') : k + 1 \in 1 .. Len(link) /\ link'[k] = link[k + 1]
      /\ UNCHANGED <<now, gWindowSeq, idx, lost>>
      /\ \A s \in DOMAIN buf' : s # v => s \in DOMAIN buf /\ buf'[s] = buf[s]
      /\ \/ f # Frame(v, f.idx) /\ buf' = buf /\ windows' = windows
         \/ /\ f = Frame(v, f.idx) /\ windows' = windows
            /\ v \in DOMAIN buf' /\ buf'[v] = Filled(f)
         \/ /\ f = Frame(v, f.idx) /\ v \notin DOMAIN buf'
            /\ DOMAIN Filled(f).chunks = 0 .. TotalChunks(v) - 1
            /\ \E e : e.seq = v /\ windows' = Append(windows, e)
  BY <1>1, ChunkPushed, HeadOfLink
<1>3. v \in Windows /\ f.total = TotalChunks(v)
  BY <1>1, HeadOfLink
<1>4. TypeOK /\ EntriesOfWindow
  BY DEF LinkInv, LinkTypeOK, FateInv
<1>5. \/ v \in DOMAIN buf /\ DOMAIN Filled(f).chunks = DOMAIN buf[v].chunks \cup {f.idx}
      \/ DOMAIN Filled(f).chunks = {f.idx}
  BY <1>3, <1>4, FilledEntry
<1> HIDE DEF f
<1>6. \A w, i : Frame(w, i)' = Frame(w, i) /\ TotalChunks(w)' = TotalChunks(w)
  BY DEF Frame, TotalChunks, SamplesIn, Payload
<1> SUFFICES ASSUME NEW w \in lost
             PROVE  /\ ~Captured(w)'
                    /\ \E i \in 0 .. TotalChunks(w) - 1 :
                         /\ Sent(w, i)' /\ ~Buffered(w, i)'
                         /\ \A k \in 1 .. Len(link') : link'[k] # Frame(w, i)
  BY <1>2, <1>6 DEF LostMissesAChunk
<1>7. ~Captured(w)
  BY DEF FateInv, LostMissesAChunk
<1>8. PICK i \in 0 .. TotalChunks(w) - 1 :
        /\ Sent(w, i) /\ ~Buffered(w, i)
        /\ \A k \in 1 .. Len(link) : link[k] # Frame(w, i)
  BY DEF FateInv, LostMissesAChunk
<1>9. f = Frame(v, f.idx) => ~(w = v /\ i = f.idx)
  BY <1>2, <1>8
<1>10. f = Frame(v, f.idx) /\ w = v => i \notin DOMAIN Filled(f).chunks
  BY <1>5, <1>8, <1>9 DEF Buffered
<1>11. ~Buffered(w, i)'
  <2>1. CASE w # v
    BY <1>2, <1>8, <2>1 DEF Buffered
  <2>2. CASE w = v
    BY <1>2, <1>8, <1>10, <2>2 DEF Buffered
  <2> QED
    BY <2>1, <2>2
<1>12. ~Captured(w)'
  <2>1. CASE windows' = windows
    BY <1>7, <2>1 DEF Captured
  <2>2. CASE /\ f = Frame(v, f.idx) /\ DOMAIN Filled(f).chunks = 0 .. TotalChunks(v) - 1
             /\ \E e : e.seq = v /\ windows' = Append(windows, e)
    <3>1. w # v
      BY <1>10, <2>2
    <3>2. PICK e : e.seq = v /\ windows' = Append(windows, e)
      BY <2>2
    <3> QED
      BY <1>7, <3>1, <3>2, CapturedAppended
  <2> QED
    BY <1>2, <2>1, <2>2
<1>13. Sent(w, i)'
  BY <1>2, <1>8 DEF Sent, Before
<1>14. \A k \in 1 .. Len(link') : link'[k] # Frame(w, i)
  BY <1>2, <1>8
<1> QED
  BY <1>11, <1>12, <1>13, <1>14

\* A window of which nothing is missing has not been buffered when the first
\* notification of a later one arrives: it was complete.
LEMMA EarlierNotBuffered ==
    ASSUME LinkInv, FateInv, link # <<>>,
           NEW w \in Windows, NothingMissing(w), w # Head(link).seq
    PROVE  w \notin DOMAIN buf
<1> DEFINE f == Head(link)
           v == f.seq
<1>1. /\ f = link[1] /\ v \in Nat \ {0} /\ v <= gWindowSeq
      /\ \A s \in DOMAIN buf : \A i \in DOMAIN buf[s].chunks : Before(s, i, v, f.idx)
      /\ \A k \in 1 .. Len(link) : k # 1 => Before(v, f.idx, link[k].seq, link[k].idx)
  BY HeadOfLink
<1> HIDE DEF f
<1> SUFFICES ASSUME w \in DOMAIN buf PROVE FALSE
  OBVIOUS
<1>2. buf[w].total = TotalChunks(w) /\ DOMAIN buf[w].chunks # {}
  BY DEF FateInv, EntriesOfWindow
<1>3. w \in Nat /\ gWindowSeq \in Nat /\ w # v
  BY LinkAssumption DEF LinkInv, LinkTypeOK, f
<1>4. w < v
  <2>1. PICK i : i \in DOMAIN buf[w].chunks
    BY <1>2
  <2> QED
    BY <1>1, <1>3, <2>1 DEF Before
<1>5. PICK j \in 0 .. TotalChunks(w) - 1 : j \notin DOMAIN buf[w].chunks
  <2>1. DOMAIN buf[w].chunks # 0 .. TotalChunks(w) - 1
    BY <1>2 DEF LinkInv, IInv, PendingMissesAChunk
  <2>2. DOMAIN buf[w].chunks \subseteq 0 .. TotalChunks(w) - 1
    BY <1>2 DEF LinkInv, IInv, EntriesHomogeneous, ChunkOf
  <2> QED
    BY <2>1, <2>2
<1>6. Sent(w, j)
  BY <1>1, <1>3, <1>4 DEF Sent, Before
<1>7. PICK k \in 1 .. Len(link) : link[k].seq = w /\ link[k].idx = j
  BY <1>5, <1>6 DEF NothingMissing, InFlight, Buffered
<1>8. k # 1
  BY <1>1, <1>3, <1>7
<1>9. Before(v, f.idx, w, j)
  BY <1>1, <1>7, <1>8
<1> QED
  BY <1>1, <1>3, <1>4, <1>9 DEF Before

\* A notification that arrives leaves nothing missing of a window that is neither
\* broken nor captured.
LEMMA ArrivalLosesNothing ==
    ASSUME LinkInv, LinkInv', FateInv, OnChunk
    PROVE  IntactSoFar'
<1> DEFINE f == Head(link)
           v == f.seq
<1>1. link # <<>>
  BY DEF OnChunk
<1>2. /\ f = link[1] /\ 1 \in 1 .. Len(link) /\ Len(link) \in Nat /\ Len(link') = Len(link) - 1
      /\ \A k \in 1 .. Len(link') : k + 1 \in 1 .. Len(link) /\ link'[k] = link[k + 1]
      /\ f \in Notifications
      /\ DOMAIN arrival' = DOMAIN arrival \cup {v}
      /\ arrival'[v][1] = (IF v \in DOMAIN arrival THEN arrival[v][1] ELSE now)
      /\ arrival'[v][2] = now
      /\ \A s \in DOMAIN arrival : s # v => arrival'[s] = arrival[s]
      /\ UNCHANGED <<now, gWindowSeq, idx, lost>>
      /\ \/ f # Frame(v, f.idx) /\ buf' = buf /\ windows' = windows
         \/ /\ f = Frame(v, f.idx) /\ windows' = windows
            /\ v \in DOMAIN buf' /\ buf'[v] = Filled(f)
         \/ /\ f = Frame(v, f.idx) /\ v \notin DOMAIN buf'
            /\ DOMAIN Filled(f).chunks = 0 .. TotalChunks(v) - 1
            /\ \E e : e.seq = v /\ windows' = Append(windows, e)
  BY <1>1, ChunkPushed, HeadOfLink
<1>3. /\ v \in Windows /\ v \in Nat \ {0} /\ TotalChunks(v) \in Nat \ {0}
      /\ f.idx \in 0 .. TotalChunks(v) - 1 /\ f.total = TotalChunks(v)
  BY <1>1, HeadOfLink
<1>4. TypeOK /\ EntriesOfWindow
  BY DEF LinkInv, LinkTypeOK, FateInv
<1>5. \/ DOMAIN Filled(f).chunks = DOMAIN buf[v].chunks \cup {f.idx}
      \/ /\ v \in DOMAIN buf => now - buf[v].first_seen > Ttl
         /\ DOMAIN Filled(f).chunks = {f.idx}
  BY <1>3, <1>4, FilledEntry
<1>6. f \in Frames => f = Frame(v, f.idx)
  BY <1>2, AcceptedWhole
<1>7. f \in Frames \/ v \in lost
  BY <1>2 DEF FateInv, CutIsLost
<1>s. ASSUME NEW w \in Windows, NothingMissing(w), w # v PROVE w \notin DOMAIN buf
  BY <1>1, <1>s, EarlierNotBuffered
<1> HIDE DEF f
<1>t. now \in Nat /\ Ttl \in Nat
  BY AssemblerAssumption, <1>4 DEF TypeOK
<1>u. \A s \in DOMAIN arrival : arrival[s][1] \in Nat /\ arrival[s][2] \in Nat /\ arrival[s][2] <= now
  BY <1>t DEF FateInv, ArrivalBehind
<1>w. \A w : TotalChunks(w)' = TotalChunks(w)
  BY DEF TotalChunks
<1>r. gWindowSeq \in 0 .. MaxWindows /\ MaxWindows \in Nat
  BY LinkAssumption DEF LinkInv, LinkTypeOK
<1>8. \A w : Captured(w) => Captured(w)'
  <2>1. CASE windows' = windows
    BY <2>1 DEF Captured
  <2>2. CASE \E e : e.seq = v /\ windows' = Append(windows, e)
    BY <2>2, CapturedAppended
  <2> QED
    BY <1>2, <2>1, <2>2
<1>9. ASSUME NEW e, e.seq = v, windows' = Append(windows, e), NEW w, w = v
      PROVE  Captured(w)'
  BY <1>9, CapturedAppended
<1> SUFFICES ASSUME NEW w \in 1 .. gWindowSeq, w \notin lost, ~Captured(w)',
                    ~(w \in DOMAIN arrival' /\ Spread(w)' > Ttl),
                    NEW i \in 0 .. TotalChunks(w) - 1, Sent(w, i)'
             PROVE  InFlight(w, i)' \/ Buffered(w, i)'
  <2> SUFFICES ASSUME NEW w \in 1 .. gWindowSeq, w \notin lost, ~Captured(w)',
                      ~(w \in DOMAIN arrival' /\ Spread(w)' > Ttl)
               PROVE  NothingMissing(w)'
    BY <1>2 DEF IntactSoFar
  <2> QED
    BY <1>w DEF NothingMissing
<1>10. w \in Windows
  BY <1>r, LinkAssumption
<1>11. ~(w \in DOMAIN arrival /\ Spread(w) > Ttl)
  <2> SUFFICES ASSUME w \in DOMAIN arrival, Spread(w) > Ttl PROVE FALSE
    OBVIOUS
  <2>1. w \in DOMAIN arrival'
    BY <1>2
  <2>2. CASE w # v
    BY <1>2, <2>1, <2>2 DEF Spread
  <2>3. CASE w = v
    <3>1. arrival'[v][1] = arrival[v][1] /\ arrival'[v][2] = now
      BY <1>2, <2>3
    <3>2. arrival[v][2] - arrival[v][1] > Ttl
      BY <2>3 DEF Spread
    <3>3. arrival'[v][2] - arrival'[v][1] > Ttl
      BY <1>t, <1>u, <2>3, <3>1, <3>2
    <3> QED
      BY <2>1, <2>3, <3>3 DEF Spread
  <2> QED
    BY <2>2, <2>3
<1>12. NothingMissing(w)
  BY <1>8, <1>11 DEF FateInv, IntactSoFar
<1>13. Sent(w, i)
  BY <1>2 DEF Sent, Before
<1>14. CASE w # v
  <2>1. w \notin DOMAIN buf
    BY <1>s, <1>10, <1>12, <1>14
  <2>2. PICK k \in 1 .. Len(link) : link[k].seq = w /\ link[k].idx = i
    BY <1>12, <1>13, <2>1 DEF NothingMissing, InFlight, Buffered
  <2>3. k # 1
    BY <1>2, <1>14, <2>2
  <2>4. k - 1 \in 1 .. Len(link') /\ link'[k - 1] = link[k]
    <3>1. k - 1 \in 1 .. Len(link') /\ (k - 1) + 1 = k
      BY <1>2, <2>3
    <3> QED
      BY <1>2, <3>1
  <2> QED
    BY <2>2, <2>4 DEF InFlight
<1>15. CASE w = v
  <2>1. f = Frame(v, f.idx)
    BY <1>6, <1>7, <1>15
  <2>2. v \in DOMAIN buf' /\ buf'[v] = Filled(f)
    <3>1. ~\E e : e.seq = v /\ windows' = Append(windows, e)
      BY <1>9, <1>15
    <3> QED
      BY <1>2, <2>1, <3>1
  <2>3. CASE i = f.idx
    BY <1>5, <1>15, <2>2, <2>3 DEF Buffered
  <2>4. CASE i # f.idx /\ InFlight(w, i)
    <3>1. PICK k \in 1 .. Len(link) : link[k].seq = w /\ link[k].idx = i
      BY <2>4 DEF InFlight
    <3>2. k # 1
      BY <1>2, <2>4, <3>1
    <3>3. k - 1 \in 1 .. Len(link') /\ (k - 1) + 1 = k
      BY <1>2, <3>2
    <3> QED
      BY <1>2, <3>1, <3>3 DEF InFlight
  <2>5. CASE Buffered(w, i)
    <3>1. v \in DOMAIN buf /\ i \in DOMAIN buf[v].chunks
      BY <1>15, <2>5 DEF Buffered
    <3>2. v \in DOMAIN arrival /\ arrival[v][1] <= buf[v].first_seen /\ buf[v].first_seen \in Nat
      BY <1>4, <1>t, <3>1 DEF EntriesOfWindow, TypeOK
    <3>3. ~(now - buf[v].first_seen > Ttl)
      <4> SUFFICES ASSUME now - buf[v].first_seen > Ttl PROVE FALSE
        OBVIOUS
      <4>1. arrival'[v][1] = arrival[v][1] /\ arrival'[v][2] = now /\ v \in DOMAIN arrival'
        BY <1>2, <3>2
      <4>2. arrival'[v][2] - arrival'[v][1] > Ttl
        BY <1>t, <1>u, <3>2, <4>1
      <4> QED
        BY <1>15, <4>1, <4>2 DEF Spread
    <3> QED
      BY <1>5, <1>15, <2>2, <3>1, <3>3 DEF Buffered
  <2> QED
    BY <1>12, <1>13, <2>3, <2>4, <2>5 DEF NothingMissing
<1> QED
  BY <1>14, <1>15

\* The position of the sender, as numbers.
LEMMA SenderPosition ==
    ASSUME LinkTypeOK
    PROVE  /\ gWindowSeq \in Nat /\ gWindowSeq <= MaxWindows /\ MaxWindows \in Nat
           /\ idx \in Nat
           /\ \A w \in 1 .. gWindowSeq : w \in Windows
           /\ \A w \in Windows : w \in Nat \ {0} /\ TotalChunks(w) \in Nat \ {0}
<1>1. /\ gWindowSeq \in Nat /\ gWindowSeq <= MaxWindows /\ MaxWindows \in Nat
      /\ \A w \in 1 .. gWindowSeq : w \in Windows
      /\ \A w \in Windows : w \in Nat \ {0}
  BY LinkAssumption DEF LinkTypeOK
<1>2. \A w \in Windows : TotalChunks(w) \in Nat \ {0}
  BY TotalChunksPositive
<1>3. gWindowSeq = 0 \/ gWindowSeq \in 1 .. gWindowSeq
  BY <1>1
<1>4. idx \in Nat
  BY <1>1, <1>2, <1>3 DEF LinkTypeOK
<1> QED
  BY <1>1, <1>2, <1>4

\* A new window has sent nothing yet.
LEMMA PublishFate ==
    ASSUME LinkInv, FateInv, PublishWindow
    PROVE  FateInv'
<1>1. /\ gWindowSeq' = gWindowSeq + 1 /\ idx' = 0 /\ LoopOver
      /\ UNCHANGED <<now, buf, link, windows, lost, arrival>>
  BY DEF PublishWindow, vars
<1>2. LinkTypeOK
  BY DEF LinkInv
<1>3. /\ gWindowSeq \in Nat /\ idx \in Nat
      /\ \A w \in 1 .. gWindowSeq : w \in Windows
      /\ \A w \in Windows : w \in Nat \ {0} /\ TotalChunks(w) \in Nat \ {0}
  BY <1>2, SenderPosition
<1>4. \A w, i : Frame(w, i)' = Frame(w, i) /\ TotalChunks(w)' = TotalChunks(w)
  BY DEF Frame, TotalChunks, SamplesIn, Payload
<1>5. ASSUME NEW w \in Windows, NEW i \in 0 .. TotalChunks(w) - 1
      PROVE  Sent(w, i)' <=> Sent(w, i)
  <2>1. w \in Nat \ {0} /\ i \in Nat /\ i < TotalChunks(w) /\ TotalChunks(w) \in Nat
    BY <1>3
  <2>2. w = gWindowSeq => idx = TotalChunks(w)
    BY <1>1, <2>1 DEF LoopOver
  <2> QED
    BY <1>1, <1>3, <2>1, <2>2 DEF Sent, Before
<1>6. CutIsLost' /\ EntriesOfWindow' /\ CapturedInTime'
  BY <1>1, <1>4 DEF FateInv, CutIsLost, EntriesOfWindow, CapturedInTime, Spread, Frames
<1>7. ArrivalBehind'
  <2>1. ASSUME NEW s \in DOMAIN arrival PROVE Sent(s, 0)'
    <3>1. s \in Windows /\ Sent(s, 0)
      BY DEF FateInv, ArrivalBehind
    <3>2. 0 \in 0 .. TotalChunks(s) - 1
      BY <1>3, <3>1
    <3> QED
      BY <1>5, <3>1, <3>2
  <2> QED
    BY <1>1, <2>1 DEF FateInv, ArrivalBehind
<1>8. LostMissesAChunk'
  <2> SUFFICES ASSUME NEW w \in lost
               PROVE  /\ ~Captured(w)
                      /\ \E i \in 0 .. TotalChunks(w) - 1 :
                           /\ Sent(w, i)' /\ ~Buffered(w, i)
                           /\ \A k \in 1 .. Len(link) : link[k] # Frame(w, i)
    BY <1>1, <1>4 DEF LostMissesAChunk, Captured, Buffered
  <2>1. w \in Windows
    BY <1>2, <1>3 DEF LinkTypeOK
  <2> QED
    BY <1>5, <2>1 DEF FateInv, LostMissesAChunk
<1>9. IntactSoFar'
  <2> SUFFICES ASSUME NEW w \in 1 .. gWindowSeq', w \notin lost, ~Captured(w),
                      ~(w \in DOMAIN arrival /\ Spread(w) > Ttl),
                      NEW i \in 0 .. TotalChunks(w) - 1, Sent(w, i)'
               PROVE  InFlight(w, i) \/ Buffered(w, i)
    BY <1>1, <1>4 DEF IntactSoFar, NothingMissing, Captured, Spread, InFlight, Buffered
  <2>1. CASE w \in 1 .. gWindowSeq
    BY <1>3, <1>5, <2>1 DEF FateInv, IntactSoFar, NothingMissing
  <2>2. CASE w = gWindowSeq + 1
    <3>1. i \in Nat
      BY <1>3, LinkAssumption
    <3> QED
      BY <1>1, <1>3, <2>2, <3>1 DEF Sent, Before
  <2> QED
    BY <1>1, <1>3, <2>1, <2>2
<1> QED
  BY <1>6, <1>7, <1>8, <1>9 DEF FateInv

\* A frame that is written whole is on its way; one that is cut or lost takes its
\* window along.
LEMMA WriteFate ==
    ASSUME LinkInv, LinkInv', FateInv, WriteChunk \/ WriteChunkCut \/ WriteChunkLost
    PROVE  FateInv'
<1> DEFINE g == gWindowSeq
           f == Frame(g, idx)
<1>1. /\ ~LoopOver /\ gWindowSeq' = gWindowSeq /\ idx' = idx + 1
      /\ UNCHANGED <<now, buf, windows, arrival>>
  BY DEF WriteChunk, WriteChunkCut, WriteChunkLost, vars
<1>2. LinkTypeOK /\ link \in Seq(Notifications)
  BY DEF LinkInv, LinkTypeOK, Notifications
<1>3. /\ g \in Nat /\ idx \in Nat
      /\ \A w \in 1 .. g : w \in Windows
      /\ \A w \in Windows : w \in Nat \ {0} /\ TotalChunks(w) \in Nat \ {0}
  BY <1>2, SenderPosition
<1>4. /\ g \in Windows /\ idx \in 0 .. TotalChunks(g) - 1
      /\ f \in Frames /\ f.seq = g /\ f.idx = idx
      /\ Truncated(f).seq = g /\ Truncated(f).idx = idx
  BY <1>1, <1>2, SenderFrame
<1>5. \A w, i : Frame(w, i)' = Frame(w, i) /\ TotalChunks(w)' = TotalChunks(w)
  BY DEF Frame, TotalChunks, SamplesIn, Payload
<1>6. Truncated(f) # f
  <2>1. SamplesIn(g, idx) \in Int
    BY <1>3, <1>4, AssemblerAssumption DEF SamplesIn
  <2>2. f.payload.len = SamplesIn(g, idx) /\ Truncated(f).payload.len = SamplesIn(g, idx) - 1
    BY DEF Frame, Payload, Truncated
  <2> QED
    BY <2>1, <2>2
<1> HIDE DEF f
<1>7. \/ lost' = lost /\ link' = Append(link, f)
      \/ lost' = lost \cup {g} /\ link' = Append(link, Truncated(f))
      \/ lost' = lost \cup {g} /\ link' = link
  BY DEF WriteChunk, WriteChunkCut, WriteChunkLost, f
<1>8. ASSUME NEW x \in Notifications, link' = Append(link, x)
      PROVE  /\ Len(link) \in Nat /\ Len(link') = Len(link) + 1
             /\ \A k \in 1 .. Len(link) : link'[k] = link[k] /\ k \in 1 .. Len(link')
             /\ link'[Len(link) + 1] = x /\ Len(link) + 1 \in 1 .. Len(link')
             /\ \A k \in 1 .. Len(link') : k \in 1 .. Len(link) \/ k = Len(link) + 1
  BY <1>2, <1>8, AppendProperties, LenProperties
<1>9. f \in Notifications /\ Truncated(f) \in Notifications
  BY <1>4 DEF Notifications
<1>10. /\ \A k \in 1 .. Len(link) : k \in 1 .. Len(link') /\ link'[k] = link[k]
       /\ \A k \in 1 .. Len(link') :
            \/ k \in 1 .. Len(link) /\ link'[k] = link[k]
            \/ link'[k] = f /\ lost' = lost
            \/ link'[k] = Truncated(f) /\ lost' = lost \cup {g}
  BY <1>7, <1>8, <1>9
<1>11. g \in lost' \/ \E k \in 1 .. Len(link') : link'[k] = f
  BY <1>7, <1>8, <1>9
<1>12. lost \subseteq lost' /\ lost' \subseteq lost \cup {g}
  BY <1>7
<1>13. ASSUME NEW w \in Windows, NEW i \in Nat
       PROVE  Sent(w, i)' <=> (Sent(w, i) \/ (w = g /\ i = idx))
  BY <1>1, <1>3 DEF Sent, Before
<1>14. CutIsLost'
  <2> SUFFICES ASSUME NEW k \in 1 .. Len(link')
               PROVE  link'[k] \in Frames \/ link'[k].seq \in lost'
    BY DEF CutIsLost, Frames, Frame, TotalChunks, SamplesIn, Payload
  <2> QED
    BY <1>4, <1>10, <1>12 DEF FateInv, CutIsLost
<1>15. EntriesOfWindow' /\ CapturedInTime'
  BY <1>1, <1>5 DEF FateInv, EntriesOfWindow, CapturedInTime, Spread
<1>16. ArrivalBehind'
  <2>1. ASSUME NEW s \in DOMAIN arrival
        PROVE  /\ Sent(s, 0)'
               /\ \A k \in 1 .. Len(link') : Before(s, 0, link'[k].seq, link'[k].idx)
    <3>1. /\ s \in Windows /\ Sent(s, 0)
          /\ \A k \in 1 .. Len(link) : Before(s, 0, link[k].seq, link[k].idx)
      BY DEF FateInv, ArrivalBehind
    <3>2. Sent(s, 0)'
      BY <1>13, <3>1
    <3>3. Before(s, 0, g, idx)
      BY <3>1 DEF Sent
    <3> QED
      BY <1>4, <1>10, <3>1, <3>2, <3>3
  <2> QED
    BY <1>1, <2>1 DEF FateInv, ArrivalBehind
<1>17. LostMissesAChunk'
  <2> SUFFICES ASSUME NEW w \in lost'
               PROVE  /\ ~Captured(w)
                      /\ \E i \in 0 .. TotalChunks(w) - 1 :
                           /\ Sent(w, i)' /\ ~Buffered(w, i)
                           /\ \A k \in 1 .. Len(link') : link'[k] # Frame(w, i)
    BY <1>1, <1>5 DEF LostMissesAChunk, Captured, Buffered
  <2>1. CASE w \in lost
    <3>1. w \in Windows /\ w \in Nat
      BY <1>2, <1>3, <2>1 DEF LinkTypeOK
    <3>2. ~Captured(w)
      BY <2>1 DEF FateInv, LostMissesAChunk
    <3>3. PICK i \in 0 .. TotalChunks(w) - 1 :
            /\ Sent(w, i) /\ ~Buffered(w, i)
            /\ \A k \in 1 .. Len(link) : link[k] # Frame(w, i)
      BY <2>1 DEF FateInv, LostMissesAChunk
    <3>4. i \in Nat
      BY LinkAssumption
    <3>5. ~(w = g /\ i = idx)
      BY <1>3, <3>3 DEF Sent, Before
    <3>6. Frame(w, i).seq = w /\ Frame(w, i).idx = i
      BY <3>1, LinkAssumption DEF Frame
    <3>7. f # Frame(w, i) /\ Truncated(f) # Frame(w, i)
      BY <1>4, <3>5, <3>6
    <3>8. \A k \in 1 .. Len(link') : link'[k] # Frame(w, i)
      BY <1>10, <3>3, <3>7
    <3>9. Sent(w, i)'
      BY <1>13, <3>1, <3>3, <3>4
    <3> QED
      BY <3>2, <3>3, <3>8, <3>9
  <2>2. CASE w \notin lost
    <3>1. w = g /\ lost' # lost
      BY <1>12, <2>2
    <3>2. ~Captured(w)
      BY <1>4, <1>3, <3>1 DEF LinkInv, CapturedBehind, Captured
    <3> PICK i \in 0 .. TotalChunks(w) - 1 : i = idx
      BY <1>4, <3>1
    <3>3. ~Buffered(w, i)
      BY <1>3, <3>1 DEF LinkInv, BufferBehind, Buffered, Before
    <3>4. Sent(w, i)'
      BY <1>3, <1>4, <1>13, <3>1
    <3>5. \A k \in 1 .. Len(link) : link[k] # f
      <4> SUFFICES ASSUME NEW k \in 1 .. Len(link), link[k] = f PROVE FALSE
        OBVIOUS
      <4>1. Before(g, idx, g, idx)
        BY <1>4 DEF LinkInv, LinkSorted
      <4> QED
        BY <1>3, <4>1 DEF Before
    <3>6. \A k \in 1 .. Len(link') : link'[k] # f
      BY <1>6, <1>10, <3>1, <3>5
    <3>7. f = Frame(w, i)
      BY <3>1 DEF f
    <3> QED
      BY <3>2, <3>3, <3>4, <3>6, <3>7
  <2> QED
    BY <2>1, <2>2
<1>18. IntactSoFar'
  <2> SUFFICES ASSUME NEW w \in 1 .. g, w \notin lost', ~Captured(w),
                      ~(w \in DOMAIN arrival /\ Spread(w) > Ttl),
                      NEW i \in 0 .. TotalChunks(w) - 1, Sent(w, i)'
               PROVE  InFlight(w, i)' \/ Buffered(w, i)
    BY <1>1, <1>5 DEF IntactSoFar, NothingMissing, Captured, Spread, Buffered
  <2>1. NothingMissing(w)
    BY <1>12 DEF FateInv, IntactSoFar
  <2>2. w \in Windows /\ i \in Nat
    BY <1>3, LinkAssumption
  <2>3. CASE Sent(w, i)
    <3>1. InFlight(w, i) => InFlight(w, i)'
      BY <1>10 DEF InFlight
    <3> QED
      BY <2>1, <2>3, <3>1 DEF NothingMissing
  <2>4. CASE w = g /\ i = idx
    BY <1>4, <1>11, <2>4 DEF InFlight
  <2> QED
    BY <1>13, <2>2, <2>3, <2>4
<1> QED
  BY <1>14, <1>15, <1>16, <1>17, <1>18 DEF FateInv

\* The end of the connection breaks exactly the windows it takes a chunk from.
LEMMA CloseFate ==
    ASSUME LinkInv, FateInv, Close
    PROVE  FateInv'
<1>1. /\ link' = <<>> /\ lost' = lost \cup {link[k].seq : k \in 1 .. Len(link)}
      /\ UNCHANGED <<now, buf, gWindowSeq, idx, windows, arrival>>
  BY DEF Close, vars
<1>2. LinkTypeOK /\ link \in Seq(Notifications)
  BY DEF LinkInv, LinkTypeOK, Notifications
<1>3. \A k \in 1 .. Len(link') : FALSE
  BY <1>1
<1>4. \A w, i : Frame(w, i)' = Frame(w, i) /\ TotalChunks(w)' = TotalChunks(w)
  BY DEF Frame, TotalChunks, SamplesIn, Payload
<1>5. CutIsLost' /\ EntriesOfWindow' /\ ArrivalBehind' /\ CapturedInTime'
  BY <1>1, <1>3, <1>4 DEF FateInv, CutIsLost, EntriesOfWindow, ArrivalBehind,
                          CapturedInTime, Spread, Sent, Before
<1>6. LostMissesAChunk'
  <2> SUFFICES ASSUME NEW w \in lost'
               PROVE  /\ ~Captured(w)
                      /\ \E i \in 0 .. TotalChunks(w) - 1 : Sent(w, i) /\ ~Buffered(w, i)
    BY <1>1, <1>3, <1>4 DEF LostMissesAChunk, Captured, Buffered, Sent, Before
  <2>1. CASE w \in lost
    BY <2>1 DEF FateInv, LostMissesAChunk
  <2>2. ASSUME NEW k \in 1 .. Len(link), w = link[k].seq
        PROVE  /\ ~Captured(w)
               /\ \E i \in 0 .. TotalChunks(w) - 1 : Sent(w, i) /\ ~Buffered(w, i)
    <3>1. /\ w \in Nat /\ link[k].idx \in 0 .. TotalChunks(w) - 1
      <4>1. link[k] \in Notifications
        BY <1>2, ElementOfSeq
      <4> QED
        BY <2>2, <4>1, HeaderInRange
    <3>2. Sent(w, link[k].idx)
      BY <2>2 DEF LinkInv, LinkSorted, Sent
    <3>3. ~Buffered(w, link[k].idx)
      BY <2>2, <3>1 DEF LinkInv, BufferBehind, Buffered, Before
    <3>4. ~Captured(w)
      BY <2>2, <3>1 DEF LinkInv, CapturedBehind, Captured
    <3> QED
      BY <3>1, <3>2, <3>3, <3>4
  <2> QED
    BY <1>1, <2>1, <2>2
<1>7. IntactSoFar'
  <2> SUFFICES ASSUME NEW w \in 1 .. gWindowSeq, w \notin lost', ~Captured(w),
                      ~(w \in DOMAIN arrival /\ Spread(w) > Ttl),
                      NEW i \in 0 .. TotalChunks(w) - 1, Sent(w, i)
               PROVE  Buffered(w, i)
    BY <1>1, <1>4 DEF IntactSoFar, NothingMissing, Captured, Spread, Buffered, Sent, Before
  <2>1. w \notin lost /\ ~InFlight(w, i)
    BY <1>1 DEF InFlight
  <2> QED
    BY <2>1 DEF FateInv, IntactSoFar, NothingMissing
<1> QED
  BY <1>5, <1>6, <1>7 DEF FateInv

\* Subscribing, and the passing of time, decide nothing.
LEMMA QuietFate ==
    ASSUME LinkInv, FateInv, Subscribe \/ LinkTick \/ UNCHANGED allVars
    PROVE  FateInv'
<1>1. UNCHANGED <<buf, gWindowSeq, idx, link, windows, lost, arrival>>
  BY DEF Subscribe, LinkTick, Tick, linkVars, allVars, vars
<1>2. now \in Nat /\ (now' = now \/ now' = now + 1)
  <2>1. now' = now \/ now' = now + 1
    BY DEF Subscribe, LinkTick, Tick, allVars, vars
  <2> QED
    BY <2>1, AssemblerAssumption DEF LinkInv, LinkTypeOK, TypeOK
<1>3. \A w, i : Frame(w, i)' = Frame(w, i) /\ TotalChunks(w)' = TotalChunks(w)
  BY DEF Frame, TotalChunks, SamplesIn, Payload
<1>4. ArrivalBehind'
  <2>1. \A t \in 0 .. now : t \in 0 .. now'
    BY <1>2
  <2> QED
    BY <1>1, <2>1 DEF FateInv, ArrivalBehind, Sent, Before
<1>5. CutIsLost' /\ EntriesOfWindow' /\ CapturedInTime'
  BY <1>1, <1>3 DEF FateInv, CutIsLost, EntriesOfWindow, CapturedInTime, Spread, Frames
<1>6. LostMissesAChunk' /\ IntactSoFar'
  BY <1>1, <1>3 DEF FateInv, LostMissesAChunk, IntactSoFar, NothingMissing, Captured,
                    Spread, InFlight, Buffered, Sent, Before
<1> QED
  BY <1>4, <1>5, <1>6 DEF FateInv

\* Before anything is published no window has a fate.
LEMMA FateInit == LinkInit => FateInv
<1> SUFFICES ASSUME LinkInit PROVE FateInv
  OBVIOUS
<1>1. /\ DOMAIN buf = {} /\ DOMAIN arrival = {} /\ lost = {}
      /\ Len(link) = 0 /\ Len(windows) = 0 /\ gWindowSeq = 0
  BY DEF LinkInit, Init
<1>2. 1 .. 0 = {}
  OBVIOUS
<1> QED
  BY <1>1, <1>2 DEF FateInv, CutIsLost, EntriesOfWindow, ArrivalBehind, LostMissesAChunk,
                    CapturedInTime, IntactSoFar

\* Every step of a session keeps the account of what became of each window.
LEMMA FateInvariance == LinkSpec => [](LinkInv /\ FateInv)
<1>1. LinkInv /\ LinkInv' /\ FateInv /\ [LinkNext]_allVars => FateInv'
  <2> SUFFICES ASSUME LinkInv, LinkInv', FateInv, [LinkNext]_allVars PROVE FateInv'
    OBVIOUS
  <2>1. CASE OnChunk
    BY <2>1, ArrivalInTime, ArrivalKeepsLost, ArrivalLosesNothing DEF FateInv
  <2>2. CASE PublishWindow
    BY <2>2, PublishFate
  <2>3. CASE WriteChunk \/ WriteChunkCut \/ WriteChunkLost
    BY <2>3, WriteFate
  <2>4. CASE Close
    BY <2>4, CloseFate
  <2>5. CASE Subscribe \/ LinkTick \/ UNCHANGED allVars
    BY <2>5, QuietFate
  <2> QED
    BY <2>1, <2>2, <2>3, <2>4, <2>5 DEF LinkNext
<1> QED
  BY <1>1, FateInit, LinkInvariance, PTL DEF LinkSpec

\* A window that is settled misses something: complete, it would have been emitted.
LEMMA SettledMissesSomething ==
    ASSUME LinkInv, FateInv, NEW w \in 1 .. gWindowSeq, Settled(w)
    PROVE  ~NothingMissing(w)
<1> SUFFICES ASSUME NothingMissing(w) PROVE FALSE
  OBVIOUS
<1>1. LinkTypeOK
  BY DEF LinkInv
<1>2. /\ gWindowSeq \in Nat /\ idx \in Nat
      /\ w \in Windows /\ w \in Nat \ {0} /\ TotalChunks(w) \in Nat \ {0}
  BY <1>1, SenderPosition
<1>3. ASSUME NEW i \in 0 .. TotalChunks(w) - 1 PROVE Buffered(w, i)
  <2>1. Sent(w, i)
    BY <1>2 DEF Settled, LoopOver, Sent, Before
  <2>2. ~InFlight(w, i)
    BY DEF Settled, InFlight
  <2> QED
    BY <2>1, <2>2 DEF NothingMissing
<1>4. w \in DOMAIN buf /\ 0 .. TotalChunks(w) - 1 \subseteq DOMAIN buf[w].chunks
  <2>1. 0 \in 0 .. TotalChunks(w) - 1
    BY <1>2
  <2> QED
    BY <1>3, <2>1 DEF Buffered
<1>5. buf[w].total = TotalChunks(w)
  BY <1>4 DEF FateInv, EntriesOfWindow
<1>6. DOMAIN buf[w].chunks \subseteq 0 .. TotalChunks(w) - 1
  BY <1>4, <1>5 DEF LinkInv, IInv, EntriesHomogeneous, ChunkOf
<1> QED
  BY <1>4, <1>5, <1>6 DEF LinkInv, IInv, PendingMissesAChunk

\* Every window of a session whose chunks have all been sent and have all left the
\* link is captured exactly when publishRawWindow lost or cut none of them and they
\* reached _on_chunk within the TTL, whatever the size of the windows, the length of
\* the session and the losses of the others.
THEOREM IntactIsCaptured == LinkSpec => []CapturedIffIntact
<1>1. LinkInv /\ FateInv => CapturedIffIntact
  <2> SUFFICES ASSUME LinkInv, FateInv, NEW w \in 1 .. gWindowSeq, Settled(w)
               PROVE  Captured(w) <=> w \notin lost /\ Spread(w) <= Ttl
    BY DEF CapturedIffIntact, Spread
  <2>1. Captured(w) => w \notin lost /\ Spread(w) <= Ttl
    BY DEF FateInv, LostMissesAChunk, CapturedInTime, Captured
  <2>2. ASSUME w \notin lost, Spread(w) <= Ttl, ~Captured(w) PROVE FALSE
    <3>1. w \in DOMAIN arrival /\ Spread(w) > Ttl
      BY <2>2, SettledMissesSomething DEF FateInv, IntactSoFar
    <3>2. Spread(w) \in Int /\ Ttl \in Nat
      BY <3>1, AssemblerAssumption DEF FateInv, ArrivalBehind, Spread
    <3> QED
      BY <2>2, <3>1, <3>2
  <2> QED
    BY <2>1, <2>2
<1> QED
  BY <1>1, FateInvariance, PTL

\* Whatever waits in the assembler's buffer lost a chunk, overran the TTL or is still
\* arriving.
THEOREM OnlyBrokenPends == LinkSpec => []PendingOnlyBroken
<1>1. LinkInv /\ FateInv => PendingOnlyBroken
  <2> SUFFICES ASSUME LinkInv, FateInv, NEW s \in DOMAIN buf, s \notin lost, Settled(s),
                      ~(Spread(s) > Ttl)
               PROVE  FALSE
    BY DEF PendingOnlyBroken, Spread
  <2>1. s \in Windows /\ gWindowSeq \in Nat
    BY LinkAssumption DEF FateInv, EntriesOfWindow, ArrivalBehind, LinkInv, LinkTypeOK
  <2>2. s \in 1 .. gWindowSeq
    BY <2>1, LinkAssumption DEF Settled
  <2>3. ~Captured(s)
    BY DEF FateInv, CapturedInTime, Captured
  <2> QED
    BY <2>2, <2>3, SettledMissesSomething DEF FateInv, IntactSoFar
<1> QED
  BY <1>1, FateInvariance, PTL

=============================================================================
