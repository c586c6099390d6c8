-------------------------- MODULE TrainingDataProofs --------------------------
(***************************************************************************)
(* The manifest and the split, for any number of captured files, any       *)
(* synthetic files and any shares.                                         *)
(***************************************************************************)
EXTENDS TrainingData, FiniteSetTheorems, TLAPS

IsFcn(f) == f = [x \in DOMAIN f |-> f[x]]

\* What merge() works with are functions, and it has hashed what it has read, up to
\* the file at hand.
LoopShape ==
    /\ IsFcn(dfs) /\ IsFcn(sessions) /\ IsFcn(dataset) /\ IsFcn(manifest)
    /\ DOMAIN sessions \subseteq DOMAIN dfs
    /\ merger # "hash" => DOMAIN sessions = DOMAIN dfs
    /\ merger = "hash" =>
         \A x, y \in DOMAIN dfs \ DOMAIN sessions : x = y
    /\ DOMAIN dfs \cap todo = {}
    /\ merger \in {"dataset", "manifest", "merged"} => todo = {}

\* A file that nobody wrote to since merge() looked for files is hashed as it was
\* read, and can be hashed so while merge() has it at hand.
HashedAsRead ==
    /\ \A f \in DOMAIN sessions : sessions[f] = dfs[f] \/ f \in rewritten
    /\ \A f \in DOMAIN dfs \ DOMAIN sessions :
         f \in rewritten \/ (f \notin unreadable /\ dfs[f] = raw[f])

\* A file that nobody wrote to since then waits to be read, or was read as it is.
GlobFound ==
    merger # "idle" =>
        \A f \in DOMAIN raw \ rewritten : f \in todo \/ (f \in DOMAIN dfs /\ dfs[f] = raw[f])

\* Nothing leaves ml/data/raw, so that what the manifest lists is there for each later
\* merge to find.
ManifestFound ==
    /\ DOMAIN dfs \cup todo \subseteq DOMAIN raw
    /\ DOMAIN manifest \subseteq DOMAIN raw
    /\ merger # "idle" => DOMAIN manifest \subseteq DOMAIN dfs \cup todo

\* What has been written so far is what was read and hashed.
Written ==
    /\ merger \in {"manifest", "merged"} => dataset = dfs
    /\ merger = "merged" => manifest = sessions

\* The model's test sessions are those of the split of its sessions.
ModelSplit ==
    model # Nothing =>
        /\ model.sessions \subseteq AllSessions
        /\ model.test = TestSessions(model.sessions, TestPercent)

\* What a file is taken for is what somebody wrote.
Versioned(d) == \A f \in DOMAIN d : f \in Files /\ d[f] \in Versions

VersionsKnown == Versioned(raw) /\ Versioned(dfs) /\ Versioned(dataset)

\* rng.shuffle under a seed: one order for each number of sessions.
ShuffleOk ==
    \A n \in 1 .. Cardinality(AllSessions) :
        \A k \in 1 .. n :
            /\ shuffle[n][k] \in 1 .. n
            /\ \A j \in 1 .. n : j # k => shuffle[n][j] # shuffle[n][k]

\* The rest of the types; whatever a model was trained over, something was left out.
RestTyped ==
    /\ merger \in {"idle", "read", "hash", "dataset", "manifest", "merged"}
    /\ unreadable \subseteq DOMAIN raw
    /\ Known(sessions) /\ Known(manifest)
    /\ model # Nothing => model.sessions # {} /\ model.test # model.sessions

Inv ==
    /\ LoopShape
    /\ HashedAsRead
    /\ GlobFound
    /\ ManifestFound
    /\ Written
    /\ ManifestNotAhead
    /\ VersionsKnown
    /\ ModelSplit

-----------------------------------------------------------------------------

LEMMA EmptyIsFcn == IsFcn(Empty) /\ DOMAIN Empty = {}
  BY DEF Empty, IsFcn

LEMMA InitInv == Init => Inv
  BY EmptyIsFcn DEF Init, Inv, LoopShape, HashedAsRead, GlobFound, ManifestFound, Written,
                    ManifestNotAhead, ModelSplit, VersionsKnown, Versioned

LEMMA BeginWriteInv == Inv /\ BeginWrite => Inv'
<1> SUFFICES ASSUME Inv, BeginWrite PROVE Inv'
  OBVIOUS
<1>1. PICK f \in Files, v \in Versions :
        /\ raw' = Put(raw, f, v)
        /\ unreadable' = unreadable \cup {f}
        /\ rewritten' = rewritten \cup {f}
  BY DEF BeginWrite
<1>2. UNCHANGED <<merger, todo, dfs, sessions, dataset, manifest, model, shuffle>>
  BY DEF BeginWrite, products
<1>3. /\ DOMAIN raw' = DOMAIN raw \cup {f}
      /\ \A z \in DOMAIN raw : z # f => raw'[z] = raw[z]
  BY <1>1 DEF Put
<1>4. HashedAsRead'
  <2>1. \A g \in DOMAIN sessions : sessions[g] = dfs[g] \/ g \in rewritten'
    BY <1>1 DEF Inv, HashedAsRead
  <2>2. ASSUME NEW g \in DOMAIN dfs \ DOMAIN sessions, g \notin rewritten'
        PROVE  g \notin unreadable' /\ dfs[g] = raw'[g]
    <3>1. g # f /\ g \notin rewritten /\ g \in DOMAIN raw
      BY <1>1, <2>2 DEF Inv, ManifestFound
    <3> QED
      BY <1>1, <1>3, <3>1 DEF Inv, HashedAsRead
  <2> QED
    BY <1>2, <2>1, <2>2 DEF HashedAsRead
<1>5. VersionsKnown'
  BY <1>1, <1>2, <1>3 DEF Inv, VersionsKnown, Versioned, Put
<1>7. GlobFound'
  <2> SUFFICES ASSUME merger' # "idle", NEW g \in DOMAIN raw', g \notin rewritten'
               PROVE  g \in todo' \/ (g \in DOMAIN dfs' /\ dfs'[g] = raw'[g])
    BY DEF GlobFound
  <2>1. g # f /\ g \notin rewritten /\ g \in DOMAIN raw /\ raw'[g] = raw[g]
    BY <1>1, <1>3
  <2> QED
    BY <1>2, <2>1 DEF Inv, GlobFound
<1>6. LoopShape' /\ ManifestFound' /\ Written' /\ ManifestNotAhead' /\ ModelSplit'
  BY <1>2, <1>3 DEF Inv, LoopShape, ManifestFound, Written, ManifestNotAhead,
                    ModelSplit, TestSessions, VersionsKnown, Versioned
<1> QED
  BY <1>4, <1>5, <1>6, <1>7 DEF Inv

LEMMA EndWriteInv == Inv /\ EndWrite => Inv'
<1> SUFFICES ASSUME Inv, EndWrite PROVE Inv'
  OBVIOUS
<1>1. UNCHANGED <<raw, merger, todo, dfs, sessions, dataset, manifest, model, shuffle>>
  BY DEF EndWrite, products
<1>2. unreadable' \subseteq unreadable /\ rewritten \subseteq rewritten'
  BY DEF EndWrite
<1>3. HashedAsRead'
  BY <1>1, <1>2 DEF Inv, HashedAsRead
<1>4. GlobFound'
  BY <1>1, <1>2 DEF Inv, GlobFound
<1> QED
  BY <1>1, <1>3, <1>4 DEF Inv, LoopShape, ManifestFound, Written, ManifestNotAhead,
                    ModelSplit, TestSessions, VersionsKnown, Versioned

LEMMA GlobInv == Inv /\ Glob => Inv'
<1> SUFFICES ASSUME Inv, Glob PROVE Inv'
  OBVIOUS
<1>1. /\ merger' = "read" /\ todo' = DOMAIN raw /\ dfs' = Empty /\ sessions' = Empty
      /\ UNCHANGED <<raw, unreadable, dataset, manifest, model, shuffle>>
  BY DEF Glob, products
<1> QED
  BY <1>1, EmptyIsFcn DEF Inv, LoopShape, HashedAsRead, GlobFound, ManifestFound, Written,
                          ManifestNotAhead, ModelSplit, TestSessions, VersionsKnown, Versioned

LEMMA ReadInv == Inv /\ Read => Inv'
<1> SUFFICES ASSUME Inv, Read PROVE Inv'
  OBVIOUS
<1>1. /\ merger = "read" /\ merger' = "hash"
      /\ UNCHANGED <<raw, unreadable, sessions, rewritten, dataset, manifest, model, shuffle>>
  BY DEF Read, products
<1>2. PICK pq \in todo \ unreadable :
        dfs' = Put(dfs, pq, raw[pq]) /\ todo' = todo \ {pq}
  BY DEF Read
<1>3. /\ IsFcn(dfs') /\ DOMAIN dfs' = DOMAIN dfs \cup {pq} /\ dfs'[pq] = raw[pq]
      /\ \A z \in DOMAIN dfs : z # pq => dfs'[z] = dfs[z]
  BY <1>2 DEF Put, IsFcn
<1>4. DOMAIN sessions = DOMAIN dfs
  BY <1>1 DEF Inv, LoopShape
<1>5. pq \notin DOMAIN dfs
  BY <1>2 DEF Inv, LoopShape
<1>6. HashedAsRead'
  BY <1>1, <1>2, <1>3, <1>4, <1>5 DEF Inv, HashedAsRead
<1>7. LoopShape'
  BY <1>1, <1>2, <1>3, <1>4, <1>5 DEF Inv, LoopShape
<1>8. GlobFound'
  BY <1>1, <1>2, <1>3, <1>5 DEF Inv, GlobFound
<1> QED
  BY <1>1, <1>2, <1>3, <1>6, <1>7, <1>8 DEF Inv, ManifestFound, Written, ManifestNotAhead,
                                      ModelSplit, TestSessions, VersionsKnown, Versioned

LEMMA HashInv == Inv /\ Hash => Inv'
<1> SUFFICES ASSUME Inv, Hash PROVE Inv'
  OBVIOUS
<1>1. /\ merger = "hash" /\ merger' = "read"
      /\ UNCHANGED <<raw, unreadable, todo, dfs, rewritten, dataset, manifest, model, shuffle>>
  BY DEF Hash, products
<1>2. PICK pq \in DOMAIN dfs \ DOMAIN sessions : sessions' = Put(sessions, pq, Hashed(pq))
  BY DEF Hash
<1>3. /\ IsFcn(sessions') /\ DOMAIN sessions' = DOMAIN sessions \cup {pq}
      /\ sessions'[pq] = Hashed(pq)
      /\ \A z \in DOMAIN sessions : sessions'[z] = sessions[z]
  BY <1>2 DEF Put, IsFcn
<1>4. Hashed(pq) = dfs[pq] \/ pq \in rewritten
  BY <1>2 DEF Inv, HashedAsRead, Hashed
<1>5. HashedAsRead'
  BY <1>1, <1>2, <1>3, <1>4 DEF Inv, HashedAsRead
<1>6. DOMAIN sessions' = DOMAIN dfs
  BY <1>1, <1>2, <1>3 DEF Inv, LoopShape
<1>7. LoopShape'
  BY <1>1, <1>3, <1>6 DEF Inv, LoopShape
<1> QED
  BY <1>1, <1>5, <1>7 DEF Inv, GlobFound, ManifestFound, Written, ManifestNotAhead,
                          ModelSplit, TestSessions, VersionsKnown, Versioned

LEMMA BeginDatasetInv == Inv /\ BeginDataset => Inv'
  BY EmptyIsFcn DEF BeginDataset, Inv, LoopShape, HashedAsRead, GlobFound, ManifestFound, Written,
                    ManifestNotAhead, ModelSplit, TestSessions, VersionsKnown, Versioned

LEMMA EndDatasetInv == Inv /\ EndDataset => Inv'
  BY DEF EndDataset, Inv, LoopShape, HashedAsRead, GlobFound, ManifestFound, Written,
         ManifestNotAhead, ModelSplit, TestSessions, VersionsKnown, Versioned

LEMMA WriteManifestInv == Inv /\ WriteManifest => Inv'
  BY DEF WriteManifest, Inv, LoopShape, HashedAsRead, GlobFound, ManifestFound, Written,
         ManifestNotAhead, ModelSplit, TestSessions, VersionsKnown, Versioned

LEMMA MergeEndsInv == Inv /\ MergeEnds => Inv'
  BY EmptyIsFcn DEF MergeEnds, products, Inv, LoopShape, HashedAsRead, GlobFound, ManifestFound, Written,
                    ManifestNotAhead, ModelSplit, TestSessions, VersionsKnown, Versioned

LEMMA TrainInv == Inv /\ Train => Inv'
<1> SUFFICES ASSUME Inv, Train PROVE Inv'
  OBVIOUS
<1>1. UNCHANGED <<raw, unreadable, merger, todo, dfs, sessions, rewritten,
                  dataset, manifest, shuffle>>
  BY DEF Train, merging
<1>2. PICK d \in Inputs :
        model' = [sessions |-> SessionsIn(d),
                  test |-> TestSessions(SessionsIn(d), TestPercent)]
  BY DEF Train
<1>3. SessionsIn(d) \subseteq AllSessions
  <2>1. Versioned(d)
    BY DEF Inputs, Inv, VersionsKnown, Versioned
  <2>2. ASSUME NEW f \in DOMAIN d PROVE SessionsOf(f, d[f]) \subseteq AllSessions
    BY <2>1 DEF Versioned, Files, SessionsOf, AllSessions
  <2> QED
    BY <2>2 DEF SessionsIn
<1>4. ModelSplit'
  BY <1>1, <1>2, <1>3 DEF ModelSplit, TestSessions
<1> QED
  BY <1>1, <1>4 DEF Inv, LoopShape, HashedAsRead, GlobFound, ManifestFound, Written, ManifestNotAhead,
                    VersionsKnown, Versioned

\* The inductive invariant: merge() hashes what it has read, and finds what the
\* manifest lists.
THEOREM DataInvariance == Spec => []Inv
<1>1. Init => Inv
  BY InitInv
<1>2. Inv /\ [Next]_vars => Inv'
  <2>1. Inv /\ UNCHANGED vars => Inv'
    BY DEF vars, merging, products, Inv, LoopShape, HashedAsRead, GlobFound, ManifestFound, Written,
           ManifestNotAhead, ModelSplit, TestSessions, VersionsKnown, Versioned
  <2> QED
    BY <2>1, BeginWriteInv, EndWriteInv, GlobInv, ReadInv, HashInv, BeginDatasetInv,
       EndDatasetInv, WriteManifestInv, MergeEndsInv, TrainInv DEF Next
<1> QED
  BY <1>1, <1>2, PTL DEF Spec

\* When merge() has written the manifest, the manifest pins the dataset's rows, up to
\* files written over in the meantime.
THEOREM ManifestExact == Spec => []ManifestPinsDataset
<1>1. Inv => ManifestPinsDataset
  BY DEF Inv, LoopShape, HashedAsRead, Written, ManifestPinsDataset
<1> QED
  BY <1>1, DataInvariance, PTL

\* What was in ml/data/raw, and was not written to meanwhile, is in the dataset of
\* every merge that goes through.
THEOREM NothingLeftOut == Spec => []DatasetMissesNothing
<1>1. Inv => DatasetMissesNothing
  BY DEF Inv, LoopShape, GlobFound, Written, DatasetMissesNothing
<1> QED
  BY <1>1, DataInvariance, PTL

\* Whatever merges were killed, the manifest lists nothing that a readable dataset
\* does not have.
THEOREM ManifestBehind == Spec => []ManifestNotAhead
<1>1. Inv => ManifestNotAhead
  BY DEF Inv
<1> QED
  BY <1>1, DataInvariance, PTL

-----------------------------------------------------------------------------
(* The split.                                                              *)

LEMMA DivMonotone ==
    ASSUME NEW a \in Nat, NEW b \in Nat, a <= b
    PROVE  a \div 100 <= b \div 100
  OBVIOUS

LEMMA SplitMonotone ==
    ASSUME NEW n \in Nat, NEW p \in Nat, NEW q \in Nat, p <= q
    PROVE  /\ AtLeast1((p * n) \div 100) <= AtLeast1((q * n) \div 100)
           /\ AtLeast1((p * n) \div 100) \in Int /\ AtLeast1((q * n) \div 100) \in Int
<1> DEFINE rest == q - p
<1>1. q * n = p * n + rest * n /\ rest * n \in Nat /\ p * n \in Nat
  OBVIOUS
<1>2. p * n <= q * n /\ q * n \in Nat
  BY <1>1
<1>3. (p * n) \div 100 <= (q * n) \div 100
  BY <1>1, <1>2, DivMonotone
<1>4. (p * n) \div 100 \in Int /\ (q * n) \div 100 \in Int
  BY <1>1, <1>2
<1> QED
  BY <1>3, <1>4 DEF AtLeast1

\* The shuffle is chosen once.
LEMMA ShuffleInvariance == Spec => []ShuffleOk
<1>1. Init => ShuffleOk
  BY DEF Init, ShuffleOk, Permutations
<1>2. ShuffleOk /\ [Next]_vars => ShuffleOk'
  <2>1. [Next]_vars => UNCHANGED shuffle
    BY DEF Next, vars, BeginWrite, EndWrite, Glob, Read, Hash, BeginDataset, EndDataset,
           WriteManifest, MergeEnds, Train
  <2> QED
    BY <2>1 DEF ShuffleOk
<1> QED
  BY <1>1, <1>2, PTL DEF Spec

\* A session's place in the shuffle is a number.
LEMMA PlaceIsNat ==
    ASSUME ShuffleOk, NEW S \in SUBSET AllSessions, NEW s \in S
    PROVE  shuffle[Cardinality(S)][Rank(s, S)] \in Nat
<1>1. IsFiniteSet(AllSessions) /\ AllSessions \subseteq Nat
  BY TrainingDataAssumption
<1>2. /\ IsFiniteSet(S)
      /\ Cardinality(S) <= Cardinality(AllSessions)
      /\ Cardinality(S) \in Nat /\ Cardinality(AllSessions) \in Nat
  BY <1>1, FS_Subset, FS_CardinalityType
<1> DEFINE below == {t \in S : t <= s}
<1>3. s \in below /\ below \subseteq S
  BY <1>1
<1>4. IsFiniteSet(below) /\ Cardinality(below) \in Nat /\ Cardinality(below) <= Cardinality(S)
  BY <1>2, <1>3, FS_Subset, FS_CardinalityType
<1>5. Cardinality(below) # 0
  BY <1>3, <1>4, FS_EmptySet
<1>6. Rank(s, S) \in 1 .. Cardinality(S) /\ Cardinality(S) \in 1 .. Cardinality(AllSessions)
  BY <1>2, <1>4, <1>5 DEF Rank
<1> QED
  BY <1>2, <1>6 DEF ShuffleOk

\* Two sessions of a dataset have two ranks in it, from 1 to their number.
LEMMA Ranks ==
    ASSUME NEW S \in SUBSET AllSessions, NEW s \in S
    PROVE  /\ Cardinality(S) \in 1 .. Cardinality(AllSessions)
           /\ Rank(s, S) \in 1 .. Cardinality(S)
           /\ \A t \in S : s < t => Rank(s, S) < Rank(t, S)
<1>1. IsFiniteSet(AllSessions) /\ AllSessions \subseteq Nat
  BY TrainingDataAssumption
<1>2. /\ IsFiniteSet(S)
      /\ Cardinality(S) <= Cardinality(AllSessions)
      /\ Cardinality(S) \in Nat /\ Cardinality(AllSessions) \in Nat
  BY <1>1, FS_Subset, FS_CardinalityType
<1> DEFINE Upto(t) == {u \in S : u <= t}
<1>3. ASSUME NEW t \in S
      PROVE  IsFiniteSet(Upto(t)) /\ Cardinality(Upto(t)) \in Nat /\ Cardinality(Upto(t)) <= Cardinality(S)
  <2>1. Upto(t) \in SUBSET S
    OBVIOUS
  <2> QED
    BY <1>2, <2>1, FS_Subset, FS_CardinalityType
<1>4. Cardinality(Upto(s)) # 0
  <2>1. s \in Upto(s)
    BY <1>1
  <2> QED
    BY <1>3, <2>1, FS_EmptySet
<1>5. ASSUME NEW t \in S, s < t
      PROVE  Cardinality(Upto(s)) < Cardinality(Upto(t))
  <2>1. Upto(s) \in SUBSET Upto(t) /\ t \in Upto(t) /\ t \notin Upto(s)
    <3>1. S \subseteq Nat /\ s \in Nat /\ t \in Nat
      BY <1>1
    <3>2. \A u \in S : u <= s => u <= t
      BY <1>5, <3>1
    <3>3. t <= t /\ ~(t <= s)
      BY <1>5, <3>1
    <3> QED
      BY <3>2, <3>3
  <2>2. Upto(s) # Upto(t)
    BY <2>1
  <2>3. Cardinality(Upto(s)) <= Cardinality(Upto(t)) /\ Cardinality(Upto(s)) # Cardinality(Upto(t))
    BY <1>3, <2>1, <2>2, FS_Subset
  <2> QED
    BY <1>3, <2>3
<1>6. Cardinality(Upto(s)) \in 1 .. Cardinality(S) /\ Cardinality(S) \in 1 .. Cardinality(AllSessions)
  BY <1>2, <1>3, <1>4
<1> QED
  BY <1>5, <1>6 DEF Rank

\* A split of at least one session tests on at least one, however small the share.
LEMMA SplitTestsSomething ==
    ASSUME ShuffleOk, NEW S \in SUBSET AllSessions, S # {}, NEW percent \in 0 .. 100
    PROVE  TestSessions(S, percent) # {}
<1> DEFINE n == Cardinality(S)  Place(s) == shuffle[n][Rank(s, S)]
<1>1. PICK r \in S : TRUE
  OBVIOUS
<1>2. n \in 1 .. Cardinality(AllSessions) /\ IsFiniteSet(S)
  BY <1>1, Ranks, FS_Subset, TrainingDataAssumption
<1>3. ASSUME NEW s \in S
      PROVE  /\ Place(s) \in 1 .. n
             /\ \A t \in S : s # t => Place(s) # Place(t)
  <2>1. Rank(s, S) \in 1 .. n
    BY Ranks
  <2>2. ASSUME NEW t \in S, s # t
        PROVE  Rank(t, S) \in 1 .. n /\ Rank(s, S) # Rank(t, S)
    <3>1. s < t \/ t < s
      BY <2>2, TrainingDataAssumption
    <3>2. Rank(t, S) \in 1 .. n
      BY Ranks
    <3>3. s < t => Rank(s, S) < Rank(t, S)
      BY Ranks
    <3>4. t < s => Rank(t, S) < Rank(s, S)
      BY Ranks
    <3> QED
      BY <2>1, <3>1, <3>2, <3>3, <3>4
  <2> HIDE DEF n
  <2> QED
    BY <1>2, <2>1, <2>2 DEF ShuffleOk
<1>4. PICK s \in S : Place(s) = 1
  <2> SUFFICES ASSUME \A s \in S : Place(s) # 1 PROVE FALSE
    OBVIOUS
  <2> DEFINE place == [s \in S |-> Place(s)]
  <2>1. n \in Nat /\ n >= 1
    BY <1>2, FS_CardinalityType
  <2>2. place \in [S -> 2 .. n]
    <3> HIDE DEF n
    <3>1. ASSUME NEW s \in S PROVE Place(s) \in 2 .. n
      BY <1>3, <2>1
    <3> QED
      BY <3>1
  <2>3. IsFiniteSet(2 .. n) /\ Cardinality(2 .. n) < n
    <3> HIDE DEF n
    <3>1. IsFiniteSet(2 .. n) /\ Cardinality(2 .. n) = IF 2 > n THEN 0 ELSE n - 2 + 1
      BY <2>1, FS_Interval
    <3> QED
      BY <2>1, <3>1
  <2>4. \E x, y \in S : x # y /\ place[x] = place[y]
    <3> HIDE DEF place
    <3> QED
      BY <1>2, <2>2, <2>3, FS_PigeonHole
  <2> QED
    BY <1>3, <2>4
<1>5. 1 <= AtLeast1((percent * n) \div 100)
  <2>1. n \in Nat
    BY <1>2, FS_CardinalityType
  <2> HIDE DEF n
  <2>2. (percent * n) \div 100 \in Int
    BY <2>1
  <2> QED
    BY <2>2 DEF AtLeast1
<1>6. s \in TestSessions(S, percent)
  BY <1>4, <1>5 DEF TestSessions
<1> QED
  BY <1>6

LEMMA RestInductive == Inv /\ RestTyped /\ [Next]_vars => RestTyped'
<1> SUFFICES ASSUME Inv, RestTyped, [Next]_vars PROVE RestTyped'
  OBVIOUS
<1>1. CASE BeginWrite
  BY <1>1 DEF BeginWrite, products, RestTyped, Known, Put
<1>2. CASE EndWrite
  BY <1>2 DEF EndWrite, products, RestTyped, Known
<1>3. CASE Glob
  BY <1>3, EmptyIsFcn DEF Glob, products, RestTyped, Known
<1>4. CASE Read
  BY <1>4 DEF Read, products, RestTyped
<1>5. CASE Hash
  <2>1. PICK pq \in DOMAIN dfs \ DOMAIN sessions : sessions' = Put(sessions, pq, Hashed(pq))
    BY <1>5 DEF Hash
  <2>2. pq \in Files /\ Hashed(pq) \in Versions \cup {0}
    BY <2>1 DEF Inv, VersionsKnown, Versioned, ManifestFound, Hashed
  <2>3. Known(sessions)'
    BY <2>1, <2>2 DEF RestTyped, Known, Put
  <2> QED
    BY <1>5, <2>3 DEF Hash, products, RestTyped, Known
<1>6. CASE BeginDataset \/ EndDataset \/ WriteManifest
  BY <1>6 DEF BeginDataset, EndDataset, WriteManifest, RestTyped, Known
<1>7. CASE MergeEnds
  BY <1>7, EmptyIsFcn DEF MergeEnds, products, RestTyped, Known
<1>8. CASE Train
  <2>1. PICK d \in Inputs :
          /\ TestSessions(SessionsIn(d), TestPercent) # SessionsIn(d)
          /\ model' = [sessions |-> SessionsIn(d),
                       test |-> TestSessions(SessionsIn(d), TestPercent)]
    BY <1>8 DEF Train
  <2>2. IsFcn(d) /\ Versioned(d) /\ d # Empty
    BY DEF Inputs, Inv, VersionsKnown, Versioned, LoopShape, IsFcn
  <2>3. PICK f \in DOMAIN d : TRUE
    BY <2>2 DEF IsFcn, Empty
  <2>4. SessionsOf(f, d[f]) # {}
    BY <2>2, TrainingDataAssumption DEF Versioned, SessionsOf
  <2>5. SessionsIn(d) # {}
    BY <2>4 DEF SessionsIn
  <2> QED
    BY <1>8, <2>1, <2>5 DEF Train, merging, RestTyped, Known
<1>9. CASE UNCHANGED vars
  BY <1>9 DEF vars, merging, products, RestTyped, Known
<1> QED
  BY <1>1, <1>2, <1>3, <1>4, <1>5, <1>6, <1>7, <1>8, <1>9 DEF Next

\* Files, versions and sets are what they are meant to be, and a model's split leaves
\* sessions to test and to train on, for any sessions and any share.
THEOREM DataTyped == Spec => []TypeOK
<1>1. Init => RestTyped
  BY EmptyIsFcn DEF Init, RestTyped, Known
<1>2. Spec => []RestTyped
  BY <1>1, RestInductive, DataInvariance, PTL DEF Spec
<1>3. Inv /\ ShuffleOk /\ RestTyped => TypeOK
  <2> SUFFICES ASSUME Inv, ShuffleOk, RestTyped PROVE TypeOK
    OBVIOUS
  <2>1. Known(raw) /\ Known(dfs) /\ Known(dataset) /\ Known(sessions) /\ Known(manifest)
    BY DEF Inv, VersionsKnown, Versioned, RestTyped, Known
  <2>2. DOMAIN raw \subseteq Files
    BY DEF Inv, VersionsKnown, Versioned
  <2>3. unreadable \cup todo \subseteq DOMAIN raw
    BY DEF Inv, ManifestFound, RestTyped
  <2>4. model.test \subseteq model.sessions /\ model.sessions \subseteq AllSessions
    BY DEF Inv, ModelSplit, TestSessions, Nothing
  <2>5. model # Nothing => model.test # {}
    <3> SUFFICES ASSUME model # Nothing PROVE model.test # {}
      OBVIOUS
    <3>1. model.sessions \in SUBSET AllSessions /\ model.sessions # {}
      BY <2>4 DEF RestTyped
    <3>2. TestPercent \in 0 .. 100
      BY TrainingDataAssumption
    <3> QED
      BY <3>1, <3>2, SplitTestsSomething DEF Inv, ModelSplit
  <2> QED
    BY <2>1, <2>2, <2>3, <2>4, <2>5 DEF TypeOK, Inv, LoopShape, RestTyped
<1> QED
  BY <1>2, <1>3, ShuffleInvariance, DataInvariance, PTL

\* An evaluation over the sessions that a model was trained over, with no larger a
\* share, tests on what that model's training held out.
THEOREM HeldOutWhenSame == Spec => []TestedWasHeldOut
<1>1. Inv /\ ShuffleOk => TestedWasHeldOut
  <2> SUFFICES ASSUME Inv, ShuffleOk, NEW d \in Inputs, NEW percent \in EvalPercents,
                      model.sessions = SessionsIn(d), percent <= TestPercent,
                      NEW s \in Tested(d, percent)
               PROVE  s \in model.test
    BY DEF TestedWasHeldOut
  <2> DEFINE S == model.sessions
             n == Cardinality(S)
  <2>1. s \in S /\ shuffle[n][Rank(s, S)] <= AtLeast1((percent * n) \div 100)
    BY DEF Tested, TestSessions
  <2>2. model # Nothing
    BY <2>1 DEF Nothing
  <2>3. S \subseteq AllSessions /\ model.test = TestSessions(S, TestPercent)
    BY <2>2 DEF Inv, ModelSplit
  <2>4. shuffle[n][Rank(s, S)] \in Nat
    BY <2>1, <2>3, PlaceIsNat
  <2>5. n \in Nat /\ percent \in Nat /\ TestPercent \in Nat
    <3>1. S \in SUBSET AllSessions /\ IsFiniteSet(AllSessions)
      BY <2>3, TrainingDataAssumption
    <3>2. IsFiniteSet(S)
      BY <3>1, FS_Subset
    <3>3. n \in Nat
      BY <3>2, FS_CardinalityType
    <3>4. {TestPercent} \cup EvalPercents \subseteq 0 .. 100
      BY TrainingDataAssumption
    <3> QED
      BY <3>3, <3>4
  <2>6. /\ AtLeast1((percent * n) \div 100) <= AtLeast1((TestPercent * n) \div 100)
        /\ AtLeast1((percent * n) \div 100) \in Int
        /\ AtLeast1((TestPercent * n) \div 100) \in Int
    BY <2>5, SplitMonotone
  <2>7. shuffle[n][Rank(s, S)] <= AtLeast1((TestPercent * n) \div 100)
    BY <2>1, <2>4, <2>6
  <2> QED
    BY <2>1, <2>3, <2>7 DEF TestSessions
<1> QED
  BY <1>1, ShuffleInvariance, DataInvariance, PTL
=============================================================================
