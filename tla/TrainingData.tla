----------------------------- MODULE TrainingData -----------------------------
(***************************************************************************)
(* From session files to an evaluation report: capture.py and              *)
(* synth_dataset.py write parquet files into ml/data/raw, merge_sessions.py*)
(* makes a dataset and a manifest of what it finds there, train_cnn.py     *)
(* trains on what its split leaves, and eval.py evaluates on the rest.     *)
(*                                                                         *)
(* They are commands that people run: at the same time, in any order, and  *)
(* killed in the middle; only one merge at a time.  A parquet file is      *)
(* written in place and cannot be read until it is complete; the manifest, *)
(* a few lines of text, is taken to be written at once.                    *)
(*                                                                         *)
(* A captured file holds the session it is named after; the synthetic file *)
(* holds several, and is written again, perhaps with others.  What a file  *)
(* holds is given by its name and its version.                             *)
(***************************************************************************)
EXTENDS Integers, FiniteSets

CONSTANTS
    Captures,      \* session ids of captured files
    SynthSessions, \* version of the synthetic file -> its session ids
    TestPercent,   \* session_stratified_split's test_frac, in percent
    EvalPercents   \* values of --test-frac

SYNTH == 0
Files == Captures \cup {SYNTH}
Versions == DOMAIN SynthSessions
AllSessions == Captures \cup UNION {SynthSessions[v] : v \in Versions}

ASSUME TrainingDataAssumption ==
    /\ 1 \in Versions /\ Versions \subseteq Nat \ {0}
    /\ \A v \in Versions : SynthSessions[v] # {}
    /\ AllSessions \subseteq Nat \ {SYNTH}
    /\ IsFiniteSet(AllSessions)
    /\ {TestPercent} \cup EvalPercents \subseteq 0 .. 100

VARIABLES
    raw,         \* file -> version of what was last written to it
    unreadable,  \* files of which a write began and did not end
    merger,      \* the statement merge() is about to execute, "idle" outside
    todo,        \* files of parquets that the loop has not reached
    dfs,         \* file -> version read
    sessions,    \* file -> version whose SHA-256 was taken, 0 if it was half a file
    dataset,     \* dataset.parquet: file -> version
    manifest,    \* manifest.json: file -> version its sha256 belongs to
    shuffle,     \* n -> how rng.shuffle orders n sessions under seed 42
    model,       \* cnn.keras: the sessions it was trained over, and their split
    rewritten    \* history: files written since merge() looked for files

merging == <<merger, todo, dfs, sessions, rewritten>>
products == <<dataset, manifest, model>>
vars == <<raw, unreadable, merging, products, shuffle>>

Empty == [f \in {} |-> 0]
Nothing == [sessions |-> {}, test |-> {}]
Put(f, x, y) == [z \in DOMAIN f \cup {x} |-> IF z = x THEN y ELSE f[z]]

-----------------------------------------------------------------------------
(* ml/data/raw.                                                            *)

\* A capture writes a new file; the synthetic one is written over.
BeginWrite ==
    /\ \E f \in Files, v \in Versions :
         /\ f # SYNTH => f \notin DOMAIN raw /\ v = 1
         /\ raw' = Put(raw, f, v)
         /\ unreadable' = unreadable \cup {f}
         /\ rewritten' = rewritten \cup {f}
    /\ UNCHANGED <<merger, todo, dfs, sessions, products, shuffle>>

EndWrite ==
    /\ \E f \in unreadable :
         /\ unreadable' = unreadable \ {f}
         /\ rewritten' = rewritten \cup {f}
    /\ UNCHANGED <<raw, merger, todo, dfs, sessions, products, shuffle>>

-----------------------------------------------------------------------------
(* merge().                                                                *)

\* src_dir.glob takes a file that is being written for one that is there.
Glob ==
    /\ merger = "idle"
    /\ raw # Empty
    /\ merger' = "read"
    /\ todo' = DOMAIN raw
    /\ dfs' = Empty /\ sessions' = Empty
    /\ rewritten' = {}
    /\ UNCHANGED <<raw, unreadable, products, shuffle>>

BugReadSkips ==
    /\ merger = "read"
    /\ \E pq \in todo :
         /\ \A other \in todo \ {SYNTH} : pq # SYNTH /\ pq <= other
         /\ todo' = todo \ {pq}
         /\ dfs' = IF pq \in unreadable THEN dfs ELSE Put(dfs, pq, raw[pq])
         /\ merger' = IF pq \in unreadable THEN "read" ELSE "hash"
    /\ UNCHANGED <<raw, unreadable, sessions, rewritten, products, shuffle>>

\* The captures by name, which begins with the year, then synth.parquet.
Read ==
    /\ merger = "read"
    /\ \E pq \in todo \ unreadable :
         /\ \A other \in todo \ {SYNTH} : pq # SYNTH /\ pq <= other
         /\ dfs' = Put(dfs, pq, raw[pq])
         /\ todo' = todo \ {pq}
    /\ merger' = "hash"
    /\ UNCHANGED <<raw, unreadable, sessions, rewritten, products, shuffle>>

\* The SHA-256 of a file as it is at the moment.
Hashed(pq) == IF pq \in unreadable THEN 0 ELSE raw[pq]

BugHashWritesManifest ==
    /\ merger = "hash"
    /\ \E pq \in DOMAIN dfs \ DOMAIN sessions :
         sessions' = Put(sessions, pq, Hashed(pq))
    /\ manifest' = sessions'
    /\ merger' = "read"
    /\ UNCHANGED <<raw, unreadable, todo, dfs, rewritten, dataset, model, shuffle>>

\* file_sha256 opens the file that was read a second time.
Hash ==
    /\ merger = "hash"
    /\ \E pq \in DOMAIN dfs \ DOMAIN sessions :
         sessions' = Put(sessions, pq, Hashed(pq))
    /\ merger' = "read"
    /\ UNCHANGED <<raw, unreadable, todo, dfs, rewritten, products, shuffle>>

BeginDataset ==
    /\ merger = "read" /\ todo = {}
    /\ merger' = "dataset"
    /\ dataset' = Empty
    /\ UNCHANGED <<raw, unreadable, todo, dfs, sessions, rewritten,
                   manifest, model, shuffle>>

EndDataset ==
    /\ merger = "dataset"
    /\ merger' = "manifest"
    /\ dataset' = dfs
    /\ UNCHANGED <<raw, unreadable, todo, dfs, sessions, rewritten,
                   manifest, model, shuffle>>

BugManifestLooksAgain ==
    /\ merger = "manifest"
    /\ merger' = "merged"
    /\ manifest' = raw
    /\ UNCHANGED <<raw, unreadable, todo, dfs, sessions, rewritten,
                   dataset, model, shuffle>>

WriteManifest ==
    /\ merger = "manifest"
    /\ merger' = "merged"
    /\ manifest' = sessions
    /\ UNCHANGED <<raw, unreadable, todo, dfs, sessions, rewritten,
                   dataset, model, shuffle>>

\* It has returned, or has died: killed, or of a file that it cannot read.
MergeEnds ==
    /\ merger # "idle"
    /\ merger' = "idle"
    /\ todo' = {} /\ dfs' = Empty /\ sessions' = Empty /\ rewritten' = {}
    /\ UNCHANGED <<raw, unreadable, products, shuffle>>

-----------------------------------------------------------------------------
(* Training and evaluation.                                                *)

SessionsOf(f, v) == IF f = SYNTH THEN SynthSessions[v] ELSE {f}

SessionsIn(d) == UNION {SessionsOf(f, d[f]) : f \in DOMAIN d}

\* np.unique sorts, so that a session's rank is all the shuffle sees of it.
Rank(s, S) == Cardinality({t \in S : t <= s})

AtLeast1(n) == IF n < 1 THEN 1 ELSE n

\* The test sessions of session_stratified_split.
TestSessions(S, percent) ==
    {s \in S : shuffle[Cardinality(S)][Rank(s, S)]
                 <= AtLeast1((percent * Cardinality(S)) \div 100)}

\* A parquet file that train_cnn.py or eval.py is given: the dataset, or the
\* synthetic file as it is.
Inputs ==
    ({dataset} \cup IF SYNTH \in DOMAIN raw \ unreadable
                    THEN {[f \in {SYNTH} |-> raw[f]]} ELSE {}) \ {Empty}

\* One run of train_cnn.py: it works on what it loaded at its start, and a run that
\* dies leaves the former model.  model.fit raises when nothing is left to train on.
Train ==
    /\ \E d \in Inputs :
         LET S == SessionsIn(d)
         IN  /\ TestSessions(S, TestPercent) # S
             /\ model' = [sessions |-> S, test |-> TestSessions(S, TestPercent)]
    /\ UNCHANGED <<raw, unreadable, merging, dataset, manifest, shuffle>>

BugTested(d, percent) ==
    {s \in SessionsIn(d) : Rank(s, SessionsIn(d))
                             <= AtLeast1((percent * Cardinality(SessionsIn(d))) \div 100)}

\* The sessions that run_eval tests on: it keeps nothing, and splits what it is
\* given, not what the model was trained on.
Tested(d, percent) == TestSessions(SessionsIn(d), percent)

-----------------------------------------------------------------------------

Permutations(n) == {p \in [1 .. n -> 1 .. n] : \A i, j \in 1 .. n : i # j => p[i] # p[j]}

Init ==
    /\ raw = Empty /\ unreadable = {}
    /\ merger = "idle" /\ todo = {} /\ dfs = Empty /\ sessions = Empty
    /\ dataset = Empty /\ manifest = Empty
    /\ shuffle \in [1 .. Cardinality(AllSessions) ->
                       UNION {Permutations(n) : n \in 1 .. Cardinality(AllSessions)}]
    /\ \A n \in DOMAIN shuffle : DOMAIN shuffle[n] = 1 .. n
    /\ model = Nothing
    /\ rewritten = {}

Next ==
    \/ BeginWrite \/ EndWrite
    \/ Glob \/ Read \/ Hash \/ BeginDataset \/ EndDataset \/ WriteManifest \/ MergeEnds
    \/ Train

Spec == Init /\ [][Next]_vars

-----------------------------------------------------------------------------
(* Properties.                                                             *)

Known(d) == \A f \in DOMAIN d : f \in Files /\ d[f] \in Versions \cup {0}

\* Type invariant, with what is always true of merge()'s loop: it has hashed what
\* it has read, up to the file at hand.
TypeOK ==
    /\ DOMAIN raw \subseteq Files /\ unreadable \cup todo \subseteq DOMAIN raw
    /\ merger \in {"idle", "read", "hash", "dataset", "manifest", "merged"}
    /\ Known(raw) /\ Known(dfs) /\ Known(sessions) /\ Known(dataset) /\ Known(manifest)
    /\ DOMAIN sessions \subseteq DOMAIN dfs
    /\ merger # "hash" => DOMAIN sessions = DOMAIN dfs
    /\ DOMAIN dfs \cap todo = {}
    /\ model.test \subseteq model.sessions /\ model.sessions \subseteq AllSessions
    /\ model # Nothing => model.test \notin {{}, model.sessions}

\* When merge() has written the manifest, the manifest lists exactly the files the
\* dataset was made of and pins the very rows, whatever was captured meanwhile;
\* only a file written over while merge() ran can be pinned wrongly
\* (merge_sessions.py:36-75).
ManifestPinsDataset ==
    merger = "merged" =>
        /\ DOMAIN manifest = DOMAIN dataset
        /\ \A f \in DOMAIN dataset : manifest[f] = dataset[f] \/ f \in rewritten

\* A merge that goes through has left nothing out: every file that was in ml/data/raw
\* and that nobody wrote to meanwhile is in the dataset, as it is, the half file of a
\* capture that died included: merge() dies of that one rather than pass over it
\* (merge_sessions.py:36-59).
DatasetMissesNothing ==
    merger = "merged" =>
        \A f \in DOMAIN raw \ rewritten : f \in DOMAIN dataset /\ dataset[f] = raw[f]

\* The manifest is never ahead of the dataset: whenever the dataset can be read,
\* what the manifest lists is in it, wherever earlier merges were killed
\* (merge_sessions.py:59, 75).
ManifestNotAhead ==
    dataset # Empty => DOMAIN manifest \subseteq DOMAIN dataset

\* An evaluation over the sessions that the model was trained over, with no larger a
\* share than training held out, tests on no session the model has seen, in however
\* many files, of whatever rows, those sessions are now (train_cnn.py:54-63,
\* eval.py:82).
TestedWasHeldOut ==
    \A d \in Inputs, percent \in EvalPercents :
        model.sessions = SessionsIn(d) /\ percent <= TestPercent =>
            Tested(d, percent) \subseteq model.test

\* eval.py:1 calls it "a held-out test split".  Not so: the split is of the sessions
\* that the dataset has now, and of the share that is asked for now.
HeldOut ==
    \A d \in Inputs, percent \in EvalPercents :
        Tested(d, percent) \cap model.sessions \subseteq model.test
=============================================================================
