# VibroSense Edge AI in TLA+

A verification project for the repository's running system: the Nano's firmware,
the BLE link, the gateway on the Raspberry Pi, Node-RED's flow, the persister, and
the Flask app with its pages and API. It holds TLA+ modules for the parts that keep
state or talk to each other, TLC configurations that check them on small instances,
and TLAPS proofs, for every value of the constants, of every invariant and every
action property that the passing runs check.

Every module says at its top which files it models; `PROJECT.json` maps each
definition to the lines it stands for.

## 1. The system

| Component | Source | State it keeps | Operations |
|---|---|---|---|
| Nano sketch | `firmware/nano33/nano33.ino`, `src/ble_service.*` | sample buffer and `fill`, `seq`, `gWindowSeq`, mode characteristic, time of last publish, LED and what it was last set for | `setup`, `loop` (LED, watchdog, sample, inference, publish), `softReset` |
| Raw-window encoding | `ble_service.cpp` (sender), `ml/src/raw_window.py` (receiver) | receiver: window number -> chunk count, chunks, time first seen | `publishRawWindow`, `push`, GC |
| Capture tool | `ml/src/capture.py` | windows of the session, its meta and parquet files; mode of the device | scan, connect, CAPTURE, subscribe, wait, INFER, quality check, save |
| BLE central | `gateway/ble_central.py` | connection, `SeqStats` | scan, connect, subscribe, `_on_notify`, reconnect |
| Broker | mosquitto (external) | subscriptions, queues, retained messages | publish, deliver |
| Node-RED flow | `gateway/nodered/flows.json` | last state per asset, rolling buffer per asset (in memory) | state-change detector, rolling availability |
| Persister | `gateway/mqtt_to_sqlite.py`, `db/schema.sql` | tables `events`, `alarms` | `on_message`, inserts |
| Bridge | `app/mqtt_bridge.py` | broker connection | `on_message`, retry loop |
| Socket handlers | `app/sockets.py` | room of connected clients (external) | connect handler |
| Operator page | `app/routes/hmi.py`, `templates/hmi.html`, `static/app.js` | tile, alarm strip, stale timer, banner | render, `applyState`, `applyAlarm`, timer |
| Trend page | `app/routes/trend.py`, `templates/trend.html` | chart of at most 600 points | render, fetch `/history`, extend from the socket |
| REST API | `app/routes/api.py`, `about.py` | none (reads the tables) | `/state`, `/history`, `/oee`, `/assets`, `/alarms`, `/about` |
| Training data | `ml/src/merge_sessions.py`, `train_cnn.py`, `eval.py`, `scripts/synth_dataset.py` | session files, dataset and manifest, model | generate, merge, split and train, split and evaluate |
| Inference | `firmware/nano33/src/inference.cpp` | interpreter, ready or not | `begin`, `run` (quantise, invoke, argmax, confidence, fallback) |
| Acceptance tools | `scripts/atp01_timing.py`, `ml/src/eval.py` | latencies read; a report | read and gate latencies; predict and gate recalls |
| Model conversion | `ml/src/quantize.py`, `export.py`, `features.py`, `baseline_rf.py` | files | quantise, export, features, baseline |

How they interact:

```
 IMU -> Nano loop --BLE notify (state, one connection)--> ble_central --MQTT qos 0--> mosquitto
          |                                                                    |   |   |
          +--BLE notify (raw chunks)--> capture.py -> WindowAssembler          |   |   +--> Node-RED: detector, KPI
                                                                               |   |            | alarms qos 1, retained
                                              mqtt_to_sqlite -> SQLite <-------+   |<-----------+
                                                                  ^                v
                                     hmi / trend / REST API ------+          mqtt_bridge -> socket.io -> pages

 capture.py, synth_dataset.py -> ml/data/raw/*.parquet -> merge_sessions -> dataset + manifest -> train_cnn -> eval (ATP-05)
 Nano loop --serial infer_us=--> atp01_timing (ATP-01)
```

What is hard in it:

* **Loss and order.** A window is about nine notifications, any of which may be
  lost or cut; state messages are QoS 0; the only trace of a loss is a jump in `seq`,
  which reboots, captures and disconnections move too.
* **One connection.** The gateway and the capture tool compete for the device, and
  the capture tool changes a mode that the device keeps.
* **Restarts.** Node-RED forgets the last state, the broker keeps the last alarm,
  the persister is given it again, and a client that merely reconnects is not
  subscribed any more.
* **Two paths to the page.** The persister and the bridge hear the same message at
  different times; a page that connects is sent a row from one and messages from the
  other.
* **Files written in place.** Captures, the generator, merges and trainings are
  commands that run at the same time and get killed, over the same few files.
* **An answer that comes late.** The trend page listens to the socket only after
  `/history` has answered, and draws points in the order they come.
* **Two programs for one model.** The device and `eval.py` each round, pick and gate in
  their own way; a device without a model answers too.
* **Time.** `millis()` wraps, the receiver's TTL, the page's timer, a wall clock that
  can be set, and timestamps compared as text.

What makes each part correct is stated, property by property, in section 3.

## 2. The modules

| Module | Models | Kind |
|---|---|---|
| `WindowDelivery` | what capturing raw windows promises | abstract specification |
| `WindowAssembler` | `ml/src/raw_window.py` | component |
| `RawWindowLink` | `publishRawWindow`, the link, `capture.py`'s callback, over `WindowAssembler` | composition, implements `WindowDelivery` |
| `NanoFirmware` | the sketch and its BLE service | component |
| `StateLink` | `seq` on the device, the one connection, `ble_central.py`, the capture tool as a competitor | composition |
| `MqttPipeline` | broker, detector, persister, bridge | composition |
| `RollingAvailability` | the flow's second function | component |
| `OperatorPage` | tables, bridge, connect handler, page | composition |
| `TrendPage` | the trend page, over what `OperatorPage` says of feed and connection | composition |
| `ApiQueries` | the queries of the REST API and of `/about` over the two tables | component |
| `CaptureSession` | `capture.py`, run after run, with the device's mode and its connection | composition |
| `TrainingData` | session files, `merge_sessions.py`, the split, `train_cnn.py`, `eval.py` | composition |
| `Inference` | `inference.cpp` beside `eval.py`'s predictions | operators |
| `AcceptanceTests` | a device's answers, `atp01_timing.py`, `eval.py`'s gate, over `Inference` | composition |
| `RawWindowLinkProofs` | `WindowAssembler`, `RawWindowLink`, `WindowDelivery` | proofs |
| `NanoFirmwareProofs` | `NanoFirmware` | proofs |
| `GatewayProofs` | `StateLink`, `ApiQueries` | proofs |
| `PipelineProofs` | `MqttPipeline`, `RollingAvailability` | proofs |
| `TrendPageProofs` | `OperatorPage`, `TrendPage` | proofs |
| `CaptureSessionProofs`, `TrainingDataProofs`, `AcceptanceTestsProofs` | the module each is named after | proofs |
| `MCWindowAssembler`, `MCRawWindowLink`, `MCTrainingData`, `MCAcceptance` | | values of constants for TLC |

State and actions follow the code. Some correspondences worth knowing:

* `WindowAssembler`: `buf` is `_buf`, a function from window numbers to entries with
  `total`, `chunks` and `first_seen`. `Push(f)` is one call of `push`: `Reject` is its
  three early returns, `Buffer` the end without a complete window, `Complete` the one
  with. `Live` is what `_gc` leaves, and it is taken before the entry is looked up, as
  in the code. Payloads are model data that name the window and the samples.
* `RawWindowLink`: `PublishWindow` and `WriteChunk...` are the head and the iterations
  of `publishRawWindow`'s loop; each chunk is sent, cut short or lost. A window's
  number is never used twice in a connection (2^32 windows last 36 years).
* `NanoFirmware`: the four steps of an iteration are separate actions (`pc`), because
  every ArduinoBLE call polls the stack: connects, disconnects and writes of the
  mode happen between them. `silent`, `late` and `samples` are history.
* `StateLink`: `central` is where `run()` stands; `link` holds notifications that were
  sent and not yet handled; `produced`, `first`, `last`, `firstBoot` and `dropped` are
  history. The radio is up and the device advertises (`NanoFirmware` looks at that).
* `MqttPipeline`: `queue[c]` is what the broker sent to client `c` and it has not
  handled; `outbox` and `inflight` are what mqtt.js holds for QoS 1; `client[c]` is
  `deaf` after a reconnection inside `loop_forever`, because the code subscribes only
  once. One asset; the sinks do not influence each other, so TLC takes one at a time.
* `OperatorPage`: `page` follows a browser through `offline`, `joined` (in the room,
  the handler about to read), `stateSent` (between its two reads) and `live`. `Load`
  is the rendering of the page with the newest rows, `wire` the socket.
* `RollingAvailability`: `buf` is the node's buffer; `time`, `offset` and `seen` are
  what it is compared with. Its specification, and that of `ApiQueries`, has a name of its
  own (`AvailabilitySpec`, `ApiSpec`), for a module of proofs extends it with another.
* `TrendPage`: a browser shows the operator's page or the trend page (`view`); tables,
  bridge, room and connect handler are those of `OperatorPage`, whose actions the
  `Trend...` actions contain. `fetch` follows the request for `/history`: the server
  reads the table (`FetchReads`), later the answer arrives and the page listens
  (`FetchArrives`). `chart` holds points by the number of their message; `deaf`,
  `trimmed` and `again` are history. No message of the model is older than the page's
  five minutes when it loads.
* `ApiQueries`: text is a sequence of numbers that sort as the characters do. The
  queries change nothing, so they are operators, which the properties compare with the
  tables and with each other in every state; the actions insert rows and set the clock.
  A query is a set of row ids and an order of them, given as pairs; `First` is LIMIT.
  `/oee` has no ORDER BY and only counts, so it is the set alone.
* `Inference`: a real is a fraction or, for confidences, a number of 256ths; the network
  is any output that a softmax may have. TFLite's int8 softmax has scale 1/256 and zero
  point -128, which its specification fixes.
* `AcceptanceTests`: one device, flashed with a model, the placeholder or something that
  `begin` refuses; latencies are counted in three buckets, for a percentile only asks how
  many are below a limit; hits and windows are counted by class.
* `CaptureSession`: `at` is the statement `capture()` is about to execute, one action
  each; `Raises` is any of them raising, or the operator's ^C. `exit` is the exit status
  of the process: nobody catches the exception, so Python ends with status 1, as it does
  for a device that was not found, and ^C ends it by the signal. `left` is what remains of the deadline by the wall clock. `RawWindowLink` says how chunks become
  windows; here a window is counted when it is complete. `cut` and `unfit` are history.
* `TrainingData`: what a file holds is given by its name and its version. `merger` is
  where `merge()` stands, and every statement that touches a file is an action; a
  parquet file has a begin and an end of its writing. The shuffle under seed 42 is any
  family of permutations, chosen once. `rewritten` is history. One merge at a time.

Definitions named `Bug...` are plausible mistakes in the definition that follows them.
They are used by nothing; they serve to see that each property notices its mistake.

## 3. Runs

All runs finish in well under five minutes with two workers.

| Run | Bounds | Properties and what they say |
|---|---|---|
| `window_assembler` | 2 window numbers, one shared by windows of 3 and 2 chunks, the other by windows of 4 and 3 samples in 2 chunks each; TTL 1, clock to 4 | `PendingMissesAChunk`: nothing complete is left waiting. `EmittedWhole`, `EmittedFresh`: what is emitted has every chunk of one chunk count, each in its place, within the TTL. Windows of two sizes with the same number and chunk count may be joined, by the code too: the assembler knows nothing else of a window. `NothingStaleAfterPush`: the GC keeps the buffer bounded. |
| `raw_window_link` | 3 windows, 2 frames in flight, TTL 1, clock to 3 | `ImplementsDelivery`: refinement of `WindowDelivery`. `CapturedIffIntact`: a window is captured exactly if all its chunks arrived uncut within the TTL. `PendingOnlyBroken`: at the end of a session only broken windows are pending. |
| `nano_firmware` | window of 2 samples, timeout 2 ticks, clock wraps at 6, `seq` at 2, one tick per pass | `LedTruthful`, `SeqIsWindowClock`, `AtMostOneLateWindow`, `WatchdogBoundsSilence`. |
| `state_link` | 5 windows, 2 reboots, 2 notifications in flight | `MissedNeverInvented`, `MissedExactWithinBoot`: the loss count against what was produced. `Reconnects` (liveness). |
| `mqtt_pipeline` | 2 messages, 2 faults, each sink in turn | `EventsInOrder`, `RetainedIsBelieved`, `SubscriberCaughtUp`, `AlarmReachesSinks` (liveness). |
| `operator_page` | 2 assets, 3 messages, 3 loads or connections, stale time 2, clock to 3, a chart of 2 points | `OperatorCurrent`: only its connection can leave a page behind. `BannerTellsSilence`: the banner is up exactly when the tile got nothing for the stale time. `ChartHolesExplained`: what is missing on the chart was shifted out, or passed while the page was not connected or still waited for `/history`. `ChartOrderExplained`: a point right of a newer one was sent again or read ahead. |
| `availability` | window 2, 4 samples, clock to 5, set ahead or back once | `ExactInOrder`: exact as long as timestamps do not decrease. `NeverForgetsEarly`: whatever the clock does, no sample of the window is dropped while no later stamp was seen. |
| `api_queries` | days of 4 ticks, two days, 2 assets, 3 rows, limit 2, clock set once | `HistoryExactInMillis`: text comparison is time comparison for the notation the rows have, in whatever order of times the rows were stored. `OeeMissesNothing`: over midnight too. `EndpointsAgree`: `/state`, `/assets`, `/about`, `/history` and `/alarms` tell one story. |
| `capture_session` | 2 runs of 3 ticks, 2 windows are enough, clock set once | `InferUnlessCut`: a run leaves the device in INFER, whatever it finds, unless it was cut off. `SavedSessions`: a data file always has its meta file and passed the check or was forced. `ExitStatusTells`: status 0 means that the session is on disk, 2 that nothing of it is, and after either the device is in INFER; 1 promises nothing, for an uncaught exception has it too. `Terminates` (liveness). |
| `training_data` | 2 captures, a synthetic file in 2 versions, 3 sessions, shares 50 and 70 % | `DatasetMissesNothing`: no session is passed over. `ManifestPinsDataset`, `ManifestNotAhead`: what the manifest says of the dataset, whatever is written meanwhile and wherever a merge dies. `TestedWasHeldOut`: when an evaluation is of data the model has not seen. |
| `acceptance` | up to 32 latencies, inputs in quarters on both sides of every rounding and of the clamp, 6 levels of output, datasets of 20, 28 and 33 sessions with 5 windows each | `DeviceAgreesWithEval`: same class, and the same input but at halves. `FallbackIsToldByConfidence`: confidence 0 marks fallbacks and nothing else. `VerdictBoundsSlow`: what PASS and FAIL of ATP-01 say of the share of slow inferences. `PassMeansTested`: ATP-05 passes no class it has not tested. |
| `mqtt_every_state` | as `mqtt_pipeline` | violated: section 6. |

Why the bounds are enough: every situation the properties speak of needs two of
something (two windows, two sizes, two connections, two assets, two boots) and one
step past a limit (TTL, timeout, wrap, midnight, history limit); each bound leaves
room for at least one more than that. 32 latencies take the percentile's index over two
ties and the first sample count at which a slow one is let pass; 20 sessions are what
`make synth-dataset` makes. Type invariants are proved, and checked for the operator's
page as well. That each property can fail is seen by
mutating a mapped definition (`mutants` in `PROJECT.json`). Deadlock is not checked
where the clock or a counter of the model is bounded: the model then simply stops.

## 4. Fairness

* `StateLink`: systemd restarts `ble_central` (`Restart=on-failure`), sleeps and
  polls end, and a capture session ends (its deadline): weak fairness. A scan and a
  connection attempt may fail any number of times, but not each time a free device
  is there: strong fairness. `Reconnects` assumes that captures stop at some time.
* `MqttPipeline`: processes are restarted, paho and mqtt.js reconnect by themselves,
  every client handles what it has: weak fairness. Faults are bounded, and none of
  them is forced to happen.

* `CaptureSession`: asyncio runs the coroutine and BlueZ answers or raises: weak
  fairness of a run's steps taken together, in which raising counts only where the
  call cannot succeed. Nothing is assumed of windows coming in, nor of an operator
  who interrupts.

No fairness is assumed of the device, of losses, or of anybody pressing a key.

## 5. What is proved

Each theorem holds for every value of the constants that the modules' assumptions allow:
any number of windows, messages, runs, assets, faults, any TTL, timeout, modulus. The
runs show the same properties on small instances, and the invariants named here were
checked by TLC before they were proved.

`RawWindowLinkProofs`, in three parts. *The assembler*, for any window sizes, chunk
counts, TTL, clock and sequence of frames: each entry is well formed, was first seen not
after now, lacks a chunk, and its chunks were all accepted since it was created with its
count. This is inductive where the single properties are not: `EmittedWhole` needs that
an entry's chunks all carry the entry's chunk count, `EmittedFresh` that the GC ran in the same
push. From it follow `TypeOK`, `EntriesHomogeneous`, `PendingMissesAChunk`, `EmittedWhole`,
`EmittedFresh` and, as an action property, `NothingStaleAfterPush`. *The session*: type
correctness of the sending side and `SessionImplementsDelivery`, the refinement. The
invariant says of every frame in flight and of every chunk buffered that it belongs to a
published window, in the order of sending, and that no window is both captured and still
to come; a step of the assembler that completes a window is the abstract delivery, every
other step stutters or publishes. *What becomes of each window*: `CapturedIffIntact` and
`PendingOnlyBroken`, by `FateInv`. A lost window misses a chunk that is neither buffered
nor to come (`LostMissesAChunk`); each chunk of an intact one is to be sent, in flight, or
buffered until the window is captured (`IntactSoFar`); chunk 0 is not in flight any more
when a window has begun to arrive (`ArrivalBehind`), and an entry that holds it was first
seen when it came (`EntriesOfWindow`), so that the TTL is the only thing that can cost an
intact window.

`NanoFirmwareProofs`: `LedTruthful` by what `setup`, the loop and a reset leave in
`lastConnected` and `lastModeReported` (`LedShowsReport`); `AtMostOneLateWindow`, as no
window of the other mode went out yet while one can (`NoneLateYet`); `SeqIsWindowClock`,
for any number of wraps, once the remainder is written out (`WholeWindows`); and
`WatchdogBoundsSilence`, an action property, by bounds on the silence at each place of the
loop (`Silence`): it is at most the time since the last publication, as the wrapping clock
tells it, and two passes more. `RemainderAhead` and `Elapsed` say what a difference on that
clock means as long as the watchdog looks at it once a pass.

`GatewayProofs`. *`StateLink`*: `TypeOK`, `MissedNeverInvented` and
`MissedExactWithinBoot` for any number of windows, reboots and notifications in flight.
The invariant links `seq` to the production index within a boot (`LinkFollows`), orders
what is on the link after what was counted (`LinkAfterCounted`), and bounds the counters
by the indices (`Counting`). *`ApiQueries`*: the text that `_iso_now` writes compares as
the times do (`MillisSortAsTimes`), for days and seconds of any length, because dividing
by the second and then by the day is dividing by both (`DayOfSecond`), and `Less` is the
lexicographic order of the quotients and remainders (`ComparesAsParts`). Every
range, order and maximum of the API relies on it. `OeeMissesNothing` follows from the day
alone: no row of the window is of an earlier day than the cutoff, and on the same day `T`
sorts after the cutoff's space. `HistoryExactInMillis` and `EndpointsAgree` need to know
what LIMIT returns (`FirstOf`): in an order of `n` rows each has a place, the number of
rows before it, and no two the same, so that by the pigeonhole principle every number
below `n` is one (`PlaceTaken`). `/assets`' counts add up to `/about`'s because a row's
asset and its place among that asset's rows say which row it is (`CountsDo`). Until the
clock is set, rows are in the order of their times (`TimesAscend`), whence `/state` and
`last_ts` agree.

`PipelineProofs`. *`MqttPipeline`*: `TypeOK` and three arguments, each with its invariant.
`EventsInOrder`: queues are in order and what a sink has handled is older than what is
queued for it (`OrderInv`), which clean sessions and restarts only make emptier.
`RetainedIsBelieved`: the newest alarm that waits for an acknowledgment, or else the
retained one, is what the detector believes (`BeliefInv`). `SubscriberCaughtUp`: the
retained alarm is the last that was accepted, and is the last in a subscriber's queue
unless the subscriber has handled it (`CatchUpInv`). *`RollingAvailability`*: `TypeOK`,
`NeverForgetsEarly` and `ExactInOrder`, by `WindowInv`: the buffer is the newest part of
what was seen, each sample that was dropped had expired by a stamp seen later, and the
oldest one left is within the window.

`TrendPageProofs`, over both pages: `TypeOK`, `OperatorCurrent`, `BannerTellsSilence`,
`ChartHolesExplained` and `ChartOrderExplained`, for any assets, messages, loads and
connections. The feed is followed from the table to the wire: what the bridge has not
emitted is in order and newer than all it has, and every row that is stored or on the wire
was emitted or is still to be (`FeedInv`). With it: a connected page has been sent, or
will be, the newest of what was emitted for it (`WillBeCurrent`); the one timer is that of
the last state, and has fired when the banner is up (`OneTimer`); every point emitted is on the chart, on its way, or has one of the
three excuses (`NoHoleYet`); and the history ascends, as does what comes live but for the
points that are sent again (`SeedAscends`, `BridgeAscends`). `/history`'s answer is the
ascending sequence of the rows in the range, of which there is one for a finite set.

`CaptureSessionProofs`: `TypeOK`, `InferUnlessCut`, `SavedSessions` and
`ExitStatusTells`, for any duration, number of runs and settings of the clock. The
invariant ties the mode to the place of the run (a mode of CAPTURE means that a run is
between its two writes, or that one was cut), bounds the windows by the time that has
passed, and says which files exist at each statement of the last part, and that from the
quality check on the device is in INFER (`SwitchedBack`).

`TrainingDataProofs`: `TypeOK`, `DatasetMissesNothing`, `ManifestPinsDataset`, `ManifestNotAhead` and
`TestedWasHeldOut` for any captures, synthetic files, shuffles and shares. `HashedAsRead`
is what makes the second inductive: a file that nobody wrote to since the glob is hashed
as it was read. `GlobFound` does it for the first: any such file that is on disk was read
already or is still to be. `ManifestFound` does for the third: nothing leaves
`ml/data/raw`, so that each merge finds what the last manifest lists. The last needs
that a larger share takes a longer prefix of the same shuffle (`SplitMonotone`). `TypeOK`
includes that a split leaves a session to test and one to train on: ranks and the shuffle
are one-to-one, so some session comes first (`SplitTestsSomething`).

`AcceptanceTestsProofs`: all four properties of the run, for any network outputs, inputs,
scales, numbers of latencies, datasets, splits and predictions. The firmware's loop is
unrolled to show that it finds the first of the largest outputs (`DeviceArgmaxFirst`), of
which there is one (`SameArgmax`). Both roundings are the nearest integer but for halves
(`AwayIsNearest`, `EvenIsNearest`), on both sides of zero, which bounds the difference of
the inputs (`InputsClose`) and the percentile's index (`RankBounds`). A softmax has an
output above its zero point (`SomethingIsLikely`), hence a confidence that is not 0.

The assumptions are the `ASSUME`s of the modules: the constants are natural numbers,
at least one where the code needs it; session names are numbers, finitely many, and
shares are percentages; the outputs of the network are int8; the wrap of `millis()` is
longer than the watchdog's timeout and the passes around it.

Every invariant and action property of the passing runs is proved. Only liveness
(`Reconnects`, `AlarmReachesSinks`, `Terminates`) is model-checked alone: it needs ENABLED
and fairness, which are out of the prover's reach.

## 6. Where code and documents disagree

One run expects a violation, and `findings` in `PROJECT.json` quotes the lines:

* `mqtt_every_state`: a persister that reconnects is not subscribed and stores nothing.

The modules state further disagreements; each has a configuration that shows it,
outside the runs:

| Property (module, configuration) | What the document says | What the code does |
|---|---|---|
| `WatchdogSeesStall` (`NanoFirmware`, `MCNanoStalledRadio.cfg`) | `ble_service.h:22`: "most recent successful publish"; `firmware/README.md:76`: recovers "from the BLE stack getting stuck" | the watchdog measures writes, not what goes out |
| `TileNeverBlank` (`OperatorPage`, `MCPageBlank.cfg`) | `app/README.md:115`: the tile "never shows "—" if any event is on disk" | the handler sends the newest row of all assets, which a page of another asset ignores |
| `OeeCountsTheWindow` (`ApiQueries`, `MCApiOee.cfg`) | `PROJECT_PLAN.md:618`: "% time HEALTHY over a window" | `/oee` counts every row of the day its window begins in: `T` sorts after the space of `datetime()` |
| `PerfectModelPasses` (`AcceptanceTests`, `MCAcceptPerfect.cfg`) | `ml/tests/test_eval.py:42`: "If predictions are perfect, ATP-05 should pass." | a class that the split does not test has recall 0 (`eval.py:99`), and the 3 test sessions of the 20 synthetic ones cannot be of 4 classes |
| `P99IsGated` (`AcceptanceTests`, `MCAcceptP99.cfg`) | `PROJECT_PLAN.md:711`: "p95 < 250 ms; p99 < 350 ms. The script exits non-zero if the gate fails." | `atp01_timing.py:80` looks at p95 alone |
| `PassMeansInference` (`AcceptanceTests`, `MCAcceptNoModel.cfg`) | `atp01_timing.py:1`: on-device inference latency | with the placeholder model the sketch prints `infer_us=` all the same and ATP-01 passes |
| `NoHoleAfterHistory` (`TrendPage`, `MCTrendHole.cfg`) | `trend.html:55`: "live updates active" | what is emitted between the server's read and the answer is in neither |
| `TrimsOnlyTheOld` (`TrendPage`, `MCTrendTrim.cfg`) | `trend.html:57`: "trim anything older than 5 min" | the chart is cut to 600 points: at 3.7 windows a second the first live message cuts five minutes to 2.7 |
| `HeldOut` (`TrainingData`, `MCHeldOut.cfg`) | `eval.py:1`: "a held-out test split" | the split is made again, of the sessions the dataset has now |
| `BlueMeansRadioUp` (`NanoFirmware`, `MCNanoBlueLed.cfg`) | `ble_service.h:35`: blue is advertising | a soft reset that fails leaves the radio off under a blue LED |
| `DroppedSurface` (`StateLink`, `MCStateLinkDropped.cfg`) | `ble_central.py:5`: "dropped notifies surface as warnings" | those dropped just before a reboot do not |
| `MissedWereSent` (`StateLink`, `MCStateLinkUnsent.cfg`) | `ble_central.py:62`: "missed %d notify(s)" | windows that were never notified are counted too |
| `OneRowPerTransition` (`MqttPipeline`, `MCMqttOneRow.cfg`) | `gateway/README.md:57`: "one row per state transition" | each restart of the persister stores the retained alarm again |
| `OnlyTransitions` (`MqttPipeline`, `MCMqttOnlyTransitions.cfg`) | `PROJECT_PLAN.md:596`: "only emit transitions" | a restarted Node-RED repeats the last alarm |
| `StripShowsLastAlarm` (`OperatorPage`, `MCPageStrip.cfg`) | `hmi.html:25`: "last alarm:" | an alarm inserted after the connect handler's read is not shown |
| `BannerWhenNothingNew` (`OperatorPage`, `MCPageNothingNew.cfg`) | `hmi.html:21`: "No new data in 30 s" | an old row applied again takes the banner down |
| `CountsTheLastMinute` (`RollingAvailability`, `MCAvailabilityMinute.cfg`) | `gateway/README.md:110`: "60-second rolling fraction" | wrong after the clock was set |
| `HistoryInAnyNotation` (`ApiQueries`, `MCApiHistory.cfg`) | `api.py:17`: ISO 8601 | a range in whole seconds misses the rows of its first second |

Met while reading, and too far from any state for a property: `capture.py:75` takes 60
windows for 3 minutes, but 60 windows of 256 samples at 952 Hz are 16 seconds
(`ml/README.md:68` has the 3 minutes); `train_cnn.py:91` validates on the last 15 % of
the training rows, which may share sessions with the rest, while `ml/data/README.md:20`
lets no session appear in two splits; `quantize.py:33` does not reshape the flat
windows that `synth_dataset.py:72` and `train_cnn.py:47` say every reader reshapes;
with `DEBUG_TIMING` the sketch measures inference and publication together
(`nano33.ino:86-102`); a fetch that rejects leaves the trend page at "loading…"
(`trend.html:26-34`); a synthetic file that `make synth-dataset` leaves in `ml/data/raw` is merged with the
captures.

## 7. What is not modelled, and why

* Features, the baseline, quantisation, export, and what training computes: numeric code
  around libraries; the network's output is an input here.
* Two merges or two writers of one file at the same time; a manifest half written.
* Scaling to int16 and back, JSON and its wording: no property tells values apart.
* MTU negotiation, BLE retransmissions, WebSocket framing: a notification or message
  arrives, is cut, or is lost.
* SQLite's locks: an insert may fail.
* Payloads that the schemas refuse, and parameters the API refuses as malformed.
* Health, errors, configuration; provisioning and supervision, of which only that a
  process is started again is used, as fairness.
* Latencies as numbers: ATP-01 compares them with one limit, so buckets are enough.
* ISO 8601 with offsets: `ApiQueries` takes the two notations in UTC.

## 8. Plan

1. Raw windows: `WindowAssembler`, `RawWindowLink`, `WindowDelivery`: done and proved.
2. The state path: `NanoFirmware`, `StateLink`: done and proved.
3. `MqttPipeline`: done and proved.
4. `OperatorPage`, `TrendPage`: done and proved.
5. `RollingAvailability`, `ApiQueries`: done and proved.
6. `CaptureSession`: done and proved.
7. `TrainingData`: done and proved. Two merges at a time are left.
8. `Inference`, `AcceptanceTests`: done and proved.

An abstract alarm channel for `MqttPipeline` (item 3) was tried and left: with QoS 1 and
retained messages, a sink may be given any earlier alarm again, and what remains to be
promised is what `RetainedIsBelieved` and `SubscriberCaughtUp` say.
