# VoltStream in TLA+

VoltStream watches a fleet of batteries. A simulator produces telemetry and posts
it in batches; a FastAPI backend stores it in PostgreSQL, keeps one current-state
row per battery, raises and resolves alerts, marks silent batteries offline, and
feeds a dashboard over REST and server-sent events. This directory holds TLA+
modules for the parts of it whose correctness depends on order: what runs between
what, what fails half-way, who waits for whom.

## 1. Inventory

| component | state it keeps | operations | talks to |
|---|---|---|---|
| telemetry ingestion (`api/telemetry.py`, `services/telemetry_service.py`) | tables `telemetry`, `battery_current_state`; one database session per request | `POST /telemetry`, `POST /telemetry/batch`: validate, insert, upsert, evaluate, commit | anomaly rules, PostgreSQL |
| anomaly rules (`services/anomaly_detection_service.py`) | table `alerts` | four rules per accepted reading; `create_or_retain_alert`, `resolve_alert_if_active` | called by ingestion and by the detector |
| alerts (`services/alert_service.py`) | table `alerts` | `resolve_alert` (by hand), `list_alerts` | operator |
| offline detection (`services/offline_detection_service.py`, `services/offline_detector.py`) | the loop's position | every few seconds: mark stale rows, commit, raise `DEVICE_OFFLINE`, commit | `battery_current_state`, `alerts` |
| simulator delivery (`simulator/batching.py`, `delivery.py`, `retry.py`, `client.py`, `fleet.py`, `main.py`) | event buffer, bounded queue, worker tasks, counters | `add`, `flush`, `submit`, `_work`, `send_batch`, `drain`, `stop`, `run_simulator` | `POST /telemetry/batch` over a network that loses and delays |
| registration (`services/battery_service.py`, `api/batteries.py`, `simulator/fleet.py`, `main.py`) | table `batteries` | `register_battery` (insert, same again, conflict), `list_batteries`; the simulator's start | simulator start-up |
| fleet summary and gauges (`services/fleet_service.py`, `services/metrics_refresher.py`) | none (gauges) | three reads per summary, two per refresh | dashboard, publisher, Prometheus |
| real-time updates (`services/broadcaster.py`, `services/realtime_publisher.py`, `api/stream.py`) | a bounded queue per SSE client | subscribe, publish (drop oldest), heartbeat, unsubscribe | summary, browser |
| frontend live dashboard (`frontend/src/hooks`, `pages`) | last summary, connection state | snapshot, stream, reconnect | REST, SSE |
| prediction (`services/prediction_service.py`, `live_features.py`, `model_registry.py`) | the loaded model | load at start; eligibility, features, model, fallback to the baseline | two reads of the database, the artifact |
| machine learning pipeline (`ml/features.py`, `ml/training`, `ml/evaluation`) | dataset, model artifact | build the dataset, split, fit, score, select, write the artifact | stored telemetry; the backend's next start |
| simulated batteries (`simulator/battery.py`, `profiles.py`) | physics of one battery | `tick` | fleet |
| migrations, load tests, logging, configuration, containers | files | start-up code and scripts | - |

What is hard here, in one list (PROJECT.json `hazards` has each at its line):

- requests, the detector and the operator work on the same rows, with several
  statements per transaction and, for a batch, two transactions per request;
- the detector commits its mark and its alerts separately, and dies or fails in
  between;
- readings arrive late, twice, out of order, and in requests that overlap with
  their own retries;
- row locks taken in several orders by several parties;
- a bounded queue between many producers and a few workers that retry, give up or
  die, and a shutdown that must neither lose data silently nor wait for ever;
- a fleet registered by one process after another, while the backend still works on
  what an earlier one sent, and a list that is read while it grows;
- a model that is trained, written, loaded and asked by programs that share no code
  and no clock, with the features and the baseline computed twice.

What makes each component correct:

- ingestion: an event is stored once and confirmed as new once; the current state
  is that of the newest stored reading; single ingestion is all or nothing; every
  request ends;
- alerts: at most one unresolved alert per battery and type, history is never
  rewritten, what an answered request found wrong is an open alert;
- detection: OFFLINE only after silence, silence noticed in the end, OFFLINE left
  only by a reading;
- delivery: no event lost or held twice, what is counted as sent is stored, memory
  bounded, a failing worker ends the run with an error, a run nobody refuses ends;
- real time and dashboard: bounded memory per client, no queue left behind, no
  queries for nobody, and a page that comes to show the fleet as it is;
- registration: telemetry only for a fleet that is registered as the simulator has it,
  a registered battery never changed, and a fleet that comes up in the end;
- simulated batteries: no alert, no refusal by the schema out of the simulation's own
  noise; charge, status and profile agree;
- prediction: a model is served only whole, only if it beat the baseline, one per
  process; it is asked what it was taught; the fallback is the baseline it was
  compared with; labels are true, and the test set is later than the training set.

## 2. Modules

| module | what it is |
|---|---|
| `AnomalyRules` | the rules as operators: a reading (and the telemetry before it) to a verdict per alert type |
| `Ingestion` | the backend's write side: both POST handlers, alert life cycle, detector, operator, with their transactions |
| `IngestionInv` | the inductive invariants of `Ingestion` |
| `IngestionProofs`, `IngestionAlertProofs`, `IngestionStoredProofs` | theorems about `Ingestion` |
| `MCIngestion` | its instances for TLC: readings and bodies |
| `Delivery` | the simulator's delivery pipeline and the network behind it |
| `EventDelivery` | what that pipeline promises, without batches, queue, workers or attempts |
| `DeliveryProofs`, `MCDelivery` | theorems about `Delivery` and its refinement of `EventDelivery`, its instances |
| `Realtime` | the way of a fleet summary to a dashboard: publisher, broadcaster, SSE endpoint, the hook's snapshots and reconnections |
| `RealtimeProofs`, `MCRealtime` | theorems about `Realtime`, its instance |
| `Registration` | simulators that come and go, the registration endpoint, the registry, a client that pages through it |
| `RegistrationProofs`, `MCRegistration` | theorems about it, its instance |
| `Battery` | a simulated battery: profile table and physics, against the schema and the alert rules |
| `BatteryProofs`, `MCBattery` | theorems about it, its instance |
| `Features` | operators: dataset, labels, features, split and baseline of the training side; history, features, eligibility and fallback of the serving side |
| `Prediction` | the life of a model, from stored telemetry over the artifact to an answer |
| `PredictionProofs`, `MCPrediction` | theorems about both, their instance |

Operators whose comment starts with "Mutant:" are plausible bugs of the definition
that follows them. They are used only to see that a property notices them.

### AnomalyRules

Quantities are integers: percentage points, degrees, volts, ticks. The voltage
deviation is compared after multiplying out, so no rounding is modelled. The
thresholds are constants (`core/config.py`). `RapidDischarge` returns a set: the
query takes the newest reading at or before the window's start, and of two with the
same timestamp PostgreSQL may return either; with none it neither raises nor
resolves.

### Ingestion

State: the three tables as committed (`telemetry`, `current`, `alerts`), and beside
them what each open transaction has written (`newTelemetry`, `newCurrent`,
`newAlerts`). The latter are also the row locks: PostgreSQL holds a written row
until commit, and nobody else sees it. The other variables are the handlers' local
variables (`pc`, `req`, `latest`, `todo`, `found`, the detector's and the
operator's), the clock, and counters of failures and crashes.

One action is one SQL statement with the Python around it up to the next `await`:

| action | code |
|---|---|
| `Arrive`, `Validate` | the request, 413, 404 |
| `InsertTelemetry` | `INSERT ... ON CONFLICT (event_id) DO NOTHING RETURNING` |
| `UpsertCurrentState` | the reduction to one reading per battery and the upsert with its `WHERE` |
| `CommitData` | the early commit of the batch endpoint |
| `EvaluateRules` | one rule of one battery, in the code's order; a resolution is two actions, the SELECT and the UPDATE by primary key |
| `Commit`, `Fail` | the last commit and the answer; an exception and the rollback |
| `MarkStaleBatteriesOffline` | select with `SKIP LOCKED`, update, commit (the rows are locked from the first statement on, so the three are one step) |
| `ReadClock`, `RaiseOffline`, `CommitOffline`, `DetectorFail` | the second transaction of a tick |
| `ReadAlert`, `ResolveAlert` | `resolve_alert`: its read and its write |
| `Crash` | the backend dies and is restarted: open transactions are rolled back |

A statement is one step although it locks its rows one after the other. For the
upsert and the rules this loses nothing the properties are about: rows are locked in
sorted order and kept until commit. For the multi-row INSERT into `telemetry`, which
is not sorted, two overlapping bodies could wait for each other inside the statement;
that is not modelled. A statement that meets a row another
writer has written waits (its guard is false), then works on what was committed, as
PostgreSQL does at READ COMMITTED. Readings that Pydantic rejects change nothing and
are not sent; a reading with an unregistered battery is.

### Delivery

One coroutine runs at a time, so an action is what runs between two awaits. `buffer`
is the accumulator's list, `held` the batch a producer waits in `put()` with, `queue`
the bounded queue, `carried` and `attempt` a worker's batch and its attempt, `wire`
the requests the backend has not handled yet, `stored` what it has stored. A request
whose sender has given up stays in `wire` and may still be handled, before or after
its own retry; the backend may answer with success, trouble (5xx, having stored the
batch or not: the batch endpoint commits before the rules run) or a refusal, and the
answer may be lost. Which of several waiting producers gets the free place is left
open: `asyncio.Queue` wakes the oldest, but a newcomer may overtake it.

`main` follows `run_simulator`: running, flushing, draining, stopping, stopped,
ended. Cancellation is two steps, the fleet and then the workers, as in the `finally`
clause. That the simulator's process is killed is not modelled: it keeps nothing, so
everything in its memory is gone, by design.

`EventDelivery` has no batches, workers, queue or attempts: events are produced,
stored, and settled once as sent or as dropped, sent only if stored, and the run is
called good only when all are settled. `DeliveryPromise` says `Delivery` implements
it, with `produced` defined from `ticks`.

### Realtime

`reading` holds, for the publisher and for each snapshot a page has requested, the
SELECT `get_fleet_summary` is at and the figures it has so far; the fleet may change
between two SELECTs, so a summary may fit no moment at all. `subscribers` and `queue`
are the broadcaster; `endpoint` is where the generator of `GET /stream` is (the
headers go out before it subscribes, so a page can be "live" and miss an event);
`page` is the hook's state with its refs and its `EventSource`.

| action | code |
|---|---|
| `WakePublisher`, `Read`, `Publish`, `PublisherFails` | one iteration of `run_fleet_update_publisher` |
| `Accept`, `Subscribe`, `EndStream` | `stream`, `_event_stream`: response, `subscribe()`, the `finally` clause |
| `OnFleetUpdate` | the generator takes an event from the queue, the page shows it |
| `Mount`, `Unmount` | the effect of the hook and its clean-up |
| `OnOpen`, `OnError`, `Retry` | `onopen` with the new snapshot of a reconnection, `onerror`, the browser's own retry |
| `SnapshotArrives`, `SnapshotFails` | `.then` and `.catch` of both fetches |
| `FleetChanges`, `BreakConnection` | the rest of the backend, the network |

What is on the wire counts as still in the queue: a client that stops reading and a
queue that fills are then one thing. A snapshot's answer may come at any time, also
after the visit that asked for it.

### Registration

A request is a slot in the backend with the battery it registers and the statement it
is at: `get`, `insert`, `commit`. The simulator waits for one request at a time
(`awaiting`); when it is stopped or redeployed, its request stays open and nobody
waits for it. The INSERT waits while another has inserted the same key without
committing, and violates the primary key once that is committed.

| action | code |
|---|---|
| `Start`, `RegisterNext` | `run_simulator` up to the first event, `register_fleet` |
| `Exit` | `raise_for_status()`, or the process is stopped |
| `LookUp`, `Insert`, `Commit` | `register_battery`: `session.get` and its comparison, the flush, the commit |
| `Fail`, `BackendCrash` | 500 or 503 in any statement, also after the commit; the process dies |
| `Redeploy` | a new `DEVICE_COUNT` or `FAULT_RATE` |
| `Walk` | `list_batteries`, page by page: its count and its rows are two statements |

The fleet is computed as `build_fleet` does, `round()` to the even neighbour included:
with a fault rate, a larger fleet gives registered batteries another profile, which
the backend refuses for good. `FleetComesUp` names that case (`Conflict`).

### Battery

Integers stand for the floating-point quantities (units in the module's header), and
each random draw is a choice from its range. `Tick` is `Battery.tick` with what
`requested_power_kw` asks for; `Restart` is the new object of a restarted simulator.
Rounding is towards zero where the code does not round at all, so the properties are
stated with room for it: thresholds, not exact values. The direction matters in
`Warmed`: each tick brings the temperature a tenth of the way to its target and adds up
to half a degree, so the noise can add up to five degrees on either side, and the pull
(`Quotient`, in tenths of a degree) must not be rounded up to more than the code's.

### Features and Prediction

`Features` holds both sides as operators, each from its own source: `FeaturesForPoint`,
`RowsForBattery`, `ChronologicalSplit`, `EvaluationMinutes` from `src/ml`,
`TelemetryHistory`, `LiveFeatures`, `Prediction` from the backend. A mean is represented
by the bag it is the mean of: equal bags have equal means, and a bag that differs by a
reading is a different feature. Features that are only copied are left out. Floats are
compared as integers; time is in ticks, at most one reading of a battery per tick.

`Prediction` has the readings stored per battery, the artifact on disk, the model a
process has loaded, and one request at the prediction endpoint.

| action | code |
|---|---|
| `Ingest` | a reading is committed, in order or late |
| `PersistModel` | `build_dataset.py` and `persist_model.py`: dataset, split, results, selection |
| `DumpFinished`, `DumpCrashed` | `joblib.dump`, which writes in place |
| `Restart` | `lifespan`: `load_model_artifact` |
| `ReadCurrentState` | `get_battery_detail` |
| `Answer` | the endpoint's second read and `compute_prediction` |

The scores are a choice: any results that the selection may see, with no number for a
baseline that can answer no test row (its errors are NaN, and Python's `min` keeps what
it compares NaN with first).

## 3. Runs

All runs use two TLC workers and finish within three minutes. Deadlock is checked
in `MCBattery` only: the other instances stop, when the clock, the requests, the ticks or the failures
are used up. That nothing stops too early is what the liveness properties say.

| run | instance | what it shows |
|---|---|---|
| `MCIngestion` | 1 battery, 2 requests, 5 bodies (one repeats an event, two share one, one is late, one is refused), clock 0-2, 1 failure, 1 crash | `TypeOK`, `StoredOnce`, `CurrentIsNewest`, `OneOpenAlert`, `SingleStoredWithIncident`, `OfflineMeansSilent`, `IncidentsPreserved`, `AnomalyOpenAtCommit`, `RecoveryNeedsReading` |
| `MCIngestionLive` | 1 battery, 2 requests, 2 bodies (one in a batch only), each reading breaks two rules and is old enough to leave the battery silent, the clock stands still, 1 failure, fairness | `NoCircularWait`, `RequestsTerminate`, `SilenceNoticed` |
| `MCDelivery` | 2 batteries, 2 workers, batches of 2, queue of 1, 2 attempts, 3 ticks, 1 refusal | `TypeOK`, `NothingLost`, `DeliveryPromise` (refinement) |
| `MCDeliveryLive` | 1 battery, 2 workers, batches of 2, 10 ticks, 1 attempt, 1 refusal, with and without `max_ticks`, fairness | `BoundedMemory`, `RunsToTheEnd`, `FailureIsLoud` |
| `MCRealtime` | 2 connections (two visits, or one visit and a reconnection), 1 change of the fleet, 1 failure, queues of 1, fairness | `TypeOK`, `SlowClientBounded`, `PageCatchesUp`, `LoadingEnds`, `GoneIsUnsubscribed`, `QuietWithoutListeners` |
| `MCRegistration` | fleets of 2 or 3 batteries, fault rate 0 or 50 %, 3 requests, pages of 1, 2 faults, 1 redeployment, fairness | `TypeOK`, `RunningMeansRegistered`, `WalkMissesNothing`, `IdentityKept`, `FleetComesUp` |
| `MCBattery` | every row of the profile table, all profiles, variation and noise at their extremes, full power moves the whole charge in a tick | `TypeOK`, `NoPhysicalAlarm`, `SchemaAccepts`, `ChargeFollowsProfile` |
| `MCPrediction` | 2 batteries, up to 6 readings at 5 times, windows of 1 and 2, lookback of 3, 3 rows, 2 training runs, 1 restart | `TypeOK`, `ServedModelWon`, `OneModelPerProcess`, `LabelsAreTrue`, `TestIsLater`, `FallbackIsTheScoredBaseline`, `ServedAsTrained` |
| `FindTick`, `FindRepeat`, `FindFlush`, `FindArtifact` | one property each | what a comment or a message says and the code does not do (section 5) |

Why these bounds are enough for the cases that matter. Two requests suffice for a
race on a row, on an incident or on an event, and a third party is always there: the
detector, and the operator. One failure and one crash can hit any step. In `MCIngestion` the
clock passes the offline threshold (one tick), so a battery goes silent, is marked,
recovers and, with readings from before the clock starts, is silent again. In
`MCIngestionLive` every reading is older than the threshold already, so that its battery
is marked without the clock, and may be marked twice. Each breaks two rules, so that two
requests, and the detector, meet at more than one incident; circles through the rows of
several batteries are left to the theorem (`NoCircularWaitHolds`). Eight alert ids (seven in `MCIngestionLive`)
are more than a run ever uses, so no step is blocked for want of one. In `Delivery` the queue of one batch fills at once, so
producers wait while workers retry; odd numbers of events and batches of two leave a
partial batch to flush; ten events are more than the pipeline can hold (a batch with
each worker, one queued, one waiting, one event in the buffer), so that `BoundedMemory`
has something to stop. In `Realtime` two connections
are what it takes for a late snapshot of an earlier visit, a refetch after a
reconnection, and an old queue still there beside the new one; one change can fall
between two SELECTs, and a queue of one is full with the second event. Events are numbered per
battery, `MaxTicks` bounds them also when the fleet runs for ever (`finite` FALSE:
then the fleet never counts as done). In `Registration` three requests are two stale
ones beside the awaited one; fleets of two and three with and without faulty batteries
contain the harmless growth (0 %) and the one that moves a profile (50 %); pages of one
battery make every page a chance for the fleet to grow. In `Battery` a tick is long, so
that a battery is empty or full after a few; the noise only matters at its extremes.
The temperature gets five degrees below the ambient one and eleven above it, past every
target of the load; with a pull of a hundredth instead of a tenth the noise alone carries it
to the alert (`WarmedSluggish`). In
`Prediction` the windows keep their order (short, long, lookback), the row limit is the
least the assumption allows, so that both cutoffs take effect; six readings are enough
for a training row of each battery with a critical reading behind it, for a late
one, and for a charge before the critical reading; two training runs are a model and its successor, or a model and a win of the
baseline. Only the first battery is asked for a prediction.

Symmetry: requests, batteries of `Delivery` and workers are interchangeable; it is
used in the runs without liveness properties only.

Fairness. `Ingestion`: weak fairness of each request's next statement, of the
detector and of the operator's second statement (a coroutine that can go on is run
by the event loop; a lock that is free is granted), and of the clock. Requests need
not arrive, and failures and crashes need not happen. Weak fairness is enough for
the detector although it skips locked rows, because the locks of a request that ends
go away, and only so many requests are made. `Delivery`: weak fairness of each
producer, waiting `put()`, worker and `run_simulator`; a worker's step includes its
timeout. The network and the backend owe nothing: `Handle` has no fairness.
`Realtime`: weak fairness of the publisher, of each snapshot's request, of each
stream's generator and of the browser's event loop. A broken connection is noticed
by the server, because it writes a keep-alive every 15 seconds, and by the browser;
the latter is an assumption about its network stack (the hook itself does not watch
for keep-alives). Failures, breaks, visits and changes of the fleet need not happen,
and are bounded; the publisher is not. `Registration`: weak fairness of the simulator's
start (the container's restart policy is `unless-stopped`) and of each open request's
next statement. `Battery` and `Prediction` have no liveness property and no fairness.

## 4. Proofs

Everything below is checked by TLAPS for every value of the constants: any sets of
batteries, readings, bodies and requests, any thresholds and bounds.

| theorem | statement |
|---|---|
| `TypeCorrect` (`IngestionProofs`) | `Spec => []TypeOK` |
| `OneOpenAlertHolds`, `IncidentsPreservedHolds`, `NoCircularWaitHolds`, `AnomalyOpenAtCommitHolds`, `SingleStoredWithIncidentHolds` (`IngestionAlertProofs`) | `Spec => []OneOpenAlert`, `IncidentsPreserved`, `[]NoCircularWait`, `AnomalyOpenAtCommit`, `[]SingleStoredWithIncident` |
| `StoredOnceHolds`, `OfflineMeansSilentHolds` (`IngestionStoredProofs`) | `Spec => []StoredOnce`, `[]OfflineMeansSilent` |
| `CurrentIsNewestHolds`, `RecoveryNeedsReadingHolds` (`IngestionStoredProofs`) | `Spec => []CurrentIsNewest`, `RecoveryNeedsReading`, if `BodiesNameReadings` |
| `DeliveryTypeCorrect`, `NothingLostHolds`, `BoundedMemoryHolds`, `DeliveryKeepsItsPromise` (`DeliveryProofs`) | `Spec => []TypeOK`, `[]NothingLost`, `[]BoundedMemory`, `DeliveryPromise` (`Delivery` implements `EventDelivery`) |
| `RealtimeTypeCorrect`, `SlowClientBoundedHolds` (`RealtimeProofs`) | `Spec => []TypeOK`, `[]SlowClientBounded` |
| `RegistrationTypeCorrect`, `RunningFleetIsRegistered`, `WalkMissesNothingHolds`, `IdentityIsKept` (`RegistrationProofs`) | `Spec => []TypeOK`, `[]RunningMeansRegistered`, `[]WalkMissesNothing`, `IdentityKept` |
| `BatteryTypeCorrect`, `SimulationRaisesNoPhysicalAlarm`, `ChargeMovesAsReported` (`BatteryProofs`) | `Spec => []TypeOK`, `[]NoPhysicalAlarm`, `ChargeFollowsProfile` |
| `SchemaAcceptsHolds` (`BatteryProofs`) | `Spec => []SchemaAccepts`, if `HardwareFits` |
| `PredictionTypeCorrect`, `ServedModelWonHolds`, `LabelsAreTrueHolds`, `TestIsLaterHolds`, `ServesOneModel`, `FallsBackToScoredBaseline`, `NoSkew` (`PredictionProofs`) | `Spec => []TypeOK`, `[]ServedModelWon`, `[]LabelsAreTrue`, `[]TestIsLater`, `[]OneModelPerProcess`, `[]FallbackIsTheScoredBaseline`, `ServedAsTrained` |

### Ingestion

`TypeOK` is not inductive alone. A suspended handler uses what it read earlier:
`LocalsOK` adds that its body names registered batteries once it is validated, that
every check left has a reading, and that the alert it has read still exists, in the
table or among its own writes. The last needs alerts never to disappear, which each
action preserves.

`OneOpenAlert` speaks of the committed table, and says nothing of what open
transactions are about to commit. `AlertInv` adds: no two writers hold one alert row
(`AlertLocksExclusive`); what each writer sees has one open alert per incident
(`OneOpenSeen`); no two writers have the same incident open and uncommitted
(`OneOpener`); and an uncommitted row continues the committed row it will replace
(`PendingContinues`). Every write of an alert, of a request or of the detector, is
shown to be `Allowed`: on a row that no other writer holds, and either a later state
of what the writer sees there or a new incident that nobody has open. `WriteKeeps`
then shows once that an allowed write keeps the invariant; `CommitKeeps`,
`RollbackKeeps` and `ResolveKeeps` do the rest. `IncidentsPreserved` follows step by
step from `PendingContinues`.

`StoredOnce` is strengthened by `StoredInv`: rows not yet committed are new to the
table, to each other, and to the other writers' rows.

`CurrentIsNewest` compares a row with a table, and both have uncommitted parts. `Stages`
says how far a request must have come to have written what it has; `RowLocksExclusive`
that no two requests hold one current-state row; and `PendingNewest` that a request past
its upsert holds a row for every battery it stores readings of, and that this row is what
the newest of those readings makes of the committed one. The committed row cannot change
meanwhile, so the commit stores readings and row together. The theorem has a
hypothesis, `BodiesNameReadings`: no body gives two readings one `event_id`. The simulator
draws a `uuid4()` for each, and the backend does not check; `FindRepeat` shows what happens
otherwise. `OfflineMeansSilent` needs the same of uncommitted rows (`SilentInv`).

`NoCircularWait` is an argument about order. `CheckInv` says that the alerts a request
holds are of incidents before all its checks left (`HeldOf`), and those of the detector of
batteries before the ones it has left (`DetectorHolds`). Suppose every writer of a set
waits for another one of it. A request that waits for events or for state rows waits for
one that is further on, so some writer of the set is at a check. What it waits for is held
by a writer that waits at a check too, and whose check comes after it (`WaitsAtCheck`,
`HoldsEarlier`). But of finitely many checks one is the last (`LastCheck`).

`AnomalyOpenAtCommit` needs `RaisedOf`: a check on an anomalous reading is either left to
do or the request itself holds an open alert of it, which nobody else can close. In
`SingleStoredWithIncident`, `SingleKept` says that the one reading a single request has
stored is the one its checks are about, and that it is confirmed by the last commit only.

### Delivery

`DeliveryInv` has four parts. `TypeInv`: types, and the attempt a worker is at.
`FlowOK`: that the fleet has finished, and the buffer and the batteries' hands are empty,
when `run_simulator` drains and calls its run good. `MadeOK`: what is anywhere was made by a
battery. `PlacesOK`: two places never share an event, and until a worker dies or the run
is stopped none is missing. `NothingLost` follows; `BoundedMemory` also needs the size of
each batch (`SizesOK`) and the cardinality of a union of so many of them.

For the refinement every action is shown to be an action of `EventDelivery` or to leave
`produced`, `stored`, `sent`, `dropped` and `outcome` alone: a tick makes an event, a
handled request stores, an answer settles a batch that is not settled and, if it counts as
sent, is stored; and the run ends well only when the queue, the workers and the buffer are
empty, so that by `PlacesOK` everything is settled.

### The others

`SlowClientBounded` needs `QueueInv`, the types of the fleet, the readers and the
queues, and the lemma `OfferBounded`: a full queue gives up one event for another. The
types of `Realtime` need `ConnectionsCounted`: connections are numbered as they are opened,
and each is paid for by a visit or by a loss that was counted, so the numbers never run
out.

`RunningMeansRegistered` needs to know what has been registered so far while the
simulator is still at it (`SoFarRegistered`), that the request it waits for is the one
for its next battery (`AwaitsItsRequest`), and that of all requests at most one has
inserted a row of a battery without committing, whose row is then free
(`SoleInserter`). The registry only grows (`RegistryGrows`), which is `IdentityKept` and
keeps the rest. That stale requests cannot harm is seen in `SucceedCore`: a success of
the awaited request says what the registry holds, whoever wrote it.

`WalkMissesNothing` holds because of the order in which a simulator registers.
`ListInv`: the registered batteries are always the first ones of the list
(`ListIsPrefix`); a battery is only ever asked for when all before it are registered
(`AskedInOrder`), also by requests of earlier simulators. A row's offset is then its place
in the list, nothing is inserted into a page already read, and `WalkSoFar` says what has
been seen up to the next offset.

`NoPhysicalAlarm` follows from an invariant that keeps temperature within five degrees
below ambient and twenty above (`TemperatureBounded`: five degrees from the
target, the tenth of the way back is as much as the largest noise; `WarmedBounded`), and voltage at most one percent off the expectation
(`VoltageFollowsCharge`, with `VoltageNearExpected`). `ChargeFollowsProfile` follows
from `RequestBounded`: the profile tables ask for a charge only of a solar battery, the
variation included. `SchemaAccepts` is proved for hardware that the backend's schema allows
for (`HardwareFits`: at most 900 V and 1 MW, no more than 8 kW per volt, -35 to 80 degrees
around it); nothing in the simulator checks that, and `FleetConfig` gives 48 V, 5 kW and 25
degrees. The voltage is then at least four fifths of the nominal one, which bounds the
current (`VoltageInRange`, `PowerInRange`).

`NoSkew` is about two computations and one race. `HeldRowIsStored` says that the reading
held between the endpoint's two reads is a stored one; `WindowServed` that the reading
window of training is within what the query returns, because a battery has at most one
reading per time unit (`FewBetween`) and the row limit exceeds the longest window;
`SamePower` and `SameSocChange` that both sides then average and compare the same
readings. Readings that arrive in between do not matter, because both sides are taken
from what is stored at the second read.

`ServedModelWon` follows a model from the selection to the process: `WinnersOnly` says that
what is being written, on disk or loaded was selected by a run. That a selected model beat
the baseline is a fact about the scan by which Python's `min` selects. It is a recursive
function over the candidates, and the induction is over sets: the positions up to which the
scan's choice is as good as all before it contain 1 and, with each, the next (`UpTo`, from
the least element of a set of naturals).

`LabelsAreTrue` and `TestIsLater` hold of what the data pipeline computes from any stored
telemetry. `Ranks` is what both sorts rest on: in a finite total order the number of members
that are not above a member is its place, and every place is that of one member. So
`Sorted` has every reading of a battery once and in order (`SortedFacts`), and
`SortedByTimestamp` permutes the rows and puts none before an earlier one (`SortingFacts`).
The backward pass finds the first critical reading behind each position
(`BackwardFinds`, by `UpTo` from the end), so a label counts to it (`RowLabel`).
Rows of a battery differ in their timestamps and rows of two batteries in their battery,
so the joined dataset has no row twice (`FlattenFacts`, by `UpTo` over the batteries), and a
cut of the sorted rows at any place separates earlier from later ones (`SplitFacts`).

Assumptions: `IngestionAssumption`, `ThresholdsAssumption`, `RealtimeAssumption`,
`RegistrationAssumption`, `BatteryAssumption`, `FeaturesAssumption`,
`PredictionAssumption`: types of the constants, that `None` is none of the values, the
ranges of the random draws with thresholds that leave room for them, and the order of
the windows, the lookback and the row limit, as the defaults of the code have them. TLC
evaluates them in every run.

Only model-checked: the liveness properties (fairness and ENABLED are outside the
prover): `RequestsTerminate`, `SilenceNoticed`, `RunsToTheEnd`, `FailureIsLoud`,
`PageCatchesUp`, `LoadingEnds`, `GoneIsUnsubscribed`, `QuietWithoutListeners`,
`FleetComesUp`. Every invariant and every other action property of a run is a theorem.

## 5. Where comments and code disagree

- `FindTick`: when a tick fails between its two commits, the battery is OFFLINE and
  no later tick raises its alert.
- `FindRepeat`: `telemetry_service.py` says a duplicate within the batch never overwrites
  the current state. The filter goes by `event_id` alone: of two readings with one
  `event_id` in a body the first is stored, and both feed the current state and the rules,
  so the second becomes the current state. Only a producer that reuses an id meets this.
- `FindFlush`: the workers are watched while the fleet runs and in `drain()`, not
  during the final flush. If the last worker dies with the queue full, `put()` waits
  for ever. Only finite runs (`max_ticks`, as in tests) reach it.
- `FindArtifact`: when the baseline wins, `persist_model.py` writes nothing and prints
  that the artifact "does not exist, and the backend will correctly fall back to the
  baseline". The artifact of an earlier run that a model won is still there, and the
  next start of the backend serves it.

Seen in `Realtime`, and contradicting no comment: `error` is set by a failed first
snapshot and never cleared, so the page goes on showing the error while updates
arrive; and `offline_devices` can be negative for a second, when a battery is
registered and heard of between the first two SELECTs of a summary. One branch of the hook
is not modelled: `useRealtimeFleetSummary.ts:98-99` says that `EventSource` is closed for
good only by the effect's own cleanup, but a browser also gives up when the answer is no
event stream (an error status, say), and the page then stays "disconnected". The model's
page only loses connections that the browser opens again.

Seen on the way and not given a run:

- `_upsert_current_state` says a row with an equal `last_seen` is left untouched, and
  its `WHERE` is `<=`.
- An accepted reading resolves `DEVICE_OFFLINE` even when it is older than the current
  state, which stays OFFLINE; the comment there speaks of a newer one.
- After `DEVICE_OFFLINE` is resolved by hand, the next tick does not raise it again, as
  `alert_service.py` says, because the detector selects only rows that are not OFFLINE.
- `docs/ml/report.md` asks for a "full, continuous 15-minute lookback" of a training row
  and says that training and serving share one function. The code accepts a gap of up to
  ten minutes within the window, asks a served model with any history of five minutes,
  and has two functions, which agree (`ServedAsTrained`) on every reading that training
  accepts.
- `build_dataset.py` says a battery that recharges before it goes critical has no target;
  the code takes any later critical reading.
- `fleet.py` says profile variation and physics noise never draw from one sequence; with
  a seed, both generators of a battery get the same seed.
- `FleetComesUp` excepts a conflict: growing `DEVICE_COUNT` with a `FAULT_RATE` changes
  the profiles of registered batteries, and every restart is answered 409.

## 6. Plan

Done: `AnomalyRules`, `Ingestion`, `Delivery` with `EventDelivery`, `Realtime`,
`Registration`, `Battery`, `Features` with `Prediction`; proofs about each of them.

To come, if a module is added: the three statements of a fleet summary with the tables of
`Ingestion`, and multi-row statements that lock row by row.

## 7. Not modelled, and why

Reads that change nothing (alert lists, details) except where something is computed from
them; the filters of the lists; formatting, logging, metrics and configuration; fitting
and scoring of the models (floating point; their results are a choice); rendering;
containers and load tests. Floating-point rounding is left out of `Battery` and
`Features`. The multi-row INSERT into `telemetry` is one step, so that two bodies with
the same events in different orders cannot deadlock inside it, as PostgreSQL could let
them; the simulator repeats a batch in one order only. The delays of the retries are
left out; that the exponent overflows beyond a thousand configured attempts
(`retry.py:65`) is outside the model. Connection-pool exhaustion and statement timeouts
are covered only as failures of a request. Shutdown by cancellation is `Crash`.
