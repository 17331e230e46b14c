------------------------------ MODULE Ingestion ------------------------------
(***************************************************************************)
(* The backend's write side on PostgreSQL: telemetry ingestion (single and *)
(* batch), the alert life cycle, the offline detector and the operator who *)
(* resolves alerts by hand, with the transactions they run in.             *)
(*                                                                         *)
(* telemetry, current and alerts are the committed tables.  What an open   *)
(* transaction has written and not committed is kept beside them, per      *)
(* writer: the rows it holds locked, seen by nobody else until it commits. *)
(* A statement that meets such a row of another writer waits for it, as    *)
(* PostgreSQL does at READ COMMITTED.                                      *)
(***************************************************************************)
EXTENDS Sequences, FiniteSets, AnomalyRules

CONSTANTS Batteries,          \* the registered batteries, in battery_id order
          NominalVoltage,     \* their registered nominal_voltage
          Readings,           \* the telemetry readings producers may send
          Payloads,           \* the request bodies: sequences of readings
          MaxBatchSize,       \* MAX_BATCH_SIZE
          OfflineThreshold,   \* OFFLINE_THRESHOLD_SECONDS
          Requests,           \* the HTTP requests that may be made
          Detector,           \* the offline detection loop
          AlertIds,           \* bound: the alert ids that uuid4() may return
          MaxTime,            \* bound: the clock stops here
          MaxFailures,        \* bound: how often a request or a tick fails
          MaxCrashes,         \* bound: how often the backend dies
          None

Writers == Requests \cup {Detector}

TelemetryStatus == {"CHARGING", "DISCHARGING", "IDLE", "FAULT"}

Reading == [event_id : Int, battery_id : Int, timestamp : Int,
            state_of_charge : Int, voltage : Int, temperature_c : Int,
            status : TelemetryStatus]

StateRow == [last_seen : Int, state_of_charge : Int,
             status : TelemetryStatus \cup {"OFFLINE"}]

\* resolved is resolved_at # None: the code always writes the two together.
AlertRow == [battery_id : Batteries, alert_type : AlertTypes, severity : Severities,
             timestamp : Int, resolved_at : Int \cup {None}]

ASSUME IngestionAssumption ==
    /\ Batteries \subseteq Int /\ IsFiniteSet(Batteries)
    /\ NominalVoltage \in [Batteries -> Int]
    /\ Readings \subseteq Reading
    /\ Payloads \subseteq Seq(Readings)
    /\ MaxBatchSize \in Nat
    /\ OfflineThreshold \in Int
    /\ Detector \notin Requests
    /\ AlertIds \subseteq Nat
    /\ MaxTime \in Nat
    /\ MaxFailures \in Nat
    /\ MaxCrashes \in Nat
    /\ None \notin Int \cup StateRow \cup AlertRow \cup Readings \cup Writers

VARIABLES
    telemetry,     \* committed rows of telemetry
    current,       \* committed rows of battery_current_state, None: no row
    alerts,        \* committed rows of alerts, None: no such alert_id
    newTelemetry,  \* per request: rows inserted, not committed
    newCurrent,    \* per request: rows locked by the upsert, not committed
    newAlerts,     \* per writer: rows inserted or updated, not committed
    pc,            \* per request: the statement that runs next
    req,           \* per request: its endpoint and its body
    inserted,      \* per request: the rows RETURNING gave back, once committed
    latest,        \* per request: latest_per_battery
    todo,          \* per request: the (battery, alert type) checks left
    found,         \* per request: the alert resolve_alert_if_active has read
    detPc, detTodo, detNow,
    opFound, opNow,  \* the operator: alert read by resolve_alert, and when
    now,           \* the clock of the backend
    failures, crashes

tables  == <<telemetry, current, alerts>>
pending == <<newTelemetry, newCurrent, newAlerts>>
locals  == <<pc, req, inserted, latest, todo, found>>
detector == <<detPc, detTodo, detNow>>
operator == <<opFound, opNow>>
faults == <<failures, crashes>>
vars == <<tables, pending, locals, detector, operator, now, faults>>

Idle == [endpoint |-> "none", events |-> <<>>]
NoLatest == [b \in Batteries |-> None]
NoStates == [b \in Batteries |-> None]
NoAlerts == [i \in AlertIds |-> None]

Init ==
    /\ telemetry = {}
    /\ current = NoStates
    /\ alerts = NoAlerts
    /\ newTelemetry = [p \in Requests |-> {}]
    /\ newCurrent = [p \in Requests |-> NoStates]
    /\ newAlerts = [w \in Writers |-> NoAlerts]
    /\ pc = [p \in Requests |-> "idle"]
    /\ req = [p \in Requests |-> Idle]
    /\ inserted = [p \in Requests |-> {}]
    /\ latest = [p \in Requests |-> NoLatest]
    /\ todo = [p \in Requests |-> {}]
    /\ found = [p \in Requests |-> None]
    /\ detPc = "sleep" /\ detTodo = {} /\ detNow = 0
    /\ opFound = None /\ opNow = 0
    /\ now = 0
    /\ failures = 0 /\ crashes = 0

-----------------------------------------------------------------------------
(***************************************************************************)
(* Transactions: what a writer sees, waits for, and makes visible.         *)
(***************************************************************************)

\* The alerts as writer w sees them: the committed rows under its own writes.
AlertsSeenBy(w) ==
    [i \in AlertIds |-> IF newAlerts[w][i] # None THEN newAlerts[w][i] ELSE alerts[i]]

IsOpen(row, b, t) ==
    /\ row # None
    /\ row.battery_id = b
    /\ row.alert_type = t
    /\ row.resolved_at = None

\* Mutants: select first, then insert, with no unique index to wait on; and no
\* wait for a resolution that is not committed.
IncidentHoldersNone(w, b, t) == {}
IncidentHoldersOpening(w, b, t) ==
    {q \in Writers \ {w} : \E i \in AlertIds :
        newAlerts[q][i] # None /\ IsOpen(newAlerts[q][i], b, t)}

\* The other writers that have inserted, updated or resolved the open alert
\* (b, t) and not yet committed: the unique index makes writer w wait for them.
IncidentHolders(w, b, t) ==
    {q \in Writers \ {w} : \E i \in AlertIds :
        /\ newAlerts[q][i] # None
        /\ IsOpen(newAlerts[q][i], b, t) \/ IsOpen(alerts[i], b, t)}

\* The other writers that have written alert i and not yet committed.
AlertHolders(w, i) == {q \in Writers \ {w} : newAlerts[q][i] # None}

UnusedId(i) == alerts[i] = None /\ \A w \in Writers : newAlerts[w][i] = None

\* uuid.uuid4(): an id that nobody uses (the least one, ids being alike).
FreshId(i) == UnusedId(i) /\ \A j \in AlertIds : UnusedId(j) => i <= j

NewAlert(b, t, severity, at) ==
    [battery_id |-> b, alert_type |-> t, severity |-> severity,
     timestamp |-> at, resolved_at |-> None]

Retained(row, severity) == [row EXCEPT !.severity = severity]

Resolved(row, at) == [row EXCEPT !.resolved_at = at]

\* INSERT ... ON CONFLICT (battery_id, alert_type) WHERE resolved = false
\* DO UPDATE: one atomic statement, which waits for another writer's row.
CreateOrRetainAlert(w, b, t, severity, at) ==
    /\ IncidentHolders(w, b, t) = {}
    /\ \/ \E i \in AlertIds :
            /\ IsOpen(AlertsSeenBy(w)[i], b, t)
            /\ newAlerts' = [newAlerts EXCEPT ![w][i] =
                                Retained(AlertsSeenBy(w)[i], severity)]
       \/ /\ \A i \in AlertIds : ~ IsOpen(AlertsSeenBy(w)[i], b, t)
          /\ \E i \in AlertIds :
                /\ FreshId(i)
                /\ newAlerts' = [newAlerts EXCEPT ![w][i] = NewAlert(b, t, severity, at)]

-----------------------------------------------------------------------------
(***************************************************************************)
(* Telemetry ingestion: POST /telemetry and POST /telemetry/batch.         *)
(***************************************************************************)

InFlight(p) == pc[p] \notin {"idle", "done", "rejected", "failed"}

Goto(p, label) == pc' = [pc EXCEPT ![p] = label]

\* A request arrives.  A retry is another request with the same body.
Arrive(p) ==
    /\ pc[p] = "idle"
    /\ \E events \in Payloads, endpoint \in {"single", "batch"} :
        /\ endpoint = "single" => Len(events) = 1
        /\ req' = [req EXCEPT ![p] = [endpoint |-> endpoint, events |-> events]]
    /\ Goto(p, "validate")
    /\ UNCHANGED <<tables, pending, inserted, latest, todo, found, detector, operator,
                   now, faults>>

Events(p) == req[p].events

EventRange(p) == {Events(p)[k] : k \in DOMAIN Events(p)}

Acceptable(p) ==
    /\ req[p].endpoint = "batch" => Len(Events(p)) <= MaxBatchSize
    /\ \A r \in EventRange(p) : r.battery_id \in Batteries

\* 413 for a batch that is too long; 404, before any row is written, when some
\* reading names a battery that is not registered.
Validate(p) ==
    /\ pc[p] = "validate"
    /\ Goto(p, IF Acceptable(p) THEN "insert" ELSE "rejected")
    /\ UNCHANGED <<tables, pending, req, inserted, latest, todo, found, detector,
                   operator, now, faults>>

Stored(rows, id) == \E r \in rows : r.event_id = id

\* Mutant: RETURNING also gives back the rows that were there already.
NewRowsAgain(p) ==
    {Events(p)[k] : k \in {k \in DOMAIN Events(p) :
        \A j \in 1..(k - 1) : Events(p)[j].event_id # Events(p)[k].event_id}}

\* INSERT ... ON CONFLICT (event_id) DO NOTHING takes, of each event_id not yet
\* stored, its first occurrence in the body.
NewRows(p) ==
    {Events(p)[k] : k \in {k \in DOMAIN Events(p) :
        /\ ~ Stored(telemetry, Events(p)[k].event_id)
        /\ \A j \in 1..(k - 1) : Events(p)[j].event_id # Events(p)[k].event_id}}

\* The requests that have inserted one of the event_ids and not yet committed.
EventHolders(p) ==
    {q \in Requests \ {p} : \E r \in EventRange(p) : Stored(newTelemetry[q], r.event_id)}

InsertTelemetry(p) ==
    /\ pc[p] = "insert"
    /\ EventHolders(p) = {}
    /\ newTelemetry' = [newTelemetry EXCEPT ![p] = NewRows(p)]
    /\ Goto(p, IF NewRows(p) = {} THEN "commit" ELSE "upsert")
    /\ UNCHANGED <<tables, newCurrent, newAlerts, req, inserted, latest, todo, found,
                   detector, operator, now, faults>>

\* The events of the body that pass `event.event_id in inserted_ids`.
Accepted(p) ==
    {k \in DOMAIN Events(p) : Stored(newTelemetry[p] \cup inserted[p], Events(p)[k].event_id)}

\* The reduction keeps, per battery, the newest timestamp and the last of equals.
IsLatest(p, k) ==
    /\ k \in Accepted(p)
    /\ \A j \in Accepted(p) : Events(p)[j].battery_id = Events(p)[k].battery_id =>
            \/ Events(p)[j].timestamp < Events(p)[k].timestamp
            \/ Events(p)[j].timestamp = Events(p)[k].timestamp /\ j <= k

Touched(p) == {Events(p)[k].battery_id : k \in Accepted(p)}

\* Mutant: a column is left out of the upsert.
RowOfNoSoc(r) == [last_seen |-> r.timestamp, status |-> r.status]

RowOf(r) == [last_seen |-> r.timestamp, state_of_charge |-> r.state_of_charge,
             status |-> r.status]

\* Mutant: the upsert has no WHERE.
UpsertedAlways(old, r) == RowOf(r)

\* The row the upsert leaves: an existing newer row is locked, not changed.
Upserted(old, r) == IF old # None /\ old.last_seen > r.timestamp THEN old ELSE RowOf(r)

\* Mutant: one rule is not called.
ChecksNoLowSoc(p) == Touched(p) \X (AlertTypes \ {"LOW_SOC"})

\* Per battery: the four rules, and DEVICE_OFFLINE, which only resolves here.
Checks(p) == Touched(p) \X AlertTypes

\* The requests that have locked one of the current-state rows it upserts.
RowHolders(p) == {q \in Requests \ {p} : \E b \in Touched(p) : newCurrent[q][b] # None}

\* Mutant: single ingestion commits early too.
AfterUpsertAlwaysCommit(p) == "commit_data"

\* Only the batch endpoint commits between the upsert and the rules.
AfterUpsert(p) == IF req[p].endpoint = "batch" THEN "commit_data" ELSE "rules"

UpsertCurrentState(p) ==
    /\ pc[p] = "upsert"
    /\ RowHolders(p) = {}
    /\ \E best \in [Touched(p) -> DOMAIN Events(p)] :
        /\ \A b \in Touched(p) : IsLatest(p, best[b]) /\ Events(p)[best[b]].battery_id = b
        /\ latest' = [latest EXCEPT ![p] =
              [b \in Batteries |-> IF b \in Touched(p) THEN Events(p)[best[b]] ELSE None]]
        /\ newCurrent' = [newCurrent EXCEPT ![p] =
              [b \in Batteries |-> IF b \in Touched(p)
                                   THEN Upserted(current[b], Events(p)[best[b]])
                                   ELSE None]]
    /\ todo' = [todo EXCEPT ![p] = Checks(p)]
    /\ Goto(p, AfterUpsert(p))
    /\ UNCHANGED <<tables, newTelemetry, newAlerts, req, inserted, found, detector,
                   operator, now, faults>>

\* session.commit(): everything this request has written becomes visible.
CommitTransaction(p) ==
    /\ telemetry' = telemetry \cup newTelemetry[p]
    /\ current' = [b \in Batteries |-> IF newCurrent[p][b] # None
                                       THEN newCurrent[p][b] ELSE current[b]]
    /\ alerts' = AlertsSeenBy(p)
    /\ inserted' = [inserted EXCEPT ![p] = @ \cup newTelemetry[p]]
    /\ newTelemetry' = [newTelemetry EXCEPT ![p] = {}]
    /\ newCurrent' = [newCurrent EXCEPT ![p] = NoStates]
    /\ newAlerts' = [newAlerts EXCEPT ![p] = NoAlerts]

\* The batch endpoint commits readings and current state before the rules run.
CommitData(p) ==
    /\ pc[p] = "commit_data"
    /\ CommitTransaction(p)
    /\ Goto(p, "rules")
    /\ UNCHANGED <<req, latest, todo, found, detector, operator, now, faults>>

\* Rules battery by battery, in their order; the offline resolutions last.
Before(x, y) ==
    LET offline(c) == c[2] = "DEVICE_OFFLINE"
    IN  \/ ~ offline(x) /\ offline(y)
        \/ /\ offline(x) <=> offline(y)
           /\ \/ x[1] < y[1]
              \/ x[1] = y[1] /\ RuleRank[x[2]] < RuleRank[y[2]]

\* Mutant: the rules run in no particular order.
NextCheckUnordered(p, c) == c \in todo[p]

NextCheck(p, c) == c \in todo[p] /\ \A d \in todo[p] : d = c \/ Before(c, d)

\* What the check of (battery, type) says of the reading this request kept.  A
\* reading accepted is all it takes to clear DEVICE_OFFLINE.
CheckVerdicts(p, c) ==
    IF c[2] = "DEVICE_OFFLINE" THEN {"CLEAR"}
    ELSE RuleVerdicts(c[2], latest[p][c[1]], NominalVoltage[c[1]],
                      telemetry \cup newTelemetry[p])

CheckDone(p, c) == todo' = [todo EXCEPT ![p] = @ \ {c}]

RaiseAlert(p, c) ==
    /\ \E severity \in CheckVerdicts(p, c) \cap Severities :
        CreateOrRetainAlert(p, c[1], c[2], severity, latest[p][c[1]].timestamp)
    /\ CheckDone(p, c)
    /\ UNCHANGED <<found>>

SkipRule(p, c) ==
    /\ "SKIP" \in CheckVerdicts(p, c)
    /\ CheckDone(p, c)
    /\ UNCHANGED <<newAlerts, found>>

\* resolve_alert_if_active, its SELECT: with nothing open there is nothing to do.
ReadOpenAlert(p, c) ==
    /\ "CLEAR" \in CheckVerdicts(p, c)
    /\ \/ /\ \A i \in AlertIds : ~ IsOpen(AlertsSeenBy(p)[i], c[1], c[2])
          /\ CheckDone(p, c)
          /\ UNCHANGED found
       \/ \E i \in AlertIds :
            /\ IsOpen(AlertsSeenBy(p)[i], c[1], c[2])
            /\ found' = [found EXCEPT ![p] = i]
            /\ UNCHANGED todo
    /\ UNCHANGED newAlerts

\* Its UPDATE, flushed with the session's next statement: by primary key,
\* whatever has become of the row since it was read.
WriteResolution(p, c) ==
    /\ AlertHolders(p, found[p]) = {}
    /\ newAlerts' = [newAlerts EXCEPT ![p][found[p]] =
          Resolved(AlertsSeenBy(p)[found[p]], latest[p][c[1]].timestamp)]
    /\ found' = [found EXCEPT ![p] = None]
    /\ CheckDone(p, c)

EvaluateRules(p) ==
    /\ pc[p] = "rules"
    /\ \E c \in todo[p] :
        /\ NextCheck(p, c)
        /\ \/ found[p] = None /\ RaiseAlert(p, c)
           \/ found[p] = None /\ SkipRule(p, c)
           \/ found[p] = None /\ ReadOpenAlert(p, c)
           \/ found[p] # None /\ WriteResolution(p, c)
    /\ UNCHANGED <<tables, newTelemetry, newCurrent, pc, req, inserted, latest, detector,
                   operator, now, faults>>

RulesEvaluated(p) ==
    /\ pc[p] = "rules"
    /\ todo[p] = {}
    /\ Goto(p, "commit")
    /\ UNCHANGED <<tables, pending, req, inserted, latest, todo, found, detector,
                   operator, now, faults>>

\* The last commit, and the answer: 201 if something was inserted, else 200.
Commit(p) ==
    /\ pc[p] = "commit"
    /\ CommitTransaction(p)
    /\ latest' = [latest EXCEPT ![p] = NoLatest]
    /\ Goto(p, "done")
    /\ UNCHANGED <<req, todo, found, detector, operator, now, faults>>

\* Mutant: the session is not closed, and its transaction stays open.
FailHoldsLocks(p) ==
    /\ InFlight(p)
    /\ failures < MaxFailures
    /\ failures' = failures + 1
    /\ todo' = [todo EXCEPT ![p] = {}]
    /\ found' = [found EXCEPT ![p] = None]
    /\ latest' = [latest EXCEPT ![p] = NoLatest]
    /\ Goto(p, "failed")
    /\ UNCHANGED <<tables, pending, req, inserted, detector, operator, now, crashes>>

\* Any exception on the way: the open transaction rolls back, and what an
\* earlier commit of the request stored stays.
Fail(p) ==
    /\ InFlight(p)
    /\ failures < MaxFailures
    /\ failures' = failures + 1
    /\ newTelemetry' = [newTelemetry EXCEPT ![p] = {}]
    /\ newCurrent' = [newCurrent EXCEPT ![p] = NoStates]
    /\ newAlerts' = [newAlerts EXCEPT ![p] = NoAlerts]
    /\ todo' = [todo EXCEPT ![p] = {}]
    /\ found' = [found EXCEPT ![p] = None]
    /\ latest' = [latest EXCEPT ![p] = NoLatest]
    /\ Goto(p, "failed")
    /\ UNCHANGED <<tables, req, inserted, detector, operator, now, crashes>>

Ingest(p) ==
    \/ Validate(p)
    \/ InsertTelemetry(p)
    \/ UpsertCurrentState(p)
    \/ CommitData(p)
    \/ EvaluateRules(p)
    \/ RulesEvaluated(p)
    \/ Commit(p)

-----------------------------------------------------------------------------
(***************************************************************************)
(* The offline detection loop: two transactions per tick.                  *)
(***************************************************************************)

\* Mutant: the threshold itself counts as silence.
IsStaleEarly(b) ==
    /\ current[b] # None
    /\ current[b].status # "OFFLINE"
    /\ current[b].last_seen <= now - OfflineThreshold

\* A row that ingestion holds locked is skipped, not waited for.
IsStale(b) ==
    /\ current[b] # None
    /\ current[b].status # "OFFLINE"
    /\ current[b].last_seen < now - OfflineThreshold

\* Mutant: a plain UPDATE, computed beside ingestion's.
RowLockedIgnored(b) == FALSE

RowLocked(b) == \E p \in Requests : newCurrent[p][b] # None

StaleBatteries == {b \in Batteries : IsStale(b) /\ ~ RowLocked(b)}

MarkedOffline(row) == [row EXCEPT !.status = "OFFLINE"]

MarkStaleBatteriesOffline ==
    /\ detPc = "sleep"
    /\ StaleBatteries # {}
    /\ current' = [b \in Batteries |-> IF b \in StaleBatteries
                                       THEN MarkedOffline(current[b])
                                       ELSE current[b]]
    /\ detTodo' = StaleBatteries
    /\ detPc' = "marked"
    /\ UNCHANGED <<telemetry, alerts, pending, locals, detNow, operator, now, faults>>

ReadClock ==
    /\ detPc = "marked"
    /\ detNow' = now
    /\ detPc' = "alerting"
    /\ UNCHANGED <<tables, pending, locals, detTodo, operator, now, faults>>

\* newly_offline_ids is sorted.
IsFirst(b) == b \in detTodo /\ \A c \in detTodo : b <= c

RaiseOffline ==
    /\ detPc = "alerting"
    /\ \E b \in detTodo :
        /\ IsFirst(b)
        /\ CreateOrRetainAlert(Detector, b, "DEVICE_OFFLINE", "WARNING", detNow)
        /\ detTodo' = detTodo \ {b}
    /\ UNCHANGED <<tables, newTelemetry, newCurrent, locals, detPc, detNow, operator, now,
                   faults>>

CommitOffline ==
    /\ detPc = "alerting"
    /\ detTodo = {}
    /\ alerts' = AlertsSeenBy(Detector)
    /\ newAlerts' = [newAlerts EXCEPT ![Detector] = NoAlerts]
    /\ detPc' = "sleep" /\ detNow' = 0
    /\ UNCHANGED <<telemetry, current, newTelemetry, newCurrent, locals, detTodo, operator,
                   now, faults>>

\* Mutant: the exception ends the loop.
DetectorDies ==
    /\ detPc # "sleep"
    /\ failures < MaxFailures
    /\ failures' = failures + 1
    /\ newAlerts' = [newAlerts EXCEPT ![Detector] = NoAlerts]
    /\ detPc' = "dead" /\ detTodo' = {} /\ detNow' = 0
    /\ UNCHANGED <<tables, newTelemetry, newCurrent, locals, operator, now, crashes>>

\* The iteration fails after its first commit: logged, and the loop goes on.
DetectorFail ==
    /\ detPc # "sleep"
    /\ failures < MaxFailures
    /\ failures' = failures + 1
    /\ newAlerts' = [newAlerts EXCEPT ![Detector] = NoAlerts]
    /\ detPc' = "sleep" /\ detTodo' = {} /\ detNow' = 0
    /\ UNCHANGED <<tables, newTelemetry, newCurrent, locals, operator, now, crashes>>

Detect == MarkStaleBatteriesOffline \/ ReadClock \/ RaiseOffline \/ CommitOffline

-----------------------------------------------------------------------------
(***************************************************************************)
(* resolve_alert: an operator resolves one alert by hand.                  *)
(***************************************************************************)

\* Its SELECT; an alert that is resolved already is returned as it is.
ReadAlert ==
    /\ opFound = None
    /\ \E i \in AlertIds :
        /\ alerts[i] # None
        /\ alerts[i].resolved_at = None
        /\ opFound' = i
    /\ opNow' = now
    /\ UNCHANGED <<tables, pending, locals, detector, now, faults>>

\* Its UPDATE and commit, by primary key.
ResolveAlert ==
    /\ opFound # None
    /\ AlertHolders(None, opFound) = {}
    /\ alerts' = [alerts EXCEPT ![opFound] = Resolved(alerts[opFound], opNow)]
    /\ opFound' = None /\ opNow' = 0
    /\ UNCHANGED <<telemetry, current, pending, locals, detector, now, faults>>

-----------------------------------------------------------------------------
\* The backend dies and comes back: every open transaction is rolled back.
Crash ==
    /\ crashes < MaxCrashes
    /\ crashes' = crashes + 1
    /\ newTelemetry' = [p \in Requests |-> {}]
    /\ newCurrent' = [p \in Requests |-> NoStates]
    /\ newAlerts' = [w \in Writers |-> NoAlerts]
    /\ pc' = [p \in Requests |-> IF InFlight(p) THEN "failed" ELSE pc[p]]
    /\ todo' = [p \in Requests |-> {}]
    /\ found' = [p \in Requests |-> None]
    /\ latest' = [p \in Requests |-> NoLatest]
    /\ detPc' = "sleep" /\ detTodo' = {} /\ detNow' = 0
    /\ opFound' = None /\ opNow' = 0
    /\ UNCHANGED <<tables, req, inserted, now, failures>>

Tick ==
    /\ now < MaxTime
    /\ now' = now + 1
    /\ UNCHANGED <<tables, pending, locals, detector, operator, faults>>

Next ==
    \/ \E p \in Requests : Arrive(p) \/ Ingest(p) \/ Fail(p)
    \/ Detect \/ DetectorFail
    \/ ReadAlert \/ ResolveAlert
    \/ Crash
    \/ Tick

Spec == Init /\ [][Next]_vars

\* The server runs what it has begun, the loop keeps ticking and time passes;
\* nobody has to send a request, and nothing has to fail.
Fairness ==
    /\ \A p \in Requests : WF_vars(Ingest(p))
    /\ WF_vars(Detect)
    /\ WF_vars(ResolveAlert)
    /\ WF_vars(Tick)

FairSpec == Spec /\ Fairness

-----------------------------------------------------------------------------
(***************************************************************************)
(* What the code promises.                                                 *)
(***************************************************************************)

Labels == {"idle", "validate", "insert", "upsert", "commit_data", "rules", "commit",
           "done", "rejected", "failed"}

\* Type correctness of the tables, of the open transactions and of the locals.
TypeOK ==
    /\ telemetry \subseteq Readings
    /\ current \in [Batteries -> StateRow \cup {None}]
    /\ alerts \in [AlertIds -> AlertRow \cup {None}]
    /\ newTelemetry \in [Requests -> SUBSET Readings]
    /\ newCurrent \in [Requests -> [Batteries -> StateRow \cup {None}]]
    /\ newAlerts \in [Writers -> [AlertIds -> AlertRow \cup {None}]]
    /\ pc \in [Requests -> Labels]
    /\ req \in [Requests -> [endpoint : {"none", "single", "batch"}, events : Seq(Readings)]]
    /\ inserted \in [Requests -> SUBSET Readings]
    /\ latest \in [Requests -> [Batteries -> Readings \cup {None}]]
    /\ todo \in [Requests -> SUBSET (Batteries \X AlertTypes)]
    /\ found \in [Requests -> AlertIds \cup {None}]
    /\ detPc \in {"sleep", "marked", "alerting"}
    /\ detTodo \subseteq Batteries
    /\ detNow \in Int
    /\ opFound \in AlertIds \cup {None}
    /\ opNow \in Int
    /\ now \in Int
    /\ failures \in Nat /\ crashes \in Nat

\* However requests, the detector and the operator interleave, a battery has at
\* most one unresolved alert of a type: the atomic upsert keeps one incident one
\* row (anomaly_detection_service.py, create_or_retain_alert).
OneOpenAlert ==
    \A i, j \in AlertIds, b \in Batteries, t \in AlertTypes :
        IsOpen(alerts[i], b, t) /\ IsOpen(alerts[j], b, t) => i = j

\* battery_current_state never jumps back and never runs ahead: it is the row of
\* a stored reading, of the newest there is, with or without the offline mark,
\* and exists exactly when a reading is stored (telemetry_service.py,
\* _upsert_current_state).
CurrentIsNewest ==
    \A b \in Batteries :
        LET rows == {r \in telemetry : r.battery_id = b}
        IN  /\ rows = {} <=> current[b] = None
            /\ rows # {} => \E r \in rows :
                  /\ \A s \in rows : s.timestamp <= r.timestamp
                  /\ current[b] \in {RowOf(r), MarkedOffline(RowOf(r))}

\* An event sent by several requests, or twice in one body, is stored once and
\* answered as inserted by one request only, whichever of them fail
\* (telemetry_service.py, ON CONFLICT DO NOTHING ... RETURNING).
StoredOnce ==
    /\ \A r, s \in telemetry : r.event_id = s.event_id => r = s
    /\ telemetry = UNION {inserted[p] : p \in Requests}
    /\ \A p, q \in Requests : p # q => inserted[p] \cap inserted[q] = {}

\* The battery reported this much wrong that a rule on the reading alone raises.
Anomalous(r, t) ==
    /\ t \in RuleTypes \ {"RAPID_DISCHARGE"}
    /\ RuleVerdicts(t, r, NominalVoltage[r.battery_id], {}) \subseteq Severities

HasIncident(b, t) ==
    \E i \in AlertIds : alerts[i] # None /\ alerts[i].battery_id = b /\ alerts[i].alert_type = t

\* Single ingestion is all or nothing: a stored reading that breaks a rule has
\* left an incident of that type, also when the backend died on the way
\* (telemetry_service.py, "one commit for both writes").
SingleStoredWithIncident ==
    \A p \in Requests : req[p].endpoint = "single" =>
        \A r \in inserted[p], t \in RuleTypes :
            Anomalous(r, t) => HasIncident(r.battery_id, t)

\* OFFLINE means silent: no battery whose newest reading is within the threshold
\* is shown as OFFLINE, though marking and ingestion race
\* (offline_detection_service.py, mark_stale_batteries_offline).
OfflineMeansSilent ==
    \A b \in Batteries :
        current[b] # None /\ current[b].status = "OFFLINE" =>
            current[b].last_seen < now - OfflineThreshold

\* An incident, once recorded, keeps its battery, type and starting time, and a
\* resolved one is history: it is not reopened and not rewritten but for the
\* time of its resolution (anomaly_detection_service.py, create_or_retain_alert:
\* distinct incidents are preserved).
IncidentsPreserved ==
    [][\A i \in AlertIds : alerts[i] # None =>
        /\ alerts'[i] # None
        /\ alerts'[i].battery_id = alerts[i].battery_id
        /\ alerts'[i].alert_type = alerts[i].alert_type
        /\ alerts'[i].timestamp = alerts[i].timestamp
        /\ alerts[i].resolved_at # None =>
              /\ alerts'[i].resolved_at # None
              /\ alerts'[i].severity = alerts[i].severity]_vars

\* When a request is answered, what its newest readings broke is an open alert,
\* at that moment, whatever resolutions ran beside it (telemetry_service.py,
\* _evaluate_rules_and_resolve_offline and the commit after it).
AnomalyOpenAtCommit ==
    [][\A p \in Requests : pc[p] = "commit" /\ pc'[p] = "done" =>
        \A b \in Batteries, t \in RuleTypes :
            latest[p][b] # None /\ Anomalous(latest[p][b], t) =>
                \E i \in AlertIds : IsOpen(alerts'[i], b, t)]_vars

\* A battery leaves OFFLINE only by a reading stored in the same commit, the one
\* its row then shows; no commit loses the mark of the detector
\* (offline_detection_service.py, SKIP LOCKED; the upsert's WHERE).
RecoveryNeedsReading ==
    [][\A b \in Batteries :
        /\ current[b] # None /\ current[b].status = "OFFLINE"
        /\ current'[b].status # "OFFLINE"
        => \E r \in telemetry' \ telemetry : r.battery_id = b /\ current'[b] = RowOf(r)]_vars

\* The writers whose uncommitted rows the next statement of w runs into.
WaitsFor(w) ==
    IF w = Detector
    THEN UNION {IncidentHolders(w, b, "DEVICE_OFFLINE") :
                   b \in {b \in detTodo : detPc = "alerting" /\ IsFirst(b)}}
    ELSE CASE pc[w] = "insert" -> EventHolders(w)
           [] pc[w] = "upsert" -> RowHolders(w)
           [] pc[w] = "rules" /\ found[w] # None -> AlertHolders(w, found[w])
           [] pc[w] = "rules" /\ found[w] = None ->
                UNION {IncidentHolders(w, c[1], c[2]) : c \in {c \in todo[w] :
                          NextCheck(w, c) /\ CheckVerdicts(w, c) \cap Severities # {}}}
           [] OTHER -> {}

\* No set of requests, with or without the detector, ever waits for itself: rows
\* and alerts are locked in one order by all (telemetry_service.py, the sorted
\* reduction that the upsert, the rules and the resolutions go through).
NoCircularWait ==
    \A S \in SUBSET Writers : S # {} => \E w \in S : WaitsFor(w) \cap S = {}

\* Every request that has begun ends, although requests wait for each other's
\* locks, and others fail while they hold them.
RequestsTerminate == \A p \in Requests : InFlight(p) ~> ~ InFlight(p)

\* A battery that has gone silent is shown OFFLINE in the end, unless it reports
\* again, although ticks fail and locked rows are skipped.
SilenceNoticed ==
    \A b \in Batteries : IsStale(b) ~> ~ IsStale(b)

-----------------------------------------------------------------------------
(***************************************************************************)
(* What a comment says and the code does not do.                           *)
(***************************************************************************)

IsOffline(b) == current[b] # None /\ current[b].status = "OFFLINE"

\* offline_detector.py: of a failed iteration, "the next tick, a few seconds
\* later, tries again": a battery marked OFFLINE gets its alert in the end.
FailedTickRetried ==
    \A b \in Batteries : IsOffline(b) ~> (~ IsOffline(b) \/ HasIncident(b, "DEVICE_OFFLINE"))

\* telemetry_service.py: "a duplicate elsewhere in the batch (already stored, or
\* repeated within this same batch) never overwrites" the current state: every
\* row of it is of a reading that was stored.
CurrentAccepted ==
    \A b \in Batteries : current[b] # None =>
        \E r \in telemetry :
            r.battery_id = b /\ current[b] \in {RowOf(r), MarkedOffline(RowOf(r))}
=============================================================================
