---------------------------- MODULE IngestionInv ----------------------------
(***************************************************************************)
(* Inductive invariants of Ingestion: what holds of open transactions, and *)
(* makes the promises about the committed tables hold at every commit.     *)
(***************************************************************************)
EXTENDS Ingestion

Validated == {"insert", "upsert", "commit_data", "rules", "commit"}

\* What the locals of a handler say of the tables while it is suspended.
BodiesRegistered ==
    \A p \in Requests : pc[p] \in Validated => \A r \in EventRange(p) : r.battery_id \in Batteries

ChecksHaveReadings ==
    \A p \in Requests : \A c \in todo[p] : latest[p][c[1]] \in Readings

ChecksOnlyAhead ==
    \A p \in Requests : todo[p] # {} => pc[p] \in {"commit_data", "rules"}

FoundExists ==
    /\ \A p \in Requests : found[p] # None => AlertsSeenBy(p)[found[p]] # None
    /\ opFound # None => alerts[opFound] # None

LocalsOK == BodiesRegistered /\ ChecksHaveReadings /\ ChecksOnlyAhead /\ FoundExists

\* No two writers hold one alert row.
AlertLocksExclusive ==
    \A w, q \in Writers, i \in AlertIds :
        newAlerts[w][i] # None /\ newAlerts[q][i] # None => w = q

\* What each writer sees has one open alert per incident, and no two writers
\* have the same incident open and uncommitted.
OneOpenSeen ==
    \A w \in Writers, i, j \in AlertIds, b \in Batteries, t \in AlertTypes :
        IsOpen(AlertsSeenBy(w)[i], b, t) /\ IsOpen(AlertsSeenBy(w)[j], b, t) => i = j

OneOpener ==
    \A w, q \in Writers, i, j \in AlertIds, b \in Batteries, t \in AlertTypes :
        IsOpen(newAlerts[w][i], b, t) /\ IsOpen(newAlerts[q][j], b, t) => w = q

\* new is a later state of the incident old.
Continues(old, new) ==
    /\ new # None
    /\ new.battery_id = old.battery_id
    /\ new.alert_type = old.alert_type
    /\ new.timestamp = old.timestamp
    /\ old.resolved_at # None => new.resolved_at # None /\ new.severity = old.severity

\* An uncommitted row continues the committed one it will replace.
PendingContinues ==
    \A w \in Writers, i \in AlertIds :
        newAlerts[w][i] # None /\ alerts[i] # None => Continues(alerts[i], newAlerts[w][i])

AlertInv ==
    /\ AlertLocksExclusive
    /\ OneOpenAlert
    /\ OneOpenSeen
    /\ OneOpener
    /\ PendingContinues

\* Uncommitted rows of telemetry are new, to the table and to each other.
StoredInv ==
    /\ StoredOnce
    /\ \A p \in Requests : \A r, s \in newTelemetry[p] : r.event_id = s.event_id => r = s
    /\ \A p \in Requests : \A r \in newTelemetry[p] : ~ Stored(telemetry, r.event_id)
    /\ \A p, q \in Requests : p # q =>
          \A r \in newTelemetry[p] : ~ Stored(newTelemetry[q], r.event_id)

-----------------------------------------------------------------------------
\* How far a request has come says what it can have written and kept.
Writing == {"commit_data", "rules", "commit"}

StagesOf(p) ==
    /\ pc[p] # "idle" => Events(p) \in Payloads
    /\ pc[p] \notin Writing \cup {"upsert"} => newTelemetry[p] = {}
    /\ pc[p] \in {"idle", "validate", "insert", "upsert"} => inserted[p] = {}
    /\ pc[p] \notin Writing => newCurrent[p] = NoStates /\ latest[p] = NoLatest
    /\ pc[p] \notin {"rules", "commit"} => newAlerts[p] = NoAlerts
    /\ newTelemetry[p] \subseteq EventRange(p)

Stages == \A p \in Requests : StagesOf(p)

\* No two requests hold one current-state row.
RowLocksExclusive ==
    \A p, q \in Requests, b \in Batteries :
        newCurrent[p][b] # None /\ newCurrent[q][b] # None => p = q

\* What a request will commit of a battery: all its new readings, and the row
\* that the newest of them leaves of the one it has locked.
NewestOf(r, rows) == r \in rows /\ \A s \in rows : s.timestamp <= r.timestamp

RowsOf(b, rows) == {r \in rows : r.battery_id = b}

PendingNewest ==
    \A p \in Requests, b \in Batteries :
        /\ newCurrent[p][b] # None =>
              \E r \in newTelemetry[p] :
                  /\ NewestOf(r, RowsOf(b, newTelemetry[p]))
                  /\ newCurrent[p][b] = Upserted(current[b], r)
        /\ pc[p] \in Writing /\ RowsOf(b, newTelemetry[p]) # {} => newCurrent[p][b] # None

\* In one body, an event_id names one reading.  The simulator draws a uuid4() for
\* every reading it makes; nothing in the backend makes sure of it.
BodiesNameReadings ==
    \A body \in Payloads : \A j, k \in DOMAIN body :
        body[j].event_id = body[k].event_id => body[j] = body[k]

CurrentInv == Stages /\ RowLocksExclusive /\ PendingNewest /\ CurrentIsNewest

\* A row that says OFFLINE is old, committed or not.
SilentRow(row) ==
    row # None /\ row.status = "OFFLINE" => row.last_seen < now - OfflineThreshold

SilentInv ==
    /\ \A b \in Batteries : SilentRow(current[b])
    /\ \A p \in Requests, b \in Batteries : SilentRow(newCurrent[p][b])

-----------------------------------------------------------------------------
\* The incident that an alert records.
Incident(row) == <<row.battery_id, row.alert_type>>

\* The reading a request has kept of a battery is of that battery.
LatestOf(p) == \A b \in Batteries : latest[p][b] # None => latest[p][b].battery_id = b

\* A request holds the alerts of checks it has done.
HeldOf(p) ==
    \A i \in AlertIds : newAlerts[p][i] # None =>
        \A d \in todo[p] : Before(Incident(newAlerts[p][i]), d)

\* The alert that a request is about to resolve is of the check it is at, and
\* that check's reading is not anomalous.
FoundOf(p) ==
    found[p] # None =>
        \E c \in todo[p] :
            /\ NextCheck(p, c)
            /\ Incident(AlertsSeenBy(p)[found[p]]) = c
            /\ ~ Anomalous(latest[p][c[1]], c[2])

\* A request that has done a check on an anomalous reading holds its open alert.
RaisedOf(p) ==
    pc[p] \in Writing =>
        \A b \in Batteries, t \in RuleTypes :
            latest[p][b] # None /\ Anomalous(latest[p][b], t) =>
                \/ <<b, t>> \in todo[p]
                \/ \E i \in AlertIds : IsOpen(newAlerts[p][i], b, t)

ChecksOf(p) == LatestOf(p) /\ HeldOf(p) /\ FoundOf(p) /\ RaisedOf(p)

\* The detector goes through the batteries in order, as requests do last.
DetectorHolds ==
    /\ detPc # "alerting" => newAlerts[Detector] = NoAlerts
    /\ \A i \in AlertIds : newAlerts[Detector][i] # None =>
          /\ newAlerts[Detector][i].alert_type = "DEVICE_OFFLINE"
          /\ \A b \in detTodo : newAlerts[Detector][i].battery_id < b

CheckInv == DetectorHolds /\ \A p \in Requests : ChecksOf(p)

\* Single ingestion keeps the one reading it stores, and stores it last.
SingleKept ==
    \A p \in Requests : req[p].endpoint = "single" =>
        /\ Len(Events(p)) = 1
        /\ pc[p] # "commit_data"
        /\ pc[p] \in Writing => \A r \in newTelemetry[p] : latest[p][r.battery_id] = r
        /\ pc[p] # "done" => inserted[p] = {}

SingleInv == SingleKept /\ SingleStoredWithIncident

IndInv == TypeOK /\ LocalsOK /\ AlertInv /\ StoredInv
          /\ CurrentInv /\ SilentInv /\ CheckInv /\ SingleInv
=============================================================================
