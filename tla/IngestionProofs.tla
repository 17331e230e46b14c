-------------------------- MODULE IngestionProofs --------------------------
(***************************************************************************)
(* Proofs about Ingestion for every set of requests, readings and bounds.  *)
(***************************************************************************)
EXTENDS IngestionInv, TLAPS

LEMMA RetainedRow ==
    ASSUME NEW row \in AlertRow, NEW severity \in Severities
    PROVE  /\ Retained(row, severity) \in AlertRow
           /\ Retained(row, severity).battery_id = row.battery_id
           /\ Retained(row, severity).alert_type = row.alert_type
           /\ Retained(row, severity).timestamp = row.timestamp
           /\ Retained(row, severity).resolved_at = row.resolved_at
BY DEF Retained, AlertRow

LEMMA ResolvedRow ==
    ASSUME NEW row \in AlertRow, NEW at \in Int
    PROVE  /\ Resolved(row, at) \in AlertRow
           /\ Resolved(row, at).battery_id = row.battery_id
           /\ Resolved(row, at).alert_type = row.alert_type
           /\ Resolved(row, at).timestamp = row.timestamp
           /\ Resolved(row, at).severity = row.severity
           /\ Resolved(row, at).resolved_at = at
BY DEF Resolved, AlertRow

LEMMA NewRow ==
    ASSUME NEW b \in Batteries, NEW t \in AlertTypes, NEW severity \in Severities, NEW at \in Int
    PROVE  /\ NewAlert(b, t, severity, at) \in AlertRow
           /\ NewAlert(b, t, severity, at).battery_id = b
           /\ NewAlert(b, t, severity, at).alert_type = t
           /\ NewAlert(b, t, severity, at).resolved_at = None
BY DEF NewAlert, AlertRow

LEMMA SeenType ==
    ASSUME TypeOK, NEW w \in Writers
    PROVE  AlertsSeenBy(w) \in [AlertIds -> AlertRow \cup {None}]
BY DEF TypeOK, AlertsSeenBy

\* The row that the create-or-retain statement writes is a row of the table.
LEMMA CreateType ==
    ASSUME TypeOK, NEW w \in Writers, NEW b \in Batteries, NEW t \in AlertTypes,
           NEW severity \in Severities, NEW at \in Int,
           CreateOrRetainAlert(w, b, t, severity, at)
    PROVE  newAlerts' \in [Writers -> [AlertIds -> AlertRow \cup {None}]]
<1>1. ASSUME NEW i \in AlertIds, IsOpen(AlertsSeenBy(w)[i], b, t),
             newAlerts' = [newAlerts EXCEPT ![w][i] = Retained(AlertsSeenBy(w)[i], severity)]
      PROVE  newAlerts' \in [Writers -> [AlertIds -> AlertRow \cup {None}]]
  <2>1. AlertsSeenBy(w)[i] \in AlertRow
    BY <1>1, SeenType DEF IsOpen
  <2>2. Retained(AlertsSeenBy(w)[i], severity) \in AlertRow
    BY <2>1, RetainedRow
  <2> QED BY <1>1, <2>2 DEF TypeOK
<1>2. ASSUME NEW i \in AlertIds,
             newAlerts' = [newAlerts EXCEPT ![w][i] = NewAlert(b, t, severity, at)]
      PROVE  newAlerts' \in [Writers -> [AlertIds -> AlertRow \cup {None}]]
  BY <1>2, NewRow DEF TypeOK
<1> QED BY <1>1, <1>2 DEF CreateOrRetainAlert

\* A commit leaves the tables with rows of their types.
LEMMA CommitType ==
    ASSUME TypeOK, NEW p \in Requests, CommitTransaction(p)
    PROVE  /\ telemetry' \subseteq Readings
           /\ current' \in [Batteries -> StateRow \cup {None}]
           /\ alerts' \in [AlertIds -> AlertRow \cup {None}]
           /\ inserted' \in [Requests -> SUBSET Readings]
           /\ newTelemetry' \in [Requests -> SUBSET Readings]
           /\ newCurrent' \in [Requests -> [Batteries -> StateRow \cup {None}]]
           /\ newAlerts' \in [Writers -> [AlertIds -> AlertRow \cup {None}]]
<1> USE DEF CommitTransaction, TypeOK, Writers
<1>1. /\ telemetry' \subseteq Readings
      /\ inserted' \in [Requests -> SUBSET Readings]
      /\ newTelemetry' \in [Requests -> SUBSET Readings]
  OBVIOUS
<1>2. current' \in [Batteries -> StateRow \cup {None}]
  OBVIOUS
<1>3. alerts' \in [AlertIds -> AlertRow \cup {None}]
  BY DEF AlertsSeenBy
<1>4. /\ newCurrent' \in [Requests -> [Batteries -> StateRow \cup {None}]]
      /\ newAlerts' \in [Writers -> [AlertIds -> AlertRow \cup {None}]]
  BY DEF NoStates, NoAlerts
<1> QED BY <1>1, <1>2, <1>3, <1>4

LEMMA ReadingFacts ==
    ASSUME TypeOK, NEW p \in Requests, NEW k \in DOMAIN Events(p)
    PROVE  /\ Events(p)[k] \in Readings
           /\ Events(p)[k] \in EventRange(p)
           /\ Events(p)[k].timestamp \in Int
           /\ RowOf(Events(p)[k]) \in StateRow
<1>1. Events(p) \in Seq(Readings)
  BY DEF TypeOK, Events
<1>2. Events(p)[k] \in Readings
  BY <1>1
<1>3. Events(p)[k] \in Reading
  BY <1>2, IngestionAssumption DEF IngestionAssumption
<1> QED BY <1>2, <1>3 DEF Reading, RowOf, StateRow, EventRange

\* The initial state is well typed, and no handler holds anything.
THEOREM InitType == Init => TypeOK /\ LocalsOK
<1> SUFFICES ASSUME Init PROVE TypeOK /\ LocalsOK OBVIOUS
<1>1. TypeOK
  BY IngestionAssumption DEF Init, TypeOK, NoStates, NoAlerts, NoLatest, Idle, Labels, Writers
<1>2. LocalsOK
  BY DEF Init, LocalsOK, BodiesRegistered, ChecksHaveReadings, ChecksOnlyAhead, FoundExists, Validated
<1> QED BY <1>1, <1>2

-----------------------------------------------------------------------------
(***************************************************************************)
(* Type correctness, with what the locals say: one lemma per action.       *)
(***************************************************************************)

LEMMA SeenSame ==
    ASSUME UNCHANGED <<alerts, newAlerts>>
    PROVE  \A w : AlertsSeenBy(w)' = AlertsSeenBy(w)
BY DEF AlertsSeenBy

LEMMA BodiesSame ==
    ASSUME BodiesRegistered, UNCHANGED req,
           \A p \in Requests : pc'[p] \in Validated => pc[p] \in Validated
    PROVE  BodiesRegistered'
BY DEF BodiesRegistered, EventRange, Events

LEMMA FoundSame ==
    ASSUME FoundExists, UNCHANGED <<alerts, newAlerts, found, opFound>>
    PROVE  FoundExists'
BY SeenSame DEF FoundExists

LEMMA ArriveType == ASSUME TypeOK, LocalsOK, NEW p \in Requests, Arrive(p) PROVE TypeOK' /\ LocalsOK'
<1> USE DEF Arrive, Goto, tables, pending, detector, operator, faults
<1>1. TypeOK'
  BY IngestionAssumption DEF TypeOK, Labels, IngestionAssumption
<1>2. BodiesRegistered'
  BY DEF TypeOK, LocalsOK, BodiesRegistered, Validated, EventRange, Events
<1>3. ChecksHaveReadings' /\ ChecksOnlyAhead'
  BY DEF TypeOK, LocalsOK, ChecksHaveReadings, ChecksOnlyAhead
<1>4. FoundExists'
  BY FoundSame DEF LocalsOK
<1> QED BY <1>1, <1>2, <1>3, <1>4 DEF LocalsOK

LEMMA ValidateType == ASSUME TypeOK, LocalsOK, NEW p \in Requests, Validate(p) PROVE TypeOK' /\ LocalsOK'
<1> USE DEF Validate, Goto, tables, pending, detector, operator, faults
<1>1. TypeOK'
  BY DEF TypeOK, Labels
<1>2. BodiesRegistered'
  <2> SUFFICES ASSUME NEW q \in Requests, pc'[q] \in Validated, NEW r \in EventRange(q)
               PROVE  r.battery_id \in Batteries
    BY DEF BodiesRegistered, EventRange, Events
  <2>1. CASE q = p
    <3>1. Acceptable(p)
      BY <2>1 DEF TypeOK, Validated
    <3> QED BY <2>1, <3>1 DEF Acceptable
  <2>2. CASE q # p
    BY <2>2 DEF TypeOK, LocalsOK, BodiesRegistered
  <2> QED BY <2>1, <2>2
<1>3. ChecksHaveReadings' /\ ChecksOnlyAhead'
  BY DEF TypeOK, LocalsOK, ChecksHaveReadings, ChecksOnlyAhead
<1>4. FoundExists'
  BY FoundSame DEF LocalsOK
<1> QED BY <1>1, <1>2, <1>3, <1>4 DEF LocalsOK

LEMMA InsertType ==
    ASSUME TypeOK, LocalsOK, NEW p \in Requests, InsertTelemetry(p)
    PROVE  TypeOK' /\ LocalsOK'
<1> USE DEF InsertTelemetry, Goto, tables, detector, operator, faults
<1>1. NewRows(p) \in SUBSET Readings
  BY ReadingFacts DEF NewRows
<1>2. TypeOK'
  BY <1>1 DEF TypeOK, Labels
<1>3. BodiesRegistered'
  BY BodiesSame DEF TypeOK, LocalsOK, Validated
<1>4. ChecksHaveReadings' /\ ChecksOnlyAhead'
  BY DEF TypeOK, LocalsOK, ChecksHaveReadings, ChecksOnlyAhead
<1>5. FoundExists'
  BY FoundSame DEF LocalsOK
<1> QED BY <1>2, <1>3, <1>4, <1>5 DEF LocalsOK

LEMMA UpsertType ==
    ASSUME TypeOK, LocalsOK, NEW p \in Requests, UpsertCurrentState(p)
    PROVE  TypeOK' /\ LocalsOK'
<1> USE DEF UpsertCurrentState, Goto, tables, detector, operator, faults
<1>1. Touched(p) \subseteq Batteries
  <2>1. \A k \in Accepted(p) : k \in DOMAIN Events(p)
    BY DEF Accepted
  <2> QED BY <2>1, ReadingFacts DEF LocalsOK, BodiesRegistered, Validated, Touched
<1>2. PICK best \in [Touched(p) -> DOMAIN Events(p)] :
        /\ latest' = [latest EXCEPT ![p] =
              [b \in Batteries |-> IF b \in Touched(p) THEN Events(p)[best[b]] ELSE None]]
        /\ newCurrent' = [newCurrent EXCEPT ![p] =
              [b \in Batteries |-> IF b \in Touched(p)
                                   THEN Upserted(current[b], Events(p)[best[b]])
                                   ELSE None]]
  OBVIOUS
<1>3. \A b \in Touched(p) : best[b] \in DOMAIN Events(p)
  BY <1>2
<1>4. \A b \in Touched(p) : Events(p)[best[b]] \in Readings
  BY <1>3, ReadingFacts
<1>5. \A b \in Touched(p) : Upserted(current[b], Events(p)[best[b]]) \in StateRow
  BY <1>1, <1>3, ReadingFacts DEF Upserted, TypeOK
<1>6. Checks(p) \subseteq Batteries \X AlertTypes
  BY <1>1 DEF Checks
<1>7. latest' \in [Requests -> [Batteries -> Readings \cup {None}]]
  BY <1>2, <1>4 DEF TypeOK
<1>8. newCurrent' \in [Requests -> [Batteries -> StateRow \cup {None}]]
  BY <1>2, <1>5 DEF TypeOK
<1>9. TypeOK'
  BY <1>6, <1>7, <1>8 DEF TypeOK, Labels, AfterUpsert
<1>10. ChecksHaveReadings'
  <2> SUFFICES ASSUME NEW q \in Requests, NEW c \in todo'[q] PROVE latest'[q][c[1]] \in Readings
    BY DEF ChecksHaveReadings
  <2>1. CASE q = p
    <3>1. c \in Checks(p)
      BY <2>1 DEF TypeOK
    <3>2. c[1] \in Touched(p)
      BY <3>1 DEF Checks
    <3> QED BY <2>1, <3>2, <1>1, <1>2, <1>4 DEF TypeOK
  <2>2. CASE q # p
    BY <2>2, <1>2 DEF LocalsOK, ChecksHaveReadings, TypeOK
  <2> QED BY <2>1, <2>2
<1>11. BodiesRegistered'
  BY BodiesSame DEF TypeOK, LocalsOK, Validated
<1>12. ChecksOnlyAhead'
  BY DEF TypeOK, LocalsOK, ChecksOnlyAhead, AfterUpsert
<1>13. FoundExists'
  BY FoundSame DEF LocalsOK
<1> QED BY <1>9, <1>10, <1>11, <1>12, <1>13 DEF LocalsOK

\* A commit turns what its writer sees into the table; nobody sees a row vanish.
LEMMA CommitSeen ==
    ASSUME TypeOK, NEW w \in Writers, alerts' = AlertsSeenBy(w),
           newAlerts' = [newAlerts EXCEPT ![w] = NoAlerts]
    PROVE  /\ AlertsSeenBy(w)' = AlertsSeenBy(w)
           /\ \A i \in AlertIds : alerts[i] # None => alerts'[i] # None
           /\ \A q \in Writers, i \in AlertIds :
                 AlertsSeenBy(q)[i] # None => AlertsSeenBy(q)'[i] # None
<1>1. \A i \in AlertIds : newAlerts'[w][i] = None
  BY DEF TypeOK, NoAlerts
<1>2. \A q \in Writers, i \in AlertIds : q # w => newAlerts'[q][i] = newAlerts[q][i]
  BY DEF TypeOK
<1>3. \A i \in AlertIds : alerts'[i] = IF newAlerts[w][i] # None THEN newAlerts[w][i] ELSE alerts[i]
  BY DEF AlertsSeenBy
<1>4. AlertsSeenBy(w)' = AlertsSeenBy(w)
  BY <1>1, SeenType DEF AlertsSeenBy
<1>5. \A i \in AlertIds : alerts[i] # None => alerts'[i] # None
  BY <1>3
<1>6. \A q \in Writers, i \in AlertIds : AlertsSeenBy(q)[i] # None => AlertsSeenBy(q)'[i] # None
  BY <1>1, <1>2, <1>3 DEF AlertsSeenBy
<1> QED BY <1>4, <1>5, <1>6

LEMMA CommitsType ==
    ASSUME TypeOK, LocalsOK, NEW p \in Requests, CommitData(p) \/ Commit(p)
    PROVE  TypeOK' /\ LocalsOK'
<1> USE DEF CommitData, Commit, Goto, detector, operator, faults
<1>1. CommitTransaction(p)
  OBVIOUS
<1>2. NoLatest \in [Batteries -> Readings \cup {None}]
  BY DEF NoLatest
<1>3. latest' \in [Requests -> [Batteries -> Readings \cup {None}]]
  BY <1>2 DEF TypeOK
<1>4. TypeOK'
  BY <1>1, <1>3, CommitType DEF TypeOK, Labels
<1>5. /\ alerts' = AlertsSeenBy(p)
      /\ newAlerts' = [newAlerts EXCEPT ![p] = NoAlerts]
      /\ p \in Writers
  BY <1>1 DEF CommitTransaction, Writers
<1>6. FoundExists'
  <2>1. \A q \in Requests : found'[q] \in AlertIds \cup {None} /\ q \in Writers
    BY DEF TypeOK, Writers
  <2>2. opFound' \in AlertIds \cup {None}
    BY DEF TypeOK
  <2> QED BY <1>5, <2>1, <2>2, CommitSeen DEF LocalsOK, FoundExists
<1>7. ChecksHaveReadings'
  <2> SUFFICES ASSUME NEW q \in Requests, NEW c \in todo'[q] PROVE latest'[q][c[1]] \in Readings
    BY DEF ChecksHaveReadings
  <2>1. latest'[q] = latest[q]
    BY DEF LocalsOK, ChecksOnlyAhead, TypeOK
  <2> QED BY <2>1 DEF LocalsOK, ChecksHaveReadings
<1>8. BodiesRegistered'
  BY BodiesSame DEF TypeOK, LocalsOK, Validated
<1>9. ChecksOnlyAhead'
  BY DEF TypeOK, LocalsOK, ChecksOnlyAhead
<1> QED BY <1>4, <1>6, <1>7, <1>8, <1>9 DEF LocalsOK

\* A writer that writes a row hides no row from anyone.
LEMMA WriteSeen ==
    ASSUME TypeOK, NEW w \in Writers, NEW i \in AlertIds, NEW row \in AlertRow,
           newAlerts' = [newAlerts EXCEPT ![w][i] = row], alerts' = alerts
    PROVE  /\ newAlerts' \in [Writers -> [AlertIds -> AlertRow \cup {None}]]
           /\ \A q \in Writers, j \in AlertIds :
                 AlertsSeenBy(q)[j] # None => AlertsSeenBy(q)'[j] # None
<1>1. newAlerts' \in [Writers -> [AlertIds -> AlertRow \cup {None}]]
  BY DEF TypeOK
<1>2. \A q \in Writers, j \in AlertIds :
         newAlerts'[q][j] = IF q = w /\ j = i THEN row ELSE newAlerts[q][j]
  BY DEF TypeOK
<1>3. row # None
  BY IngestionAssumption DEF IngestionAssumption
<1> QED BY <1>1, <1>2, <1>3 DEF AlertsSeenBy

LEMMA CreateWrites ==
    ASSUME TypeOK, NEW w \in Writers, NEW b \in Batteries, NEW t \in AlertTypes,
           NEW severity \in Severities, NEW at \in Int,
           CreateOrRetainAlert(w, b, t, severity, at)
    PROVE  \E i \in AlertIds, row \in AlertRow :
              newAlerts' = [newAlerts EXCEPT ![w][i] = row]
<1>1. ASSUME NEW i \in AlertIds, IsOpen(AlertsSeenBy(w)[i], b, t)
      PROVE  Retained(AlertsSeenBy(w)[i], severity) \in AlertRow
  <2>1. AlertsSeenBy(w)[i] \in AlertRow
    BY <1>1, SeenType DEF IsOpen
  <2> QED BY <2>1, RetainedRow
<1>2. NewAlert(b, t, severity, at) \in AlertRow
  BY NewRow
<1> QED BY <1>1, <1>2 DEF CreateOrRetainAlert

\* A check of a request is about a battery and a reading.
LEMMA CheckFacts ==
    ASSUME TypeOK, LocalsOK, NEW p \in Requests, NEW c \in todo[p]
    PROVE  /\ c[1] \in Batteries
           /\ c[2] \in AlertTypes
           /\ latest[p][c[1]].timestamp \in Int
<1>1. c \in Batteries \X AlertTypes
  BY DEF TypeOK
<1>2. latest[p][c[1]] \in Reading
  BY IngestionAssumption DEF LocalsOK, ChecksHaveReadings, IngestionAssumption
<1> QED BY <1>1, <1>2 DEF Reading

\* The four ways a check goes on: what each does to the alerts and the locals.
LEMMA CheckWrites ==
    ASSUME TypeOK, LocalsOK, NEW p \in Requests, NEW c \in todo[p],
           \/ found[p] = None /\ RaiseAlert(p, c)
           \/ found[p] # None /\ WriteResolution(p, c)
    PROVE  \E i \in AlertIds, row \in AlertRow :
              newAlerts' = [newAlerts EXCEPT ![p][i] = row]
<1>1. p \in Writers
  BY DEF Writers
<1>2. CASE RaiseAlert(p, c)
  BY <1>1, <1>2, CheckFacts, CreateWrites DEF RaiseAlert
<1>3. CASE found[p] # None /\ WriteResolution(p, c)
  <2>1. found[p] \in AlertIds
    BY <1>3 DEF TypeOK
  <2>2. AlertsSeenBy(p)[found[p]] \in AlertRow
    BY <1>1, <1>3, <2>1, SeenType DEF LocalsOK, FoundExists
  <2>3. Resolved(AlertsSeenBy(p)[found[p]], latest[p][c[1]].timestamp) \in AlertRow
    BY <2>2, CheckFacts, ResolvedRow
  <2> QED BY <1>3, <2>1, <2>3 DEF WriteResolution
<1> QED BY <1>2, <1>3

\* What evaluating a check does to the alerts, and to the checks left.
LEMMA EvaluateWrites ==
    ASSUME TypeOK, LocalsOK, NEW p \in Requests, EvaluateRules(p)
    PROVE  \/ newAlerts' = newAlerts
           \/ \E i \in AlertIds, row \in AlertRow : newAlerts' = [newAlerts EXCEPT ![p][i] = row]
<1>1. PICK c \in todo[p] :
        \/ found[p] = None /\ RaiseAlert(p, c)
        \/ found[p] = None /\ SkipRule(p, c)
        \/ found[p] = None /\ ReadOpenAlert(p, c)
        \/ found[p] # None /\ WriteResolution(p, c)
  BY DEF EvaluateRules
<1> QED BY <1>1, CheckWrites DEF SkipRule, ReadOpenAlert

LEMMA RaiseWrites ==
    ASSUME TypeOK, RaiseOffline
    PROVE  \E i \in AlertIds, row \in AlertRow :
              newAlerts' = [newAlerts EXCEPT ![Detector][i] = row]
<1>1. PICK b \in detTodo :
        CreateOrRetainAlert(Detector, b, "DEVICE_OFFLINE", "WARNING", detNow)
  BY DEF RaiseOffline
<1>2. b \in Batteries /\ detNow \in Int /\ Detector \in Writers
  BY <1>1 DEF TypeOK, Writers
<1> QED BY <1>1, <1>2, CreateWrites DEF AlertTypes, RuleTypes, Severities

LEMMA EvaluateType ==
    ASSUME TypeOK, LocalsOK, NEW p \in Requests, EvaluateRules(p)
    PROVE  TypeOK' /\ LocalsOK'
<1> USE DEF EvaluateRules, tables, detector, operator, faults
<1>1. PICK c \in todo[p] :
        \/ found[p] = None /\ RaiseAlert(p, c)
        \/ found[p] = None /\ SkipRule(p, c)
        \/ found[p] = None /\ ReadOpenAlert(p, c)
        \/ found[p] # None /\ WriteResolution(p, c)
  OBVIOUS
<1>2. p \in Writers
  BY DEF Writers
<1>3. /\ newAlerts' \in [Writers -> [AlertIds -> AlertRow \cup {None}]]
      /\ \A q \in Writers, j \in AlertIds :
            AlertsSeenBy(q)[j] # None => AlertsSeenBy(q)'[j] # None
  <2>1. CASE newAlerts' = newAlerts
    BY <2>1, SeenSame DEF TypeOK
  <2>2. CASE \E i \in AlertIds, row \in AlertRow : newAlerts' = [newAlerts EXCEPT ![p][i] = row]
    BY <2>2, <1>2, WriteSeen
  <2> QED BY <1>1, <2>1, <2>2, CheckWrites DEF SkipRule, ReadOpenAlert
<1>4. todo' \in [Requests -> SUBSET (Batteries \X AlertTypes)]
      /\ \A q \in Requests : todo'[q] \subseteq todo[q]
  <2>1. CheckDone(p, c) \/ todo' = todo
    BY <1>1 DEF RaiseAlert, SkipRule, ReadOpenAlert, WriteResolution
  <2>2. todo[p] \ {c} \in SUBSET (Batteries \X AlertTypes)
    BY DEF TypeOK
  <2>3. CASE CheckDone(p, c)
    BY <2>2, <2>3 DEF CheckDone, TypeOK
  <2>4. CASE todo' = todo
    BY <2>4 DEF TypeOK
  <2> QED BY <2>1, <2>3, <2>4
<1>5. found' \in [Requests -> AlertIds \cup {None}]
  BY <1>1 DEF RaiseAlert, SkipRule, ReadOpenAlert, WriteResolution, TypeOK
<1>6. TypeOK'
  BY <1>3, <1>4, <1>5 DEF TypeOK
<1>7. \A q \in Requests : found'[q] # None =>
          found'[q] = found[q] \/ (AlertsSeenBy(q)[found'[q]] # None)
  BY <1>1 DEF RaiseAlert, SkipRule, ReadOpenAlert, WriteResolution, TypeOK, IsOpen
<1>8. FoundExists'
  <2>1. \A q \in Requests : found'[q] # None => AlertsSeenBy(q)[found'[q]] # None
    BY <1>7 DEF LocalsOK, FoundExists
  <2> QED BY <2>1, <1>3, <1>5 DEF LocalsOK, FoundExists, Writers
<1>9. BodiesRegistered'
  BY BodiesSame DEF LocalsOK
<1>10. ChecksHaveReadings' /\ ChecksOnlyAhead'
  BY <1>4 DEF LocalsOK, ChecksHaveReadings, ChecksOnlyAhead
<1> QED BY <1>6, <1>8, <1>9, <1>10 DEF LocalsOK

LEMMA EvaluatedType ==
    ASSUME TypeOK, LocalsOK, NEW p \in Requests, RulesEvaluated(p)
    PROVE  TypeOK' /\ LocalsOK'
<1> USE DEF RulesEvaluated, Goto, tables, pending, detector, operator, faults
<1>1. TypeOK'
  BY DEF TypeOK, Labels
<1>2. BodiesRegistered'
  BY BodiesSame DEF TypeOK, LocalsOK, Validated
<1>3. ChecksHaveReadings' /\ ChecksOnlyAhead'
  BY DEF TypeOK, LocalsOK, ChecksHaveReadings, ChecksOnlyAhead
<1>4. FoundExists'
  BY FoundSame DEF LocalsOK
<1> QED BY <1>1, <1>2, <1>3, <1>4 DEF LocalsOK

\* A rollback gives back what only the writer saw.
LEMMA FailType ==
    ASSUME TypeOK, LocalsOK, NEW p \in Requests, Fail(p)
    PROVE  TypeOK' /\ LocalsOK'
<1> USE DEF Fail, Goto, tables, detector, operator
<1>1. /\ NoStates \in [Batteries -> StateRow \cup {None}]
      /\ NoAlerts \in [AlertIds -> AlertRow \cup {None}]
      /\ NoLatest \in [Batteries -> Readings \cup {None}]
      /\ p \in Writers
  BY DEF NoStates, NoAlerts, NoLatest, Writers
<1>2. TypeOK'
  BY <1>1 DEF TypeOK, Labels
<1>3. BodiesRegistered'
  BY BodiesSame DEF TypeOK, LocalsOK, Validated
<1>4. ChecksHaveReadings' /\ ChecksOnlyAhead'
  BY DEF TypeOK, LocalsOK, ChecksHaveReadings, ChecksOnlyAhead
<1>5. FoundExists'
  <2>1. \A q \in Requests : found'[q] # None => q # p /\ found'[q] = found[q]
    BY DEF TypeOK
  <2>2. \A q \in Requests : q # p => AlertsSeenBy(q)' = AlertsSeenBy(q)
    BY DEF AlertsSeenBy, TypeOK, Writers
  <2> QED BY <2>1, <2>2 DEF LocalsOK, FoundExists
<1> QED BY <1>2, <1>3, <1>4, <1>5 DEF LocalsOK

LEMMA DetectType ==
    ASSUME TypeOK, LocalsOK, Detect \/ DetectorFail
    PROVE  TypeOK' /\ LocalsOK'
<1> USE DEF locals, operator, tables, pending
<1>1. BodiesRegistered' /\ ChecksHaveReadings' /\ ChecksOnlyAhead'
  <2>1. UNCHANGED locals
    BY DEF Detect, MarkStaleBatteriesOffline, ReadClock, RaiseOffline, CommitOffline, DetectorFail
  <2> QED BY <2>1, BodiesSame DEF LocalsOK, ChecksHaveReadings, ChecksOnlyAhead
<1>2. Detector \in Writers
  BY DEF Writers
<1>3. CASE MarkStaleBatteriesOffline
  <2> USE <1>3 DEF MarkStaleBatteriesOffline, faults
  <2>1. \A b \in StaleBatteries : MarkedOffline(current[b]) \in StateRow
    <3> SUFFICES ASSUME NEW b \in StaleBatteries PROVE MarkedOffline(current[b]) \in StateRow
      OBVIOUS
    <3>1. current[b] \in StateRow
      BY DEF StaleBatteries, IsStale, TypeOK
    <3> QED BY <3>1 DEF MarkedOffline, StateRow
  <2>2. current' \in [Batteries -> StateRow \cup {None}]
    BY <2>1 DEF TypeOK
  <2>3. TypeOK'
    BY <2>2 DEF TypeOK, StaleBatteries
  <2>4. FoundExists'
    BY FoundSame DEF LocalsOK
  <2> QED BY <1>1, <2>3, <2>4 DEF LocalsOK
<1>4. CASE ReadClock
  BY <1>1, <1>4, FoundSame DEF ReadClock, faults, TypeOK, LocalsOK
<1>5. CASE RaiseOffline
  <2> USE <1>5 DEF RaiseOffline, faults
  <2>1. PICK b \in detTodo : /\ CreateOrRetainAlert(Detector, b, "DEVICE_OFFLINE", "WARNING", detNow)
                             /\ detTodo' = detTodo \ {b}
    OBVIOUS
  <2>2. b \in Batteries /\ "DEVICE_OFFLINE" \in AlertTypes /\ "WARNING" \in Severities /\ detNow \in Int
    BY DEF TypeOK, AlertTypes, Severities
  <2>3. PICK i \in AlertIds, row \in AlertRow : newAlerts' = [newAlerts EXCEPT ![Detector][i] = row]
    BY <1>2, <2>1, <2>2, CreateWrites
  <2>4. /\ newAlerts' \in [Writers -> [AlertIds -> AlertRow \cup {None}]]
        /\ \A q \in Writers, j \in AlertIds :
              AlertsSeenBy(q)[j] # None => AlertsSeenBy(q)'[j] # None
    BY <1>2, <2>3, WriteSeen
  <2>5. TypeOK'
    BY <2>1, <2>4 DEF TypeOK
  <2>6. FoundExists'
    BY <2>4 DEF LocalsOK, FoundExists, Writers, TypeOK
  <2> QED BY <1>1, <2>5, <2>6 DEF LocalsOK
<1>6. CASE CommitOffline
  <2> USE <1>6 DEF CommitOffline, faults
  <2>1. alerts' \in [AlertIds -> AlertRow \cup {None}]
    BY <1>2, SeenType
  <2>2. newAlerts' \in [Writers -> [AlertIds -> AlertRow \cup {None}]]
    BY DEF TypeOK, NoAlerts
  <2>3. TypeOK'
    BY <2>1, <2>2 DEF TypeOK
  <2>4. FoundExists'
    BY <1>2, CommitSeen DEF LocalsOK, FoundExists, Writers, TypeOK
  <2> QED BY <1>1, <2>3, <2>4 DEF LocalsOK
<1>7. CASE DetectorFail
  <2> USE <1>7 DEF DetectorFail
  <2>1. newAlerts' \in [Writers -> [AlertIds -> AlertRow \cup {None}]]
    BY DEF TypeOK, NoAlerts
  <2>2. TypeOK'
    BY <2>1 DEF TypeOK
  <2>3. \A q \in Requests : AlertsSeenBy(q)' = AlertsSeenBy(q)
    BY IngestionAssumption DEF AlertsSeenBy, TypeOK, Writers, IngestionAssumption
  <2>4. FoundExists'
    BY <2>3 DEF LocalsOK, FoundExists
  <2> QED BY <1>1, <2>2, <2>4 DEF LocalsOK
<1> QED BY <1>3, <1>4, <1>5, <1>6, <1>7 DEF Detect

LEMMA OperatorType ==
    ASSUME TypeOK, LocalsOK, ReadAlert \/ ResolveAlert
    PROVE  TypeOK' /\ LocalsOK'
<1> USE DEF locals, detector, tables, pending, faults
<1>1. BodiesRegistered' /\ ChecksHaveReadings' /\ ChecksOnlyAhead'
  BY BodiesSame DEF ReadAlert, ResolveAlert, LocalsOK, ChecksHaveReadings, ChecksOnlyAhead
<1>2. CASE ReadAlert
  <2> USE <1>2 DEF ReadAlert
  <2>1. TypeOK'
    BY DEF TypeOK
  <2>2. FoundExists'
    BY SeenSame DEF LocalsOK, FoundExists
  <2> QED BY <1>1, <2>1, <2>2 DEF LocalsOK
<1>3. CASE ResolveAlert
  <2> USE <1>3 DEF ResolveAlert
  <2>1. opFound \in AlertIds /\ alerts[opFound] \in AlertRow
    BY DEF TypeOK, LocalsOK, FoundExists
  <2>2. Resolved(alerts[opFound], opNow) \in AlertRow
    BY <2>1, ResolvedRow DEF TypeOK
  <2>3. TypeOK'
    BY <2>1, <2>2 DEF TypeOK
  <2>4. \A i \in AlertIds : alerts[i] # None => alerts'[i] # None
    BY <2>1, <2>2, IngestionAssumption DEF TypeOK, IngestionAssumption
  <2>5. FoundExists'
    BY <2>4 DEF LocalsOK, FoundExists, AlertsSeenBy, TypeOK
  <2> QED BY <1>1, <2>3, <2>5 DEF LocalsOK
<1> QED BY <1>2, <1>3

LEMMA CrashType == ASSUME TypeOK, LocalsOK, Crash PROVE TypeOK' /\ LocalsOK'
<1> USE DEF Crash, tables
<1>1. TypeOK'
  BY DEF TypeOK, NoStates, NoAlerts, NoLatest, Labels
<1>2. BodiesRegistered'
  BY BodiesSame DEF InFlight, LocalsOK, Validated, TypeOK
<1>3. ChecksHaveReadings' /\ ChecksOnlyAhead' /\ FoundExists'
  BY DEF ChecksHaveReadings, ChecksOnlyAhead, FoundExists
<1> QED BY <1>1, <1>2, <1>3 DEF LocalsOK

\* Type correctness, with what it needs of the locals, for every step.
THEOREM TypeStep == TypeOK /\ LocalsOK /\ [Next]_vars => TypeOK' /\ LocalsOK'
<1> SUFFICES ASSUME TypeOK, LocalsOK, [Next]_vars PROVE TypeOK' /\ LocalsOK'
  OBVIOUS
<1>1. CASE UNCHANGED vars
  <2> USE <1>1 DEF vars, tables, pending, locals, detector, operator, faults
  <2>1. TypeOK'
    BY DEF TypeOK
  <2>2. LocalsOK'
    BY BodiesSame, FoundSame DEF LocalsOK, ChecksHaveReadings, ChecksOnlyAhead
  <2> QED BY <2>1, <2>2
<1>2. ASSUME NEW p \in Requests, Arrive(p) \/ Ingest(p) \/ Fail(p)
      PROVE  TypeOK' /\ LocalsOK'
  BY <1>2, ArriveType, ValidateType, InsertType, UpsertType, CommitsType, EvaluateType,
     EvaluatedType, FailType DEF Ingest
<1>3. CASE Tick
  <2> USE <1>3 DEF Tick, tables, pending, locals, detector, operator, faults
  <2>1. TypeOK'
    BY DEF TypeOK
  <2>2. LocalsOK'
    BY BodiesSame, FoundSame DEF LocalsOK, ChecksHaveReadings, ChecksOnlyAhead
  <2> QED BY <2>1, <2>2
<1> QED BY <1>1, <1>2, <1>3, DetectType, OperatorType, CrashType DEF Next

\* Every reachable state of the tables, transactions and locals is well typed.
THEOREM TypeCorrect == Spec => []TypeOK
<1>1. Spec => [](TypeOK /\ LocalsOK)
  BY InitType, TypeStep, PTL DEF Spec
<1> QED BY <1>1, PTL

-----------------------------------------------------------------------------
(***************************************************************************)
(* How far a request has come says what it can have written and kept.      *)
(***************************************************************************)
LEMMA StagesFrame ==
    ASSUME NEW p \in Requests, StagesOf(p), pc'[p] = pc[p], req'[p] = req[p],
           newTelemetry'[p] = newTelemetry[p], inserted'[p] = inserted[p],
           newCurrent'[p] = newCurrent[p], latest'[p] = latest[p],
           newAlerts'[p] = newAlerts[p]
    PROVE  StagesOf(p)'
BY DEF StagesOf, EventRange, Events

\* A step of one request leaves alone what the others keep.
LEMMA StagesOthers ==
    ASSUME TypeOK, Stages, NEW p \in Requests, Arrive(p) \/ Ingest(p) \/ Fail(p),
           LocalsOK, NEW q \in Requests, q # p
    PROVE  StagesOf(q)'
<1> USE DEF Goto, tables, pending, locals
<1>1. StagesOf(q) /\ q \in Writers /\ p \in Writers
  BY DEF Stages, Writers
<1>2. CASE Arrive(p) \/ Validate(p) \/ RulesEvaluated(p)
  BY <1>1, <1>2, StagesFrame DEF Arrive, Validate, RulesEvaluated, TypeOK
<1>3. CASE InsertTelemetry(p)
  BY <1>1, <1>3, StagesFrame DEF InsertTelemetry, TypeOK
<1>4. CASE UpsertCurrentState(p)
  BY <1>1, <1>4, StagesFrame DEF UpsertCurrentState, TypeOK
<1>5. CASE CommitData(p) \/ Commit(p)
  BY <1>1, <1>5, StagesFrame DEF CommitData, Commit, CommitTransaction, TypeOK
<1>6. CASE Fail(p)
  BY <1>1, <1>6, StagesFrame DEF Fail, TypeOK
<1>7. CASE EvaluateRules(p)
  <2>1. newAlerts'[q] = newAlerts[q]
    BY <1>1, <1>7, EvaluateWrites DEF TypeOK
  <2> QED BY <1>1, <1>7, <2>1, StagesFrame DEF EvaluateRules
<1> QED BY <1>2, <1>3, <1>4, <1>5, <1>6, <1>7 DEF Ingest

LEMMA StagesSelf ==
    ASSUME TypeOK, LocalsOK, Stages, NEW p \in Requests, Arrive(p) \/ Ingest(p) \/ Fail(p)
    PROVE  StagesOf(p)'
<1> USE DEF Goto, tables, pending, locals, StagesOf, EventRange, Events, Writing
<1>1. StagesOf(p) /\ p \in Writers
  BY DEF Stages, Writers
<1>2. CASE Arrive(p)
  BY <1>1, <1>2 DEF Arrive, TypeOK
<1>3. CASE Validate(p) \/ RulesEvaluated(p)
  BY <1>1, <1>3 DEF Validate, RulesEvaluated, TypeOK
<1>4. CASE InsertTelemetry(p)
  <2>1. NewRows(p) \subseteq EventRange(p)
    BY DEF NewRows
  <2> QED BY <1>1, <1>4, <2>1 DEF InsertTelemetry, TypeOK
<1>5. CASE UpsertCurrentState(p)
  BY <1>1, <1>5 DEF UpsertCurrentState, AfterUpsert, TypeOK
<1>6. CASE CommitData(p) \/ Commit(p)
  BY <1>1, <1>6 DEF CommitData, Commit, CommitTransaction, TypeOK
<1>7. CASE Fail(p)
  BY <1>1, <1>7 DEF Fail, InFlight, TypeOK
<1>8. CASE EvaluateRules(p)
  BY <1>1, <1>8 DEF EvaluateRules
<1> QED BY <1>2, <1>3, <1>4, <1>5, <1>6, <1>7, <1>8 DEF Ingest

\* A step leaves no request with writes that belong to a statement after its own.
THEOREM StagesStep == TypeOK /\ LocalsOK /\ Stages /\ [Next]_vars => Stages'
<1> SUFFICES ASSUME TypeOK, LocalsOK, Stages, [Next]_vars, NEW q \in Requests
             PROVE  StagesOf(q)'
  BY DEF Stages
<1> USE DEF tables, pending, locals
<1>1. StagesOf(q) /\ q \in Writers /\ Detector \in Writers /\ q # Detector
  BY IngestionAssumption DEF Stages, Writers, IngestionAssumption
<1>2. CASE UNCHANGED vars
  BY <1>1, <1>2, StagesFrame DEF vars
<1>3. CASE Detect \/ DetectorFail
  <2>1. newAlerts'[q] = newAlerts[q]
    <3>1. CASE RaiseOffline
      <4>1. PICK i \in AlertIds, row \in AlertRow :
              newAlerts' = [newAlerts EXCEPT ![Detector][i] = row]
        BY <1>1, <3>1, RaiseWrites
      <4> QED BY <1>1, <4>1 DEF TypeOK
    <3>2. CASE ~ RaiseOffline
      BY <1>1, <1>3, <3>2 DEF Detect, MarkStaleBatteriesOffline, ReadClock, CommitOffline,
         DetectorFail, TypeOK
    <3> QED BY <3>1, <3>2
  <2> QED BY <1>1, <1>3, <2>1, StagesFrame DEF Detect, MarkStaleBatteriesOffline, ReadClock,
         RaiseOffline, CommitOffline, DetectorFail
<1>4. CASE ReadAlert \/ ResolveAlert \/ Tick
  BY <1>1, <1>4, StagesFrame DEF ReadAlert, ResolveAlert, Tick
<1>5. CASE Crash
  <2>1. pc'[q] \in {"idle", "done", "rejected", "failed"}
    BY <1>5 DEF Crash, InFlight
  <2>2. /\ pc'[q] = "idle" <=> pc[q] = "idle"
        /\ pc'[q] \in {"idle", "validate", "insert", "upsert"} => pc[q] = "idle"
    BY <1>5, <2>1 DEF Crash, InFlight
  <2> QED BY <1>1, <1>5, <2>1, <2>2 DEF Crash, StagesOf, Writing, EventRange, Events
<1>6. CASE \E p \in Requests : Arrive(p) \/ Ingest(p) \/ Fail(p)
  BY <1>6, StagesOthers, StagesSelf
<1> QED BY <1>2, <1>3, <1>4, <1>5, <1>6 DEF Next

LEMMA InitStages == Init => Stages
BY DEF Init, Stages, StagesOf, EventRange, Events, Writing, Writers
=============================================================================
